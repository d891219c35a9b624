SPECIFICATION SpecOne
CONSTANTS
  Calls <- MCCalls
  MaxProfiles = 2
  Tries = 2
  MaxSessions = 3
  MaxFailures = 2
INVARIANTS
  
  LinkPrepared
  PinOnce
  ProfileOfPdp
  RadioDecoded
CHECK_DEADLOCK FALSE
