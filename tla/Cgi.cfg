SPECIFICATION Spec
CONSTANTS
  Procs = {"p", "q"}
  Levels = {"3"}
  Hosts = {"0.0.0.0"}
  Certs = {"ca"}
  Intervals = {3605}
  TomlRequests = 2
  JsonRequests = 3
  LteRequests = 2
  TomlKills = 2
  JsonKills = 1
  LteKills = 1
  MaxSplits = 1
  MaxTimeouts = 1
INVARIANTS
  
  OthersKept
  AcceptedStays
  UnreadableExplained
  ImeiOwn
PROPERTY
  QuectelBack
CHECK_DEADLOCK FALSE
