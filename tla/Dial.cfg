SPECIFICATION FairSpec
CONSTANTS
  MaxFailed = 1
  MaxTroubles = 1
  MaxLeases = 1
  MaxReports = 1
  MaxPolls = 1
  MaxTimeouts = 1
INVARIANTS FailoverTold DropReported
PROPERTY Restored
