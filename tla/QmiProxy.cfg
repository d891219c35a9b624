CONSTANTS
  Fds = {f1, f2}
  ServerFd = srv
  Ids = {i1}
  NoId = none
  MaxTid = 2
  ProxyTid = 255
  MaxSync = 2
  MaxCtl = 2
  MaxWire = 2
  MaxLoss = 1
  MaxRevoke = 1
SPECIFICATION FairSpec
INVARIANTS AnswerOutstanding TableFaithful MismatchExplained
PROPERTY QueueServed
CHECK_DEADLOCK FALSE
