CONSTANTS
  Fds = {f1, f2}
  ServerFd = srv
  Ids = {i1, i2}
  NoId = none
  MaxTid = 2
  ProxyTid = 255
  MaxSync = 1
  MaxCtl = 3
  MaxWire = 2
  MaxLoss = 0
  MaxRevoke = 0
SYMMETRY Perms
SPECIFICATION Spec
INVARIANT NoLeak
