SPECIFICATION Spec
CONSTANTS
  MaxRequests = 2
  Sequential = FALSE
  Batches <- MCNoBatches
  MaxFlaps = 1
  MaxGiveUps = 0
  MaxReboots = 0
INVARIANT
  OneConcentrator
CHECK_DEADLOCK FALSE
