SPECIFICATION LiveSpec
CONSTANTS
  MaxRequests = 2
  Sequential = TRUE
  Batches <- MCBatches
  MaxFlaps = 1
  MaxGiveUps = 1
  MaxReboots = 1
INVARIANTS
  FilesOfTheMode
PROPERTY
  Converges
CHECK_DEADLOCK FALSE
