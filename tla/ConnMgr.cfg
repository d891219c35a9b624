SPECIFICATION FairSpec
CONSTANTS
    Enabled = {"v4", "v6"}
    HasUser = TRUE
    s_9x07 = TRUE
    Addresses = {1, 2}
    Budget = 1
INVARIANTS
    
    AddressFresh
PROPERTIES
    Restored
CHECK_DEADLOCK FALSE
