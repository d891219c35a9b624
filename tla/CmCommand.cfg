SPECIFICATION FairOne
CONSTANTS
    Tids = 2
    MaxReq = 4
    Slices = 2
    MaxInd = 1
    MaxHangups = 4
    MaxStops = 2
    MaxOrphans = 2
INVARIANTS
    
    NobodyStranded
    
    
PROPERTIES
    StopObeyed
CHECK_DEADLOCK FALSE
