SPECIFICATION FairOne
CONSTANTS
    a = a
    b = b
    Clients = {a, b}
    NoClient = NoClient
    Slots = 2
    TidLimit = 2
    MaxReq = 2
    Faults = 1
    Losses = 1
    Timeouts = 1
    NumIds = 1
    NumPorts = 3
    Width = 2
    MaxPolled = 1
    MaxTries = 1
    MaxConnects = 2
    MaxCommands = 3
    MaxGets = 3
    MaxData = 1
    MaxTroubles = 1
INVARIANTS
    Routed
    OneOwner
    
PROPERTIES
    HeldComesFree
    AllCommandsEnd
CHECK_DEADLOCK FALSE
