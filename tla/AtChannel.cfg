SPECIFICATION FairSpec
CONSTANTS
    MaxCmd = 2
    Tries = 1
    Timeouts = 1
    Strays = 1
    Urcs = 1
    Quirks = 1
    Smss = 1
    Hangups = 1
    Stops = 1

    
PROPERTIES
    CommandsEnd
CHECK_DEADLOCK FALSE
