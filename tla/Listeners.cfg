SPECIFICATION FairSpec
CONSTANTS
    Kinds = {display, control}
    Numbers = {3, 4, 5}
    MaxStarts = 3
    MaxFaults = 1
    MaxLost = 1
    MaxClients = 1
    None = None
INVARIANTS
    OpenListenerIsServed
    ServedOnOwnListener
PROPERTIES
    StaleLoopSparesNewListener
    
CHECK_DEADLOCK FALSE
