SPECIFICATION FairSpec
CONSTANTS
    Pids = {p1, p2}
    None = None
    LaunchKinds = {"plain", "suspended"}
    MaxGeneration = 4
INVARIANTS
    NoStraySignal
    EveryProcessHasAnOwner
    ReadyNeedsAllThree
    SuspendedChildIsGuarded
    
PROPERTIES
    HandoffEnds
    
    StoppedProcessIsGone
