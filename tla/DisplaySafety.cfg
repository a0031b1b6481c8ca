SPECIFICATION Spec
CONSTANTS
    Fds = {f1, f2}
    Hwnds = {h1, h2}
    Peers = {}
    Sizes = {1}
    Frames = {o1, o2}
    None = None
    Detached = Detached
    MaxInFlight = 1
    MaxRetained = 1
    MaxWindows = 2
    MaxGeneration = 2
    MaxBacklog = 1
INVARIANTS
    RoutesNameOpenDescriptors
    OnePassPerFrame
    
    ByteBudgetsHold
SYMMETRY Symmetric
