SPECIFICATION FairSpec
CONSTANTS
    Fds = {f1, f2}
    Hwnds = {h1}
    Peers = {1}
    Sizes = {1}
    Frames = {o1}
    None = None
    Detached = Detached
    MaxInFlight = 1
    MaxRetained = 1
    MaxWindows = 1
    MaxGeneration = 2
    MaxBacklog = 1
PROPERTIES
    LatestFrameIsShown
    
