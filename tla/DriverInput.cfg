SPECIFICATION Spec
CONSTANTS
    Threads = {t1, t2}
    Numbers = {3}
    NoFd = NoFd
    Garbage = Garbage
    MaxGeneration = 2
    MaxSent = 2
INVARIANTS
    DispatchFollowsTheStream
    RegisteredQueueIsWoken

    
SYMMETRY Symmetric
CHECK_DEADLOCK FALSE
