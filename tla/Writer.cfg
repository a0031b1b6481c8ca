SPECIFICATION FairSpec
CONSTANTS
    Fds = {f1}
    Conns = {c1, c2}
    Writers = {w1, w2}
    None = None
    Lengths = {2}
    Limit = 2
    MaxPackets = 2
    GlobalBytes = 3
    MaxSends = 2
INVARIANTS
    BytesAreConserved
    NoWriteAfterClose
PROPERTIES
    
    QueuesDrain
    BrokenConnectionsAreReleased
CHECK_DEADLOCK FALSE
