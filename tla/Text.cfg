SPECIFICATION TextSpec
CONSTANTS
    Outputs <- MCOutputs
    MaxPaste = 6
    Marker <- MCMarker
    FlushAt = 4
    ChunkBytes = 5
INVARIANTS
    LogIsTheRepairedOutput
    
    PacketsKeepPairs
CHECK_DEADLOCK FALSE
