SPECIFICATION Spec
CONSTANTS
    Hwnds = {h1}
    Geometries <- MCGeometries
    MaxGeneration = 2
    MaxContent = 2
    MaxWire = 2
    CrossThread = FALSE
    PromptTeardown = TRUE
    None = None
INVARIANTS
    PictureIsTheSurface
    
CHECK_DEADLOCK FALSE
