CONSTANTS
    None = None
    Modes <- AllModes
    WithVpp = {TRUE, FALSE}
    NumSurfaces = 3
    NumVpp = 2
    AsyncDepth = 2
    NFrames = 3
    Input = 4
    DecDelay = 1
    Fail = {"busy", "write", "error", "lost", "params", "render"}
    MaxFaults = 2
    MaxRestarts = 1
SPECIFICATION FairSpec
INVARIANTS
    SurfaceAccounting
    RenderLocks
    FrameIntact
    InOrder
PROPERTIES
    Ends
