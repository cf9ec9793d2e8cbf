CONSTANTS
    None = None
    Sinks = {"d1"}
    Sources = {"e1", "e2"}
    Overlay = {}
    Comp = FALSE
    Chain <- FanOutChain
    Pool <- FanOutPool
    Input <- ThreeFrames
    MaxFrames = 4
    Looping = FALSE
    AsyncDepth = 1
    Vpp = "off"
    DecDelay = 0
    EncDelay = 0
    MaxSlices = 1
    Robust = FALSE
    Fail = {"error"}
    MaxFaults = 1
    MaxRounds = 1
SPECIFICATION Spec
INVARIANTS
    FrameIntact
    AllFrames
    NoFalseTimeout
    CleanedUp
PROPERTIES
    IsStream
