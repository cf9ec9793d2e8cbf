CONSTANTS
    None = None
    Sinks = {"d1"}
    Sources = {"e1"}
    Overlay = {}
    Comp = FALSE
    Chain <- PairChain
    Pool <- FanOutPool
    Input <- LongInput
    MaxFrames = 5
    Looping = FALSE
    AsyncDepth = 2
    Vpp = "off"
    DecDelay = 0
    EncDelay = 0
    MaxSlices = 2
    Robust = TRUE
    Fail = {"hang"}
    MaxFaults = 1
    MaxRounds = 1
SPECIFICATION Spec
INVARIANTS
    RecoveryContinues
