CONSTANTS
    None = None
    Sinks = {"d1", "d2"}
    Sources = {"e1"}
    Overlay = {"d2"}
    Comp = TRUE
    Chain <- ComposeChain
    Pool <- ComposePool
    Input <- OverlayInput
    MaxFrames = 3
    Looping = FALSE
    AsyncDepth = 2
    Vpp = "plain"
    DecDelay = 0
    EncDelay = 1
    MaxSlices = 2
    Robust = FALSE
    Fail = {}
    MaxFaults = 1
    MaxRounds = 1
SPECIFICATION FairSpec
INVARIANTS
    InOrder
    NoStall
PROPERTIES
    Termination
