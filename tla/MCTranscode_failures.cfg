CONSTANTS
    None = None
    Sinks = {"d1"}
    Sources = {"e1"}
    Overlay = {}
    Comp = FALSE
    Chain <- PairChain
    Pool <- FanOutPool
    Input <- FanOutInput
    MaxFrames = 4
    Looping = TRUE
    AsyncDepth = 2
    Vpp = "double"
    DecDelay = 1
    EncDelay = 0
    MaxSlices = 2
    Robust = TRUE
    Fail = {"error", "hang", "sync", "slow"}
    MaxFaults = 2
    MaxRounds = 1
SPECIFICATION FairSpec
INVARIANTS
    TypeOK
    LockBalance
    ReadsWhatItGot
    BitstreamLeft
    NotStarved
PROPERTIES
    Termination
