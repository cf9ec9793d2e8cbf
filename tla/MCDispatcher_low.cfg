CONSTANTS
    Unset = Unset
    NullPtr = NullPtr
    WrongType = WrongType
    Names <- LowNames
    Search <- LowSearch
    LowVPL = {"genlink"}
    LowMSDK = {"hwlink"}
    Runtime <- MCRuntime
    Flaky = {"genlink"}
    Values <- LowValues
    MaxConfigs = 1
    MaxIdx = 1
    MaxU = 15
    MaxHandles = 2
SPECIFICATION Spec
INVARIANTS
    IndInv
    UniqueIndices
    DenseIndices
    DescriptionsLive
CHECK_DEADLOCK FALSE
