CONSTANTS
    Unset = Unset
    NullPtr = NullPtr
    WrongType = WrongType
    Names <- FullNames
    Search <- FullSearch
    LowVPL = {}
    LowMSDK = {}
    Runtime <- MCRuntime
    Flaky = {"cpu"}
    Values <- FullValues
    MaxConfigs = 1
    MaxIdx = 1
    MaxU = 15
    MaxHandles = 2
SPECIFICATION Spec
PROPERTIES
    StableRanking
INVARIANTS
    TypeOK
    PriorityOrder
    FilterSound
    SessionIsEnumerated
    HandleBalance
    NoFault
    SessionMatchesFilters
    OneRuntimePerDevice
