CONSTANTS
    Null = Null
    Libs <- MCLibs
    Configs <- MCConfigs
    MaxConfigs = 3
    MaxLength = 3
SPECIFICATION Spec
INVARIANTS
    ValidMeansSatisfied
PROPERTIES
    SpecialComplete
CHECK_DEADLOCK FALSE
