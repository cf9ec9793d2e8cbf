CONSTANTS
    Paths = {"libmfx-gen", "libmfxhw64", "libvplswref64"}
    RT <- MCRT
    KnownPlatform = FALSE
    LegacyVersions <- MCLegacyVersions
    MaxSessions = 2
    MaxRTSessions = 3
SPECIFICATION Spec
INVARIANTS
    LibraryOutlivesSessions
CHECK_DEADLOCK FALSE
