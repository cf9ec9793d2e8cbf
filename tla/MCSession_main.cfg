CONSTANTS
    Paths = {"libmfx-gen", "libmfxhw64"}
    RT <- MCRT
    KnownPlatform = FALSE
    LegacyVersions <- MCLegacyVersions
    MaxSessions = 3
    MaxRTSessions = 3
SPECIFICATION Spec
PROPERTIES
    AllOrNothing
INVARIANTS
    TypeOK
    HandleCount
    SessionsLive
    NoOrphans
    JoinedSameVersion
CHECK_DEADLOCK FALSE
