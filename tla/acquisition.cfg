SPECIFICATION Spec
CONSTANTS
    Release = 1
    MaxFiles = 2
    MaxBytes = 4
    StreamSlack = 6
    MaxU64 = 10
    Trailer = 2
    Plans <- TestPlans
    Contents <- Archives
    TrustedKeys = {"old", "new"}
    Shells <- TestShells
    ManifestMax = 1
    MaxMishaps = 2
    Nothing = Nothing
INVARIANTS
    StagedIsOneRelease
    StagedKeepsBase
    FullProgressShown
    OnlyAcceptable
    LimitsAreInclusive
    CapsHold
PROPERTIES
    LastReleaseArrives
