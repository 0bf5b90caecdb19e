\* Range readings of every kind, until they are steady, for a vehicle that moves.
SPECIFICATION HeightSpec
CONSTANTS
    Value = {0, 1, 3}
    MaxJump = 2
    JumpWindow = 1
    SettleTolerance = 1
    RecoverySamples = 2
    Elapse = {0, 1}
    MaxNow = 3
    Calm = 2
    CalmValue = 0
    SourceTimeout = 1
    MaxDelta = 0
    PreferRange = TRUE
    Climb = 1
    Ceiling = 2
INVARIANTS
    HeightTypeOK
    HeightIsTrue
PROPERTIES
    ClearedByAgreement
    SteadyClears
