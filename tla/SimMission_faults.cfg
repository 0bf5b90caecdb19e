\* A mission with an alternative on the simulator: pauses of the grounded
\* platform, late events, and capabilities that fail or refuse.
SPECIFICATION SimLiveSpec
CONSTANTS
    NoNode = NoNode
    NoAction = NoAction
    NoCapability = NoCapability
    NoLimit = NoLimit
    Node <- TwoNode
    Root = "root"
    Kind <- TwoKind
    Reactive <- MixedReactive
    Children <- TwoChildren
    Parent <- TwoParent
    Depth <- TwoDepth
    ActionOf <- TwoActionOf
    CapabilityOf <- TwoCapabilityOf
    SecondsOf <- MixedSecondsOf
    EventOf <- MixedEventOf
    Event = {"release", "arrived"}
    ActionId = {"go_a", "go_b", "go_c"}
    Capability = {"nav", "hold"}
    Fact = {"sensor"}
    Sense <- GroundWorlds
    CapabilityTable <- TwoTables
    Elapse = {0, 1}
    MaxNow = 7
    MaxWorldAge = 1
    RequireConnection = TRUE
    RequireValidState = TRUE
    EmergencyWhenAirborne = TRUE
    PauseWhenGrounded = TRUE
    AbortWhenGroundedStateInvalid = FALSE
    MaxMissionDuration = NoLimit
    PauseWhenFactFalse = {"sensor"}
    PauseFactExempt = {}
    DurationOf <- TwoDurationOf
    ForeignFrame = {}
    Supply = {"unsupported", "unavailable", "available"}
    Calm = 3
    CalmSense <- CalmWorlds
INVARIANTS
    SimTypeOK
    ActiveAgrees
    WorkedFullTime
    SuccessMeansDone
PROPERTIES
    LifecycleKept
    EventuallySucceeds
