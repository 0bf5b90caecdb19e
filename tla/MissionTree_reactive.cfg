\* Reactive composites, which rewind index_ and may leave actions behind.
SPECIFICATION LiveSpec
CONSTANTS
    NoNode = NoNode
    NoAction = NoAction
    NoCapability = NoCapability
    NoLimit = NoLimit
    Node <- ReactiveNode
    Root = "root"
    Kind <- ReactiveKind
    Reactive <- ReactiveReactive
    Children <- ReactiveChildren
    Parent <- ReactiveParent
    Depth <- ReactiveDepth
    ActionOf <- ReactiveActionOf
    CapabilityOf <- ReactiveCapabilityOf
    SecondsOf <- ReactiveSecondsOf
    EventOf <- ReactiveEventOf
    Event = {"release", "arrived"}
    ActionId = {"go_a", "go_b"}
    Capability = {"nav"}
    Fact = {"sensor"}
    Sense <- Worlds
    CapabilityTable <- Tables
    Elapse = {0, 1}
    MaxNow = 4
    MaxWorldAge = 1
    RequireConnection = TRUE
    RequireValidState = TRUE
    EmergencyWhenAirborne = TRUE
    PauseWhenGrounded = TRUE
    AbortWhenGroundedStateInvalid = FALSE
    MaxMissionDuration = 2
    PauseWhenFactFalse = {"sensor"}
    PauseFactExempt = {}
INVARIANTS
    TypeOK
    PassedChildren
    FailureIsExplained
PROPERTIES
    TerminalIsFinal
    EventuallyEnds
