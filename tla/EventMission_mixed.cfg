\* A non-reactive tree that asks the ground station and waits for its answer, any
\* executor, a clock that may go back, and datagrams of any origin and order.
SPECIFICATION EventSpec
CONSTANTS
    NoNode = NoNode
    NoAction = NoAction
    NoCapability = NoCapability
    NoLimit = NoLimit
    Node <- AskNode
    Root = "root"
    Kind <- AskKind
    Reactive <- MixedReactive
    Children <- AskChildren
    Parent <- AskParent
    Depth <- AskDepth
    ActionOf <- MixedActionOf
    CapabilityOf <- AskCapabilityOf
    SecondsOf <- MixedSecondsOf
    EventOf <- MixedEventOf
    Event = {"release", "arrived"}
    ActionId = {"go_a", "go_b"}
    Capability = {"nav"}
    Fact = {"sensor"}
    Sense <- Worlds
    CapabilityTable <- AskTables
    Elapse <- BackAndForth
    MaxNow = 2
    MaxWorldAge = 1
    RequireConnection = TRUE
    RequireValidState = TRUE
    EmergencyWhenAirborne = TRUE
    PauseWhenGrounded = TRUE
    AbortWhenGroundedStateInvalid = FALSE
    MaxMissionDuration = 1
    PauseWhenFactFalse = {"sensor"}
    PauseFactExempt = {}
    Enabled = TRUE
    WhitelistIp = "station"
    WhitelistPort = 5005
    Batch = 2
    MaxHeader = 64
    HeaderLength <- Lengths
    MaxInbox = 2
    Datagram <- Datagrams
    PayloadIsObject <- ObjectPayloads
INVARIANTS
    EventTypeOK
    ReleasedByStation
    ReplyIsHeard
    OutstandingIsActive
    NoOrphanedAction
    DurationRespected
    ActiveIsOutstanding
PROPERTY
    EmittedOnce
