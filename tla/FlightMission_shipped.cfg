\* The shipped mission in any weather.
SPECIFICATION FlightSpec
CONSTANTS
    NoNode = NoNode
    NoAction = NoAction
    NoCapability = NoCapability
    NoLimit = NoLimit
    NoMode = NoMode
    Node <- ShippedNode
    Root = "root"
    Kind <- ShippedKind
    Reactive = {}
    Children <- ShippedChildren
    Parent <- ShippedParent
    Depth <- ShippedDepth
    ActionOf <- ShippedActionOf
    CapabilityOf <- ShippedCapabilityOf
    SecondsOf <- NoSeconds
    EventOf <- NoEvents
    Event = {}
    ActionId = {"takeoff", "hold", "land"}
    Capability = {"navigate", "hold", "takeoff", "land"}
    Fact = {"lcp_healthy"}
    Sense <- FlightWorlds
    CapabilityTable <- FlightTables
    Elapse = {1}
    MaxNow = 6
    MaxWorldAge = 1
    RequireConnection = TRUE
    RequireValidState = TRUE
    EmergencyWhenAirborne = TRUE
    PauseWhenGrounded = TRUE
    AbortWhenGroundedStateInvalid = TRUE
    MaxMissionDuration = 4
    PauseWhenFactFalse = {"lcp_healthy"}
    PauseFactExempt = {"land"}
    Mode = {"OFFBOARD", "MANUAL", "AUTO.LAND"}
    InvalidAction = {}
    NeedsOrigin = {}
    BadYaw = {}
    HoldSeconds <- HoldOne
    Warmup = 1
    ControlEnabled = TRUE
    RequestInterval = 0
    ServiceTimeout = 1
    Grace = 1
    Sample <- Weather
    Calm = 9
    CalmSample <- FairWeather
INVARIANTS
    FlightTypeOK
    ExecutorFollows
PROPERTIES
    FailureInFlightLands
    ArmsOnlyToTakeOff
