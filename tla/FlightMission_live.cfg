\* A mission and its safety landing are carried through, requests being lost.
SPECIFICATION FlightLiveSpec
CONSTANTS
    NoNode = NoNode
    NoAction = NoAction
    NoCapability = NoCapability
    NoLimit = NoLimit
    NoMode = NoMode
    Node <- RelayNode
    Root = "root"
    Kind <- RelayKind
    Reactive = {}
    Children <- RelayChildren
    Parent <- RelayParent
    Depth <- RelayDepth
    ActionOf <- RelayActionOf
    CapabilityOf <- RelayCapabilityOf
    SecondsOf <- RelaySeconds
    EventOf <- RelayEvents
    Event = {"start"}
    ActionId = {"takeoff", "bad", "go", "land"}
    Capability = {"navigate", "hold", "takeoff", "land"}
    Fact = {"lcp_healthy"}
    Sense <- FlightWorlds
    CapabilityTable <- FlightTables
    Elapse = {1}
    MaxNow = 6
    MaxWorldAge = 1
    RequireConnection = TRUE
    RequireValidState = TRUE
    EmergencyWhenAirborne = TRUE
    PauseWhenGrounded = TRUE
    AbortWhenGroundedStateInvalid = TRUE
    MaxMissionDuration = NoLimit
    PauseWhenFactFalse = {"lcp_healthy"}
    PauseFactExempt = {"land"}
    Mode = {"OFFBOARD", "MANUAL", "AUTO.LAND"}
    InvalidAction = {}
    NeedsOrigin = {"go"}
    BadYaw = {"bad"}
    HoldSeconds <- HoldOne
    Warmup = 0
    ControlEnabled = TRUE
    RequestInterval = 0
    ServiceTimeout = 1
    Grace = 1
    Sample <- Patchy
    Calm = 5
    CalmSample <- FairWeather
PROPERTIES
    SafetyLandingCompletes
    EventuallySucceeds
    SuccessOnTheGround
