\* The same mission as a ReactiveSequence.
SPECIFICATION FlightLiveSpec
CONSTANTS
    NoNode = NoNode
    NoAction = NoAction
    NoCapability = NoCapability
    NoLimit = NoLimit
    NoMode = NoMode
    Node <- HopNode
    Root = "root"
    Kind <- HopKind
    Reactive = {"root"}
    Children <- HopChildren
    Parent <- HopParent
    Depth <- HopDepth
    ActionOf <- HopActionOf
    CapabilityOf <- HopCapabilityOf
    SecondsOf <- NoSeconds
    EventOf <- NoEvents
    Event = {}
    ActionId = {"takeoff", "go"}
    Capability = {"navigate", "hold", "takeoff", "land"}
    Fact = {"lcp_healthy"}
    Sense <- FlightWorlds
    CapabilityTable <- FlightTables
    Elapse = {1}
    MaxNow = 7
    MaxWorldAge = 1
    RequireConnection = TRUE
    RequireValidState = TRUE
    EmergencyWhenAirborne = TRUE
    PauseWhenGrounded = TRUE
    AbortWhenGroundedStateInvalid = TRUE
    MaxMissionDuration = NoLimit
    PauseWhenFactFalse = {"lcp_healthy"}
    PauseFactExempt = {"land"}
    Mode = {"OFFBOARD", "MANUAL", "AUTO.LAND"}
    InvalidAction = {}
    NeedsOrigin = {"go"}
    BadYaw = {}
    HoldSeconds <- HoldOne
    Warmup = 0
    ControlEnabled = TRUE
    RequestInterval = 0
    ServiceTimeout = 1
    Grace = 1
    Sample <- FairWeather
    Calm = 5
    CalmSample <- FairWeather
PROPERTY
    EventuallySucceeds
