\* Old healthy messages.
SPECIFICATION LcpSpec
CONSTANTS
    ReadySamples = 2
    StatusTimeout = 1
    OdometryTimeout = 1
    ServiceTimeout = 1
    Backlog = 2
    MaxNow = 5
    Calm = 9
PROPERTIES
    ReadyIsFresh
