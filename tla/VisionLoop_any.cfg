\* Any driver and any ground, until it is calm.
SPECIFICATION VisionSpec
CONSTANTS
    ReadySamples = 2
    StatusTimeout = 1
    OdometryTimeout = 1
    ServiceTimeout = 0
    Backlog = 1
    MaxNow = 3
    Calm = 3
    MaxStatusAge = 1
    PoseTimeout = 1
INVARIANTS
    VisionTypeOK
    AskedOnce
PROPERTIES
    ReadyIsEarned
    PreflightCompletes
    VisionResumes
