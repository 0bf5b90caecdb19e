\* Topics that fall silent or report faults, a vehicle that does as it likes, and
\* a node that is restarted.
SPECIFICATION HealthSpec
CONSTANTS
    Sensor = {"pose"}
    Timeout <- Timeouts
    Grace = 1
    Graded <- Grades
INVARIANTS
    HealthTypeOK
    LossIsNoticed
    ReadyOnlyDisarmed
PROPERTY
    GraceIsGiven
