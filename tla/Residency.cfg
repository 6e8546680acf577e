\* An upload, a live session, two short requests or repair passes, a failing load.
SPECIFICATION Spec
CONSTANTS
    Uploads = {u1}
    Sessions = {s1}
    Ttl = 1
    Windows = 1
    Turns = 1
    Requests = 2
    Failures = 1
    Never = Never
INVARIANTS
    PhasesTakeTurns
    MonitorSparesJobs
PROPERTY IdleModelsAreReleased
CHECK_DEADLOCK FALSE
