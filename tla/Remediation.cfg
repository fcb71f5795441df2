CHECK_DEADLOCK FALSE
SPECIFICATION Spec
CONSTANTS
    r1 = r1
    r2 = r2
    Requests = {r1, r2}
    Sessions = {s1, s2}
    Savings <- MCSavings
    Grace <- MCGrace
    SafeActions = {r1}
    Threshold = 2
    FailureLimit = 1
    Existing = {r2}
    Bypass = TRUE
    RequiredRole = "admin"
    MaxDay = 3
    MaxGrace = 1
    MaxJobs = 1
    MaxCalls = 3
    MaxFaults = 1
    NoRequest = NoRequest
INVARIANTS
    TypeOK
    RunsAreLawful
    KillSwitchUnlessOverlap
    GracePeriodHasJob
