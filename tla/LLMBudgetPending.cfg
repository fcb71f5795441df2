CHECK_DEADLOCK FALSE
SPECIFICATION Spec
CONSTANTS
    Sessions = {s1}
    Estimates = {2}
    Costs = {1}
    Limits = {4}
    AlertPercent = 50
    HardLimit = TRUE
    DailyLimit = 1
    Cap = 1
    Catching = {}
    MaxMonth = 1
    MaxCalls = 1
    MaxFaults = 0
    Nobody = Nobody
INVARIANT
    PendingIsInFlight
