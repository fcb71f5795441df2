CHECK_DEADLOCK FALSE
SPECIFICATION Spec
SYMMETRY Symmetry
CONSTANTS
    Sessions = {s1, s2}
    Estimates = {2}
    Costs = {1, 3}
    Limits = {3, 4}
    AlertPercent = 50
    HardLimit = TRUE
    DailyLimit = 1
    Cap = 1
    Catching = {s1, s2}
    MaxMonth = 2
    MaxCalls = 3
    MaxFaults = 1
    Nobody = Nobody
INVARIANTS
    TypeOK
    MoneyAccounted
    AnalysesAccounted
    ThresholdReported
