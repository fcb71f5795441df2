SPECIFICATION FairSpec
CONSTANTS
    cohort = cohort
    acceptance = acceptance
    license = license
    i1 = i1
    i2 = i2
    i3 = i3
    w1 = w1
    w2 = w2
    t1 = t1
    t2 = t2
    DailyOrder <- MCDailyOrder
    Kinds = {cohort}
    Cohorts = {cohort}
    License = {}
    Instances = {i1, i2, i3}
    Workers = {w1, w2}
    Tenants = {t1}
    FailOpen = {i3}
    Autobegun = TRUE
    MaxTries = 2
    MaxFaults = 2
    MaxQueue = 2
INVARIANTS
    DispatchesCounted
PROPERTIES
    TasksKeepComing
