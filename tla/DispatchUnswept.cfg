SPECIFICATION FairSpec
CONSTANTS
    cohort = cohort
    acceptance = acceptance
    license = license
    i1 = i1
    i2 = i2
    i3 = i3
    w1 = w1
    w2 = w2
    t1 = t1
    t2 = t2
    DailyOrder <- MCNoCohorts
    Kinds = {acceptance}
    Cohorts = {}
    License = {}
    Instances = {i1}
    Workers = {w1}
    Tenants = {t1}
    FailOpen = {}
    Autobegun = TRUE
    MaxTries = 3
    MaxFaults = 0
    MaxQueue = 1
PROPERTIES
    EveryTenantSwept
