SPECIFICATION Spec
CONSTANTS
    cohort = cohort
    acceptance = acceptance
    license = license
    i1 = i1
    i2 = i2
    i3 = i3
    w1 = w1
    w2 = w2
    t1 = t1
    t2 = t2
    DailyOrder <- MCNoCohorts
    Kinds = {license, acceptance}
    Cohorts = {}
    License = {license}
    Instances = {i1}
    Workers = {w1, w2}
    Tenants = {t1, t2}
    FailOpen = {}
    Autobegun = FALSE
    MaxTries = 2
    MaxFaults = 2
    MaxQueue = 1
INVARIANTS
    TypeOK
    SweepsDisjoint
