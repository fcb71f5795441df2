CHECK_DEADLOCK FALSE
SPECIFICATION Spec
CONSTANTS
    j1 = j1
    j2 = j2
    w1 = w1
    w2 = w2
    t1 = t1
    t2 = t2
    Jobs = {j1}
    Workers = {w1}
    Tenants = {t1}
    TenantOf <- MCTenantOfOne
    SelfCommitting = {}
    BatchLimit = 2
    MaxAttempts = 2
    NoJob = NoJob
PROPERTIES
    ScheduledJobsAreKept
