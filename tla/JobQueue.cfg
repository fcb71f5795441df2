CHECK_DEADLOCK FALSE
SPECIFICATION FairSpec
CONSTANTS
    j1 = j1
    j2 = j2
    w1 = w1
    w2 = w2
    t1 = t1
    t2 = t2
    Jobs = {j1, j2}
    Workers = {w1, w2}
    Tenants = {t1, t2}
    TenantOf <- MCTenantOf
    SelfCommitting = {j2}
    BatchLimit = 2
    MaxAttempts = 2
    NoJob = NoJob
INVARIANTS
    TypeOK
    SoleOwner
    EffectsAccounted
PROPERTIES
    NoResurrection
    OrphanedByLossOnly
    SettledUnlessOrphaned
    ImplementsWorkQueue
