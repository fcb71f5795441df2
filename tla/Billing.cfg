CHECK_DEADLOCK FALSE
SPECIFICATION Spec
SYMMETRY Symmetry
CONSTANTS
    charge = charge
    create = create
    fail = fail
    disable = disable
    renewed = renewed
    Sessions = {s1, s2}
    Webhooks = {charge, create, fail, disable, renewed}
    Kind <- MCKind
    Tiered = {charge}
    DunningMax = 3
    MaxRetries = 1
    MaxRenewals = 1
    MaxFaults = 1
    NoEvent = NoEvent
INVARIANTS
    TypeOK
    PlanIsPaidFor
    AttentionHasRetry
    AppliedOnce
PROPERTIES
    DowngradeNeedsAllRetries
