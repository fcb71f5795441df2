CHECK_DEADLOCK FALSE
SPECIFICATION FairSpec
CONSTANTS
    k1 = k1
    k2 = k2
    k3 = k3
    g1 = g1
    g2 = g2
    res = res
    eme = eme
    Unbounded = Unbounded
    NoGate = NoGate
    Keys = {k1, k2}
    Gates = {g1}
    Grants = {res, eme}
    Total <- MCTotal
    Perpetual <- MCPerpetual
    ReservedOrder <- MCReservedOrder
    EmergencyOrder <- MCEmergencyOrder
    Deltas = {3}
    Actuals = {0, 2}
    Budgets = {1}
    PlanCeiling = 4
    EnterpriseCeiling = Unbounded
    HardDeny = 3
    Legacy = {}
INVARIANTS
    TypeOK
    CreditAccounted
    SettlementsSucceed
    WaterfallSound
PROPERTIES
    DecisionsStand
    ImplementsCreditLedger
    ReservationsEnd
