CHECK_DEADLOCK FALSE
SPECIFICATION Spec
CONSTANTS
    k1 = k1
    k2 = k2
    k3 = k3
    g1 = g1
    g2 = g2
    res = res
    eme = eme
    Unbounded = Unbounded
    NoGate = NoGate
    Keys = {k1, k2, k3}
    Gates = {g1, g2}
    Grants = {res}
    Total <- MCTotal
    Perpetual <- MCPerpetual
    ReservedOrder <- MCReservedOrder
    EmergencyOrder <- MCEmergencyOrder
    Deltas = {2}
    Actuals = {0}
    Budgets = {1, 2}
    PlanCeiling = 3
    EnterpriseCeiling = 2
    HardDeny = 2
    Legacy = {k3}
SYMMETRY Symmetry
INVARIANTS
    CeilingsHold
PROPERTIES
    AllocationWithinBudget
