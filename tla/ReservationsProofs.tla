------------------------- MODULE ReservationsProofs -------------------------
(***************************************************************************)
(* Proofs for Waterfall and Reservations: what the waterfall promises, for *)
(* every mode, requested amount and headroom, and what the gate makes of   *)
(* it, for any keys, gates, grants, amounts, budgets and ceilings.         *)
(***************************************************************************)
EXTENDS Reservations, Sums

-----------------------------------------------------------------------------
(***************************************************************************)
(* The waterfall.                                                          *)
(***************************************************************************)

\* Each stage takes a share that is at least zero, within its headroom and
\* within what the earlier stages left; the shares and the unfunded rest add
\* up to the funding target (the quantities of evaluate_entitlement_waterfall).
LEMMA Stages ==
    ASSUME NEW requested \in Nat, NEW h \in Headrooms
    PROVE  /\ FundingTarget(requested, h) \in 0..requested
           /\ Within(FundingTarget(requested, h), h.enterprise)
           /\ AllocationShare(requested, h) \in 0..FundingTarget(requested, h)
           /\ Within(AllocationShare(requested, h), h.allocation)
           /\ ReservedShare(requested, h) \in 0..Clamp(h.reserved)
           /\ EmergencyShare(requested, h) \in 0..Clamp(h.emergency)
           /\ Unfunded(requested, h) \in Nat
           /\ AllocationShare(requested, h) + ReservedShare(requested, h)
                + EmergencyShare(requested, h) + Unfunded(requested, h)
              = IF h.allocation = Unbounded THEN 0 ELSE FundingTarget(requested, h)
<1>1. /\ h.enterprise \in Int \cup {Unbounded}
      /\ h.allocation \in Int \cup {Unbounded}
      /\ h.reserved \in Int
      /\ h.emergency \in Int
  BY DEF Headrooms
<1>2. \A x \in Int : Clamp(x) \in Nat /\ (x >= 0 => Clamp(x) = x)
  BY DEF Clamp
<1>3. \A a, b \in Nat : /\ Smaller(a, b) \in Nat
                        /\ Smaller(a, b) <= a /\ Smaller(a, b) <= b
  BY DEF Smaller
<1>4. FundingTarget(requested, h) \in 0..requested
  <2>1. CASE h.enterprise = Unbounded
    BY <2>1 DEF FundingTarget
  <2>2. CASE h.enterprise # Unbounded
    <3>1. Clamp(h.enterprise) \in Nat
      BY <2>2, <1>1, <1>2
    <3> QED
      BY <2>2, <3>1 DEF FundingTarget, Smaller
  <2> QED
    BY <2>1, <2>2
<1>5. Within(FundingTarget(requested, h), h.enterprise)
  BY <1>1, <1>2, <1>3 DEF FundingTarget, Within
<1>6. /\ AllocationShare(requested, h) \in 0..FundingTarget(requested, h)
      /\ Within(AllocationShare(requested, h), h.allocation)
  <2>1. CASE h.allocation = Unbounded
    BY <2>1, <1>4 DEF AllocationShare, Within
  <2>2. CASE h.allocation # Unbounded
    <3>1. Clamp(h.allocation) \in Nat
      BY <2>2, <1>1, <1>2
    <3> QED
      BY <2>2, <3>1, <1>4 DEF AllocationShare, Within, Smaller
  <2> QED
    BY <2>1, <2>2
<1>7. /\ AfterAllocation(requested, h) \in Nat
      /\ AllocationShare(requested, h) + AfterAllocation(requested, h)
           = IF h.allocation = Unbounded THEN 0 ELSE FundingTarget(requested, h)
  BY <1>4, <1>6 DEF AfterAllocation, AllocationShare
<1>8. /\ ReservedShare(requested, h) \in 0..Clamp(h.reserved)
      /\ AfterReserved(requested, h) \in Nat
      /\ ReservedShare(requested, h) + AfterReserved(requested, h)
           = AfterAllocation(requested, h)
  <2>1. Clamp(h.reserved) \in Nat
    BY <1>1, <1>2
  <2> QED
    BY <2>1, <1>7 DEF ReservedShare, AfterReserved, Smaller
<1>9. /\ EmergencyShare(requested, h) \in 0..Clamp(h.emergency)
      /\ Unfunded(requested, h) \in Nat
      /\ EmergencyShare(requested, h) + Unfunded(requested, h)
           = AfterReserved(requested, h)
  <2>1. Clamp(h.emergency) \in Nat
    BY <1>1, <1>2
  <2> QED
    BY <2>1, <1>8 DEF EmergencyShare, Unfunded, Smaller
<1>10. AllocationShare(requested, h) + ReservedShare(requested, h)
         + EmergencyShare(requested, h) + Unfunded(requested, h)
       = IF h.allocation = Unbounded THEN 0 ELSE FundingTarget(requested, h)
  <2>1. /\ AllocationShare(requested, h) \in Nat
        /\ ReservedShare(requested, h) \in Nat
        /\ EmergencyShare(requested, h) \in Nat
    BY <1>1, <1>2, <1>4, <1>6, <1>8, <1>9
  <2> QED
    BY <2>1, <1>7, <1>8, <1>9
<1> QED
  BY <1>4, <1>5, <1>6, <1>8, <1>9, <1>10

\* An unbounded allocation leaves nothing for the credit pools.
LEMMA UnboundedAllocation ==
    ASSUME NEW requested \in Nat, NEW h \in Headrooms, h.allocation = Unbounded
    PROVE  /\ AllocationShare(requested, h) = 0
           /\ ReservedShare(requested, h) = 0
           /\ EmergencyShare(requested, h) = 0
           /\ Unfunded(requested, h) = 0
<1>1. /\ Clamp(h.reserved) \in Nat
      /\ Clamp(h.emergency) \in Nat
  BY DEF Headrooms, Clamp
<1>2. AllocationShare(requested, h) = 0 /\ AfterAllocation(requested, h) = 0
  BY DEF AllocationShare, AfterAllocation
<1>3. ReservedShare(requested, h) = 0 /\ AfterReserved(requested, h) = 0
  BY <1>1, <1>2 DEF ReservedShare, AfterReserved, Smaller
<1>4. EmergencyShare(requested, h) = 0 /\ Unfunded(requested, h) = 0
  BY <1>1, <1>3 DEF EmergencyShare, Unfunded, Smaller
<1> QED
  BY <1>2, <1>3, <1>4

\* evaluate_entitlement_waterfall never reserves beyond a headroom, the
\* request, the plan limit or the enterprise ceiling.
THEOREM HeadroomsRespected ==
    ASSUME NEW mode \in Modes, NEW requested \in Nat, NEW h \in Headrooms
    PROVE  WithinHeadrooms(mode, requested, h)
<1> DEFINE r == EvaluateEntitlementWaterfall(mode, requested, h)
           keep == Keeps(mode, Violated(requested, h))
           A == AllocationShare(requested, h)
           R == ReservedShare(requested, h)
           E == EmergencyShare(requested, h)
           F == FundingTarget(requested, h)
<1>1. /\ r.allocation = IF keep THEN A ELSE 0
      /\ r.reserved = IF keep THEN R ELSE 0
      /\ r.emergency = IF keep THEN E ELSE 0
  BY DEF EvaluateEntitlementWaterfall
<1>2. /\ h.plan \in Int \cup {Unbounded}
      /\ h.enterprise \in Int \cup {Unbounded}
      /\ h.allocation \in Int \cup {Unbounded}
      /\ Clamp(h.reserved) \in Nat /\ Clamp(h.emergency) \in Nat
      /\ \A x \in Int : Clamp(x) \in Nat
  BY DEF Headrooms, Clamp
<1>3. A \in Nat /\ R \in Nat /\ E \in Nat /\ F \in Nat /\ F <= requested
      /\ R <= Clamp(h.reserved) /\ E <= Clamp(h.emergency)
  BY Stages, <1>2
<1>4. A + R + E <= F
  <2>1. Unfunded(requested, h) \in Nat
    BY Stages
  <2>2. A + R + E + Unfunded(requested, h)
          = IF h.allocation = Unbounded THEN 0 ELSE F
    BY Stages
  <2> QED
    BY <2>1, <2>2, <1>3
<1>5. Within(A, h.allocation) /\ Within(F, h.enterprise)
  BY Stages
<1>6. CASE ~keep
  <2>1. r.allocation = 0 /\ r.reserved = 0 /\ r.emergency = 0
    BY <1>1, <1>6
  <2>2. /\ Within(0, h.plan)
        /\ Within(0, h.enterprise)
        /\ Within(0, h.allocation)
    BY <1>2 DEF Within
  <2>3. Reserves(r) = 0
    BY <2>1 DEF Reserves
  <2> HIDE DEF r
  <2> QED
    BY <2>1, <2>2, <2>3, <1>2 DEF WithinHeadrooms, r
<1>7. CASE keep
  <2>1. r.allocation = A /\ r.reserved = R /\ r.emergency = E
    BY <1>1, <1>7
  <2>2. Within(requested, h.plan)
    <3> SUFFICES ASSUME ~Within(requested, h.plan) PROVE FALSE
      OBVIOUS
    <3>1. Violated(requested, h) = "plan_limit_exceeded"
      BY DEF Violated
    <3> QED
      BY <3>1, <1>7 DEF Keeps
  <2>3. Within(A + R + E, h.plan)
    BY <2>2, <1>2, <1>3, <1>4 DEF Within
  <2>4. Within(A + R + E, h.enterprise)
    BY <1>2, <1>3, <1>4, <1>5 DEF Within
  <2> HIDE DEF A, R, E, F, keep, r
  <2> QED
    BY <2>1, <2>3, <2>4, <1>3, <1>4, <1>5 DEF WithinHeadrooms, Reserves, r
<1> QED
  BY <1>6, <1>7

\* Outside shadow mode evaluate_entitlement_waterfall allows at once only what
\* it funded in full, and a denied request reserves nothing.
THEOREM FundedWhenAllowed ==
    ASSUME NEW mode \in Modes, NEW requested \in Nat, NEW h \in Headrooms
    PROVE  AllowedIsFunded(mode, requested, h)
<1> DEFINE r == EvaluateEntitlementWaterfall(mode, requested, h)
           reason == Violated(requested, h)
           A == AllocationShare(requested, h)
           R == ReservedShare(requested, h)
           E == EmergencyShare(requested, h)
<1>1. /\ reason # "none" => r.decision = ModeViolationDecision(mode)
      /\ reason = "none" => r.decision \in {"allow", "allow_with_credits"}
      /\ r.allocation = IF Keeps(mode, reason) THEN A ELSE 0
      /\ r.reserved = IF Keeps(mode, reason) THEN R ELSE 0
      /\ r.emergency = IF Keeps(mode, reason) THEN E ELSE 0
  BY DEF EvaluateEntitlementWaterfall
<1>2. ModeViolationDecision(mode) \in {"allow", "allow_with_credits"}
        => mode = "shadow"
  BY DEF ModeViolationDecision, Modes
<1>3. ModeViolationDecision(mode) = "deny" => mode = "hard"
  BY DEF ModeViolationDecision, Modes
<1>4. ASSUME mode # "shadow", r.decision \in {"allow", "allow_with_credits"}
      PROVE  /\ Within(requested, h.plan)
             /\ Within(requested, h.enterprise)
             /\ h.allocation = Unbounded \/ Reserves(r) = requested
  <2>1. reason = "none"
    BY <1>1, <1>2, <1>4
  <2>2. /\ Within(requested, h.plan)
        /\ Within(requested, h.enterprise)
        /\ ~(Unfunded(requested, h) > 0)
    BY <2>1 DEF Violated
  <2>3. Unfunded(requested, h) = 0
    BY <2>2, Stages
  <2>4. FundingTarget(requested, h) = requested
    BY <2>2 DEF FundingTarget, Within, Smaller, Clamp, Headrooms
  <2>5. h.allocation = Unbounded \/ A + R + E = requested
    <3>1. A + R + E + Unfunded(requested, h)
            = IF h.allocation = Unbounded THEN 0 ELSE requested
      BY Stages, <2>4
    <3>2. A \in Int /\ R \in Int /\ E \in Int
      BY Stages DEF Headrooms, Clamp
    <3> QED
      BY <3>1, <3>2, <2>3
  <2>6. r.allocation = A /\ r.reserved = R /\ r.emergency = E
    BY <1>1, <2>1 DEF Keeps
  <2> QED
    BY <2>2, <2>5, <2>6 DEF Reserves
<1>5. ASSUME r.decision = "deny"
      PROVE  Reserves(r) = 0
  <2>1. reason # "none" /\ mode = "hard"
    BY <1>1, <1>3, <1>5
  <2>2. ~Keeps(mode, reason)
    BY <2>1 DEF Keeps
  <2> QED
    BY <1>1, <2>2 DEF Reserves
<1> QED
  BY <1>4, <1>5 DEF AllowedIsFunded

\* evaluate_entitlement_waterfall draws on a stage only when the ones before
\* it are used up.
THEOREM LastResort ==
    ASSUME NEW mode \in Modes, NEW requested \in Nat, NEW h \in Headrooms
    PROVE  StagesInOrder(mode, requested, h)
<1> DEFINE r == EvaluateEntitlementWaterfall(mode, requested, h)
           keep == Keeps(mode, Violated(requested, h))
           A == AllocationShare(requested, h)
           R == ReservedShare(requested, h)
           E == EmergencyShare(requested, h)
<1>1. /\ r.allocation = IF keep THEN A ELSE 0
      /\ r.reserved = IF keep THEN R ELSE 0
      /\ r.emergency = IF keep THEN E ELSE 0
  BY DEF EvaluateEntitlementWaterfall
<1>2. /\ Clamp(h.reserved) \in Nat /\ Clamp(h.emergency) \in Nat
      /\ h.allocation # Unbounded => Clamp(h.allocation) \in Nat
  BY DEF Headrooms, Clamp
<1>3. A \in Nat /\ R \in Nat /\ E \in Nat /\ FundingTarget(requested, h) \in Nat
  BY Stages, <1>2
<1>4. R + E > 0 => h.allocation # Unbounded /\ A = Clamp(h.allocation)
  <2>1. ASSUME R + E > 0, h.allocation = Unbounded PROVE FALSE
    BY <2>1, UnboundedAllocation
  <2>2. ASSUME R + E > 0, h.allocation # Unbounded PROVE A = Clamp(h.allocation)
    <3>1. AfterAllocation(requested, h) = FundingTarget(requested, h) - A
      BY <2>2 DEF AfterAllocation
    <3>2. A = Smaller(FundingTarget(requested, h), Clamp(h.allocation))
      BY <2>2 DEF AllocationShare
    <3>3. CASE FundingTarget(requested, h) <= Clamp(h.allocation)
      <4>1. AfterAllocation(requested, h) = 0
        BY <3>1, <3>2, <3>3, <1>3 DEF Smaller
      <4>2. R = 0 /\ AfterReserved(requested, h) = 0
        BY <4>1, <1>2 DEF ReservedShare, AfterReserved, Smaller
      <4>3. E = 0
        BY <4>2, <1>2 DEF EmergencyShare, Smaller
      <4> QED
        BY <4>2, <4>3, <2>2
    <3>4. CASE ~(FundingTarget(requested, h) <= Clamp(h.allocation))
      BY <3>2, <3>4 DEF Smaller
    <3> QED
      BY <3>3, <3>4
  <2> QED
    BY <2>1, <2>2
<1>5. E > 0 => R = Clamp(h.reserved)
  <2> SUFFICES ASSUME E > 0 PROVE R = Clamp(h.reserved)
    OBVIOUS
  <2>1. R = Smaller(AfterAllocation(requested, h), Clamp(h.reserved))
    BY DEF ReservedShare
  <2>2. CASE AfterAllocation(requested, h) <= Clamp(h.reserved)
    <3>1. R = AfterAllocation(requested, h)
      BY <2>1, <2>2 DEF Smaller
    <3>2. AfterReserved(requested, h) = 0
      BY <3>1, <1>3 DEF AfterReserved
    <3>3. E = 0
      BY <3>2, <1>2 DEF EmergencyShare, Smaller
    <3> QED
      BY <3>3
  <2>3. CASE ~(AfterAllocation(requested, h) <= Clamp(h.reserved))
    BY <2>1, <2>3 DEF Smaller
  <2> QED
    BY <2>2, <2>3
<1>6. CASE keep
  <2>1. r.allocation = A /\ r.reserved = R /\ r.emergency = E
    BY <1>1, <1>6
  <2> QED
    BY <2>1, <1>4, <1>5 DEF StagesInOrder
<1>7. CASE ~keep
  <2>1. r.allocation = 0 /\ r.reserved = 0 /\ r.emergency = 0
    BY <1>1, <1>7
  <2> QED
    BY <2>1 DEF StagesInOrder
<1> QED
  BY <1>6, <1>7

-----------------------------------------------------------------------------
(***************************************************************************)
(* The inductive invariant of the gate and of what settles its             *)
(* reservations.                                                           *)
(***************************************************************************)

Hold == [held : Nat, consumed : Nat]

\* An evaluation, by how far it has read.
GateState ==
    {Idle}
      \cup [pc : {"locked"}, key : Keys, fresh : SUBSET Grants]
      \cup [pc : {"totals"}, key : Keys, fresh : SUBSET Grants, alloc : Nat, credit : Nat]
      \cup [pc : {"ready"}, key : Keys, fresh : SUBSET Grants, alloc : Nat, credit : Nat,
            budget : Budgets, reserved : Nat, emergency : Nat, held : Nat]

Typed ==
    /\ decision \in [Keys -> Decision]
    /\ grant \in [Grants -> Grant]
    /\ link \in [Keys -> [Grants -> Hold]]
    /\ budget \in Budgets
    /\ gate \in [Gates -> GateState]
    /\ lock \in Gates \cup {NoGate}

\* What the keys hold and have consumed of grant c.
Used(l, c) == Sum([k \in Keys |-> l[k][c].held + l[k][c].consumed], Keys)

\* GrantConserved, and a grant that was not issued has nothing.
Conserved ==
    \A c \in Grants :
        grant[c].remaining + Used(link, c) = IF grant[c].exists THEN Total[c] ELSE 0

\* CreditIsMapped; a decision without allocation rows never gets any, and an undecided
\* key is not active.
Mapped ==
    /\ CreditIsMapped
    /\ \A k \in Legacy : /\ decision[k].type # "absent"
                         /\ \A c \in Grants : link[k][c].held = 0
    /\ \A k \in Keys : decision[k].type = "absent" => ~decision[k].active

\* An evaluation under way holds the lock, and the totals it has read are no less than the
\* month's.
Serialised ==
    \A g \in Gates :
        /\ gate[g] # Idle => lock = g
        /\ gate[g].pc \in {"totals", "ready"}
             => /\ ReservedAllocTotal <= gate[g].alloc
                /\ ReservedCreditTotal <= gate[g].credit

IInv == Typed /\ Conserved /\ Mapped /\ Serialised /\ CeilingsHold

-----------------------------------------------------------------------------
(***************************************************************************)
(* The model's sums and the amounts Fill draws.                            *)
(***************************************************************************)

LEMMA Arithmetic ==
    /\ \A x \in Int : Clamp(x) \in Nat /\ (x >= 0 => Clamp(x) = x)
    /\ \A a, b \in Nat : Smaller(a, b) \in Nat /\ Smaller(a, b) <= a /\ Smaller(a, b) <= b
BY DEF Clamp, Smaller

\* A grant gives at most what it has, and nothing when it is not in the order.
LEMMA FillBounds ==
    ASSUME NEW order \in Seq(Grants), NEW avail \in [Grants -> Nat], NEW target \in Int
    PROVE  /\ Fill(order, avail, target) \in [Grants -> Nat]
           /\ \A c \in Grants :
                 /\ Fill(order, avail, target)[c] <= avail[c]
                 /\ (\A i \in DOMAIN order : order[i] # c)
                      => Fill(order, avail, target)[c] = 0
<1> DEFINE At(c) == {i \in DOMAIN order : order[i] = c}
           Before(i) == Sum([j \in DOMAIN order |-> avail[order[j]]], 1..(i - 1))
           Give(c) == IF At(c) = {} THEN 0
                      ELSE Smaller(avail[c], Clamp(target - Before(CHOOSE i \in At(c) : TRUE)))
<1>1. Fill(order, avail, target) = [c \in Grants |-> Give(c)]
  BY DEF Fill
<1>2. ASSUME NEW i \in DOMAIN order
      PROVE  Before(i) \in Int
  <2>1. /\ DOMAIN order = 1..Len(order) /\ Len(order) \in Nat
        /\ \A j \in DOMAIN order : order[j] \in Grants
    OBVIOUS
  <2>2. IsFiniteSet(1..(i - 1))
    BY <2>1, FS_Interval
  <2>3. \A j \in 1..(i - 1) : [n \in DOMAIN order |-> avail[order[n]]][j] \in Int
    BY <2>1
  <2> QED
    BY <2>2, <2>3, SumRemove DEF Sum
<1>3. ASSUME NEW c \in Grants
      PROVE  Give(c) \in Nat /\ Give(c) <= avail[c]
  <2>1. CASE At(c) = {}
    BY <2>1
  <2>2. CASE At(c) # {}
    <3> DEFINE n == CHOOSE i \in At(c) : TRUE
    <3>1. n \in DOMAIN order
      BY <2>2
    <3>2. target - Before(n) \in Int
      BY <1>2, <3>1
    <3>3. Give(c) = Smaller(avail[c], Clamp(target - Before(n)))
      BY <2>2
    <3> HIDE DEF n, Before, Give
    <3> QED
      BY <3>2, <3>3, Arithmetic
  <2> QED
    BY <2>1, <2>2
<1>4. ASSUME NEW c \in Grants, \A i \in DOMAIN order : order[i] # c
      PROVE  Give(c) = 0
  BY <1>4
<1> HIDE DEF Give
<1> QED
  BY <1>1, <1>3, <1>4

\* Two draws one after the other: what is left of the target meets the next grant.
LEMMA DrawNext ==
    ASSUME NEW target \in Nat, NEW p \in Nat, NEW a \in Nat
    PROVE  Smaller(target, p) + Smaller(a, Clamp(target - p)) = Smaller(target, p + a)
BY DEF Smaller, Clamp

\* In an order without repetition, a grant gives what the target leaves after the grants
\* before it.
LEMMA FillAt ==
    ASSUME NEW order \in Seq(Grants), IsInjective(order), NEW avail \in [Grants -> Nat],
           NEW target \in Nat, NEW i \in DOMAIN order
    PROVE  Fill(order, avail, target)[order[i]]
             = Smaller(avail[order[i]],
                       Clamp(target - Sum([j \in DOMAIN order |-> avail[order[j]]], 1..(i - 1))))
<1> DEFINE At(c) == {j \in DOMAIN order : order[j] = c}
           Before(j) == Sum([n \in DOMAIN order |-> avail[order[n]]], 1..(j - 1))
           Give(c) == IF At(c) = {} THEN 0
                      ELSE Smaller(avail[c], Clamp(target - Before(CHOOSE j \in At(c) : TRUE)))
<1>1. Fill(order, avail, target) = [c \in Grants |-> Give(c)]
  BY DEF Fill
<1>2. order[i] \in Grants
  OBVIOUS
<1>3. At(order[i]) = {i}
  BY DEF IsInjective
<1>4. (CHOOSE j \in At(order[i]) : TRUE) = i
  BY <1>3
<1>5. Give(order[i]) = Smaller(avail[order[i]], Clamp(target - Before(i)))
  BY <1>3, <1>4
<1> HIDE DEF Give
<1> QED
  BY <1>1, <1>2, <1>5

\* Fill draws the target, or everything when there is less: an order without repetition
\* that lists every grant with something to give meets the target as far as it can be met.
LEMMA FillDraws ==
    ASSUME NEW order \in Seq(Grants), IsInjective(order), NEW avail \in [Grants -> Nat],
           NEW target \in Nat,
           \A c \in Grants : avail[c] > 0 => \E i \in DOMAIN order : order[i] = c
    PROVE  Drawn(Fill(order, avail, target)) = Smaller(target, Drawn(avail))
<1> DEFINE n == Len(order)
           A == [j \in DOMAIN order |-> avail[order[j]]]
           F == Fill(order, avail, target)
           D == [j \in DOMAIN order |-> F[order[j]]]
           P(m) == SumFunctionOnSet(A, 1..m)
           Q(m) == SumFunctionOnSet(D, 1..m)
           G == {m \in 0..n : P(m) \in Nat /\ Q(m) = Smaller(target, P(m))}
           R == Range(order)
<1>0. IsFiniteSet(Grants)
  BY ReservationsAssumption
<1>1. /\ n \in Nat /\ DOMAIN order = 1..n
      /\ order \in [1..n -> Grants]
  OBVIOUS
<1>2. F \in [Grants -> Nat] /\ \A c \in Grants : c \notin R => F[c] = 0
  <2>1. target \in Int
    OBVIOUS
  <2>2. /\ F \in [Grants -> Nat]
        /\ \A c \in Grants : (\A i \in DOMAIN order : order[i] # c) => F[c] = 0
    BY <2>1, FillBounds
  <2> HIDE DEF F
  <2> QED
    BY <2>2 DEF Range
<1>3. ASSUME NEW i \in 1..n
      PROVE  /\ A[i] = avail[order[i]] /\ A[i] \in Nat
             /\ D[i] = F[order[i]] /\ D[i] \in Nat
             /\ D[i] = Smaller(A[i], Clamp(target - P(i - 1)))
  <2>1. i \in DOMAIN order /\ order[i] \in Grants
    BY <1>1
  <2>2. F[order[i]] = Smaller(avail[order[i]], Clamp(target - P(i - 1)))
    BY <2>1, FillAt DEF Sum
  <2>3. avail[order[i]] \in Nat /\ F[order[i]] \in Nat
    BY <1>2, <2>1
  <2> HIDE DEF F, P
  <2> QED
    BY <2>1, <2>2, <2>3
<1> HIDE DEF A, D, F, n
<1>4. 0 \in G
  <2>1. 1..0 = {}
    OBVIOUS
  <2>2. P(0) = 0 /\ Q(0) = 0
    BY <2>1, FS_EmptySet, SumUnfold
  <2>3. Smaller(target, 0) = 0
    BY DEF Smaller
  <2> HIDE DEF P, Q
  <2> QED
    BY <1>1, <2>2, <2>3
<1>5. ASSUME NEW m \in 0..(n - 1), m \in G
      PROVE  m + 1 \in G
  <2>1. m \in Nat /\ m + 1 \in 1..n /\ m + 1 \in 0..n /\ \A i \in 1..(m + 1) : i \in 1..n
    BY <1>1
  <2>2. \A i \in 1..(m + 1) : A[i] \in Int
    BY <1>3, <2>1
  <2>3. \A i \in 1..(m + 1) : D[i] \in Int
    BY <1>3, <2>1
  <2>4. P(m + 1) = P(m) + A[m + 1]
    BY <2>1, <2>2, SumNext
  <2>5. Q(m + 1) = Q(m) + D[m + 1]
    BY <2>1, <2>3, SumNext
  <2>6. D[m + 1] = Smaller(A[m + 1], Clamp(target - P(m))) /\ A[m + 1] \in Nat
    <3>1. (m + 1) - 1 = m
      BY <2>1
    <3>2. D[m + 1] = Smaller(A[m + 1], Clamp(target - P((m + 1) - 1))) /\ A[m + 1] \in Nat
      BY <1>3, <2>1
    <3> QED
      BY <3>1, <3>2
  <2>7. P(m) \in Nat /\ Q(m) = Smaller(target, P(m))
    BY <1>5
  <2> HIDE DEF P, Q
  <2>8. Q(m + 1) = Smaller(target, P(m + 1)) /\ P(m + 1) \in Nat
    <3>1. Smaller(target, P(m)) + Smaller(A[m + 1], Clamp(target - P(m)))
            = Smaller(target, P(m) + A[m + 1])
      BY <2>6, <2>7, DrawNext
    <3>2. P(m) + A[m + 1] \in Nat
      BY <2>6, <2>7
    <3> QED
      BY <2>4, <2>5, <2>6, <2>7, <3>1, <3>2
  <2> QED
    BY <2>1, <2>8
<1>6. n \in G
  <2> HIDE DEF G
  <2>1. n \in Nat /\ 0 \in G /\ \A m \in 0..(n - 1) : m \in G => m + 1 \in G
    BY <1>1, <1>4, <1>5
  <2> QED
    BY <2>1, Segments
<1>7. Q(n) = SumFunctionOnSet(F, R)
  <2>1. \A i \in 1..n : F[order[i]] \in Int /\ D[i] = F[order[i]]
    BY <1>3
  <2>2. SumFunctionOnSet(D, 1..n) = SumFunctionOnSet(F, R)
    BY <1>0, <1>1, <2>1, SumAlong
  <2> QED
    BY <2>2
<1>8. P(n) = SumFunctionOnSet(avail, R)
  <2>1. \A i \in 1..n : avail[order[i]] \in Int /\ A[i] = avail[order[i]]
    BY <1>3
  <2>2. SumFunctionOnSet(A, 1..n) = SumFunctionOnSet(avail, R)
    BY <1>0, <1>1, <2>1, SumAlong
  <2> QED
    BY <2>2
<1>9. R \in SUBSET Grants
  BY <1>1 DEF Range
<1>10. SumFunctionOnSet(F, Grants) = SumFunctionOnSet(F, R)
  <2>1. (\A c \in Grants : F[c] \in Int) /\ \A c \in Grants \ R : F[c] = 0
    BY <1>2
  <2> HIDE DEF R
  <2> QED
    BY <1>0, <1>9, <2>1, SumSupport
<1>11. SumFunctionOnSet(avail, Grants) = SumFunctionOnSet(avail, R)
  <2>1. (\A c \in Grants : avail[c] \in Int) /\ \A c \in Grants \ R : avail[c] = 0
    BY DEF Range
  <2> HIDE DEF R
  <2> QED
    BY <1>0, <1>9, <2>1, SumSupport
<1>12. Q(n) = Smaller(target, P(n))
  BY <1>6
<1> HIDE DEF P, Q, R
<1> QED
  BY <1>7, <1>8, <1>10, <1>11, <1>12 DEF Drawn, Sum, F

LEMMA SumInt ==
    ASSUME NEW f, NEW S, IsFiniteSet(S), \A x \in S : f[x] \in Nat
    PROVE  Sum(f, S) \in Nat
BY SumNat DEF Sum

\* The month's totals are amounts.
LEMMA TotalsNat ==
    ASSUME Typed
    PROVE  /\ IsFiniteSet(Month) /\ Month \subseteq Keys
           /\ ReservedAllocTotal \in Nat /\ ReservedCreditTotal \in Nat
           /\ DecisionsReservedTotal \in Nat /\ MappedTotal \in Nat
<1>0. IsFiniteSet(Keys) /\ IsFiniteSet(Grants)
  BY ReservationsAssumption
<1>1. IsFiniteSet(Month) /\ Month \subseteq Keys
  BY <1>0, FS_Subset DEF Month
<1>2. \A k \in Keys : decision[k].alloc \in Nat /\ decision[k].credit \in Nat
  BY DEF Typed, Decision
<1>3. ReservedAllocTotal \in Nat
  <2>1. \A x \in Month : [k \in Keys |-> decision[k].alloc][x] \in Nat
    BY <1>1, <1>2
  <2> QED
    BY <1>1, <2>1, SumInt DEF ReservedAllocTotal
<1>4. ReservedCreditTotal \in Nat
  <2>1. \A x \in Month : [k \in Keys |-> decision[k].credit][x] \in Nat
    BY <1>1, <1>2
  <2> QED
    BY <1>1, <2>1, SumInt DEF ReservedCreditTotal
<1>5. DecisionsReservedTotal \in Nat
  <2>1. \A x \in Keys : [k \in Keys |-> IF decision[k].active THEN decision[k].credit
                                         ELSE 0][x] \in Nat
    BY <1>2
  <2> QED
    BY <1>0, <2>1, SumInt DEF DecisionsReservedTotal
<1>6. MappedTotal \in Nat
  <2>1. ASSUME NEW k \in Keys
        PROVE  Sum([c \in Grants |-> link[k][c].held], Grants) \in Nat
    <3>1. \A x \in Grants : [c \in Grants |-> link[k][c].held][x] \in Nat
      BY DEF Typed, Hold
    <3> QED
      BY <3>1, <1>0, SumInt
  <2>2. \A x \in Keys : [k \in Keys |-> Sum([c \in Grants |-> link[k][c].held], Grants)][x]
                          \in Nat
    BY <2>1
  <2> QED
    BY <1>0, <2>2, SumInt DEF MappedTotal
<1> QED
  BY <1>1, <1>3, <1>4, <1>5, <1>6

\* Reservations that leave the month, and none that enter it, do not raise its totals.
LEMMA MonthShrinks ==
    ASSUME Typed, decision' \in [Keys -> Decision],
           \A k \in Keys : decision'[k].active /\ decision'[k].current
              => /\ decision[k].active /\ decision[k].current
                 /\ decision'[k].alloc = decision[k].alloc
                 /\ decision'[k].credit = decision[k].credit
    PROVE  /\ ReservedAllocTotal' \in Nat /\ ReservedCreditTotal' \in Nat
           /\ ReservedAllocTotal' <= ReservedAllocTotal
           /\ ReservedCreditTotal' <= ReservedCreditTotal
<1> DEFINE A == [k \in Keys |-> decision[k].alloc]
           C == [k \in Keys |-> decision[k].credit]
           An == [k \in Keys |-> decision'[k].alloc]
           Cn == [k \in Keys |-> decision'[k].credit]
<1>0. IsFiniteSet(Keys)
  BY ReservationsAssumption
<1>1. /\ Month' \in SUBSET Month /\ IsFiniteSet(Month) /\ IsFiniteSet(Month')
      /\ Month \subseteq Keys
  <2>1. Month' \in SUBSET Month
    BY DEF Month
  <2> QED
    BY <2>1, TotalsNat, FS_Subset
<1>2. /\ \A k \in Month' : A[k] \in Int /\ An[k] = A[k]
      /\ \A k \in Month' : C[k] \in Int /\ Cn[k] = C[k]
      /\ \A k \in Month : A[k] \in Nat
      /\ \A k \in Month : C[k] \in Nat
      /\ \A k \in Month' : An[k] \in Nat
      /\ \A k \in Month' : Cn[k] \in Nat
  <2>1. \A k \in Keys : /\ decision[k].alloc \in Nat /\ decision[k].credit \in Nat
                        /\ decision'[k].alloc \in Nat /\ decision'[k].credit \in Nat
    BY DEF Typed, Decision
  <2>2. \A k \in Month' : /\ decision'[k].alloc = decision[k].alloc
                          /\ decision'[k].credit = decision[k].credit
    BY DEF Month
  <2> QED
    BY <2>1, <2>2, <1>1
<1>3. /\ ReservedAllocTotal = SumFunctionOnSet(A, Month)
      /\ ReservedCreditTotal = SumFunctionOnSet(C, Month)
      /\ ReservedAllocTotal' = SumFunctionOnSet(An, Month')
      /\ ReservedCreditTotal' = SumFunctionOnSet(Cn, Month')
  BY DEF ReservedAllocTotal, ReservedCreditTotal, Sum
<1> HIDE DEF A, C, An, Cn
<1>4. /\ SumFunctionOnSet(An, Month') = SumFunctionOnSet(A, Month')
      /\ SumFunctionOnSet(Cn, Month') = SumFunctionOnSet(C, Month')
  BY <1>1, <1>2, SumSame
<1>5. /\ SumFunctionOnSet(A, Month') <= SumFunctionOnSet(A, Month)
      /\ SumFunctionOnSet(C, Month') <= SumFunctionOnSet(C, Month)
  BY <1>1, <1>2, SumSubset
<1>6. SumFunctionOnSet(An, Month') \in Nat /\ SumFunctionOnSet(Cn, Month') \in Nat
  BY <1>1, <1>2, SumNat
<1> QED
  BY <1>3, <1>4, <1>5, <1>6

\* Totals that do not grow stay under the ceilings and under what a gate has read.
LEMMA TotalsStay ==
    ASSUME Typed, Serialised, CeilingsHold,
           ReservedAllocTotal' \in Nat, ReservedCreditTotal' \in Nat,
           ReservedAllocTotal' <= ReservedAllocTotal,
           ReservedCreditTotal' <= ReservedCreditTotal
    PROVE  /\ CeilingsHold'
           /\ gate' = gate /\ lock' = lock => Serialised'
<1>1. ReservedAllocTotal \in Nat /\ ReservedCreditTotal \in Nat
  BY TotalsNat
<1>2. /\ PlanCeiling \in Nat \cup {Unbounded}
      /\ EnterpriseCeiling \in Nat \cup {Unbounded}
  BY ReservationsAssumption
<1>3. CeilingsHold'
  <2> DEFINE m == ReservedAllocTotal + ReservedCreditTotal
             n == ReservedAllocTotal' + ReservedCreditTotal'
  <2>1. m \in Nat /\ n \in Nat /\ n <= m
    <3>1. ASSUME NEW a \in Nat, NEW b \in Nat, NEW x \in Nat, NEW y \in Nat, x <= a, y <= b
          PROVE  a + b \in Nat /\ x + y \in Nat /\ x + y <= a + b
      BY <3>1
    <3> QED
      BY <1>1, <3>1
  <2>2. Within(m, PlanCeiling) /\ Within(m, EnterpriseCeiling)
    BY DEF CeilingsHold
  <2>3. ASSUME NEW limit \in Nat \cup {Unbounded}, Within(m, limit)
        PROVE  Within(n, limit)
    <3> HIDE DEF m, n
    <3>1. CASE limit = Unbounded
      BY <3>1 DEF Within
    <3>2. CASE limit \in Nat /\ limit # Unbounded
      BY <2>1, <2>3, <3>2 DEF Within, Clamp
    <3> QED
      BY <3>1, <3>2
  <2>4. Within(n, PlanCeiling) /\ Within(n, EnterpriseCeiling)
    BY <1>2, <2>2, <2>3
  <2> QED
    BY <2>4 DEF CeilingsHold
<1>4. ASSUME gate' = gate, lock' = lock
      PROVE  Serialised'
  <2> SUFFICES ASSUME NEW g \in Gates
               PROVE  /\ gate[g] # Idle => lock = g
                      /\ gate[g].pc \in {"totals", "ready"}
                           => /\ ReservedAllocTotal' <= gate[g].alloc
                              /\ ReservedCreditTotal' <= gate[g].credit
    BY <1>4 DEF Serialised
  <2>1. gate[g].pc \in {"totals", "ready"}
           => gate[g].alloc \in Nat /\ gate[g].credit \in Nat
    <3>1. gate[g] \in GateState
      BY DEF Typed
    <3> QED
      BY <3>1 DEF GateState, Idle
  <2> QED
    BY <1>1, <2>1 DEF Serialised
<1> QED
  BY <1>3, <1>4

\* A step that writes decisions only, without reserving or releasing.
LEMMA DecisionStep ==
    ASSUME IInv, decision' \in [Keys -> Decision],
           \A k \in Keys : /\ decision'[k].active = decision[k].active
                           /\ decision[k].active => decision'[k].credit = decision[k].credit
                           /\ decision'[k].type = "absent" => decision[k].type = "absent",
           \A k \in Keys : decision'[k].active /\ decision'[k].current
              => /\ decision[k].active /\ decision[k].current
                 /\ decision'[k].alloc = decision[k].alloc
                 /\ decision'[k].credit = decision[k].credit,
           UNCHANGED <<grant, link, budget, gate, lock>>
    PROVE  IInv'
<1>1. Typed'
  BY DEF IInv, Typed
<1>2. Conserved'
  BY DEF IInv, Conserved, Used
<1>3. Mapped'
  <2>1. \A k \in Keys : Held(k)' = Held(k)
    BY DEF Held
  <2>2. CreditIsMapped'
    BY <2>1 DEF IInv, Mapped, CreditIsMapped, Drawn
  <2>3. Legacy \subseteq Keys
    BY ReservationsAssumption
  <2> QED
    BY <2>2, <2>3 DEF IInv, Mapped
<1>4. Serialised' /\ CeilingsHold'
  BY MonthShrinks, TotalsStay DEF IInv
<1> QED
  BY <1>1, <1>2, <1>3, <1>4 DEF IInv

-----------------------------------------------------------------------------
(***************************************************************************)
(* A settlement.                                                           *)
(***************************************************************************)

\* What a settlement that goes through consumes of a grant and what it gives back add up to
\* what the decision held of it.
LEMMA SettlesFacts ==
    ASSUME Typed, Mapped, NEW k \in Keys, NEW amount \in Nat, Settles(k, amount)
    PROVE  /\ Consume(k, amount) \in [Grants -> Nat]
           /\ Refund(k, amount) \in [Grants -> Nat]
           /\ \A c \in Grants :
                 /\ Consume(k, amount)[c] + Refund(k, amount)[c] = link[k][c].held
                 /\ ~Touches(k, c) => link[k][c].held = 0
<1> DEFINE H == Held(k)
           U == Consume(k, amount)
           R == Refund(k, amount)
           L == [c \in Grants |-> link[k][c].held - U[c]]
<1>0. IsFiniteSet(Grants)
  BY ReservationsAssumption
<1>1. /\ \A c \in Grants : link[k][c].held \in Nat
      /\ decision[k].credit \in Nat
  BY DEF Typed, Hold, Decision
<1>2. Order(k) \in Seq(Grants)
  BY ReservationsAssumption DEF Order
<1>3. H \in [Grants -> Nat] /\ \A c \in Grants : H[c] = link[k][c].held
  BY <1>1 DEF Held
<1>4. /\ Smaller(amount, decision[k].credit) \in Int
      /\ decision[k].credit - Smaller(amount, decision[k].credit) \in Int
  <2>1. Smaller(amount, decision[k].credit) \in Nat
    BY <1>1, Arithmetic
  <2> QED
    BY <1>1, <2>1
<1>5. U \in [Grants -> Nat] /\ \A c \in Grants : U[c] <= H[c]
  BY <1>2, <1>3, <1>4, FillBounds DEF Consume
<1>6. L \in [Grants -> Nat]
  <2>1. \A c \in Grants : link[k][c].held - U[c] \in Nat
    BY <1>1, <1>3, <1>5
  <2> QED
    BY <2>1
<1>7. R \in [Grants -> Nat] /\ \A c \in Grants : R[c] <= L[c]
  <2>1. R = Fill(Order(k), L, decision[k].credit - Smaller(amount, decision[k].credit))
    BY DEF Refund
  <2> HIDE DEF R, L
  <2> QED
    BY <1>2, <1>4, <1>6, <2>1, FillBounds
<1>8. \A c \in Grants : U[c] + R[c] <= link[k][c].held
  BY <1>1, <1>5, <1>6, <1>7
<1>9. (\A c \in Grants : link[k][c].held = 0) \/ (Drawn(H) = decision[k].credit /\ decision[k].credit > 0)
  <2>1. CASE k \in Legacy
    BY <2>1 DEF Mapped
  <2>2. CASE k \notin Legacy /\ decision[k].active /\ decision[k].credit > 0
    BY <2>2 DEF Mapped, CreditIsMapped
  <2>3. CASE k \notin Legacy /\ ~(decision[k].active /\ decision[k].credit > 0)
    <3>1. Drawn(H) = 0
      BY <2>3, <1>1 DEF Mapped, CreditIsMapped
    <3>2. \A c \in Grants : H[c] \in Nat
      BY <1>3
    <3>3. \A c \in Grants : H[c] = 0
      <4> HIDE DEF H
      <4> QED
        BY <1>0, <3>1, <3>2, SumNat DEF Drawn, Sum
    <3> QED
      BY <3>3, <1>3
  <2> QED
    BY <2>1, <2>2, <2>3
<1>10. CASE \A c \in Grants : link[k][c].held = 0
  <2>1. \A c \in Grants : U[c] + R[c] = link[k][c].held
    <3>1. \A c \in Grants : U[c] \in Nat /\ R[c] \in Nat /\ U[c] + R[c] <= 0
      BY <1>10, <1>5, <1>7, <1>8
    <3> HIDE DEF U, R
    <3> QED
      BY <1>10, <3>1
  <2> HIDE DEF U, R
  <2> QED
    BY <1>5, <1>7, <1>10, <2>1 DEF U, R
<1>11. CASE Drawn(H) = decision[k].credit /\ decision[k].credit > 0
  <2>1. Drawn(U) + Drawn(R) = decision[k].credit
    BY <1>11, <1>1 DEF Settles
  <2> DEFINE P == [c \in Grants |-> U[c] + R[c]]
  <2>2. /\ \A c \in Grants : U[c] \in Int /\ R[c] \in Int /\ P[c] = U[c] + R[c]
        /\ \A c \in Grants : P[c] \in Int /\ H[c] \in Int /\ P[c] <= H[c]
    BY <1>3, <1>5, <1>7, <1>8
  <2> HIDE DEF U, R, P, H
  <2>3. SumFunctionOnSet(P, Grants) = SumFunctionOnSet(U, Grants) + SumFunctionOnSet(R, Grants)
    BY <1>0, <2>2, SumPlus
  <2>4. SumFunctionOnSet(P, Grants) = SumFunctionOnSet(H, Grants)
    BY <2>3, <2>1, <1>11 DEF Drawn, Sum
  <2>5. \A c \in Grants : P[c] = H[c]
    BY <1>0, <2>2, <2>4, SumTight
  <2>6. \A c \in Grants : ~Touches(k, c) => link[k][c].held = 0
    BY <1>1, <1>11 DEF Touches
  <2> QED
    BY <2>2, <2>5, <2>6, <1>3, <1>5, <1>7 DEF U, R
<1> QED
  BY <1>9, <1>10, <1>11

\* What a settlement does to the rows: the decisions of S hold nothing afterwards, and each
\* grant has back what they held of it and did not consume.
LEMMA Settlement ==
    ASSUME Typed, Conserved, Mapped, NEW S \in SUBSET Keys, NEW amount \in [Keys -> Nat],
           Settle(S, amount)
    PROVE  /\ grant' \in [Grants -> Grant]
           /\ link' \in [Keys -> [Grants -> Hold]]
           /\ \A c \in Grants : /\ grant'[c].exists = grant[c].exists
                                /\ grant'[c].remaining = grant[c].remaining
                                     + Sum([k \in S |-> Refund(k, amount[k])[c]], S)
           /\ \A k \in Keys \ S : link'[k] = link[k]
           /\ \A k \in S, c \in Grants :
                 /\ link'[k][c].held = 0
                 /\ link'[k][c].consumed = link[k][c].consumed + Consume(k, amount[k])[c]
           /\ Conserved'
<1> DEFINE By(c) == {k \in S : Touches(k, c)}
           Back(c) == [k \in By(c) |-> Refund(k, amount[k])[c]]
           All(c) == [k \in S |-> Refund(k, amount[k])[c]]
           New(c) == Smaller(Total[c], grant[c].remaining + Sum(Back(c), By(c)))
<1>0. IsFiniteSet(Keys) /\ IsFiniteSet(S) /\ IsFiniteSet(Grants)
      /\ Total \in [Grants -> Nat]
  BY ReservationsAssumption, FS_Subset
<1>1. ASSUME NEW k \in S
      PROVE  /\ Consume(k, amount[k]) \in [Grants -> Nat]
             /\ Refund(k, amount[k]) \in [Grants -> Nat]
             /\ \A c \in Grants :
                   /\ Consume(k, amount[k])[c] + Refund(k, amount[k])[c] = link[k][c].held
                   /\ ~Touches(k, c) => link[k][c].held = 0
  <2>1. amount[k] \in Nat /\ Settles(k, amount[k])
    BY DEF Settle
  <2> QED
    BY <2>1, SettlesFacts
<1>2. \A k \in Keys, c \in Grants : /\ link[k][c] \in Hold
                                    /\ link[k][c].held \in Nat /\ link[k][c].consumed \in Nat
  BY DEF Typed, Hold
<1>3. \A c \in Grants : grant[c] \in Grant /\ grant[c].remaining \in Nat
  BY DEF Typed, Grant
<1>4. ASSUME NEW k \in S, NEW c \in Grants, ~Touches(k, c)
      PROVE  Consume(k, amount[k])[c] = 0 /\ Refund(k, amount[k])[c] = 0
  <2>1. /\ Consume(k, amount[k])[c] \in Nat /\ Refund(k, amount[k])[c] \in Nat
        /\ Consume(k, amount[k])[c] + Refund(k, amount[k])[c] = 0
    BY <1>1, <1>4
  <2> QED
    BY <2>1
<1>5. ASSUME NEW c \in Grants
      PROVE  /\ Sum(Back(c), By(c)) = Sum(All(c), S)
             /\ Sum(All(c), S) \in Nat
  <2>1. \A k \in S : All(c)[k] \in Nat
    BY <1>1
  <2>1a. \A k \in S : All(c)[k] \in Int
    BY <2>1
  <2>2. By(c) \in SUBSET S /\ IsFiniteSet(By(c))
    BY <1>0, FS_Subset
  <2>3. \A k \in S \ By(c) : All(c)[k] = 0
    BY <1>4
  <2>4. \A k \in By(c) : All(c)[k] \in Int /\ Back(c)[k] = All(c)[k]
    BY <2>1
  <2> HIDE DEF All, Back, By
  <2>5. SumFunctionOnSet(All(c), S) = SumFunctionOnSet(All(c), By(c))
    BY <1>0, <2>1a, <2>2, <2>3, SumSupport
  <2>6. SumFunctionOnSet(Back(c), By(c)) = SumFunctionOnSet(All(c), By(c))
    BY <2>2, <2>4, SumSame
  <2>7. SumFunctionOnSet(All(c), S) \in Nat
    BY <1>0, <2>1, SumNat
  <2> QED
    BY <2>5, <2>6, <2>7 DEF Sum
<1>6. \A k \in Keys \ S : link'[k] = link[k]
  BY DEF Settle
<1>7. ASSUME NEW k \in S, NEW c \in Grants
      PROVE  /\ link'[k][c] \in Hold
             /\ link'[k][c].held = 0
             /\ link'[k][c].consumed = link[k][c].consumed + Consume(k, amount[k])[c]
  <2>1. link'[k][c] = IF Touches(k, c)
                        THEN [held |-> 0,
                              consumed |-> link[k][c].consumed + Consume(k, amount[k])[c]]
                        ELSE link[k][c]
    BY DEF Settle
  <2>2. Consume(k, amount[k])[c] \in Nat
    BY <1>1
  <2>3. CASE Touches(k, c)
    BY <2>1, <2>2, <2>3, <1>2 DEF Hold
  <2>4. CASE ~Touches(k, c)
    <3>1. link'[k][c] = link[k][c]
      BY <2>1, <2>4
    <3>2. link[k][c].held = 0 /\ Consume(k, amount[k])[c] = 0
      BY <2>4, <1>1, <1>4
    <3> QED
      BY <3>1, <3>2, <1>2
  <2> QED
    BY <2>3, <2>4
<1>8. link' \in [Keys -> [Grants -> Hold]]
  <2>1. ASSUME NEW k \in Keys
        PROVE  link'[k] \in [Grants -> Hold]
    <3>1. CASE k \in S
      <4>1. link'[k] = [c \in Grants |-> link'[k][c]]
        BY <3>1 DEF Settle
      <4> QED
        BY <3>1, <4>1, <1>7
    <3>2. CASE k \notin S
      BY <3>2, <1>6 DEF Typed
    <3> QED
      BY <3>1, <3>2
  <2>2. link' = [k \in Keys |-> link'[k]]
    BY DEF Settle
  <2> QED
    BY <2>1, <2>2
<1>9. ASSUME NEW c \in Grants
      PROVE  /\ Used(link, c) \in Nat
             /\ Used(link', c) \in Nat
             /\ Used(link, c) = Used(link', c) + Sum(All(c), S)
  <2> DEFINE F == [k \in Keys |-> link[k][c].held + link[k][c].consumed]
             G == [k \in Keys |-> link'[k][c].held + link'[k][c].consumed]
             R == [k \in Keys |-> IF k \in S THEN Refund(k, amount[k])[c] ELSE 0]
  <2>1. ASSUME NEW k \in Keys
        PROVE  F[k] \in Nat /\ G[k] \in Nat /\ R[k] \in Nat /\ F[k] = G[k] + R[k]
    <3>1. CASE k \notin S
      BY <3>1, <1>2, <1>6
    <3>2. CASE k \in S
      <4>1. /\ Refund(k, amount[k])[c] \in Nat /\ Consume(k, amount[k])[c] \in Nat
            /\ Consume(k, amount[k])[c] + Refund(k, amount[k])[c] = link[k][c].held
        BY <3>2, <1>1
      <4>2. /\ link'[k][c].held = 0
            /\ link'[k][c].consumed = link[k][c].consumed + Consume(k, amount[k])[c]
        BY <3>2, <1>7
      <4> QED
        BY <3>2, <4>1, <4>2, <1>2
    <3> QED
      BY <3>1, <3>2
  <2>2. /\ \A k \in Keys : G[k] \in Int /\ R[k] \in Int /\ F[k] = G[k] + R[k]
        /\ \A k \in Keys : R[k] \in Int
        /\ \A k \in Keys : F[k] \in Nat
        /\ \A k \in Keys : G[k] \in Nat
    BY <2>1
  <2>3. /\ \A k \in Keys \ S : R[k] = 0
        /\ \A k \in S : R[k] \in Int /\ All(c)[k] = R[k]
    BY <2>2
  <2>4. Used(link, c) = SumFunctionOnSet(F, Keys) /\ Used(link', c) = SumFunctionOnSet(G, Keys)
    BY DEF Used, Sum
  <2> HIDE DEF F, G, R, All
  <2>5. SumFunctionOnSet(F, Keys) = SumFunctionOnSet(G, Keys) + SumFunctionOnSet(R, Keys)
    BY <1>0, <2>2, SumPlus
  <2>6. SumFunctionOnSet(R, Keys) = SumFunctionOnSet(R, S)
    BY <1>0, <2>2, <2>3, SumSupport
  <2>7. SumFunctionOnSet(All(c), S) = SumFunctionOnSet(R, S)
    BY <1>0, <2>3, SumSame
  <2>8. SumFunctionOnSet(F, Keys) \in Nat /\ SumFunctionOnSet(G, Keys) \in Nat
    BY <1>0, <2>2, SumNat
  <2> QED
    BY <2>4, <2>5, <2>6, <2>7, <2>8 DEF Sum
<1>10. ASSUME NEW c \in Grants
       PROVE  /\ grant'[c] \in Grant
              /\ grant'[c].exists = grant[c].exists
              /\ grant'[c].remaining = grant[c].remaining + Sum(All(c), S)
  <2>1. grant'[c] = IF By(c) = {} THEN grant[c]
                    ELSE [grant[c] EXCEPT !.remaining = New(c),
                                          !.active = New(c) > 0 /\ ~grant[c].expired]
    BY DEF Settle
  <2>2. New(c) = grant[c].remaining + Sum(All(c), S) /\ New(c) \in Nat
    <3>1. grant[c].remaining + Used(link, c) <= Total[c]
      BY <1>0, <1>3, <1>9 DEF Conserved
    <3>2. New(c) = Smaller(Total[c], grant[c].remaining + Sum(All(c), S))
      BY <1>5
    <3> HIDE DEF New, All
    <3>3. PICK n \in Nat : n = Sum(All(c), S)
      BY <1>5
    <3>4. PICK u \in Nat : u = Used(link, c)
      BY <1>9
    <3>5. PICK v \in Nat : v = Used(link', c)
      BY <1>9
    <3>6. u = v + n
      BY <3>3, <3>4, <3>5, <1>9
    <3>7. PICK t \in Nat : t = Total[c]
      BY <1>0
    <3>8. PICK r \in Nat : r = grant[c].remaining
      BY <1>3
    <3>9. r + n <= t
      BY <3>1, <3>4, <3>6, <3>7, <3>8
    <3>10. Smaller(t, r + n) = r + n
      BY <3>9 DEF Smaller
    <3> QED
      BY <3>2, <3>3, <3>7, <3>8, <3>10
  <2>3. CASE By(c) = {}
    <3>1. Sum(Back(c), By(c)) = 0
      <4>1. IsFiniteSet({})
        BY FS_EmptySet
      <4> HIDE DEF Back
      <4> QED
        BY <2>3, <4>1, SumUnfold DEF Sum
    <3> QED
      BY <2>1, <2>3, <3>1, <1>3, <1>5
  <2>4. CASE By(c) # {}
    <3> HIDE DEF New, All
    <3>1. grant'[c] = [grant[c] EXCEPT !.remaining = New(c),
                                       !.active = New(c) > 0 /\ ~grant[c].expired]
      BY <2>1, <2>4
    <3>2. (New(c) > 0 /\ ~grant[c].expired) \in BOOLEAN
      OBVIOUS
    <3> QED
      BY <3>1, <3>2, <2>2, <1>3 DEF Grant
  <2> QED
    BY <2>3, <2>4
<1>11. grant' \in [Grants -> Grant]
  <2>1. grant' = [c \in Grants |-> grant'[c]]
    BY DEF Settle
  <2> QED
    BY <2>1, <1>10
<1>12. Conserved'
  <2> SUFFICES ASSUME NEW c \in Grants
               PROVE  grant'[c].remaining + Used(link', c)
                        = IF grant'[c].exists THEN Total[c] ELSE 0
    BY DEF Conserved
  <2>1. grant[c].remaining + Used(link, c) = IF grant[c].exists THEN Total[c] ELSE 0
    BY DEF Conserved
  <2> HIDE DEF All
  <2>2. PICK n \in Nat : n = Sum(All(c), S)
    BY <1>5
  <2>3. PICK u \in Nat : u = Used(link, c)
    BY <1>9
  <2>4. PICK v \in Nat : v = Used(link', c)
    BY <1>9
  <2>5. PICK r \in Nat : r = grant[c].remaining
    BY <1>3
  <2>6. PICK t : t = IF grant[c].exists THEN Total[c] ELSE 0
    OBVIOUS
  <2>7. u = v + n /\ r + u = t
    BY <2>1, <2>2, <2>3, <2>4, <2>5, <2>6, <1>9
  <2>8. grant'[c].remaining = r + n /\ t = IF grant'[c].exists THEN Total[c] ELSE 0
    BY <2>2, <2>5, <2>6, <1>10
  <2>9. (r + n) + v = t
    BY <2>7
  <2> QED
    BY <2>4, <2>8, <2>9
<1> QED
  BY <1>6, <1>7, <1>8, <1>10, <1>11, <1>12

\* A settlement that releases the decisions of S keeps the invariant.
LEMMA SettlementStep ==
    ASSUME IInv, NEW S \in SUBSET Keys, NEW amount \in [Keys -> Nat], Settle(S, amount),
           decision' \in [Keys -> Decision],
           \A k \in Keys \ S : decision'[k] = decision[k],
           \A k \in S : ~decision'[k].active /\ decision'[k].type = decision[k].type,
           UNCHANGED <<budget, gate, lock>>
    PROVE  IInv'
<1>0. IsFiniteSet(Grants) /\ Legacy \subseteq Keys
  BY ReservationsAssumption
<1>1. /\ grant' \in [Grants -> Grant]
      /\ link' \in [Keys -> [Grants -> Hold]]
      /\ \A k \in Keys \ S : link'[k] = link[k]
      /\ \A k \in S, c \in Grants : link'[k][c].held = 0
      /\ Conserved'
  BY Settlement DEF IInv
<1>2. Typed'
  BY <1>1 DEF IInv, Typed
<1>3. Mapped'
  <2>1. ASSUME NEW k \in Keys \ Legacy
        PROVE  Drawn(Held(k)') = IF decision'[k].active THEN decision'[k].credit ELSE 0
    <3>1. CASE k \in S
      <4>1. \A c \in Grants : Held(k)'[c] = 0
        BY <3>1, <1>1 DEF Held
      <4>2. \A c \in Grants : Held(k)'[c] \in Nat
        BY <4>1
      <4>3. Drawn(Held(k)') = 0
        BY <1>0, <4>1, <4>2, SumNat DEF Drawn, Sum
      <4> QED
        BY <3>1, <4>3
    <3>2. CASE k \notin S
      <4>1. Held(k)' = Held(k)
        BY <3>2, <1>1 DEF Held
      <4>2. decision'[k] = decision[k]
        BY <3>2
      <4> QED
        BY <4>1, <4>2 DEF IInv, Mapped, CreditIsMapped
    <3> QED
      BY <3>1, <3>2
  <2>2. CreditIsMapped'
    BY <2>1 DEF CreditIsMapped, Drawn, Sum
  <2>3. \A k \in Legacy : /\ decision'[k].type # "absent"
                          /\ \A c \in Grants : link'[k][c].held = 0
    BY <1>0, <1>1 DEF IInv, Mapped
  <2>4. \A k \in Keys : decision'[k].type = "absent" => ~decision'[k].active
    BY DEF IInv, Mapped
  <2> QED
    BY <2>2, <2>3, <2>4 DEF Mapped
<1>4. Serialised' /\ CeilingsHold'
  <2>1. \A k \in Keys : decision'[k].active /\ decision'[k].current
           => /\ decision[k].active /\ decision[k].current
              /\ decision'[k].alloc = decision[k].alloc
              /\ decision'[k].credit = decision[k].credit
    OBVIOUS
  <2> QED
    BY <2>1, MonthShrinks, TotalsStay DEF IInv
<1> QED
  BY <1>1, <1>2, <1>3, <1>4 DEF IInv

LEMMA ReleasedType ==
    ASSUME NEW d \in Decision
    PROVE  /\ Released(d) \in Decision
           /\ ~Released(d).active /\ Released(d).type = d.type
           /\ \A a \in {"denied", "expired"} :
                 LET r == [Released(d) EXCEPT !.approval = a, !.late = FALSE] IN
                 r \in Decision /\ ~r.active /\ r.type = d.type
<1>1. /\ Released(d) \in Decision
      /\ ~Released(d).active /\ Released(d).type = d.type
  BY DEF Decision, Released
<1> DEFINE e == Released(d)
<1>2. e \in Decision /\ e.active = FALSE /\ e.type = d.type
  BY <1>1 DEF Decision
<1> HIDE DEF e
<1>3. \A a \in {"denied", "expired"} :
         LET r == [e EXCEPT !.approval = a, !.late = FALSE] IN
         r \in Decision /\ ~r.active /\ r.type = d.type
  BY <1>2 DEF Decision
<1> QED
  BY <1>1, <1>3 DEF e

LEMMA ApproveExpiredPreserves ==
    ASSUME IInv, NEW k \in Keys, ApproveExpired(k) PROVE IInv'
<1> DEFINE r == [Released(decision[k]) EXCEPT !.approval = "expired", !.late = FALSE]
<1>0. decision \in [Keys -> Decision]
  BY DEF IInv, Typed
<1>1. r \in Decision /\ ~r.active /\ r.type = decision[k].type
  BY <1>0, ReleasedType
<1>2. decision' = [decision EXCEPT ![k] = r] /\ Settle({k}, Nothing)
      /\ UNCHANGED <<budget, gate, lock>>
  BY DEF ApproveExpired
<1> HIDE DEF r
<1>3. /\ decision' \in [Keys -> Decision]
      /\ \A x \in Keys \ {k} : decision'[x] = decision[x]
      /\ \A x \in {k} : ~decision'[x].active /\ decision'[x].type = decision[x].type
  BY <1>0, <1>1, <1>2
<1>4. Nothing \in [Keys -> Nat] /\ {k} \in SUBSET Keys
  BY DEF Nothing
<1> QED
  BY <1>2, <1>3, <1>4, SettlementStep

LEMMA DenyPreserves ==
    ASSUME IInv, NEW k \in Keys, Deny(k) PROVE IInv'
<1> DEFINE r == [Released(decision[k]) EXCEPT !.approval = "denied", !.late = FALSE]
<1>0. decision \in [Keys -> Decision]
  BY DEF IInv, Typed
<1>1. r \in Decision /\ ~r.active /\ r.type = decision[k].type
  BY <1>0, ReleasedType
<1>2. decision' = [decision EXCEPT ![k] = r] /\ Settle({k}, Nothing)
      /\ UNCHANGED <<budget, gate, lock>>
  BY DEF Deny
<1> HIDE DEF r
<1>3. /\ decision' \in [Keys -> Decision]
      /\ \A x \in Keys \ {k} : decision'[x] = decision[x]
      /\ \A x \in {k} : ~decision'[x].active /\ decision'[x].type = decision[x].type
  BY <1>0, <1>1, <1>2
<1>4. Nothing \in [Keys -> Nat] /\ {k} \in SUBSET Keys
  BY DEF Nothing
<1> QED
  BY <1>2, <1>3, <1>4, SettlementStep

LEMMA ReconcilePreserves ==
    ASSUME IInv, NEW k \in Keys, NEW a \in Actuals, Reconcile(k, a) PROVE IInv'
<1> DEFINE r == Released(decision[k])
           m == [Nothing EXCEPT ![k] = Clamp(a - decision[k].alloc)]
<1>0. decision \in [Keys -> Decision]
  BY DEF IInv, Typed
<1>1. r \in Decision /\ ~r.active /\ r.type = decision[k].type
  BY <1>0, ReleasedType
<1>2. decision' = [decision EXCEPT ![k] = r] /\ Settle({k}, m)
      /\ UNCHANGED <<budget, gate, lock>>
  BY DEF Reconcile
<1>4. m \in [Keys -> Nat] /\ {k} \in SUBSET Keys
  <2>1. a \in Int /\ decision[k].alloc \in Int
    BY <1>0, ReservationsAssumption DEF Decision
  <2>2. Clamp(a - decision[k].alloc) \in Nat
    BY <2>1, Arithmetic
  <2> QED
    BY <2>2 DEF Nothing
<1> HIDE DEF r, m
<1>3. /\ decision' \in [Keys -> Decision]
      /\ \A x \in Keys \ {k} : decision'[x] = decision[x]
      /\ \A x \in {k} : ~decision'[x].active /\ decision'[x].type = decision[x].type
  BY <1>0, <1>1, <1>2
<1> QED
  BY <1>2, <1>3, <1>4, SettlementStep

LEMMA SweepPreserves ==
    ASSUME IInv, Sweep PROVE IInv'
<1>0. decision \in [Keys -> Decision]
  BY DEF IInv, Typed
<1>1. \A k \in Keys : LET r == Released(decision[k]) IN
         r \in Decision /\ ~r.active /\ r.type = decision[k].type
  BY <1>0, ReleasedType
<1>2. decision' = [k \in Keys |-> IF k \in Overdue THEN Released(decision[k])
                                                  ELSE decision[k]]
      /\ Settle(Overdue, Nothing) /\ UNCHANGED <<budget, gate, lock>>
  BY DEF Sweep
<1>3. Overdue \in SUBSET Keys /\ Nothing \in [Keys -> Nat]
  BY DEF Overdue, Nothing
<1>4. /\ decision' \in [Keys -> Decision]
      /\ \A x \in Keys \ Overdue : decision'[x] = decision[x]
      /\ \A x \in Overdue : ~decision'[x].active /\ decision'[x].type = decision[x].type
  BY <1>0, <1>1, <1>2, <1>3
<1> QED
  BY <1>2, <1>3, <1>4, SettlementStep

-----------------------------------------------------------------------------
(***************************************************************************)
(* The steps that reserve and release nothing.                             *)
(***************************************************************************)

\* One decision changes, in what no total reads.
LEMMA OneDecision ==
    ASSUME IInv, NEW k \in Keys, NEW d \in Decision,
           decision' = [decision EXCEPT ![k] = d],
           d.active = decision[k].active, d.credit = decision[k].credit,
           d.alloc = decision[k].alloc, d.type = decision[k].type,
           d.current = decision[k].current,
           UNCHANGED <<grant, link, budget, gate, lock>>
    PROVE  IInv'
<1>1. decision \in [Keys -> Decision]
  BY DEF IInv, Typed
<1>2. decision' \in [Keys -> Decision]
  BY <1>1
<1>3. \A x \in Keys : /\ decision'[x].active = decision[x].active
                      /\ decision'[x].credit = decision[x].credit
                      /\ decision'[x].alloc = decision[x].alloc
                      /\ decision'[x].type = decision[x].type
                      /\ decision'[x].current = decision[x].current
  BY <1>1
<1>4. /\ \A x \in Keys :
            /\ decision'[x].active = decision[x].active
            /\ decision[x].active => decision'[x].credit = decision[x].credit
            /\ decision'[x].type = "absent" => decision[x].type = "absent"
      /\ \A x \in Keys : decision'[x].active /\ decision'[x].current
           => /\ decision[x].active /\ decision[x].current
              /\ decision'[x].alloc = decision[x].alloc
              /\ decision'[x].credit = decision[x].credit
  BY <1>3
<1> QED
  BY <1>2, <1>4, DecisionStep

LEMMA ApprovalStepsPreserve ==
    ASSUME IInv, NEW k \in Keys,
           \/ CreateApproval(k) \/ Approve(k) \/ ConsumeToken(k)
           \/ ApprovalExpires(k) \/ BecomeOverdue(k)
    PROVE  IInv'
<1>1. decision[k] \in Decision
  BY DEF IInv, Typed
<1>2. \E d \in Decision :
         /\ decision' = [decision EXCEPT ![k] = d]
         /\ d.active = decision[k].active /\ d.credit = decision[k].credit
         /\ d.alloc = decision[k].alloc /\ d.type = decision[k].type
         /\ d.current = decision[k].current
  <2>1. CASE CreateApproval(k)
    <3> DEFINE d == [decision[k] EXCEPT !.approval = "pending"]
    <3>1. d \in Decision
      BY <1>1 DEF Decision
    <3> WITNESS d \in Decision
    <3> QED
      BY <1>1, <2>1 DEF CreateApproval, Decision
  <2>2. CASE Approve(k)
    <3> DEFINE d == [decision[k] EXCEPT !.approval = "approved"]
    <3>1. d \in Decision
      BY <1>1 DEF Decision
    <3> WITNESS d \in Decision
    <3> QED
      BY <1>1, <2>2 DEF Approve, Decision
  <2>3. CASE ConsumeToken(k)
    <3> DEFINE d == [decision[k] EXCEPT !.consumed = TRUE]
    <3>1. d \in Decision
      BY <1>1 DEF Decision
    <3> WITNESS d \in Decision
    <3> QED
      BY <1>1, <2>3 DEF ConsumeToken, Decision
  <2>4. CASE ApprovalExpires(k)
    <3> DEFINE d == [decision[k] EXCEPT !.late = TRUE]
    <3>1. d \in Decision
      BY <1>1 DEF Decision
    <3> WITNESS d \in Decision
    <3> QED
      BY <1>1, <2>4 DEF ApprovalExpires, Decision
  <2>5. CASE BecomeOverdue(k)
    <3> DEFINE d == [decision[k] EXCEPT !.overdue = TRUE]
    <3>1. d \in Decision
      BY <1>1 DEF Decision
    <3> WITNESS d \in Decision
    <3> QED
      BY <1>1, <2>5 DEF BecomeOverdue, Decision
  <2> QED
    BY <2>1, <2>2, <2>3, <2>4, <2>5
<1>3. UNCHANGED <<grant, link, budget, gate, lock>>
  BY DEF CreateApproval, Approve, ConsumeToken, ApprovalExpires, BecomeOverdue
<1> QED
  BY <1>2, <1>3, OneDecision

LEMMA NewMonthPreserves ==
    ASSUME IInv, NewMonth PROVE IInv'
<1>1. decision \in [Keys -> Decision]
  BY DEF IInv, Typed
<1>2. ASSUME NEW x \in Keys
      PROVE  /\ decision'[x] \in Decision
             /\ decision'[x].active = decision[x].active
             /\ decision'[x].credit = decision[x].credit
             /\ decision'[x].type = decision[x].type
             /\ decision'[x].current = FALSE
  <2>1. decision'[x] = [decision[x] EXCEPT !.current = FALSE]
    BY DEF NewMonth
  <2> QED
    BY <1>1, <2>1 DEF Decision
<1>3. decision' \in [Keys -> Decision]
  <2>1. decision' = [x \in Keys |-> decision'[x]]
    BY DEF NewMonth
  <2> QED
    BY <2>1, <1>2
<1>4. /\ \A x \in Keys :
            /\ decision'[x].active = decision[x].active
            /\ decision[x].active => decision'[x].credit = decision[x].credit
            /\ decision'[x].type = "absent" => decision[x].type = "absent"
      /\ \A x \in Keys : decision'[x].active /\ decision'[x].current
           => /\ decision[x].active /\ decision[x].current
              /\ decision'[x].alloc = decision[x].alloc
              /\ decision'[x].credit = decision[x].credit
  BY <1>2
<1>5. UNCHANGED <<grant, link, budget, gate, lock>>
  BY DEF NewMonth
<1> QED
  BY <1>3, <1>4, <1>5, DecisionStep

LEMMA NoDecisionType == NoDecision \in Decision
BY DEF NoDecision, Decision

LEMMA FailSafePreserves ==
    ASSUME IInv, NEW k \in Keys, NEW mode \in Modes, NEW dry \in BOOLEAN,
           FailSafe(k, mode, dry)
    PROVE  IInv'
<1>1. decision \in [Keys -> Decision]
  BY DEF IInv, Typed
<1> DEFINE type == ModeViolationDecision(mode)
<1>2. PICK a \in {"pending", "none"} :
         decision' = [decision EXCEPT ![k] = [NoDecision EXCEPT !.type = type, !.approval = a]]
  BY DEF FailSafe
<1>3. type \in {"allow", "require_approval", "deny"}
  BY DEF ModeViolationDecision
<1> HIDE DEF type
<1> DEFINE d == [NoDecision EXCEPT !.type = type, !.approval = a]
<1>4. d \in Decision /\ d.active = FALSE /\ d.type # "absent"
  <2>1. NoDecision.active = FALSE
    BY DEF NoDecision
  <2> QED
    BY <1>3, <2>1, NoDecisionType DEF Decision
<1> HIDE DEF d
<1>5. decision' = [decision EXCEPT ![k] = d]
  BY <1>2 DEF d
<1>6. ~decision[k].active
  BY DEF IInv, Mapped, FailSafe
<1>7. decision' \in [Keys -> Decision]
  BY <1>1, <1>4, <1>5
<1>8. \A x \in Keys \ {k} : decision'[x] = decision[x]
  BY <1>1, <1>5
<1>9. decision'[k] = d
  BY <1>1, <1>5
<1>9a. decision[k].active = FALSE
  BY <1>1, <1>6 DEF Decision
<1>10. /\ \A x \in Keys :
            /\ decision'[x].active = decision[x].active
            /\ decision[x].active => decision'[x].credit = decision[x].credit
            /\ decision'[x].type = "absent" => decision[x].type = "absent"
       /\ \A x \in Keys : decision'[x].active /\ decision'[x].current
           => /\ decision[x].active /\ decision[x].current
              /\ decision'[x].alloc = decision[x].alloc
              /\ decision'[x].credit = decision[x].credit
  BY <1>4, <1>8, <1>9, <1>9a
<1>11. UNCHANGED <<grant, link, budget, gate, lock>>
  BY DEF FailSafe
<1> QED
  BY <1>7, <1>10, <1>11, DecisionStep

\* A step that leaves decisions, allocation rows and gates alone.
LEMMA GrantStep ==
    ASSUME IInv, UNCHANGED <<decision, link, gate, lock>>,
           grant' \in [Grants -> Grant], budget' \in Budgets,
           \A c \in Grants :
              grant'[c].remaining + Used(link, c) = IF grant'[c].exists THEN Total[c] ELSE 0
    PROVE  IInv'
<1>1. Typed'
  BY DEF IInv, Typed
<1>2. Conserved'
  BY DEF Conserved, Used
<1>3. Mapped'
  <2>1. \A k \in Keys : Held(k)' = Held(k)
    BY DEF Held
  <2> QED
    BY <2>1 DEF IInv, Mapped, CreditIsMapped
<1>4. Serialised' /\ CeilingsHold'
  BY DEF IInv, Serialised, CeilingsHold, ReservedAllocTotal, ReservedCreditTotal, Month
<1> QED
  BY <1>1, <1>2, <1>3, <1>4 DEF IInv

LEMMA UsedNat ==
    ASSUME Typed, NEW c \in Grants
    PROVE  Used(link, c) \in Nat
<1>1. \A k \in Keys : [x \in Keys |-> link[x][c].held + link[x][c].consumed][k] \in Nat
  BY DEF Typed, Hold
<1>2. IsFiniteSet(Keys)
  BY ReservationsAssumption
<1> QED
  BY <1>1, <1>2, SumInt DEF Used

LEMMA AdminStepsPreserve ==
    ASSUME IInv,
           \/ \E b \in Budgets : UpsertBudget(b)
           \/ \E c \in Grants : CreateCreditGrant(c)
           \/ \E c \in Grants : GrantExpires(c)
    PROVE  IInv'
<1>0. /\ grant \in [Grants -> Grant] /\ budget \in Budgets /\ Typed
      /\ Total \in [Grants -> Nat]
  BY ReservationsAssumption DEF IInv, Typed
<1>1. \A c \in Grants :
         /\ grant[c].remaining \in Nat /\ Used(link, c) \in Nat
         /\ grant[c].remaining + Used(link, c) = IF grant[c].exists THEN Total[c] ELSE 0
  BY <1>0, UsedNat DEF IInv, Conserved, Grant
<1>2. CASE \E b \in Budgets : UpsertBudget(b)
  BY <1>0, <1>1, <1>2, GrantStep DEF UpsertBudget
<1>3. ASSUME NEW c \in Grants, CreateCreditGrant(c)
      PROVE  IInv'
  <2> DEFINE n == [exists |-> TRUE, remaining |-> Total[c], active |-> TRUE, expired |-> FALSE]
  <2>1. n \in Grant /\ n.remaining = Total[c] /\ n.exists
    BY <1>0 DEF Grant
  <2>2. grant' = [grant EXCEPT ![c] = n]
    BY <1>3 DEF CreateCreditGrant
  <2> HIDE DEF n
  <2>3. grant' \in [Grants -> Grant]
    BY <1>0, <2>1, <2>2
  <2>4. grant[c].remaining + Used(link, c) = 0
    BY <1>1, <1>3 DEF CreateCreditGrant
  <2>5. Used(link, c) = 0
    BY <1>1, <2>4
  <2>6. \A x \in Grants :
           grant'[x].remaining + Used(link, x) = IF grant'[x].exists THEN Total[x] ELSE 0
    BY <1>0, <1>1, <2>1, <2>2, <2>5
  <2>7. UNCHANGED <<decision, link, gate, lock>> /\ budget' \in Budgets
    BY <1>0, <1>3 DEF CreateCreditGrant
  <2> QED
    BY <2>3, <2>6, <2>7, GrantStep
<1>4. ASSUME NEW c \in Grants, GrantExpires(c)
      PROVE  IInv'
  <2> DEFINE n == [grant[c] EXCEPT !.expired = TRUE]
  <2>1. n \in Grant /\ n.remaining = grant[c].remaining /\ n.exists = grant[c].exists
    BY <1>0 DEF Grant
  <2>2. grant' = [grant EXCEPT ![c] = n]
    BY <1>4 DEF GrantExpires
  <2> HIDE DEF n
  <2>3. grant' \in [Grants -> Grant]
    BY <1>0, <2>1, <2>2
  <2>6. \A x \in Grants :
           grant'[x].remaining + Used(link, x) = IF grant'[x].exists THEN Total[x] ELSE 0
    BY <1>0, <1>1, <2>1, <2>2
  <2>7. UNCHANGED <<decision, link, gate, lock>> /\ budget' \in Budgets
    BY <1>0, <1>4 DEF GrantExpires
  <2> QED
    BY <2>3, <2>6, <2>7, GrantStep
<1> QED
  BY <1>2, <1>3, <1>4

-----------------------------------------------------------------------------
(***************************************************************************)
(* The statements of a gate evaluation.                                    *)
(***************************************************************************)

LEMMA GateFields ==
    ASSUME Typed, NEW g \in Gates
    PROVE  /\ gate[g] \in GateState
           /\ gate[g].pc \in {"idle", "locked", "totals", "ready"}
           /\ gate[g].pc = "idle" => gate[g] = Idle
           /\ gate[g].pc \in {"locked", "totals", "ready"}
                => gate[g].key \in Keys /\ gate[g].fresh \in SUBSET Grants
           /\ gate[g].pc \in {"totals", "ready"}
                => gate[g].alloc \in Nat /\ gate[g].credit \in Nat
           /\ gate[g].pc = "ready"
                => /\ gate[g].budget \in Budgets /\ gate[g].reserved \in Nat
                   /\ gate[g].emergency \in Nat /\ gate[g].held \in Nat
<1>1. gate[g] \in GateState
  BY DEF Typed
<1> QED
  BY <1>1 DEF GateState, Idle

\* A step of a gate that writes no row.
LEMMA GateOnly ==
    ASSUME IInv, UNCHANGED <<decision, grant, link, budget>>,
           NEW g \in Gates, NEW x \in GateState, gate' = [gate EXCEPT ![g] = x],
           lock' \in Gates \cup {NoGate},
           \A h \in Gates \ {g} : gate[h] # Idle => lock' = h,
           x # Idle => lock' = g,
           x.pc \in {"totals", "ready"} => /\ ReservedAllocTotal <= x.alloc
                                           /\ ReservedCreditTotal <= x.credit
    PROVE  IInv'
<1>0. gate \in [Gates -> GateState]
  BY DEF IInv, Typed
<1>1. Typed'
  BY <1>0 DEF IInv, Typed
<1>2. Conserved'
  BY DEF IInv, Conserved, Used
<1>3. Mapped'
  <2>1. \A k \in Keys : Held(k)' = Held(k)
    BY DEF Held
  <2> QED
    BY <2>1 DEF IInv, Mapped, CreditIsMapped
<1>4. ReservedAllocTotal' = ReservedAllocTotal /\ ReservedCreditTotal' = ReservedCreditTotal
  BY DEF ReservedAllocTotal, ReservedCreditTotal, Month
<1>5. CeilingsHold'
  BY <1>4 DEF IInv, CeilingsHold
<1>6. Serialised'
  <2> SUFFICES ASSUME NEW h \in Gates
               PROVE  /\ gate'[h] # Idle => lock' = h
                      /\ gate'[h].pc \in {"totals", "ready"}
                           => /\ ReservedAllocTotal <= gate'[h].alloc
                              /\ ReservedCreditTotal <= gate'[h].credit
    BY <1>4 DEF Serialised
  <2>1. CASE h = g
    BY <2>1, <1>0
  <2>2. CASE h # g
    <3>1. gate'[h] = gate[h]
      BY <2>2, <1>0
    <3> QED
      BY <2>2, <3>1 DEF IInv, Serialised
  <2> QED
    BY <2>1, <2>2
<1> QED
  BY <1>1, <1>2, <1>3, <1>5, <1>6 DEF IInv

LEMMA GateLockPreserves ==
    ASSUME IInv, NEW g \in Gates, NEW k \in Keys, GateLock(g, k) PROVE IInv'
<1> DEFINE x == [pc |-> "locked", key |-> k, fresh |-> {c \in Grants : ~grant[c].expired}]
<1>1. x \in GateState /\ x.pc = "locked"
  BY DEF GateState
<1>2. gate' = [gate EXCEPT ![g] = x] /\ lock' = g /\ lock = NoGate
      /\ UNCHANGED <<decision, grant, link, budget>>
  BY DEF GateLock
<1>3. \A h \in Gates \ {g} : gate[h] = Idle
  BY <1>2, ReservationsAssumption DEF IInv, Serialised
<1> HIDE DEF x
<1> QED
  BY <1>1, <1>2, <1>3, GateOnly

LEMMA GateReadTotalsPreserves ==
    ASSUME IInv, NEW g \in Gates, GateReadTotals(g) PROVE IInv'
<1> DEFINE x == [pc |-> "totals", key |-> gate[g].key, fresh |-> gate[g].fresh,
                 alloc |-> ReservedAllocTotal, credit |-> ReservedCreditTotal]
<1>0. Typed /\ gate \in [Gates -> GateState] /\ lock \in Gates \cup {NoGate}
  BY DEF IInv, Typed
<1>1. gate[g].pc = "locked" /\ gate[g].key \in Keys /\ gate[g].fresh \in SUBSET Grants
  BY <1>0, GateFields DEF GateReadTotals
<1>2. ReservedAllocTotal \in Nat /\ ReservedCreditTotal \in Nat
  BY <1>0, TotalsNat
<1>3. /\ x \in GateState
      /\ ReservedAllocTotal <= x.alloc /\ ReservedCreditTotal <= x.credit
  BY <1>1, <1>2 DEF GateState
<1>4. gate' = [gate EXCEPT ![g] = x] /\ lock' = lock
      /\ UNCHANGED <<decision, grant, link, budget>>
  BY <1>0 DEF GateReadTotals
<1>5. gate[g] # Idle
  BY <1>1 DEF Idle
<1>6. /\ \A h \in Gates : gate[h] # Idle => lock = h
  BY DEF IInv, Serialised
<1> HIDE DEF x
<1>7. /\ lock' \in Gates \cup {NoGate}
      /\ \A h \in Gates \ {g} : gate[h] # Idle => lock' = h
      /\ x # Idle => lock' = g
  BY <1>0, <1>4, <1>5, <1>6
<1> QED
  BY <1>3, <1>4, <1>7, GateOnly

LEMMA OfferType ==
    ASSUME Typed, NEW fresh
    PROVE  /\ Offer(fresh) \in [Grants -> Nat]
           /\ \A c \in Grants : Offer(fresh)[c] <= grant[c].remaining
<1>1. \A c \in Grants : grant[c].remaining \in Nat
  BY DEF Typed, Grant
<1> QED
  BY <1>1 DEF Offer

LEMMA OrderSumNat ==
    ASSUME NEW order \in Seq(Grants), NEW avail \in [Grants -> Nat]
    PROVE  OrderSum(order, avail) \in Nat
<1>1. DOMAIN order = 1..Len(order) /\ Len(order) \in Nat
      /\ \A i \in DOMAIN order : order[i] \in Grants
  OBVIOUS
<1>2. IsFiniteSet(DOMAIN order)
  BY <1>1, FS_Interval
<1>3. \A j \in DOMAIN order : [i \in DOMAIN order |-> avail[order[i]]][j] \in Nat
  BY <1>1
<1> QED
  BY <1>2, <1>3, SumInt DEF OrderSum

LEMMA GateReadGrantsPreserves ==
    ASSUME IInv, NEW g \in Gates, GateReadGrants(g) PROVE IInv'
<1> DEFINE r == OrderSum(ReservedOrder[gate[g].key], Offer(gate[g].fresh))
           e == OrderSum(EmergencyOrder, Offer(gate[g].fresh))
           x == [pc |-> "ready", key |-> gate[g].key, fresh |-> gate[g].fresh,
                 alloc |-> gate[g].alloc, credit |-> gate[g].credit, budget |-> budget,
                 reserved |-> r, emergency |-> e, held |-> DecisionsReservedTotal]
<1>0. Typed /\ gate \in [Gates -> GateState] /\ lock \in Gates \cup {NoGate}
      /\ budget \in Budgets
  BY DEF IInv, Typed
<1>1. gate[g].pc = "totals" /\ gate[g].key \in Keys /\ gate[g].fresh \in SUBSET Grants
      /\ gate[g].alloc \in Nat /\ gate[g].credit \in Nat
  BY <1>0, GateFields DEF GateReadGrants
<1>2. DecisionsReservedTotal \in Nat /\ r \in Nat /\ e \in Nat
  <2>1. ReservedOrder[gate[g].key] \in Seq(Grants) /\ EmergencyOrder \in Seq(Grants)
    BY <1>1, ReservationsAssumption
  <2>2. Offer(gate[g].fresh) \in [Grants -> Nat]
    BY <1>0, OfferType
  <2> QED
    BY <2>1, <2>2, <1>0, OrderSumNat, TotalsNat
<1>4. gate' = [gate EXCEPT ![g] = x] /\ lock' = lock
      /\ UNCHANGED <<decision, grant, link, budget>>
  BY <1>0 DEF GateReadGrants
<1> HIDE DEF r, e
<1>3. x \in GateState /\ x.alloc = gate[g].alloc /\ x.credit = gate[g].credit
  BY <1>0, <1>1, <1>2 DEF GateState
<1>3a. ReservedAllocTotal <= x.alloc /\ ReservedCreditTotal <= x.credit
  BY <1>1, <1>3 DEF IInv, Serialised
<1>5. gate[g] # Idle
  BY <1>1 DEF Idle
<1>6. /\ \A h \in Gates : gate[h] # Idle => lock = h
  BY DEF IInv, Serialised
<1> HIDE DEF x
<1>7. /\ lock' \in Gates \cup {NoGate}
      /\ \A h \in Gates \ {g} : gate[h] # Idle => lock' = h
      /\ x # Idle => lock' = g
  BY <1>0, <1>4, <1>5, <1>6
<1> QED
  BY <1>3, <1>3a, <1>4, <1>7, GateOnly

\* A gate that ends was the only one under way.
LEMMA ReleaseFacts ==
    ASSUME Typed, Serialised, NEW g \in Gates, gate[g] # Idle, Release(g)
    PROVE  /\ gate' = [h \in Gates |-> Idle]
           /\ lock' = NoGate
<1>1. gate \in [Gates -> GateState]
  BY DEF Typed
<1>2. \A h \in Gates : gate[h] # Idle => h = g
  BY DEF Serialised
<1> QED
  BY <1>1, <1>2 DEF Release, Serialised

LEMMA GateAbortPreserves ==
    ASSUME IInv, NEW g \in Gates, GateAbort(g) PROVE IInv'
<1>1. gate' = [h \in Gates |-> Idle] /\ lock' = NoGate
  BY ReleaseFacts DEF GateAbort, IInv
<1>2. gate' = [gate EXCEPT ![g] = Idle] /\ UNCHANGED <<decision, grant, link, budget>>
  BY DEF GateAbort, Release
<1>3. Idle \in GateState /\ Idle.pc = "idle"
  BY DEF GateState, Idle
<1>4. \A h \in Gates \ {g} : gate[h] # Idle => lock' = h
  BY DEF IInv, Serialised, GateAbort
<1> QED
  BY <1>1, <1>2, <1>3, <1>4, GateOnly

-----------------------------------------------------------------------------
(***************************************************************************)
(* The decision a gate inserts.                                            *)
(***************************************************************************)

LEMMA UnderType ==
    ASSUME NEW ceiling \in Nat \cup {Unbounded}, NEW total \in Nat
    PROVE  /\ Under(ceiling, total) \in Int \cup {Unbounded}
           /\ ceiling = Unbounded => Under(ceiling, total) = Unbounded
           /\ ceiling # Unbounded => /\ Under(ceiling, total) = Clamp(ceiling - total)
                                     /\ Under(ceiling, total) # Unbounded
<1>1. CASE ceiling = Unbounded
  BY <1>1 DEF Under
<1>2. CASE ceiling # Unbounded
  BY <1>2, UnboundedAssumption DEF Under, Clamp
<1> QED
  BY <1>1, <1>2

\* Adding what fits under a ceiling to what was counted stays under the ceiling.
LEMMA UnderAdds ==
    ASSUME NEW ceiling \in Nat \cup {Unbounded}, NEW total \in Nat, NEW t \in Nat, t > 0,
           Within(t, Under(ceiling, total))
    PROVE  Within(total + t, ceiling)
<1>1. CASE ceiling = Unbounded
  BY <1>1 DEF Within
<1>2. CASE ceiling # Unbounded
  <2>1. Under(ceiling, total) = Clamp(ceiling - total) /\ Under(ceiling, total) # Unbounded
        /\ ceiling \in Nat
    BY <1>2, UnderType
  <2>2. t <= Clamp(Clamp(ceiling - total))
    BY <2>1 DEF Within
  <2>3. total + t <= ceiling
    BY <2>1, <2>2 DEF Clamp
  <2> QED
    BY <2>1, <2>3 DEF Within, Clamp
<1> QED
  BY <1>1, <1>2

LEMMA WithinLess ==
    ASSUME NEW a \in Nat, NEW b \in Nat, a <= b, NEW limit \in Int \cup {Unbounded},
           Within(b, limit)
    PROVE  Within(a, limit)
<1>1. CASE limit = Unbounded
  BY <1>1 DEF Within
<1>2. CASE limit # Unbounded
  BY <1>2 DEF Within, Clamp
<1> QED
  BY <1>1, <1>2

LEMMA HeadroomsType ==
    ASSUME Typed, NEW g \in Gates, gate[g].pc = "ready"
    PROVE  /\ GateHeadrooms(g) \in Headrooms
           /\ GateHeadrooms(g).plan = Under(PlanCeiling, gate[g].alloc + gate[g].credit)
           /\ GateHeadrooms(g).enterprise
                = Under(EnterpriseCeiling, gate[g].alloc + gate[g].credit)
           /\ GateHeadrooms(g).allocation = Under(gate[g].budget, gate[g].alloc)
<1> DEFINE x == gate[g]
           u == Clamp(x.held - MappedTotal)
           r == Smaller(u, x.reserved)
<1>1. /\ x.alloc \in Nat /\ x.credit \in Nat /\ x.budget \in Budgets
      /\ x.reserved \in Nat /\ x.emergency \in Nat /\ x.held \in Nat
  BY GateFields
<1>2. /\ PlanCeiling \in Nat \cup {Unbounded} /\ EnterpriseCeiling \in Nat \cup {Unbounded}
      /\ x.budget \in Nat \cup {Unbounded}
  BY <1>1, ReservationsAssumption
<1>3. u \in Nat
  <2>1. MappedTotal \in Nat
    BY TotalsNat
  <2>2. x.held - MappedTotal \in Int
    BY <1>1, <2>1
  <2> QED
    BY <2>2, Arithmetic
<1> HIDE DEF u
<1>4. r \in Nat
  BY <1>1, <1>3, Arithmetic
<1> HIDE DEF r
<1>5. x.reserved - r \in Int /\ Clamp(x.emergency - (u - r)) \in Int
  <2>1. x.emergency - (u - r) \in Int
    BY <1>1, <1>3, <1>4
  <2>2. Clamp(x.emergency - (u - r)) \in Nat
    BY <2>1, Arithmetic
  <2>3. x.reserved - r \in Int
    BY <1>1, <1>4
  <2> QED
    BY <2>2, <2>3
<1>6. /\ Under(PlanCeiling, x.alloc + x.credit) \in Int \cup {Unbounded}
      /\ Under(EnterpriseCeiling, x.alloc + x.credit) \in Int \cup {Unbounded}
      /\ Under(x.budget, x.alloc) \in Int \cup {Unbounded}
  <2>1. x.alloc + x.credit \in Nat
    BY <1>1
  <2> QED
    BY <1>1, <1>2, <2>1, UnderType
<1>7. GateHeadrooms(g) = [plan |-> Under(PlanCeiling, x.alloc + x.credit),
                          allocation |-> Under(x.budget, x.alloc),
                          reserved |-> x.reserved - r,
                          emergency |-> Clamp(x.emergency - (u - r)),
                          enterprise |-> Under(EnterpriseCeiling, x.alloc + x.credit)]
  BY DEF GateHeadrooms, u, r
<1> QED
  BY <1>5, <1>6, <1>7 DEF Headrooms

LEMMA WaterfallType ==
    ASSUME NEW mode \in Modes, NEW requested \in Nat, NEW h \in Headrooms
    PROVE  LET w == EvaluateEntitlementWaterfall(mode, requested, h) IN
           /\ w.allocation \in Nat /\ w.reserved \in Nat /\ w.emergency \in Nat
           /\ w.decision \in {"allow", "allow_with_credits", "require_approval", "deny"}
<1>1. /\ AllocationShare(requested, h) \in Nat
      /\ ReservedShare(requested, h) \in Nat
      /\ EmergencyShare(requested, h) \in Nat
  <2>1. Clamp(h.reserved) \in Nat /\ Clamp(h.emergency) \in Nat
    BY DEF Headrooms, Clamp
  <2> QED
    BY <2>1, Stages
<1>2. ModeViolationDecision(mode) \in {"allow", "require_approval", "deny"}
  BY DEF ModeViolationDecision
<1> QED
  BY <1>1, <1>2 DEF EvaluateEntitlementWaterfall

\* A gate reserves within the headrooms it computed, and an inactive decision nothing.
LEMMA OutcomeFacts ==
    ASSUME NEW in \in Inputs, NEW h \in Headrooms
    PROVE  LET o == Outcome(in, h) IN
           /\ o.type \in {"allow", "allow_with_credits", "require_approval", "deny"}
           /\ o.active \in BOOLEAN
           /\ o.alloc \in Nat /\ o.reserved \in Nat /\ o.emergency \in Nat
           /\ ~o.active => o.alloc = 0 /\ o.reserved = 0 /\ o.emergency = 0
           /\ o.active => /\ o.alloc + o.reserved + o.emergency > 0
                          /\ Within(o.alloc + o.reserved + o.emergency, h.plan)
                          /\ Within(o.alloc + o.reserved + o.emergency, h.enterprise)
                          /\ Within(o.alloc, h.allocation)
<1> DEFINE o == Outcome(in, h)
           nothing == [decision |-> ModeViolationDecision(in.mode),
                       allocation |-> 0, reserved |-> 0, emergency |-> 0]
           w == IF (in.blind /\ in.delta > 0) \/ in.delta > HardDeny
                  THEN nothing
                  ELSE EvaluateEntitlementWaterfall(in.mode, in.delta, h)
           type == IF /\ w.decision \in {"allow", "allow_with_credits"}
                      /\ in.approve
                      /\ in.mode # "shadow"
                     THEN "require_approval" ELSE w.decision
           active == /\ ~in.dry
                     /\ type # "deny"
                     /\ in.mode # "shadow"
                     /\ w.allocation + w.reserved + w.emergency > 0
<1>1. /\ o.type = type /\ o.active = active
      /\ o.alloc = IF active THEN w.allocation ELSE 0
      /\ o.reserved = IF active THEN w.reserved ELSE 0
      /\ o.emergency = IF active THEN w.emergency ELSE 0
  BY DEF Outcome
<1>2. in.mode \in Modes /\ in.delta \in Nat
  BY ReservationsAssumption DEF Inputs
<1>3. CASE (in.blind /\ in.delta > 0) \/ in.delta > HardDeny
  <2>1. w = nothing
    BY <1>3
  <2>2. w.allocation = 0 /\ w.reserved = 0 /\ w.emergency = 0
    BY <2>1
  <2>3. w.decision \in {"allow", "require_approval", "deny"}
    BY <2>1 DEF ModeViolationDecision
  <2> HIDE DEF w, o
  <2> QED
    BY <1>1, <2>2, <2>3 DEF o
<1>4. CASE ~((in.blind /\ in.delta > 0) \/ in.delta > HardDeny)
  <2>1. w = EvaluateEntitlementWaterfall(in.mode, in.delta, h)
    BY <1>4
  <2>2. /\ w.allocation \in Nat /\ w.reserved \in Nat /\ w.emergency \in Nat
        /\ w.decision \in {"allow", "allow_with_credits", "require_approval", "deny"}
    BY <1>2, <2>1, WaterfallType
  <2>3. /\ Within(w.allocation, h.allocation)
        /\ Within(w.allocation + w.reserved + w.emergency, h.plan)
        /\ Within(w.allocation + w.reserved + w.emergency, h.enterprise)
    BY <1>2, <2>1, HeadroomsRespected DEF WithinHeadrooms, Reserves
  <2> HIDE DEF w, o
  <2>4. o.type \in {"allow", "allow_with_credits", "require_approval", "deny"}
    BY <1>1, <2>2
  <2>5. CASE active
    BY <1>1, <2>2, <2>3, <2>4, <2>5 DEF o
  <2>6. CASE ~active
    BY <1>1, <2>4, <2>6 DEF o
  <2> QED
    BY <2>5, <2>6
<1> QED
  BY <1>3, <1>4

\* An active decision adds its amounts to the month, an inactive one adds none.
LEMMA MonthGrows ==
    ASSUME Typed, NEW k \in Keys, NEW d \in Decision, ~decision[k].active,
           decision' = [decision EXCEPT ![k] = d], d.current = d.active
    PROVE  /\ ReservedAllocTotal' = ReservedAllocTotal + (IF d.active THEN d.alloc ELSE 0)
           /\ ReservedCreditTotal' = ReservedCreditTotal + (IF d.active THEN d.credit ELSE 0)
<1> DEFINE A == [x \in Keys |-> decision[x].alloc]
           C == [x \in Keys |-> decision[x].credit]
           An == [x \in Keys |-> decision'[x].alloc]
           Cn == [x \in Keys |-> decision'[x].credit]
<1>0. decision \in [Keys -> Decision]
  BY DEF Typed
<1>1. /\ decision'[k] = d
      /\ \A x \in Keys \ {k} : decision'[x] = decision[x]
      /\ decision' \in [Keys -> Decision]
  BY <1>0
<1>2. /\ IsFiniteSet(Month) /\ Month \subseteq Keys /\ k \notin Month
      /\ ReservedAllocTotal \in Nat /\ ReservedCreditTotal \in Nat
  BY TotalsNat DEF Month
<1>3. /\ \A x \in Keys : A[x] \in Int /\ C[x] \in Int /\ An[x] \in Int /\ Cn[x] \in Int
      /\ \A x \in Month : A[x] \in Int /\ An[x] = A[x]
      /\ \A x \in Month : C[x] \in Int /\ Cn[x] = C[x]
      /\ An[k] = d.alloc /\ Cn[k] = d.credit
  <2>1. \A x \in Keys : /\ decision[x].alloc \in Int /\ decision[x].credit \in Int
                        /\ decision'[x].alloc \in Int /\ decision'[x].credit \in Int
    BY <1>0, <1>1 DEF Decision
  <2> QED
    BY <2>1, <1>1, <1>2
<1>4. /\ ReservedAllocTotal = SumFunctionOnSet(A, Month)
      /\ ReservedCreditTotal = SumFunctionOnSet(C, Month)
      /\ ReservedAllocTotal' = SumFunctionOnSet(An, Month')
      /\ ReservedCreditTotal' = SumFunctionOnSet(Cn, Month')
  BY DEF ReservedAllocTotal, ReservedCreditTotal, Sum
<1> HIDE DEF A, C, An, Cn
<1>5. /\ SumFunctionOnSet(An, Month) = SumFunctionOnSet(A, Month)
      /\ SumFunctionOnSet(Cn, Month) = SumFunctionOnSet(C, Month)
  BY <1>2, <1>3, SumSame
<1>6. CASE d.active
  <2>1. Month' = Month \cup {k}
    BY <1>1, <1>2, <1>6 DEF Month
  <2>2. /\ IsFiniteSet(Month \cup {k}) /\ (Month \cup {k}) \ {k} = Month
        /\ k \in Month \cup {k} /\ Month \cup {k} \subseteq Keys
    BY <1>2, FS_AddElement
  <2>3. /\ \A x \in Month \cup {k} : An[x] \in Int
        /\ \A x \in Month \cup {k} : Cn[x] \in Int
    BY <1>3, <2>2
  <2>4. SumFunctionOnSet(An, Month \cup {k}) = An[k] + SumFunctionOnSet(An, Month)
    BY <2>2, <2>3, SumRemove
  <2>5. SumFunctionOnSet(Cn, Month \cup {k}) = Cn[k] + SumFunctionOnSet(Cn, Month)
    BY <2>2, <2>3, SumRemove
  <2>6. d.alloc \in Nat /\ d.credit \in Nat
    BY DEF Decision
  <2>7. ReservedAllocTotal' = d.alloc + ReservedAllocTotal
        /\ ReservedCreditTotal' = d.credit + ReservedCreditTotal
    BY <1>3, <1>4, <1>5, <2>1, <2>4, <2>5
  <2>8. \A m, n \in Nat : m + n = n + m
    OBVIOUS
  <2> QED
    BY <1>2, <1>6, <2>6, <2>7, <2>8
<1>7. CASE ~d.active
  <2>1. Month' = Month
    BY <1>1, <1>2, <1>7 DEF Month
  <2>2. ReservedAllocTotal' = ReservedAllocTotal /\ ReservedCreditTotal' = ReservedCreditTotal
    BY <1>4, <1>5, <2>1
  <2> QED
    BY <1>2, <1>7, <2>2
<1> QED
  BY <1>6, <1>7

\* taken[c] goes from every grant c to the allocation rows of k.
Draws(k, taken) ==
    /\ grant' = [c \in Grants |->
          IF taken[c] = 0 THEN grant[c]
          ELSE [grant[c] EXCEPT !.remaining = @ - taken[c],
                                !.active = grant[c].remaining > taken[c]]]
    /\ link' = [link EXCEPT ![k] = [c \in Grants |->
          [link[k][c] EXCEPT !.held = taken[c]]]]

\* Gate g inserts decision d with key k, within its headrooms.
Inserts(g, k, d) ==
    /\ gate[g].pc = "ready"
    /\ decision[k].type = "absent"
    /\ decision' = [decision EXCEPT ![k] = d]
    /\ d.type # "absent" /\ d.current = d.active
    /\ ~d.active => d.alloc = 0 /\ d.credit = 0
    /\ d.active => /\ d.alloc + d.credit > 0
                   /\ Within(d.alloc + d.credit, GateHeadrooms(g).plan)
                   /\ Within(d.alloc + d.credit, GateHeadrooms(g).enterprise)
                   /\ Within(d.alloc, GateHeadrooms(g).allocation)

\* What a gate does, as what it takes of each grant and the decision it inserts.
LEMMA PersistFacts ==
    ASSUME IInv, NEW g \in Gates, NEW in \in Inputs, GatePersist(g, in)
    PROVE  \E k \in Keys \ Legacy, taken \in [Grants -> Nat], d \in Decision :
              /\ Inserts(g, k, d)
              /\ Drawn(taken) = d.credit
              /\ \A c \in Grants : taken[c] <= grant[c].remaining
              /\ Draws(k, taken)
<1> DEFINE k == gate[g].key
           h == GateHeadrooms(g)
           o == Outcome(in, h)
           offer == Offer(gate[g].fresh)
           fillR == Fill(ReservedOrder[k], offer, o.reserved)
           fillE == Fill(EmergencyOrder, offer, o.emergency)
           taken == [c \in Grants |-> fillR[c] + fillE[c]]
           ap == IF o.type = "require_approval" /\ ~in.dry /\ in.mode # "shadow"
                   THEN "pending" ELSE "none"
           d == [NoDecision EXCEPT
                   !.type = o.type, !.alloc = o.alloc,
                   !.credit = o.reserved + o.emergency, !.active = o.active,
                   !.current = o.active, !.approval = ap]
<1>0. Typed /\ IsFiniteSet(Grants)
  BY ReservationsAssumption DEF IInv
<1>1. /\ gate[g].pc = "ready" /\ decision[k].type = "absent"
      /\ Drawn(fillR) = o.reserved /\ Drawn(fillE) = o.emergency
      /\ decision' = [decision EXCEPT ![k] = d]
      /\ grant' = [c \in Grants |->
            IF taken[c] = 0 THEN grant[c]
            ELSE [grant[c] EXCEPT !.remaining = @ - taken[c],
                                  !.active = grant[c].remaining > taken[c]]]
      /\ link' = [link EXCEPT ![k] = [c \in Grants |->
            [link[k][c] EXCEPT !.held = taken[c]]]]
  BY DEF GatePersist
<1>2. k \in Keys \ Legacy
  BY <1>0, <1>1, GateFields DEF IInv, Mapped
<1>3. h \in Headrooms
  BY <1>0, <1>1, HeadroomsType
<1> HIDE DEF h
<1>4. /\ o.type \in {"allow", "allow_with_credits", "require_approval", "deny"}
      /\ o.active \in BOOLEAN
      /\ o.alloc \in Nat /\ o.reserved \in Nat /\ o.emergency \in Nat
      /\ ~o.active => o.alloc = 0 /\ o.reserved = 0 /\ o.emergency = 0
      /\ o.active => /\ o.alloc + o.reserved + o.emergency > 0
                     /\ Within(o.alloc + o.reserved + o.emergency, h.plan)
                     /\ Within(o.alloc + o.reserved + o.emergency, h.enterprise)
                     /\ Within(o.alloc, h.allocation)
  BY <1>3, OutcomeFacts
<1> HIDE DEF o
<1>5. offer \in [Grants -> Nat] /\ \A c \in Grants : offer[c] <= grant[c].remaining
  BY <1>0, OfferType
<1>6. /\ ReservedOrder[k] \in Seq(Grants) /\ EmergencyOrder \in Seq(Grants)
      /\ \A i \in DOMAIN ReservedOrder[k], j \in DOMAIN EmergencyOrder :
             ReservedOrder[k][i] # EmergencyOrder[j]
  BY <1>2, ReservationsAssumption
<1> HIDE DEF offer, k
<1>6a. o.reserved \in Int /\ o.emergency \in Int
  BY <1>4
<1>7. /\ fillR \in [Grants -> Nat]
      /\ \A c \in Grants : /\ fillR[c] <= offer[c]
                           /\ (\A i \in DOMAIN ReservedOrder[k] : ReservedOrder[k][i] # c)
                                => fillR[c] = 0
  BY <1>5, <1>6, <1>6a, FillBounds
<1>8. /\ fillE \in [Grants -> Nat]
      /\ \A c \in Grants : /\ fillE[c] <= offer[c]
                           /\ (\A i \in DOMAIN EmergencyOrder : EmergencyOrder[i] # c)
                                => fillE[c] = 0
  BY <1>5, <1>6, <1>6a, FillBounds
<1> HIDE DEF fillR, fillE
<1>9. taken \in [Grants -> Nat]
  BY <1>7, <1>8
<1>10. \A c \in Grants : taken[c] <= grant[c].remaining
  <2> SUFFICES ASSUME NEW c \in Grants PROVE taken[c] <= grant[c].remaining
    OBVIOUS
  <2>1. fillR[c] = 0 \/ fillE[c] = 0
    BY <1>6, <1>7, <1>8
  <2>2. grant[c].remaining \in Nat /\ offer[c] \in Nat /\ fillR[c] \in Nat /\ fillE[c] \in Nat
        /\ fillR[c] <= offer[c] /\ fillE[c] <= offer[c] /\ offer[c] <= grant[c].remaining
    BY <1>0, <1>5, <1>7, <1>8 DEF Typed, Grant
  <2> QED
    BY <2>1, <2>2
<1>11. Drawn(taken) = o.reserved + o.emergency
  <2>1. \A c \in Grants : /\ fillR[c] \in Int /\ fillE[c] \in Int
                          /\ taken[c] = fillR[c] + fillE[c]
    BY <1>7, <1>8
  <2> HIDE DEF taken
  <2>2. SumFunctionOnSet(taken, Grants)
          = SumFunctionOnSet(fillR, Grants) + SumFunctionOnSet(fillE, Grants)
    BY <1>0, <2>1, SumPlus
  <2> QED
    BY <1>1, <2>2 DEF Drawn, Sum
<1>12. /\ d \in Decision
       /\ d.type = o.type /\ d.alloc = o.alloc /\ d.credit = o.reserved + o.emergency
       /\ d.active = o.active /\ d.current = o.active
  <2>1. ap \in {"pending", "none"}
    OBVIOUS
  <2>2. o.reserved + o.emergency \in Nat
    BY <1>4
  <2> HIDE DEF ap
  <2> QED
    BY <1>4, <2>1, <2>2, NoDecisionType DEF Decision
<1> HIDE DEF d, taken
<1>13. o.alloc + o.reserved + o.emergency = d.alloc + d.credit
  BY <1>4, <1>12
<1>14. /\ d.type # "absent" /\ d.current = d.active
       /\ ~d.active => d.alloc = 0 /\ d.credit = 0
       /\ Drawn(taken) = d.credit
       /\ d.active => /\ d.alloc + d.credit > 0
                      /\ Within(d.alloc + d.credit, h.plan)
                      /\ Within(d.alloc + d.credit, h.enterprise)
                      /\ Within(d.alloc, h.allocation)
  BY <1>4, <1>11, <1>12, <1>13
<1>15. d \in Decision
  BY <1>12
<1> WITNESS k \in Keys \ Legacy, taken \in [Grants -> Nat], d \in Decision
<1> QED
  BY <1>1, <1>10, <1>14 DEF h, Inserts, Draws

\* What an insert does to the rows of the grants.
LEMMA TakenFacts ==
    ASSUME Typed, Conserved, Mapped, NEW k \in Keys \ Legacy, NEW taken \in [Grants -> Nat],
           decision[k].type = "absent",
           \A c \in Grants : taken[c] <= grant[c].remaining,
           Draws(k, taken)
    PROVE  /\ ~decision[k].active
           /\ grant' \in [Grants -> Grant]
           /\ link' \in [Keys -> [Grants -> Hold]]
           /\ \A c \in Grants : /\ grant'[c].exists = grant[c].exists
                                /\ grant'[c].remaining = grant[c].remaining - taken[c]
                                /\ link[k][c].held = 0
                                /\ link'[k][c].held = taken[c]
                                /\ link'[k][c].consumed = link[k][c].consumed
           /\ \A x \in Keys \ {k} : link'[x] = link[x]
           /\ Conserved'
<1>0. IsFiniteSet(Keys) /\ IsFiniteSet(Grants) /\ Total \in [Grants -> Nat]
  BY ReservationsAssumption
<1>1. ~decision[k].active
  BY DEF Mapped
<1>2. \A x \in Keys, c \in Grants : /\ link[x][c] \in Hold
                                    /\ link[x][c].held \in Nat /\ link[x][c].consumed \in Nat
  BY DEF Typed, Hold
<1>3. \A c \in Grants : link[k][c].held = 0
  <2>1. Drawn(Held(k)) = 0
    BY <1>1 DEF Mapped, CreditIsMapped
  <2>2. \A c \in Grants : Held(k)[c] \in Nat /\ Held(k)[c] = link[k][c].held
    BY <1>2 DEF Held
  <2>3. \A c \in Grants : Held(k)[c] \in Nat
    BY <2>2
  <2>4. \A c \in Grants : Held(k)[c] = 0
    BY <1>0, <2>1, <2>3, SumNat DEF Drawn, Sum
  <2> QED
    BY <2>2, <2>4
<1>4. ASSUME NEW c \in Grants
      PROVE  /\ grant'[c] \in Grant
             /\ grant'[c].exists = grant[c].exists
             /\ grant'[c].remaining = grant[c].remaining - taken[c]
  <2>1. grant[c] \in Grant /\ grant[c].remaining \in Nat /\ taken[c] \in Nat
        /\ taken[c] <= grant[c].remaining
    BY DEF Typed, Grant
  <2>1a. grant'[c] = IF taken[c] = 0 THEN grant[c]
                    ELSE [grant[c] EXCEPT !.remaining = grant[c].remaining - taken[c],
                                          !.active = grant[c].remaining > taken[c]]
    BY <2>1 DEF Draws, Grant
  <2>2. CASE taken[c] = 0
    BY <2>1, <2>1a, <2>2
  <2>3. CASE taken[c] # 0
    <3>1. PICK n \in Nat : n = grant[c].remaining - taken[c]
      BY <2>1
    <3>2. (grant[c].remaining > taken[c]) \in BOOLEAN
      OBVIOUS
    <3>3. grant'[c] = [grant[c] EXCEPT !.remaining = n,
                                       !.active = grant[c].remaining > taken[c]]
      BY <2>1a, <2>3, <3>1
    <3> QED
      BY <2>1, <3>1, <3>2, <3>3 DEF Grant
  <2> QED
    BY <2>2, <2>3
<1>5. grant' \in [Grants -> Grant]
  <2>1. grant' = [c \in Grants |-> grant'[c]]
    BY DEF Draws
  <2> QED
    BY <2>1, <1>4
<1>6. ASSUME NEW c \in Grants
      PROVE  /\ link'[k][c] \in Hold
             /\ link'[k][c].held = taken[c]
             /\ link'[k][c].consumed = link[k][c].consumed
  <2>1. link'[k][c] = [link[k][c] EXCEPT !.held = taken[c]]
    BY DEF Typed, Draws
  <2> QED
    BY <2>1, <1>2 DEF Hold
<1>7. \A x \in Keys \ {k} : link'[x] = link[x]
  BY DEF Typed, Draws
<1>8. link' \in [Keys -> [Grants -> Hold]]
  <2>1. link'[k] = [c \in Grants |-> link'[k][c]]
    BY DEF Typed, Draws
  <2>2. link'[k] \in [Grants -> Hold]
    BY <2>1, <1>6
  <2>3. link' = [link EXCEPT ![k] = link'[k]]
    BY DEF Typed, Draws
  <2> QED
    BY <2>2, <2>3 DEF Typed
<1>9. ASSUME NEW c \in Grants
      PROVE  /\ Used(link, c) \in Nat
             /\ Used(link', c) = Used(link, c) + taken[c]
  <2> DEFINE F == [x \in Keys |-> link[x][c].held + link[x][c].consumed]
             G == [x \in Keys |-> link'[x][c].held + link'[x][c].consumed]
  <2>1. /\ \A x \in Keys : F[x] \in Int /\ G[x] \in Int
        /\ \A x \in Keys \ {k} : G[x] = F[x]
        /\ G[k] = F[k] + taken[c] /\ F[k] \in Int
    <3>1. \A x \in Keys \ {k} : F[x] \in Int /\ G[x] = F[x]
      BY <1>2, <1>7
    <3>2. F[k] \in Int /\ G[k] = F[k] + taken[c] /\ G[k] \in Int
      BY <1>2, <1>3, <1>6
    <3> HIDE DEF F, G
    <3> QED
      BY <3>1, <3>2
  <2>2. Used(link, c) = SumFunctionOnSet(F, Keys) /\ Used(link', c) = SumFunctionOnSet(G, Keys)
    BY DEF Used, Sum
  <2> HIDE DEF F, G
  <2>3. SumFunctionOnSet(G, Keys) = SumFunctionOnSet(F, Keys) + G[k] - F[k]
    BY <1>0, <2>1, SumUpdate
  <2>4. Used(link, c) \in Nat
    BY UsedNat
  <2>5. PICK u \in Nat : u = SumFunctionOnSet(F, Keys)
    BY <2>2, <2>4
  <2>6. PICK i \in Int : i = F[k]
    BY <2>1
  <2>7. PICK t \in Nat : t = taken[c]
    OBVIOUS
  <2>8. u + (i + t) - i = u + t
    OBVIOUS
  <2> QED
    BY <2>1, <2>2, <2>3, <2>4, <2>5, <2>6, <2>7, <2>8
<1>10. Conserved'
  <2> SUFFICES ASSUME NEW c \in Grants
               PROVE  grant'[c].remaining + Used(link', c)
                        = IF grant'[c].exists THEN Total[c] ELSE 0
    BY DEF Conserved
  <2>1. PICK u \in Nat : u = Used(link, c)
    BY <1>9
  <2>2. PICK r \in Nat : r = grant[c].remaining
    BY DEF Typed, Grant
  <2>3. PICK t \in Nat : t = taken[c]
    OBVIOUS
  <2>4. grant'[c].remaining = r - t /\ Used(link', c) = u + t
        /\ grant'[c].exists = grant[c].exists
    BY <2>1, <2>2, <2>3, <1>4, <1>9
  <2>5. r + u = IF grant[c].exists THEN Total[c] ELSE 0
    BY <2>1, <2>2 DEF Conserved
  <2>6. (r - t) + (u + t) = r + u
    OBVIOUS
  <2> QED
    BY <2>4, <2>5, <2>6
<1> QED
  BY <1>1, <1>3, <1>4, <1>5, <1>6, <1>7, <1>8, <1>10

LEMMA GatePersistPreserves ==
    ASSUME IInv, NEW g \in Gates, NEW in \in Inputs, GatePersist(g, in) PROVE IInv'
<1>0. Typed /\ Conserved /\ Mapped /\ Serialised /\ CeilingsHold
      /\ Legacy \subseteq Keys
  BY ReservationsAssumption DEF IInv
<1>1. PICK k \in Keys \ Legacy, taken \in [Grants -> Nat], d \in Decision :
              /\ Inserts(g, k, d)
              /\ Drawn(taken) = d.credit
              /\ \A c \in Grants : taken[c] <= grant[c].remaining
              /\ Draws(k, taken)
  BY PersistFacts
<1>1a. /\ gate[g].pc = "ready" /\ decision[k].type = "absent"
       /\ decision' = [decision EXCEPT ![k] = d]
       /\ d.type # "absent" /\ d.current = d.active
       /\ ~d.active => d.alloc = 0 /\ d.credit = 0
       /\ d.active => /\ d.alloc + d.credit > 0
                      /\ Within(d.alloc + d.credit, GateHeadrooms(g).plan)
                      /\ Within(d.alloc + d.credit, GateHeadrooms(g).enterprise)
  BY <1>1 DEF Inserts
<1>2. /\ ~decision[k].active
      /\ grant' \in [Grants -> Grant]
      /\ link' \in [Keys -> [Grants -> Hold]]
      /\ \A c \in Grants : link'[k][c].held = taken[c]
      /\ \A x \in Keys \ {k} : link'[x] = link[x]
      /\ Conserved'
  BY <1>0, <1>1, <1>1a, TakenFacts
<1>3. decision \in [Keys -> Decision]
  BY <1>0 DEF Typed
<1>4. /\ decision' \in [Keys -> Decision] /\ decision'[k] = d
      /\ \A x \in Keys \ {k} : decision'[x] = decision[x]
  BY <1>1, <1>1a, <1>3
<1>5. gate[g] # Idle
  BY <1>1a DEF Idle
<1>6. gate' = [h \in Gates |-> Idle] /\ lock' = NoGate /\ budget' = budget
  BY <1>0, <1>5, ReleaseFacts DEF GatePersist
<1>7. Typed'
  <2>1. Idle \in GateState
    BY DEF GateState
  <2> QED
    BY <1>0, <1>2, <1>4, <1>6, <2>1 DEF Typed
<1>8. Mapped'
  <2>1. Held(k)' = taken
    BY <1>2 DEF Held
  <2>2. \A x \in Keys \ {k} : Held(x)' = Held(x)
    BY <1>2 DEF Held
  <2>3. CreditIsMapped'
    <3> SUFFICES ASSUME NEW x \in Keys \ Legacy
                 PROVE  Drawn(Held(x)') = IF decision'[x].active THEN decision'[x].credit ELSE 0
      BY DEF CreditIsMapped, Drawn, Sum
    <3>1. CASE x = k
      BY <3>1, <2>1, <1>1, <1>1a, <1>4
    <3>2. CASE x # k
      BY <3>2, <2>2, <1>0, <1>4 DEF Mapped, CreditIsMapped
    <3> QED
      BY <3>1, <3>2
  <2>4. \A x \in Legacy : /\ decision'[x].type # "absent"
                          /\ \A c \in Grants : link'[x][c].held = 0
    BY <1>0, <1>2, <1>4 DEF Mapped
  <2>5. \A x \in Keys : decision'[x].type = "absent" => ~decision'[x].active
    BY <1>0, <1>1, <1>1a, <1>4 DEF Mapped
  <2> QED
    BY <2>3, <2>4, <2>5 DEF Mapped
<1>9. Serialised'
  <2>1. \A h \in Gates : gate'[h] = Idle /\ gate'[h].pc = "idle"
    BY <1>6 DEF Idle
  <2> QED
    BY <2>1 DEF Serialised
<1>10. CeilingsHold'
  <2>1. /\ ReservedAllocTotal' = ReservedAllocTotal + (IF d.active THEN d.alloc ELSE 0)
        /\ ReservedCreditTotal' = ReservedCreditTotal + (IF d.active THEN d.credit ELSE 0)
    BY <1>0, <1>1, <1>1a, <1>2, MonthGrows
  <2>2. PICK a \in Nat, b \in Nat : a = ReservedAllocTotal /\ b = ReservedCreditTotal
    BY <1>0, TotalsNat
  <2>3. CASE ~d.active
    <3>1. ReservedAllocTotal' = a /\ ReservedCreditTotal' = b
      BY <2>1, <2>2, <2>3
    <3> QED
      BY <1>0, <2>2, <3>1 DEF CeilingsHold
  <2>4. CASE d.active
    <3>1. PICK m \in Nat, n \in Nat : m = d.alloc /\ n = d.credit
      BY DEF Decision
    <3>2. PICK x \in Nat, y \in Nat : x = gate[g].alloc /\ y = gate[g].credit
      BY <1>0, <1>1, <1>1a, GateFields
    <3>3. a <= x /\ b <= y
      BY <1>0, <1>1, <1>1a, <2>2, <3>2 DEF Serialised
    <3>4. /\ ReservedAllocTotal' = a + m /\ ReservedCreditTotal' = b + n
      BY <2>1, <2>2, <2>4, <3>1
    <3>5. /\ (x + y) + (m + n) \in Nat /\ (a + m) + (b + n) \in Nat
          /\ (a + m) + (b + n) <= (x + y) + (m + n)
          /\ x + y \in Nat /\ m + n \in Nat
      BY <3>3
    <3>6. /\ Within(m + n, Under(PlanCeiling, x + y))
          /\ Within(m + n, Under(EnterpriseCeiling, x + y))
          /\ m + n > 0
      BY <1>0, <1>1, <1>1a, <2>4, <3>1, <3>2, HeadroomsType
    <3>7. /\ PlanCeiling \in Nat \cup {Unbounded}
          /\ EnterpriseCeiling \in Nat \cup {Unbounded}
          /\ PlanCeiling \in Int \cup {Unbounded}
          /\ EnterpriseCeiling \in Int \cup {Unbounded}
      BY ReservationsAssumption
    <3>8. /\ Within((x + y) + (m + n), PlanCeiling)
          /\ Within((x + y) + (m + n), EnterpriseCeiling)
      BY <3>5, <3>6, <3>7, UnderAdds
    <3>9. /\ Within((a + m) + (b + n), PlanCeiling)
          /\ Within((a + m) + (b + n), EnterpriseCeiling)
      BY <3>5, <3>7, <3>8, WithinLess
    <3> QED
      BY <3>4, <3>9 DEF CeilingsHold
  <2> QED
    BY <2>3, <2>4
<1> QED
  BY <1>2, <1>7, <1>8, <1>9, <1>10 DEF IInv

-----------------------------------------------------------------------------
(***************************************************************************)
(* The inductive invariant.                                                *)
(***************************************************************************)

LEMMA InitInv == Init => IInv
<1> SUFFICES ASSUME Init PROVE IInv
  OBVIOUS
<1>0. IsFiniteSet(Keys) /\ IsFiniteSet(Grants) /\ Legacy \subseteq Keys
      /\ PlanCeiling \in Nat \cup {Unbounded} /\ EnterpriseCeiling \in Nat \cup {Unbounded}
  BY ReservationsAssumption
<1>1. LegacyDecision \in Decision /\ LegacyDecision.type # "absent"
      /\ LegacyDecision.current = FALSE
  <2>1. NoDecision.current = FALSE
    BY DEF NoDecision
  <2> QED
    BY <2>1, NoDecisionType DEF LegacyDecision, Decision
<1>2. NoDecision \in Decision /\ NoDecision.active = FALSE /\ NoDecision.current = FALSE
  BY NoDecisionType DEF NoDecision
<1>3. \A k \in Keys : decision[k] = IF k \in Legacy THEN LegacyDecision ELSE NoDecision
  BY DEF Init
<1>4. \A k \in Keys, c \in Grants : link[k][c].held = 0 /\ link[k][c].consumed = 0
  BY DEF Init, NoHold
<1>5. Typed
  <2>1. decision \in [Keys -> Decision]
    BY <1>1, <1>2 DEF Init
  <2>2. grant \in [Grants -> Grant]
    BY DEF Init, Grant
  <2>3. link \in [Keys -> [Grants -> Hold]]
    BY DEF Init, NoHold, Hold
  <2>4. gate \in [Gates -> GateState]
    BY DEF Init, GateState
  <2> QED
    BY <2>1, <2>2, <2>3, <2>4 DEF Init, Typed
<1>6. Conserved
  <2> SUFFICES ASSUME NEW c \in Grants
               PROVE  grant[c].remaining + Used(link, c)
                        = IF grant[c].exists THEN Total[c] ELSE 0
    BY DEF Conserved
  <2>1. grant[c].remaining = 0 /\ ~grant[c].exists
    BY DEF Init
  <2> DEFINE F == [k \in Keys |-> link[k][c].held + link[k][c].consumed]
  <2>2. \A k \in Keys : F[k] = 0
    BY <1>4
  <2>3. \A k \in Keys : F[k] \in Nat
    BY <2>2
  <2>4. Used(link, c) = SumFunctionOnSet(F, Keys)
    BY DEF Used, Sum
  <2> HIDE DEF F
  <2>5. Used(link, c) = 0
    BY <1>0, <2>2, <2>3, <2>4, SumNat
  <2> QED
    BY <2>1, <2>5
<1>7. Mapped
  <2>1. ASSUME NEW k \in Keys \ Legacy
        PROVE  Drawn(Held(k)) = IF decision[k].active THEN decision[k].credit ELSE 0
    <3>1. \A c \in Grants : Held(k)[c] = 0
      BY <1>4 DEF Held
    <3>2. \A c \in Grants : Held(k)[c] \in Nat
      BY <3>1
    <3>3. Drawn(Held(k)) = 0
      BY <1>0, <3>1, <3>2, SumNat DEF Drawn, Sum
    <3> QED
      BY <1>2, <1>3, <3>3
  <2>2. \A k \in Keys : decision[k].type = "absent" => ~decision[k].active
    BY <1>1, <1>2, <1>3
  <2> QED
    BY <2>1, <2>2, <1>0, <1>1, <1>3, <1>4 DEF Mapped, CreditIsMapped
<1>8. Serialised
  BY DEF Init, Serialised, Idle
<1>9. CeilingsHold
  <2>1. Month = {}
    BY <1>1, <1>2, <1>3 DEF Month
  <2>2. ReservedAllocTotal = 0 /\ ReservedCreditTotal = 0
    BY <2>1, FS_EmptySet, SumUnfold DEF ReservedAllocTotal, ReservedCreditTotal, Sum
  <2>3. Within(0, PlanCeiling) /\ Within(0, EnterpriseCeiling)
    BY <1>0 DEF Within, Clamp
  <2> QED
    BY <2>2, <2>3 DEF CeilingsHold
<1> QED
  BY <1>5, <1>6, <1>7, <1>8, <1>9 DEF IInv

LEMMA NextInv == IInv /\ [Next]_vars => IInv'
<1> SUFFICES ASSUME IInv, [Next]_vars PROVE IInv'
  OBVIOUS
<1>1. ASSUME NEW g \in Gates, GateStep(g) PROVE IInv'
  BY <1>1, GateLockPreserves, GateReadTotalsPreserves, GateReadGrantsPreserves,
     GatePersistPreserves, GateAbortPreserves DEF GateStep
<1>2. ASSUME NEW k \in Keys, NEW m \in Modes, NEW dry \in BOOLEAN, FailSafe(k, m, dry)
      PROVE  IInv'
  BY <1>2, FailSafePreserves
<1>3. ASSUME NEW k \in Keys,
             \/ CreateApproval(k) \/ Approve(k) \/ ConsumeToken(k)
             \/ ApprovalExpires(k) \/ BecomeOverdue(k)
      PROVE  IInv'
  BY <1>3, ApprovalStepsPreserve
<1>4. ASSUME NEW k \in Keys, ApproveExpired(k) \/ Deny(k) PROVE IInv'
  BY <1>4, ApproveExpiredPreserves, DenyPreserves
<1>5. ASSUME NEW k \in Keys, NEW a \in Actuals, Reconcile(k, a) PROVE IInv'
  BY <1>5, ReconcilePreserves
<1>6. CASE Sweep
  BY <1>6, SweepPreserves
<1>7. CASE \/ \E b \in Budgets : UpsertBudget(b)
           \/ \E c \in Grants : CreateCreditGrant(c)
           \/ \E c \in Grants : GrantExpires(c)
  BY <1>7, AdminStepsPreserve
<1>8. CASE NewMonth
  BY <1>8, NewMonthPreserves
<1>9. CASE UNCHANGED vars
  <2>1. UNCHANGED <<decision, link, gate, lock>> /\ grant' = grant /\ budget' = budget
    BY <1>9 DEF vars
  <2>2. /\ grant' \in [Grants -> Grant] /\ budget' \in Budgets
        /\ \A c \in Grants :
              grant'[c].remaining + Used(link, c) = IF grant'[c].exists THEN Total[c] ELSE 0
    BY <2>1 DEF IInv, Typed, Conserved
  <2> QED
    BY <2>1, <2>2, GrantStep
<1> QED
  BY <1>1, <1>2, <1>3, <1>4, <1>5, <1>6, <1>7, <1>8, <1>9 DEF Next

\* The inductive invariant holds of the gates, reviewers, reconciliation and sweep.
THEOREM Invariance == Spec => []IInv
BY InitInv, NextInv, PTL DEF Spec

\* The rows keep their types, and no allocation row and no grant ever exceeds the grant's
\* total (enforcement_credit_grants, the reservation allocations).
THEOREM TypeCorrect == Spec => []TypeOK
<1>1. ASSUME IInv PROVE TypeOK
  <2>0. Typed /\ IsFiniteSet(Keys) /\ Total \in [Grants -> Nat]
    BY <1>1, ReservationsAssumption DEF IInv
  <2>1. ASSUME NEW c \in Grants, NEW k \in Keys
        PROVE  link[k][c].held \in 0..Total[c] /\ link[k][c].consumed \in 0..Total[c]
    <3> DEFINE F == [x \in Keys |-> link[x][c].held + link[x][c].consumed]
    <3>1. \A x \in Keys : link[x][c].held \in Nat /\ link[x][c].consumed \in Nat
      BY <2>0 DEF Typed, Hold
    <3>2. \A x \in Keys : F[x] \in Nat
      BY <3>1
    <3>3. F[k] = link[k][c].held + link[k][c].consumed
      OBVIOUS
    <3>4. Used(link, c) = SumFunctionOnSet(F, Keys)
      BY DEF Used, Sum
    <3> HIDE DEF F
    <3>5. F[k] <= Used(link, c) /\ Used(link, c) \in Nat
      BY <2>0, <3>2, <3>4, SumNat
    <3>6. grant[c].remaining \in Nat /\ Total[c] \in Nat
      BY <2>0 DEF Typed, Grant
    <3>7. grant[c].remaining + Used(link, c) <= Total[c]
      BY <1>1, <3>6 DEF IInv, Conserved
    <3> QED
      BY <3>1, <3>3, <3>5, <3>6, <3>7
  <2>2. ASSUME NEW c \in Grants
        PROVE  grant[c].remaining <= Total[c]
    <3>1. Used(link, c) \in Nat /\ grant[c].remaining \in Nat /\ Total[c] \in Nat
      BY <2>0, UsedNat DEF Typed, Grant
    <3>2. grant[c].remaining + Used(link, c) <= Total[c]
      BY <1>1, <3>1 DEF IInv, Conserved
    <3> QED
      BY <3>1, <3>2
  <2> QED
    BY <2>0, <2>1, <2>2 DEF Typed, TypeOK
<1> QED
  BY <1>1, Invariance, PTL

\* Whatever a gate has read, the waterfall it then evaluates reserves within every headroom
\* and ceiling, lets through only what is funded and draws on credits last, for any keys,
\* grants and amounts (evaluate_entitlement_waterfall as evaluate_gate calls it).
THEOREM GateWaterfallSound == Spec => []WaterfallSound
<1>1. ASSUME IInv PROVE WaterfallSound
  <2> SUFFICES ASSUME NEW g \in Gates, NEW mode \in Modes, NEW delta \in Deltas,
                      gate[g].pc = "ready"
               PROVE  /\ WithinHeadrooms(mode, delta, GateHeadrooms(g))
                      /\ AllowedIsFunded(mode, delta, GateHeadrooms(g))
                      /\ StagesInOrder(mode, delta, GateHeadrooms(g))
    BY DEF WaterfallSound
  <2>1. GateHeadrooms(g) \in Headrooms
    BY <1>1, HeadroomsType DEF IInv
  <2>2. delta \in Nat
    BY ReservationsAssumption
  <2> QED
    BY <2>1, <2>2, HeadroomsRespected, FundedWhenAllowed, LastResort
<1> QED
  BY <1>1, Invariance, PTL

\* Whatever the order of gates, denials, expiries, reconciliations and sweeps, what is left
\* of a grant, what is held of it and what was consumed of it add up to its total
\* (reserve_credit_from_grants, settle_credit_reservations_for_decision).
THEOREM CreditConserved == Spec => []GrantConserved
<1>1. IInv => GrantConserved
  BY DEF IInv, Conserved, GrantConserved, Used
<1> QED
  BY <1>1, Invariance, PTL

\* The credit on an active decision is what its allocation rows hold, so a settlement never
\* meets drift (settle_credit_reservations_for_decision).
THEOREM CreditMapped == Spec => []CreditIsMapped
<1>1. IInv => CreditIsMapped
  BY DEF IInv, Mapped
<1> QED
  BY <1>1, Invariance, PTL

\* Credit is accounted for, of every grant and on every decision with allocation rows
\* (reserve_credit_for_decision, settle_credit_reservations_for_decision).
THEOREM CreditKept == Spec => []CreditAccounted
<1>1. GrantConserved /\ CreditIsMapped => CreditAccounted
  BY DEF CreditAccounted
<1> QED
  BY <1>1, CreditConserved, CreditMapped, PTL

\* The month's reservations stay under the plan and the enterprise ceiling (evaluate_gate
\* under the policy row's lock).
THEOREM CeilingsKept == Spec => []CeilingsHold
<1>1. IInv => CeilingsHold
  BY DEF IInv
<1> QED
  BY <1>1, Invariance, PTL

-----------------------------------------------------------------------------
(***************************************************************************)
(* Only a gate reserves.                                                   *)
(***************************************************************************)

\* A step other than a gate's insert puts no reservation into the month.
LEMMA OthersReserveNothing ==
    ASSUME IInv, IInv', [Next]_vars,
           \A g \in Gates, in \in Inputs : ~GatePersist(g, in)
    PROVE  \A k \in Keys : decision'[k].active /\ decision'[k].current
              => /\ decision[k].active /\ decision[k].current
                 /\ decision'[k].alloc = decision[k].alloc
                 /\ decision'[k].credit = decision[k].credit
<1> DEFINE Q == \A k \in Keys : decision'[k].active /\ decision'[k].current
                  => /\ decision[k].active /\ decision[k].current
                     /\ decision'[k].alloc = decision[k].alloc
                     /\ decision'[k].credit = decision[k].credit
<1>0. decision \in [Keys -> Decision]
  BY DEF IInv, Typed
<1>1. CASE UNCHANGED decision
  BY <1>1
<1>2. ASSUME NEW g \in Gates, GateStep(g) PROVE Q
  BY <1>1, <1>2 DEF GateStep, GateLock, GateReadTotals, GateReadGrants, GateAbort
<1>3. ASSUME NEW k \in Keys, NEW m \in Modes, NEW dry \in BOOLEAN, FailSafe(k, m, dry)
      PROVE  Q
  <2>1. \E t, a : decision' = [decision EXCEPT ![k] =
                                 [NoDecision EXCEPT !.type = t, !.approval = a]]
    BY <1>3 DEF FailSafe
  <2>2. \A t, a : [NoDecision EXCEPT !.type = t, !.approval = a].active = FALSE
    BY DEF NoDecision
  <2>3. decision'[k].active = FALSE /\ \A x \in Keys \ {k} : decision'[x] = decision[x]
    BY <1>0, <2>1, <2>2
  <2> QED
    BY <2>3
<1>4. ASSUME NEW k \in Keys,
             \/ CreateApproval(k) \/ Approve(k) \/ ConsumeToken(k)
             \/ ApprovalExpires(k) \/ BecomeOverdue(k)
      PROVE  Q
  <2>1. /\ decision'[k].active = decision[k].active
        /\ decision'[k].current = decision[k].current
        /\ decision'[k].alloc = decision[k].alloc /\ decision'[k].credit = decision[k].credit
    BY <1>0, <1>4 DEF CreateApproval, Approve, ConsumeToken, ApprovalExpires, BecomeOverdue,
                      Decision
  <2>2. \A x \in Keys \ {k} : decision'[x] = decision[x]
    BY <1>0, <1>4 DEF CreateApproval, Approve, ConsumeToken, ApprovalExpires, BecomeOverdue
  <2> QED
    BY <2>1, <2>2
<1>5. ASSUME NEW k \in Keys, ApproveExpired(k) \/ Deny(k) PROVE Q
  <2>1. \E a \in {"denied", "expired"} :
           decision' = [decision EXCEPT ![k] =
                          [Released(decision[k]) EXCEPT !.approval = a, !.late = FALSE]]
    BY <1>5 DEF ApproveExpired, Deny
  <2>2. ~decision'[k].active /\ \A x \in Keys \ {k} : decision'[x] = decision[x]
    BY <1>0, <2>1, ReleasedType
  <2> QED
    BY <2>2
<1>6. ASSUME NEW k \in Keys, NEW a \in Actuals, Reconcile(k, a) PROVE Q
  <2>1. decision' = [decision EXCEPT ![k] = Released(decision[k])]
    BY <1>0, <1>6 DEF Reconcile
  <2>2. ~decision'[k].active /\ \A x \in Keys \ {k} : decision'[x] = decision[x]
    BY <1>0, <2>1, ReleasedType
  <2> QED
    BY <2>2
<1>7. CASE Sweep
  <2>1. \A k \in Keys : decision'[k] = decision[k] \/ decision'[k] = Released(decision[k])
    BY <1>7 DEF Sweep
  <2>2. \A k \in Keys : decision'[k] = decision[k] \/ ~decision'[k].active
    BY <1>0, <2>1, ReleasedType
  <2> QED
    BY <2>2
<1>8. CASE \/ \E b \in Budgets : UpsertBudget(b)
           \/ \E c \in Grants : CreateCreditGrant(c)
           \/ \E c \in Grants : GrantExpires(c)
  BY <1>1, <1>8 DEF UpsertBudget, CreateCreditGrant, GrantExpires
<1>9. CASE NewMonth
  <2>1. \A k \in Keys : decision'[k] = [decision[k] EXCEPT !.current = FALSE]
    BY <1>9 DEF NewMonth
  <2>2. \A k \in Keys : decision'[k].current = FALSE
    BY <1>0, <2>1 DEF Decision
  <2> QED
    BY <2>2
<1>10. CASE UNCHANGED vars
  BY <1>1, <1>10 DEF vars
<1> QED
  BY <1>2, <1>3, <1>4, <1>5, <1>6, <1>7, <1>8, <1>9, <1>10 DEF Next

\* Allocation is only ever added by a gate, and then leaves the month within the budget that
\* gate read, whatever was settled since (evaluate_gate).
THEOREM AllocationKept == Spec => AllocationWithinBudget
<1> DEFINE A == ReservedAllocTotal' > ReservedAllocTotal
                  => \E g \in Gates : /\ gate[g].pc = "ready"
                                      /\ Within(ReservedAllocTotal', gate[g].budget)
<1>1. ASSUME IInv, IInv', [Next]_vars PROVE A
  <2>0. Typed /\ Typed' /\ Conserved /\ Mapped /\ Serialised
    BY <1>1 DEF IInv
  <2>1. CASE \A g \in Gates, in \in Inputs : ~GatePersist(g, in)
    <3>1. decision' \in [Keys -> Decision]
      BY <2>0 DEF Typed
    <3>2. ReservedAllocTotal' <= ReservedAllocTotal /\ ReservedAllocTotal' \in Nat
          /\ ReservedAllocTotal \in Nat
      BY <1>1, <2>0, <2>1, <3>1, OthersReserveNothing, MonthShrinks, TotalsNat
    <3> QED
      BY <3>2
  <2>2. ASSUME NEW g \in Gates, NEW in \in Inputs, GatePersist(g, in) PROVE A
    <3>1. PICK k \in Keys \ Legacy, taken \in [Grants -> Nat], d \in Decision :
                  /\ Inserts(g, k, d)
                  /\ Drawn(taken) = d.credit
                  /\ \A c \in Grants : taken[c] <= grant[c].remaining
                  /\ Draws(k, taken)
      BY <1>1, <2>2, PersistFacts
    <3>2. ~decision[k].active
      BY <2>0, <3>1 DEF Inserts, Mapped
    <3>3. ReservedAllocTotal' = ReservedAllocTotal + (IF d.active THEN d.alloc ELSE 0)
      BY <2>0, <3>1, <3>2, MonthGrows DEF Inserts
    <3>4. PICK a \in Nat : a = ReservedAllocTotal
      BY <2>0, TotalsNat
    <3>5. PICK m \in Nat : m = d.alloc
      BY DEF Decision
    <3>6. PICK x \in Nat, b \in Nat \cup {Unbounded} :
             x = gate[g].alloc /\ b = gate[g].budget /\ a <= x
      BY <2>0, <3>1, <3>4, GateFields, ReservationsAssumption DEF Inserts, Serialised
    <3>7. CASE ~d.active \/ m = 0
      BY <3>3, <3>4, <3>5, <3>7
    <3>8. CASE d.active /\ m # 0
      <4>1. Within(m, Under(b, x)) /\ gate[g].pc = "ready"
        BY <2>0, <3>1, <3>5, <3>6, <3>8, HeadroomsType DEF Inserts
      <4>2. Within(x + m, b)
        BY <3>8, <4>1, UnderAdds
      <4>3. b \in Int \cup {Unbounded} /\ a + m \in Nat /\ x + m \in Nat /\ a + m <= x + m
        BY <3>6
      <4>4. Within(a + m, b)
        BY <4>2, <4>3, WithinLess
      <4>5. ReservedAllocTotal' = a + m
        BY <3>3, <3>4, <3>5, <3>8
      <4> QED
        BY <3>6, <4>1, <4>4, <4>5
    <3> QED
      BY <3>7, <3>8
  <2> QED
    BY <2>1, <2>2
<1>2. IInv /\ IInv' /\ [Next]_vars => [A]_vars
  BY <1>1
<1> QED
  BY <1>2, Invariance, PTL DEF Spec, AllocationWithinBudget

-----------------------------------------------------------------------------
(***************************************************************************)
(* Settlements go through.  The two draws of a settlement are met because  *)
(* its order lists every grant the decision holds something of.            *)
(***************************************************************************)

\* A decision holds only grants that its settlement will look at: the reserved grants its
\* gate could use and the emergency grants.
HeldInOrder ==
    \A k \in Keys, c \in Grants :
        link[k][c].held > 0 => \E i \in DOMAIN Order(k) : Order(k)[i] = c

\* The order of a settlement lists the grants of both pools, each once.
LEMMA OrderFacts ==
    ASSUME NEW k \in Keys
    PROVE  /\ Order(k) \in Seq(Grants)
           /\ IsInjective(Order(k))
           /\ \A i \in DOMAIN ReservedOrder[k] :
                 \E n \in DOMAIN Order(k) : Order(k)[n] = ReservedOrder[k][i]
           /\ \A i \in DOMAIN EmergencyOrder :
                 \E n \in DOMAIN Order(k) : Order(k)[n] = EmergencyOrder[i]
<1> DEFINE r == ReservedOrder[k]
           e == EmergencyOrder
           o == r \o e
<1>1. /\ r \in Seq(Grants) /\ e \in Seq(Grants)
      /\ \A i, j \in DOMAIN r : r[i] = r[j] => i = j
      /\ \A i, j \in DOMAIN e : e[i] = e[j] => i = j
      /\ \A i \in DOMAIN r, j \in DOMAIN e : r[i] # e[j]
  BY ReservationsAssumption DEF IsInjective
<1> HIDE DEF r, e
<1>2. /\ Len(r) \in Nat /\ Len(e) \in Nat
      /\ DOMAIN r = 1..Len(r) /\ DOMAIN e = 1..Len(e)
      /\ o \in Seq(Grants) /\ DOMAIN o = 1..(Len(r) + Len(e))
  BY <1>1
<1>3. \A n \in DOMAIN o : o[n] = IF n <= Len(r) THEN r[n] ELSE e[n - Len(r)]
  BY <1>1, <1>2
<1> HIDE DEF o
<1>4. \A n \in DOMAIN o : /\ n <= Len(r) => n \in DOMAIN r /\ o[n] = r[n]
                          /\ ~(n <= Len(r)) => /\ n - Len(r) \in DOMAIN e
                                               /\ o[n] = e[n - Len(r)]
  BY <1>2, <1>3
<1>5. ASSUME NEW m \in DOMAIN o, NEW n \in DOMAIN o, o[m] = o[n]
      PROVE  m = n
  <2>1. m \in Int /\ n \in Int
    BY <1>2
  <2>2. CASE m <= Len(r) /\ n <= Len(r)
    BY <1>1, <1>4, <1>5, <2>2
  <2>3. CASE ~(m <= Len(r)) /\ ~(n <= Len(r))
    <3>1. m - Len(r) = n - Len(r)
      BY <1>1, <1>4, <1>5, <2>3
    <3> QED
      BY <1>2, <2>1, <3>1
  <2>4. CASE m <= Len(r) /\ ~(n <= Len(r))
    BY <1>1, <1>4, <1>5, <2>4
  <2>5. CASE ~(m <= Len(r)) /\ n <= Len(r)
    BY <1>1, <1>4, <1>5, <2>5
  <2> QED
    BY <2>2, <2>3, <2>4, <2>5
<1>6. \A i \in DOMAIN r : i \in DOMAIN o /\ o[i] = r[i]
  BY <1>2, <1>3
<1>7. ASSUME NEW i \in DOMAIN e
      PROVE  i + Len(r) \in DOMAIN o /\ o[i + Len(r)] = e[i]
  <2>1. i \in 1..Len(e) /\ i + Len(r) \in DOMAIN o /\ ~(i + Len(r) <= Len(r))
    BY <1>2
  <2>2. (i + Len(r)) - Len(r) = i
    BY <1>2, <2>1
  <2> QED
    BY <1>4, <2>1, <2>2
<1>8. Order(k) = o
  BY DEF Order, o, r, e
<1> QED
  BY <1>2, <1>5, <1>6, <1>7, <1>8 DEF IsInjective, r, e

\* A settlement empties allocation rows or leaves them.
LEMMA SettleHolds ==
    ASSUME HeldInOrder, NEW S, NEW amount, Settle(S, amount)
    PROVE  HeldInOrder'
<1> SUFFICES ASSUME NEW k \in Keys, NEW c \in Grants, link'[k][c].held > 0
             PROVE  \E i \in DOMAIN Order(k) : Order(k)[i] = c
  BY DEF HeldInOrder, Order
<1>1. CASE k \notin S
  <2>1. link'[k] = link[k]
    BY <1>1 DEF Settle
  <2> QED
    BY <2>1 DEF HeldInOrder
<1>2. CASE k \in S
  <2> DEFINE x == [held |-> 0, consumed |-> link[k][c].consumed + Consume(k, amount[k])[c]]
  <2>1. link'[k][c] = IF Touches(k, c) THEN x ELSE link[k][c]
    BY <1>2 DEF Settle
  <2>2. x.held = 0
    OBVIOUS
  <2> HIDE DEF x
  <2>3. link'[k][c] = link[k][c]
    BY <2>1, <2>2
  <2> QED
    BY <2>3 DEF HeldInOrder
<1> QED
  BY <1>1, <1>2

\* A gate draws from the grants of its two orders only.
LEMMA PersistInOrder ==
    ASSUME IInv, HeldInOrder, NEW g \in Gates, NEW in \in Inputs, GatePersist(g, in)
    PROVE  HeldInOrder'
<1> DEFINE k == gate[g].key
           h == GateHeadrooms(g)
           o == Outcome(in, h)
           offer == Offer(gate[g].fresh)
           fillR == Fill(ReservedOrder[k], offer, o.reserved)
           fillE == Fill(EmergencyOrder, offer, o.emergency)
           taken == [c \in Grants |-> fillR[c] + fillE[c]]
<1>0. Typed
  BY DEF IInv
<1>1. /\ gate[g].pc = "ready"
      /\ link' = [link EXCEPT ![k] = [c \in Grants |->
            [link[k][c] EXCEPT !.held = taken[c]]]]
  BY DEF GatePersist
<1>2. k \in Keys
  BY <1>0, <1>1, GateFields
<1>3. h \in Headrooms
  BY <1>0, <1>1, HeadroomsType
<1> HIDE DEF h
<1>4. o.reserved \in Int /\ o.emergency \in Int
  <2>1. o.reserved \in Nat /\ o.emergency \in Nat
    BY <1>3, OutcomeFacts
  <2> QED
    BY <2>1
<1> HIDE DEF o
<1>5. offer \in [Grants -> Nat]
  BY <1>0, OfferType
<1>6. ReservedOrder[k] \in Seq(Grants) /\ EmergencyOrder \in Seq(Grants)
  BY <1>2, ReservationsAssumption
<1> HIDE DEF offer
<1>7. /\ \A c \in Grants : (\A i \in DOMAIN ReservedOrder[k] : ReservedOrder[k][i] # c) => fillR[c] = 0
      /\ \A c \in Grants : (\A i \in DOMAIN EmergencyOrder : EmergencyOrder[i] # c) => fillE[c] = 0
  BY <1>4, <1>5, <1>6, FillBounds
<1> HIDE DEF fillR, fillE
<1> SUFFICES ASSUME NEW x \in Keys, NEW c \in Grants, link'[x][c].held > 0
             PROVE  \E i \in DOMAIN Order(x) : Order(x)[i] = c
  BY DEF HeldInOrder, Order
<1>8. CASE x # k
  <2>1. link'[x] = link[x]
    BY <1>0, <1>1, <1>8 DEF Typed
  <2> QED
    BY <2>1 DEF HeldInOrder
<1>9. CASE x = k
  <2>1. link'[k][c] = [link[k][c] EXCEPT !.held = taken[c]] /\ link[k][c] \in Hold
    BY <1>0, <1>1, <1>2 DEF Typed
  <2>2. link'[k][c].held = fillR[c] + fillE[c]
    BY <2>1 DEF Hold
  <2>3. \/ \E i \in DOMAIN ReservedOrder[k] : ReservedOrder[k][i] = c
        \/ \E i \in DOMAIN EmergencyOrder : EmergencyOrder[i] = c
    BY <1>7, <1>9, <2>2
  <2> QED
    BY <1>2, <1>9, <2>3, OrderFacts
<1> QED
  BY <1>8, <1>9

LEMMA NextHeld ==
    ASSUME IInv, HeldInOrder, [Next]_vars
    PROVE  HeldInOrder'
<1>1. ASSUME UNCHANGED link PROVE HeldInOrder'
  BY <1>1 DEF HeldInOrder, Order
<1>2. ASSUME NEW g \in Gates, GateStep(g) PROVE HeldInOrder'
  BY <1>1, <1>2, PersistInOrder
     DEF GateStep, GateLock, GateReadTotals, GateReadGrants, GateAbort
<1>3. ASSUME NEW k \in Keys, NEW m \in Modes, NEW dry \in BOOLEAN, FailSafe(k, m, dry)
      PROVE  HeldInOrder'
  BY <1>1, <1>3 DEF FailSafe
<1>4. ASSUME NEW k \in Keys,
             \/ CreateApproval(k) \/ Approve(k) \/ ConsumeToken(k)
             \/ ApprovalExpires(k) \/ BecomeOverdue(k)
      PROVE  HeldInOrder'
  BY <1>1, <1>4 DEF CreateApproval, Approve, ConsumeToken, ApprovalExpires, BecomeOverdue
<1>5. CASE \E k \in Keys : ApproveExpired(k) \/ Deny(k)
  BY <1>5, SettleHolds DEF ApproveExpired, Deny
<1>6. CASE \E k \in Keys, a \in Actuals : Reconcile(k, a)
  BY <1>6, SettleHolds DEF Reconcile
<1>7. CASE Sweep
  BY <1>7, SettleHolds DEF Sweep
<1>8. CASE \/ \E b \in Budgets : UpsertBudget(b)
           \/ \E c \in Grants : CreateCreditGrant(c)
           \/ \E c \in Grants : GrantExpires(c)
           \/ NewMonth
           \/ UNCHANGED vars
  BY <1>1, <1>8 DEF UpsertBudget, CreateCreditGrant, GrantExpires, NewMonth, vars
<1> QED
  BY <1>2, <1>3, <1>4, <1>5, <1>6, <1>7, <1>8 DEF Next

\* What is consumed is what was asked for, up to the credit, and all of the rest is given
\* back: the two draws add up to the credit.
LEMMA SettlementGoesThrough ==
    ASSUME IInv, HeldInOrder, NEW k \in Keys \ Legacy, decision[k].active, NEW amount \in Nat
    PROVE  Settles(k, amount)
<1> DEFINE credit == decision[k].credit
           s == Smaller(amount, credit)
           H == Held(k)
           U == Consume(k, amount)
           L == [c \in Grants |-> link[k][c].held - U[c]]
           R == Refund(k, amount)
<1>0. IsFiniteSet(Grants) /\ Typed /\ k \in Keys
  BY ReservationsAssumption DEF IInv
<1>1. credit \in Nat /\ \A c \in Grants : link[k][c].held \in Nat
  BY <1>0 DEF Typed, Decision, Hold
<1>2. H \in [Grants -> Nat] /\ \A c \in Grants : H[c] = link[k][c].held
  BY <1>1 DEF Held
<1>3. Drawn(H) = credit
  BY DEF IInv, Mapped, CreditIsMapped
<1>4. Order(k) \in Seq(Grants) /\ IsInjective(Order(k))
  BY <1>0, OrderFacts
<1>5. \A c \in Grants : H[c] > 0 => \E i \in DOMAIN Order(k) : Order(k)[i] = c
  BY <1>0, <1>2 DEF HeldInOrder
<1>6. s \in Nat /\ s <= credit /\ credit - s \in Nat /\ Smaller(s, credit) = s
      /\ Smaller(credit - s, credit - s) = credit - s
  BY <1>1 DEF Smaller
<1>7. U = Fill(Order(k), H, s) /\ R = Fill(Order(k), L, credit - s)
  BY DEF Consume, Refund
<1> HIDE DEF credit, s, H, U, R
<1>8. U \in [Grants -> Nat] /\ \A c \in Grants : U[c] <= H[c]
  BY <1>2, <1>4, <1>6, <1>7, FillBounds
<1>9. Drawn(U) = s
  BY <1>2, <1>3, <1>4, <1>5, <1>6, <1>7, FillDraws
<1>10. /\ L \in [Grants -> Nat]
       /\ \A c \in Grants : L[c] \in Int /\ U[c] \in Int /\ H[c] = L[c] + U[c]
       /\ \A c \in Grants : L[c] > 0 => H[c] > 0
  <2>1. \A c \in Grants : /\ link[k][c].held - U[c] \in Nat
                          /\ link[k][c].held = (link[k][c].held - U[c]) + U[c]
                          /\ link[k][c].held - U[c] > 0 => link[k][c].held > 0
    BY <1>1, <1>2, <1>8
  <2> QED
    BY <1>2, <1>8, <2>1
<1> HIDE DEF L
<1>11. Drawn(H) = Drawn(L) + Drawn(U)
  BY <1>0, <1>10, SumPlus DEF Drawn, Sum
<1>12. Drawn(L) = credit - s
  <2>1. Drawn(L) \in Nat
    BY <1>0, <1>10, SumInt DEF Drawn
  <2> QED
    BY <1>1, <1>3, <1>6, <1>9, <1>11, <2>1
<1>13. Drawn(R) = credit - s
  <2>1. \A c \in Grants : L[c] > 0 => \E i \in DOMAIN Order(k) : Order(k)[i] = c
    BY <1>5, <1>10
  <2> QED
    BY <1>4, <1>6, <1>7, <1>10, <1>12, <2>1, FillDraws
<1>14. Drawn(U) + Drawn(R) = credit
  BY <1>1, <1>6, <1>9, <1>13
<1>15. credit = 0 \/ \E c \in Grants : link[k][c].held > 0
  <2> SUFFICES ASSUME \A c \in Grants : ~(link[k][c].held > 0) PROVE credit = 0
    OBVIOUS
  <2>1. \A c \in Grants : H[c] \in Nat /\ H[c] = 0
    BY <1>1, <1>2
  <2>2. SumFunctionOnSet(H, Grants) = 0
    BY <1>0, <2>1, SumNat
  <2> QED
    BY <1>3, <2>2 DEF Drawn, Sum
<1> QED
  BY <1>14, <1>15 DEF Settles, credit, U, R

\* Whatever is reported and whichever settlement comes first, it goes through: the 409s of
\* settle_credit_reservations_for_decision for missing rows and for drift are not raised.
THEOREM NoSettlementRefused == Spec => []SettlementsSucceed
<1>1. Init => HeldInOrder
  BY DEF Init, HeldInOrder, NoHold
<1>2. IInv /\ HeldInOrder /\ [Next]_vars => HeldInOrder'
  BY NextHeld
<1>3. ASSUME IInv, HeldInOrder PROVE SettlementsSucceed
  <2> SUFFICES ASSUME NEW k \in Keys \ Legacy, decision[k].active,
                      NEW actual \in Actuals \cup {0}
               PROVE  Settles(k, Clamp(actual - decision[k].alloc))
    BY DEF SettlementsSucceed
  <2>1. actual \in Nat /\ decision[k].alloc \in Nat
    BY <1>3, ReservationsAssumption DEF IInv, Typed, Decision
  <2>2. Clamp(actual - decision[k].alloc) \in Nat
    BY <2>1, Arithmetic
  <2> QED
    BY <1>3, <2>2, SettlementGoesThrough
<1> QED
  BY <1>1, <1>2, <1>3, Invariance, PTL DEF Spec

-----------------------------------------------------------------------------
(***************************************************************************)
(* Decisions stand.                                                        *)
(***************************************************************************)

\* Only the token of an approval is ever consumed.
ConsumedIsApproved ==
    \A k \in Keys : decision[k].consumed => decision[k].approval = "approved"

\* What a step may do to the row of a decided key.
Stands(old, new) ==
    /\ new.type = old.type
    /\ new.active => /\ old.active
                     /\ new.alloc = old.alloc /\ new.credit = old.credit
    /\ old.approval \in {"approved", "denied", "expired"} => new.approval = old.approval
    /\ new.consumed => new.approval = "approved"

\* A row that is written over was not there, and its token has not been used.
Fresh(old, new) == old.type = "absent" /\ ~new.consumed

\* A settled decision stands.
LEMMA ReleasedStands ==
    ASSUME NEW d \in Decision, d.consumed => d.approval = "approved"
    PROVE  /\ Stands(d, Released(d))
           /\ d.approval = "pending"
                => \A a \in {"expired", "denied"} :
                      Stands(d, [Released(d) EXCEPT !.approval = a, !.late = FALSE])
BY DEF Stands, Released, Decision

\* Reviews, tokens and the clock change one field of a decision.
LEMMA FieldStands ==
    ASSUME NEW d \in Decision, d.consumed => d.approval = "approved"
    PROVE  /\ Stands(d, d)
           /\ d.approval = "none" => Stands(d, [d EXCEPT !.approval = "pending"])
           /\ d.approval = "pending" => Stands(d, [d EXCEPT !.approval = "approved"])
           /\ d.approval = "approved" => Stands(d, [d EXCEPT !.consumed = TRUE])
           /\ Stands(d, [d EXCEPT !.late = TRUE])
           /\ Stands(d, [d EXCEPT !.overdue = TRUE])
           /\ Stands(d, [d EXCEPT !.current = FALSE])
BY DEF Stands, Decision

\* Every step leaves a decision standing, or decides a key for the first time.
LEMMA StepStands ==
    ASSUME Typed, ConsumedIsApproved, [Next]_vars, NEW k \in Keys
    PROVE  Stands(decision[k], decision'[k]) \/ Fresh(decision[k], decision'[k])
<1> DEFINE d == decision[k]
           Q == Stands(d, decision'[k]) \/ Fresh(d, decision'[k])
<1>0. decision \in [Keys -> Decision] /\ d \in Decision
  BY DEF Typed
<1>1. d.consumed => d.approval = "approved"
  BY DEF ConsumedIsApproved
<1>2. ASSUME decision'[k] = decision[k] PROVE Q
  BY <1>0, <1>1, <1>2, FieldStands
<1>3. ASSUME NEW x \in Keys, NEW y, decision' = [decision EXCEPT ![x] = y],
             x = k => Stands(d, y) \/ Fresh(d, y)
      PROVE  Q
  BY <1>0, <1>2, <1>3
<1> SUFFICES Q
  OBVIOUS
<1> HIDE DEF Q
<1>4. ASSUME NEW g \in Gates, GateStep(g) PROVE Q
  <2>1. CASE \E in \in Inputs : GatePersist(g, in)
    <3>1. PICK in \in Inputs : GatePersist(g, in)
      BY <2>1
    <3> DEFINE x == gate[g].key
               o == Outcome(in, GateHeadrooms(g))
               ap == IF o.type = "require_approval" /\ ~in.dry /\ in.mode # "shadow"
                       THEN "pending" ELSE "none"
               y == [NoDecision EXCEPT
                       !.type = o.type, !.alloc = o.alloc,
                       !.credit = o.reserved + o.emergency, !.active = o.active,
                       !.current = o.active, !.approval = ap]
    <3>2. /\ gate[g].pc = "ready" /\ decision[x].type = "absent"
          /\ decision' = [decision EXCEPT ![x] = y]
      BY <3>1 DEF GatePersist
    <3>3. x \in Keys
      BY <3>2, GateFields
    <3>4. y.consumed = FALSE
      BY DEF NoDecision
    <3> HIDE DEF x, y
    <3> QED
      BY <1>3, <3>2, <3>3, <3>4 DEF Fresh
  <2>2. CASE \A in \in Inputs : ~GatePersist(g, in)
    <3>1. decision' = decision
      BY <1>4, <2>2 DEF GateStep, GateLock, GateReadTotals, GateReadGrants, GateAbort
    <3> QED
      BY <1>2, <3>1
  <2> QED
    BY <2>1, <2>2
<1>5. ASSUME NEW x \in Keys, NEW m \in Modes, NEW dry \in BOOLEAN, FailSafe(x, m, dry)
      PROVE  Q
  <2> DEFINE t == ModeViolationDecision(m)
             ap == IF t = "require_approval" /\ ~dry THEN "pending" ELSE "none"
             y == [NoDecision EXCEPT !.type = t, !.approval = ap]
  <2>1. decision[x].type = "absent" /\ decision' = [decision EXCEPT ![x] = y]
    BY <1>5 DEF FailSafe
  <2>2. y.consumed = FALSE
    BY DEF NoDecision
  <2> HIDE DEF y
  <2> QED
    BY <1>3, <2>1, <2>2 DEF Fresh
<1>6. ASSUME NEW x \in Keys,
             \/ CreateApproval(x) \/ Approve(x) \/ ConsumeToken(x)
             \/ ApprovalExpires(x) \/ BecomeOverdue(x)
      PROVE  Q
  <2> DEFINE z == decision[x]
  <2>1. \/ z.approval = "none"
           /\ decision' = [decision EXCEPT ![x] = [z EXCEPT !.approval = "pending"]]
        \/ z.approval = "pending"
           /\ decision' = [decision EXCEPT ![x] = [z EXCEPT !.approval = "approved"]]
        \/ z.approval = "approved"
           /\ decision' = [decision EXCEPT ![x] = [z EXCEPT !.consumed = TRUE]]
        \/ decision' = [decision EXCEPT ![x] = [z EXCEPT !.late = TRUE]]
        \/ decision' = [decision EXCEPT ![x] = [z EXCEPT !.overdue = TRUE]]
    BY <1>6 DEF CreateApproval, Approve, ConsumeToken, ApprovalExpires, BecomeOverdue
  <2> QED
    BY <1>0, <1>1, <1>3, <2>1, FieldStands
<1>7. ASSUME NEW x \in Keys, ApproveExpired(x) \/ Deny(x) PROVE Q
  <2> DEFINE y(a) == [Released(decision[x]) EXCEPT !.approval = a, !.late = FALSE]
  <2>1. PICK a \in {"expired", "denied"} :
           decision[x].approval = "pending" /\ decision' = [decision EXCEPT ![x] = y(a)]
    BY <1>7 DEF ApproveExpired, Deny
  <2>2. x = k => Stands(d, y(a))
    BY <1>0, <1>1, <2>1, ReleasedStands
  <2> HIDE DEF y
  <2> QED
    BY <1>3, <2>1, <2>2
<1>8. ASSUME NEW x \in Keys, NEW a \in Actuals, Reconcile(x, a) PROVE Q
  <2>1. decision' = [decision EXCEPT ![x] = Released(decision[x])]
    BY <1>8 DEF Reconcile
  <2> QED
    BY <1>0, <1>1, <1>3, <2>1, ReleasedStands
<1>9. CASE Sweep
  <2>1. decision'[k] = d \/ decision'[k] = Released(d)
    BY <1>9 DEF Sweep
  <2> QED
    BY <1>0, <1>1, <1>2, <2>1, ReleasedStands DEF Q
<1>10. CASE NewMonth
  <2>1. decision'[k] = [d EXCEPT !.current = FALSE]
    BY <1>10 DEF NewMonth
  <2> QED
    BY <1>0, <1>1, <2>1, FieldStands DEF Q
<1>11. CASE \/ \E b \in Budgets : UpsertBudget(b)
            \/ \E c \in Grants : CreateCreditGrant(c)
            \/ \E c \in Grants : GrantExpires(c)
            \/ UNCHANGED vars
  BY <1>2, <1>11 DEF UpsertBudget, CreateCreditGrant, GrantExpires, vars
<1> QED
  BY <1>4, <1>5, <1>6, <1>7, <1>8, <1>9, <1>10, <1>11 DEF Next

\* A decided key keeps its decision, whichever of the gate, its retry and the fail-safe
\* comes second; a reservation that ended stays ended, and a token is consumed only under
\* a standing approval (evaluate_gate, resolve_fail_safe_gate, consume_approval_token).
THEOREM DecisionsFinal == Spec => DecisionsStand
<1>1. Init => ConsumedIsApproved
  BY DEF Init, ConsumedIsApproved, NoDecision, LegacyDecision
<1>2. IInv /\ ConsumedIsApproved /\ [Next]_vars => ConsumedIsApproved'
  <2>1. ASSUME IInv, ConsumedIsApproved, [Next]_vars, NEW k \in Keys, decision'[k].consumed
        PROVE  decision'[k].approval = "approved"
    <3>1. Stands(decision[k], decision'[k]) \/ Fresh(decision[k], decision'[k])
      BY <2>1, StepStands DEF IInv
    <3> QED
      BY <2>1, <3>1 DEF Stands, Fresh
  <2> QED
    BY <2>1 DEF ConsumedIsApproved
<1> DEFINE D == \A k \in Keys : decision[k].type # "absent" =>
                   LET old == decision[k]
                       new == decision'[k]
                   IN  /\ new.type = old.type
                       /\ new.active => /\ old.active
                                        /\ new.alloc = old.alloc /\ new.credit = old.credit
                       /\ old.approval \in {"approved", "denied", "expired"}
                            => new.approval = old.approval
                       /\ new.consumed => new.approval = "approved"
<1>3. ASSUME IInv, ConsumedIsApproved, [Next]_vars PROVE D
  <2> SUFFICES ASSUME NEW k \in Keys, decision[k].type # "absent"
               PROVE  Stands(decision[k], decision'[k])
    BY DEF Stands
  <2>1. Stands(decision[k], decision'[k]) \/ Fresh(decision[k], decision'[k])
    BY <1>3, StepStands DEF IInv
  <2> QED
    BY <2>1 DEF Fresh
<1>4. IInv /\ ConsumedIsApproved /\ [Next]_vars => [D]_vars
  BY <1>3
<1> QED
  BY <1>1, <1>2, <1>4, Invariance, PTL DEF Spec, DecisionsStand

-----------------------------------------------------------------------------
(***************************************************************************)
(* The gate implements the credit ledger, when every decision has          *)
(* allocation rows.  A decision from before they existed is active from    *)
(* the start without the ledger ever opening it.                           *)
(***************************************************************************)

LEMMA PhaseFacts ==
    ASSUME NEW d
    PROVE  /\ d.type = "absent" /\ ~d.active => PhaseOf(d) = "new"
           /\ d.type # "absent" /\ d.active => PhaseOf(d) = "open"
           /\ d.type # "absent" /\ ~d.active => PhaseOf(d) = "closed"
BY DEF PhaseOf

\* Rows the ledger does not see: a step that keeps what the ledger maps is a stutter.
LEMMA LedgerStutter ==
    ASSUME \A k \in Keys : PhaseOf(decision'[k]) = PhaseOf(decision[k]),
           \A c \in Grants : /\ grant'[c].exists = grant[c].exists
                             /\ grant'[c].remaining = grant[c].remaining,
           \A k \in Keys, c \in Grants : /\ link'[k][c].held = link[k][c].held
                                         /\ link'[k][c].consumed = link[k][c].consumed
    PROVE  UNCHANGED CL!vars
<1>1. [k \in Keys |-> PhaseOf(decision'[k])] = [k \in Keys |-> PhaseOf(decision[k])]
  OBVIOUS
<1>2. {c \in Grants : grant'[c].exists} = {c \in Grants : grant[c].exists}
  OBVIOUS
<1>3. [c \in Grants |-> grant'[c].remaining] = [c \in Grants |-> grant[c].remaining]
  OBVIOUS
<1>4. [k \in Keys |-> [c \in Grants |-> link'[k][c].held]]
        = [k \in Keys |-> [c \in Grants |-> link[k][c].held]]
  OBVIOUS
<1>5. [k \in Keys |-> [c \in Grants |-> link'[k][c].consumed]]
        = [k \in Keys |-> [c \in Grants |-> link[k][c].consumed]]
  OBVIOUS
<1> QED
  BY <1>1, <1>2, <1>3, <1>4, <1>5, Zenon DEF CL!vars

LEMMA LedgerInit ==
    ASSUME Legacy = {}, Init PROVE CL!Init
<1>1. \A k \in Keys : PhaseOf(decision[k]) = "new"
  BY PhaseFacts DEF Init, NoDecision
<1>2. \A c \in Grants : ~grant[c].exists /\ grant[c].remaining = 0
  BY DEF Init
<1>3. \A k \in Keys, c \in Grants : link[k][c].held = 0 /\ link[k][c].consumed = 0
  BY DEF Init, NoHold
<1> QED
  BY <1>1, <1>2, <1>3 DEF CL!Init

LEMMA PartsOf ==
    ASSUME NEW f \in [Grants -> Nat], NEW p \in [Grants -> Nat],
           \A c \in Grants : p[c] <= f[c]
    PROVE  p \in CL!Parts(f)
<1>1. \A c \in Grants : p[c] \in UNION {0..f[x] : x \in Grants}
  BY DEF CL!Parts
<1>2. p \in [Grants -> UNION {0..f[x] : x \in Grants}]
  BY <1>1
<1> QED
  BY <1>2 DEF CL!Parts

\* evaluate_gate holds credit for a new key, or refuses it.
LEMMA PersistHolds ==
    ASSUME IInv, NEW g \in Gates, NEW in \in Inputs, GatePersist(g, in)
    PROVE  \E k \in Keys : CL!Hold(k) \/ CL!Refuse(k)
<1>0. Typed /\ Conserved /\ Mapped /\ IsFiniteSet(Grants)
  BY ReservationsAssumption DEF IInv
<1>1. PICK k \in Keys \ Legacy, taken \in [Grants -> Nat], d \in Decision :
              /\ Inserts(g, k, d)
              /\ Drawn(taken) = d.credit
              /\ \A c \in Grants : taken[c] <= grant[c].remaining
              /\ Draws(k, taken)
  BY PersistFacts
<1>2. /\ decision[k].type = "absent" /\ decision' = [decision EXCEPT ![k] = d]
      /\ d.type # "absent" /\ (~d.active => d.credit = 0)
      /\ ~decision[k].active
  BY <1>0, <1>1 DEF Inserts, Mapped
<1>3. /\ \A c \in Grants : /\ grant'[c].exists = grant[c].exists
                           /\ grant'[c].remaining = grant[c].remaining - taken[c]
                           /\ link[k][c].held = 0
                           /\ link'[k][c].held = taken[c]
                           /\ link'[k][c].consumed = link[k][c].consumed
      /\ \A x \in Keys \ {k} : link'[x] = link[x]
  BY <1>0, <1>1, <1>2, TakenFacts
<1>4. /\ decision'[k] = d /\ \A x \in Keys \ {k} : decision'[x] = decision[x]
  BY <1>0, <1>2 DEF Typed
<1>5. /\ PhaseOf(decision[k]) = "new"
      /\ PhaseOf(decision'[k]) = IF d.active THEN "open" ELSE "closed"
      /\ \A x \in Keys \ {k} : PhaseOf(decision'[x]) = PhaseOf(decision[x])
  BY <1>2, <1>4, PhaseFacts
<1>6. \A c \in Grants : grant[c].remaining \in Nat
  BY <1>0 DEF Typed, Grant
<1> DEFINE ph == [x \in Keys |-> PhaseOf(decision[x])]
           lf == [c \in Grants |-> grant[c].remaining]
           hd == [x \in Keys |-> [c \in Grants |-> link[x][c].held]]
           sp == [x \in Keys |-> [c \in Grants |-> link[x][c].consumed]]
           is == {c \in Grants : grant[c].exists}
<1>7. is' = is
  BY <1>3
<1>8. sp' = sp
  <2>1. \A x \in Keys, c \in Grants : link'[x][c].consumed = link[x][c].consumed
    BY <1>3
  <2> QED
    BY <2>1
<1>9. CASE d.active
  <2>1. ph[k] = "new" /\ ph' = [ph EXCEPT ![k] = "open"]
    BY <1>5, <1>9
  <2>2. taken \in CL!Parts(lf)
    <3>1. lf \in [Grants -> Nat] /\ \A c \in Grants : taken[c] <= lf[c]
      BY <1>1, <1>6
    <3> HIDE DEF lf
    <3> QED
      BY <3>1, PartsOf
  <2>3. hd' = [hd EXCEPT ![k] = taken]
    <3>1. [c \in Grants |-> link'[k][c].held] = taken
      BY <1>3
    <3>2. \A x \in Keys \ {k} : [c \in Grants |-> link'[x][c].held]
                                  = [c \in Grants |-> link[x][c].held]
      BY <1>3
    <3> QED
      BY <3>1, <3>2
  <2>4. lf' = [c \in Grants |-> lf[c] - taken[c]]
    BY <1>3
  <2>5. CL!Hold(k)
    BY <2>1, <2>2, <2>3, <2>4, <1>7, <1>8 DEF CL!Hold
  <2> QED
    BY <2>5
<1>10. CASE ~d.active
  <2>1. ph[k] = "new" /\ ph' = [ph EXCEPT ![k] = "closed"]
    BY <1>5, <1>10
  <2>2. \A c \in Grants : taken[c] = 0
    <3>1. SumFunctionOnSet(taken, Grants) = 0
      BY <1>1, <1>2, <1>10 DEF Drawn, Sum
    <3>2. \A c \in Grants : taken[c] \in Nat
      OBVIOUS
    <3> QED
      BY <1>0, <3>1, <3>2, SumNat
  <2>3. lf' = lf
    BY <1>3, <1>6, <2>2
  <2>4. hd' = hd
    <3>1. \A x \in Keys, c \in Grants : link'[x][c].held = link[x][c].held
      BY <1>3, <2>2
    <3> QED
      BY <3>1
  <2>5. CL!Refuse(k)
    BY <2>1, <2>3, <2>4, <1>7, <1>8 DEF CL!Refuse
  <2> QED
    BY <2>5
<1> QED
  BY <1>9, <1>10

\* resolve_fail_safe_gate refuses a key.
LEMMA FailSafeRefuses ==
    ASSUME IInv, NEW k \in Keys, NEW m \in Modes, NEW dry \in BOOLEAN, FailSafe(k, m, dry)
    PROVE  CL!Refuse(k)
<1>0. decision \in [Keys -> Decision]
  BY DEF IInv, Typed
<1>1. PICK t \in {"allow", "require_approval", "deny"}, a \in {"none", "pending"} :
         decision' = [decision EXCEPT ![k] = [NoDecision EXCEPT !.type = t, !.approval = a]]
  <2>1. ModeViolationDecision(m) \in {"allow", "require_approval", "deny"}
    BY DEF ModeViolationDecision
  <2> QED
    BY <2>1 DEF FailSafe
<1>2. /\ [NoDecision EXCEPT !.type = t, !.approval = a].active = FALSE
      /\ [NoDecision EXCEPT !.type = t, !.approval = a].type # "absent"
  BY DEF NoDecision
<1>3. /\ decision'[k].type # "absent" /\ ~decision'[k].active
      /\ \A x \in Keys \ {k} : decision'[x] = decision[x]
  BY <1>0, <1>1, <1>2
<1>4. decision[k].type = "absent" /\ ~decision[k].active /\ grant' = grant /\ link' = link
  BY DEF FailSafe, IInv, Mapped
<1>5. /\ PhaseOf(decision[k]) = "new" /\ PhaseOf(decision'[k]) = "closed"
      /\ \A x \in Keys \ {k} : PhaseOf(decision'[x]) = PhaseOf(decision[x])
  BY <1>3, <1>4, PhaseFacts
<1> QED
  BY <1>4, <1>5 DEF CL!Refuse

\* The ledger's sums are this module's.
LEMMA LedgerSum ==
    ASSUME NEW f, NEW T PROVE CL!SumFunctionOnSet(f, T) = SumFunctionOnSet(f, T)
BY DEF CL!SumFunctionOnSet, SumFunctionOnSet, CL!FoldFunctionOnSet, FoldFunctionOnSet,
       CL!MapThenFoldSet, MapThenFoldSet

\* Settling active decisions closes their holds together.
LEMMA SettlementCloses ==
    ASSUME IInv, NEW S \in SUBSET Keys, S # {}, NEW amount \in [Keys -> Nat],
           Settle(S, amount),
           \A k \in S : decision[k].active,
           \A k \in Keys \ S : decision'[k] = decision[k],
           \A k \in S : ~decision'[k].active /\ decision'[k].type = decision[k].type
    PROVE  CL!Close(S)
<1> DEFINE used == [k \in S |-> Consume(k, amount[k])]
           hd == [k \in Keys |-> [c \in Grants |-> link[k][c].held]]
<1>0. Typed /\ Conserved /\ Mapped /\ IsFiniteSet(S)
  BY ReservationsAssumption, FS_Subset DEF IInv
<1>1. /\ \A c \in Grants : /\ grant'[c].exists = grant[c].exists
                           /\ grant'[c].remaining = grant[c].remaining
                                + Sum([k \in S |-> Refund(k, amount[k])[c]], S)
      /\ \A k \in Keys \ S : link'[k] = link[k]
      /\ \A k \in S, c \in Grants :
            /\ link'[k][c].held = 0
            /\ link'[k][c].consumed = link[k][c].consumed + Consume(k, amount[k])[c]
  BY <1>0, Settlement
<1>2. ASSUME NEW k \in S
      PROVE  /\ Consume(k, amount[k]) \in [Grants -> Nat]
             /\ Refund(k, amount[k]) \in [Grants -> Nat]
             /\ \A c \in Grants :
                   Consume(k, amount[k])[c] + Refund(k, amount[k])[c] = link[k][c].held
  <2>1. amount[k] \in Nat /\ Settles(k, amount[k])
    BY DEF Settle
  <2> QED
    BY <1>0, <2>1, SettlesFacts
<1>3. \A k \in Keys, c \in Grants : link[k][c].held \in Nat
  BY <1>0 DEF Typed, Hold
<1>4. \A k \in S : PhaseOf(decision[k]) = "open" /\ PhaseOf(decision'[k]) = "closed"
  BY <1>0, PhaseFacts DEF Mapped
<1>5. [k \in Keys |-> PhaseOf(decision'[k])]
        = [k \in Keys |-> IF k \in S THEN "closed" ELSE [x \in Keys |-> PhaseOf(decision[x])][k]]
  BY <1>4
<1>6. [k \in Keys |-> [c \in Grants |-> link'[k][c].held]]
        = [k \in Keys |-> IF k \in S THEN [c \in Grants |-> 0] ELSE hd[k]]
  <2>1. \A k \in S : [c \in Grants |-> link'[k][c].held] = [c \in Grants |-> 0]
    BY <1>1
  <2>2. \A k \in Keys \ S : [c \in Grants |-> link'[k][c].held] = hd[k]
    BY <1>1
  <2> QED
    BY <2>1, <2>2
<1>7. \A k \in S : used[k] \in CL!Parts(hd[k])
  <2> SUFFICES ASSUME NEW k \in S PROVE used[k] \in CL!Parts(hd[k])
    OBVIOUS
  <2>1. hd[k] \in [Grants -> Nat] /\ used[k] \in [Grants -> Nat]
    BY <1>2, <1>3
  <2>2. \A c \in Grants : used[k][c] <= hd[k][c]
    <3> SUFFICES ASSUME NEW c \in Grants PROVE used[k][c] <= hd[k][c]
      OBVIOUS
    <3>1. PICK a \in Nat, b \in Nat : /\ a = Consume(k, amount[k])[c]
                                      /\ b = Refund(k, amount[k])[c]
      BY <1>2
    <3>2. used[k][c] = a /\ hd[k][c] = a + b
      BY <1>2, <3>1
    <3> QED
      BY <3>2
  <2> HIDE DEF hd, used
  <2> QED
    BY <2>1, <2>2, PartsOf
<1>8. used \in [S -> UNION {CL!Parts(hd[k]) : k \in S}]
  <2>1. \A k \in S : used[k] \in UNION {CL!Parts(hd[x]) : x \in S}
    BY <1>7
  <2>2. used = [k \in S |-> used[k]]
    OBVIOUS
  <2> HIDE DEF used, hd
  <2> QED
    BY <2>1, <2>2
<1>9. [k \in Keys |-> [c \in Grants |-> link'[k][c].consumed]]
        = [k \in Keys |-> IF k \in S
             THEN [c \in Grants |->
                     [x \in Keys |-> [y \in Grants |-> link[x][y].consumed]][k][c] + used[k][c]]
             ELSE [x \in Keys |-> [y \in Grants |-> link[x][y].consumed]][k]]
  <2>1. \A k \in S : [c \in Grants |-> link'[k][c].consumed]
                       = [c \in Grants |-> link[k][c].consumed + used[k][c]]
    BY <1>1
  <2>2. \A k \in Keys \ S : [c \in Grants |-> link'[k][c].consumed]
                              = [c \in Grants |-> link[k][c].consumed]
    BY <1>1
  <2> HIDE DEF used
  <2> QED
    BY <2>1, <2>2
<1>10. [c \in Grants |-> grant'[c].remaining]
         = [c \in Grants |-> [x \in Grants |-> grant[x].remaining][c]
              + CL!SumFunctionOnSet([k \in S |-> hd[k][c] - used[k][c]], S)]
  <2> SUFFICES ASSUME NEW c \in Grants
               PROVE  grant'[c].remaining = grant[c].remaining
                        + CL!SumFunctionOnSet([k \in S |-> hd[k][c] - used[k][c]], S)
    <3> HIDE DEF hd, used
    <3> QED
      OBVIOUS
  <2> DEFINE F == [k \in S |-> Refund(k, amount[k])[c]]
             G == [k \in S |-> hd[k][c] - used[k][c]]
  <2>1. \A k \in S : F[k] \in Int /\ G[k] = F[k]
    <3> SUFFICES ASSUME NEW k \in S PROVE F[k] \in Int /\ G[k] = F[k]
      OBVIOUS
    <3>1. PICK a \in Nat, b \in Nat : /\ a = Consume(k, amount[k])[c]
                                      /\ b = Refund(k, amount[k])[c]
      BY <1>2
    <3>2. used[k][c] = a /\ hd[k][c] = a + b /\ F[k] = b
      BY <1>2, <3>1
    <3>3. G[k] = hd[k][c] - used[k][c]
      OBVIOUS
    <3> HIDE DEF F, G, hd, used
    <3> QED
      BY <3>2, <3>3
  <2>2. grant'[c].remaining = grant[c].remaining + SumFunctionOnSet(F, S)
    BY <1>1 DEF Sum
  <2> HIDE DEF F, G
  <2>3. SumFunctionOnSet(G, S) = SumFunctionOnSet(F, S)
    BY <1>0, <2>1, SumSame
  <2> QED
    BY <2>2, <2>3, LedgerSum DEF G
<1>11. {c \in Grants : grant'[c].exists} = {c \in Grants : grant[c].exists}
  BY <1>1
<1>12. \A k \in S : [x \in Keys |-> PhaseOf(decision[x])][k] = "open"
  BY <1>4
<1> HIDE DEF used
<1> QED
  BY <1>5, <1>6, <1>7, <1>8, <1>9, <1>10, <1>11, <1>12 DEF CL!Close, hd

\* Settling a decision that is no longer active gives nothing back.
LEMMA SettlementInvisible ==
    ASSUME IInv, NEW k \in Keys, NEW amount \in [Keys -> Nat], Settle({k}, amount),
           ~decision[k].active,
           \A x \in Keys \ {k} : decision'[x] = decision[x],
           ~decision'[k].active, decision'[k].type = decision[k].type
    PROVE  UNCHANGED CL!vars
<1>0. Typed /\ Conserved /\ Mapped /\ IsFiniteSet(Grants) /\ {k} \in SUBSET Keys
  BY ReservationsAssumption DEF IInv
<1>1. /\ \A c \in Grants : /\ grant'[c].exists = grant[c].exists
                           /\ grant'[c].remaining = grant[c].remaining
                                + Sum([x \in {k} |-> Refund(x, amount[x])[c]], {k})
      /\ \A x \in Keys \ {k} : link'[x] = link[x]
      /\ \A x \in {k}, c \in Grants :
            /\ link'[x][c].held = 0
            /\ link'[x][c].consumed = link[x][c].consumed + Consume(x, amount[x])[c]
  BY <1>0, Settlement
<1>2. \A x \in Keys, c \in Grants : link[x][c].held \in Nat /\ link[x][c].consumed \in Nat
  BY <1>0 DEF Typed, Hold
<1>3. \A c \in Grants : link[k][c].held = 0
  <2>1. CASE k \in Legacy
    BY <1>0, <2>1 DEF Mapped
  <2>2. CASE k \notin Legacy
    <3>1. Drawn(Held(k)) = 0
      BY <1>0, <2>2 DEF Mapped, CreditIsMapped
    <3>2. \A c \in Grants : Held(k)[c] \in Nat /\ Held(k)[c] = link[k][c].held
      BY <1>2 DEF Held
    <3>3. \A c \in Grants : Held(k)[c] \in Nat
      BY <3>2
    <3>4. \A c \in Grants : Held(k)[c] = 0
      BY <1>0, <3>1, <3>3, SumNat DEF Drawn, Sum
    <3> QED
      BY <3>2, <3>4
  <2> QED
    BY <2>1, <2>2
<1>4. \A c \in Grants : Consume(k, amount[k])[c] = 0 /\ Refund(k, amount[k])[c] = 0
  <2>1. amount[k] \in Nat /\ Settles(k, amount[k])
    BY DEF Settle
  <2>2. /\ Consume(k, amount[k]) \in [Grants -> Nat]
        /\ Refund(k, amount[k]) \in [Grants -> Nat]
        /\ \A c \in Grants :
              Consume(k, amount[k])[c] + Refund(k, amount[k])[c] = link[k][c].held
    BY <1>0, <2>1, SettlesFacts
  <2> QED
    BY <2>2, <1>3
<1>5. ASSUME NEW c \in Grants
      PROVE  grant'[c].remaining = grant[c].remaining
  <2> DEFINE F == [x \in {k} |-> Refund(x, amount[x])[c]]
  <2>1. \A x \in {k} : F[x] \in Nat
    BY <1>4
  <2>2. \A x \in {k} : F[x] = 0
    BY <1>4
  <2>3. IsFiniteSet({k})
    BY FS_Singleton
  <2>4. grant'[c].remaining = grant[c].remaining + SumFunctionOnSet(F, {k})
    BY <1>1 DEF Sum
  <2> HIDE DEF F
  <2>5. SumFunctionOnSet(F, {k}) = 0
    BY <2>1, <2>2, <2>3, SumNat
  <2>6. grant[c].remaining \in Nat
    BY <1>0 DEF Typed, Grant
  <2> QED
    BY <2>4, <2>5, <2>6
<1>6. \A x \in Keys, c \in Grants : /\ link'[x][c].held = link[x][c].held
                                    /\ link'[x][c].consumed = link[x][c].consumed
  BY <1>1, <1>2, <1>3, <1>4
<1>7. \A x \in Keys : PhaseOf(decision'[x]) = PhaseOf(decision[x])
  <2>1. PhaseOf(decision'[k]) = PhaseOf(decision[k])
    BY PhaseFacts
  <2> QED
    BY <2>1
<1>8. \A c \in Grants : /\ grant'[c].exists = grant[c].exists
                        /\ grant'[c].remaining = grant[c].remaining
  BY <1>1, <1>5
<1> QED
  BY <1>6, <1>7, <1>8, LedgerStutter

LEMMA CreateCreditGrantIssues ==
    ASSUME IInv, NEW c \in Grants, CreateCreditGrant(c)
    PROVE  CL!Issue(c)
<1>0. grant \in [Grants -> Grant]
  BY DEF IInv, Typed
<1>1. /\ ~grant[c].exists /\ decision' = decision /\ link' = link
      /\ grant'[c].exists /\ grant'[c].remaining = Total[c]
      /\ \A x \in Grants \ {c} : grant'[x] = grant[x]
  BY <1>0 DEF CreateCreditGrant
<1>2. {x \in Grants : grant'[x].exists} = {x \in Grants : grant[x].exists} \cup {c}
  BY <1>1
<1>3. [x \in Grants |-> grant'[x].remaining]
        = [[x \in Grants |-> grant[x].remaining] EXCEPT ![c] = Total[c]]
  BY <1>1
<1> QED
  BY <1>1, <1>2, <1>3 DEF CL!Issue

LEMMA NextLedger ==
    ASSUME IInv, [Next]_vars
    PROVE  [CL!Next]_(CL!vars)
<1>0. decision \in [Keys -> Decision] /\ grant \in [Grants -> Grant]
  BY DEF IInv, Typed
<1>1. ASSUME \A k \in Keys : PhaseOf(decision'[k]) = PhaseOf(decision[k]),
             link' = link, grant' = grant
      PROVE  UNCHANGED CL!vars
  BY <1>1, LedgerStutter
<1>2. ASSUME NEW g \in Gates, GateStep(g) PROVE [CL!Next]_(CL!vars)
  <2>1. CASE \E in \in Inputs : GatePersist(g, in)
    BY <2>1, PersistHolds DEF CL!Next
  <2>2. CASE ~(\E in \in Inputs : GatePersist(g, in))
    <3>1. decision' = decision /\ link' = link /\ grant' = grant
      BY <1>2, <2>2 DEF GateStep, GateLock, GateReadTotals, GateReadGrants, GateAbort
    <3> QED
      BY <1>1, <3>1
  <2> QED
    BY <2>1, <2>2
<1>3. ASSUME NEW k \in Keys, NEW m \in Modes, NEW dry \in BOOLEAN, FailSafe(k, m, dry)
      PROVE  [CL!Next]_(CL!vars)
  BY <1>3, FailSafeRefuses DEF CL!Next
<1>4. ASSUME NEW k \in Keys,
             \/ CreateApproval(k) \/ Approve(k) \/ ConsumeToken(k)
             \/ ApprovalExpires(k) \/ BecomeOverdue(k)
      PROVE  [CL!Next]_(CL!vars)
  <2>1. /\ decision'[k].active = decision[k].active
        /\ decision'[k].type = decision[k].type
    BY <1>0, <1>4 DEF CreateApproval, Approve, ConsumeToken, ApprovalExpires, BecomeOverdue,
                      Decision
  <2>2. \A x \in Keys \ {k} : decision'[x] = decision[x]
    BY <1>0, <1>4 DEF CreateApproval, Approve, ConsumeToken, ApprovalExpires, BecomeOverdue
  <2>3. link' = link /\ grant' = grant
    BY <1>4 DEF CreateApproval, Approve, ConsumeToken, ApprovalExpires, BecomeOverdue
  <2>4. \A x \in Keys : PhaseOf(decision'[x]) = PhaseOf(decision[x])
    BY <2>1, <2>2 DEF PhaseOf
  <2> QED
    BY <1>1, <2>3, <2>4
<1>5. ASSUME NEW k \in Keys, NEW amount \in [Keys -> Nat], Settle({k}, amount),
             \A x \in Keys \ {k} : decision'[x] = decision[x],
             ~decision'[k].active, decision'[k].type = decision[k].type
      PROVE  [CL!Next]_(CL!vars)
  <2>1. CASE decision[k].active
    <3>1. {k} \in SUBSET Keys /\ {k} # {}
      OBVIOUS
    <3>2. /\ \A x \in {k} : decision[x].active
          /\ \A x \in {k} : ~decision'[x].active /\ decision'[x].type = decision[x].type
      BY <1>5, <2>1
    <3>3. CL!Close({k})
      BY <1>5, <3>1, <3>2, SettlementCloses
    <3> QED
      BY <3>1, <3>3 DEF CL!Next
  <2>2. CASE ~decision[k].active
    BY <1>5, <2>2, SettlementInvisible
  <2> QED
    BY <2>1, <2>2
<1>6. ASSUME NEW k \in Keys, ApproveExpired(k) \/ Deny(k) PROVE [CL!Next]_(CL!vars)
  <2>1. PICK a \in {"denied", "expired"} :
           decision' = [decision EXCEPT ![k] =
                          [Released(decision[k]) EXCEPT !.approval = a, !.late = FALSE]]
    BY <1>6 DEF ApproveExpired, Deny
  <2> DEFINE r == [Released(decision[k]) EXCEPT !.approval = a, !.late = FALSE]
  <2>1a. ~r.active /\ r.type = decision[k].type
    <3>1. decision[k] \in Decision
      BY <1>0
    <3> QED
      BY <3>1, ReleasedType
  <2>1b. decision' = [decision EXCEPT ![k] = r]
    BY <2>1
  <2> HIDE DEF r
  <2>2. /\ ~decision'[k].active /\ decision'[k].type = decision[k].type
        /\ \A x \in Keys \ {k} : decision'[x] = decision[x]
    BY <1>0, <2>1a, <2>1b
  <2>3. Nothing \in [Keys -> Nat] /\ Settle({k}, Nothing)
    BY <1>6 DEF Nothing, ApproveExpired, Deny
  <2> QED
    BY <1>5, <2>2, <2>3
<1>7. ASSUME NEW k \in Keys, NEW a \in Actuals, Reconcile(k, a)
      PROVE  [CL!Next]_(CL!vars)
  <2> DEFINE m == [Nothing EXCEPT ![k] = Clamp(a - decision[k].alloc)]
  <2>1. decision' = [decision EXCEPT ![k] = Released(decision[k])]
    BY <1>0, <1>7 DEF Reconcile
  <2>2. /\ ~decision'[k].active /\ decision'[k].type = decision[k].type
        /\ \A x \in Keys \ {k} : decision'[x] = decision[x]
    <3> DEFINE r == Released(decision[k])
    <3>1. decision[k] \in Decision
      BY <1>0
    <3>2. ~r.active /\ r.type = decision[k].type
      BY <3>1, ReleasedType
    <3>3. decision' = [decision EXCEPT ![k] = r]
      BY <2>1
    <3> HIDE DEF r
    <3> QED
      BY <1>0, <3>2, <3>3
  <2>3. m \in [Keys -> Nat] /\ Settle({k}, m)
    <3>1. a \in Int /\ decision[k].alloc \in Int
      BY <1>0, ReservationsAssumption DEF Decision
    <3>2. Clamp(a - decision[k].alloc) \in Nat
      BY <3>1, Arithmetic
    <3> QED
      BY <1>7, <3>2 DEF Nothing, Reconcile
  <2> HIDE DEF m
  <2> QED
    BY <1>5, <2>2, <2>3
<1>8. CASE Sweep
  <2>1. /\ Overdue \in SUBSET Keys /\ Overdue # {} /\ Settle(Overdue, Nothing)
        /\ Nothing \in [Keys -> Nat]
        /\ \A k \in Overdue : decision[k].active
        /\ \A k \in Keys \ Overdue : decision'[k] = decision[k]
    BY <1>8 DEF Sweep, Overdue, Nothing
  <2>2. decision' = [k \in Keys |-> IF k \in Overdue THEN Released(decision[k])
                                                    ELSE decision[k]]
    BY <1>8 DEF Sweep
  <2>3. \A k \in Overdue : ~decision'[k].active /\ decision'[k].type = decision[k].type
    <3> SUFFICES ASSUME NEW k \in Overdue
                 PROVE  ~decision'[k].active /\ decision'[k].type = decision[k].type
      OBVIOUS
    <3>1. k \in Keys /\ decision'[k] = Released(decision[k])
      BY <2>1, <2>2
    <3>2. decision[k] \in Decision
      BY <1>0, <3>1
    <3> QED
      BY <3>1, <3>2, ReleasedType
  <2>4. PICK T \in SUBSET Keys : T = Overdue
    BY <2>1
  <2>5. /\ T # {} /\ Settle(T, Nothing) /\ Nothing \in [Keys -> Nat]
        /\ \A k \in T : decision[k].active
        /\ \A k \in Keys \ T : decision'[k] = decision[k]
        /\ \A k \in T : ~decision'[k].active /\ decision'[k].type = decision[k].type
    BY <2>1, <2>3, <2>4
  <2>6. CL!Close(T)
    BY <2>5, SettlementCloses
  <2> QED
    BY <2>6 DEF CL!Next
<1>9. CASE \E b \in Budgets : UpsertBudget(b)
  BY <1>1, <1>9 DEF UpsertBudget
<1>10. CASE \E c \in Grants : CreateCreditGrant(c)
  BY <1>10, CreateCreditGrantIssues DEF CL!Next
<1>11. ASSUME NEW c \in Grants, GrantExpires(c) PROVE [CL!Next]_(CL!vars)
  <2>1. \A x \in Grants : /\ grant'[x].exists = grant[x].exists
                          /\ grant'[x].remaining = grant[x].remaining
    BY <1>0, <1>11 DEF GrantExpires, Grant
  <2>2. decision' = decision /\ link' = link
    BY <1>11 DEF GrantExpires
  <2> QED
    BY <2>1, <2>2, LedgerStutter
<1>12. CASE NewMonth
  <2>1. \A k \in Keys : decision'[k] = [decision[k] EXCEPT !.current = FALSE]
    BY <1>12 DEF NewMonth
  <2>2. \A k \in Keys : /\ decision'[k].type = decision[k].type
                        /\ decision'[k].active = decision[k].active
    BY <1>0, <2>1 DEF Decision
  <2>3. \A k \in Keys : PhaseOf(decision'[k]) = PhaseOf(decision[k])
    BY <2>2 DEF PhaseOf
  <2>4. link' = link /\ grant' = grant
    BY <1>12 DEF NewMonth
  <2> QED
    BY <1>1, <2>3, <2>4
<1>13. CASE UNCHANGED vars
  BY <1>1, <1>13 DEF vars
<1> QED
  BY <1>2, <1>3, <1>4, <1>6, <1>7, <1>8, <1>9, <1>10, <1>11, <1>12, <1>13 DEF Next

\* Without decisions from before allocation rows existed, the gates, reviewers,
\* reconciliation and sweep keep the promise of the credit ledger: a key holds credit once,
\* and its hold is closed once (settle_credit_reservations_for_decision).
THEOREM LedgerImplemented == Legacy = {} => (Spec => ImplementsCreditLedger)
<1> SUFFICES ASSUME Legacy = {} PROVE Spec => ImplementsCreditLedger
  OBVIOUS
<1>1. Init => CL!Init
  BY LedgerInit
<1>2. IInv /\ [Next]_vars => [CL!Next]_(CL!vars)
  BY NextLedger
<1> QED
  BY <1>1, <1>2, Invariance, PTL DEF Spec, ImplementsCreditLedger, CL!Spec

-----------------------------------------------------------------------------
(***************************************************************************)
(* What CreditLedger promises, whatever implements it.                     *)
(***************************************************************************)

VARIABLES phase, issued, left, held, spent

Ledger == INSTANCE CreditLedger

\* What the requests hold and have spent of c.
Charged(h, s, c) == SumFunctionOnSet([k \in Keys |-> h[k][c] + s[k][c]], Keys)

LedgerType ==
    /\ phase \in [Keys -> {"new", "open", "closed"}]
    /\ left \in [Grants -> Nat]
    /\ held \in [Keys -> [Grants -> Nat]]
    /\ spent \in [Keys -> [Grants -> Nat]]

LedgerInv ==
    /\ LedgerType
    /\ \A c \in Grants :
          left[c] + Charged(held, spent, c) = IF c \in issued THEN Total[c] ELSE 0
    /\ \A k \in Keys, c \in Grants : phase[k] # "open" => held[k][c] = 0

LEMMA ChargedNat ==
    ASSUME NEW h \in [Keys -> [Grants -> Nat]], NEW s \in [Keys -> [Grants -> Nat]],
           NEW c \in Grants
    PROVE  /\ Charged(h, s, c) \in Nat
           /\ (\A k \in Keys : h[k][c] + s[k][c] = 0) => Charged(h, s, c) = 0
<1> DEFINE f == [k \in Keys |-> h[k][c] + s[k][c]]
<1>1. \A k \in Keys : f[k] \in Nat /\ f[k] = h[k][c] + s[k][c]
  <2> SUFFICES ASSUME NEW k \in Keys PROVE f[k] \in Nat /\ f[k] = h[k][c] + s[k][c]
    OBVIOUS
  <2>1. h[k][c] \in Nat /\ s[k][c] \in Nat
    OBVIOUS
  <2> QED
    BY <2>1
<1> HIDE DEF f
<1>2. /\ SumFunctionOnSet(f, Keys) \in Nat
      /\ (\A x \in Keys : f[x] = 0) <=> SumFunctionOnSet(f, Keys) = 0
  BY <1>1, SumNat, ReservationsAssumption
<1>3. Charged(h, s, c) = SumFunctionOnSet(f, Keys)
  BY DEF Charged, f
<1> QED
  BY <1>1, <1>2, <1>3

\* The ledger's own sum.
LEMMA ChargedIsLedgers ==
    ASSUME NEW h, NEW s, NEW c
    PROVE  Ledger!SumFunctionOnSet([k \in Keys |-> h[k][c] + s[k][c]], Keys)
             = Charged(h, s, c)
BY DEF Charged, Ledger!SumFunctionOnSet, SumFunctionOnSet, Ledger!FoldFunctionOnSet,
       FoldFunctionOnSet, Ledger!MapThenFoldSet, MapThenFoldSet

LEMMA LedgerInvHolds == LedgerInv => Ledger!LedgerConserved
<1> SUFFICES ASSUME LedgerInv PROVE Ledger!LedgerConserved
  OBVIOUS
<1>1. \A c \in Grants : left[c] \in Nat
  BY DEF LedgerInv, LedgerType
<1>2. \A k \in Keys, c \in Grants : held[k][c] \in Nat /\ spent[k][c] \in Nat
  BY DEF LedgerInv, LedgerType
<1>3. \A n \in Nat : n >= 0
  OBVIOUS
<1> QED
  BY <1>1, <1>2, <1>3, ChargedIsLedgers DEF LedgerInv, Ledger!LedgerConserved

LEMMA LedgerStarts == Ledger!Init => LedgerInv
<1> SUFFICES ASSUME Ledger!Init PROVE LedgerInv
  OBVIOUS
<1>1. /\ LedgerType /\ issued = {}
      /\ \A c \in Grants : left[c] = 0
      /\ \A k \in Keys, c \in Grants : held[k][c] = 0 /\ spent[k][c] = 0
  BY DEF Ledger!Init, LedgerType
<1>2. \A c \in Grants : Charged(held, spent, c) = 0
  BY <1>1, ChargedNat DEF LedgerType
<1> QED
  BY <1>1, <1>2 DEF LedgerInv

\* A hold moves what it takes from what is left to what the request holds.
LEMMA HoldKeeps ==
    ASSUME LedgerInv, NEW k \in Keys, Ledger!Hold(k)
    PROVE  LedgerInv'
<1>1. PICK amount \in Ledger!Parts(left) :
         /\ held' = [held EXCEPT ![k] = amount]
         /\ left' = [c \in Grants |-> left[c] - amount[c]]
  BY DEF Ledger!Hold
<1>2. /\ phase[k] = "new" /\ phase' = [phase EXCEPT ![k] = "open"]
      /\ issued' = issued /\ spent' = spent
  BY DEF Ledger!Hold
<1>3. LedgerType
  BY DEF LedgerInv
<1>4. \A c \in Grants : left[c] \in Nat /\ amount[c] \in Nat /\ amount[c] <= left[c]
  BY <1>3 DEF LedgerType, Ledger!Parts
<1>5. amount \in [Grants -> Nat]
  <2>1. amount = [c \in Grants |-> amount[c]]
    BY DEF Ledger!Parts
  <2> QED
    BY <1>4, <2>1
<1>6. \A c \in Grants : left'[c] \in Nat /\ left'[c] = left[c] - amount[c]
  BY <1>1, <1>4
<1>7. LedgerType'
  <2>1. left' \in [Grants -> Nat]
    BY <1>1, <1>6
  <2> QED
    BY <1>1, <1>2, <1>3, <1>5, <2>1 DEF LedgerType
<1>8. ASSUME NEW c \in Grants
      PROVE  Charged(held', spent', c) = Charged(held, spent, c) + amount[c]
  <2> DEFINE f == [x \in Keys |-> held[x][c] + spent[x][c]]
             g == [x \in Keys |-> held'[x][c] + spent'[x][c]]
  <2>1. ASSUME NEW x \in Keys
        PROVE  /\ held[x][c] \in Nat /\ spent[x][c] \in Nat
               /\ held'[x][c] \in Nat /\ spent'[x][c] = spent[x][c]
               /\ x # k => held'[x][c] = held[x][c]
    BY <1>1, <1>2, <1>3, <1>7 DEF LedgerType
  <2>2. held[k][c] = 0 /\ held'[k][c] = amount[c]
    BY <1>1, <1>2, <1>3 DEF LedgerInv, LedgerType
  <2>3. \A x \in Keys : f[x] \in Int /\ g[x] \in Int
    BY <2>1
  <2>4. \A x \in Keys \ {k} : g[x] = f[x]
    BY <2>1
  <2>5. g[k] = f[k] + amount[c]
    BY <1>4, <2>1, <2>2
  <2>6. f[k] \in Int /\ amount[c] \in Int
    BY <1>4, <2>3
  <2>7. Charged(held, spent, c) = SumFunctionOnSet(f, Keys)
        /\ Charged(held', spent', c) = SumFunctionOnSet(g, Keys)
    BY DEF Charged
  <2>8. Charged(held, spent, c) \in Nat
    BY <1>3, ChargedNat DEF LedgerType
  <2> HIDE DEF f, g
  <2>9. SumFunctionOnSet(g, Keys) = SumFunctionOnSet(f, Keys) + g[k] - f[k]
    <3>1. IsFiniteSet(Keys)
      BY ReservationsAssumption
    <3> QED
      BY <2>3, <2>4, <3>1, SumUpdate
  <2> QED
    BY <2>5, <2>6, <2>7, <2>8, <2>9
<1>9. ASSUME NEW c \in Grants
      PROVE  left'[c] + Charged(held', spent', c) = IF c \in issued' THEN Total[c] ELSE 0
  <2>1. Charged(held, spent, c) \in Nat
    BY <1>3, ChargedNat DEF LedgerType
  <2>2. left'[c] + Charged(held', spent', c) = left[c] + Charged(held, spent, c)
    BY <1>4, <1>6, <1>8, <2>1
  <2> QED
    BY <1>2, <2>2 DEF LedgerInv
<1>10. \A x \in Keys, c \in Grants : phase'[x] # "open" => held'[x][c] = 0
  BY <1>1, <1>2, <1>3 DEF LedgerInv, LedgerType
<1> QED
  BY <1>7, <1>9, <1>10 DEF LedgerInv

\* Closing gives back what is not spent, grant by grant.
LEMMA CloseKeeps ==
    ASSUME LedgerInv, NEW S \in SUBSET Keys, Ledger!Close(S)
    PROVE  LedgerInv'
<1>1. PICK used \in [S -> UNION {Ledger!Parts(held[k]) : k \in S}] :
         /\ \A k \in S : used[k] \in Ledger!Parts(held[k])
         /\ spent' = [k \in Keys |->
                        IF k \in S THEN [c \in Grants |-> spent[k][c] + used[k][c]]
                                   ELSE spent[k]]
         /\ left' = [c \in Grants |->
                        left[c] + Ledger!SumFunctionOnSet(
                                    [k \in S |-> held[k][c] - used[k][c]], S)]
  BY DEF Ledger!Close
<1>2. /\ phase' = [k \in Keys |-> IF k \in S THEN "closed" ELSE phase[k]]
      /\ held' = [k \in Keys |-> IF k \in S THEN [c \in Grants |-> 0] ELSE held[k]]
      /\ issued' = issued
  BY DEF Ledger!Close
<1>3. LedgerType /\ IsFiniteSet(S) /\ IsFiniteSet(Keys)
  BY ReservationsAssumption, FS_Subset DEF LedgerInv
<1>4. ASSUME NEW k \in S, NEW c \in Grants
      PROVE  /\ held[k][c] \in Nat /\ spent[k][c] \in Nat
             /\ used[k][c] \in Nat /\ used[k][c] <= held[k][c]
             /\ held'[k][c] = 0 /\ spent'[k][c] = spent[k][c] + used[k][c]
  <2>1. held[k] \in [Grants -> Nat] /\ spent[k] \in [Grants -> Nat]
    BY <1>3 DEF LedgerType
  <2>2. used[k] \in Ledger!Parts(held[k])
    BY <1>1
  <2>3. used[k][c] \in Nat /\ used[k][c] <= held[k][c]
    BY <2>1, <2>2 DEF Ledger!Parts
  <2> QED
    BY <1>1, <1>2, <2>1, <2>3
<1>5. \A k \in Keys \ S : held'[k] = held[k] /\ spent'[k] = spent[k]
  BY <1>1, <1>2
<1>6. held' \in [Keys -> [Grants -> Nat]]
  BY <1>2, <1>3 DEF LedgerType
<1>7. spent' \in [Keys -> [Grants -> Nat]]
  <2>1. ASSUME NEW k \in S PROVE [c \in Grants |-> spent[k][c] + used[k][c]] \in [Grants -> Nat]
    <3>1. \A c \in Grants : spent[k][c] + used[k][c] \in Nat
      BY <1>4
    <3> QED
      BY <3>1
  <2> QED
    BY <1>1, <1>3, <2>1 DEF LedgerType
<1>8. ASSUME NEW c \in Grants
      PROVE  /\ left'[c] \in Nat
             /\ left'[c] + Charged(held', spent', c) = left[c] + Charged(held, spent, c)
  <2> DEFINE b == [k \in S |-> held[k][c] - used[k][c]]
             f == [k \in Keys |-> held[k][c] + spent[k][c]]
             g == [k \in Keys |-> held'[k][c] + spent'[k][c]]
             d == [k \in Keys |-> IF k \in S THEN held[k][c] - used[k][c] ELSE 0]
  <2>1. ASSUME NEW k \in Keys
        PROVE  d[k] \in Int /\ g[k] \in Int /\ f[k] = g[k] + d[k]
    <3>1. CASE k \in S
      <4>1. /\ held[k][c] \in Nat /\ spent[k][c] \in Nat
            /\ used[k][c] \in Nat
            /\ held'[k][c] = 0 /\ spent'[k][c] = spent[k][c] + used[k][c]
        BY <1>4, <3>1
      <4> QED
        BY <3>1, <4>1
    <3>2. CASE k \notin S
      <4>1. held[k][c] \in Nat /\ spent[k][c] \in Nat
        BY <1>3 DEF LedgerType
      <4>2. held'[k][c] = held[k][c] /\ spent'[k][c] = spent[k][c]
        BY <1>5, <3>2
      <4> QED
        BY <3>2, <4>1, <4>2
    <3> QED
      BY <3>1, <3>2
  <2>2. \A k \in S : b[k] \in Nat /\ d[k] = b[k]
    <3> SUFFICES ASSUME NEW k \in S PROVE b[k] \in Nat /\ d[k] = b[k]
      OBVIOUS
    <3>1. held[k][c] \in Nat /\ used[k][c] \in Nat /\ used[k][c] <= held[k][c]
      BY <1>4
    <3> QED
      BY <3>1
  <2>3. \A k \in Keys \ S : d[k] = 0
    OBVIOUS
  <2>4. /\ Charged(held, spent, c) = SumFunctionOnSet(f, Keys)
        /\ Charged(held', spent', c) = SumFunctionOnSet(g, Keys)
    BY DEF Charged
  <2>5. left'[c] = left[c] + SumFunctionOnSet(b, S)
    <3>1. Ledger!SumFunctionOnSet(b, S) = SumFunctionOnSet(b, S)
      BY DEF Ledger!SumFunctionOnSet, SumFunctionOnSet, Ledger!FoldFunctionOnSet,
             FoldFunctionOnSet, Ledger!MapThenFoldSet, MapThenFoldSet
    <3> QED
      BY <1>1, <3>1
  <2> HIDE DEF b, f, g, d
  <2>6. SumFunctionOnSet(f, Keys) = SumFunctionOnSet(g, Keys) + SumFunctionOnSet(d, Keys)
    BY <1>3, <2>1, SumPlus
  <2>7. SumFunctionOnSet(d, Keys) = SumFunctionOnSet(d, S)
    BY <1>3, <2>1, <2>3, SumSupport
  <2>8. SumFunctionOnSet(d, S) = SumFunctionOnSet(b, S)
    <3>1. \A k \in S : b[k] \in Int /\ d[k] = b[k]
      BY <2>2
    <3> QED
      BY <1>3, <3>1, SumSame
  <2>9. SumFunctionOnSet(b, S) \in Nat
    BY <1>3, <2>2, SumNat
  <2>10. left[c] \in Nat
    BY <1>3 DEF LedgerType
  <2>11. Charged(held', spent', c) \in Nat
    BY <1>6, <1>7, ChargedNat
  <2> QED
    BY <2>4, <2>5, <2>6, <2>7, <2>8, <2>9, <2>10, <2>11
<1>9. LedgerType'
  <2>1. left' \in [Grants -> Nat]
    <3>1. left' = [c \in Grants |-> left'[c]]
      BY <1>1
    <3> QED
      BY <1>8, <3>1
  <2> QED
    BY <1>2, <1>3, <1>6, <1>7, <2>1 DEF LedgerType
<1>10. \A k \in Keys, c \in Grants : phase'[k] # "open" => held'[k][c] = 0
  BY <1>2 DEF LedgerInv
<1> QED
  BY <1>2, <1>8, <1>9, <1>10 DEF LedgerInv

LEMMA LedgerNext == LedgerInv /\ [Ledger!Next]_(Ledger!vars) => LedgerInv'
<1> SUFFICES ASSUME LedgerInv, [Ledger!Next]_(Ledger!vars) PROVE LedgerInv'
  OBVIOUS
<1>0. LedgerType /\ Total \in [Grants -> Nat]
  BY ReservationsAssumption DEF LedgerInv
<1>1. ASSUME NEW c \in Grants, Ledger!Issue(c) PROVE LedgerInv'
  <2>1. /\ c \notin issued /\ issued' = issued \cup {c}
        /\ left' = [left EXCEPT ![c] = Total[c]]
        /\ phase' = phase /\ held' = held /\ spent' = spent
    BY <1>1 DEF Ledger!Issue
  <2>2. LedgerType'
    BY <1>0, <2>1 DEF LedgerType
  <2>3. \A x \in Grants : left[x] \in Nat /\ Charged(held, spent, x) \in Nat
    BY <1>0, ChargedNat DEF LedgerType
  <2>4. left[c] + Charged(held, spent, c) = 0
    BY <2>1 DEF LedgerInv
  <2>5. Charged(held, spent, c) = 0
    BY <2>3, <2>4
  <2>6. \A x \in Grants : left'[x] = IF x = c THEN Total[c] ELSE left[x]
    BY <1>0, <2>1 DEF LedgerType
  <2>7. \A x \in Grants :
           left'[x] + Charged(held, spent, x) = IF x \in issued' THEN Total[x] ELSE 0
    BY <1>0, <2>1, <2>3, <2>5, <2>6 DEF LedgerInv
  <2> QED
    BY <2>1, <2>2, <2>7 DEF LedgerInv
<1>2. ASSUME NEW k \in Keys, Ledger!Refuse(k) PROVE LedgerInv'
  <2>1. /\ phase[k] = "new" /\ phase' = [phase EXCEPT ![k] = "closed"]
        /\ issued' = issued /\ left' = left /\ held' = held /\ spent' = spent
    BY <1>2 DEF Ledger!Refuse
  <2> QED
    BY <1>0, <2>1 DEF LedgerInv, LedgerType
<1>3. CASE UNCHANGED Ledger!vars
  BY <1>3 DEF Ledger!vars, LedgerInv, LedgerType
<1> QED
  BY <1>1, <1>2, <1>3, HoldKeeps, CloseKeeps DEF Ledger!Next

\* The ledger the gate implements keeps its promise: the holds and settlements of credit_ops
\* neither create nor lose credit, and a request that is not open holds none.
THEOREM LedgerPromise == Ledger!Spec => []Ledger!LedgerConserved
<1>1. Ledger!Init => LedgerInv
  BY LedgerStarts
<1>2. LedgerInv /\ [Ledger!Next]_(Ledger!vars) => LedgerInv'
  BY LedgerNext
<1>3. LedgerInv => Ledger!LedgerConserved
  BY LedgerInvHolds
<1> QED
  BY <1>1, <1>2, <1>3, PTL DEF Ledger!Spec

=============================================================================
