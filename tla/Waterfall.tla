----------------------------- MODULE Waterfall ------------------------------
(***************************************************************************)
(* The entitlement waterfall of the enforcement gate: how a requested      *)
(* monthly cost is funded from the project allocation, the reserved        *)
(* credits and the emergency credits, under a plan limit and an enterprise *)
(* ceiling, and which decision follows in each mode.                       *)
(*                                                                         *)
(* Amounts are whole numbers of the quantum 0.0001 USD every amount is     *)
(* rounded to.  A headroom may be negative (it is clamped) or, for the     *)
(* plan, the allocation and the enterprise ceiling, Unbounded (None).      *)
(***************************************************************************)
EXTENDS Integers

CONSTANT Unbounded

ASSUME UnboundedAssumption == Unbounded \notin Int

Modes == {"shadow", "soft", "hard"}

Headrooms == [plan       : Int \cup {Unbounded},
              allocation : Int \cup {Unbounded},
              reserved   : Int,
              emergency  : Int,
              enterprise : Int \cup {Unbounded}]

Smaller(a, b) == IF a <= b THEN a ELSE b

\* max(0, x)
Clamp(x) == IF x < 0 THEN 0 ELSE x

\* What a violated limit means in each mode.
ModeViolationDecision(mode) ==
    CASE mode = "shadow" -> "allow"
      [] mode = "soft"   -> "require_approval"
      [] OTHER           -> "deny"

\* requested is no more than a limit that may be Unbounded.
Within(requested, limit) == limit = Unbounded \/ requested <= Clamp(limit)

\* The part of the request the enterprise ceiling lets through.
FundingTarget(requested, h) ==
    IF h.enterprise = Unbounded THEN requested
    ELSE Smaller(requested, Clamp(h.enterprise))

\* Stage 1: an unbounded allocation covers everything and reserves nothing.
AllocationShare(requested, h) ==
    IF h.allocation = Unbounded THEN 0
    ELSE Smaller(FundingTarget(requested, h), Clamp(h.allocation))

AfterAllocation(requested, h) ==
    IF h.allocation = Unbounded THEN 0
    ELSE FundingTarget(requested, h) - AllocationShare(requested, h)

\* Mutant of ReservedShare: emergency credits are drawn on first.
ReservedShareLast(requested, h) ==
    Smaller(Clamp(AfterAllocation(requested, h) - Clamp(h.emergency)),
            Clamp(h.reserved))

\* Stage 2.
ReservedShare(requested, h) ==
    Smaller(AfterAllocation(requested, h), Clamp(h.reserved))

AfterReserved(requested, h) ==
    AfterAllocation(requested, h) - ReservedShare(requested, h)

\* Mutant of EmergencyShare: the share is taken from what followed stage 1.
EmergencyShareOfAll(requested, h) ==
    Smaller(AfterAllocation(requested, h), Clamp(h.emergency))

\* Stage 3.
EmergencyShare(requested, h) ==
    Smaller(AfterReserved(requested, h), Clamp(h.emergency))

Unfunded(requested, h) ==
    AfterReserved(requested, h) - EmergencyShare(requested, h)

\* Which limit is violated, in the order the code looks; "none" if none is.
\* "plan" ends the evaluation before anything is funded.
Violated(requested, h) ==
    IF ~Within(requested, h.plan) THEN "plan_limit_exceeded"
    ELSE IF Unfunded(requested, h) > 0 THEN "budget_exceeded"
    ELSE IF ~Within(requested, h.enterprise) THEN "enterprise_ceiling_exceeded"
    ELSE "none"

\* Mutant of Keeps: hard mode keeps what it could fund of a denied request.
KeepsAlways(mode, reason) == reason # "plan_limit_exceeded"

\* A violated request keeps its partial reservation in soft mode only, and
\* never after the plan limit.
Keeps(mode, reason) ==
    \/ reason = "none"
    \/ mode = "soft" /\ reason # "plan_limit_exceeded"

\* evaluate_entitlement_waterfall
EvaluateEntitlementWaterfall(mode, requested, h) ==
    LET reason == Violated(requested, h)
        keep   == Keeps(mode, reason)
        credit == ReservedShare(requested, h) + EmergencyShare(requested, h)
    IN  [decision   |-> IF reason # "none" THEN ModeViolationDecision(mode)
                        ELSE IF credit = 0 THEN "allow" ELSE "allow_with_credits",
         allocation |-> IF keep THEN AllocationShare(requested, h) ELSE 0,
         reserved   |-> IF keep THEN ReservedShare(requested, h) ELSE 0,
         emergency  |-> IF keep THEN EmergencyShare(requested, h) ELSE 0,
         reason     |-> reason]

-----------------------------------------------------------------------------
(***************************************************************************)
(* What the gate relies on, for one input.                                 *)
(***************************************************************************)

Reserves(r) == r.allocation + r.reserved + r.emergency

\* No stage reserves more than its headroom, and all together no more than
\* the request, the plan limit and the enterprise ceiling: what the gate adds
\* to the tenant's reservations keeps them under every ceiling.
WithinHeadrooms(mode, requested, h) ==
    LET r == EvaluateEntitlementWaterfall(mode, requested, h) IN
    /\ r.allocation >= 0 /\ Within(r.allocation, h.allocation)
    /\ r.reserved >= 0   /\ r.reserved <= Clamp(h.reserved)
    /\ r.emergency >= 0  /\ r.emergency <= Clamp(h.emergency)
    /\ Reserves(r) <= requested
    /\ Within(Reserves(r), h.plan)
    /\ Within(Reserves(r), h.enterprise)

\* Outside shadow mode a request is let through at once only if it is funded
\* to the last quantum (or its allocation is unbounded) within both limits, and
\* a denied one reserves nothing.
AllowedIsFunded(mode, requested, h) ==
    LET r == EvaluateEntitlementWaterfall(mode, requested, h) IN
    /\ (mode # "shadow" /\ r.decision \in {"allow", "allow_with_credits"})
         => /\ Within(requested, h.plan)
            /\ Within(requested, h.enterprise)
            /\ h.allocation = Unbounded \/ Reserves(r) = requested
    /\ r.decision = "deny" => Reserves(r) = 0

\* Credits are the last resort, emergency credits the very last: a stage is
\* drawn on only when the ones before it are used up.
StagesInOrder(mode, requested, h) ==
    LET r == EvaluateEntitlementWaterfall(mode, requested, h) IN
    /\ r.reserved + r.emergency > 0
         => h.allocation # Unbounded /\ r.allocation = Clamp(h.allocation)
    /\ r.emergency > 0 => r.reserved = Clamp(h.reserved)

=============================================================================
