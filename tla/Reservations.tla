---------------------------- MODULE Reservations ----------------------------
(***************************************************************************)
(* The enforcement gate of one tenant and everything that undoes what it   *)
(* reserves: approvals, their tokens, manual reconciliation and the sweep  *)
(* of overdue reservations, over the rows of enforcement_decisions,        *)
(* enforcement_credit_grants and the reservation allocations between them. *)
(*                                                                         *)
(* Gate evaluations serialise on the tenant's policy row, which they lock  *)
(* by updating it; nothing else takes that lock, so a gate runs here in    *)
(* the statements that read what others change: the totals, the budget and *)
(* the grants, and finally the insert.  Settlements (approval expiry,      *)
(* denial, reconciliation, sweep) lock the decision, its allocations and   *)
(* the grants before they read them, so each is one step.                  *)
(*                                                                         *)
(* A decision of the model is an idempotency key.  Amounts are quanta      *)
(* (Waterfall).  Clock reads become the comparisons made: a grant, an      *)
(* approval or a token has expired, a decision is overdue, the row belongs *)
(* to the current month.                                                   *)
(*                                                                         *)
(* Two things are fixed for a behaviour.  The policy's ceilings: the code  *)
(* takes them from a copy of the policy it loaded before it waits for the  *)
(* lock, so a change of policy meanwhile is not seen by that evaluation.   *)
(* And the order of a decision's allocation rows: they are written grant   *)
(* by grant with a created_at of their own, and settled in that order.     *)
(***************************************************************************)
EXTENDS Waterfall, Sequences, FiniteSets, Functions

CONSTANTS
    Keys,               \* idempotency keys of gate requests
    Gates,              \* gate evaluations in flight
    Grants,             \* credit grants
    Total,              \* total_amount_usd of a grant
    Perpetual,          \* grants whose expires_at is null
    ReservedOrder,      \* ReservedOrder[k]: the reserved grants k may use, in order
    EmergencyOrder,     \* the emergency grants, in order
    Deltas,             \* requested monthly amounts
    Actuals,            \* amounts reported at reconciliation
    Budgets,            \* values upsert_budget gives (Unbounded: no active budget)
    PlanCeiling, EnterpriseCeiling, HardDeny,
    Legacy,             \* decisions made before allocation rows existed
    NoGate

ASSUME ReservationsAssumption ==
    /\ IsFiniteSet(Keys) /\ IsFiniteSet(Grants)
    /\ Total \in [Grants -> Nat \ {0}]
    /\ Perpetual \subseteq Grants
    /\ ReservedOrder \in [Keys -> Seq(Grants)]
    /\ EmergencyOrder \in Seq(Grants)
    /\ IsInjective(EmergencyOrder) /\ \A k \in Keys : IsInjective(ReservedOrder[k])
    /\ \A k \in Keys :          \* a grant is of one pool
          \A i \in DOMAIN ReservedOrder[k], j \in DOMAIN EmergencyOrder :
             ReservedOrder[k][i] # EmergencyOrder[j]
    /\ Deltas \subseteq Nat /\ Actuals \subseteq Nat
    /\ Budgets \subseteq Nat \cup {Unbounded}
    /\ PlanCeiling \in Nat \cup {Unbounded}
    /\ EnterpriseCeiling \in Nat \cup {Unbounded}
    /\ HardDeny \in Nat
    /\ Legacy \subseteq Keys
    /\ NoGate \notin Gates

VARIABLES
    decision,  \* decision[k]: the row with idempotency key k
    grant,     \* grant[c]: the credit grant c
    link,      \* link[k][c]: what k holds of c, and what it has consumed of it
    budget,    \* the effective budget
    gate,      \* gate[g]: what evaluation g has read
    lock       \* the evaluation that holds the policy row

vars == <<decision, grant, link, budget, gate, lock>>

Decision == [type     : {"absent", "allow", "allow_with_credits",
                         "require_approval", "deny"},
             alloc    : Nat,
             credit   : Nat,
             active   : BOOLEAN,
             current  : BOOLEAN,     \* active, and created in the current month
             overdue  : BOOLEAN,     \* active, and older than the reconciliation SLA
             approval : {"none", "pending", "approved", "denied", "expired"},
             late     : BOOLEAN,     \* the pending approval, or its token, has expired
             consumed : BOOLEAN]     \* the token has been consumed

NoDecision == [type |-> "absent", alloc |-> 0, credit |-> 0, active |-> FALSE,
               current |-> FALSE, overdue |-> FALSE, approval |-> "none",
               late |-> FALSE, consumed |-> FALSE]

LegacyDecision == [NoDecision EXCEPT !.type = "allow_with_credits", !.credit = 1,
                                     !.active = TRUE, !.overdue = TRUE]

Grant == [exists : BOOLEAN, remaining : Nat, active : BOOLEAN, expired : BOOLEAN]

NoHold == [held |-> 0, consumed |-> 0]

Idle == [pc |-> "idle"]

\* The decisions, the grants, the allocation rows and the gates have their types.
TypeOK ==
    /\ decision \in [Keys -> Decision]
    /\ grant \in [Grants -> Grant]
    /\ \A k \in Keys, c \in Grants :
          /\ link[k][c].held \in 0..Total[c]
          /\ link[k][c].consumed \in 0..Total[c]
    /\ \A c \in Grants : grant[c].remaining <= Total[c]
    /\ budget \in Budgets
    /\ lock \in Gates \cup {NoGate}

Init ==
    /\ decision = [k \in Keys |-> IF k \in Legacy THEN LegacyDecision ELSE NoDecision]
    /\ grant = [c \in Grants |-> [exists |-> FALSE, remaining |-> 0,
                                  active |-> FALSE, expired |-> FALSE]]
    /\ link = [k \in Keys |-> [c \in Grants |-> NoHold]]
    /\ budget \in Budgets
    /\ gate = [g \in Gates |-> Idle]
    /\ lock = NoGate

-----------------------------------------------------------------------------
(***************************************************************************)
(* Sums over the rows.                                                     *)
(***************************************************************************)

Sum(f, S) == SumFunctionOnSet(f, S)

Month == {k \in Keys : decision[k].active /\ decision[k].current}

\* get_reserved_totals
ReservedAllocTotal == Sum([k \in Keys |-> decision[k].alloc], Month)
ReservedCreditTotal == Sum([k \in Keys |-> decision[k].credit], Month)

\* Credit reserved by active decisions, and by active allocation rows.
DecisionsReservedTotal ==
    Sum([k \in Keys |-> IF decision[k].active THEN decision[k].credit ELSE 0], Keys)
MappedTotal ==
    Sum([k \in Keys |-> Sum([c \in Grants |-> link[k][c].held], Grants)], Keys)

\* Draw target from amounts avail, in the given order of grants: what each
\* grant gives.
Fill(order, avail, target) ==
    [c \in Grants |->
       LET at == {i \in DOMAIN order : order[i] = c} IN
       IF at = {} THEN 0
       ELSE LET i == CHOOSE i \in at : TRUE
                before == Sum([j \in DOMAIN order |-> avail[order[j]]], 1..(i - 1))
            IN  Smaller(avail[c], Clamp(target - before))]

Drawn(fill) == Sum(fill, Grants)

\* Mutant of Offer: what has been taken of a grant is forgotten.
OfferTotal(fresh) ==
    [c \in Grants |-> IF grant[c].active /\ c \in fresh THEN Total[c] ELSE 0]

\* What a grant offers an evaluation whose clock read `fresh` as unexpired.
Offer(fresh) ==
    [c \in Grants |-> IF grant[c].active /\ c \in fresh THEN grant[c].remaining ELSE 0]

OrderSum(order, avail) == Sum([i \in DOMAIN order |-> avail[order[i]]], DOMAIN order)

-----------------------------------------------------------------------------
(***************************************************************************)
(* evaluate_gate                                                           *)
(***************************************************************************)

\* Mutant of GateLock: evaluations are not serialised.
GateLockShared(g, k) ==
    /\ gate[g] = Idle
    /\ decision[k].type = "absent"
    /\ lock' = g
    /\ gate' = [gate EXCEPT ![g] =
                  [pc |-> "locked", key |-> k,
                   fresh |-> {c \in Grants : ~grant[c].expired}]]
    /\ UNCHANGED <<decision, grant, link, budget>>

\* The policy row is updated, the key looked up again, the clock read.
GateLock(g, k) ==
    /\ gate[g] = Idle
    /\ lock = NoGate
    /\ decision[k].type = "absent"
    /\ lock' = g
    /\ gate' = [gate EXCEPT ![g] =
                  [pc |-> "locked", key |-> k,
                   fresh |-> {c \in Grants : ~grant[c].expired}]]
    /\ UNCHANGED <<decision, grant, link, budget>>

\* Mutant of GateReadTotals: the credit the month has reserved is not counted.
GateReadTotalsAllocOnly(g) ==
    /\ gate[g].pc = "locked"
    /\ gate' = [gate EXCEPT ![g] =
                  [pc |-> "totals", key |-> @.key, fresh |-> @.fresh,
                   alloc |-> ReservedAllocTotal, credit |-> 0]]
    /\ UNCHANGED <<decision, grant, link, budget, lock>>

\* The month's reservations are summed.
GateReadTotals(g) ==
    /\ gate[g].pc = "locked"
    /\ gate' = [gate EXCEPT ![g] =
                  [pc |-> "totals", key |-> @.key, fresh |-> @.fresh,
                   alloc |-> ReservedAllocTotal, credit |-> ReservedCreditTotal]]
    /\ UNCHANGED <<decision, grant, link, budget, lock>>

\* The budget, the grants and the credit the decisions hold are read.
GateReadGrants(g) ==
    /\ gate[g].pc = "totals"
    /\ gate' = [gate EXCEPT ![g] =
                  [pc |-> "ready", key |-> @.key, fresh |-> @.fresh,
                   alloc |-> @.alloc, credit |-> @.credit, budget |-> budget,
                   reserved  |-> OrderSum(ReservedOrder[@.key], Offer(@.fresh)),
                   emergency |-> OrderSum(EmergencyOrder, Offer(@.fresh)),
                   held |-> DecisionsReservedTotal]]
    /\ UNCHANGED <<decision, grant, link, budget, lock>>

Under(ceiling, total) == IF ceiling = Unbounded THEN Unbounded
                         ELSE Clamp(ceiling - total)

\* The headrooms of the evaluation, once the allocation rows are summed: credit
\* held by decisions without allocation rows is kept back from both pools.
GateHeadrooms(g) ==
    LET x         == gate[g]
        uncovered == Clamp(x.held - MappedTotal)
        reduction == Smaller(uncovered, x.reserved)
    IN  [plan       |-> Under(PlanCeiling, x.alloc + x.credit),
         allocation |-> Under(x.budget, x.alloc),
         reserved   |-> x.reserved - reduction,
         emergency  |-> Clamp(x.emergency - (uncovered - reduction)),
         enterprise |-> Under(EnterpriseCeiling, x.alloc + x.credit)]

\* The decision and what it reserves.  in: the request and the policy in force.
\* (A shadow decision also carries what it would have reserved; nothing reads
\* the amounts of an inactive row, so they are left out.)
Outcome(in, h) ==
    LET nothing == [decision |-> ModeViolationDecision(in.mode),
                    allocation |-> 0, reserved |-> 0, emergency |-> 0]
        w == IF (in.blind /\ in.delta > 0) \/ in.delta > HardDeny
               THEN nothing
               ELSE EvaluateEntitlementWaterfall(in.mode, in.delta, h)
        type == IF /\ w.decision \in {"allow", "allow_with_credits"}
                   /\ in.approve
                   /\ in.mode # "shadow"
                  THEN "require_approval" ELSE w.decision
        active == /\ ~in.dry
                  /\ type # "deny"
                  /\ in.mode # "shadow"
                  /\ w.allocation + w.reserved + w.emergency > 0
        kept(x) == IF active THEN x ELSE 0
    IN  [type |-> type, active |-> active, alloc |-> kept(w.allocation),
         reserved |-> kept(w.reserved), emergency |-> kept(w.emergency)]

\* blind: the cost context is unavailable; approve: the policy wants approval.
Inputs == [delta : Deltas, mode : Modes, dry : BOOLEAN, approve : BOOLEAN,
           blind : BOOLEAN]

Release(g) ==
    /\ gate' = [gate EXCEPT ![g] = Idle]
    /\ lock' = IF lock = g THEN NoGate ELSE lock

\* Insert the decision, reserve its credits from the locked grants, open the
\* approval, commit.
GatePersist(g, in) ==
    LET k == gate[g].key
        o == Outcome(in, GateHeadrooms(g))
        offer == Offer(gate[g].fresh)
        fillR == Fill(ReservedOrder[k], offer, o.reserved)
        fillE == Fill(EmergencyOrder, offer, o.emergency)
        taken == [c \in Grants |-> fillR[c] + fillE[c]]
    IN  /\ gate[g].pc = "ready"
        /\ decision[k].type = "absent"
        /\ Drawn(fillR) = o.reserved
        /\ Drawn(fillE) = o.emergency
        /\ decision' = [decision EXCEPT ![k] =
              [NoDecision EXCEPT
                 !.type = o.type, !.alloc = o.alloc,
                 !.credit = o.reserved + o.emergency, !.active = o.active,
                 !.current = o.active,
                 !.approval = IF o.type = "require_approval" /\ ~in.dry
                                 /\ in.mode # "shadow"
                                THEN "pending" ELSE "none"]]
        /\ grant' = [c \in Grants |->
              IF taken[c] = 0 THEN grant[c]
              ELSE [grant[c] EXCEPT !.remaining = @ - taken[c],
                                    !.active = grant[c].remaining > taken[c]]]
        /\ link' = [link EXCEPT ![k] = [c \in Grants |->
              [link[k][c] EXCEPT !.held = taken[c]]]]
        /\ Release(g)
        /\ UNCHANGED budget

\* Timeout, error, a credit shortfall (409), or the key was taken meanwhile:
\* everything is rolled back and the lock released.
GateAbort(g) ==
    /\ gate[g] # Idle
    /\ Release(g)
    /\ UNCHANGED <<decision, grant, link, budget>>

\* Mutant of FailSafe: the key is not looked up, although the evaluation that
\* timed out, or its retry, may have committed.
FailSafeOverwriting(k, mode, dry) ==
    /\ decision' = [decision EXCEPT ![k] =
           [NoDecision EXCEPT !.type = ModeViolationDecision(mode)]]
    /\ UNCHANGED <<grant, link, budget, gate, lock>>

\* resolve_fail_safe_gate: decide without lock and without reserving.
FailSafe(k, mode, dry) ==
    /\ decision[k].type = "absent"
    /\ LET type == ModeViolationDecision(mode) IN
       decision' = [decision EXCEPT ![k] =
           [NoDecision EXCEPT
              !.type = type,
              !.approval = IF type = "require_approval" /\ ~dry
                             THEN "pending" ELSE "none"]]
    /\ UNCHANGED <<grant, link, budget, gate, lock>>

-----------------------------------------------------------------------------
(***************************************************************************)
(* settle_credit_reservations_for_decision                                 *)
(***************************************************************************)

\* Mutant of Order: the emergency rows are passed over.
OrderReservedOnly(k) == ReservedOrder[k]

\* The allocation rows of k by created_at: the order they were drawn in.
Order(k) == ReservedOrder[k] \o EmergencyOrder

Held(k) == [c \in Grants |-> link[k][c].held]

Consume(k, amount) == Fill(Order(k), Held(k), Smaller(amount, decision[k].credit))

Refund(k, amount) ==
    LET used == Consume(k, amount) IN
    Fill(Order(k), [c \in Grants |-> link[k][c].held - used[c]],
         decision[k].credit - Smaller(amount, decision[k].credit))

\* The settlement goes through: there are allocation rows, and they add up to
\* the credit on the decision.  Otherwise it raises and nothing is written.
Settles(k, amount) ==
    \/ decision[k].credit = 0
    \/ /\ \E c \in Grants : link[k][c].held > 0
       /\ Drawn(Consume(k, amount)) + Drawn(Refund(k, amount)) = decision[k].credit

Touches(k, c) == decision[k].credit > 0 /\ link[k][c].held > 0

\* Mutant of Settle: an expired grant gets nothing back.
SettleForfeiting(S, amount) ==
    /\ \A k \in S : Settles(k, amount[k])
    /\ grant' = [c \in Grants |->
          LET by == {k \in S : Touches(k, c)}
              new == grant[c].remaining + Sum([k \in by |-> Refund(k, amount[k])[c]], by)
          IN  IF by = {} \/ grant[c].expired THEN grant[c]
              ELSE [grant[c] EXCEPT !.remaining = new, !.active = new > 0]]
    /\ link' = [k \in Keys |->
          IF k \notin S THEN link[k]
          ELSE [c \in Grants |->
                  [held |-> 0,
                   consumed |-> link[k][c].consumed + Consume(k, amount[k])[c]]]]

\* Settle the decisions of S, amount[k] of each being consumed.
Settle(S, amount) ==
    /\ \A k \in S : Settles(k, amount[k])
    /\ grant' = [c \in Grants |->
          LET by == {k \in S : Touches(k, c)}
              new == Smaller(Total[c], grant[c].remaining
                               + Sum([k \in by |-> Refund(k, amount[k])[c]], by))
          IN  IF by = {} THEN grant[c]
              ELSE [grant[c] EXCEPT !.remaining = new,
                                    !.active = new > 0 /\ ~grant[c].expired]]
    /\ link' = [k \in Keys |->
          IF k \notin S THEN link[k]
          ELSE [c \in Grants |->
                  IF Touches(k, c)
                    THEN [held |-> 0,
                          consumed |-> link[k][c].consumed + Consume(k, amount[k])[c]]
                    ELSE link[k][c]]]

Nothing == [k \in Keys |-> 0]

Released(d) == [d EXCEPT !.active = FALSE, !.current = FALSE, !.overdue = FALSE,
                         !.alloc = 0, !.credit = 0]

-----------------------------------------------------------------------------
(***************************************************************************)
(* Approvals and tokens.                                                   *)
(***************************************************************************)

\* create_or_get_approval_request
CreateApproval(k) ==
    /\ decision[k].type = "require_approval"
    /\ decision[k].approval = "none"
    /\ decision' = [decision EXCEPT ![k].approval = "pending"]
    /\ UNCHANGED <<grant, link, budget, gate, lock>>

\* approve_request in time: the token is issued.
Approve(k) ==
    /\ decision[k].approval = "pending"
    /\ ~decision[k].late
    /\ decision' = [decision EXCEPT ![k].approval = "approved"]
    /\ UNCHANGED <<grant, link, budget, gate, lock>>

\* Mutant of ApproveExpired: the credits are not settled.
ApproveExpiredUnsettled(k) ==
    /\ decision[k].approval = "pending"
    /\ decision[k].late
    /\ decision' = [decision EXCEPT ![k] = [Released(@) EXCEPT !.approval = "expired",
                                                                  !.late = FALSE]]
    /\ UNCHANGED <<grant, link, budget, gate, lock>>

\* approve_request too late: the reservation is given up.
ApproveExpired(k) ==
    /\ decision[k].approval = "pending"
    /\ decision[k].late
    /\ Settle({k}, Nothing)
    /\ decision' = [decision EXCEPT ![k] = [Released(@) EXCEPT !.approval = "expired",
                                                                  !.late = FALSE]]
    /\ UNCHANGED <<budget, gate, lock>>

\* deny_request, late or not.
Deny(k) ==
    /\ decision[k].approval = "pending"
    /\ Settle({k}, Nothing)
    /\ decision' = [decision EXCEPT ![k] = [Released(@) EXCEPT !.approval = "denied",
                                                                  !.late = FALSE]]
    /\ UNCHANGED <<budget, gate, lock>>

\* consume_approval_token
ConsumeToken(k) ==
    /\ decision[k].approval = "approved"
    /\ ~decision[k].late
    /\ ~decision[k].consumed
    /\ decision' = [decision EXCEPT ![k].consumed = TRUE]
    /\ UNCHANGED <<grant, link, budget, gate, lock>>

-----------------------------------------------------------------------------
(***************************************************************************)
(* Reconciliation.                                                         *)
(***************************************************************************)

\* Mutant of Reconcile: the reconciled decision stays active.
ReconcileLeavingActive(k, actual) ==
    /\ decision[k].active
    /\ Settle({k}, [Nothing EXCEPT ![k] = Clamp(actual - decision[k].alloc)])
    /\ decision' = [decision EXCEPT ![k].alloc = 0, ![k].credit = 0]
    /\ UNCHANGED <<budget, gate, lock>>

\* reconcile_reservation: the cost beyond the allocation consumes credit.
Reconcile(k, actual) ==
    /\ decision[k].active
    /\ Settle({k}, [Nothing EXCEPT ![k] = Clamp(actual - decision[k].alloc)])
    /\ decision' = [decision EXCEPT ![k] = Released(@)]
    /\ UNCHANGED <<budget, gate, lock>>

\* Mutant of Overdue: decisions waiting for an approval are passed over.
OverdueReviewed == {k \in Keys : /\ decision[k].active /\ decision[k].overdue
                                 /\ decision[k].approval # "pending"}

Overdue == {k \in Keys : decision[k].active /\ decision[k].overdue}

\* reconcile_overdue_reservations: all or nothing, in one transaction.
Sweep ==
    /\ Overdue # {}
    /\ Settle(Overdue, Nothing)
    /\ decision' = [k \in Keys |-> IF k \in Overdue THEN Released(decision[k])
                                                    ELSE decision[k]]
    /\ UNCHANGED <<budget, gate, lock>>

-----------------------------------------------------------------------------
(***************************************************************************)
(* Administration and the clock.                                           *)
(***************************************************************************)

UpsertBudget(b) ==
    /\ b # budget
    /\ budget' = b
    /\ UNCHANGED <<decision, grant, link, gate, lock>>

CreateCreditGrant(c) ==
    /\ ~grant[c].exists
    /\ grant' = [grant EXCEPT ![c] = [exists |-> TRUE, remaining |-> Total[c],
                                      active |-> TRUE, expired |-> FALSE]]
    /\ UNCHANGED <<decision, link, budget, gate, lock>>

GrantExpires(c) ==
    /\ c \notin Perpetual
    /\ grant[c].exists /\ ~grant[c].expired
    /\ grant' = [grant EXCEPT ![c].expired = TRUE]
    /\ UNCHANGED <<decision, link, budget, gate, lock>>

\* expires_at of the approval, or of the token once it is issued, passes.
ApprovalExpires(k) ==
    /\ decision[k].approval \in {"pending", "approved"}
    /\ ~decision[k].late /\ ~decision[k].consumed
    /\ decision' = [decision EXCEPT ![k].late = TRUE]
    /\ UNCHANGED <<grant, link, budget, gate, lock>>

BecomeOverdue(k) ==
    /\ decision[k].active /\ ~decision[k].overdue
    /\ decision' = [decision EXCEPT ![k].overdue = TRUE]
    /\ UNCHANGED <<grant, link, budget, gate, lock>>

NewMonth ==
    /\ \E k \in Keys : decision[k].current
    /\ decision' = [k \in Keys |-> [decision[k] EXCEPT !.current = FALSE]]
    /\ UNCHANGED <<grant, link, budget, gate, lock>>

-----------------------------------------------------------------------------

GateStep(g) ==
    \/ \E k \in Keys : GateLock(g, k)
    \/ GateReadTotals(g)
    \/ GateReadGrants(g)
    \/ \E in \in Inputs : GatePersist(g, in)
    \/ GateAbort(g)

Next ==
    \/ \E g \in Gates : GateStep(g)
    \/ \E k \in Keys, m \in Modes, dry \in BOOLEAN : FailSafe(k, m, dry)
    \/ \E k \in Keys : CreateApproval(k)
    \/ \E k \in Keys : Approve(k)
    \/ \E k \in Keys : ApproveExpired(k)
    \/ \E k \in Keys : Deny(k)
    \/ \E k \in Keys : ConsumeToken(k)
    \/ \E k \in Keys, a \in Actuals : Reconcile(k, a)
    \/ Sweep
    \/ \E b \in Budgets : UpsertBudget(b)
    \/ \E c \in Grants : CreateCreditGrant(c)
    \/ \E c \in Grants : GrantExpires(c)
    \/ \E k \in Keys : ApprovalExpires(k)
    \/ \E k \in Keys : BecomeOverdue(k)
    \/ NewMonth

Spec == Init /\ [][Next]_vars

\* Time passes.  Nothing makes anyone call the sweep: its schedule can be switched
\* off (ENFORCEMENT_RECONCILIATION_SWEEP_ENABLED) and, as deployed, its tasks are
\* refused before they queue a job (Dispatch, Autobegun).
Fairness == \A k \in Keys : WF_vars(BecomeOverdue(k))

FairSpec == Spec /\ Fairness

-----------------------------------------------------------------------------
(***************************************************************************)
(* Properties.                                                             *)
(***************************************************************************)

\* Credit is neither lost nor made: what is left of a grant, what active
\* reservations hold of it and what reconciliation consumed of it add up to
\* its total, so no quantum is spent twice (reserve_credit_from_grants,
\* settle_credit_reservations_for_decision).
GrantConserved ==
    \A c \in Grants : grant[c].exists =>
        grant[c].remaining
          + Sum([k \in Keys |-> link[k][c].held + link[k][c].consumed], Keys) = Total[c]

\* The credit on an active decision is exactly what its allocation rows hold,
\* and a decision that is no longer active holds nothing: so a settlement finds
\* its rows and never drifts (the 409s of
\* settle_credit_reservations_for_decision).
CreditIsMapped ==
    \A k \in Keys \ Legacy :
        Drawn(Held(k)) = IF decision[k].active THEN decision[k].credit ELSE 0

\* Credit is accounted for, grant by grant and decision by decision
\* (reserve_credit_for_decision, settle_credit_reservations_for_decision).
CreditAccounted == GrantConserved /\ CreditIsMapped

\* Whatever cost is reported, and whichever of expiry, denial, reconciliation and
\* sweep comes first, the settlement of an active reservation goes through: the
\* 409s for missing rows and for drift are never raised, so no decision spoils
\* the sweep of its tenant's others (settle_credit_reservations_for_decision).
\* Decisions from before allocation rows are exempt: they do raise.
SettlementsSucceed ==
    \A k \in Keys \ Legacy : decision[k].active =>
        \A actual \in Actuals \cup {0} : Settles(k, Clamp(actual - decision[k].alloc))

\* A request that has its answer keeps it, although a gate that timed out, its
\* retry and the fail-safe decision compete for one key: the row is not decided
\* again, a reservation that ended does not come back and one that stands keeps
\* its amounts.  A review has one outcome, and the token of an approval that was
\* denied or has expired is not consumed (evaluate_gate, resolve_fail_safe_gate,
\* consume_approval_token).
DecisionsStand ==
    [][\A k \in Keys : decision[k].type # "absent" =>
         LET old == decision[k]
             new == decision'[k]
         IN  /\ new.type = old.type
             /\ new.active => /\ old.active
                              /\ new.alloc = old.alloc /\ new.credit = old.credit
             /\ old.approval \in {"approved", "denied", "expired"}
                  => new.approval = old.approval
             /\ new.consumed => new.approval = "approved"]_vars

\* The reservations of a month never pass the plan or the enterprise ceiling,
\* however gates, settlements and the turn of the month interleave
\* (evaluate_gate under the policy row's lock).
CeilingsHold ==
    /\ Within(ReservedAllocTotal + ReservedCreditTotal, PlanCeiling)
    /\ Within(ReservedAllocTotal + ReservedCreditTotal, EnterpriseCeiling)

\* A step that reserves allocation leaves the month's total within the budget
\* the reserving gate read ("Concurrent distinct-key gate requests cannot
\* over-reserve shared headroom").
AllocationWithinBudget ==
    [][ReservedAllocTotal' > ReservedAllocTotal
         => \E g \in Gates : /\ gate[g].pc = "ready"
                             /\ Within(ReservedAllocTotal', gate[g].budget)]_vars

\* On the headrooms a gate works out from what it has read, by then perhaps of
\* another month or of grants that have expired since, the waterfall reserves
\* within each headroom and ceiling, lets through only what is funded, and draws
\* on credits after the allocation and on emergency credits last, in every mode
\* (evaluate_entitlement_waterfall as evaluate_gate calls it).
WaterfallSound ==
    \A g \in Gates, mode \in Modes, delta \in Deltas : gate[g].pc = "ready" =>
        /\ WithinHeadrooms(mode, delta, GateHeadrooms(g))
        /\ AllowedIsFunded(mode, delta, GateHeadrooms(g))
        /\ StagesInOrder(mode, delta, GateHeadrooms(g))

\* WF_vars(Sweep), with what enables a sweep written out: there is something overdue
\* and none of it makes the transaction fail.
SweepIsKeptUp ==
    \/ []<>(Overdue = {} \/ \E k \in Overdue : ~Settles(k, 0))
    \/ []<><<Sweep>>_vars

\* If somebody keeps calling reconcile_overdue_reservations while there is
\* something overdue (an operator through POST /reservations/reconcile-overdue, or
\* the scheduled job where it gets queued), every reservation is released in the
\* end: whatever its approval and its gate's retries are doing, time alone makes
\* it the sweep's, and no decision blocks the sweep for the others.
ReservationsEnd ==
    SweepIsKeptUp => \A k \in Keys : decision[k].active ~> ~decision[k].active

-----------------------------------------------------------------------------
(***************************************************************************)
(* The gate implements the credit ledger: an active decision holds what    *)
(* its allocation rows say, any other decided key is closed.               *)
(***************************************************************************)

PhaseOf(d) == CASE d.type = "absent" -> "new"
                [] d.active          -> "open"
                [] OTHER             -> "closed"

CL == INSTANCE CreditLedger WITH
        phase  <- [k \in Keys |-> PhaseOf(decision[k])],
        issued <- {c \in Grants : grant[c].exists},
        left   <- [c \in Grants |-> grant[c].remaining],
        held   <- [k \in Keys |-> [c \in Grants |-> link[k][c].held]],
        spent  <- [k \in Keys |-> [c \in Grants |-> link[k][c].consumed]]

\* Every step of the gates, reviewers, reconciliation and the sweep is a step of
\* the ledger or invisible to it: a key holds credit once, and its hold is closed
\* once, whichever of approval expiry, denial, reconciliation and sweep comes
\* first; the ones that come after it give nothing back, and an expired grant
\* still gets its own credit back (settle_credit_reservations_for_decision).
ImplementsCreditLedger == CL!Spec

=============================================================================
