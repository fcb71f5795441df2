------------------------------ MODULE LLMBudget ------------------------------
(***************************************************************************)
(* The LLM budget of one tenant: quota and fair-use guards, the estimated  *)
(* cost reserved before a call, the actual cost recorded after it, and the *)
(* alert at a share of the limit.                                          *)
(*                                                                         *)
(* check_and_reserve flushes without committing, so the row lock it takes  *)
(* is held while the provider is called, until record_usage commits or the *)
(* session is rolled back.  The unit of work writes the columns that       *)
(* differ from the session's copy (mem); txn is the row as the open        *)
(* transaction has written it.  A zombie analysis reads its provider       *)
(* settings from the same row before it takes the lock, and keeps that     *)
(* copy; a cost analysis first sees the row under the lock.                *)
(*                                                                         *)
(* Amounts are small integers.  The in-flight counter lives in Redis, with *)
(* a counter of the process as the fallback.                               *)
(***************************************************************************)
EXTENDS Integers, FiniteSets, FiniteSetsExt

CONSTANTS
    Sessions,       \* concurrent analyses
    Estimates,      \* amounts an analysis may reserve
    Costs,          \* what its tokens may turn out to cost
    Limits,         \* monthly_limit_usd an admin may set
    AlertPercent,   \* alert_threshold_percent
    HardLimit,      \* hard_limit
    DailyLimit,     \* llm_analyses_per_day of the tier
    Cap,            \* LLM_FAIR_USE_PER_TENANT_CONCURRENCY_CAP
    Catching,       \* sessions whose caller catches an error and goes on
    MaxMonth,       \* bound: months
    MaxCalls,       \* bound: analyses and changes of the limit
    MaxFaults,      \* bound: Redis errors, failed records, crashes
    Nobody

ASSUME LLMBudgetAssumption ==
    /\ Estimates \subseteq Nat \ {0} /\ Costs \subseteq Nat /\ Limits \subseteq Nat
    /\ IsFiniteSet(Sessions) /\ IsFiniteSet(Limits) /\ Limits # {}
    /\ AlertPercent \in 0..100 /\ HardLimit \in BOOLEAN
    /\ DailyLimit \in Nat \ {0} /\ Cap \in Nat \ {0}
    /\ MaxMonth \in Nat \ {0} /\ MaxCalls \in Nat /\ MaxFaults \in Nat
    /\ Catching \subseteq Sessions
    /\ Nobody \notin Sessions

VARIABLES
    budget,    \* the committed row of llm_budgets
    lock,      \* the session that holds its row lock, or Nobody
    ses,       \* ses[s]: the analysis session s is running
    slots,     \* the in-flight counter in Redis
    local,     \* the in-flight counter of the process
    flags,     \* the cached flags budget_blocked and budget_soft
    month,     \* the current month
    today,     \* committed usage rows of today
    usage,     \* their cost in this month
    calls,
    faults,
    hist       \* what the properties need to remember

vars == <<budget, lock, ses, slots, local, flags, month, today, usage, calls, faults, hist>>

Months == 1..MaxMonth

Flags == {"blocked", "soft"}

Row == [limit : Limits, spend : Nat, pending : Nat, month : Months,
        alerted : 0..MaxMonth]      \* month of alert_sent_at

FirstRow == [limit |-> Max(Limits), spend |-> 0, pending |-> 0, month |-> 1, alerted |-> 0]

Idle == [step |-> "idle", zombie |-> FALSE, mem |-> FirstRow, txn |-> FirstRow, est |-> 0]

\* Steps in which an analysis has counted itself in the in-flight counter.
Counted == {"overflow", "reserve", "check", "call", "alert", "release"}

Session == [step : {"idle", "quota", "slot", "zero"} \cup Counted, zombie : BOOLEAN,
            mem : Row, txn : Row, est : Estimates \cup {0}]

History == [leaked    : Nat,        \* slots of analyses that ended without release
            unmatched : BOOLEAN,    \* a release may have met another's slot
            outdated  : BOOLEAN,    \* the row was written from an old copy
            cost      : Nat,        \* recorded in the budget's month
            over      : Nat,        \* recorded beyond the estimates, likewise
            unsent    : BOOLEAN]    \* an alert may have been lost

\* The budget row, the counters and the sessions have their types: no reservation
\* is taken back below zero.
TypeOK ==
    /\ budget \in Row
    /\ lock \in Sessions \cup {Nobody}
    /\ ses \in [Sessions -> Session]
    /\ slots \in Int
    /\ local \in 0..Cap
    /\ flags \in SUBSET Flags
    /\ month \in Months
    /\ today \in Nat /\ usage \in Nat
    /\ calls \in 0..MaxCalls /\ faults \in 0..MaxFaults
    /\ hist \in History

Init ==
    /\ budget = FirstRow
    /\ lock = Nobody
    /\ ses = [s \in Sessions |-> Idle]
    /\ slots = 0
    /\ local = 0
    /\ flags = {}
    /\ month = 1
    /\ today = 0 /\ usage = 0
    /\ calls = 0 /\ faults = 0
    /\ hist = [leaked |-> 0, unmatched |-> FALSE, outdated |-> FALSE, cost |-> 0,
               over |-> 0, unsent |-> FALSE]

Flush(row, mem, new) == [c \in DOMAIN row |-> IF new[c] = mem[c] THEN row[c] ELSE new[c]]

Goto(s, step) == ses' = [ses EXCEPT ![s].step = step]

\* Only the release of the slot is left to do.
Finish(s) == ses' = [ses EXCEPT ![s] = [Idle EXCEPT !.step = "release"]]

\* What is not needed any more once its property is exempt is forgotten.
Note(h) ==
    hist' = [h EXCEPT !.cost = IF h.outdated THEN 0 ELSE @, !.over = IF h.outdated THEN 0 ELSE @,
                      !.leaked = IF h.unmatched THEN 0 ELSE @]

Close(s) == ses' = [ses EXCEPT ![s] = Idle]

Fault == faults < MaxFaults /\ faults' = faults + 1

money == <<budget, lock, flags, month, today, usage>>
fairUse == <<slots, local>>

-----------------------------------------------------------------------------
(***************************************************************************)
(* Guards before the reservation.                                          *)
(***************************************************************************)

\* An analysis begins; a zombie analysis loads the budget row right away.
Begin(s, zombie) ==
    /\ ses[s] = Idle
    /\ calls < MaxCalls
    /\ calls' = calls + 1
    /\ ses' = [ses EXCEPT ![s] = [Idle EXCEPT !.step = "quota", !.zombie = zombie,
                                  !.mem = IF zombie THEN budget ELSE FirstRow]]
    /\ UNCHANGED <<money, fairUse, faults, hist>>

\* Committed rows only: an analysis that is under way is not counted.
QuotaLeft == today < DailyLimit

\* _enforce_daily_analysis_limit, enforce_global_abuse_guard and the daily and
\* per-minute caps of enforce_fair_use_guards; the limits of other scopes may
\* refuse an analysis at any time.
CheckQuota(s) ==
    /\ ses[s].step = "quota"
    /\ \/ QuotaLeft /\ Goto(s, "slot")
       \/ Close(s)
    /\ UNCHANGED <<money, fairUse, calls, faults, hist>>

\* acquire_fair_use_inflight_slot: INCR, then DECR if that was too much.
AcquireSlot(s) ==
    /\ ses[s].step = "slot"
    /\ slots' = slots + 1
    /\ Goto(s, IF slots + 1 > Cap THEN "overflow" ELSE "reserve")
    /\ UNCHANGED <<money, local, calls, faults, hist>>

\* Mutant of UndoAcquire: the increment that was refused is kept.
UndoAcquireKeeping(s) ==
    /\ ses[s].step = "overflow"
    /\ Close(s)
    /\ UNCHANGED <<money, fairUse, calls, faults, hist>>

UndoAcquire(s) ==
    /\ ses[s].step = "overflow"
    /\ slots' = slots - 1
    /\ Close(s)
    /\ UNCHANGED <<money, local, calls, faults, hist>>

\* Redis fails, before or after it has counted: the process counts by itself.
AcquireLocally(s) ==
    /\ Fault
    /\ ses[s].step \in {"slot", "overflow"}
    /\ Note([hist EXCEPT !.unmatched = TRUE])
    /\ IF local < Cap THEN local' = local + 1 /\ Goto(s, "reserve")
                      ELSE local' = local /\ Close(s)
    /\ slots' \in {slots, slots + (IF ses[s].step = "slot" THEN 1 ELSE -1)}
    /\ UNCHANGED <<money, calls>>

-----------------------------------------------------------------------------
(***************************************************************************)
(* Reservation.                                                            *)
(***************************************************************************)

\* A new month starts from zero.
MonthReset(row) ==
    IF row.month = month THEN row
    ELSE [row EXCEPT !.spend = 0, !.pending = 0, !.month = month]

\* Mutant of Affordable: what is pending is not counted.
AffordableIgnoringPending(row, est) == est <= row.limit - row.spend

Affordable(row, est) == est <= row.limit - (row.spend + row.pending)

\* check_and_reserve_budget from SELECT ... FOR UPDATE on.  A refusal gives the
\* slot back and ends the transaction.
Reserve(s, est) ==
    LET mem == IF ses[s].zombie THEN ses[s].mem ELSE budget
        now == MonthReset(mem)
        new == [now EXCEPT !.pending = @ + est]
    IN
    /\ ses[s].step = "reserve"
    /\ lock = Nobody
    /\ IF Affordable(now, est)
         THEN /\ lock' = s
              /\ ses' = [ses EXCEPT ![s] = [@ EXCEPT !.mem = new, !.txn = Flush(budget, mem, new),
                           !.est = est, !.step = IF ses[s].zombie THEN "call" ELSE "check"]]
              /\ Note([hist EXCEPT !.outdated = @ \/ mem # budget])
         ELSE Finish(s) /\ UNCHANGED <<lock, hist>>
    /\ UNCHANGED <<budget, flags, month, today, usage, fairUse, calls, faults>>

\* The caller lets the error through: the transaction is rolled back and nobody
\* gives the slot back.
Abandon(s) ==
    /\ lock' = IF lock = s THEN Nobody ELSE lock
    /\ Note([hist EXCEPT !.leaked = @ + 1])
    /\ Close(s)

Exhausted(row) == row.spend + row.pending >= row.limit

\* The share of the limit at which check_budget answers SOFT_LIMIT and says so in
\* the cache.
Nearly(row) == /\ ~Exhausted(row)
               /\ (row.spend + row.pending) * 100 >= row.limit * AlertPercent

\* check_budget, which a cost analysis asks once it has reserved: the cached
\* flags, then the row with its own reservation.  While budget_soft is cached the
\* row is not looked at.
CheckBudget(s) ==
    LET row == ses[s].mem
        refused == \/ "blocked" \in flags
                   \/ "soft" \notin flags /\ Exhausted(row) /\ HardLimit
    IN
    /\ ses[s].step = "check"
    /\ IF refused
         THEN flags' = flags \cup {"blocked"} /\ Abandon(s)
         ELSE /\ flags' = IF Nearly(row) THEN flags \cup {"soft"} ELSE flags
              /\ Goto(s, "call")
              /\ UNCHANGED <<lock, hist>>
    /\ UNCHANGED <<budget, month, today, usage, fairUse, calls, faults>>

-----------------------------------------------------------------------------
(***************************************************************************)
(* The call and its record.                                                *)
(***************************************************************************)

\* The cached flag cannot be read, or the provider and its fallbacks fail, or the
\* answer cannot be prepared.
CallFails(s) ==
    /\ ses[s].step \in {"check", "call"}
    /\ Abandon(s)
    /\ UNCHANGED <<budget, flags, month, today, usage, fairUse, calls, faults>>

\* The same where the caller catches the error and goes on with the session: no
\* rollback, and the next commit of that session keeps the reservation.
CallFailsCaught(s) ==
    LET reset == ses[s].txn.month # budget.month IN
    /\ s \in Catching
    /\ ses[s].step \in {"check", "call"}
    /\ budget' = ses[s].txn
    /\ lock' = Nobody
    /\ Note([hist EXCEPT !.leaked = @ + 1, !.cost = IF reset THEN 0 ELSE @,
                         !.over = IF reset THEN 0 ELSE @])
    /\ Close(s)
    /\ UNCHANGED <<flags, month, today, usage, fairUse, calls, faults>>

\* Mutant of Monus: the difference is not clamped.
MonusUnclamped(a, b) == a - b

\* What is left never falls below zero.
Monus(a, b) == IF a > b THEN a - b ELSE 0

\* record_usage_entry up to its commit.  The reservation is taken back by the
\* estimate for the tokens that were really used; with a key of the tenant's own
\* nothing is charged.
RecordUsage(s, tokens, byok) ==
    LET mem == ses[s].mem
        cost == IF byok THEN 0 ELSE tokens
        new == [mem EXCEPT !.pending = Monus(@, tokens), !.spend = @ + cost]
        row == Flush(ses[s].txn, mem, new)
        reset == row.month # budget.month
    IN
    /\ ses[s].step = "call"
    /\ budget' = row
    /\ lock' = Nobody
    /\ today' = today + 1
    /\ usage' = usage + cost
    /\ ses' = [ses EXCEPT ![s] = [Idle EXCEPT !.step = "alert", !.mem = new]]
    /\ Note([hist EXCEPT !.cost = cost + IF reset THEN 0 ELSE @,
                            !.over = Monus(cost, ses[s].est) + IF reset THEN 0 ELSE @])
    /\ UNCHANGED <<flags, month, fairUse, calls, faults>>

\* Any recoverable error, in the record or in the alert: rolled back and only
\* logged.
RecordFails(s) ==
    /\ Fault
    /\ ses[s].step \in {"call", "alert"}
    /\ lock' = IF lock = s THEN Nobody ELSE lock
    /\ Note([hist EXCEPT !.unsent = @ \/ ses[s].step = "alert"])
    /\ Finish(s)
    /\ UNCHANGED <<budget, flags, month, today, usage, fairUse, calls>>

\* Mutant of Alerting: the alert is sent only when the threshold is passed.
AlertingAbove(row) ==
    /\ usage * 100 > row.limit * AlertPercent
    /\ row.alerted # month

\* The share of the limit is reached (a limit of zero counts as no usage).
Alerting(row) ==
    /\ row.limit > 0 \/ AlertPercent = 0
    /\ usage * 100 >= row.limit * AlertPercent
    /\ row.alerted # month

\* check_budget_and_alert, in a transaction of its own, on the session's copy of
\* the row.
CheckAlert(s) ==
    /\ ses[s].step = "alert"
    /\ IF Alerting(ses[s].mem)
         THEN lock = Nobody /\ budget' = [budget EXCEPT !.alerted = month]
         ELSE UNCHANGED budget
    /\ Finish(s)
    /\ UNCHANGED <<lock, flags, month, today, usage, fairUse, calls, faults, hist>>

\* release_fair_use_inflight_slot: DECR; a negative counter is set to zero.
Release(s) ==
    /\ ses[s].step = "release"
    /\ slots' = slots - 1
    /\ IF slots - 1 < 0 THEN Goto(s, "zero") ELSE Close(s)
    /\ UNCHANGED <<money, local, calls, faults, hist>>

ZeroSlots(s) ==
    /\ ses[s].step = "zero"
    /\ slots' = 0
    /\ Close(s)
    /\ UNCHANGED <<money, local, calls, faults, hist>>

ReleaseLocally(s) ==
    /\ Fault
    /\ ses[s].step \in {"release", "zero"}
    /\ slots' \in {slots, IF ses[s].step = "release" THEN slots - 1 ELSE 0}
    /\ local' = Monus(local, 1)
    /\ Note([hist EXCEPT !.unmatched = TRUE])
    /\ Close(s)
    /\ UNCHANGED <<money, calls>>

-----------------------------------------------------------------------------
(***************************************************************************)
(* Settings, clocks and crashes.                                           *)
(***************************************************************************)

\* update_llm_settings: the UPDATE waits for the row lock.
SetLimit(limit) ==
    /\ lock = Nobody
    /\ limit # budget.limit
    /\ calls < MaxCalls
    /\ calls' = calls + 1
    /\ budget' = [budget EXCEPT !.limit = limit]
    /\ UNCHANGED <<lock, ses, fairUse, flags, month, today, usage, faults, hist>>

\* The in-flight key is not renewed for the lease time.
SlotsExpire ==
    /\ slots # 0
    /\ slots' = 0
    /\ Note([hist EXCEPT !.leaked = 0,
                  !.unmatched = @ \/ \E s \in Sessions : ses[s].step \in Counted \cup {"zero"}])
    /\ UNCHANGED <<money, local, ses, calls, faults>>

\* The flags live for ten and for five minutes.
FlagExpires(f) ==
    /\ f \in flags
    /\ flags' = flags \ {f}
    /\ UNCHANGED <<budget, lock, ses, fairUse, month, today, usage, calls, faults, hist>>

NextDay ==
    /\ today > 0
    /\ today' = 0
    /\ UNCHANGED <<budget, lock, ses, fairUse, flags, month, usage, calls, faults, hist>>

NextMonth ==
    /\ month < MaxMonth
    /\ month' = month + 1
    /\ today' = 0 /\ usage' = 0
    /\ UNCHANGED <<budget, lock, ses, fairUse, flags, calls, faults, hist>>

\* The process dies: its transaction is rolled back.
Crash(s) ==
    /\ Fault
    /\ ses[s].step # "idle"
    /\ lock' = IF lock = s THEN Nobody ELSE lock
    /\ Note([hist EXCEPT !.leaked = @ + (IF ses[s].step \in Counted THEN 1 ELSE 0),
                            !.unsent = @ \/ ses[s].step = "alert"])
    /\ Close(s)
    /\ UNCHANGED <<budget, flags, month, today, usage, fairUse, calls>>

Next ==
    \/ \E s \in Sessions, zombie \in BOOLEAN : Begin(s, zombie)
    \/ \E s \in Sessions : CheckQuota(s)
    \/ \E s \in Sessions : AcquireSlot(s)
    \/ \E s \in Sessions : UndoAcquire(s)
    \/ \E s \in Sessions : AcquireLocally(s)
    \/ \E s \in Sessions, est \in Estimates : Reserve(s, est)
    \/ \E s \in Sessions : CheckBudget(s)
    \/ \E s \in Sessions : CallFails(s)
    \/ \E s \in Sessions : CallFailsCaught(s)
    \/ \E s \in Sessions, tokens \in Costs, byok \in BOOLEAN : RecordUsage(s, tokens, byok)
    \/ \E s \in Sessions : RecordFails(s)
    \/ \E s \in Sessions : CheckAlert(s)
    \/ \E s \in Sessions : Release(s)
    \/ \E s \in Sessions : ZeroSlots(s)
    \/ \E s \in Sessions : ReleaseLocally(s)
    \/ \E limit \in Limits : SetLimit(limit)
    \/ SlotsExpire
    \/ \E f \in Flags : FlagExpires(f)
    \/ NextDay
    \/ NextMonth
    \/ \E s \in Sessions : Crash(s)

Spec == Init /\ [][Next]_vars

-----------------------------------------------------------------------------
(***************************************************************************)
(* Properties.                                                             *)
(***************************************************************************)

\* What is spent and reserved stays within the largest limit that was set, apart
\* from calls that cost more than their estimate; a month that turns during a
\* call, an admin who changes the limit and failed calls do not open a gap.
\* Analyses that write from an outdated copy of the row are exempt.
OverspendBounded ==
    budget.spend + budget.pending <= Max(Limits) + hist.over \/ hist.outdated

\* The spend the limit is compared with is the cost of the calls recorded since
\* the last reset, unless an update was lost to a zombie analysis that had
\* loaded the row before it waited for the lock.
SpendIsRecorded ==
    budget.spend = hist.cost \/ hist.outdated

\* The money is accounted for: what is spent is known and within bounds
\* (check_and_reserve_budget, record_usage_entry).
MoneyAccounted == OverspendBounded /\ SpendIsRecorded

\* The daily quota is counted without a lock: it is exceeded by no more than the
\* other analyses that were under way.
QuotaOverrunBounded ==
    today <= DailyLimit + Cardinality(Sessions) - 1

\* The in-flight counter counts the analyses that are under way and those that
\* ended without a release (a failed call, a refusal by check_budget, a crash),
\* unless the key expired under a running analysis or Redis failed in between.
SlotsAccounted ==
    hist.unmatched
        \/ slots = hist.leaked + Cardinality({s \in Sessions : ses[s].step \in Counted})

\* The analyses are accounted for: per day and at a time
\* (enforce_daily_analysis_limit, acquire_fair_use_inflight_slot).
AnalysesAccounted == QuotaOverrunBounded /\ SlotsAccounted

\* Usage that reaches the alert threshold does not go unreported: when nobody is
\* about to check it, the alert of the month has been sent.  The copies of the
\* row on which it is decided may be old.
ThresholdReported ==
    (usage > 0 /\ usage * 100 >= Max(Limits) * AlertPercent)
        => \/ budget.alerted = month
           \/ \E s \in Sessions : ses[s].step = "alert"
           \/ hist.unsent

\* "pending_reservations_usd: In-flight reservations to prevent double-spending":
\* nothing is reserved when no analysis is under way.
PendingIsInFlight ==
    (\A s \in Sessions : ses[s].step = "idle") => budget.pending = 0

=============================================================================
