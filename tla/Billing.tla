------------------------------- MODULE Billing -------------------------------
(***************************************************************************)
(* The subscription of one tenant: checkout, Paystack webhooks stored as   *)
(* deduplicated jobs, the daily renewal sweep, and dunning (retries after  *)
(* a failed payment, downgrade to FREE when they are exhausted).           *)
(*                                                                         *)
(* No billing transaction locks the subscription.  A handler loads the     *)
(* row, may call Paystack, and writes the columns in which its copy has    *)
(* changed; the tenant's plan is written by a direct UPDATE.  A session of *)
(* the model carries that copy (mem).                                      *)
(*                                                                         *)
(* Prices, currencies and references are left out.  Dates are reduced to   *)
(* the comparisons made on them: whether next_payment_date has come (due)  *)
(* and whether last_dunning_at lies within the webhook debounce (recent).  *)
(***************************************************************************)
EXTENDS Integers, FiniteSets

CONSTANTS
    Sessions,         \* job processor sessions
    Webhooks,         \* events Paystack sends, each any number of times
    Kind,             \* their event type
    Tiered,           \* the charges of a checkout, whose metadata names a tier
    DunningMax,       \* DUNNING_MAX_ATTEMPTS
    MaxRetries,       \* bound: queued dunning jobs
    MaxRenewals,      \* bound: days on which the sweep queues a renewal
    MaxFaults,        \* bound: aborted and lost handler runs
    NoEvent

Kinds == {"charge.success", "subscription.create", "subscription.disable",
          "invoice.payment_failed"}

ASSUME BillingAssumption ==
    /\ IsFiniteSet(Sessions)
    /\ Kind \in [Webhooks -> Kinds]
    /\ Tiered \subseteq Webhooks
    /\ DunningMax \in Nat \ {0}
    /\ MaxRetries \in Nat \ {0} /\ MaxRenewals \in Nat /\ MaxFaults \in Nat
    /\ NoEvent \notin Webhooks

VARIABLES
    sub,       \* the row of tenant_subscriptions
    plan,      \* Tenant.plan, which entitlements are read from
    hook,      \* hook[e]: state of the WEBHOOK_RETRY job that stores e
    retries,   \* DUNNING jobs: waiting for their day, and due
    renewals,  \* RECURRING_BILLING jobs: queued, and ever created
    ses,       \* ses[s]: the handler session s is running
    faults,
    hist       \* what the properties need to remember

vars == <<sub, plan, hook, retries, renewals, ses, faults, hist>>

Tiers == {"free", "paid"}

Row == [status : {"absent", "active", "attention", "cancelled"}, tier : Tiers,
        auth : BOOLEAN, code : BOOLEAN, customer : BOOLEAN,
        attempts : Nat, recent : BOOLEAN, due : BOOLEAN]

NoRow == [status |-> "absent", tier |-> "free", auth |-> FALSE, code |-> FALSE,
          customer |-> FALSE, attempts |-> 0, recent |-> FALSE, due |-> FALSE]

\* webhook, dunning, renewal: the handler has loaded the row; recover: the
\* retried charge is committed and the dunning state not yet cleared.
Session == [step : {"idle", "webhook", "dunning", "renewal", "recover"},
            e : Webhooks \cup {NoEvent}, mem : Row]

Idle == [step |-> "idle", e |-> NoEvent, mem |-> NoRow]

History == [done     : [Webhooks -> 0..2],     \* runs that completed, saturating
            paid     : BOOLEAN,               \* a payment has arrived
            renewed  : BOOLEAN,               \* Paystack has charged the stored card
            failed   : 0..DunningMax,         \* payments failed since dunning was cleared
            outdated : BOOLEAN,               \* a write was decided on an old copy
            repeated : BOOLEAN,               \* a webhook's run was aborted after its commit
            lost     : BOOLEAN]               \* a retry was lost or could not be queued

\* The subscription, the plan, the jobs and the sessions have their types.
TypeOK ==
    /\ sub \in Row
    /\ plan \in Tiers
    /\ hook \in [Webhooks -> {"absent", "queued", "running", "completed", "lost"}]
    /\ retries \in [waiting : 0..MaxRetries, due : 0..(MaxRetries + MaxFaults)]
    /\ renewals \in [queued : 0..MaxRenewals, created : 0..MaxRenewals]
    /\ ses \in [Sessions -> Session]
    /\ faults \in 0..MaxFaults
    /\ hist \in History

\* What its property does not ask any more, once a write was decided on an old
\* copy, is forgotten.
Note(h) ==
    hist' = IF h.outdated
              THEN [h EXCEPT !.failed = 0, !.repeated = FALSE, !.lost = FALSE] ELSE h

Init ==
    /\ sub = NoRow
    /\ plan = "free"
    /\ hook = [e \in Webhooks |-> "absent"]
    /\ retries = [waiting |-> 0, due |-> 0]
    /\ renewals = [queued |-> 0, created |-> 0]
    /\ ses = [s \in Sessions |-> Idle]
    /\ faults = 0
    /\ hist = [done |-> [e \in Webhooks |-> 0], paid |-> FALSE, renewed |-> FALSE,
               failed |-> 0, outdated |-> FALSE, repeated |-> FALSE, lost |-> FALSE]

-----------------------------------------------------------------------------
(***************************************************************************)
(* The clock, the customer and Paystack.                                   *)
(***************************************************************************)

\* next_payment_date comes, which matters to the sweep alone.
DueDateComes ==
    /\ sub.code /\ ~sub.due
    /\ renewals.created < MaxRenewals
    /\ sub' = [sub EXCEPT !.due = TRUE]
    /\ UNCHANGED <<plan, hook, retries, renewals, ses, faults, hist>>

\* The debounce interval after last_dunning_at passes.
DebounceEnds ==
    /\ sub.recent
    /\ sub' = [sub EXCEPT !.recent = FALSE]
    /\ UNCHANGED <<plan, hook, retries, renewals, ses, faults, hist>>

\* The retry day of a dunning job comes, or the stuck-job detector, which takes
\* an hour, fails the job before.
RetryDayComes ==
    /\ retries.waiting > 0
    /\ \/ retries' = [retries EXCEPT !.waiting = @ - 1, !.due = @ + 1] /\ UNCHANGED hist
       \/ retries' = [retries EXCEPT !.waiting = @ - 1] /\ Note([hist EXCEPT !.lost = TRUE])
    /\ UNCHANGED <<sub, plan, hook, renewals, ses, faults>>

\* create_checkout_session: the first checkout creates the row, with the tier
\* asked for and the default status.
Checkout ==
    /\ sub.status = "absent"
    /\ sub' = [NoRow EXCEPT !.status = "active", !.tier = "paid"]
    /\ UNCHANGED <<plan, hook, retries, renewals, ses, faults, hist>>

\* cancel_subscription: disabled at Paystack, then CANCELLED.
CancelSubscription ==
    /\ sub.code
    /\ sub' = [sub EXCEPT !.status = "cancelled"]
    /\ UNCHANGED <<plan, hook, retries, renewals, ses, faults, hist>>

\* Paystack delivers e, for the first time or again, in any order; store_webhook
\* queues a job unless one has the key already.  A charge without a tier is a
\* charge of the stored card.
DeliverWebhook(e) ==
    /\ hook[e] = "absent"
    /\ Kind[e] = "charge.success" => e \in Tiered \/ hist.renewed
    /\ hook' = [hook EXCEPT ![e] = "queued"]
    /\ UNCHANGED <<sub, plan, retries, renewals, ses, faults, hist>>

-----------------------------------------------------------------------------
(***************************************************************************)
(* Handlers.                                                               *)
(***************************************************************************)

\* The unit of work: only the columns that differ from the copy are written.
Flush(mem, new) == [c \in DOMAIN sub |-> IF new[c] = mem[c] THEN sub[c] ELSE new[c]]

Outdated(s) == sub # ses[s].mem

Start(s, step, e) ==
    /\ ses[s] = Idle
    /\ ses' = [ses EXCEPT ![s] = [step |-> step, e |-> e, mem |-> sub]]

Close(s) == ses' = [ses EXCEPT ![s] = Idle]

\* Mutant of StartWebhook: a stored webhook is processed whatever its state.
StartWebhookAgain(s, e) ==
    /\ hook[e] \in {"queued", "completed"}
    /\ hook' = [hook EXCEPT ![e] = "running"]
    /\ Start(s, "webhook", e)
    /\ UNCHANGED <<sub, plan, retries, renewals, faults, hist>>

StartWebhook(s, e) ==
    /\ hook[e] = "queued"
    /\ hook' = [hook EXCEPT ![e] = "running"]
    /\ Start(s, "webhook", e)
    /\ UNCHANGED <<sub, plan, retries, renewals, faults, hist>>

\* Mutant of StartDunning: a retry is run that is no longer queued.
StartDunningUnclaimed(s) ==
    /\ sub.status # "absent"
    /\ retries' = [retries EXCEPT !.due = @ - 1]
    /\ Start(s, "dunning", NoEvent)
    /\ UNCHANGED <<sub, plan, hook, renewals, faults, hist>>

\* DunningHandler.
StartDunning(s) ==
    /\ retries.due > 0
    /\ sub.status # "absent"
    /\ retries' = [retries EXCEPT !.due = @ - 1]
    /\ Start(s, "dunning", NoEvent)
    /\ UNCHANGED <<sub, plan, hook, renewals, faults, hist>>

\* billing_sweep_logic: at most one renewal job a day.
BillingSweep ==
    /\ sub.status = "active" /\ sub.due /\ sub.auth
    /\ renewals.created < MaxRenewals
    /\ renewals' = [queued |-> renewals.queued + 1, created |-> renewals.created + 1]
    /\ UNCHANGED <<sub, plan, hook, retries, ses, faults, hist>>

\* RecurringBillingHandler: only an active subscription is charged.
StartRenewal(s) ==
    /\ renewals.queued > 0
    /\ renewals' = [renewals EXCEPT !.queued = @ - 1]
    /\ IF sub.status = "active" THEN Start(s, "renewal", NoEvent)
       ELSE ses[s] = Idle /\ UNCHANGED ses
    /\ UNCHANGED <<sub, plan, hook, retries, faults, hist>>

\* A write of session s; h: what happened.
Write(s, new, h) ==
    /\ sub' = Flush(ses[s].mem, new)
    /\ Note([h EXCEPT !.outdated = @ \/ Outdated(s)])

Fault == faults < MaxFaults /\ faults' = faults + 1

\* The handlers commit by themselves.  The processor then completes the job, or
\* the run is aborted first and the job queued again (again is 1).
Ends(again) == \/ again = 0 /\ UNCHANGED faults
               \/ again = 1 /\ Fault

Paid(h) == [h EXCEPT !.paid = TRUE]

Renewed(h) == [Paid(h) EXCEPT !.renewed = TRUE]

\* Mutant of FinalFailure: only the status is changed.
FinalFailureKeepsTier(s, mem, h, again) ==
    /\ Write(s, [mem EXCEPT !.status = "cancelled"], h)
    /\ plan' = "free"
    /\ retries' = [retries EXCEPT !.due = @ + again]

\* _handle_final_failure: CANCELLED and FREE, the plan too, in one commit.
FinalFailure(s, mem, h, again) ==
    /\ Write(s, [mem EXCEPT !.status = "cancelled", !.tier = "free"], h)
    /\ plan' = "free"
    /\ retries' = [retries EXCEPT !.due = @ + again]

\* Mutant of ScheduleRetry: the state is committed before the job is queued.
ScheduleRetryUnqueued(s, mem, h, again) ==
    /\ Write(s, [mem EXCEPT !.status = "attention"], h)
    /\ retries' = [retries EXCEPT !.due = @ + again]
    /\ UNCHANGED plan

\* enqueue_job commits the dunning state and the job together.  If it fails
\* (with SQLAlchemy's default JSON encoder it does, for the payload holds a UUID
\* object) the state is put back and rolled back, to ATTENTION if this was not
\* the first failure.
ScheduleRetry(s, mem, h, again) ==
    \/ /\ retries.waiting + retries.due < MaxRetries
       /\ Write(s, [mem EXCEPT !.status = "attention"], h)
       /\ retries' = [retries EXCEPT !.waiting = @ + 1, !.due = @ + again]
       /\ UNCHANGED plan
    \/ /\ Note([h EXCEPT !.lost = @ \/ sub.status = "attention"])
       /\ retries' = [retries EXCEPT !.due = @ + again]
       /\ UNCHANGED <<sub, plan>>

\* Mutant of Exhausted: off by one.
ExhaustedEarly(attempts) == attempts + 1 >= DunningMax

Exhausted(attempts) == attempts >= DunningMax

\* process_failed_payment: a webhook within the debounce interval is ignored, a
\* retry of our own is not.
FailedPayment(s, isWebhook, h, again) ==
    LET mem == ses[s].mem
        counted == [mem EXCEPT !.attempts = @ + 1, !.recent = TRUE]
        noted == [h EXCEPT !.failed = IF @ = DunningMax THEN @ ELSE @ + 1]
    IN
    IF isWebhook /\ mem.recent
      THEN Note(h) /\ UNCHANGED <<sub, plan, retries>>
      ELSE IF Exhausted(counted.attempts)
             THEN FinalFailure(s, counted, noted, again)
             ELSE ScheduleRetry(s, counted, noted, again)

\* _handle_charge_success: creates the row if there is none.  The metadata of a
\* checkout names a tier, that of a renewal does not.
ChargeSuccess(s, h) ==
    LET mem == ses[s].mem
        tiered == ses[s].e \in Tiered
        new == [mem EXCEPT !.status = "active", !.auth = TRUE, !.customer = TRUE,
                           !.tier = IF tiered THEN "paid" ELSE @]
    IN
    /\ Write(s, new, Paid(h))
    /\ plan' = IF tiered THEN "paid" ELSE plan
    /\ UNCHANGED retries

\* _handle_subscription_create finds the row by customer code: before the
\* charge has been processed there is none, and the event is dropped.
SubscriptionCreate(s, h) ==
    /\ IF ses[s].mem.customer
         THEN Write(s, [ses[s].mem EXCEPT !.status = "active", !.code = TRUE, !.due = FALSE], h)
         ELSE Note(h) /\ UNCHANGED sub
    /\ UNCHANGED <<plan, retries>>

\* _handle_subscription_disable finds it by subscription code.
SubscriptionDisable(s, h) ==
    /\ IF ses[s].mem.code
         THEN Write(s, [ses[s].mem EXCEPT !.status = "cancelled"], h)
         ELSE Note(h) /\ UNCHANGED sub
    /\ UNCHANGED <<plan, retries>>

InvoiceFailed(s, h) ==
    IF ses[s].mem.code THEN FailedPayment(s, TRUE, h, 0)
    ELSE Note(h) /\ UNCHANGED <<sub, plan, retries>>

\* The handler of a stored webhook.
HandleWebhook(s) ==
    LET e == ses[s].e
        h == [hist EXCEPT !.done[e] = IF @ = 2 THEN 2 ELSE @ + 1]
        Handle(g) == CASE Kind[e] = "charge.success"         -> ChargeSuccess(s, g)
                       [] Kind[e] = "subscription.create"    -> SubscriptionCreate(s, g)
                       [] Kind[e] = "subscription.disable"   -> SubscriptionDisable(s, g)
                       [] Kind[e] = "invoice.payment_failed" -> InvoiceFailed(s, g)
    IN
    /\ ses[s].step = "webhook"
    /\ ses[s].mem.status = "absent" => sub.status = "absent"
    /\ \/ hook' = [hook EXCEPT ![e] = "completed"] /\ Handle(h) /\ UNCHANGED faults
       \/ /\ Fault
          /\ hook' = [hook EXCEPT ![e] = "queued"]
          /\ Handle([hist EXCEPT !.repeated = TRUE])
    /\ Close(s)
    /\ UNCHANGED renewals

\* A charge that found no row does not get its insert through once there is
\* one (tenant_id is unique): the job is queued again.
InsertConflict(s) ==
    /\ ses[s].step = "webhook"
    /\ ses[s].mem.status = "absent" /\ sub.status # "absent"
    /\ hook' = [hook EXCEPT ![ses[s].e] = "queued"]
    /\ Close(s)
    /\ UNCHANGED <<sub, plan, retries, renewals, faults, hist>>

\* retry_payment when Paystack charges the card: charge_renewal commits the next
\* payment date by itself.  The status is not looked at.
RetryCharged(s) ==
    LET new == [ses[s].mem EXCEPT !.due = FALSE] IN
    /\ ses[s].step = "dunning"
    /\ ses[s].mem.auth
    /\ Write(s, new, Renewed(hist))
    /\ ses' = [ses EXCEPT ![s].step = "recover", ![s].mem = new]
    /\ UNCHANGED <<plan, hook, retries, renewals, faults>>

Cleared(h) == [h EXCEPT !.failed = 0]

\* _handle_retry_success: dunning is cleared and the plan set to the tier.
RetryRecovers(s) ==
    /\ ses[s].step = "recover"
    /\ Write(s, [ses[s].mem EXCEPT !.status = "active", !.attempts = 0, !.recent = FALSE],
             Cleared(hist))
    /\ plan' = ses[s].mem.tier
    /\ \E again \in {0, 1} : retries' = [retries EXCEPT !.due = @ + again] /\ Ends(again)
    /\ Close(s)
    /\ UNCHANGED <<hook, renewals>>

\* The charge is refused, or there is no authorization to charge, or Paystack has
\* charged the card and the answer is lost: charge_renewal returns False.
Refusals(s) == {hist} \cup (IF ses[s].mem.auth THEN {Renewed(hist)} ELSE {})

RetryRefused(s) ==
    /\ ses[s].step = "dunning"
    /\ \E h \in Refusals(s), again \in {0, 1} : FailedPayment(s, FALSE, h, again) /\ Ends(again)
    /\ Close(s)
    /\ UNCHANGED <<hook, renewals>>

RenewalCharged(s) ==
    /\ ses[s].step = "renewal"
    /\ ses[s].mem.auth
    /\ Write(s, [ses[s].mem EXCEPT !.due = FALSE], Renewed(hist))
    /\ \E again \in {0, 1} : renewals' = [renewals EXCEPT !.queued = @ + again] /\ Ends(again)
    /\ Close(s)
    /\ UNCHANGED <<plan, hook, retries>>

\* A refused renewal raises a bare Exception, which the processor does not
\* catch: nothing is written, and the job stays RUNNING.
RenewalRefused(s) ==
    /\ ses[s].step = "renewal"
    /\ hist' \in Refusals(s)
    /\ Close(s)
    /\ UNCHANGED <<sub, plan, hook, retries, renewals, faults>>

\* The handler fails or is cancelled before it writes: its job is queued again.
AbortHandler(s) ==
    /\ Fault
    /\ ses[s].step # "idle"
    /\ \/ /\ ses[s].step = "webhook"
          /\ hook' = [hook EXCEPT ![ses[s].e] = "queued"]
          /\ UNCHANGED <<retries, renewals>>
       \/ /\ ses[s].step \in {"dunning", "recover"}
          /\ retries' = [retries EXCEPT !.due = @ + 1]
          /\ UNCHANGED <<hook, renewals>>
       \/ /\ ses[s].step = "renewal"
          /\ renewals' = [renewals EXCEPT !.queued = @ + 1]
          /\ UNCHANGED <<hook, retries>>
    /\ Close(s)
    /\ UNCHANGED <<sub, plan, hist>>

\* The process dies: the job stays RUNNING for good.
Crash(s) ==
    /\ Fault
    /\ ses[s].step # "idle"
    /\ hook' = IF ses[s].step = "webhook" THEN [hook EXCEPT ![ses[s].e] = "lost"] ELSE hook
    /\ Note([hist EXCEPT !.lost = @ \/ ses[s].step \in {"dunning", "recover"}])
    /\ Close(s)
    /\ UNCHANGED <<sub, plan, retries, renewals>>

-----------------------------------------------------------------------------

Next ==
    \/ DueDateComes
    \/ DebounceEnds
    \/ RetryDayComes
    \/ Checkout
    \/ CancelSubscription
    \/ BillingSweep
    \/ \E e \in Webhooks : DeliverWebhook(e)
    \/ \E s \in Sessions, e \in Webhooks : StartWebhook(s, e)
    \/ \E s \in Sessions : HandleWebhook(s)
    \/ \E s \in Sessions : InsertConflict(s)
    \/ \E s \in Sessions : StartDunning(s)
    \/ \E s \in Sessions : RetryCharged(s)
    \/ \E s \in Sessions : RetryRecovers(s)
    \/ \E s \in Sessions : RetryRefused(s)
    \/ \E s \in Sessions : StartRenewal(s)
    \/ \E s \in Sessions : RenewalCharged(s)
    \/ \E s \in Sessions : RenewalRefused(s)
    \/ \E s \in Sessions : AbortHandler(s)
    \/ \E s \in Sessions : Crash(s)

Spec == Init /\ [][Next]_vars

-----------------------------------------------------------------------------
(***************************************************************************)
(* Properties.                                                             *)
(***************************************************************************)

\* The plan that entitlements are read from is the tier the subscription is
\* charged for, from the first payment on, through recoveries, downgrades and
\* late retries, unless a handler wrote from an outdated copy of the row (a
\* charge.success that overlaps a final failure leaves plan paid, tier free).
PlanFollowsTier ==
    hist.paid => plan = sub.tier \/ hist.outdated

\* A paid plan was paid for: neither a checkout nor an event that overtakes
\* charge.success grants it.
PaidPlanWasPaid == plan = "paid" => hist.paid

\* What a tenant is entitled to is what the subscription is paid for.
PlanIsPaidFor == PlanFollowsTier /\ PaidPlanWasPaid

\* A subscription in ATTENTION is not stranded: a retry is queued or running,
\* unless a fault or the stuck-job detector took it, the next one could not be
\* queued, or a retry that overlaps a failed invoice wrote from an outdated copy,
\* which clears the attempts and not the status (the dunning state and its job
\* commit together).
AttentionHasRetry ==
    sub.status = "attention"
        => \/ retries.waiting + retries.due > 0
           \/ \E s \in Sessions : ses[s].step \in {"dunning", "recover"}
           \/ hist.lost
           \/ hist.outdated

\* However often Paystack delivers an event, one run of its handler completes:
\* a repetition takes an abort between the handler's commit and the processor's
\* ("Idempotency prevents duplicate subscription activations").
AppliedOnce ==
    \A e \in Webhooks : hist.done[e] <= 1

\* A paying tenant is downgraded only after DunningMax payments have failed since
\* dunning was last cleared: events sent again, debounced events and retries
\* that could not be queued do not shorten the way there.  Lost updates and
\* repeated runs are exempt.
DowngradeNeedsAllRetries ==
    [][plan = "paid" /\ plan' = "free"
         => hist'.failed = DunningMax \/ hist'.outdated \/ hist'.repeated]_vars

=============================================================================
