# A TLA+ model of Valdrics

Valdrics is a FinOps platform: a FastAPI modular monolith (`app/`), a database
with row level security, Celery workers and an in-process scheduler, Redis, and
a SvelteKit dashboard. This directory models the parts of it that keep shared
state and are driven by several actors at once, checks them with TLC on small
instances and proves their safety properties with TLAPS.

`PROJECT.json` lists the components, the runs, the source lines each definition
stands for, the hazards and the theorems.

## 1. Inventory

| Component | State | Operations | What is hard | What makes it correct |
|---|---|---|---|---|
| Background job queue (`governance/domain/jobs`, `models/background_job.py`) | rows of `background_jobs`: status, attempts, schedule, soft delete | enqueue, claim a batch, run one job, retry, dead letter, detect stuck jobs, close an account, purge | several processors, a savepoint around the handler, crashes, a detector that locks nothing | a job has one owner; its effect is committed once; terminal rows stay terminal; every job settles |
| Enforcement actions (`enforcement/domain/actions*.py`) | rows of `enforcement_action_executions`: status, attempt count, lease | create, lease, complete, fail, cancel | optimistic claim, unlocked reads, lease expiry, repeated reports | one executor; one lease per attempt; terminal is final |
| Entitlement waterfall (`waterfall_ops.py`) | none | one pure evaluation | unbounded, zero and negative headrooms, three modes | never more than any headroom; what is allowed is funded; credits last |
| Enforcement gate, credits, approvals, reconciliation (`gate_evaluation*_ops.py`, `credit_ops.py`, `approval_flow_ops.py`, `reconciliation_flow_ops.py`) | decisions, grants, allocation rows, budgets, approvals, tokens | evaluate, fail-safe, approve, deny, consume a token, reconcile, sweep, budgets, grants | gates serialise on the policy row, everything else does not; clocks move between a read and a write; one settlement may spoil a sweep | credit is conserved; no over-reservation; every reservation ends |
| Policy contract, approval routing | versioned policy document | update, resolve a rule | schema and string work | not modelled |
| Remediation requests (`optimization/domain/remediation_*.py`, `safety_service.py`) | request status, escalation, schedule | create, approve, reject, execute, hard limit, autopilot | sessions keep an old copy of a row they lock; a grace period bridged by a job; guards that reserve nothing | a request runs once, not when rejected, not early, not unreviewed |
| Billing (`billing/domain/billing`) | subscription, plan, webhook and dunning jobs | checkout, four webhook events, renewal sweep, dunning, downgrade | duplicated and reordered events, no row lock, a charge that cannot be undone | events applied once; the plan follows the tier; dunning neither stalls nor ends early |
| LLM budget and fair use (`shared/llm/budget_*`) | budget row, usage rows, in-flight counters | quota, slot, reserve, call, record, alert | the row lock is held across the call; two counters; months turn | no overspending; slots accounted for; alerts sent |
| Scheduler dispatch (`scheduler/orchestrator.py`, `tasks/`, `governance/api/v1/admin.py`) | cron table, Redis lock, Celery queue, tenant row locks | fire, request, acquire, send, begin, sweep, retry | lost answers, requests outside the cron table, late acknowledgement, sessions that have begun, SKIP LOCKED | one dispatch per period; overlapping sweeps stay apart; every tenant is swept (which does not hold as deployed) |
| Circuit breakers (`shared/core`, `shared/llm`, `shared/remediation`) | counters and probe state | read by health and settings endpoints | not called on any execution path | not modelled |
| Reporting, adapters, auth, notifications, caches, dashboard | stored cost records, provider APIs | sequential reads and I/O | nothing concurrent of their own | not modelled |

The queue carries the other components' work: dispatched sweeps insert jobs, and
webhooks, renewals, dunning retries and the end of a grace period are jobs. The
modules of those components keep the jobs as counters and sets and take from
`JobQueue` what it shows: a job is claimed by one session, a failed or cancelled
run is queued again, a lost one is not, and the detector fails waiting jobs. A
gate decision gives rise to an approval, a token and then an action execution. The waterfall is the pure core of the
gate: `Reservations` extends `Waterfall` and evaluates it inside `GatePersist`.

## 2. Modules

| Module | Models |
|---|---|
| `JobQueue`, `MCJobQueue` | the job table and all its writers |
| `WorkQueue` | what the queue promises; implemented by `JobQueue` |
| `ActionExecutions`, `MCActionExecutions` | the action queue |
| `Waterfall` | the waterfall as operators |
| `Reservations`, `MCReservations` | the gate and the life of a reservation |
| `CreditLedger` | what the gate promises of credit; implemented by `Reservations` |
| `Remediation`, `MCRemediation` | the remediation request |
| `Billing`, `MCBilling` | the subscription of a tenant |
| `LLMBudget`, `MCLLMBudget` | the LLM budget of a tenant |
| `Dispatch`, `MCDispatch` | periodic sweeps from the cron table, or an administrator's request, to the jobs |
| `JobQueueProofs`, `ActionExecutionsProofs`, `ReservationsProofs`, `RemediationProofs`, `BillingProofs`, `LLMBudgetProofs`, `DispatchProofs` | the inductive invariant of the module each is named after, and its theorems; the waterfall's are in `ReservationsProofs` |
| `Sums` | lemmas about the sum of a function over a finite set |

### JobQueue

`row[j]` is the row of a job; `batch[w]` and `cur[w]` are the rows a processor
has claimed and the one it is running; `committed[w]` says that its handler has
committed on its own; `scan` is what the detector has read; `effects[j]` counts
the commits that carried the handler's changes. `FetchAndLockBatch` is the
select for update skip locked with its commit. `StartJob` is the commit of the
attempt count. `CompleteJob`, `FailJob` and `CancelJob` are the last commit of
`_process_single_job` with the savepoint kept or undone. `CrashWorker` may happen
at any point after a claim, `UncaughtError` is an exception that is not in
`JOB_RUNTIME_RECOVERABLE_ERRORS`. The detector is two steps because it selects
without a lock and writes by primary key. A final write of the processor also
goes by primary key (sessions keep their objects after a commit), so account
closure and the detector can happen under a running job.

Time is abstracted to the comparisons the code makes: `due` (`scheduled_for` has
passed) and `aged` (created more than an hour ago, or old enough to be purged).

### ActionExecutions

Every request is two steps: it reads the row (`LeaseSelect`, `CompleteRead`,
`FailRead`, `CancelRead`) and later writes what changed against its copy
(`LeaseClaim`, `CompleteWrite`, ...). Only the lease's update is conditional.
`executing[a]` are the workers that believe they hold the action, `grants[a]`
counts leases. `Retransmit` lets a worker send a report a second time while the
first one is still in flight. `LoseWorker` is a worker process that dies.

### Waterfall

Amounts are integers counting quanta of 0.0001 USD, to which the code rounds at
every step, so its decimal arithmetic is exact integer arithmetic. `Unbounded`
stands for `None`. The stages are one operator each. Stage diagnostics are left
out.

### Reservations

A decision is an idempotency key. `link[k][c]` is the allocation row of decision
`k` on grant `c`: what it holds while active, and what was consumed of it. A gate
takes the policy row (`GateLock`), sums the month's reservations
(`GateReadTotals`), reads budget, grants and held credit (`GateReadGrants`), and
inserts the decision with its allocation rows in one transaction
(`GatePersist`), in which the allocation rows are summed as well. Settlements
lock the decision, its rows and the grants before they read them, so each is one
step. `Settles` is the condition under which a settlement does not raise; where
it raises, the transaction is undone, and for the sweep that is the transaction
of all overdue decisions. `Legacy` is the set of decisions made before
allocation rows existed, which the headroom computation caters for
(`uncovered_legacy_reserved`). Clock comparisons are flags: `late`, `overdue`,
`current`, `expired`; a flag is kept only while something can read it.

### Abstract specifications

`WorkQueue` knows items that wait, are taken, have ended or failed, the worker
that holds them, the attempts and the effects. `ImplementsWorkQueue` states that
every step of `JobQueue` is one of its steps or a stutter: a row maps to its
state by `StateOf` (a deleted row has failed), the batch and the running row of a
processor map to what it holds. Failing from outside is a step of its own,
because the detector and account closure fail rows that a processor holds.

`CreditLedger` knows holds that are new, open or closed, and per grant what is
left, held and spent. `ImplementsCreditLedger` states that the gate, the
reviewers, reconciliation and the sweep only issue, hold, refuse and close, and
that a hold is closed once, whichever of them comes first.

### Remediation, Billing and LLMBudget: sessions with copies

The sessions of this program are opened with `expire_on_commit=False` and no
query asks for fresh values, so a row that a session has loaded keeps its old
values in that session even after a `SELECT ... FOR UPDATE`. The three modules
model it the same way: a session carries its copy (`mem`) and `Flush` writes the
columns in which the new values differ from the copy. Where a decision on an
outdated copy breaks a property, `hist` remembers that it happened and the
property says so: it then holds for every other behaviour, and the exemption
marks the exposure.

`Remediation`: `row[r]` is the request, `jobs[r][d]` are the queued jobs for day
`d`. `Execute` is `execute_remediation_request` up to the call of the strategy,
with guards, status, grace period and policy in the code's order; EXECUTING is
committed before the cloud is called (`StartRun`), so `FinishRun` is a step of
its own. `Schedule` and `EnqueueJob` are two transactions; an error between them
makes the request FAILED (`EnqueueFails`). `RequiredRole` is the tenant's setting
for escalated requests: an owner may always approve them, an admin where the
setting says so (the run has it that way). What the guards read elsewhere (the
month's spend, the policy) is chosen freely.

`Billing`: `hook[e]` is the stored job of an event, `retries` and `renewals` are
the dunning and renewal jobs. Handlers commit by themselves; `Ends` lets the
processor complete the job or queue it again after that commit. (A tenant's
handler that commits ends the savepoint's context, and the processor then uses
the session inside it at processor.py:300. SQLAlchemy may refuse that, in which
case the second outcome is the usual one; `MaxFaults` bounds how often it is
taken.) A charge whose answer is lost is a refusal after which Paystack still
sends `charge.success` (`Refusals`). Dates are two flags, `due` and `recent`.

`LLMBudget`: `lock` is the row lock, held from `Reserve` to `RecordUsage`;
`slots` and `local` are the counters in Redis and in the process. A Redis error
may come before or after Redis has counted. `flags` are the answers of
`check_budget` that Redis caches; while `budget_soft` is set the row is not looked
at. A call that fails after the reservation undoes it with the transaction
(`CallFails`), unless the caller catches the error and goes on with the session, as
the zombie scan (`optimization/domain/service.py:384`) and the analysis of several
connections (`handlers/finops.py:156`) do: the next commit then keeps the
reservation (`CallFailsCaught`). `Catching` says which sessions do; each analysis
of such a caller is a session of the model. Amounts are small integers.

### Dispatch

An instance fires (`DispatchTask`, `SkipDispatch`, `MissFiring`, `SendFails`,
`LockCallFails`), or serves `POST /admin/trigger-analysis`, which goes through the
cohorts in `DailyOrder` under the same locks (`TriggerAnalysis`, `RequestTask`,
`RequestFails`). A worker takes the task (`StartTask`) and comes to `db.begin()`.

As deployed that call is refused (`RefuseBegin`, `Autobegun = TRUE`): the session
has been asked for its connection by `mark_session_system_context`
(session_context_ops.py:205), which begins a transaction, and SQLAlchemy 2.0 does
not begin another. A cohort sweep stops at once, license governance fails with an
error that Celery does not retry, the other sweeps try three times. With
`Autobegun = FALSE`, the session that the tests hand to the sweeps, a worker goes on:
it locks tenant rows (`Load`), inserts (`Commit`), retries, gives up or dies. License
governance is tried once more by Celery, an hour later (`RetryLater`, `StartAgain`);
the others loop in the task (`RetrySweep`).

The lock's TTL of 180 s appears as its consequences: a lock taken while the
instances fire outlives the firings and is gone at the next cron time; one taken by a
request between firings may still be set when the cron time comes. `lock[k]` keeps
when it was taken for that reason, and `covered[k]` remembers that a request's lock
overlapped the firings. Instances whose clocks differ by more than the TTL are outside
the model. The kinds are the sweeps that lock tenant rows.

## 3. Runs

| Run | Result | What it shows |
|---|---|---|
| `jobqueue` | pass | exclusive claims, effects within attempts, effect once, no resurrection, with crashes; every job settles unless the processor that claimed it is lost, and nothing else leaves a row RUNNING that nobody runs; `WorkQueue` is implemented |
| `jobqueue_scheduled` | violation | the detector fails jobs scheduled for later |
| `actions` | pass | attempts count leases, queued rows carry no lease, one executor when reports are sent once; a RUNNING row has somebody who will end it; every action ends unless its worker is lost; terminal is final once no earlier reader is in flight |
| `reservations_credits` | pass | grants are conserved and match the decisions, whichever way a reservation ends; no settlement is refused; a request keeps its answer; on what a gate has read the waterfall is funded, within its headrooms and in order; `CreditLedger` is implemented; every reservation ends, provided that somebody keeps running the overdue sweep |
| `reservations_ceilings` | pass | ceilings and budgets hold under two concurrent gates, a changing budget and a decision without allocation rows |
| `remediation` | pass | one run per request; rejection, grace period, escalation and kill switch hold; a grace period has its job |
| `billing` | pass | plan and tier agree, nothing unpaid is granted, dunning neither stalls nor ends early, events complete once |
| `llm_budget` | pass | spend within limit and excess, quota, slots, alerts, with cached answers and failures that a caller catches |
| `llm_pending` | violation | reservations outlive the analysis that made them |
| `dispatch` | pass | the schedulers dispatch a period once (exactly once while nothing fails, unless a request covers it), and tasks of a kind keep coming |
| `sweeps` | pass | sweeps that get to their select work on disjoint tenants, with redelivery and both ways of retrying |
| `dispatch_unswept` | violation | as deployed no sweep gets to its select, so no tenant gets a job |

The three violations are findings: the sentence of the documentation they contradict
is quoted in `PROJECT.json`. In `dispatch_unswept` nothing fails and nobody interferes:
one instance, one worker, one tenant, no faults. The refused `db.begin()` is the only
reason. With `Autobegun = FALSE` (a cohort, two instances, two workers) TLC finds
`EveryTenantSwept` and `TasksKeepComing` true over 143 876 states. What the other
modules have as the effect of a scheduled sweep (`BillingSweep` in `Billing`, the
scheduled `Sweep` in `Reservations`) depends on the same call. Their safety properties
do not rest on it; `ReservationsEnd` names a sweep that is kept up as its
condition.

**Known behaviour behind the exemptions.** These are what the code does where a
passing property has an exemption or a run leaves a case out.
- Rows claimed by a processor that dies, or that meets an exception outside
  `JOB_RUNTIME_RECOVERABLE_ERRORS`, stay RUNNING (processor.py:203).
- An expired lease is not given to another worker (actions.py:366); a request
  that read an action before it became terminal overwrites the terminal status
  (actions_terminal_ops.py:28); a failure report sent twice can requeue another
  worker's lease (:78).
- A decision without allocation rows makes every overdue sweep of its tenant
  fail (reconciliation_flow_ops.py:299).
- A reviewer, the hard limit or a job that loaded a remediation request before it
  changed acts on the old status (remediation_execute.py:68).
- A dunning retry that overlaps another handler writes from an old copy; a retry
  whose successor cannot be queued leaves ATTENTION without a retry
  (dunning_service.py:204); the payload of that job holds a UUID object (:201)
  and the engine sets no JSON serializer, so queueing fails if the default
  encoder is used.
- A failed or refused analysis does not release its in-flight slot; a zombie
  analysis reserves on a copy loaded before the lock.
- A failed call whose caller catches the error keeps its reservation until the month
  turns (optimization/domain/service.py:384, handlers/finops.py:156).
- A request to trigger the analysis less than 180 s before a cron time makes every
  instance skip that period, and a request in mid-period sends its task once more
  (orchestrator.py:464). `DispatchesCounted` counts the schedulers' tasks and says
  which periods a request stands in for.
- License governance and the high-value cohort both fire at 6:00
  (orchestrator.py:363, :408) and would skip each other's locked tenants.
- A crash after the commit of SCHEDULED and before the job is queued leaves a
  remediation request scheduled for ever (remediation_execute_helpers.py:227).

**Bounds.** Two jobs and two processors are what a race for a claim needs; two
attempts give a first try, a retry and the dead letter; one of the jobs commits
in its handler and the other does not. The `actions` run has two workers, two
requests in flight and three attempts; `MaxTries` replaces the five rounds of the
lease loop. The
reservation runs use two keys: one that holds what the other wants.
`reservations_credits` has one gate, whose reads the settlements interleave with,
an expiring grant of two quanta and a perpetual one of one, so that a settlement
can consume part of a grant, and a request of three quanta against a budget of one, so
that the waterfall goes through all its stages, some exhausted. It checks a liveness
property and so has no symmetry. `reservations_ceilings` has two gates, one grant,
two budgets and, next to the two keys, a decision from before allocation rows
existed; the ceilings lie below what two requests ask for together.

`remediation`: two requests, one that may be approved automatically and one that
exists already, whose savings reach the threshold together; three days, so that a one-day
grace period ends and a second one begins; two sessions, three operations begun by
people or the autopilot and one fault. `billing`: two sessions; the five events
are a checkout's charge, the subscription, a failed invoice, the disabling and the
charge of the stored card; `DunningMax` is the code's three, with one retry
waiting at a time, one renewal and one fault. `llm_budget`: two analyses, limits 3
and 4 against an estimate of 2 and costs of 1 and 3, so that a reservation fits
once or twice and a call costs less or more than its estimate; a cap and a quota
of one; two months; three calls and one fault; both sessions may catch a failure.
`dispatch`: three instances, the third failing open, two workers, one cohort, which
requests dispatch too, two faults and two queued tasks; every sweep is refused, so one
tenant and two tries are enough. `sweeps`: license governance and another kind, two
workers, two tenants, two tries and two faults, one instance. Periods are unbounded in
both. `dispatch_unswept` has the code's three tries.

Symmetry is used in safety runs only. `CHECK_DEADLOCK FALSE` is set where the
system may rest: all jobs settled, all keys used, all calls made.

**Fairness.** `JobQueue`: pg_cron calls the processor every minute, the
processor works through its batch, the detector is scheduled every hour, time
passes; nothing is assumed about closure, purge and the handlers' outcomes.
`ActionExecutions`: a worker keeps asking for work and reports what it holds, and
a request that read its row writes; nothing forces a report to be a success.
`Reservations`: time passes, and nothing else. That the overdue sweep runs again and
again is a hypothesis of `ReservationsEnd` (`SweepIsKeptUp`), not an assumption about the scheduler: the
hourly job may be turned off (orchestrator.py:285) and is refused as deployed, and
what remains is that somebody calls `POST /reservations/reconcile-overdue`. Nothing is
assumed of gates, reviewers and manual reconciliation.
`Dispatch`: cron times come, locks expire, schedulers fire, workers take tasks and go
on with them (weak fairness); strong fairness for a kind's tasks and, where the sweeps
begin, for a tenant that they select again and again, because row locks last ten
seconds at most. Nobody need make a request. Faults are finite, so an unlucky period
is followed by a lucky one. `Remediation`,
`Billing` and `LLMBudget` state no liveness: nothing in the code makes a reviewer,
a customer or a provider act.

## 4. Proofs

Every safety invariant and action property of the passing runs, and both
refinements, are theorems of the specification as the runs check it, faults
included, for every value of the constants that satisfies the module's `ASSUME`. The
numbers in a `.cfg` (two jobs, three instances, `MaxFaults`) are therefore only
limits of the runs. Each proof module defines the inductive invariant (`IInv`),
proves that it holds initially and that every action keeps it, one lemma or step per
action, and derives the properties from it. TLC checked the `IInv` of each module on
the instance of its run before it was proved.

A liveness property cannot be proved here, but what it rests on can. Three theorems
are the safety cores of liveness properties: `OrphanedByLossOnly` says that the
exemption of `SettledUnlessOrphaned` covers lost processors and nothing else,
`RunningIsWorked` that the row `TerminalUnlessLost` waits for has somebody whose
next step ends it, and `SettlementsSucceed` that the sweep behind `ReservationsEnd`
is never rolled back by a decision that has allocation rows.

**Assumptions.** Sets that are counted or summed over are finite (instances,
sessions, keys, grants, requests, limits). A grant belongs to one pool
(`ReservationsAssumption`): in the code the pool is a column of the grant. The
orders in which grants are drawn on name a grant once: in the code they are the rows
of one query, in a total order. `SoleExecutor` is claimed only without `Retransmit`,
because a repeated failure report does requeue another worker's lease. The credit
ledger is implemented only without decisions from before allocation rows (`Legacy =
{}`): their credit is in no row the ledger could map to. The remaining exemptions
are part of the properties and listed in section 3.

**JobQueueProofs.** `TypeOK`, `SoleOwner`, `EffectsAccounted` (`EffectsWithinAttempts`
and `EffectOnce`), `NoResurrection`, `OrphanedByLossOnly` and `ImplementsWorkQueue`.
`IInv` adds
- that the row a processor runs is not in its batch any more, and that claimed
  rows are in a status a claim can meet (the detector and closure may have failed
  them): otherwise nothing would tie a claim to the row's status and a second
  processor could take it;
- that a batch row has attempts left and a running row has been counted, which
  bounds the effects;
- that only handlers which commit on their own have committed early;
- that an open row of the other kind has no effect yet, from which `EffectOnce`
  follows when the row is completed.

`OrphanedByLossOnly` looks at how claims change: every other action leaves each
RUNNING row in the batch or under the hand of a processor, or takes it out of
RUNNING.

The refinement maps each action to one of `WorkQueue` or to a stutter, row by row.
`QueuePromise` then says what a reader of `WorkQueue` alone may rely on, whatever
implements it: an item has one holder, it cannot be taken again while it has one,
and its effects are bounded by its tries.

**ActionExecutionsProofs.** `TypeOK`, `LeasesHeld` (`LeaseDiscipline` and
`RunningIsWorked`), `SoleExecutor`, `TerminalIsFinalWhenQuiet`. What a request
writes depends on a copy it read earlier, so `IInv` speaks of copies: a report was
checked on a copy with an owner and a lease, a lease was selected with an attempt
left. `SoleExecutor` needs a second invariant, `HolderInv`: a lease has one holder,
a worker that executes or one report under way, and it is the owner on the row while
that runs; a queued row has none. A report that could be sent twice would break
exactly this. `RunningIsWorked`, in contrast, holds with repeated reports too. It is
inductive next to `IInv`: a claim makes its owner work, the owner's report takes the
place of its work, and a report that is written ends the run, whoever sent it.

**ReservationsProofs.** For the pure waterfall, `HeadroomsRespected`,
`FundedWhenAllowed` and `LastResort` hold for all modes, amounts and headrooms. They
rest on the lemma `Stages`, which bounds every stage and states that the shares and
the unfunded rest add up to the funding target. `GateWaterfallSound` carries them over
to `WaterfallSound`: the headrooms a gate works out from what it has read are such
headrooms, and its request is an amount. TLC checks the waterfall on those headrooms
only; negative ones, which no gate of the run arrives at, are covered by the proof.

For the gate: `TypeOK`, `CreditAccounted` (`GrantConserved` and `CreditIsMapped`),
`CeilingsHold`, `AllocationWithinBudget`, `SettlementsSucceed`, `DecisionsStand` and
`ImplementsCreditLedger`. `IInv` adds that a grant not yet issued holds nothing;
that decisions without allocation rows never get any; and that an evaluation under
way has the lock and has read totals no lower than the present ones (`Serialised`).
The last is why the ceilings hold although the totals are read several steps before
the insert: only the lock's holder raises them, and settlements and the turn of the
month lower them. `GatePersist` combines it with the waterfall's theorems. A
settlement splits every hold into a consumed and a returned part; the sums over keys
and grants move by the lemmas of `Sums`.

`SettlementsSucceed` says that the 409 answers of a settlement are unreachable for
decisions with allocation rows. A settlement goes through the rows in order, takes
what is to be consumed and what is to be released out of each, and raises if either
amount is not used up in the end. To show that both are takes three facts: that a
decision holds credit only of grants in its own order (`HeldInOrder`), that a grant
stands in the order once, and that drawing a target from a sequence of amounts takes
the smaller of the target and their sum (`FillDraws`, by `Segments` and `SumAlong`
of `Sums`). With `CreditIsMapped` the sum is what the decision reserved, and the two
amounts are bounded to add up to it.

`DecisionsStand` needs one fact more than `IInv`: a consumed token belongs to an
approved review (`ConsumedIsApproved`). A gate inserts a decision only for a key
that has none in the same step, which is what makes the fail-safe decision and the
retry of a timed out gate harmless to each other.

`LedgerPromise` is about `CreditLedger` alone: what a grant was issued with is left,
held or spent, and a request that is not open holds nothing. Since the gate
implements the ledger, `GrantConserved` could be read off it where `Legacy = {}`; it
is proved directly as well, because it holds with such decisions too.

**RemediationProofs.** `TypeOK`, `RunsAreLawful` (`RunsAtMostOnce` and
`ReviewRespected`), `GracePeriodHasJob`, `KillSwitchUnlessOverlap`. `IInv` states
what review and history say of a row (`Lawful`), what a session at each step knows
of its request, that scheduled dates only advance and no copy is ahead of the row,
and that a scheduled request is cared for by the very job of its date. The last is
stronger than the property: a job of an earlier date does not help. The kill switch
reads the day's sum before a run and the run adds to it later; `ImpactHeld`
therefore bounds the sum of the runs that began alone together with what one still
going on will add.

**BillingProofs.** `TypeOK`, `PlanIsPaidFor`, `AttentionHasRetry`, `AppliedOnce`,
`DowngradeNeedsAllRetries`. `IInv` adds that a webhook is processed by one session,
which has its job RUNNING; that a run completed only if the job is COMPLETED; that a
stored card, and any charge of it, implies an earlier payment; that the row is never
deleted; and that the attempts counted on the row are payments that failed. Each
handler is covered by one lemma on what writing from a copy does to the row
(`FlushRow`).

**LLMBudgetProofs.** `TypeOK`, `MoneyAccounted`, `AnalysesAccounted`,
`ThresholdReported`. `IInv` adds that the row lock is held exactly during a
transaction; that an open transaction has the committed row, reset if its month has
passed, plus a reservation that the limit allowed; that analyses past the quota
check and today's count stay together below the quota plus the other sessions; that
the in-flight counter is the slots taken plus those leaked; and that the month of
the last alert only grows, so that a copy that shows this month's alert is right.

**DispatchProofs.** `TypeOK`, `SweepsDisjoint` and `DispatchesCounted`
(`OneDispatchPerPeriod` and `DispatchedWhenHealthy`), for both values of `Autobegun`
and with requests at any time. A lock taken during the firings pays for one task of a
period and instances that failed open for the others (`SentUnderLock`), counted over
the instances that have fired. `DispatchedWhenHealthy` is a lower bound and needs the
converse: until something fails, at most one task is sent, its lock stays set as long
as instances have to fire, and a period without a task is covered by a request or
nobody has fired in it yet and its lock is free (`LockTellsDispatch`).

**Sums.** The sums of the model are `SumFunctionOnSet` of the community modules.
That the recursive function behind it exists, and how it changes with its arguments,
is proved by looking at a smallest counterexample among the subsets of a finite set
(`Least`), because the provers cannot instantiate the induction theorems of the
library. The same device gives an induction along an initial segment of the naturals
(`Segments`) and from it the sum along a sequence without repetitions (`SumAlong`).

**Only model-checked.** The liveness properties `SettledUnlessOrphaned`,
`TerminalUnlessLost`, `ReservationsEnd` and `TasksKeepComing`: fairness and
`ENABLED` are out of the prover's reach. The three violations are runs by nature.

## 5. Left to do

1. The order of row locks in settlements and gates (`credit_ops.py:303`): a model of
   the lock manager would show which orders can deadlock. The database breaks such a
   deadlock by an abort, which the model has as a rolled back transaction.
2. Components outside the model whose logic is sequential (approval routing, computed
   cost context) could be added as pure operators, like the waterfall.
3. The liveness properties could be proved by hand from the safety cores of section 4
   with a prover that handles fairness.

## 6. Not modelled

Payloads, hashes, signatures and the binding checks of tokens; the decision
ledger and exports; metrics and logs; cost statistics (`computed_context_ops`),
which reach the gate as one flag. Row lock order and the aborts the database makes
to break a deadlock appear only as rolled back transactions. When a gate times out
its statement is cancelled and the fail-safe decision is made on the same session;
whether the session is usable then depends on the driver, and the model assumes
that the cancelled transaction is undone. The limit of a sweep (500 rows) is not
reached. The policy's ceilings are fixed for a behaviour: the code evaluates with a
copy of the policy it loaded before it took the lock (gate_evaluation_ops.py:57, :92),
so that a policy update in between applies to the next evaluation only. A settlement
goes through the allocation rows in the order in which the gate drew on the grants:
the code orders by `created_at`, which the process sets row by row in that order.

The three circuit breakers are not on any execution path: health and settings
endpoints read them, and remediation is guarded by `SafetyGuardrailService`, which
is modelled. Of billing, prices, currencies and references are left out; of the
LLM budget, the creation of a missing row, tiers without fair use, and the cheaper
model that the soft limit picks. An instance serves one request to trigger the analysis
at a time. Rollback plans and snapshots of a remediation
are data the strategy stores. Requests that the autonomous engine and license
governance draft are `CreateRequest`; the engine's own autopilot is never switched on,
and the `SavingsProcessor` behind `AutopilotCreate` has no caller in `app/`: the model
has it so that the properties do not depend on that. The billing and remediation sweeps differ from the
modelled ones only in the rows they lock. Duplicate alerts, a second charge after
an abort and the order of an unordered select above the cap of 5000 tenants have
no property, because no document says what should happen. Policy documents and approval routing are schema and string work. Cloud
adapters, reporting, notifications, authentication and the dashboard are I/O or
sequential computation.
