------------------------------ MODULE Dispatch ------------------------------
(***************************************************************************)
(* Periodic sweeps: every API instance runs APScheduler with the same cron *)
(* table; the one that gets the Redis dispatch lock sends a Celery task,   *)
(* and the task is to enqueue one background job per tenant and period.    *)
(* An administrator's request (POST /admin/trigger-analysis) dispatches    *)
(* the cohorts at any time, under the same locks.                          *)
(*                                                                         *)
(* A kind is a row of the cron table whose sweep locks tenant rows: the    *)
(* cohorts, acceptance, license governance, enforcement reconciliation     *)
(* (unless a setting turns it off).  The billing and the remediation sweep *)
(* run the same way and lock subscriptions and connections.  Celery        *)
(* workers acknowledge late, so a task whose worker dies is delivered      *)
(* again.  A sweep selects tenant rows FOR UPDATE SKIP LOCKED, reads the   *)
(* clock for the period's bucket and inserts under a unique key of tenant, *)
(* kind and bucket; the row locks live until its transaction ends.  There  *)
(* are fewer tenants than the cap of a sweep (5000).                       *)
(*                                                                         *)
(* As deployed no sweep gets that far.  The session it is given has been   *)
(* asked for its connection (mark_session_system_context), which begins a  *)
(* transaction, and SQLAlchemy refuses db.begin() on a session that has    *)
(* one.  Autobegun is TRUE then.  It is FALSE for the sessions that the    *)
(* repository's tests give to the sweeps, which have not begun: only then  *)
(* is what comes after db.begin() reached.                                 *)
(*                                                                         *)
(* The lock's TTL (180 s) is shorter than any period and longer than the   *)
(* time within which the instances fire (APScheduler drops a firing that   *)
(* is a second late).  So a lock taken during the firings outlives them    *)
(* and is gone at the next cron time, and only a lock taken between        *)
(* firings, by a request, can still be set when the cron time comes.       *)
(***************************************************************************)
EXTENDS Naturals, Sequences, FiniteSets

CONSTANTS
    Kinds,         \* rows of the cron table
    Cohorts,       \* those that stop at the first error that is no deadlock
    License,       \* license governance, whose retries are Celery's
    DailyOrder,    \* the cohorts, in the order in which a request goes through them
    Instances,     \* API processes with a scheduler
    Workers,       \* Celery workers
    Tenants,
    FailOpen,      \* instances with SCHEDULER_LOCK_FAIL_OPEN (by default none)
    Autobegun,     \* a sweep's session has begun a transaction: TRUE as deployed
    MaxTries,      \* max_retries of a sweep
    MaxFaults,     \* bound on lost calls, database errors and crashes
    MaxQueue       \* bound on tasks of a kind waiting in the broker

ASSUME DispatchAssumption ==
    /\ Cohorts \subseteq Kinds
    /\ License \subseteq Kinds \ Cohorts
    /\ DailyOrder \in Seq(Cohorts)
    /\ IsFiniteSet(Instances) /\ Instances # {}
    /\ FailOpen \subseteq Instances
    /\ Autobegun \in BOOLEAN
    /\ MaxTries \in Nat \ {0, 1}
    /\ MaxFaults \in Nat
    /\ MaxQueue \in Nat \ {0}

VARIABLES
    due,      \* due[k]: instances whose scheduler has not fired k this period
    lock,     \* lock[k]: the dispatch lock of k, and when it was taken
    sent,     \* sent[k]: tasks the schedulers have sent this period
    covered,  \* covered[k]: a request's lock overlapped the firings of the period
    asked,    \* asked[i]: cohorts that the request served by i has yet to dispatch
    queue,    \* queue[k]: tasks of kind k in the broker
    again,    \* again[k]: tasks that Celery retries, waiting for their hour
    sweep,    \* sweep[w]: the task w is running
    jobs,     \* jobs[k]: tenants with a job of the current bucket of k
    faults

cron == <<due, sent>>
broker == <<queue, again>>
vars == <<due, lock, sent, covered, asked, queue, again, sweep, jobs, faults>>

Idle == [pc |-> "idle"]

Sweep == [pc    : {"begin", "open"},
          kind  : Kinds,
          tries : 1..MaxTries,      \* of the task; of license governance, Celery's
          rows  : SUBSET Tenants,   \* tenant rows its transaction has locked
          fresh : BOOLEAN]          \* its bucket is the current one

Begin(k, n) == [pc |-> "begin", kind |-> k, tries |-> n, rows |-> {}, fresh |-> FALSE]

\* A lock is free, or it was taken during the firings of the current cron time,
\* after they were over, or before that cron time came.
LockStates == {"free", "firing", "between", "before"}

\* The locks, the counts, the requests, the tasks and the sweeps have their types.
TypeOK ==
    /\ due \in [Kinds -> SUBSET Instances]
    /\ lock \in [Kinds -> LockStates]
    /\ sent \in [Kinds -> 0..Cardinality(Instances)]
    /\ covered \in [Kinds -> BOOLEAN]
    /\ asked \in [Instances -> 0..Len(DailyOrder)]
    /\ queue \in [Kinds -> 0..MaxQueue]
    /\ again \in [Kinds -> 0..MaxQueue]
    /\ sweep \in [Workers -> Sweep \cup {Idle}]
    /\ jobs \in [Kinds -> SUBSET Tenants]
    /\ faults \in 0..MaxFaults

Init ==
    /\ due = [k \in Kinds |-> Instances]
    /\ lock = [k \in Kinds |-> "free"]
    /\ sent = [k \in Kinds |-> 0]
    /\ covered = [k \in Kinds |-> FALSE]
    /\ asked = [i \in Instances |-> 0]
    /\ queue = [k \in Kinds |-> 0]
    /\ again = [k \in Kinds |-> 0]
    /\ sweep = [w \in Workers |-> Idle]
    /\ jobs = [k \in Kinds |-> {}]
    /\ faults = 0

Fault == faults < MaxFaults /\ faults' = faults + 1

(***************************************************************************)
(* Time.                                                                   *)
(***************************************************************************)

\* Sweeps that have read the clock before the bucket turned.
Outdated(k) ==
    [w \in Workers |->
        IF sweep[w].pc = "open" /\ sweep[w].kind = k
          THEN [sweep[w] EXCEPT !.fresh = FALSE] ELSE sweep[w]]

\* Mutant of NewPeriod: the TTL is longer than the period.
NewPeriodKeepingLock(k) ==
    /\ due[k] = {}
    /\ due' = [due EXCEPT ![k] = Instances]
    /\ sent' = [sent EXCEPT ![k] = 0]
    /\ covered' = [covered EXCEPT ![k] = FALSE]
    /\ jobs' = [jobs EXCEPT ![k] = {}]
    /\ sweep' = Outdated(k)
    /\ UNCHANGED <<lock, asked, broker, faults>>

\* The next cron time of k comes, with a new bucket.  A lock taken during the last
\* firings has expired; one that a request has taken since may still be set.
NewPeriod(k) ==
    /\ due[k] = {}
    /\ lock[k] \in {"free", "between"}
    /\ due' = [due EXCEPT ![k] = Instances]
    /\ lock' = [lock EXCEPT ![k] = IF @ = "between" THEN "before" ELSE @]
    /\ sent' = [sent EXCEPT ![k] = 0]
    /\ covered' = [covered EXCEPT ![k] = lock[k] = "between"]
    /\ jobs' = [jobs EXCEPT ![k] = {}]
    /\ sweep' = Outdated(k)
    /\ UNCHANGED <<asked, broker, faults>>

\* Mutant of LockExpires: the TTL is shorter than the firings take.
LockExpiresEarly(k) ==
    /\ lock[k] # "free"
    /\ lock' = [lock EXCEPT ![k] = "free"]
    /\ UNCHANGED <<cron, covered, asked, broker, sweep, jobs, faults>>

\* The TTL of the lock is over: not during the firings it was taken in.
LockExpires(k) ==
    /\ lock[k] # "free"
    /\ lock[k] = "firing" => due[k] = {}
    /\ lock' = [lock EXCEPT ![k] = "free"]
    /\ UNCHANGED <<cron, covered, asked, broker, sweep, jobs, faults>>

(***************************************************************************)
(* The dispatch of a kind, by a scheduler or for a request.                *)
(***************************************************************************)

\* SET NX succeeds.
TakeLock(k) ==
    /\ lock[k] = "free"
    /\ lock' = [lock EXCEPT ![k] = IF due[k] # {} THEN "firing" ELSE "between"]

\* Redis gives no answer, whether it has taken the lock or not.
LockUnanswered(k) == TakeLock(k) \/ lock' = lock

SendTask(k) ==
    /\ queue[k] < MaxQueue
    /\ queue' = [queue EXCEPT ![k] = @ + 1]

\* The scheduler of instance i fires k.
Fired(i, k) == /\ i \in due[k]
               /\ due' = [due EXCEPT ![k] = @ \ {i}]

\* Mutant of DispatchTask: SET without NX.
DispatchOverwriting(i, k) ==
    /\ Fired(i, k)
    /\ lock' = [lock EXCEPT ![k] = "firing"]
    /\ SendTask(k)
    /\ sent' = [sent EXCEPT ![k] = @ + 1]
    /\ UNCHANGED <<covered, asked, again, sweep, jobs, faults>>

\* The lock is acquired and the task reaches the broker.
DispatchTask(i, k) ==
    /\ Fired(i, k)
    /\ TakeLock(k)
    /\ SendTask(k)
    /\ sent' = [sent EXCEPT ![k] = @ + 1]
    /\ UNCHANGED <<covered, asked, again, sweep, jobs, faults>>

\* The lock is held: somebody else has dispatched.
SkipDispatch(i, k) ==
    /\ Fired(i, k)
    /\ lock[k] # "free"
    /\ UNCHANGED <<lock, sent, covered, asked, broker, sweep, jobs, faults>>

\* The instance is down or late: APScheduler drops the firing.
MissFiring(i, k) ==
    /\ Fault
    /\ Fired(i, k)
    /\ UNCHANGED <<lock, sent, covered, asked, broker, sweep, jobs>>

\* The lock is acquired and send_task fails: the error is swallowed, and the
\* lock keeps the other instances from dispatching.
SendFails(i, k) ==
    /\ Fault
    /\ Fired(i, k)
    /\ TakeLock(k)
    /\ UNCHANGED <<sent, covered, asked, broker, sweep, jobs>>

\* Redis gives no answer.  Fail closed does nothing, fail open dispatches (if the
\* broker answers).
LockCallFails(i, k) ==
    /\ Fault
    /\ Fired(i, k)
    /\ LockUnanswered(k)
    /\ \/ i \in FailOpen /\ SendTask(k) /\ sent' = [sent EXCEPT ![k] = @ + 1]
       \/ UNCHANGED <<sent, queue>>
    /\ UNCHANGED <<covered, asked, again, sweep, jobs>>

\* POST /admin/trigger-analysis at instance i.  One request at a time.
TriggerAnalysis(i) ==
    /\ asked[i] = 0
    /\ asked' = [asked EXCEPT ![i] = Len(DailyOrder)]
    /\ UNCHANGED <<cron, lock, covered, broker, sweep, jobs, faults>>

\* The request comes to the cohort k, when it has dealt with those before.
Asked(i, k) == /\ asked[i] # 0
               /\ k = DailyOrder[Len(DailyOrder) + 1 - asked[i]]
               /\ asked' = [asked EXCEPT ![i] = @ - 1]

\* The request's lock keeps away the instances that are firing, or about to.
Cover(k) == covered' = [covered EXCEPT ![k] = @ \/ (lock'[k] # lock[k] /\ due[k] # {})]

\* daily_analysis_job for the cohort k: it dispatches, or finds the lock held.
RequestTask(i, k) ==
    /\ Asked(i, k)
    /\ \/ TakeLock(k) /\ SendTask(k)
       \/ lock[k] # "free" /\ UNCHANGED <<lock, queue>>
    /\ Cover(k)
    /\ UNCHANGED <<cron, again, sweep, jobs, faults>>

\* The same with a Redis or a broker that fails.
RequestFails(i, k) ==
    /\ Fault
    /\ Asked(i, k)
    /\ \/ TakeLock(k) /\ queue' = queue
       \/ LockUnanswered(k) /\ ((i \in FailOpen /\ SendTask(k)) \/ queue' = queue)
    /\ Cover(k)
    /\ UNCHANGED <<cron, again, sweep, jobs>>

\* The instance dies with its request.
LoseRequest(i) ==
    /\ Fault
    /\ asked[i] # 0
    /\ asked' = [asked EXCEPT ![i] = 0]
    /\ UNCHANGED <<cron, lock, covered, broker, sweep, jobs>>

(***************************************************************************)
(* The Celery task.                                                        *)
(***************************************************************************)

StartTask(w, k) ==
    /\ sweep[w] = Idle
    /\ queue[k] > 0
    /\ queue' = [queue EXCEPT ![k] = @ - 1]
    /\ sweep' = [sweep EXCEPT ![w] = Begin(k, 1)]
    /\ UNCHANGED <<cron, lock, covered, asked, again, jobs, faults>>

\* Celery's one retry of license governance, an hour later.
StartAgain(w, k) ==
    /\ sweep[w] = Idle
    /\ again[k] > 0
    /\ again' = [again EXCEPT ![k] = @ - 1]
    /\ sweep' = [sweep EXCEPT ![w] = Begin(k, 2)]
    /\ UNCHANGED <<cron, lock, covered, asked, queue, jobs, faults>>

Open(w) == sweep[w].pc = "open"

\* db.begin() raises InvalidRequestError.  It is no deadlock, so a cohort sweep
\* stops; license governance fails with an error that Celery does not retry; the
\* other sweeps try again, and meet it again.
RefuseBegin(w) ==
    /\ Autobegun
    /\ sweep[w].pc = "begin"
    /\ sweep' = [sweep EXCEPT ![w] =
                   IF @.kind \in Cohorts \cup License \/ @.tries = MaxTries
                     THEN Idle ELSE Begin(@.kind, @.tries + 1)]
    /\ UNCHANGED <<cron, lock, covered, asked, broker, jobs, faults>>

LockedRows == UNION {sweep[w].rows : w \in {w \in Workers : Open(w)}}

\* Mutant of Load: the select takes no row locks.
LoadUnlocked(w, S) ==
    /\ ~Autobegun
    /\ sweep[w].pc = "begin"
    /\ sweep' = [sweep EXCEPT ![w] = [@ EXCEPT !.pc = "open", !.rows = S, !.fresh = TRUE]]
    /\ UNCHANGED <<cron, lock, covered, asked, broker, jobs, faults>>

\* db.begin() succeeds: lock the rows nobody has locked (S: the rest is locked by
\* transactions outside the model), then read the clock.
Load(w, S) ==
    /\ ~Autobegun
    /\ sweep[w].pc = "begin"
    /\ S \cap LockedRows = {}
    /\ sweep' = [sweep EXCEPT ![w] = [@ EXCEPT !.pc = "open", !.rows = S, !.fresh = TRUE]]
    /\ UNCHANGED <<cron, lock, covered, asked, broker, jobs, faults>>

\* Insert on conflict do nothing, commit, acknowledge.  A job of a bucket that
\* has passed is of no further interest.
Commit(w) ==
    /\ Open(w)
    /\ jobs' = IF sweep[w].fresh
                 THEN [jobs EXCEPT ![sweep[w].kind] = @ \cup sweep[w].rows] ELSE jobs
    /\ sweep' = [sweep EXCEPT ![w] = Idle]
    /\ UNCHANGED <<cron, lock, covered, asked, broker, faults>>

\* Mutant of RetrySweep: the loop does not count.
RetrySweepForever(w) ==
    /\ Fault
    /\ sweep[w] # Idle
    /\ sweep' = [sweep EXCEPT ![w] = Begin(@.kind, @.tries + 1)]
    /\ UNCHANGED <<cron, lock, covered, asked, broker, jobs>>

\* A database error or the session's ten seconds: roll back and try again, in the
\* task.  A cohort sweep does so after a deadlock, license governance never.
RetrySweep(w) ==
    /\ Fault
    /\ sweep[w] # Idle
    /\ sweep[w].kind \notin License
    /\ sweep[w].kind \in Cohorts => Open(w)
    /\ sweep[w].tries < MaxTries
    /\ sweep' = [sweep EXCEPT ![w] = Begin(@.kind, @.tries + 1)]
    /\ UNCHANGED <<cron, lock, covered, asked, broker, jobs>>

\* License governance raises what Celery retries (a connection, a timeout, an
\* error of the driver): the task is sent once more, for an hour later.
RetryLater(w) ==
    /\ Fault
    /\ sweep[w] # Idle
    /\ sweep[w].kind \in License
    /\ sweep[w].tries = 1
    /\ again[sweep[w].kind] < MaxQueue
    /\ again' = [again EXCEPT ![sweep[w].kind] = @ + 1]
    /\ sweep' = [sweep EXCEPT ![w] = Idle]
    /\ UNCHANGED <<cron, lock, covered, asked, queue, jobs>>

\* The last try, or an error that is not retried: counted as a failure (raised, by
\* license governance) and acknowledged all the same.
GiveUpSweep(w) ==
    /\ Fault
    /\ sweep[w] # Idle
    /\ sweep[w].tries = MaxTries \/ sweep[w].kind \in Cohorts \cup License
    /\ sweep' = [sweep EXCEPT ![w] = Idle]
    /\ UNCHANGED <<cron, lock, covered, asked, broker, jobs>>

\* The worker dies; the broker delivers the task again.
CrashWorker(w) ==
    /\ Fault
    /\ sweep[w] # Idle
    /\ IF sweep[w].kind \in License /\ sweep[w].tries = 2
         THEN /\ again[sweep[w].kind] < MaxQueue
              /\ again' = [again EXCEPT ![sweep[w].kind] = @ + 1]
              /\ queue' = queue
         ELSE SendTask(sweep[w].kind) /\ again' = again
    /\ sweep' = [sweep EXCEPT ![w] = Idle]
    /\ UNCHANGED <<cron, lock, covered, asked, jobs>>

-----------------------------------------------------------------------------

Fire(i, k) == \/ DispatchTask(i, k)
              \/ SkipDispatch(i, k)
              \/ MissFiring(i, k)
              \/ SendFails(i, k)
              \/ LockCallFails(i, k)

Request(i) == \/ TriggerAnalysis(i)
              \/ \E k \in Cohorts : RequestTask(i, k)
              \/ \E k \in Cohorts : RequestFails(i, k)
              \/ LoseRequest(i)

LoadSome(w) == \E S \in SUBSET Tenants : Load(w, S)

Next ==
    \/ \E k \in Kinds : NewPeriod(k)
    \/ \E k \in Kinds : LockExpires(k)
    \/ \E i \in Instances, k \in Kinds : Fire(i, k)
    \/ \E i \in Instances : Request(i)
    \/ \E w \in Workers, k \in Kinds : StartTask(w, k)
    \/ \E w \in Workers, k \in Kinds : StartAgain(w, k)
    \/ \E w \in Workers : RefuseBegin(w)
    \/ \E w \in Workers : LoadSome(w)
    \/ \E w \in Workers : Commit(w)
    \/ \E w \in Workers : RetrySweep(w)
    \/ \E w \in Workers : RetryLater(w)
    \/ \E w \in Workers : GiveUpSweep(w)
    \/ \E w \in Workers : CrashWorker(w)

Spec == Init /\ [][Next]_vars

\* The sweep of k gets hold of tenant t.
LoadTenant(k, t) ==
    \E w \in Workers, S \in SUBSET Tenants :
        t \in S /\ sweep[w].pc = "begin" /\ sweep[w].kind = k /\ Load(w, S)

CommitTenant(k, t) ==
    \E w \in Workers :
        Open(w) /\ sweep[w].fresh /\ sweep[w].kind = k /\ t \in sweep[w].rows /\ Commit(w)

StartTaskOf(k) == \E w \in Workers : StartTask(w, k) \/ StartAgain(w, k)

\* Cron times come, locks expire, schedulers fire, workers take tasks and go on
\* with them.  Row locks last for a transaction and a transaction for ten seconds
\* at most, so neither a lock nor the turn of the period spoils every sweep of a
\* kind.  Nobody need make a request.  Faults are finite.
Fairness ==
    /\ \A k \in Kinds : /\ WF_vars(NewPeriod(k))
                        /\ WF_vars(LockExpires(k))
                        /\ SF_vars(StartTaskOf(k))
    /\ \A i \in Instances, k \in Kinds : WF_vars(DispatchTask(i, k) \/ SkipDispatch(i, k))
    /\ \A w \in Workers : WF_vars(RefuseBegin(w) \/ LoadSome(w)) /\ WF_vars(Commit(w))
    /\ \A k \in Kinds, t \in Tenants :
          SF_vars(LoadTenant(k, t)) /\ SF_vars(CommitTenant(k, t))

FairSpec == Spec /\ Fairness

-----------------------------------------------------------------------------
(***************************************************************************)
(* Properties.                                                             *)
(***************************************************************************)

\* The schedulers dispatch a period at most once, whichever instances fire, fail
\* or lose Redis's answer and whatever requests come in between, and once more for
\* each instance that fails open (_acquire_dispatch_lock: "prevent duplicate
\* schedule dispatches when multiple API instances are running APScheduler").
\* Tasks of requests are not counted: in mid-period one more is what a request is for.
OneDispatchPerPeriod ==
    \A k \in Kinds : sent[k] <= 1 + Cardinality(FailOpen)

\* As long as nothing has failed, no period is lost and none is dispatched twice:
\* once an instance has fired, exactly one has dispatched, or a request has, whose
\* lock was still set at the cron time or taken during the firings
\* (_acquire_dispatch_lock's TTL, cohort_analysis_job, daily_analysis_job).
DispatchedWhenHealthy ==
    faults = 0 => \A k \in Kinds : due[k] # Instances =>
                     sent[k] = 1 \/ (sent[k] = 0 /\ covered[k])

\* A period is dispatched neither more often nor less often than it should be
\* (_acquire_dispatch_lock, cohort_analysis_job).
DispatchesCounted == OneDispatchPerPeriod /\ DispatchedWhenHealthy

\* Two sweeps that overlap (a late one, a redelivered one, one of another kind)
\* never work on the same tenant, so their inserts never wait for each other and
\* cannot deadlock on the unique key (with_for_update(skip_locked=True)).
SweepsDisjoint ==
    \A v, w \in Workers :
        (v # w /\ Open(v) /\ Open(w)) => sweep[v].rows \cap sweep[w].rows = {}

\* The tasks of every kind run again and again, although a dispatch that fails
\* after the lock is taken, or an answer of Redis that is lost, loses its period
\* without a retry: no lock outlives its period (_acquire_dispatch_lock's TTL), and
\* requests cannot hold one for good.  What such a task achieves is another matter
\* (EveryTenantSwept).
TasksKeepComing ==
    \A k \in Kinds : []<>(\E w \in Workers : sweep[w] # Idle /\ sweep[w].kind = k)

\* Every kind reaches every tenant again and again: the next period makes up for a
\* sweep that gives up.  So the repository's documents have it ("runs a daily,
\* tenant-scoped acceptance capture sweep via the scheduler"); db.begin() in the
\* sweeps (open_transaction_session, _cohort_analysis_logic) contradicts it.
EveryTenantSwept ==
    \A k \in Kinds, t \in Tenants : []<>(t \in jobs[k])

=============================================================================
