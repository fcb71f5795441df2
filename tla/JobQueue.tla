------------------------------ MODULE JobQueue ------------------------------
(***************************************************************************)
(* The durable background job queue: rows of the background_jobs table,    *)
(* the JobProcessor sessions that claim and run them, the hourly stuck-job *)
(* detector, account closure and the retention purge.                      *)
(*                                                                         *)
(* A job of the model is a deduplication key: at most one row exists per   *)
(* key, and a purged row leaves the key free for a new one.  Clock reads   *)
(* are abstracted to the two comparisons the code makes: whether           *)
(* scheduled_for has passed (due) and whether created_at is older than the *)
(* detector's and the purge's cutoff (aged).  The order in which a batch   *)
(* is fetched (priority, scheduled_for) is left open.                      *)
(*                                                                         *)
(* Sessions are opened with expire_on_commit=False, so a processor works   *)
(* on the copy of the row it claimed, and the ORM writes only columns that *)
(* differ from that copy.  Nobody else writes attempts while a row is      *)
(* claimed; status is the column other sessions overwrite.                 *)
(***************************************************************************)
EXTENDS Naturals, FiniteSets

CONSTANTS
    Jobs,            \* deduplication keys
    Workers,         \* JobProcessor runs (pg_cron call, admin call)
    Tenants,
    TenantOf,        \* the tenant a job belongs to
    SelfCommitting,  \* jobs whose handler commits its own changes
    BatchLimit,      \* the limit of process_pending_jobs
    MaxAttempts,     \* BackgroundJob.max_attempts
    NoJob            \* the processor is not inside a handler

ASSUME JobQueueAssumption ==
    /\ TenantOf \in [Jobs -> Tenants]
    /\ SelfCommitting \subseteq Jobs
    /\ BatchLimit \in Nat \ {0}
    /\ MaxAttempts \in Nat \ {0}
    /\ NoJob \notin Jobs

VARIABLES
    row,        \* row[j]: the row of job j
    batch,      \* batch[w]: rows w has claimed and not started
    cur,        \* cur[w]: the job whose handler w is running
    committed,  \* committed[w]: that handler has committed on its own
    scan,       \* rows the stuck-job detector has read and not yet written
    effects     \* effects[j]: committed handler runs since j was enqueued

vars == <<row, batch, cur, committed, scan, effects>>

Status == {"absent", "pending", "running", "completed", "failed", "dead_letter"}

Row == [status   : Status,
        attempts : 0..MaxAttempts,
        due      : BOOLEAN,
        aged     : BOOLEAN,
        deleted  : BOOLEAN]

NoRow == [status |-> "absent", attempts |-> 0, due |-> FALSE,
          aged |-> FALSE, deleted |-> FALSE]

NewRow(due) == [status |-> "pending", attempts |-> 0, due |-> due,
                aged |-> FALSE, deleted |-> FALSE]

\* The rows, the claims of the processors and what the detector has read have
\* their types; no row is tried more often than max_attempts.
TypeOK ==
    /\ row \in [Jobs -> Row]
    /\ batch \in [Workers -> SUBSET Jobs]
    /\ cur \in [Workers -> Jobs \cup {NoJob}]
    /\ committed \in [Workers -> BOOLEAN]
    /\ scan \in SUBSET Jobs
    /\ effects \in [Jobs -> Nat]

Init ==
    /\ row = [j \in Jobs |-> NoRow]
    /\ batch = [w \in Workers |-> {}]
    /\ cur = [w \in Workers |-> NoJob]
    /\ committed = [w \in Workers |-> FALSE]
    /\ scan = {}
    /\ effects = [j \in Jobs |-> 0]

(***************************************************************************)
(* Producers and the clock.                                                *)
(***************************************************************************)

\* enqueue_job: the unique deduplication_key lets the insert through only
\* when no row has the key; otherwise the existing row is returned as it is.
EnqueueJob(j, due) ==
    /\ row[j].status = "absent"
    /\ row' = [row EXCEPT ![j] = NewRow(due)]
    /\ effects' = [effects EXCEPT ![j] = 0]
    /\ UNCHANGED <<batch, cur, committed, scan>>

\* scheduled_for passes.
BecomeDue(j) ==
    /\ row[j].status # "absent" /\ ~row[j].due
    /\ row' = [row EXCEPT ![j].due = TRUE]
    /\ UNCHANGED <<batch, cur, committed, scan, effects>>

\* created_at falls behind the detector's one-hour cutoff.
BecomeAged(j) ==
    /\ row[j].status # "absent" /\ ~row[j].aged
    /\ row' = [row EXCEPT ![j].aged = TRUE]
    /\ UNCHANGED <<batch, cur, committed, scan, effects>>

(***************************************************************************)
(* JobProcessor.                                                           *)
(***************************************************************************)

Claimed(w) == batch[w] \cup ({cur[w]} \ {NoJob})

Idle(w) == batch[w] = {} /\ cur[w] = NoJob

\* Mutant of Eligible: the attempts < max_attempts filter is dropped.
EligibleIgnoringAttempts(j) ==
    /\ row[j].status = "pending"
    /\ row[j].due
    /\ ~row[j].deleted

\* Mutant of Eligible: RUNNING rows are fetched again.
EligibleRunningToo(j) ==
    /\ row[j].status \in {"pending", "running"}
    /\ row[j].due
    /\ row[j].attempts < MaxAttempts
    /\ ~row[j].deleted

Eligible(j) ==
    /\ row[j].status = "pending"
    /\ row[j].due
    /\ row[j].attempts < MaxAttempts
    /\ ~row[j].deleted

\* SELECT ... FOR UPDATE SKIP LOCKED, mark RUNNING, commit: one transaction.
FetchAndLockBatch(w) ==
    /\ Idle(w)
    /\ \E S \in SUBSET {j \in Jobs : Eligible(j)} :
          /\ S # {}
          /\ Cardinality(S) <= BatchLimit
          /\ batch' = [batch EXCEPT ![w] = S]
          /\ row' = [j \in Jobs |->
                        IF j \in S THEN [row[j] EXCEPT !.status = "running"]
                                   ELSE row[j]]
    /\ UNCHANGED <<cur, committed, scan, effects>>

\* Mutant of StartJob: the attempt is not recorded before the handler runs.
StartJobUncounted(w, j) ==
    /\ cur[w] = NoJob
    /\ j \in batch[w]
    /\ batch' = [batch EXCEPT ![w] = @ \ {j}]
    /\ cur' = [cur EXCEPT ![w] = j]
    /\ UNCHANGED <<row, committed, scan, effects>>

\* The attempt is counted and committed before the handler runs.  The copy
\* already says RUNNING, so the status column is not written again.
StartJob(w, j) ==
    /\ cur[w] = NoJob
    /\ j \in batch[w]
    /\ batch' = [batch EXCEPT ![w] = @ \ {j}]
    /\ cur' = [cur EXCEPT ![w] = j]
    /\ row' = [row EXCEPT ![j].attempts = @ + 1]
    /\ UNCHANGED <<committed, scan, effects>>

\* A handler that calls db.commit() itself (billing webhooks, dunning).
HandlerCommits(w) ==
    /\ cur[w] \in SelfCommitting
    /\ ~committed[w]
    /\ committed' = [committed EXCEPT ![w] = TRUE]
    /\ effects' = [effects EXCEPT ![cur[w]] = @ + 1]
    /\ UNCHANGED <<row, batch, cur, scan>>

LeaveHandler(w) ==
    /\ cur' = [cur EXCEPT ![w] = NoJob]
    /\ committed' = [committed EXCEPT ![w] = FALSE]

\* The handler returned: COMPLETED and the handler's changes commit together.
CompleteJob(w) ==
    /\ cur[w] # NoJob
    /\ row' = [row EXCEPT ![cur[w]].status = "completed"]
    /\ effects' = IF committed[w] THEN effects
                  ELSE [effects EXCEPT ![cur[w]] = @ + 1]
    /\ LeaveHandler(w)
    /\ UNCHANGED <<batch, scan>>

\* Back in the queue, scheduled for later.
Requeued(r) == [r EXCEPT !.status = "pending", !.due = FALSE]

\* Mutant of FailJob: no savepoint, so a failed handler's changes are kept.
FailJobKeepingChanges(w) ==
    /\ cur[w] # NoJob
    /\ row' = [row EXCEPT ![cur[w]] =
                 IF @.attempts >= MaxAttempts
                   THEN [@ EXCEPT !.status = "dead_letter"]
                   ELSE Requeued(@)]
    /\ effects' = [effects EXCEPT ![cur[w]] = @ + 1]
    /\ LeaveHandler(w)
    /\ UNCHANGED <<batch, scan>>

\* Timeout or a recoverable error: the savepoint is rolled back and the row
\* goes back to PENDING with a backoff, or to the dead letters.
FailJob(w) ==
    /\ cur[w] # NoJob
    /\ row' = [row EXCEPT ![cur[w]] =
                 IF @.attempts >= MaxAttempts
                   THEN [@ EXCEPT !.status = "dead_letter"]
                   ELSE Requeued(@)]
    /\ LeaveHandler(w)
    /\ UNCHANGED <<batch, scan, effects>>

\* Mutant of CancelJob: the cancellation passes before the row is written.
CancelJobUnwritten(w) ==
    /\ cur[w] # NoJob
    /\ LeaveHandler(w)
    /\ UNCHANGED <<row, batch, scan, effects>>

\* CancelledError: back to PENDING whatever the number of attempts.
CancelJob(w) ==
    /\ cur[w] # NoJob
    /\ row' = [row EXCEPT ![cur[w]] = Requeued(@)]
    /\ LeaveHandler(w)
    /\ UNCHANGED <<batch, scan, effects>>

DropClaims(w) ==
    /\ batch' = [batch EXCEPT ![w] = {}]
    /\ LeaveHandler(w)
    /\ UNCHANGED <<row, scan, effects>>

\* An exception outside JOB_RUNTIME_RECOVERABLE_ERRORS (ValdricsException, a
\* bare Exception) or a failed commit leaves process_pending_jobs: nothing is
\* written for this job or for the rest of the batch.
UncaughtError(w) == cur[w] # NoJob /\ DropClaims(w)

\* The process dies with rows claimed.
CrashWorker(w) == ~Idle(w) /\ DropClaims(w)

(***************************************************************************)
(* The other writers of the table.                                         *)
(***************************************************************************)

\* Mutant of DetectRead: rows without attempts left are not looked for.
DetectReadRetryable ==
    /\ scan = {}
    /\ scan' = {j \in Jobs : /\ row[j].status = "pending"
                             /\ row[j].attempts < MaxAttempts
                             /\ row[j].aged
                             /\ ~row[j].deleted}
    /\ scan' # {}
    /\ UNCHANGED <<row, batch, cur, committed, effects>>

\* detect_stuck_jobs, first half: the select takes no lock.
DetectRead ==
    /\ scan = {}
    /\ scan' = {j \in Jobs : /\ row[j].status = "pending"
                             /\ row[j].aged
                             /\ ~row[j].deleted}
    /\ scan' # {}
    /\ UNCHANGED <<row, batch, cur, committed, effects>>

\* Mutant of DetectWrite: stuck rows are queued again instead of failed.
DetectWriteRequeue ==
    /\ scan # {}
    /\ row' = [j \in Jobs |-> IF j \in scan THEN [row[j] EXCEPT !.status = "pending"]
                                            ELSE row[j]]
    /\ scan' = {}
    /\ UNCHANGED <<batch, cur, committed, effects>>

\* Second half: every row read is set to FAILED by primary key.
DetectWrite ==
    /\ scan # {}
    /\ row' = [j \in Jobs |-> IF j \in scan THEN [row[j] EXCEPT !.status = "failed"]
                                            ELSE row[j]]
    /\ scan' = {}
    /\ UNCHANGED <<batch, cur, committed, effects>>

\* close_account: the tenant's open jobs are failed and soft-deleted.
CloseAccount(t) ==
    /\ row' = [j \in Jobs |->
                 IF TenantOf[j] = t /\ row[j].status \in {"pending", "running"}
                   THEN [row[j] EXCEPT !.status = "failed", !.deleted = TRUE]
                   ELSE row[j]]
    /\ row' # row
    /\ UNCHANGED <<batch, cur, committed, scan, effects>>

\* Mutant of PurgeTerminalJobs: FAILED counts as terminal, although a processor
\* may still hold a row the detector failed.
PurgeFailedJobsToo(S) ==
    /\ S # {}
    /\ \A j \in S : /\ row[j].status \in {"completed", "dead_letter", "failed"}
                    /\ row[j].aged
    /\ row' = [j \in Jobs |-> IF j \in S THEN NoRow ELSE row[j]]
    /\ scan' = IF S \cap scan # {} THEN {} ELSE scan
    /\ UNCHANGED <<batch, cur, committed, effects>>

\* purge_terminal_background_jobs deletes a batch of old terminal rows.  A
\* detector that read one of them before the purge updates no row for it, and
\* its whole transaction fails.
PurgeTerminalJobs(S) ==
    /\ S # {}
    /\ \A j \in S : row[j].status \in {"completed", "dead_letter"} /\ row[j].aged
    /\ row' = [j \in Jobs |-> IF j \in S THEN NoRow ELSE row[j]]
    /\ scan' = IF S \cap scan # {} THEN {} ELSE scan
    /\ UNCHANGED <<batch, cur, committed, effects>>

-----------------------------------------------------------------------------

FinishJob(w) == CompleteJob(w) \/ FailJob(w) \/ CancelJob(w)

Next ==
    \/ \E j \in Jobs, due \in BOOLEAN : EnqueueJob(j, due)
    \/ \E j \in Jobs : BecomeDue(j)
    \/ \E j \in Jobs : BecomeAged(j)
    \/ \E w \in Workers : FetchAndLockBatch(w)
    \/ \E w \in Workers, j \in Jobs : StartJob(w, j)
    \/ \E w \in Workers : HandlerCommits(w)
    \/ \E w \in Workers : CompleteJob(w)
    \/ \E w \in Workers : FailJob(w)
    \/ \E w \in Workers : CancelJob(w)
    \/ DetectRead
    \/ DetectWrite
    \/ \E t \in Tenants : CloseAccount(t)
    \/ \E S \in SUBSET Jobs : PurgeTerminalJobs(S)
    \/ \E w \in Workers : UncaughtError(w)
    \/ \E w \in Workers : CrashWorker(w)

Spec == Init /\ [][Next]_vars

\* pg_cron calls the processor every minute and a processor works through its
\* batch (each handler under a timeout), APScheduler runs the detector every
\* hour, and time passes.  A detector pass is lost only to a purge of a row it
\* has just read as PENDING; the purge takes rows days old, so it cannot defeat
\* every pass (strong fairness).  Enqueueing, closure and the purge owe nothing.
Fairness ==
    /\ \A w \in Workers : WF_vars(FetchAndLockBatch(w))
    /\ \A w \in Workers : WF_vars(\E j \in Jobs : StartJob(w, j))
    /\ \A w \in Workers : WF_vars(FinishJob(w))
    /\ \A j \in Jobs : WF_vars(BecomeDue(j)) /\ WF_vars(BecomeAged(j))
    /\ WF_vars(DetectRead) /\ SF_vars(DetectWrite)

FairSpec == Spec /\ Fairness

-----------------------------------------------------------------------------
(***************************************************************************)
(* Properties.                                                             *)
(***************************************************************************)

\* No row is claimed by two processors, although the detector, closure and
\* retries overwrite the status of claimed rows (_fetch_and_lock_batch:
\* "Atomically fetch and mark jobs as RUNNING to prevent double-processing").
SoleOwner ==
    \A v, w \in Workers : v # w => Claimed(v) \cap Claimed(w) = {}

\* Every committed handler effect was paid for by an attempt already on
\* record, so a handler never takes effect more than MaxAttempts times, even
\* when it commits on its own and is then failed, cancelled or crashed
\* (_process_single_job commits the attempt before it runs the handler).
EffectsWithinAttempts ==
    \A j \in Jobs : row[j].status # "absent" => effects[j] <= row[j].attempts

\* A handler that leaves the commit to the processor takes effect at most
\* once per enqueued row, and exactly once if the row says COMPLETED.
EffectOnce ==
    \A j \in Jobs \ SelfCommitting :
        /\ effects[j] <= 1
        /\ row[j].status = "completed" => effects[j] = 1

\* The effects of a job are accounted for (_process_single_job): by its attempts, and
\* by its completion where the processor commits them.
EffectsAccounted == EffectsWithinAttempts /\ EffectOnce

\* A finished row is never queued or running again: the writers that work
\* from a stale copy cannot bring it back.
NoResurrection ==
    [][\A j \in Jobs :
         row[j].status \in {"completed", "dead_letter"}
           => row'[j].status \notin {"pending", "running"}]_vars

Settled(j) == \/ row[j].status \in {"completed", "failed", "dead_letter", "absent"}
              \/ row[j].deleted

\* RUNNING, and no processor knows of it any more.
Orphaned(j) == row[j].status = "running" /\ \A w \in Workers : j \notin Claimed(w)

\* A queued or running job is eventually settled (completed, failed, dead, or
\* its tenant closed) unless the processor that claimed it was lost: however
\* often the job is cancelled, retried or passed over, either an attempt ends
\* it or detect_stuck_jobs does.
SettledUnlessOrphaned ==
    \A j \in Jobs : ~Settled(j) ~> (Settled(j) \/ Orphaned(j))

\* A row is orphaned by nothing but the loss of the processor that had it, which
\* loses its whole batch: no claim, retry, cancellation, detector pass or closure
\* leaves a row RUNNING that nobody runs, so the exemption of
\* SettledUnlessOrphaned covers lost processors only (process_pending_jobs).
OrphanedByLossOnly ==
    [][\A j \in Jobs :
         (~Orphaned(j) /\ Orphaned(j)')
           => \E w \in Workers : j \in Claimed(w) /\ Idle(w)' /\ row' = row]_vars

\* A row waiting for its scheduled_for is not failed before it has come.
ScheduledJobsAreKept ==
    [][\A j \in Jobs :
         (row[j].status = "pending" /\ ~row[j].due /\ row[j].attempts = 0)
           => (row'[j].status = "pending" \/ row'[j].deleted)]_vars

-----------------------------------------------------------------------------
(***************************************************************************)
(* The queue implements the abstract work queue: a row is an item, and a   *)
(* processor holds what it has claimed and not finished.                   *)
(***************************************************************************)

StateOf(r) == CASE r.status = "absent"  -> "none"
                [] r.status = "pending" -> "waiting"
                [] r.status = "running" -> "taken"
                [] r.status = "failed"  -> "failed"
                [] OTHER                -> "ended"

WQ == INSTANCE WorkQueue WITH
        Items    <- Jobs,
        MaxTries <- MaxAttempts,
        state    <- [j \in Jobs |-> StateOf(row[j])],
        holds    <- [w \in Workers |-> Claimed(w)],
        tries    <- [j \in Jobs |-> row[j].attempts],
        runs     <- effects

\* Every step of the processors, the detector, account closure and the purge is
\* a step of the work queue or invisible to it.  In particular a row is taken
\* only while nobody holds it, a row the detector or closure failed waits again
\* only if the processor that still holds it puts it back, and no handler
\* effect is durable outside an attempt on record (_fetch_and_lock_batch,
\* _process_single_job, detect_stuck_jobs).
ImplementsWorkQueue == WQ!Spec

=============================================================================
