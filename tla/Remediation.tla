----------------------------- MODULE Remediation -----------------------------
(***************************************************************************)
(* The remediation request: a row that proposes a change to one cloud      *)
(* resource, reviewed by people, executed by API calls, by background jobs *)
(* after a grace period, by the savings autopilot and by the budget hard   *)
(* limit.                                                                  *)
(*                                                                         *)
(* Sessions are opened with expire_on_commit=False and no query asks for   *)
(* populate_existing, so a row that a session has loaded once keeps, in    *)
(* that session, the values it had then: a later SELECT ... FOR UPDATE     *)
(* locks the row and returns the old copy.  A session of the model         *)
(* therefore carries the copy it decides on (mem), and a flush writes the  *)
(* columns in which the new values differ from that copy.                  *)
(*                                                                         *)
(* The clock counts days: the grace period is a number of days, and the    *)
(* kill switch and the failure breaker look at the rows executed today.    *)
(* What the guards read elsewhere (the month's spend, the remediation      *)
(* policy) is an input chosen freely.                                      *)
(***************************************************************************)
EXTENDS Integers, FiniteSets, Functions

CONSTANTS
    Requests,      \* rows of remediation_requests of one tenant
    Sessions,      \* database sessions: API calls, job runs, autopilot runs
    Savings,       \* estimated_monthly_savings of a request
    Grace,         \* grace period of a request, in days
    SafeActions,   \* requests the hard limit and the autopilot may approve
    Threshold,     \* REMEDIATION_KILL_SWITCH_THRESHOLD
    FailureLimit,  \* failures of a day that open the breaker
    Existing,      \* requests created before the model starts
    Bypass,        \* AUTOPILOT_BYPASS_GRACE_PERIOD
    RequiredRole,  \* policy_escalation_required_role
    MaxDay,        \* bound: days the clock counts
    MaxGrace,      \* bound: the longest grace period
    MaxJobs,       \* bound: queued jobs of one request and day
    MaxCalls,      \* bound: operations people and the autopilot begin
    MaxFaults,     \* bound: crashes, aborted jobs and jobs failed as stuck
    NoRequest

ASSUME RemediationAssumption ==
    /\ IsFiniteSet(Requests) /\ Savings \in [Requests -> Nat]
    /\ MaxGrace \in Nat \ {0} /\ Grace \in [Requests -> 1..MaxGrace]
    /\ SafeActions \subseteq Requests /\ Existing \subseteq Requests
    /\ Threshold \in Nat \ {0}
    /\ FailureLimit \in Nat \ {0}
    /\ Bypass \in BOOLEAN
    /\ RequiredRole \in {"owner", "admin"}
    /\ MaxDay \in Nat \ {0} /\ MaxJobs \in Nat \ {0}
    /\ MaxCalls \in Nat /\ MaxFaults \in Nat
    /\ NoRequest \notin Requests

VARIABLES
    day,      \* today
    row,      \* row[r]: the committed row
    ses,      \* ses[s]: what session s is doing, and the copy it works on
    jobs,     \* jobs[r][d]: queued jobs for r with scheduled_for = d
    calls,    \* operations begun so far
    faults,   \* faults so far
    hist      \* hist[r]: what happened to r (for the properties only)

vars == <<day, row, ses, jobs, calls, faults, hist>>

Days == 1..MaxDay

\* Unset timestamp (scheduled_execution_at, executed_at).
Never == 0

Later == 0..(MaxDay + MaxGrace)

Status == {"absent", "pending", "pending_approval", "approved", "rejected",
           "scheduled", "executing", "completed", "failed"}

Row == [status : Status, escalated : BOOLEAN, scheduledAt : Later, executedAt : Later]

NoRow == [status |-> "absent", escalated |-> FALSE,
          scheduledAt |-> Never, executedAt |-> Never]

NewRow == [NoRow EXCEPT !.status = "pending"]

Step == {"idle", "approve", "override", "execute", "enqueue", "running"}

Session == [step   : Step,
            r      : Requests \cup {NoRequest},
            mem    : Row,
            then   : BOOLEAN,          \* execute follows the approval
            bypass : BOOLEAN,          \* bypass_grace_period
            job    : Later]            \* scheduled_for of the job, Never if none

Idle == [step |-> "idle", r |-> NoRequest, mem |-> NoRow, then |-> FALSE,
         bypass |-> FALSE, job |-> Never]

History == [runs       : 0..2,         \* strategy runs begun, saturating
            approvedOn : Later,
            rejected   : BOOLEAN,
            unreviewed : BOOLEAN,      \* escalated, and none of the roles for it approved since
            outdated   : BOOLEAN,      \* some session decided on an old copy
            overlapped : BOOLEAN,      \* its run began while another was going on
            lost       : BOOLEAN]      \* a fault dropped its job or its run

NoHistory == [runs |-> 0, approvedOn |-> Never, rejected |-> FALSE,
              unreviewed |-> FALSE, outdated |-> FALSE,
              overlapped |-> FALSE, lost |-> FALSE]

\* The requests, the queued jobs and the sessions have their types.
TypeOK ==
    /\ day \in Days
    /\ row \in [Requests -> Row]
    /\ ses \in [Sessions -> Session]
    /\ jobs \in [Requests -> [Later -> 0..MaxJobs]]
    /\ calls \in 0..MaxCalls
    /\ faults \in 0..MaxFaults
    /\ hist \in [Requests -> History]

Init ==
    /\ day = 1
    /\ row = [r \in Requests |-> IF r \in Existing THEN NewRow ELSE NoRow]
    /\ ses = [s \in Sessions |-> Idle]
    /\ jobs = [r \in Requests |-> [d \in Later |-> 0]]
    /\ calls = 0
    /\ faults = 0
    /\ hist = [r \in Requests |-> NoHistory]

\* A day passes.
Tick ==
    /\ day < MaxDay
    /\ day' = day + 1
    /\ UNCHANGED <<row, ses, jobs, calls, faults, hist>>

\* The unit of work: only the columns that differ from the session's copy go
\* into the UPDATE.
Flush(cur, mem, new) == [c \in DOMAIN cur |-> IF new[c] = mem[c] THEN cur[c] ELSE new[c]]

\* A session begins an operation.
Call(s) == ses[s] = Idle /\ calls < MaxCalls /\ calls' = calls + 1

Close(s) == ses' = [ses EXCEPT ![s] = Idle]

\* A transaction of session s that writes new for the request it works on.
Commit(s, new) ==
    LET r == ses[s].r IN
    row' = [row EXCEPT ![r] = Flush(@, ses[s].mem, new)]

\* The history of r becomes h.  Nothing more is remembered of a request once a
\* session has decided on an outdated copy of it: the properties exempt it.
Note(r, s, h) ==
    hist' = [hist EXCEPT ![r] =
               IF h.outdated \/ row[r] # ses[s].mem
                 THEN [NoHistory EXCEPT !.outdated = TRUE, !.lost = h.lost,
                                        !.overlapped = h.overlapped]
                 ELSE h]

-----------------------------------------------------------------------------
(***************************************************************************)
(* Creation and review.                                                    *)
(***************************************************************************)

\* create_request by a user, or by a sweep that leaves the review to people.
CreateRequest(r) ==
    /\ row[r].status = "absent"
    /\ row' = [row EXCEPT ![r] = NewRow]
    /\ UNCHANGED <<day, ses, jobs, calls, faults, hist>>

\* The savings autopilot creates the request, approves and executes it in one
\* session.
AutopilotCreate(s, r) ==
    /\ Call(s)
    /\ row[r].status = "absent"
    /\ r \in SafeActions
    /\ row' = [row EXCEPT ![r] = NewRow]
    /\ ses' = [ses EXCEPT ![s] = [Idle EXCEPT !.step = "approve", !.r = r, !.mem = NewRow,
                                              !.then = TRUE, !.bypass = Bypass]]
    /\ UNCHANGED <<day, jobs, faults, hist>>

\* The approve endpoint loads the row to see which permission it needs.
LoadToApprove(s, r) ==
    /\ Call(s)
    /\ row[r].status # "absent"
    /\ ses' = [ses EXCEPT ![s] = [Idle EXCEPT !.step = "approve", !.r = r, !.mem = row[r]]]
    /\ UNCHANGED <<day, row, jobs, faults, hist>>

Roles == {"owner", "admin", "member"}

\* Who may approve an escalated request.
EscalationRoles == {"owner", RequiredRole}

\* Mutant of MayApprove: an escalated request is approved by anybody.
MayApproveAnyRole(mem, role) ==
    mem.status \in {"pending", "pending_approval"}

\* approve_request: the status and the role are checked on the session's copy.
MayApprove(mem, role) ==
    /\ mem.status \in {"pending", "pending_approval"}
    /\ mem.escalated => role \in EscalationRoles

\* An approval, refused (the session ends) or given.  The refresh after the
\* commit gives the session the row as it is now.
Approve(s, role) ==
    LET r == ses[s].r
        mem == ses[s].mem
    IN
    /\ ses[s].step = "approve"
    /\ ses[s].then => role = "member"
    /\ IF MayApprove(mem, role)
         THEN /\ Commit(s, [mem EXCEPT !.status = "approved", !.escalated = FALSE])
              /\ Note(r, s, [hist[r] EXCEPT !.approvedOn = day,
                               !.unreviewed = @ /\ role \notin EscalationRoles])
              /\ ses' = [ses EXCEPT ![s] = IF ses[s].then
                           THEN [ses[s] EXCEPT !.step = "execute", !.mem = row'[r]]
                           ELSE Idle]
         ELSE Close(s) /\ UNCHANGED <<row, hist>>
    /\ UNCHANGED <<day, jobs, calls, faults>>

\* reject_request: its first read of the row is the locking one.
Reject(r) ==
    /\ row[r].status \in {"pending", "pending_approval"}
    /\ row' = [row EXCEPT ![r].status = "rejected", ![r].escalated = FALSE]
    /\ hist' = [hist EXCEPT ![r].rejected = TRUE, ![r].unreviewed = FALSE]
    /\ UNCHANGED <<day, ses, jobs, calls, faults>>

\* enforce_hard_limit selects the PENDING requests, without a lock.
HardLimitSelect(s, r) ==
    /\ Call(s)
    /\ row[r].status = "pending"
    /\ r \in SafeActions
    /\ ses' = [ses EXCEPT ![s] = [Idle EXCEPT !.step = "override", !.r = r, !.mem = row[r],
                                              !.bypass = Bypass]]
    /\ UNCHANGED <<day, row, jobs, faults, hist>>

\* It then approves each one by primary key, and executes it.
HardLimitApprove(s) ==
    LET r == ses[s].r
        new == [ses[s].mem EXCEPT !.status = "approved"]
    IN
    /\ ses[s].step = "override"
    /\ Commit(s, new)
    /\ Note(r, s, [hist[r] EXCEPT !.approvedOn = day])
    /\ ses' = [ses EXCEPT ![s].step = "execute", ![s].mem = new]
    /\ UNCHANGED <<day, jobs, calls, faults>>

-----------------------------------------------------------------------------
(***************************************************************************)
(* Execution.                                                              *)
(***************************************************************************)

\* The execute endpoint loads the row to see which permission it needs.
LoadToExecute(s, r, bypass) ==
    /\ Call(s)
    /\ row[r].status # "absent"
    /\ ses' = [ses EXCEPT ![s] = [Idle EXCEPT !.step = "execute", !.r = r, !.mem = row[r],
                                              !.bypass = bypass]]
    /\ UNCHANGED <<day, row, jobs, faults, hist>>

\* Mutant of StartJob: a job is run that is no longer in the queue.
StartJobUnclaimed(s, r, d) ==
    /\ ses[s] = Idle
    /\ d <= day
    /\ jobs' = [jobs EXCEPT ![r][d] = @ - 1]
    /\ ses' = [ses EXCEPT ![s] = [Idle EXCEPT !.step = "execute", !.r = r,
                                              !.mem = row[r], !.job = d]]
    /\ UNCHANGED <<day, row, calls, faults, hist>>

\* RemediationHandler: a due job loads the row; a request whose grace period
\* has not ended is left alone, and the job counts as completed.
StartJob(s, r, d) ==
    /\ ses[s] = Idle
    /\ d <= day
    /\ jobs[r][d] > 0
    /\ jobs' = [jobs EXCEPT ![r][d] = @ - 1]
    /\ IF row[r].status = "scheduled" /\ day < row[r].scheduledAt
         THEN UNCHANGED ses
         ELSE ses' = [ses EXCEPT ![s] = [Idle EXCEPT !.step = "execute", !.r = r,
                                                     !.mem = row[r], !.job = d]]
    /\ UNCHANGED <<day, row, calls, faults, hist>>

\* Savings of the rows completed today.
TodaysImpact ==
    SumFunctionOnSet(Savings,
                     {r \in Requests : row[r].status = "completed" /\ row[r].executedAt = day})

\* Mutant of KillSwitch: the impact of the request itself is not counted.
KillSwitchWithoutImpact(r) == TodaysImpact >= Threshold

KillSwitch(r) == TodaysImpact + Savings[r] >= Threshold

\* The breaker counts FAILED rows by executed_at, which only a success sets.
BreakerOpen ==
    Cardinality({r \in Requests : row[r].status = "failed" /\ row[r].executedAt = day})
        >= FailureLimit

\* check_all_guards; capped: the month's spend is over the hard cap.
GuardsPass(r, capped) == ~KillSwitch(r) /\ ~capped /\ ~BreakerOpen

\* Mutant of Executable: a COMPLETED request is executed again.
ExecutableAgain(mem) == mem.status \in {"approved", "scheduled", "completed"}

Executable(mem) == mem.status \in {"approved", "scheduled"}

InGrace(s) == /\ ses[s].mem.status = "scheduled"
              /\ day < ses[s].mem.scheduledAt
              /\ ~ses[s].bypass

\* Any recoverable error, a guard or a wrong status among them: FAILED.
Fail(s) ==
    /\ Commit(s, [ses[s].mem EXCEPT !.status = "failed"])
    /\ Note(ses[s].r, s, hist[ses[s].r])
    /\ Close(s)

\* ESCALATE: back to the reviewers.
Escalate(s) ==
    LET r == ses[s].r IN
    /\ Commit(s, [ses[s].mem EXCEPT !.status = "pending_approval", !.escalated = TRUE])
    /\ Note(r, s, [hist[r] EXCEPT !.unreviewed = TRUE])
    /\ Close(s)

\* maybe_schedule_grace_period_execution: SCHEDULED is committed here, the job
\* is queued in a transaction of its own.
Schedule(s) ==
    LET r == ses[s].r
        new == [ses[s].mem EXCEPT !.status = "scheduled", !.scheduledAt = day + Grace[r]]
    IN
    /\ Commit(s, new)
    /\ Note(r, s, hist[r])
    /\ ses' = [ses EXCEPT ![s].step = "enqueue", ![s].mem = new]

\* EXECUTING is committed, which releases the lock, before the cloud is called.
StartRun(s) ==
    LET r == ses[s].r
        new == [ses[s].mem EXCEPT !.status = "executing"]
    IN
    /\ Commit(s, new)
    /\ Note(r, s, [hist[r] EXCEPT !.runs = IF @ = 2 THEN 2 ELSE @ + 1,
                                   !.overlapped = \E t \in Sessions : ses[t].step = "running"])
    /\ ses' = [ses EXCEPT ![s].step = "running", ![s].mem = new]

\* execute_remediation_request up to the call of the strategy: guards, status,
\* grace period, policy, in the code's order.  WARN goes on like ALLOW.
Execute(s, capped, policy) ==
    LET r == ses[s].r IN
    /\ ses[s].step = "execute"
    /\ \/ /\ ~GuardsPass(r, capped) \/ ~Executable(ses[s].mem)
          /\ Fail(s)
       \/ /\ GuardsPass(r, capped) /\ Executable(ses[s].mem)
          /\ IF InGrace(s) THEN Close(s) /\ UNCHANGED <<row, hist>>
             ELSE \/ policy = "block" /\ Fail(s)
                  \/ policy = "escalate" /\ Escalate(s)
                  \/ /\ policy = "allow"
                     /\ IF ses[s].mem.status = "approved" /\ ~ses[s].bypass
                          THEN Schedule(s) ELSE StartRun(s)
    /\ UNCHANGED <<day, jobs, calls, faults>>

\* Mutant of EnqueueJob: no job is queued for the end of the grace period.
EnqueueNothing(s) ==
    /\ ses[s].step = "enqueue"
    /\ Close(s)
    /\ UNCHANGED <<day, row, jobs, calls, faults, hist>>

\* enqueue_job, after the commit of SCHEDULED.
EnqueueJob(s) ==
    LET r == ses[s].r
        d == ses[s].mem.scheduledAt
    IN
    /\ ses[s].step = "enqueue"
    /\ jobs[r][d] < MaxJobs
    /\ jobs' = [jobs EXCEPT ![r][d] = @ + 1]
    /\ Close(s)
    /\ UNCHANGED <<day, row, calls, faults, hist>>

\* An error in the audit log or in enqueue_job, after the commit of SCHEDULED:
\* FAILED, like any other error of the execution.
EnqueueFails(s) ==
    /\ ses[s].step = "enqueue"
    /\ Fail(s)
    /\ UNCHANGED <<day, jobs, calls, faults>>

\* What the session's row says after strategy.execute: an error after a success
\* (in the audit log) overwrites COMPLETED and leaves executed_at.
Result(mem, outcome) ==
    CASE outcome = "success" -> [mem EXCEPT !.status = "completed", !.executedAt = day]
      [] outcome = "late"    -> [mem EXCEPT !.status = "failed", !.executedAt = day]
      [] OTHER               -> [mem EXCEPT !.status = "failed"]

\* apply_execution_result, commit, refresh.
FinishRun(s, outcome) ==
    /\ ses[s].step = "running"
    /\ Commit(s, Result(ses[s].mem, outcome))
    /\ Close(s)
    /\ UNCHANGED <<day, jobs, calls, faults, hist>>

-----------------------------------------------------------------------------
(***************************************************************************)
(* Faults.                                                                 *)
(***************************************************************************)

Fault == faults < MaxFaults /\ faults' = faults + 1

\* A job handler is cancelled (timeout, shutdown): the open transaction is
\* rolled back and the job is queued again.  The job of a new grace period is
\* lost if it was not queued yet.
AbortJob(s) ==
    LET r == ses[s].r IN
    /\ Fault
    /\ ses[s].step # "idle" /\ ses[s].job # Never
    /\ jobs[r][ses[s].job] < MaxJobs
    /\ jobs' = [jobs EXCEPT ![r][ses[s].job] = @ + 1]
    /\ hist' = [hist EXCEPT ![r].lost = @ \/ ses[s].step = "enqueue"]
    /\ Close(s)
    /\ UNCHANGED <<day, row, calls>>

\* The process dies: what is committed stays, the rest is gone.
Crash(s) ==
    /\ Fault
    /\ ses[s].step # "idle"
    /\ hist' = [hist EXCEPT ![ses[s].r].lost = TRUE]
    /\ Close(s)
    /\ UNCHANGED <<day, row, jobs, calls>>

\* detect_stuck_jobs fails jobs that have been pending for an hour, those that
\* wait for the end of a grace period included.
DetectStuckJob(r, d) ==
    /\ Fault
    /\ jobs[r][d] > 0
    /\ jobs' = [jobs EXCEPT ![r][d] = @ - 1]
    /\ hist' = [hist EXCEPT ![r].lost = TRUE]
    /\ UNCHANGED <<day, row, ses, calls>>

-----------------------------------------------------------------------------

Policies == {"allow", "block", "escalate"}

ExecuteSome(s) == \E capped \in BOOLEAN, policy \in Policies : Execute(s, capped, policy)

Next ==
    \/ Tick
    \/ \E r \in Requests : CreateRequest(r)
    \/ \E r \in Requests : Reject(r)
    \/ \E s \in Sessions, r \in Requests : AutopilotCreate(s, r)
    \/ \E s \in Sessions, r \in Requests : LoadToApprove(s, r)
    \/ \E s \in Sessions, role \in Roles : Approve(s, role)
    \/ \E s \in Sessions, r \in Requests : HardLimitSelect(s, r)
    \/ \E s \in Sessions : HardLimitApprove(s)
    \/ \E s \in Sessions, r \in Requests, b \in BOOLEAN : LoadToExecute(s, r, b)
    \/ \E s \in Sessions, r \in Requests, d \in Days : StartJob(s, r, d)
    \/ \E s \in Sessions : ExecuteSome(s)
    \/ \E s \in Sessions : EnqueueJob(s)
    \/ \E s \in Sessions : EnqueueFails(s)
    \/ \E s \in Sessions, o \in {"success", "failure", "late"} : FinishRun(s, o)
    \/ \E s \in Sessions : AbortJob(s)
    \/ \E s \in Sessions : Crash(s)
    \/ \E r \in Requests, d \in Later : DetectStuckJob(r, d)

Spec == Init /\ [][Next]_vars

-----------------------------------------------------------------------------
(***************************************************************************)
(* Properties.                                                             *)
(***************************************************************************)

\* A request runs at most once, whoever executes it (API, job, autopilot, hard
\* limit, retries after an abort or a crash), unless a session decided on a
\* copy of the row that was already out of date: remediation.py says "Row
\* locking is enforced via with_for_update in execute_remediation_request".
RunsAtMostOnce ==
    \A r \in Requests : hist[r].runs <= 1 \/ hist[r].outdated

\* What a reviewer rejected is never run, except by a session that loaded the
\* request before the rejection (the autopilot, the hard limit, a second
\* reviewer).
RejectedNeverRuns ==
    \A r \in Requests : hist[r].rejected => hist[r].runs = 0 \/ hist[r].outdated

\* A run without bypass begins no sooner than the grace period after the latest
\* approval, however often the request is escalated, approved and scheduled
\* again.
GraceRespected ==
    \A s \in Sessions :
        LET r == ses[s].r IN
        (ses[s].step = "running" /\ ~ses[s].bypass)
            => day >= hist[r].approvedOn + Grace[r] \/ hist[r].outdated

\* A request that the policy escalated runs only after an owner, or somebody of the
\* role the tenant requires, approved it: the bypass flag, the hard limit and older
\* jobs do not get around the review.
EscalationReviewed ==
    \A s \in Sessions :
        LET r == ses[s].r IN
        ses[s].step = "running" => ~hist[r].unreviewed \/ hist[r].outdated

\* What runs is what the reviewers agreed to: not rejected, not before its grace
\* period has ended, and reviewed again if the policy asked for it
\* (execute_remediation_request).
ReviewRespected == RejectedNeverRuns /\ GraceRespected /\ EscalationReviewed

\* A request runs once, and only as its reviewers agreed
\* (execute_remediation_request).
RunsAreLawful == RunsAtMostOnce /\ ReviewRespected

\* The impact of the rows completed today reaches the kill switch's threshold
\* only if one of the runs began while another was still going on: the guard
\* counts completed rows and reserves nothing.
KillSwitchUnlessOverlap ==
    \/ TodaysImpact < Threshold
    \/ \E r \in Requests : /\ row[r].status = "completed" /\ row[r].executedAt = day
                            /\ hist[r].overlapped

\* A request in its grace period is not forgotten: a job waits for the end of
\* that period, or a session is about to queue or is running one, unless a
\* fault took it (SCHEDULED is committed before the job is queued).
GracePeriodHasJob ==
    \A r \in Requests :
        row[r].status = "scheduled"
            => \/ jobs[r][row[r].scheduledAt] > 0
               \/ \E s \in Sessions : /\ ses[s].r = r
                                       /\ (ses[s].step = "enqueue" \/ ses[s].job # Never)
               \/ hist[r].lost

=============================================================================
