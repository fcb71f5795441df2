-------------------------- MODULE ActionExecutions --------------------------
(***************************************************************************)
(* The enforcement action queue (EnforcementActionOrchestrator): rows of   *)
(* enforcement_action_executions, leased, completed, failed and cancelled  *)
(* by HTTP requests that each run in a session of their own.               *)
(*                                                                         *)
(* No request locks the row it reads.  A lease is a select followed by an  *)
(* update conditioned on what was selected; complete, fail and cancel read *)
(* the row, check it, and later write the columns that changed against the *)
(* copy they read, by primary key and without condition.  So every request *)
(* is two steps here, and anything may happen in between.                  *)
(*                                                                         *)
(* Clock reads are abstracted to the comparisons made: next_retry_at has   *)
(* passed (due), lease_expires_at is null, ahead or passed.  An action of  *)
(* the model is an idempotency key of a decision; the order in which       *)
(* candidates are selected is left open.                                   *)
(***************************************************************************)
EXTENDS Naturals, FiniteSets

CONSTANTS
    Actions,      \* (decision, action_type, idempotency_key) triples
    Workers,      \* the user ids workers call the API with
    Requests,     \* HTTP requests in flight at one time
    MaxAttempts,  \* max_attempts of a row
    MaxTries,     \* rounds of the loop of lease_next_action (5)
    Retransmit,   \* a worker may send a report again before the first answers
    NoWorker      \* locked_by_worker_id is null

ASSUME ActionExecutionsAssumption ==
    /\ MaxAttempts \in Nat \ {0}
    /\ MaxTries \in Nat \ {0}
    /\ Retransmit \in BOOLEAN
    /\ NoWorker \notin Workers

VARIABLES
    row,        \* row[a]: the row of action a
    req,        \* req[r]: the request r is serving, with the row it read
    executing,  \* executing[a]: workers granted a that have not reported yet
    grants,     \* grants[a]: leases of a ever granted
    lost        \* workers that died

vars == <<row, req, executing, grants, lost>>

Status == {"absent", "queued", "running", "succeeded", "failed", "cancelled"}
Terminal == {"succeeded", "failed", "cancelled"}

Row == [status   : Status,
        attempts : 0..MaxAttempts,
        owner    : Workers \cup {NoWorker},
        lease    : {"none", "held", "expired"},
        due      : BOOLEAN]

NoRow == [status |-> "absent", attempts |-> 0, owner |-> NoWorker,
          lease |-> "none", due |-> FALSE]

Request == [op        : {"lease", "complete", "fail", "cancel"},
            worker    : Workers,
            action    : Actions,
            copy      : Row,
            retryable : BOOLEAN,
            tries     : 1..MaxTries]

NoRequest == [op |-> "idle"]

\* The rows, the requests under way and the workers that execute have their types.
TypeOK ==
    /\ row \in [Actions -> Row]
    /\ req \in [Requests -> Request \cup {NoRequest}]
    /\ executing \in [Actions -> SUBSET Workers]
    /\ grants \in [Actions -> Nat]
    /\ lost \in SUBSET Workers

Init ==
    /\ row = [a \in Actions |-> NoRow]
    /\ req = [r \in Requests |-> NoRequest]
    /\ executing = [a \in Actions |-> {}]
    /\ grants = [a \in Actions |-> 0]
    /\ lost = {}

\* create_action_request for a decision that admits it: the unique key lets
\* one insert through, every other caller gets the existing row.
CreateActionRequest(a) ==
    /\ row[a].status = "absent"
    /\ row' = [row EXCEPT ![a] = [NoRow EXCEPT !.status = "queued", !.due = TRUE]]
    /\ UNCHANGED <<req, executing, grants, lost>>

\* next_retry_at passes.
BecomeDue(a) ==
    /\ row[a].status # "absent" /\ ~row[a].due
    /\ row' = [row EXCEPT ![a].due = TRUE]
    /\ UNCHANGED <<req, executing, grants, lost>>

\* lease_expires_at passes.
LeaseExpires(a) ==
    /\ row[a].lease = "held"
    /\ row' = [row EXCEPT ![a].lease = "expired"]
    /\ UNCHANGED <<req, executing, grants, lost>>

(***************************************************************************)
(* lease_next_action.                                                      *)
(***************************************************************************)

Candidate(a) ==
    /\ row[a].status = "queued"
    /\ row[a].due
    /\ row[a].attempts < MaxAttempts
    /\ row[a].lease # "held"

LeaseRequest(w, a, n) ==
    [op |-> "lease", worker |-> w, action |-> a, copy |-> row[a],
     retryable |-> FALSE, tries |-> n]

LeaseSelect(r, w, a) ==
    /\ req[r] = NoRequest
    /\ w \notin lost
    /\ Candidate(a)
    /\ req' = [req EXCEPT ![r] = LeaseRequest(w, a, 1)]
    /\ UNCHANGED <<row, executing, grants, lost>>

\* Mutant of Claimable: the update has no condition but the primary key.
ClaimableById(r) == req[r].op = "lease"

\* The condition of the claiming update.
Claimable(r) ==
    LET now == row[req[r].action] IN
    /\ now.status = "queued"
    /\ now.attempts = req[r].copy.attempts
    /\ now.lease # "held"

LeaseClaim(r) ==
    /\ req[r].op = "lease"
    /\ Claimable(r)
    /\ LET a == req[r].action
           w == req[r].worker
       IN  /\ row' = [row EXCEPT ![a].status = "running",
                                 ![a].attempts = req[r].copy.attempts + 1,
                                 ![a].owner = w,
                                 ![a].lease = "held"]
           /\ executing' = [executing EXCEPT ![a] = @ \cup {w}]
           /\ grants' = [grants EXCEPT ![a] = @ + 1]
    /\ req' = [req EXCEPT ![r] = NoRequest]
    /\ UNCHANGED lost

\* Mutant of LeaseRetry: one round too many.
LeaseRetryOnceMore(r, a) ==
    /\ req[r].op = "lease"
    /\ ~Claimable(r)
    /\ req[r].tries <= MaxTries
    /\ Candidate(a)
    /\ req' = [req EXCEPT ![r] = LeaseRequest(req[r].worker, a, req[r].tries + 1)]
    /\ UNCHANGED <<row, executing, grants, lost>>

\* The update matched no row: roll back and select again, with the same as_of.
LeaseRetry(r, a) ==
    /\ req[r].op = "lease"
    /\ ~Claimable(r)
    /\ req[r].tries < MaxTries
    /\ Candidate(a)
    /\ req' = [req EXCEPT ![r] = LeaseRequest(req[r].worker, a, req[r].tries + 1)]
    /\ UNCHANGED <<row, executing, grants, lost>>

\* No candidate is left, or the rounds are used up: no action is returned.
LeaseGiveUp(r) ==
    /\ req[r].op = "lease"
    /\ ~Claimable(r)
    /\ req[r].tries = MaxTries \/ \A a \in Actions : ~Candidate(a)
    /\ req' = [req EXCEPT ![r] = NoRequest]
    /\ UNCHANGED <<row, executing, grants, lost>>

(***************************************************************************)
(* complete_action, fail_action, cancel_action.                            *)
(***************************************************************************)

Reports(w, a) ==
    {r \in Requests : /\ req[r].op \in {"complete", "fail"}
                      /\ req[r].worker = w
                      /\ req[r].action = a}

\* A worker reports: the checks are made on the row as read here.
ReportRead(r, w, a, op, retryable) ==
    /\ req[r] = NoRequest
    /\ w \notin lost
    /\ Retransmit \/ Reports(w, a) = {}
    /\ row[a].status = "running"
    /\ row[a].owner \in {NoWorker, w}
    /\ req' = [req EXCEPT ![r] = [op |-> op, worker |-> w, action |-> a,
                                  copy |-> row[a], retryable |-> retryable,
                                  tries |-> 1]]
    /\ executing' = [executing EXCEPT ![a] = @ \ {w}]
    /\ UNCHANGED <<row, grants, lost>>

CompleteRead(r, w, a) == ReportRead(r, w, a, "complete", FALSE)

FailRead(r, w, a, retryable) == ReportRead(r, w, a, "fail", retryable)

\* Only columns that differ from the copy read are written: null stays out.
ReleaseLease(x, copy) ==
    [x EXCEPT !.owner = IF copy.owner = NoWorker THEN @ ELSE NoWorker,
              !.lease = IF copy.lease = "none" THEN @ ELSE "none"]

\* The row is written from the copy, and the request is answered.
Overwrite(r, status, due) ==
    /\ row' = [row EXCEPT ![req[r].action] =
                 [ReleaseLease(@, req[r].copy) EXCEPT !.status = status, !.due = due]]
    /\ req' = [req EXCEPT ![r] = NoRequest]
    /\ UNCHANGED <<executing, grants, lost>>

CompleteWrite(r) ==
    /\ req[r].op = "complete"
    /\ Overwrite(r, "succeeded", TRUE)

ShouldRetry(r) == req[r].retryable /\ req[r].copy.attempts < MaxAttempts

\* Mutant of FailWrite: a retry goes back to the queue with its old lease.
FailWriteKeepingLease(r) ==
    /\ req[r].op = "fail"
    /\ row' = [row EXCEPT ![req[r].action].status =
                             IF ShouldRetry(r) THEN "queued" ELSE "failed",
                          ![req[r].action].due = ~ShouldRetry(r)]
    /\ req' = [req EXCEPT ![r] = NoRequest]
    /\ UNCHANGED <<executing, grants, lost>>

\* Mutant of FailWrite: a retryable failure is retried whatever the attempts.
FailWriteAlwaysRetry(r) ==
    /\ req[r].op = "fail"
    /\ IF req[r].retryable THEN Overwrite(r, "queued", FALSE)
                           ELSE Overwrite(r, "failed", TRUE)

\* Mutant of FailWrite: a retryable failure of the last attempt is answered
\* without a write.
FailWriteRefusingLast(r) ==
    /\ req[r].op = "fail"
    /\ IF ShouldRetry(r) \/ ~req[r].retryable
         THEN Overwrite(r, IF ShouldRetry(r) THEN "queued" ELSE "failed", ~ShouldRetry(r))
         ELSE /\ req' = [req EXCEPT ![r] = NoRequest]
              /\ UNCHANGED <<row, executing, grants, lost>>

FailWrite(r) ==
    /\ req[r].op = "fail"
    /\ IF ShouldRetry(r) THEN Overwrite(r, "queued", FALSE)
                         ELSE Overwrite(r, "failed", TRUE)

\* Mutant of CancelRead: a terminal action is not refused.
CancelReadAnyStatus(r, w, a) ==
    /\ req[r] = NoRequest
    /\ row[a].status # "absent"
    /\ req' = [req EXCEPT ![r] = [op |-> "cancel", worker |-> w, action |-> a,
                                  copy |-> row[a], retryable |-> FALSE,
                                  tries |-> 1]]
    /\ UNCHANGED <<row, executing, grants, lost>>

\* An administrator cancels an action that is not terminal.
CancelRead(r, w, a) ==
    /\ req[r] = NoRequest
    /\ row[a].status \notin Terminal \cup {"absent"}
    /\ req' = [req EXCEPT ![r] = [op |-> "cancel", worker |-> w, action |-> a,
                                  copy |-> row[a], retryable |-> FALSE,
                                  tries |-> 1]]
    /\ UNCHANGED <<row, executing, grants, lost>>

CancelWrite(r) ==
    /\ req[r].op = "cancel"
    /\ Overwrite(r, "cancelled", TRUE)

\* A worker dies: what it leased stays as it is.  Some worker stays up.
LoseWorker(w) ==
    /\ w \notin lost
    /\ lost \cup {w} # Workers
    /\ lost' = lost \cup {w}
    /\ UNCHANGED <<row, req, executing, grants>>

-----------------------------------------------------------------------------

LeaseStep(r) ==
    \/ LeaseClaim(r)
    \/ \E a \in Actions : LeaseRetry(r, a)
    \/ LeaseGiveUp(r)

WriteStep(r) == CompleteWrite(r) \/ FailWrite(r) \/ CancelWrite(r)

Select(w) == \E r \in Requests, a \in Actions : LeaseSelect(r, w, a)

Report(w) ==
    \E r \in Requests, a \in Actions :
        CompleteRead(r, w, a) \/ \E b \in BOOLEAN : FailRead(r, w, a, b)

Next ==
    \/ \E a \in Actions : CreateActionRequest(a)
    \/ \E a \in Actions : BecomeDue(a)
    \/ \E a \in Actions : LeaseExpires(a)
    \/ \E r \in Requests : LeaseStep(r)
    \/ \E r \in Requests : WriteStep(r)
    \/ \E w \in Workers : Select(w)
    \/ \E w \in Workers : Report(w)
    \/ \E r \in Requests, w \in Workers, a \in Actions : CancelRead(r, w, a)
    \/ \E w \in Workers : LoseWorker(w)

Spec == Init /\ [][Next]_vars

\* Time passes, the server answers the requests it has taken, live workers keep
\* asking for work (strongly: other requests may occupy the server at times)
\* and report what they were granted.  Nobody owes a cancellation.
Fairness ==
    /\ \A a \in Actions : WF_vars(BecomeDue(a)) /\ WF_vars(LeaseExpires(a))
    /\ \A r \in Requests : WF_vars(LeaseStep(r)) /\ WF_vars(WriteStep(r))
    /\ \A w \in Workers : SF_vars(Select(w)) /\ SF_vars(Report(w))

FairSpec == Spec /\ Fairness

-----------------------------------------------------------------------------
(***************************************************************************)
(* Properties.                                                             *)
(***************************************************************************)

\* Every lease granted is a different attempt: the count on the row is the
\* number of leases ever granted, so a row is never leased more than
\* max_attempts times, however claims, retries and cancellations interleave
\* (the attempt_count comparison of the claiming update).
LeasePerAttempt == \A a \in Actions : grants[a] = row[a].attempts

\* A queued row carries no owner and no lease, whoever wrote it last and from
\* whatever copy, so lease_next_action can find it; a running row has an owner,
\* so the ownership check of complete_action and fail_action cannot be passed
\* by everybody.
QueuedIsUnleased ==
    \A a \in Actions :
        /\ row[a].status = "queued" => /\ row[a].owner = NoWorker
                                       /\ row[a].lease = "none"
        /\ row[a].status = "running" => row[a].owner # NoWorker

\* Leases are accounted for: one per attempt, and none on a row that waits
\* (lease_next_action, fail_action).
LeaseDiscipline == LeasePerAttempt /\ QueuedIsUnleased

\* At most one worker is executing an action (lease_next_action's claim).
SoleExecutor == \A a \in Actions : Cardinality(executing[a]) <= 1

\* A RUNNING row is never left without somebody who will end it: its owner is
\* executing it, or the owner's report has been read and is about to be written,
\* whatever stale reports and cancellations were written in between.  So an action
\* hangs only if its owner is lost (lease_next_action, complete_action,
\* fail_action).
RunningIsWorked ==
    \A a \in Actions : row[a].status = "running" =>
        row[a].owner \in executing[a] \/ Reports(row[a].owner, a) # {}

\* A lease is an attempt, a waiting row has none, and on a running row it stands for
\* somebody at work (lease_next_action, complete_action, fail_action).
LeasesHeld == LeaseDiscipline /\ RunningIsWorked

\* A requested action ends (succeeded, failed or cancelled) unless a worker
\* that was executing it is lost: retries are bounded, and no interleaving of
\* claims, failures and cancellations strands it in between.
TerminalUnlessLost ==
    \A a \in Actions :
        row[a].status = "queued"
          ~> (row[a].status \in Terminal \/ executing[a] \cap lost # {})

Serving(a) == {r \in Requests : req[r] # NoRequest /\ req[r].action = a}

\* A terminal status is final once the requests that were in flight when it was
\* reached have been answered.  Until then it is not: complete_action, fail_action
\* and cancel_action check a copy and write without condition, so a request that
\* read the row before may still overwrite it, or even queue the action again.
TerminalIsFinalWhenQuiet ==
    [][\A a \in Actions :
         (row[a].status \in Terminal /\ Serving(a) = {})
           => (row'[a].status = row[a].status /\ Serving(a)' = {})]_vars

=============================================================================
