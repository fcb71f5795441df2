----------------------- MODULE ActionExecutionsProofs -----------------------
(***************************************************************************)
(* Proofs for ActionExecutions, for any sets of actions, workers and       *)
(* requests and any limit on attempts and on rounds of the lease loop.     *)
(***************************************************************************)
EXTENDS ActionExecutions, FiniteSetTheorems, TLAPS

\* Before create_action_request inserts it a row has no history.
AbsentIsBlank == \A a \in Actions : row[a].status = "absent" => row[a] = NoRow

\* A request works on a row that exists.
ServedExists == \A r \in Requests : req[r] # NoRequest => row[req[r].action].status # "absent"

\* A lease was selected with an attempt left.
LeaseHasAttempt ==
    \A r \in Requests : req[r].op = "lease" => req[r].copy.attempts < MaxAttempts

\* A row that may be reported on has both an owner and a lease.
Leased(x) == x.owner # NoWorker /\ x.lease # "none"

RunningIsLeased == \A a \in Actions : row[a].status = "running" => Leased(row[a])

\* So does the copy a report was checked on: fail_action's write clears both.
ReportCopyIsLeased ==
    \A r \in Requests : req[r].op \in {"complete", "fail"} => Leased(req[r].copy)

IInv ==
    /\ TypeOK
    /\ LeaseDiscipline
    /\ AbsentIsBlank
    /\ ServedExists
    /\ LeaseHasAttempt
    /\ RunningIsLeased
    /\ ReportCopyIsLeased

\* The requests that report on action a, whoever sent them.
Reporting(a) == {r \in Requests : req[r].op \in {"complete", "fail"} /\ req[r].action = a}

\* While a row is queued nobody works on it and no report of it is under way.
QueuedIsFree ==
    \A a \in Actions :
        row[a].status \in {"absent", "queued"} => executing[a] = {} /\ Reporting(a) = {}

\* While it runs, the owner alone works on it or reports on it.
OwnerOnly ==
    \A a \in Actions : row[a].status = "running" =>
        /\ executing[a] \subseteq {row[a].owner}
        /\ \A r \in Reporting(a) : req[r].worker = row[a].owner

\* One lease has one holder: a worker that works, or one report under way.
OneHolder ==
    \A a \in Actions :
        /\ \A v, w \in executing[a] : v = w
        /\ \A r, s \in Reporting(a) : r = s
        /\ executing[a] = {} \/ Reporting(a) = {}

HolderInv == IInv /\ QueuedIsFree /\ OwnerOnly /\ OneHolder

-----------------------------------------------------------------------------
(***************************************************************************)
(* Accounting of leases.                                                   *)
(***************************************************************************)

\* Initially no row exists and no request is served.
LEMMA InitIInv == Init => IInv
  BY ActionExecutionsAssumption
  DEF Init, IInv, TypeOK, Row, Status, NoRow, NoRequest, LeaseDiscipline,
      LeasePerAttempt, QueuedIsUnleased, AbsentIsBlank, ServedExists,
      LeaseHasAttempt, RunningIsLeased, ReportCopyIsLeased

\* A request that is under way is a request record with one of the operations.
LEMMA RequestType ==
    ASSUME TypeOK, NEW r \in Requests, req[r] # NoRequest
    PROVE  /\ req[r] \in Request
           /\ req[r].action \in Actions
           /\ req[r].copy \in Row
           /\ req[r].worker \in Workers
           /\ req[r].tries \in 1..MaxTries
  BY DEF TypeOK, Request

\* create_action_request fills a blank row: nothing was ever granted on it.
LEMMA CreateActionRequestStep ==
    ASSUME IInv, NEW a \in Actions, CreateActionRequest(a)
    PROVE  IInv'
<1> DEFINE x == [NoRow EXCEPT !.status = "queued", !.due = TRUE]
<1>1. NoRow \in Row
  BY ActionExecutionsAssumption DEF NoRow, Row, Status
<1>2. x \in Row
  BY <1>1 DEF Row, Status
<1>3. /\ row' = [row EXCEPT ![a] = x]
      /\ UNCHANGED <<req, executing, grants, lost>>
  BY DEF CreateActionRequest
<1>4. row[a].attempts = 0
  BY DEF CreateActionRequest, IInv, AbsentIsBlank, NoRow
<1>5. /\ x.status = "queued" /\ x.attempts = 0
      /\ x.owner = NoWorker /\ x.lease = "none"
  BY DEF NoRow
<1> HIDE DEF x
<1> USE DEF IInv, TypeOK
<1>6. TypeOK'
  BY <1>2, <1>3
<1>7. LeaseDiscipline'
  BY <1>3, <1>4, <1>5 DEF LeaseDiscipline, LeasePerAttempt, QueuedIsUnleased
<1>8. (AbsentIsBlank /\ RunningIsLeased)'
  BY <1>3, <1>5 DEF AbsentIsBlank, RunningIsLeased, Leased
<1>9. ServedExists'
  BY <1>3, <1>5 DEF ServedExists
<1>10. (LeaseHasAttempt /\ ReportCopyIsLeased)'
  BY <1>3 DEF LeaseHasAttempt, ReportCopyIsLeased, Leased
<1>q. QED BY <1>6, <1>7, <1>8, <1>9, <1>10

\* The clock: next_retry_at and lease_expires_at pass.
LEMMA ClockStep ==
    ASSUME IInv, NEW a \in Actions, BecomeDue(a) \/ LeaseExpires(a)
    PROVE  IInv'
<1>1. PICK x \in Row :
         /\ row' = [row EXCEPT ![a] = x]
         /\ x.status = row[a].status
         /\ x.attempts = row[a].attempts
         /\ x.owner = row[a].owner
         /\ x.lease = "none" <=> row[a].lease = "none"
  <2>1. CASE BecomeDue(a)
    <3> DEFINE x == [row[a] EXCEPT !.due = TRUE]
    <3>1. row' = [row EXCEPT ![a] = x]
      BY <2>1 DEF BecomeDue, IInv, TypeOK
    <3>2. /\ x \in Row
          /\ x.status = row[a].status /\ x.attempts = row[a].attempts
          /\ x.owner = row[a].owner /\ x.lease = row[a].lease
      BY DEF IInv, TypeOK, Row
    <3> HIDE DEF x
    <3>3. QED BY <3>1, <3>2
  <2>2. CASE LeaseExpires(a)
    <3> DEFINE x == [row[a] EXCEPT !.lease = "expired"]
    <3>1. row' = [row EXCEPT ![a] = x]
      BY <2>2 DEF LeaseExpires, IInv, TypeOK
    <3>2. /\ x \in Row
          /\ x.status = row[a].status /\ x.attempts = row[a].attempts
          /\ x.owner = row[a].owner /\ x.lease = "expired"
      BY DEF IInv, TypeOK, Row
    <3>3. row[a].lease = "held"
      BY <2>2 DEF LeaseExpires
    <3> HIDE DEF x
    <3>4. QED BY <3>1, <3>2, <3>3
  <2>3. QED BY <2>1, <2>2
<1>2. row[a].status # "absent"
  BY DEF BecomeDue, LeaseExpires, IInv, AbsentIsBlank, NoRow
<1>3. UNCHANGED <<req, executing, grants, lost>>
  BY DEF BecomeDue, LeaseExpires
<1> USE DEF IInv, TypeOK
<1>4. TypeOK'
  BY <1>1, <1>3
<1>5. LeaseDiscipline'
  BY <1>1, <1>3 DEF LeaseDiscipline, LeasePerAttempt, QueuedIsUnleased
<1>6. (AbsentIsBlank /\ RunningIsLeased)'
  BY <1>1, <1>2 DEF AbsentIsBlank, RunningIsLeased, Leased
<1>7. ServedExists'
  BY <1>1, <1>3 DEF ServedExists
<1>8. (LeaseHasAttempt /\ ReportCopyIsLeased)'
  BY <1>3 DEF LeaseHasAttempt, ReportCopyIsLeased, Leased
<1>q. QED BY <1>4, <1>5, <1>6, <1>7, <1>8

\* The state after a step that starts, changes or ends a request and leaves the
\* rows and the leases alone.
LEMMA RequestStep ==
    ASSUME IInv, NEW r \in Requests, NEW q \in Request \cup {NoRequest},
           q # NoRequest => row[q.action].status # "absent",
           q.op = "lease" => q.copy.attempts < MaxAttempts,
           q.op \in {"complete", "fail"} => Leased(q.copy),
           req' = [req EXCEPT ![r] = q],
           executing' \in [Actions -> SUBSET Workers],
           UNCHANGED <<row, grants, lost>>
    PROVE  IInv'
<1> USE ActionExecutionsAssumption DEF IInv, TypeOK
<1>1. TypeOK'
  OBVIOUS
<1>2. LeaseDiscipline'
  BY DEF LeaseDiscipline, LeasePerAttempt, QueuedIsUnleased
<1>3. (AbsentIsBlank /\ RunningIsLeased)'
  BY DEF AbsentIsBlank, RunningIsLeased, Leased
<1>4. ServedExists'
  BY DEF ServedExists
<1>5. (LeaseHasAttempt /\ ReportCopyIsLeased)'
  BY DEF LeaseHasAttempt, ReportCopyIsLeased, Leased
<1>q. QED BY <1>1, <1>2, <1>3, <1>4, <1>5

\* lease_next_action selects a row, in its first round or a later one.
LEMMA LeaseSelected ==
    ASSUME IInv, NEW r \in Requests, NEW w \in Workers, NEW a \in Actions,
           NEW n \in 1..MaxTries, Candidate(a),
           req' = [req EXCEPT ![r] = LeaseRequest(w, a, n)],
           UNCHANGED <<row, executing, grants, lost>>
    PROVE  IInv'
<1> DEFINE q == LeaseRequest(w, a, n)
<1>1. q \in Request
  BY DEF LeaseRequest, Request, IInv, TypeOK
<1>2. q.op = "lease" /\ q.action = a /\ q.copy = row[a]
  BY DEF LeaseRequest
<1>3. row[a].status # "absent" /\ row[a].attempts < MaxAttempts
  BY DEF Candidate
<1>4. executing' \in [Actions -> SUBSET Workers]
  BY DEF IInv, TypeOK
<1> HIDE DEF q
<1>q. QED BY <1>1, <1>2, <1>3, <1>4, RequestStep DEF q

\* The first round of lease_next_action.
LEMMA LeaseSelectStep ==
    ASSUME IInv, NEW r \in Requests, NEW w \in Workers, NEW a \in Actions,
           LeaseSelect(r, w, a)
    PROVE  IInv'
<1>1. 1 \in 1..MaxTries
  BY ActionExecutionsAssumption
<1>2. QED BY <1>1, LeaseSelected DEF LeaseSelect

\* A further round of lease_next_action.
LEMMA LeaseRetryStep ==
    ASSUME IInv, NEW r \in Requests, NEW a \in Actions, LeaseRetry(r, a)
    PROVE  IInv'
<1>1. req[r] # NoRequest
  BY DEF LeaseRetry, NoRequest
<1>2. req[r].worker \in Workers /\ req[r].tries \in 1..MaxTries
  BY <1>1, RequestType DEF IInv
<1>3. req[r].tries + 1 \in 1..MaxTries
  BY <1>2, ActionExecutionsAssumption DEF LeaseRetry
<1>4. QED BY <1>2, <1>3, LeaseSelected DEF LeaseRetry

\* lease_next_action returns nothing.
LEMMA LeaseGiveUpStep ==
    ASSUME IInv, NEW r \in Requests, LeaseGiveUp(r)
    PROVE  IInv'
<1>1. NoRequest.op = "idle"
  BY DEF NoRequest
<1>2. executing' \in [Actions -> SUBSET Workers]
  BY DEF IInv, TypeOK, LeaseGiveUp
<1>3. QED BY <1>1, <1>2, RequestStep DEF LeaseGiveUp

\* The claiming update: the row still has the attempts it was selected with, so
\* counting from the copy counts from the row.
LEMMA LeaseClaimStep ==
    ASSUME IInv, NEW r \in Requests, LeaseClaim(r)
    PROVE  IInv'
<1> DEFINE a == req[r].action
           w == req[r].worker
<1>1. req[r] # NoRequest /\ NoRequest.op = "idle"
  BY DEF LeaseClaim, NoRequest
<1>2. a \in Actions /\ w \in Workers
  BY <1>1, RequestType DEF IInv
<1>3. row[a].status = "queued" /\ row[a].attempts = req[r].copy.attempts
  BY DEF LeaseClaim, Claimable
<1>4. row[a].attempts < MaxAttempts
  BY <1>3 DEF LeaseClaim, IInv, LeaseHasAttempt
<1> DEFINE x == [status |-> "running", attempts |-> row[a].attempts + 1,
                 owner |-> w, lease |-> "held", due |-> row[a].due]
<1>5. row' = [row EXCEPT ![a] = x]
  BY <1>2, <1>3 DEF LeaseClaim, IInv, TypeOK, Row
<1>6. /\ executing' = [executing EXCEPT ![a] = @ \cup {w}]
      /\ grants' = [grants EXCEPT ![a] = @ + 1]
      /\ req' = [req EXCEPT ![r] = NoRequest]
      /\ lost' = lost
  BY DEF LeaseClaim
<1>7. x \in Row
  BY <1>2, <1>4, ActionExecutionsAssumption DEF IInv, TypeOK, Row, Status
<1>8. /\ x.status = "running" /\ x.attempts = row[a].attempts + 1
      /\ x.owner # NoWorker /\ x.lease # "none"
  BY <1>2, ActionExecutionsAssumption
<1> HIDE DEF a, w, x
<1> USE DEF IInv, TypeOK
<1>9. TypeOK'
  BY <1>2, <1>5, <1>6, <1>7
<1>10. LeaseDiscipline'
  BY <1>2, <1>5, <1>6, <1>8 DEF LeaseDiscipline, LeasePerAttempt, QueuedIsUnleased
<1>11. (AbsentIsBlank /\ RunningIsLeased)'
  BY <1>2, <1>5, <1>8 DEF AbsentIsBlank, RunningIsLeased, Leased
<1>12. ServedExists'
  BY <1>2, <1>5, <1>6, <1>8 DEF ServedExists
<1>13. (LeaseHasAttempt /\ ReportCopyIsLeased)'
  BY <1>1, <1>6 DEF LeaseHasAttempt, ReportCopyIsLeased, Leased
<1>q. QED BY <1>9, <1>10, <1>11, <1>12, <1>13

\* A report is checked on a running row, which is leased.
LEMMA ReportReadStep ==
    ASSUME IInv, NEW r \in Requests, NEW w \in Workers, NEW a \in Actions,
           NEW op \in {"complete", "fail"}, NEW b \in BOOLEAN,
           ReportRead(r, w, a, op, b)
    PROVE  IInv'
<1> DEFINE q == [op |-> op, worker |-> w, action |-> a, copy |-> row[a],
                 retryable |-> b, tries |-> 1]
<1>1. q \in Request /\ q.action = a /\ q.copy = row[a] /\ q.op = op
  BY ActionExecutionsAssumption DEF Request, IInv, TypeOK
<1>2. row[a].status = "running" /\ Leased(row[a])
  BY DEF ReportRead, IInv, RunningIsLeased
<1>3. req' = [req EXCEPT ![r] = q] /\ UNCHANGED <<row, grants, lost>>
  BY DEF ReportRead
<1>4. executing' \in [Actions -> SUBSET Workers]
  BY DEF IInv, TypeOK, ReportRead
<1> HIDE DEF q
<1>q. QED BY <1>1, <1>2, <1>3, <1>4, RequestStep

\* cancel_action reads a row that exists.
LEMMA CancelReadStep ==
    ASSUME IInv, NEW r \in Requests, NEW w \in Workers, NEW a \in Actions,
           CancelRead(r, w, a)
    PROVE  IInv'
<1> DEFINE q == [op |-> "cancel", worker |-> w, action |-> a, copy |-> row[a],
                 retryable |-> FALSE, tries |-> 1]
<1>1. q \in Request /\ q.action = a /\ q.op = "cancel"
  BY ActionExecutionsAssumption DEF Request, IInv, TypeOK
<1>2. row[a].status # "absent"
  BY DEF CancelRead
<1>3. req' = [req EXCEPT ![r] = q] /\ UNCHANGED <<row, executing, grants, lost>>
  BY DEF CancelRead
<1>4. executing' \in [Actions -> SUBSET Workers]
  BY <1>3 DEF IInv, TypeOK
<1> HIDE DEF q
<1>q. QED BY <1>1, <1>2, <1>3, <1>4, RequestStep

\* An unconditional write clears owner and lease if the copy had them, and never
\* touches the attempts.
LEMMA OverwriteStep ==
    ASSUME IInv, NEW r \in Requests, req[r] # NoRequest,
           NEW st \in Terminal \cup {"queued"}, NEW due \in BOOLEAN,
           st = "queued" => Leased(req[r].copy),
           Overwrite(r, st, due)
    PROVE  IInv'
<1> DEFINE a == req[r].action
           c == req[r].copy
           y == ReleaseLease(row[a], c)
           x == [y EXCEPT !.status = st, !.due = due]
<1>1. a \in Actions /\ row[a] \in Row
  BY RequestType DEF IInv, TypeOK
<1>2. /\ y \in Row /\ y.attempts = row[a].attempts
      /\ Leased(c) => y.owner = NoWorker /\ y.lease = "none"
  BY <1>1 DEF ReleaseLease, Row, Leased
<1>3. /\ row' = [row EXCEPT ![a] = x]
      /\ req' = [req EXCEPT ![r] = NoRequest]
      /\ UNCHANGED <<executing, grants, lost>>
  BY <1>1 DEF Overwrite, IInv, TypeOK
<1> HIDE DEF y
<1>4. x \in Row
  BY <1>2 DEF Row, Status, Terminal
<1>5. /\ x.status = st /\ x.attempts = row[a].attempts
      /\ x.status = "queued" => x.owner = NoWorker /\ x.lease = "none"
  BY <1>2 DEF Row
<1>6. x.status \notin {"absent", "running"} /\ NoRequest.op = "idle"
  BY <1>5 DEF Terminal, NoRequest
<1> HIDE DEF a, c, x
<1> USE ActionExecutionsAssumption DEF IInv, TypeOK
<1>7. TypeOK'
  BY <1>1, <1>3, <1>4
<1>8. LeaseDiscipline'
  BY <1>1, <1>3, <1>5, <1>6 DEF LeaseDiscipline, LeasePerAttempt, QueuedIsUnleased
<1>9. (AbsentIsBlank /\ RunningIsLeased)'
  BY <1>1, <1>3, <1>6 DEF AbsentIsBlank, RunningIsLeased, Leased
<1>10. ServedExists'
  BY <1>1, <1>3, <1>6 DEF ServedExists
<1>11. (LeaseHasAttempt /\ ReportCopyIsLeased)'
  BY <1>3, <1>6 DEF LeaseHasAttempt, ReportCopyIsLeased, Leased
<1>q. QED BY <1>7, <1>8, <1>9, <1>10, <1>11

\* complete_action, fail_action and cancel_action write; only a failure, whose
\* copy was leased, queues the row.
LEMMA WriteStepStep ==
    ASSUME IInv, NEW r \in Requests, WriteStep(r)
    PROVE  IInv'
<1>1. req[r] # NoRequest
  <2>1. NoRequest.op = "idle"
    BY DEF NoRequest
  <2>2. QED BY <2>1 DEF WriteStep, CompleteWrite, FailWrite, CancelWrite
<1>2. req[r].op = "fail" => Leased(req[r].copy)
  BY DEF IInv, ReportCopyIsLeased
<1>3. CASE CompleteWrite(r)
  BY <1>1, <1>3, OverwriteStep DEF CompleteWrite, Terminal
<1>4. CASE FailWrite(r)
  <2>1. Overwrite(r, "queued", FALSE) \/ Overwrite(r, "failed", TRUE)
    BY <1>4 DEF FailWrite
  <2>2. Leased(req[r].copy)
    BY <1>2, <1>4 DEF FailWrite
  <2>3. CASE Overwrite(r, "queued", FALSE)
    BY <1>1, <2>2, <2>3, OverwriteStep
  <2>4. CASE Overwrite(r, "failed", TRUE)
    BY <1>1, <2>4, OverwriteStep DEF Terminal
  <2>5. QED BY <2>1, <2>3, <2>4
<1>5. CASE CancelWrite(r)
  BY <1>1, <1>5, OverwriteStep DEF CancelWrite, Terminal
<1>q. QED BY <1>3, <1>4, <1>5 DEF WriteStep

\* A lost worker leaves rows and requests as they are.
LEMMA LoseWorkerStep ==
    ASSUME IInv, NEW w \in Workers, LoseWorker(w)
    PROVE  IInv'
  BY DEF LoseWorker, IInv, TypeOK, LeaseDiscipline, LeasePerAttempt,
         QueuedIsUnleased, AbsentIsBlank, ServedExists, LeaseHasAttempt,
         RunningIsLeased, ReportCopyIsLeased, Leased

\* Every step preserves the accounting.
LEMMA NextIInv ==
    ASSUME IInv, [Next]_vars
    PROVE  IInv'
<1>1. CASE \E a \in Actions : CreateActionRequest(a) \/ BecomeDue(a) \/ LeaseExpires(a)
  BY <1>1, CreateActionRequestStep, ClockStep
<1>2. CASE \E r \in Requests : LeaseStep(r)
  BY <1>2, LeaseClaimStep, LeaseRetryStep, LeaseGiveUpStep DEF LeaseStep
<1>3. CASE \E r \in Requests : WriteStep(r)
  BY <1>3, WriteStepStep
<1>4. CASE \E w \in Workers : Select(w)
  BY <1>4, LeaseSelectStep DEF Select
<1>5. CASE \E w \in Workers : Report(w)
  BY <1>5, ReportReadStep DEF Report, CompleteRead, FailRead
<1>6. CASE \E r \in Requests, w \in Workers, a \in Actions : CancelRead(r, w, a)
  BY <1>6, CancelReadStep
<1>7. CASE \E w \in Workers : LoseWorker(w)
  BY <1>7, LoseWorkerStep
<1>8. CASE UNCHANGED vars
  BY <1>8 DEF vars, IInv, TypeOK, LeaseDiscipline, LeasePerAttempt,
         QueuedIsUnleased, AbsentIsBlank, ServedExists, LeaseHasAttempt,
         RunningIsLeased, ReportCopyIsLeased, Leased
<1>q. QED BY <1>1, <1>2, <1>3, <1>4, <1>5, <1>6, <1>7, <1>8 DEF Next

\* The accounting holds in every behaviour, retransmitted reports included.
THEOREM Invariance == Spec => []IInv
  BY InitIInv, NextIInv, PTL DEF Spec

\* Rows and requests keep their types; attempt_count never passes max_attempts.
THEOREM TypeCorrect == Spec => []TypeOK
<1>1. IInv => TypeOK
  BY DEF IInv
<1>2. QED BY <1>1, Invariance, PTL

\* One lease per attempt, none on a queued row, an owner on a running one,
\* whatever stale copies complete_action, fail_action and cancel_action write
\* from and however often a report is sent.
THEOREM LeasesAccounted == Spec => []LeaseDiscipline
<1>1. IInv => LeaseDiscipline
  BY DEF IInv
<1>2. QED BY <1>1, Invariance, PTL

-----------------------------------------------------------------------------
(***************************************************************************)
(* One executor, when a worker sends each report once.                     *)
(***************************************************************************)

\* Initially nobody works or reports.
LEMMA InitHolder == Init => HolderInv
<1> SUFFICES ASSUME Init PROVE QueuedIsFree /\ OwnerOnly /\ OneHolder
  BY InitIInv DEF HolderInv
<1>1. \A r \in Requests : req[r].op = "idle"
  BY DEF Init, NoRequest
<1>2. \A a \in Actions : Reporting(a) = {} /\ executing[a] = {} /\ row[a].status = "absent"
  BY <1>1 DEF Init, Reporting, NoRow
<1>3. QED BY <1>2 DEF QueuedIsFree, OwnerOnly, OneHolder

\* A step on rows that keeps statuses and owners, workers and requests.
LEMMA HolderFrame ==
    ASSUME HolderInv, [Next]_vars,
           \A a \in Actions :
               /\ \/ row'[a].status \in {row[a].status} \cup Terminal
                  \/ row[a].status = "absent" /\ row'[a].status = "queued"
               /\ row'[a].status = "running" => row'[a].owner = row[a].owner
               /\ Reporting(a)' \subseteq Reporting(a)
               /\ \A r \in Reporting(a)' : req'[r].worker = req[r].worker,
           executing' = executing
    PROVE  HolderInv'
<1>1. IInv'
  BY NextIInv DEF HolderInv
<1> USE DEF HolderInv, Terminal
<1>2. QueuedIsFree'
  BY DEF QueuedIsFree
<1>3. OwnerOnly'
  BY DEF OwnerOnly
<1>4. OneHolder'
  BY DEF OneHolder
<1>q. QED BY <1>1, <1>2, <1>3, <1>4

\* Creation and the clock.
LEMMA RowHolder ==
    ASSUME HolderInv, NEW a \in Actions, Next,
           CreateActionRequest(a) \/ BecomeDue(a) \/ LeaseExpires(a)
    PROVE  HolderInv'
<1>1. executing' = executing /\ req' = req
  BY DEF CreateActionRequest, BecomeDue, LeaseExpires
<1>2. \A b \in Actions : Reporting(b)' = Reporting(b)
  BY <1>1 DEF Reporting
<1>3. \A b \in Actions :
         /\ \/ row'[b].status = row[b].status
            \/ row[b].status = "absent" /\ row'[b].status = "queued"
         /\ row'[b].status = "running" => row'[b].owner = row[b].owner
  <2> USE DEF HolderInv, IInv, TypeOK, Row
  <2>1. CASE CreateActionRequest(a)
    BY <2>1 DEF CreateActionRequest, NoRow
  <2>2. CASE BecomeDue(a)
    BY <2>2 DEF BecomeDue
  <2>3. CASE LeaseExpires(a)
    BY <2>3 DEF LeaseExpires
  <2>4. QED BY <2>1, <2>2, <2>3
<1>4. QED BY <1>1, <1>2, <1>3, HolderFrame

\* A request other than a report comes or goes, and no row changes.
LEMMA OtherRequestHolder ==
    ASSUME HolderInv, Next, NEW r \in Requests, NEW q,
           q.op \notin {"complete", "fail"},
           req' = [req EXCEPT ![r] = q], UNCHANGED <<row, executing>>
    PROVE  HolderInv'
<1>1. \A a \in Actions : Reporting(a)' \subseteq Reporting(a) \ {r}
  BY DEF Reporting, HolderInv, IInv, TypeOK
<1>2. \A a \in Actions : \A s \in Reporting(a)' : req'[s].worker = req[s].worker
  BY <1>1 DEF Reporting, HolderInv, IInv, TypeOK
<1>3. QED BY <1>1, <1>2, HolderFrame

\* A claim finds the row free and makes the claiming worker its only holder.
LEMMA LeaseClaimHolder ==
    ASSUME HolderInv, NEW r \in Requests, LeaseClaim(r), Next
    PROVE  HolderInv'
<1> DEFINE a == req[r].action
           w == req[r].worker
<1>1. IInv'
  BY NextIInv DEF HolderInv
<1>2. req[r] # NoRequest /\ NoRequest.op = "idle"
  BY DEF LeaseClaim, NoRequest
<1>3. a \in Actions /\ w \in Workers
  BY <1>2, RequestType DEF HolderInv, IInv
<1>4. row[a].status = "queued"
  BY DEF LeaseClaim, Claimable
<1>5. /\ row'[a].status = "running" /\ row'[a].owner = w
      /\ \A b \in Actions \ {a} : row'[b] = row[b]
  BY <1>3 DEF LeaseClaim, HolderInv, IInv, TypeOK, Row
<1>6. /\ executing'[a] = executing[a] \cup {w}
      /\ \A b \in Actions \ {a} : executing'[b] = executing[b]
  BY <1>3 DEF LeaseClaim, HolderInv, IInv, TypeOK
<1>7. /\ \A s \in Requests : req'[s] = IF s = r THEN NoRequest ELSE req[s]
      /\ req[r].op = "lease"
  BY DEF LeaseClaim, HolderInv, IInv, TypeOK
<1>8. \A b \in Actions : Reporting(b)' = Reporting(b)
  BY <1>2, <1>7 DEF Reporting
<1>9. \A b \in Actions : \A s \in Reporting(b) : req'[s] = req[s]
  BY <1>7 DEF Reporting
<1>10. executing[a] = {} /\ Reporting(a) = {}
  BY <1>3, <1>4 DEF HolderInv, QueuedIsFree
<1> HIDE DEF a, w
<1> USE DEF HolderInv
<1>11. QueuedIsFree'
  BY <1>5, <1>6, <1>8 DEF QueuedIsFree
<1>12. OwnerOnly'
  BY <1>5, <1>6, <1>8, <1>9, <1>10 DEF OwnerOnly
<1>13. OneHolder'
  BY <1>6, <1>8, <1>10 DEF OneHolder
<1>q. QED BY <1>1, <1>11, <1>12, <1>13

\* The owner turns from executing to reporting.  No report of its lease is under
\* way: all are the owner's, and the owner sends one.
LEMMA ReportReadHolder ==
    ASSUME ~Retransmit, HolderInv, Next,
           NEW r \in Requests, NEW w \in Workers, NEW a \in Actions,
           NEW op \in {"complete", "fail"}, NEW b \in BOOLEAN,
           ReportRead(r, w, a, op, b)
    PROVE  HolderInv'
<1>1. IInv'
  BY NextIInv DEF HolderInv
<1>2. row[a].status = "running" /\ row' = row
  BY DEF ReportRead
<1>3. row[a].owner = w
  BY <1>2 DEF ReportRead, HolderInv, IInv, RunningIsLeased, Leased
<1>4. Reporting(a) = {}
  BY <1>2, <1>3 DEF HolderInv, OwnerOnly, Reporting, Reports, ReportRead
<1>5. executing[a] \subseteq {w}
  BY <1>2, <1>3 DEF HolderInv, OwnerOnly
<1>6. /\ executing'[a] = {}
      /\ \A c \in Actions \ {a} : executing'[c] = executing[c]
  BY <1>5 DEF ReportRead, HolderInv, IInv, TypeOK
<1>7. /\ req'[r].op = op /\ req'[r].action = a /\ req'[r].worker = w
      /\ \A s \in Requests \ {r} : req'[s] = req[s]
      /\ req[r].op = "idle"
  BY DEF ReportRead, HolderInv, IInv, TypeOK, NoRequest
<1>8. /\ Reporting(a)' = {r}
      /\ \A c \in Actions \ {a} : Reporting(c)' = Reporting(c)
      /\ \A c \in Actions : r \notin Reporting(c)
  BY <1>4, <1>7 DEF Reporting
<1>9. \A c \in Actions \ {a} : \A s \in Reporting(c) : req'[s] = req[s]
  BY <1>7, <1>8 DEF Reporting
<1> USE DEF HolderInv
<1>10. QueuedIsFree'
  BY <1>2, <1>6, <1>8 DEF QueuedIsFree
<1>11. OwnerOnly'
  BY <1>2, <1>3, <1>6, <1>7, <1>8, <1>9 DEF OwnerOnly
<1>12. OneHolder'
  BY <1>6, <1>8 DEF OneHolder
<1>q. QED BY <1>1, <1>10, <1>11, <1>12

\* A write ends its request.  If it queues the row, that was the only report of
\* the lease, and nobody executes any more.
LEMMA OverwriteHolder ==
    ASSUME HolderInv, Next, NEW r \in Requests, req[r] # NoRequest,
           NEW st \in Terminal \cup {"queued"}, NEW due \in BOOLEAN,
           st = "queued" => req[r].op = "fail",
           Overwrite(r, st, due)
    PROVE  HolderInv'
<1>1. NoRequest.op = "idle"
  BY DEF NoRequest
<1>2. PICK a \in Actions : a = req[r].action
  BY RequestType DEF HolderInv, IInv
<1>3. /\ row'[a].status = st
      /\ \A b \in Actions \ {a} : row'[b] = row[b]
      /\ executing' = executing
  BY <1>2 DEF Overwrite, ReleaseLease, HolderInv, IInv, TypeOK, Row
<1>4. \A s \in Requests : req'[s] = IF s = r THEN NoRequest ELSE req[s]
  BY DEF Overwrite, HolderInv, IInv, TypeOK
<1>5. /\ \A b \in Actions : Reporting(b)' = Reporting(b) \ {r}
      /\ \A b \in Actions : \A s \in Reporting(b)' : req'[s] = req[s]
  BY <1>1, <1>4 DEF Reporting
<1>6. CASE st \in Terminal
  BY <1>3, <1>5, <1>6, HolderFrame DEF Terminal
<1>7. CASE st = "queued"
  <2>1. r \in Reporting(a)
    BY <1>2, <1>7 DEF Reporting
  <2>2. executing[a] = {}
    BY <1>2, <2>1 DEF HolderInv, OneHolder
  <2>3. \A s \in Reporting(a) : s = r
    BY <1>2, <2>1 DEF HolderInv, OneHolder
  <2>4. Reporting(a)' = {}
    BY <1>2, <1>5, <2>3
  <2>5. IInv'
    BY NextIInv DEF HolderInv
  <2> USE DEF HolderInv
  <2>6. QueuedIsFree'
    BY <1>2, <1>3, <1>5, <2>2, <2>4 DEF QueuedIsFree
  <2>7. OwnerOnly'
    BY <1>2, <1>3, <1>5, <1>7 DEF OwnerOnly
  <2>8. OneHolder'
    BY <1>2, <1>3, <1>5 DEF OneHolder
  <2>9. QED BY <2>5, <2>6, <2>7, <2>8
<1>q. QED BY <1>6, <1>7

\* The writes of complete_action, fail_action and cancel_action keep one holder.
LEMMA WriteHolder ==
    ASSUME HolderInv, Next, NEW r \in Requests, WriteStep(r)
    PROVE  HolderInv'
<1>1. NoRequest.op = "idle"
  BY DEF NoRequest
<1>2. req[r] # NoRequest
  BY <1>1 DEF WriteStep, CompleteWrite, FailWrite, CancelWrite
<1>3. CASE CompleteWrite(r)
  BY <1>2, <1>3, OverwriteHolder DEF CompleteWrite, Terminal
<1>4. CASE FailWrite(r)
  <2>1. req[r].op = "fail"
    BY <1>4 DEF FailWrite
  <2>2. CASE Overwrite(r, "queued", FALSE)
    BY <1>2, <2>1, <2>2, OverwriteHolder
  <2>3. CASE Overwrite(r, "failed", TRUE)
    BY <1>2, <2>3, OverwriteHolder DEF Terminal
  <2>4. QED BY <1>4, <2>2, <2>3 DEF FailWrite
<1>5. CASE CancelWrite(r)
  BY <1>2, <1>5, OverwriteHolder DEF CancelWrite, Terminal
<1>q. QED BY <1>3, <1>4, <1>5 DEF WriteStep

\* Every step keeps one holder per lease when reports are sent once.
LEMMA NextHolder ==
    ASSUME ~Retransmit, HolderInv, [Next]_vars
    PROVE  HolderInv'
<1>0. CASE UNCHANGED vars
  BY <1>0, NextIInv
  DEF vars, HolderInv, QueuedIsFree, OwnerOnly, OneHolder, Reporting
<1> SUFFICES ASSUME Next PROVE HolderInv'
  BY <1>0
<1>1. CASE \E a \in Actions : CreateActionRequest(a) \/ BecomeDue(a) \/ LeaseExpires(a)
  BY <1>1, RowHolder
<1>2. CASE \E r \in Requests : LeaseStep(r)
  <2>1. PICK r \in Requests : LeaseStep(r)
    BY <1>2
  <2>2. CASE LeaseClaim(r)
    BY <2>2, LeaseClaimHolder
  <2>3. CASE \E a \in Actions : LeaseRetry(r, a)
    BY <2>3, OtherRequestHolder DEF LeaseRetry, LeaseRequest
  <2>4. CASE LeaseGiveUp(r)
    BY <2>4, OtherRequestHolder DEF LeaseGiveUp, NoRequest
  <2>5. QED BY <2>1, <2>2, <2>3, <2>4 DEF LeaseStep
<1>3. CASE \E r \in Requests : WriteStep(r)
  BY <1>3, WriteHolder
<1>4. CASE \E w \in Workers : Select(w)
  BY <1>4, OtherRequestHolder DEF Select, LeaseSelect, LeaseRequest
<1>5. CASE \E w \in Workers : Report(w)
  BY <1>5, ReportReadHolder DEF Report, CompleteRead, FailRead
<1>6. CASE \E r \in Requests, w \in Workers, a \in Actions : CancelRead(r, w, a)
  BY <1>6, OtherRequestHolder DEF CancelRead
<1>7. CASE \E w \in Workers : LoseWorker(w)
  BY <1>7, NextIInv
  DEF LoseWorker, HolderInv, QueuedIsFree, OwnerOnly, OneHolder, Reporting
<1>q. QED BY <1>1, <1>2, <1>3, <1>4, <1>5, <1>6, <1>7 DEF Next

\* At most one worker executes an action at a time, provided no worker sends a
\* second report of a lease before the first is answered.  lease_next_action
\* claims by a conditional update; that fail_action's unconditional one cannot
\* free a row somebody else works on follows from the holder invariant.
THEOREM ExecutorExclusive == ~Retransmit => (Spec => []SoleExecutor)
<1> SUFFICES ASSUME ~Retransmit PROVE Spec => []SoleExecutor
  OBVIOUS
<1>1. HolderInv /\ [Next]_vars => HolderInv'
  BY NextHolder
<1>2. HolderInv => SoleExecutor
  <2> SUFFICES ASSUME HolderInv, NEW a \in Actions
               PROVE  Cardinality(executing[a]) <= 1
    BY DEF SoleExecutor
  <2>1. \A v, w \in executing[a] : v = w
    BY DEF HolderInv, OneHolder
  <2>2. CASE executing[a] = {}
    BY <2>2, FS_EmptySet
  <2>3. CASE executing[a] # {}
    <3>1. PICK w \in executing[a] : TRUE
      BY <2>3
    <3>2. executing[a] = {w}
      BY <2>1, <3>1
    <3>3. Cardinality({w}) = 1
      BY FS_Singleton
    <3>4. QED BY <3>2, <3>3
  <2>4. QED BY <2>2, <2>3
<1>3. QED BY <1>1, <1>2, InitHolder, PTL DEF Spec

-----------------------------------------------------------------------------

\* No step changes a terminal row that no request has read, or reads it.
LEMMA TerminalStep ==
    ASSUME TypeOK, Next, NEW a \in Actions, row[a].status \in Terminal, Serving(a) = {}
    PROVE  row'[a].status = row[a].status /\ Serving(a)' = {}
<1> USE DEF TypeOK, Row, Terminal
<1>1. \A r \in Requests : req[r] = NoRequest \/ req[r].action # a
  BY DEF Serving
<1>2. NoRequest.op = "idle"
  BY DEF NoRequest
<1>3. CASE \E b \in Actions : CreateActionRequest(b) \/ BecomeDue(b) \/ LeaseExpires(b)
  BY <1>3 DEF CreateActionRequest, BecomeDue, LeaseExpires, Serving
<1>4. CASE \E r \in Requests : LeaseStep(r)
  <2>1. PICK r \in Requests : LeaseStep(r)
    BY <1>4
  <2>2. CASE LeaseClaim(r)
    BY <1>1, <1>2, <2>2 DEF LeaseClaim, Serving
  <2>3. CASE \E b \in Actions : LeaseRetry(r, b)
    BY <1>1, <2>3 DEF LeaseRetry, LeaseRequest, Candidate, Serving
  <2>4. CASE LeaseGiveUp(r)
    BY <1>1, <2>4 DEF LeaseGiveUp, Serving
  <2>5. QED BY <2>1, <2>2, <2>3, <2>4 DEF LeaseStep
<1>5. CASE \E r \in Requests : WriteStep(r)
  <2>1. PICK r \in Requests : WriteStep(r)
    BY <1>5
  <2>2. req[r].action # a
    BY <1>1, <1>2, <2>1 DEF WriteStep, CompleteWrite, FailWrite, CancelWrite
  <2>3. row'[a] = row[a] /\ req' = [req EXCEPT ![r] = NoRequest]
    BY <2>1, <2>2 DEF WriteStep, CompleteWrite, FailWrite, CancelWrite, Overwrite
  <2>4. QED BY <1>1, <2>3 DEF Serving
<1>6. CASE \E w \in Workers : Select(w)
  BY <1>1, <1>6 DEF Select, LeaseSelect, LeaseRequest, Candidate, Serving
<1>7. CASE \E w \in Workers : Report(w)
  BY <1>1, <1>7 DEF Report, CompleteRead, FailRead, ReportRead, Serving
<1>8. CASE \E r \in Requests, w \in Workers, b \in Actions : CancelRead(r, w, b)
  BY <1>1, <1>8 DEF CancelRead, Serving
<1>9. CASE \E w \in Workers : LoseWorker(w)
  BY <1>9 DEF LoseWorker, Serving
<1>q. QED BY <1>3, <1>4, <1>5, <1>6, <1>7, <1>8, <1>9 DEF Next

\* A terminal action stays as it is once the requests that had read it are
\* answered: the checks on status of lease_next_action, complete_action,
\* fail_action and cancel_action then refuse every new request.
THEOREM TerminalFinal == Spec => TerminalIsFinalWhenQuiet
<1>1. TypeOK /\ [Next]_vars
        => [\A a \in Actions :
              (row[a].status \in Terminal /\ Serving(a) = {})
                => (row'[a].status = row[a].status /\ Serving(a)' = {})]_vars
  BY TerminalStep
<1>2. QED BY <1>1, TypeCorrect, PTL DEF Spec, TerminalIsFinalWhenQuiet

-----------------------------------------------------------------------------
(***************************************************************************)
(* A running row has somebody who will end it.                             *)
(***************************************************************************)

\* Initially no row runs.
LEMMA InitWorked == Init => RunningIsWorked
  BY DEF Init, RunningIsWorked, NoRow

\* A claim makes the new owner work; the owner's report takes the place of its work; a
\* write ends the run, whoever sent it; nothing else touches a running row.
LEMMA NextWorked ==
    ASSUME IInv, RunningIsWorked, [Next]_vars
    PROVE  RunningIsWorked'
<1> SUFFICES ASSUME NEW a \in Actions, row'[a].status = "running"
             PROVE  \/ row'[a].owner \in executing'[a]
                    \/ {r \in Requests : /\ req'[r].op \in {"complete", "fail"}
                                         /\ req'[r].worker = row'[a].owner
                                         /\ req'[r].action = a} # {}
  BY DEF RunningIsWorked, Reports
<1>0. NoRequest.op = "idle"
  BY DEF NoRequest
<1>1. CASE \E b \in Actions : CreateActionRequest(b) \/ BecomeDue(b) \/ LeaseExpires(b)
  <2>1. UNCHANGED <<req, executing>>
    BY <1>1 DEF CreateActionRequest, BecomeDue, LeaseExpires
  <2>2. PICK b \in Actions : CreateActionRequest(b) \/ BecomeDue(b) \/ LeaseExpires(b)
    BY <1>1
  <2>3. row \in [Actions -> Row]
    BY DEF IInv, TypeOK
  <2>4. CASE a # b
    <3>1. row'[a] = row[a]
      BY <2>2, <2>3, <2>4 DEF CreateActionRequest, BecomeDue, LeaseExpires
    <3>2. QED BY <2>1, <3>1 DEF RunningIsWorked, Reports
  <2>5. CASE a = b /\ CreateActionRequest(b)
    <3>1. row'[a] = [NoRow EXCEPT !.status = "queued", !.due = TRUE]
      BY <2>3, <2>5 DEF CreateActionRequest
    <3>2. row'[a].status = "queued"
      BY <3>1 DEF NoRow
    <3>3. QED BY <3>2
  <2>6. CASE a = b /\ (BecomeDue(b) \/ LeaseExpires(b))
    <3>1. row[a] \in Row
      BY <2>3
    <3>2. row'[a] = [row[a] EXCEPT !.due = TRUE] \/ row'[a] = [row[a] EXCEPT !.lease = "expired"]
      BY <2>3, <2>6 DEF BecomeDue, LeaseExpires
    <3>3. row'[a].status = row[a].status /\ row'[a].owner = row[a].owner
      BY <3>1, <3>2 DEF Row
    <3>4. QED BY <2>1, <3>3 DEF RunningIsWorked, Reports
  <2>7. QED BY <2>2, <2>4, <2>5, <2>6
<1>2. ASSUME NEW r \in Requests, LeaseClaim(r)
      PROVE  \/ row'[a].owner \in executing'[a]
             \/ {s \in Requests : /\ req'[s].op \in {"complete", "fail"}
                                  /\ req'[s].worker = row'[a].owner
                                  /\ req'[s].action = a} # {}
  <2>1. req[r] # NoRequest /\ req[r].op = "lease"
    BY <1>0, <1>2 DEF LeaseClaim
  <2>2. req[r].action \in Actions /\ req[r].worker \in Workers
    BY <2>1, RequestType DEF IInv
  <2>3. CASE a = req[r].action
    <3>1. row'[a].owner = req[r].worker
      BY <1>2, <2>2, <2>3 DEF LeaseClaim, IInv, TypeOK, Row
    <3>2. req[r].worker \in executing'[a]
      BY <1>2, <2>2, <2>3 DEF LeaseClaim, IInv, TypeOK
    <3>3. QED BY <3>1, <3>2
  <2>4. CASE a # req[r].action
    <3>1. row'[a] = row[a] /\ executing'[a] = executing[a]
      BY <1>2, <2>2, <2>4 DEF LeaseClaim, IInv, TypeOK
    <3>2. \A s \in Requests : req[s].op \in {"complete", "fail"} => req'[s] = req[s]
      BY <1>2, <2>1 DEF LeaseClaim, IInv, TypeOK
    <3>3. QED BY <3>1, <3>2 DEF RunningIsWorked, Reports
  <2>5. QED BY <2>3, <2>4
<1>3. ASSUME UNCHANGED <<row, executing>>, NEW r \in Requests,
             \A s \in Requests \ {r} : req'[s] = req[s],
             req[r].op \notin {"complete", "fail"}
      PROVE  \/ row'[a].owner \in executing'[a]
             \/ {s \in Requests : /\ req'[s].op \in {"complete", "fail"}
                                  /\ req'[s].worker = row'[a].owner
                                  /\ req'[s].action = a} # {}
  BY <1>3 DEF RunningIsWorked, Reports
<1>4. CASE \E r \in Requests : LeaseStep(r)
  <2>1. PICK r \in Requests : LeaseStep(r)
    BY <1>4
  <2>2. CASE LeaseClaim(r)
    BY <1>2, <2>2
  <2>3. CASE (\E b \in Actions : LeaseRetry(r, b)) \/ LeaseGiveUp(r)
    <3>1. /\ UNCHANGED <<row, executing>>
          /\ \A s \in Requests \ {r} : req'[s] = req[s]
          /\ req[r].op = "lease"
      BY <2>3 DEF LeaseRetry, LeaseGiveUp, IInv, TypeOK
    <3>2. QED BY <3>1, <1>3
  <2>4. QED BY <2>1, <2>2, <2>3 DEF LeaseStep
<1>5. CASE \E r \in Requests : WriteStep(r)
  <2>1. PICK r \in Requests : WriteStep(r)
    BY <1>5
  <2>2. PICK st \in Terminal \cup {"queued"}, due \in BOOLEAN : Overwrite(r, st, due)
    BY <2>1 DEF WriteStep, CompleteWrite, FailWrite, CancelWrite, Terminal
  <2>3. req[r] # NoRequest
    BY <1>0, <2>1 DEF WriteStep, CompleteWrite, FailWrite, CancelWrite
  <2>4. req[r].action \in Actions
    BY <2>3, RequestType DEF IInv
  <2>5. row'[req[r].action].status = st
    BY <2>2, <2>4 DEF Overwrite, ReleaseLease, IInv, TypeOK, Row
  <2>6. a # req[r].action
    BY <2>5 DEF Terminal
  <2>7. /\ row'[a] = row[a] /\ executing' = executing
        /\ \A s \in Requests \ {r} : req'[s] = req[s]
    BY <2>2, <2>4, <2>6 DEF Overwrite, IInv, TypeOK
  <2>8. QED BY <2>6, <2>7 DEF RunningIsWorked, Reports
<1>6. CASE \E w \in Workers : Select(w)
  <2>1. PICK w \in Workers, r \in Requests, b \in Actions : LeaseSelect(r, w, b)
    BY <1>6 DEF Select
  <2>2. /\ UNCHANGED <<row, executing>>
        /\ \A s \in Requests \ {r} : req'[s] = req[s]
        /\ req[r].op = "idle"
    BY <1>0, <2>1 DEF LeaseSelect, IInv, TypeOK
  <2>3. QED BY <2>2, <1>3
<1>7. CASE \E w \in Workers : Report(w)
  <2>1. PICK w \in Workers, r \in Requests, b \in Actions,
             op \in {"complete", "fail"}, f \in BOOLEAN : ReportRead(r, w, b, op, f)
    BY <1>7 DEF Report, CompleteRead, FailRead
  <2>2. /\ row' = row /\ req[r].op = "idle"
        /\ req' = [req EXCEPT ![r] = [op |-> op, worker |-> w, action |-> b,
                                      copy |-> row[b], retryable |-> f, tries |-> 1]]
        /\ executing' = [executing EXCEPT ![b] = @ \ {w}]
    BY <1>0, <2>1 DEF ReportRead
  <2>3. /\ req'[r].op = op /\ req'[r].worker = w /\ req'[r].action = b
        /\ \A s \in Requests \ {r} : req'[s] = req[s]
    BY <2>2 DEF IInv, TypeOK
  <2>4. CASE a = b /\ row[a].owner = w
    BY <2>2, <2>3, <2>4
  <2>5. CASE ~(a = b /\ row[a].owner = w)
    <3>1. row[a].owner \in executing[a] => row[a].owner \in executing'[a]
      BY <2>2, <2>5 DEF IInv, TypeOK
    <3>2. QED BY <2>2, <2>3, <3>1 DEF RunningIsWorked, Reports
  <2>6. QED BY <2>4, <2>5
<1>8. CASE \E r \in Requests, w \in Workers, b \in Actions : CancelRead(r, w, b)
  <2>1. PICK r \in Requests, w \in Workers, b \in Actions : CancelRead(r, w, b)
    BY <1>8
  <2>2. /\ UNCHANGED <<row, executing>>
        /\ \A s \in Requests \ {r} : req'[s] = req[s]
        /\ req[r].op = "idle"
    BY <1>0, <2>1 DEF CancelRead, IInv, TypeOK
  <2>3. QED BY <2>2, <1>3
<1>9. CASE \E w \in Workers : LoseWorker(w)
  BY <1>9 DEF LoseWorker, RunningIsWorked, Reports
<1>10. CASE UNCHANGED vars
  BY <1>10 DEF vars, RunningIsWorked, Reports
<1>q. QED BY <1>1, <1>4, <1>5, <1>6, <1>7, <1>8, <1>9, <1>10 DEF Next

\* Whatever reports are sent twice, written late or cancelled under way, a RUNNING
\* action is being executed by its owner, or the owner's report is about to be written
\* (lease_next_action, complete_action, fail_action, cancel_action).
THEOREM NoneAbandoned == Spec => []RunningIsWorked
<1>1. IInv /\ RunningIsWorked /\ [Next]_vars => RunningIsWorked'
  BY NextWorked
<1>2. QED BY <1>1, InitWorked, Invariance, PTL DEF Spec

\* A lease is an attempt, and on a RUNNING row it stands for somebody at work
\* (lease_next_action, complete_action, fail_action).
THEOREM LeasesKept == Spec => []LeasesHeld
<1>1. LeaseDiscipline /\ RunningIsWorked => LeasesHeld
  BY DEF LeasesHeld
<1>2. QED BY <1>1, LeasesAccounted, NoneAbandoned, PTL

=============================================================================
