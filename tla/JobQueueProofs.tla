-------------------------- MODULE JobQueueProofs ----------------------------
(***************************************************************************)
(* Invariance proofs for JobQueue, for any sets of jobs, workers and       *)
(* tenants and any attempt limit.                                          *)
(***************************************************************************)
EXTENDS JobQueue, TLAPS

\* A processor has no job both waiting in its batch and running.
CurNotInBatch == \A w \in Workers : cur[w] \notin batch[w]

\* The status of a claimed row is RUNNING, or FAILED when the detector or an
\* account closure wrote over it: never one from which it is fetched,
\* purged or enqueued again.
ClaimedStatus ==
    \A w \in Workers : \A j \in Claimed(w) : row[j].status \in {"running", "failed"}

\* A row waiting in a batch still has an attempt left.
BatchHasAttempts ==
    \A w \in Workers : \A j \in batch[w] : row[j].attempts < MaxAttempts

\* The detector holds no row that the purge has removed.
ScanPresent == \A j \in scan : row[j].status # "absent"

\* Only a handler that commits on its own has committed early.
CommittedEarly == \A w \in Workers : committed[w] => cur[w] \in SelfCommitting

\* The attempt of a handler that has not committed is still unspent.
RunningHasBudget ==
    \A w \in Workers : cur[w] # NoJob /\ ~committed[w]
                          => effects[cur[w]] + 1 <= row[cur[w]].attempts

\* A job whose commit is the processor's has had no effect while it is open.
OpenHasNoEffect ==
    /\ \A j \in Jobs \ SelfCommitting :
          row[j].status \in {"pending", "running"} => effects[j] = 0
    /\ \A w \in Workers : \A j \in Claimed(w) \ SelfCommitting : effects[j] = 0

IInv ==
    /\ TypeOK
    /\ SoleOwner
    /\ CurNotInBatch
    /\ ClaimedStatus
    /\ BatchHasAttempts
    /\ ScanPresent
    /\ CommittedEarly
    /\ EffectsWithinAttempts
    /\ RunningHasBudget
    /\ OpenHasNoEffect
    /\ EffectOnce

\* Initially no row exists and nothing is claimed.
LEMMA InitIInv == Init => IInv
  BY JobQueueAssumption
  DEF Init, IInv, TypeOK, Row, Status, NoRow, SoleOwner, Claimed, CurNotInBatch,
      ClaimedStatus, BatchHasAttempts, ScanPresent, CommittedEarly,
      EffectsWithinAttempts, RunningHasBudget, OpenHasNoEffect, EffectOnce

\* A requeued row is a row.
LEMMA RequeuedRow ==
    ASSUME NEW r \in Row
    PROVE  Requeued(r) \in Row
<1> DEFINE p == [r EXCEPT !.status = "pending"]
<1>1. p \in Row
  BY DEF Row, Status
<1>2. [p EXCEPT !.due = FALSE] \in Row
  BY <1>1 DEF Row
<1>3. Requeued(r) = [p EXCEPT !.due = FALSE]
  BY DEF Requeued
<1>4. QED BY <1>2, <1>3

\* EnqueueJob preserves the invariant.  Only a key without a row is enqueued, so no claim or scan holds it.
LEMMA EnqueueJobStep ==
    ASSUME IInv, NEW j \in Jobs, NEW due \in BOOLEAN, EnqueueJob(j, due)
    PROVE  IInv'
<1> USE JobQueueAssumption DEF IInv, TypeOK, Row, Status
<1>1. TypeOK'
  BY DEF EnqueueJob, NewRow
<1>2. ClaimedStatus'
  BY DEF ClaimedStatus, Claimed, EnqueueJob, NewRow
<1>3. BatchHasAttempts'
  BY DEF BatchHasAttempts, ClaimedStatus, Claimed, EnqueueJob, NewRow
<1>4. ScanPresent'
  BY DEF ScanPresent, EnqueueJob, NewRow
<1>5. EffectsWithinAttempts'
  BY DEF EffectsWithinAttempts, EnqueueJob, NewRow
<1>6. RunningHasBudget'
  BY DEF RunningHasBudget, ClaimedStatus, Claimed, EnqueueJob, NewRow
<1>7. OpenHasNoEffect'
  BY DEF OpenHasNoEffect, Claimed, EnqueueJob, NewRow
<1>8. EffectOnce'
  BY DEF EffectOnce, EnqueueJob, NewRow
<1>9. (SoleOwner /\ CurNotInBatch /\ CommittedEarly)'
  BY DEF SoleOwner, Claimed, CurNotInBatch, CommittedEarly, EnqueueJob
<1>q. QED BY <1>1, <1>2, <1>3, <1>4, <1>5, <1>6, <1>7, <1>8, <1>9

\* BecomeDue preserves the invariant.  No part of the invariant reads scheduled_for.
LEMMA BecomeDueStep ==
    ASSUME IInv, NEW j \in Jobs, BecomeDue(j)
    PROVE  IInv'
<1> USE JobQueueAssumption DEF IInv, TypeOK, Row, Status
<1>1. TypeOK'
  BY DEF BecomeDue
<1>2. ClaimedStatus'
  BY DEF ClaimedStatus, Claimed, BecomeDue
<1>3. BatchHasAttempts'
  BY DEF BatchHasAttempts, BecomeDue
<1>4. ScanPresent'
  BY DEF ScanPresent, BecomeDue
<1>5. EffectsWithinAttempts'
  BY DEF EffectsWithinAttempts, BecomeDue
<1>6. RunningHasBudget'
  BY DEF RunningHasBudget, BecomeDue
<1>7. OpenHasNoEffect'
  BY DEF OpenHasNoEffect, Claimed, BecomeDue
<1>8. EffectOnce'
  BY DEF EffectOnce, BecomeDue
<1>9. (SoleOwner /\ CurNotInBatch /\ CommittedEarly)'
  BY DEF SoleOwner, Claimed, CurNotInBatch, CommittedEarly, BecomeDue
<1>q. QED BY <1>1, <1>2, <1>3, <1>4, <1>5, <1>6, <1>7, <1>8, <1>9

\* BecomeAged preserves the invariant.  No part of the invariant reads created_at.
LEMMA BecomeAgedStep ==
    ASSUME IInv, NEW j \in Jobs, BecomeAged(j)
    PROVE  IInv'
<1> USE JobQueueAssumption DEF IInv, TypeOK, Row, Status
<1>1. TypeOK'
  BY DEF BecomeAged
<1>2. ClaimedStatus'
  BY DEF ClaimedStatus, Claimed, BecomeAged
<1>3. BatchHasAttempts'
  BY DEF BatchHasAttempts, BecomeAged
<1>4. ScanPresent'
  BY DEF ScanPresent, BecomeAged
<1>5. EffectsWithinAttempts'
  BY DEF EffectsWithinAttempts, BecomeAged
<1>6. RunningHasBudget'
  BY DEF RunningHasBudget, BecomeAged
<1>7. OpenHasNoEffect'
  BY DEF OpenHasNoEffect, Claimed, BecomeAged
<1>8. EffectOnce'
  BY DEF EffectOnce, BecomeAged
<1>9. (SoleOwner /\ CurNotInBatch /\ CommittedEarly)'
  BY DEF SoleOwner, Claimed, CurNotInBatch, CommittedEarly, BecomeAged
<1>q. QED BY <1>1, <1>2, <1>3, <1>4, <1>5, <1>6, <1>7, <1>8, <1>9

\* FetchAndLockBatch preserves the invariant.  A fetched row is PENDING, so nobody has claimed it.
LEMMA FetchAndLockBatchStep ==
    ASSUME IInv, NEW w \in Workers, FetchAndLockBatch(w)
    PROVE  IInv'
<1> USE JobQueueAssumption DEF IInv, TypeOK, Row, Status
<1>1. TypeOK'
  BY DEF FetchAndLockBatch, Idle, Eligible
<1>2. SoleOwner'
  BY DEF SoleOwner, Claimed, ClaimedStatus, FetchAndLockBatch, Idle,
      Eligible
<1>3. CurNotInBatch'
  BY DEF CurNotInBatch, FetchAndLockBatch, Idle, Eligible
<1>4. ClaimedStatus'
  BY DEF ClaimedStatus, Claimed, FetchAndLockBatch, Idle, Eligible
<1>5. BatchHasAttempts'
  BY DEF BatchHasAttempts, FetchAndLockBatch, Idle, Eligible
<1>6. ScanPresent'
  BY DEF ScanPresent, FetchAndLockBatch, Idle, Eligible
<1>7. EffectsWithinAttempts'
  BY DEF EffectsWithinAttempts, FetchAndLockBatch, Idle, Eligible
<1>8. RunningHasBudget'
  BY DEF RunningHasBudget, FetchAndLockBatch, Idle, Eligible
<1>9. OpenHasNoEffect'
  BY DEF OpenHasNoEffect, Claimed, FetchAndLockBatch, Idle, Eligible
<1>10. EffectOnce'
  BY DEF EffectOnce, FetchAndLockBatch, Idle, Eligible
<1>11. (CommittedEarly)'
  BY DEF CommittedEarly, FetchAndLockBatch
<1>q. QED BY <1>1, <1>2, <1>3, <1>4, <1>5, <1>6, <1>7, <1>8, <1>9, <1>10,
    <1>11

\* StartJob preserves the invariant.  The attempt the handler may spend is counted here.
LEMMA StartJobStep ==
    ASSUME IInv, NEW w \in Workers, NEW j \in Jobs, StartJob(w, j)
    PROVE  IInv'
<1> USE JobQueueAssumption DEF IInv, TypeOK, Row, Status
<1>1. TypeOK'
  <2>1. row[j].attempts + 1 \in 0..MaxAttempts
    BY DEF StartJob, BatchHasAttempts
  <2>2. [row[j] EXCEPT !.attempts = @ + 1] \in Row
    BY <2>1
  <2>3. QED BY <2>2 DEF StartJob
<1>2. SoleOwner'
  <2>1. Claimed(w)' = Claimed(w)
    BY DEF StartJob, Claimed
  <2>2. \A v \in Workers \ {w} : Claimed(v)' = Claimed(v)
    BY DEF StartJob, Claimed
  <2>3. QED BY <2>1, <2>2 DEF SoleOwner
<1>3. CurNotInBatch'
  BY DEF CurNotInBatch, StartJob
<1>4. ClaimedStatus'
  BY DEF ClaimedStatus, Claimed, StartJob
<1>5. BatchHasAttempts'
  BY DEF BatchHasAttempts, SoleOwner, Claimed, StartJob
<1>6. ScanPresent'
  BY DEF ScanPresent, StartJob
<1>7. CommittedEarly'
  BY DEF CommittedEarly, StartJob
<1>8. EffectsWithinAttempts'
  BY DEF EffectsWithinAttempts, StartJob
<1>9. RunningHasBudget'
  BY DEF RunningHasBudget, EffectsWithinAttempts, CommittedEarly, SoleOwner,
      Claimed, ClaimedStatus, StartJob
<1>10. OpenHasNoEffect'
  BY DEF OpenHasNoEffect, Claimed, StartJob
<1>11. EffectOnce'
  BY DEF EffectOnce, StartJob
<1>q. QED BY <1>1, <1>2, <1>3, <1>4, <1>5, <1>6, <1>7, <1>8, <1>9, <1>10,
    <1>11

\* HandlerCommits preserves the invariant.  The effect uses the attempt counted by StartJob.
LEMMA HandlerCommitsStep ==
    ASSUME IInv, NEW w \in Workers, HandlerCommits(w)
    PROVE  IInv'
<1> USE JobQueueAssumption DEF IInv, TypeOK, Row, Status
<1>1. TypeOK'
  BY DEF HandlerCommits
<1>2. CommittedEarly'
  BY DEF CommittedEarly, HandlerCommits
<1>3. EffectsWithinAttempts'
  BY DEF EffectsWithinAttempts, RunningHasBudget, HandlerCommits
<1>4. RunningHasBudget'
  BY DEF RunningHasBudget, SoleOwner, Claimed, HandlerCommits
<1>5. OpenHasNoEffect'
  BY DEF OpenHasNoEffect, Claimed, HandlerCommits
<1>6. EffectOnce'
  BY DEF EffectOnce, HandlerCommits
<1>7. (SoleOwner /\ CurNotInBatch /\ ClaimedStatus /\ BatchHasAttempts /\
    ScanPresent)'
  BY DEF SoleOwner, Claimed, CurNotInBatch, ClaimedStatus, BatchHasAttempts,
      ScanPresent, HandlerCommits
<1>q. QED BY <1>1, <1>2, <1>3, <1>4, <1>5, <1>6, <1>7

\* CompleteJob preserves the invariant.  The completed row leaves the claim of its only owner.
LEMMA CompleteJobStep ==
    ASSUME IInv, NEW w \in Workers, CompleteJob(w)
    PROVE  IInv'
<1> USE JobQueueAssumption DEF IInv, TypeOK, Row, Status
<1>1. TypeOK'
  BY DEF CompleteJob, LeaveHandler
<1>2. SoleOwner'
  BY DEF SoleOwner, Claimed, CompleteJob, LeaveHandler
<1>3. CurNotInBatch'
  BY DEF CurNotInBatch, CompleteJob, LeaveHandler
<1>4. ClaimedStatus'
  BY DEF ClaimedStatus, Claimed, SoleOwner, CurNotInBatch, CompleteJob,
      LeaveHandler
<1>5. BatchHasAttempts'
  BY DEF BatchHasAttempts, CompleteJob, LeaveHandler
<1>6. ScanPresent'
  BY DEF ScanPresent, CompleteJob, LeaveHandler
<1>7. CommittedEarly'
  BY DEF CommittedEarly, CompleteJob, LeaveHandler
<1>8. EffectsWithinAttempts'
  BY DEF EffectsWithinAttempts, RunningHasBudget, ClaimedStatus, Claimed,
      CompleteJob, LeaveHandler
<1>9. RunningHasBudget'
  BY DEF RunningHasBudget, SoleOwner, Claimed, CompleteJob, LeaveHandler
<1>10. OpenHasNoEffect'
  BY DEF OpenHasNoEffect, Claimed, SoleOwner, CurNotInBatch, CompleteJob,
      LeaveHandler
<1>11. EffectOnce'
  BY DEF EffectOnce, OpenHasNoEffect, Claimed, CommittedEarly, CompleteJob,
      LeaveHandler
<1>q. QED BY <1>1, <1>2, <1>3, <1>4, <1>5, <1>6, <1>7, <1>8, <1>9, <1>10,
    <1>11

\* FailJob preserves the invariant.  The row goes back to PENDING only as it leaves the claim.
LEMMA FailJobStep ==
    ASSUME IInv, NEW w \in Workers, FailJob(w)
    PROVE  IInv'
<1> USE JobQueueAssumption DEF IInv, TypeOK, Row, Status
<1>1. TypeOK'
  <2>1. [row[cur[w]] EXCEPT !.status = "dead_letter"] \in Row
    BY DEF FailJob
  <2>2. Requeued(row[cur[w]]) \in Row
    BY RequeuedRow DEF FailJob
  <2>3. QED BY <2>1, <2>2 DEF FailJob, LeaveHandler
<1>2. SoleOwner'
  BY DEF SoleOwner, Claimed, FailJob, LeaveHandler, Requeued
<1>3. CurNotInBatch'
  BY DEF CurNotInBatch, FailJob, LeaveHandler, Requeued
<1>4. ClaimedStatus'
  BY DEF ClaimedStatus, Claimed, SoleOwner, CurNotInBatch, FailJob,
      LeaveHandler, Requeued
<1>5. BatchHasAttempts'
  BY DEF BatchHasAttempts, FailJob, LeaveHandler, Requeued
<1>6. ScanPresent'
  BY DEF ScanPresent, FailJob, LeaveHandler, Requeued
<1>7. CommittedEarly'
  BY DEF CommittedEarly, FailJob, LeaveHandler, Requeued
<1>8. EffectsWithinAttempts'
  BY DEF EffectsWithinAttempts, ClaimedStatus, Claimed, FailJob,
      LeaveHandler, Requeued
<1>9. RunningHasBudget'
  BY DEF RunningHasBudget, FailJob, LeaveHandler, Requeued
<1>10. OpenHasNoEffect'
  BY DEF OpenHasNoEffect, Claimed, ClaimedStatus, FailJob, LeaveHandler,
      Requeued
<1>11. EffectOnce'
  BY DEF EffectOnce, ClaimedStatus, Claimed, FailJob, LeaveHandler, Requeued
<1>q. QED BY <1>1, <1>2, <1>3, <1>4, <1>5, <1>6, <1>7, <1>8, <1>9, <1>10,
    <1>11

\* CancelJob preserves the invariant.
LEMMA CancelJobStep ==
    ASSUME IInv, NEW w \in Workers, CancelJob(w)
    PROVE  IInv'
<1> USE JobQueueAssumption DEF IInv, TypeOK, Row, Status
<1>1. TypeOK'
  <2>1. Requeued(row[cur[w]]) \in Row
    BY RequeuedRow DEF CancelJob
  <2>2. QED BY <2>1 DEF CancelJob, LeaveHandler
<1>2. SoleOwner'
  BY DEF SoleOwner, Claimed, CancelJob, LeaveHandler, Requeued
<1>3. CurNotInBatch'
  BY DEF CurNotInBatch, CancelJob, LeaveHandler, Requeued
<1>4. ClaimedStatus'
  BY DEF ClaimedStatus, Claimed, SoleOwner, CurNotInBatch, CancelJob,
      LeaveHandler, Requeued
<1>5. BatchHasAttempts'
  BY DEF BatchHasAttempts, CancelJob, LeaveHandler, Requeued
<1>6. ScanPresent'
  BY DEF ScanPresent, CancelJob, LeaveHandler, Requeued
<1>7. CommittedEarly'
  BY DEF CommittedEarly, CancelJob, LeaveHandler, Requeued
<1>8. EffectsWithinAttempts'
  BY DEF EffectsWithinAttempts, ClaimedStatus, Claimed, CancelJob,
      LeaveHandler, Requeued
<1>9. RunningHasBudget'
  BY DEF RunningHasBudget, CancelJob, LeaveHandler, Requeued
<1>10. OpenHasNoEffect'
  BY DEF OpenHasNoEffect, Claimed, CancelJob, LeaveHandler, Requeued
<1>11. EffectOnce'
  BY DEF EffectOnce, CancelJob, LeaveHandler, Requeued
<1>q. QED BY <1>1, <1>2, <1>3, <1>4, <1>5, <1>6, <1>7, <1>8, <1>9, <1>10,
    <1>11

\* DropClaims preserves the invariant.  Claims only disappear; the rows stay RUNNING.
LEMMA DropClaimsStep ==
    ASSUME IInv, NEW w \in Workers, DropClaims(w)
    PROVE  IInv'
<1> USE JobQueueAssumption DEF IInv, TypeOK, Row, Status
<1>1. TypeOK'
  BY DEF DropClaims, LeaveHandler
<1>2. SoleOwner'
  <2>1. Claimed(w)' = {}
    BY DEF DropClaims, LeaveHandler, Claimed
  <2>2. \A v \in Workers \ {w} : Claimed(v)' = Claimed(v)
    BY DEF DropClaims, LeaveHandler, Claimed
  <2>3. QED BY <2>1, <2>2 DEF SoleOwner
<1>3. CurNotInBatch'
  BY DEF CurNotInBatch, DropClaims, LeaveHandler
<1>4. ClaimedStatus'
  BY DEF ClaimedStatus, Claimed, DropClaims, LeaveHandler
<1>5. BatchHasAttempts'
  BY DEF BatchHasAttempts, DropClaims, LeaveHandler
<1>6. CommittedEarly'
  BY DEF CommittedEarly, DropClaims, LeaveHandler
<1>7. RunningHasBudget'
  BY DEF RunningHasBudget, DropClaims, LeaveHandler
<1>8. OpenHasNoEffect'
  BY DEF OpenHasNoEffect, Claimed, DropClaims, LeaveHandler
<1>9. (ScanPresent /\ EffectsWithinAttempts /\ EffectOnce)'
  BY DEF ScanPresent, EffectsWithinAttempts, EffectOnce, DropClaims,
      LeaveHandler
<1>q. QED BY <1>1, <1>2, <1>3, <1>4, <1>5, <1>6, <1>7, <1>8, <1>9

\* DetectRead preserves the invariant.
LEMMA DetectReadStep ==
    ASSUME IInv, DetectRead
    PROVE  IInv'
<1> USE JobQueueAssumption DEF IInv, TypeOK, Row, Status
<1>1. TypeOK'
  BY DEF DetectRead
<1>2. ScanPresent'
  BY DEF ScanPresent, DetectRead
<1>3. (SoleOwner /\ CurNotInBatch /\ ClaimedStatus /\ BatchHasAttempts /\
    CommittedEarly /\ EffectsWithinAttempts /\ RunningHasBudget /\
    OpenHasNoEffect /\ EffectOnce)'
  BY DEF SoleOwner, Claimed, CurNotInBatch, ClaimedStatus, BatchHasAttempts,
      CommittedEarly, EffectsWithinAttempts, RunningHasBudget,
      OpenHasNoEffect, EffectOnce, DetectRead
<1>q. QED BY <1>1, <1>2, <1>3

\* DetectWrite preserves the invariant.  A scanned row exists, whatever its status has become.
LEMMA DetectWriteStep ==
    ASSUME IInv, DetectWrite
    PROVE  IInv'
<1> USE JobQueueAssumption DEF IInv, TypeOK, Row, Status
<1>1. TypeOK'
  BY DEF DetectWrite
<1>2. ClaimedStatus'
  BY DEF ClaimedStatus, Claimed, DetectWrite
<1>3. BatchHasAttempts'
  BY DEF BatchHasAttempts, DetectWrite
<1>4. ScanPresent'
  BY DEF ScanPresent, DetectWrite
<1>5. EffectsWithinAttempts'
  BY DEF EffectsWithinAttempts, ScanPresent, DetectWrite
<1>6. RunningHasBudget'
  BY DEF RunningHasBudget, DetectWrite
<1>7. OpenHasNoEffect'
  BY DEF OpenHasNoEffect, Claimed, DetectWrite
<1>8. EffectOnce'
  BY DEF EffectOnce, DetectWrite
<1>9. (SoleOwner /\ CurNotInBatch /\ CommittedEarly)'
  BY DEF SoleOwner, Claimed, CurNotInBatch, CommittedEarly, DetectWrite
<1>q. QED BY <1>1, <1>2, <1>3, <1>4, <1>5, <1>6, <1>7, <1>8, <1>9

\* CloseAccount preserves the invariant.
LEMMA CloseAccountStep ==
    ASSUME IInv, NEW t \in Tenants, CloseAccount(t)
    PROVE  IInv'
<1> USE JobQueueAssumption DEF IInv, TypeOK, Row, Status
<1>1. TypeOK'
  BY DEF CloseAccount
<1>2. ClaimedStatus'
  <2>1. \A w \in Workers : Claimed(w)' = Claimed(w) /\ Claimed(w) \subseteq Jobs
    BY DEF CloseAccount, Claimed
  <2>2. \A j \in Jobs : row'[j].status \in {row[j].status, "failed"}
    BY DEF CloseAccount
  <2>3. QED BY <2>1, <2>2 DEF ClaimedStatus
<1>3. BatchHasAttempts'
  BY DEF BatchHasAttempts, CloseAccount
<1>4. ScanPresent'
  BY DEF ScanPresent, CloseAccount
<1>5. EffectsWithinAttempts'
  BY DEF EffectsWithinAttempts, CloseAccount
<1>6. RunningHasBudget'
  BY DEF RunningHasBudget, CloseAccount
<1>7. OpenHasNoEffect'
  BY DEF OpenHasNoEffect, Claimed, CloseAccount
<1>8. EffectOnce'
  BY DEF EffectOnce, CloseAccount
<1>9. (SoleOwner /\ CurNotInBatch /\ CommittedEarly)'
  BY DEF SoleOwner, Claimed, CurNotInBatch, CommittedEarly, CloseAccount
<1>q. QED BY <1>1, <1>2, <1>3, <1>4, <1>5, <1>6, <1>7, <1>8, <1>9

\* PurgeTerminalJobs preserves the invariant.  A terminal row is not claimed, so no claim loses its row.
LEMMA PurgeTerminalJobsStep ==
    ASSUME IInv, NEW S \in SUBSET Jobs, PurgeTerminalJobs(S)
    PROVE  IInv'
<1> USE JobQueueAssumption DEF IInv, TypeOK, Row, Status
<1>1. TypeOK'
  BY DEF PurgeTerminalJobs, NoRow
<1>2. ClaimedStatus'
  BY DEF ClaimedStatus, Claimed, PurgeTerminalJobs, NoRow
<1>3. BatchHasAttempts'
  BY DEF BatchHasAttempts, ClaimedStatus, Claimed, PurgeTerminalJobs, NoRow
<1>4. ScanPresent'
  BY DEF ScanPresent, PurgeTerminalJobs, NoRow
<1>5. EffectsWithinAttempts'
  BY DEF EffectsWithinAttempts, PurgeTerminalJobs, NoRow
<1>6. RunningHasBudget'
  BY DEF RunningHasBudget, ClaimedStatus, Claimed, PurgeTerminalJobs, NoRow
<1>7. OpenHasNoEffect'
  BY DEF OpenHasNoEffect, Claimed, PurgeTerminalJobs, NoRow
<1>8. EffectOnce'
  BY DEF EffectOnce, PurgeTerminalJobs, NoRow
<1>9. (SoleOwner /\ CurNotInBatch /\ CommittedEarly)'
  BY DEF SoleOwner, Claimed, CurNotInBatch, CommittedEarly,
      PurgeTerminalJobs
<1>q. QED BY <1>1, <1>2, <1>3, <1>4, <1>5, <1>6, <1>7, <1>8, <1>9

\* Every step preserves the invariant.
LEMMA NextIInv ==
    ASSUME IInv, [Next]_vars
    PROVE  IInv'
<1>1. CASE \/ \E j \in Jobs, due \in BOOLEAN : EnqueueJob(j, due)
           \/ \E j \in Jobs : BecomeDue(j)
           \/ \E j \in Jobs : BecomeAged(j)
           \/ \E w \in Workers : FetchAndLockBatch(w)
           \/ \E w \in Workers, j \in Jobs : StartJob(w, j)
           \/ \E w \in Workers : HandlerCommits(w)
           \/ \E w \in Workers : CompleteJob(w)
           \/ \E w \in Workers : FailJob(w)
           \/ \E w \in Workers : CancelJob(w)
           \/ DetectRead
           \/ DetectWrite
           \/ \E t \in Tenants : CloseAccount(t)
           \/ \E S \in SUBSET Jobs : PurgeTerminalJobs(S)
  BY <1>1, EnqueueJobStep, BecomeDueStep, BecomeAgedStep, FetchAndLockBatchStep,
     StartJobStep, HandlerCommitsStep, CompleteJobStep, FailJobStep,
     CancelJobStep, DetectReadStep, DetectWriteStep, CloseAccountStep,
     PurgeTerminalJobsStep
<1>2. CASE \E w \in Workers : UncaughtError(w)
  BY <1>2, DropClaimsStep DEF UncaughtError
<1>3. CASE \E w \in Workers : CrashWorker(w)
  BY <1>3, DropClaimsStep DEF CrashWorker
<1>4. CASE UNCHANGED vars
  BY <1>4
  DEF vars, IInv, TypeOK, SoleOwner, Claimed, CurNotInBatch, ClaimedStatus,
      BatchHasAttempts, ScanPresent, CommittedEarly, EffectsWithinAttempts,
      RunningHasBudget, OpenHasNoEffect, EffectOnce
<1>5. QED BY <1>1, <1>2, <1>3, <1>4 DEF Next

\* The strengthened invariant holds in every behaviour of the queue.
THEOREM Invariance == Spec => []IInv
  BY InitIInv, NextIInv, PTL DEF Spec

\* Every variable keeps its type; in particular attempts never passes
\* max_attempts, although a cancelled job is requeued whatever its attempts.
THEOREM TypeCorrect == Spec => []TypeOK
<1>1. IInv => TypeOK
  BY DEF IInv
<1>2. QED BY <1>1, Invariance, PTL

\* No row is ever claimed by two processors (_fetch_and_lock_batch).
THEOREM ClaimExclusive == Spec => []SoleOwner
<1>1. IInv => SoleOwner
  BY DEF IInv
<1>2. QED BY <1>1, Invariance, PTL

\* Every committed handler effect is paid for by a recorded attempt
\* (_process_single_job).
THEOREM EffectsBounded == Spec => []EffectsWithinAttempts
<1>1. IInv => EffectsWithinAttempts
  BY DEF IInv
<1>2. QED BY <1>1, Invariance, PTL

\* A handler without a commit of its own takes effect at most once, and has
\* taken effect when the row says COMPLETED.
THEOREM EffectExactlyOnce == Spec => []EffectOnce
<1>1. IInv => EffectOnce
  BY DEF IInv
<1>2. QED BY <1>1, Invariance, PTL

\* A job's effects are accounted for by its attempts and its completion
\* (_process_single_job).
THEOREM EffectsKept == Spec => []EffectsAccounted
<1>1. EffectsWithinAttempts /\ EffectOnce => EffectsAccounted
  BY DEF EffectsAccounted
<1>2. QED BY <1>1, EffectsBounded, EffectExactlyOnce, PTL

\* No step brings a COMPLETED or DEAD_LETTER row back to the queue.
LEMMA TerminalStep ==
    ASSUME IInv, Next, NEW j \in Jobs, row[j].status \in {"completed", "dead_letter"}
    PROVE  row'[j].status \notin {"pending", "running"}
<1> USE JobQueueAssumption DEF IInv, TypeOK, Row, Status
<1>1. \A w \in Workers : j \notin Claimed(w)
  BY DEF ClaimedStatus
<1>2. \A w \in Workers : cur[w] # j /\ j \notin batch[w]
  BY <1>1 DEF Claimed
<1>3. CASE \E i \in Jobs, due \in BOOLEAN : EnqueueJob(i, due)
  BY <1>3 DEF EnqueueJob
<1>4. CASE \E i \in Jobs : BecomeDue(i) \/ BecomeAged(i)
  BY <1>4 DEF BecomeDue, BecomeAged
<1>5. CASE \E w \in Workers : FetchAndLockBatch(w)
  BY <1>5 DEF FetchAndLockBatch, Eligible
<1>6. CASE \E w \in Workers, i \in Jobs : StartJob(w, i)
  BY <1>2, <1>6 DEF StartJob
<1>7. CASE \E w \in Workers : HandlerCommits(w)
  BY <1>7 DEF HandlerCommits
<1>8. CASE \E w \in Workers : CompleteJob(w) \/ FailJob(w) \/ CancelJob(w)
  BY <1>2, <1>8 DEF CompleteJob, FailJob, CancelJob
<1>9. CASE DetectRead \/ DetectWrite
  BY <1>9 DEF DetectRead, DetectWrite
<1>10. CASE \E t \in Tenants : CloseAccount(t)
  BY <1>10 DEF CloseAccount
<1>11. CASE \E S \in SUBSET Jobs : PurgeTerminalJobs(S)
  BY <1>11 DEF PurgeTerminalJobs, NoRow
<1>12. CASE \E w \in Workers : UncaughtError(w) \/ CrashWorker(w)
  BY <1>12 DEF UncaughtError, CrashWorker, DropClaims
<1>13. QED BY <1>3, <1>4, <1>5, <1>6, <1>7, <1>8, <1>9, <1>10, <1>11, <1>12
           DEF Next

\* A finished row is never queued or running again, whatever the detector, an
\* account closure or a processor writes from an old copy.
THEOREM Finality == Spec => NoResurrection
<1>1. IInv /\ [Next]_vars
        => [\A j \in Jobs : row[j].status \in {"completed", "dead_letter"}
              => row'[j].status \notin {"pending", "running"}]_vars
  BY TerminalStep
<1>2. QED BY <1>1, Invariance, PTL DEF Spec, NoResurrection

\* A step that leaves the claims alone and makes no row RUNNING orphans nothing.
LEMMA ClaimsKept ==
    ASSUME UNCHANGED <<batch, cur>>, NEW j \in Jobs,
           row'[j].status = "running" => row[j].status = "running",
           ~Orphaned(j)
    PROVE  ~Orphaned(j)'
  BY DEF Orphaned, Claimed

\* Only a processor that loses its claims orphans a row: a fetched row is in a
\* batch, a started one in a handler, and a finished handler writes another status.
LEMMA OrphanStep ==
    ASSUME IInv, Next, NEW j \in Jobs, ~Orphaned(j), Orphaned(j)'
    PROVE  \E w \in Workers : j \in Claimed(w) /\ Idle(w)' /\ row' = row
<1>0. /\ row \in [Jobs -> Row]
      /\ batch \in [Workers -> SUBSET Jobs]
      /\ cur \in [Workers -> Jobs \cup {NoJob}]
  BY DEF IInv, TypeOK
<1>1. row'[j].status = "running" /\ \A w \in Workers : j \notin batch'[w] /\ cur'[w] # j
  BY JobQueueAssumption DEF Orphaned, Claimed
<1>2. ASSUME NEW i \in Jobs, NEW x, x.status # "running", row' = [row EXCEPT ![i] = x]
      PROVE  row[j].status = "running"
  BY <1>0, <1>1, <1>2
<1>3. CASE \E i \in Jobs, due \in BOOLEAN : EnqueueJob(i, due)
  <2>1. PICK i \in Jobs, due \in BOOLEAN : EnqueueJob(i, due)
    BY <1>3
  <2>2. NewRow(due).status # "running"
    BY DEF NewRow
  <2>3. UNCHANGED <<batch, cur>> /\ row[j].status = "running"
    BY <1>2, <2>1, <2>2 DEF EnqueueJob
  <2>4. QED BY <2>3, ClaimsKept
<1>4. CASE \E i \in Jobs : BecomeDue(i) \/ BecomeAged(i)
  <2>1. UNCHANGED <<batch, cur>> /\ row[j].status = "running"
    BY <1>0, <1>1, <1>4 DEF BecomeDue, BecomeAged, Row
  <2>2. QED BY <2>1, ClaimsKept
<1>5. CASE \E w \in Workers : FetchAndLockBatch(w)
  <2>1. PICK w \in Workers : FetchAndLockBatch(w)
    BY <1>5
  <2>2. PICK S \in SUBSET {i \in Jobs : Eligible(i)} :
          /\ batch' = [batch EXCEPT ![w] = S]
          /\ row' = [i \in Jobs |-> IF i \in S THEN [row[i] EXCEPT !.status = "running"]
                                               ELSE row[i]]
    BY <2>1 DEF FetchAndLockBatch
  <2>3. j \notin S
    BY <1>0, <1>1, <2>2
  <2>4. row[j].status = "running"
    BY <1>1, <2>2, <2>3
  <2>5. batch[w] = {} /\ cur' = cur
    BY <2>1 DEF FetchAndLockBatch, Idle
  <2>6. \A v \in Workers : j \notin Claimed(v)
    BY <1>0, <1>1, <2>2, <2>5 DEF Claimed
  <2>7. QED BY <2>4, <2>6 DEF Orphaned
<1>6. CASE \E w \in Workers, i \in Jobs : StartJob(w, i)
  <2>1. PICK w \in Workers, i \in Jobs : StartJob(w, i)
    BY <1>6
  <2>2. row[j].status = "running"
    BY <1>0, <1>1, <2>1 DEF StartJob, Row
  <2>3. cur'[w] = i /\ i # j
    BY <1>0, <1>1, <2>1 DEF StartJob
  <2>4. \A v \in Workers : j \notin Claimed(v)
    BY <1>0, <1>1, <2>1, <2>3 DEF StartJob, Claimed
  <2>5. QED BY <2>2, <2>4 DEF Orphaned
<1>7. CASE \E w \in Workers : HandlerCommits(w)
  BY <1>1, <1>7, ClaimsKept DEF HandlerCommits
<1>8. CASE \E w \in Workers : CompleteJob(w) \/ FailJob(w) \/ CancelJob(w)
  <2>1. PICK w \in Workers : CompleteJob(w) \/ FailJob(w) \/ CancelJob(w)
    BY <1>8
  <2>2. cur[w] \in Jobs /\ LeaveHandler(w) /\ batch' = batch
    BY <1>0, <2>1 DEF CompleteJob, FailJob, CancelJob
  <2>3. row'[cur[w]].status # "running" /\ \A i \in Jobs \ {cur[w]} : row'[i] = row[i]
    <3>1. row[cur[w]] \in Row
      BY <1>0, <2>2
    <3> DEFINE r == row[cur[w]]
    <3>2. /\ [r EXCEPT !.status = "completed"].status = "completed"
          /\ [r EXCEPT !.status = "dead_letter"].status = "dead_letter"
          /\ Requeued(r).status = "pending"
      BY <3>1 DEF Requeued, Row
    <3>3. CASE CompleteJob(w)
      <4>1. row' = [row EXCEPT ![cur[w]] = [r EXCEPT !.status = "completed"]]
        BY <3>3 DEF CompleteJob
      <4>2. QED BY <1>0, <2>2, <3>2, <4>1
    <3>4. CASE FailJob(w)
      <4>1. \/ row' = [row EXCEPT ![cur[w]] = [r EXCEPT !.status = "dead_letter"]]
            \/ row' = [row EXCEPT ![cur[w]] = Requeued(r)]
        BY <1>0, <2>2, <3>4 DEF FailJob
      <4>2. QED BY <1>0, <2>2, <3>2, <4>1
    <3>5. CASE CancelJob(w)
      <4>1. row' = [row EXCEPT ![cur[w]] = Requeued(r)]
        BY <1>0, <2>2, <3>5 DEF CancelJob
      <4>2. QED BY <1>0, <2>2, <3>2, <4>1
    <3>6. QED BY <2>1, <3>3, <3>4, <3>5
  <2>4. j # cur[w] /\ row[j].status = "running"
    BY <1>1, <2>3
  <2>5. \A v \in Workers : j \notin Claimed(v)
    BY <1>0, <1>1, <2>2, <2>4 DEF LeaveHandler, Claimed
  <2>6. QED BY <2>4, <2>5 DEF Orphaned
<1>9. CASE DetectRead \/ DetectWrite
  <2>1. UNCHANGED <<batch, cur>> /\ row[j].status = "running"
    BY <1>0, <1>1, <1>9 DEF DetectRead, DetectWrite, Row
  <2>2. QED BY <2>1, ClaimsKept
<1>10. CASE \E t \in Tenants : CloseAccount(t)
  <2>1. UNCHANGED <<batch, cur>> /\ row[j].status = "running"
    <3>1. PICK t \in Tenants : CloseAccount(t)
      BY <1>10
    <3>2. row[j] \in Row
      BY <1>0
    <3>3. [row[j] EXCEPT !.status = "failed", !.deleted = TRUE].status = "failed"
      BY <3>2 DEF Row
    <3>4. \/ row'[j] = [row[j] EXCEPT !.status = "failed", !.deleted = TRUE]
          \/ row'[j] = row[j]
      BY <3>1 DEF CloseAccount
    <3>5. QED BY <1>1, <3>1, <3>3, <3>4 DEF CloseAccount
  <2>2. QED BY <2>1, ClaimsKept
<1>11. CASE \E S \in SUBSET Jobs : PurgeTerminalJobs(S)
  <2>1. UNCHANGED <<batch, cur>> /\ row[j].status = "running"
    BY <1>0, <1>1, <1>11 DEF PurgeTerminalJobs, NoRow
  <2>2. QED BY <2>1, ClaimsKept
<1>12. CASE \E w \in Workers : UncaughtError(w) \/ CrashWorker(w)
  <2>1. PICK w \in Workers : DropClaims(w)
    BY <1>12 DEF UncaughtError, CrashWorker
  <2>2. row' = row /\ batch'[w] = {} /\ cur'[w] = NoJob
    BY <1>0, <2>1 DEF DropClaims, LeaveHandler
  <2>3. \A v \in Workers \ {w} : batch'[v] = batch[v] /\ cur'[v] = cur[v]
    BY <1>0, <2>1 DEF DropClaims, LeaveHandler
  <2>4. PICK v \in Workers : j \in Claimed(v)
    BY <1>1, <2>2 DEF Orphaned
  <2>5. v = w
    BY <1>1, <2>3, <2>4 DEF Claimed
  <2>6. QED BY <2>2, <2>4, <2>5 DEF Idle
<1>13. QED BY <1>3, <1>4, <1>5, <1>6, <1>7, <1>8, <1>9, <1>10, <1>11, <1>12
           DEF Next

\* A row is left RUNNING with nobody to run it only when its processor is lost
\* (process_pending_jobs, _process_single_job).
THEOREM OrphansOnlyByLoss == Spec => OrphanedByLossOnly
<1>1. IInv /\ [Next]_vars
        => [\A j \in Jobs :
              (~Orphaned(j) /\ Orphaned(j)')
                => \E w \in Workers : j \in Claimed(w) /\ Idle(w)' /\ row' = row]_vars
  BY OrphanStep
<1>2. QED BY <1>1, Invariance, PTL DEF Spec, OrphanedByLossOnly

-----------------------------------------------------------------------------
(***************************************************************************)
(* JobQueue implements WorkQueue.                                          *)
(***************************************************************************)

\* The state of an item depends on the status of its row only.
LEMMA StateOfRow ==
    ASSUME NEW r \in Row
    PROVE  /\ r.status = "absent" => StateOf(r) = "none"
           /\ r.status = "pending" => StateOf(r) = "waiting"
           /\ r.status = "running" => StateOf(r) = "taken"
           /\ r.status = "failed" => StateOf(r) = "failed"
           /\ r.status \in {"completed", "dead_letter"} => StateOf(r) = "ended"
  BY DEF Row, Status, StateOf

\* The items of WorkQueue move as the statuses of the rows do.
LEMMA StateOfStatus ==
    ASSUME NEW r \in Row, NEW s \in Row, r.status = s.status
    PROVE  StateOf(r) = StateOf(s)
  BY StateOfRow DEF Row, Status

\* No rows, no claims: no items.
LEMMA InitWorkQueue == Init => WQ!Init
<1> SUFFICES ASSUME Init PROVE WQ!Init
  OBVIOUS
<1>1. NoRow \in Row
  BY JobQueueAssumption DEF NoRow, Row, Status
<1>2. \A j \in Jobs : StateOf(row[j]) = "none" /\ row[j].attempts = 0
  BY <1>1, StateOfRow DEF Init, NoRow
<1>3. \A w \in Workers : Claimed(w) = {}
  BY DEF Init, Claimed
<1>4. QED BY <1>2, <1>3 DEF Init, WQ!Init

\* enqueue_job submits an item.
LEMMA EnqueueSubmits ==
    ASSUME IInv, IInv', NEW j \in Jobs, NEW due \in BOOLEAN, EnqueueJob(j, due)
    PROVE  WQ!Submit(j)
<1> USE DEF IInv, TypeOK
<1>1. /\ row[j].status = "absent"
      /\ row'[j].status = "pending" /\ row'[j].attempts = 0
      /\ \A i \in Jobs \ {j} : row'[i] = row[i]
  BY DEF EnqueueJob, NewRow
<1>2. /\ StateOf(row[j]) = "none" /\ StateOf(row'[j]) = "waiting"
      /\ \A i \in Jobs \ {j} : StateOf(row'[i]) = StateOf(row[i])
  BY <1>1, StateOfRow
<1>3. \A w \in Workers : Claimed(w)' = Claimed(w)
  BY DEF EnqueueJob, Claimed
<1>4. effects' = [effects EXCEPT ![j] = 0]
  BY DEF EnqueueJob
<1>5. QED BY <1>1, <1>2, <1>3, <1>4 DEF WQ!Submit

\* The clock and the detector's read are invisible.
LEMMA InvisibleStep ==
    ASSUME IInv, IInv',
           (\E j \in Jobs : BecomeDue(j) \/ BecomeAged(j)) \/ DetectRead
    PROVE  UNCHANGED WQ!vars
<1> USE DEF IInv, TypeOK
<1>1. \A j \in Jobs : row'[j].status = row[j].status /\ row'[j].attempts = row[j].attempts
  BY DEF BecomeDue, BecomeAged, DetectRead, Row
<1>2. \A j \in Jobs : StateOf(row'[j]) = StateOf(row[j])
  BY <1>1, StateOfStatus
<1>3. \A w \in Workers : Claimed(w)' = Claimed(w)
  BY DEF BecomeDue, BecomeAged, DetectRead, Claimed
<1>4. effects' = effects
  BY DEF BecomeDue, BecomeAged, DetectRead
<1>5. QED BY <1>1, <1>2, <1>3, <1>4 DEF WQ!vars

\* _fetch_and_lock_batch takes waiting items that nobody holds.
LEMMA FetchTakes ==
    ASSUME IInv, IInv', NEW w \in Workers, FetchAndLockBatch(w)
    PROVE  \E S \in SUBSET Jobs : WQ!Take(w, S)
<1> USE DEF IInv, TypeOK
<1>1. PICK S \in SUBSET {j \in Jobs : Eligible(j)} :
         /\ S # {}
         /\ batch' = [batch EXCEPT ![w] = S]
         /\ row' = [j \in Jobs |-> IF j \in S THEN [row[j] EXCEPT !.status = "running"]
                                              ELSE row[j]]
  BY DEF FetchAndLockBatch
<1>2. /\ Idle(w) /\ cur' = cur /\ effects' = effects
  BY DEF FetchAndLockBatch
<1>3. \A i \in S : /\ i \in Jobs /\ row[i].status = "pending"
                   /\ row[i].attempts < MaxAttempts
  BY DEF Eligible
<1>4. \A i \in S, v \in Workers : i \notin Claimed(v)
  BY <1>3 DEF ClaimedStatus
<1>5. /\ Claimed(w) = {} /\ Claimed(w)' = S
      /\ \A v \in Workers \ {w} : Claimed(v)' = Claimed(v)
  BY <1>1, <1>2 DEF Idle, Claimed
<1>6. \A j \in Jobs : /\ row'[j].attempts = row[j].attempts
                      /\ row'[j].status = IF j \in S THEN "running" ELSE row[j].status
  BY <1>1 DEF Row
<1>7. \A j \in Jobs : StateOf(row'[j]) = IF j \in S THEN "taken" ELSE StateOf(row[j])
  BY <1>6, StateOfRow, StateOfStatus
<1>8. \A i \in S : StateOf(row[i]) = "waiting"
  BY <1>3, StateOfRow
<1>9. WQ!Take(w, S)
  BY <1>1, <1>2, <1>3, <1>4, <1>5, <1>6, <1>7, <1>8 DEF WQ!Take, WQ!Held
<1>10. QED BY <1>9

\* The attempt counted by _process_single_job is opened on a held item.
LEMMA StartTries ==
    ASSUME IInv, IInv', NEW w \in Workers, NEW j \in Jobs, StartJob(w, j)
    PROVE  WQ!Try(w, j)
<1> USE DEF IInv, TypeOK
<1>1. \A i \in Jobs : /\ row'[i].status = row[i].status
                      /\ row'[i].attempts = IF i = j THEN row[j].attempts + 1
                                                     ELSE row[i].attempts
  BY DEF StartJob, Row
<1>2. \A i \in Jobs : StateOf(row'[i]) = StateOf(row[i])
  BY <1>1, StateOfStatus
<1>3. j \in Claimed(w) /\ row[j].attempts < MaxAttempts
  BY DEF StartJob, Claimed, BatchHasAttempts
<1>4. \A v \in Workers : Claimed(v)' = Claimed(v)
  BY JobQueueAssumption DEF StartJob, Claimed
<1>5. effects' = effects
  BY DEF StartJob
<1>6. QED BY <1>1, <1>2, <1>3, <1>4, <1>5 DEF WQ!Try

\* A handler that commits on its own makes its attempt take effect.
LEMMA CommitRuns ==
    ASSUME IInv, IInv', NEW w \in Workers, HandlerCommits(w)
    PROVE  WQ!Run(w, cur[w])
<1> USE DEF IInv, TypeOK
<1>1. cur[w] \in Jobs /\ cur[w] # NoJob /\ cur[w] \in Claimed(w)
  BY JobQueueAssumption DEF HandlerCommits, Claimed
<1>2. effects[cur[w]] < row[cur[w]].attempts
  BY <1>1 DEF RunningHasBudget, HandlerCommits, Row
<1>3. \A v \in Workers : Claimed(v)' = Claimed(v)
  BY DEF HandlerCommits, Claimed
<1>4. row' = row /\ effects' = [effects EXCEPT ![cur[w]] = @ + 1]
  BY DEF HandlerCommits
<1>5. QED BY <1>1, <1>2, <1>3, <1>4 DEF WQ!Run

\* A processor that leaves a handler gives up that item and no other.
LEMMA LeaveReleases ==
    ASSUME IInv, NEW w \in Workers, cur[w] # NoJob, LeaveHandler(w), batch' = batch
    PROVE  /\ cur[w] \in Claimed(w)
           /\ Claimed(w)' = Claimed(w) \ {cur[w]}
           /\ \A v \in Workers \ {w} : Claimed(v)' = Claimed(v)
  BY DEF IInv, TypeOK, LeaveHandler, Claimed, CurNotInBatch

\* COMPLETED, PENDING or DEAD_LETTER ends the attempt; an uncommitted success
\* takes effect with it.
LEMMA FinishFinishes ==
    ASSUME IInv, IInv', NEW w \in Workers, FinishJob(w)
    PROVE  WQ!Finish(w, cur[w])
<1> USE DEF IInv, TypeOK
<1>1. /\ cur[w] # NoJob /\ cur[w] \in Jobs
      /\ LeaveHandler(w) /\ batch' = batch
  BY DEF FinishJob, CompleteJob, FailJob, CancelJob
<1>2. /\ cur[w] \in Claimed(w)
      /\ Claimed(w)' = Claimed(w) \ {cur[w]}
      /\ \A v \in Workers \ {w} : Claimed(v)' = Claimed(v)
  BY <1>1, LeaveReleases
<1>3. /\ row'[cur[w]].status \in {"completed", "pending", "dead_letter"}
      /\ row'[cur[w]].attempts = row[cur[w]].attempts
      /\ \A i \in Jobs \ {cur[w]} : row'[i] = row[i]
  <2>1. CASE CompleteJob(w)
    BY <1>1, <2>1 DEF CompleteJob, Row
  <2>2. CASE FailJob(w)
    BY <1>1, <2>2 DEF FailJob, Requeued, Row
  <2>3. CASE CancelJob(w)
    BY <1>1, <2>3 DEF CancelJob, Requeued, Row
  <2>4. QED BY <2>1, <2>2, <2>3 DEF FinishJob
<1>4. StateOf(row'[cur[w]]) \in {"waiting", "ended"}
  BY <1>1, <1>3, StateOfRow
<1>5. \/ effects' = effects
      \/ /\ effects[cur[w]] < row[cur[w]].attempts
         /\ StateOf(row'[cur[w]]) = "ended"
         /\ effects' = [effects EXCEPT ![cur[w]] = @ + 1]
  <2>1. CASE CompleteJob(w)
    <3>1. row'[cur[w]].status = "completed"
      BY <1>1, <2>1 DEF CompleteJob, Row
    <3>2. StateOf(row'[cur[w]]) = "ended"
      BY <1>1, <3>1, StateOfRow
    <3>3. ~committed[w] => effects[cur[w]] < row[cur[w]].attempts
      BY <1>1 DEF RunningHasBudget, Row
    <3>4. QED BY <2>1, <3>2, <3>3 DEF CompleteJob
  <2>2. CASE FailJob(w) \/ CancelJob(w)
    BY <2>2 DEF FailJob, CancelJob
  <2>3. QED BY <2>1, <2>2 DEF FinishJob
<1>6. QED BY <1>1, <1>2, <1>3, <1>4, <1>5 DEF WQ!Finish

\* A processor that is lost, or leaves its batch, vanishes with what it holds.
LEMMA DropVanishes ==
    ASSUME IInv, NEW w \in Workers, DropClaims(w), ~Idle(w)
    PROVE  WQ!Vanish(w)
<1> USE DEF IInv, TypeOK
<1>1. Claimed(w) # {}
  BY DEF Idle, Claimed
<1>2. Claimed(w)' = {} /\ \A v \in Workers \ {w} : Claimed(v)' = Claimed(v)
  BY DEF DropClaims, LeaveHandler, Claimed
<1>3. row' = row /\ effects' = effects
  BY DEF DropClaims
<1>4. QED BY <1>1, <1>2, <1>3 DEF WQ!Vanish

\* detect_stuck_jobs and close_account declare items failed.
LEMMA FailureFails ==
    ASSUME IInv, IInv', DetectWrite \/ \E t \in Tenants : CloseAccount(t)
    PROVE  \E S \in SUBSET Jobs : WQ!Fail(S)
<1> USE DEF IInv, TypeOK
<1>1. PICK S \in SUBSET Jobs :
         /\ S # {}
         /\ \A j \in S : row[j].status # "absent" /\ row'[j].status = "failed"
         /\ \A j \in S : row'[j].attempts = row[j].attempts
         /\ \A j \in Jobs \ S : row'[j] = row[j]
  <2>1. CASE DetectWrite
    <3>1. scan \in SUBSET Jobs /\ scan # {}
      BY <2>1 DEF DetectWrite
    <3>2. \A j \in scan : row[j].status # "absent" /\ row'[j].status = "failed"
      BY <2>1 DEF DetectWrite, ScanPresent, Row
    <3>3. \A j \in scan : row'[j].attempts = row[j].attempts
      BY <2>1 DEF DetectWrite, Row
    <3>4. \A j \in Jobs \ scan : row'[j] = row[j]
      BY <2>1 DEF DetectWrite
    <3>5. QED BY <3>1, <3>2, <3>3, <3>4
  <2>2. CASE \E t \in Tenants : CloseAccount(t)
    <3>1. PICK t \in Tenants : CloseAccount(t)
      BY <2>2
    <3> DEFINE T == {j \in Jobs : TenantOf[j] = t /\ row[j].status \in {"pending", "running"}}
    <3>2. \A j \in T : row[j].status # "absent"
      OBVIOUS
    <3>3. ASSUME NEW j \in T
          PROVE  row'[j].status = "failed" /\ row'[j].attempts = row[j].attempts
      <4>1. row'[j] = [row[j] EXCEPT !.status = "failed", !.deleted = TRUE]
        BY <3>1 DEF CloseAccount
      <4>2. row[j] \in Row
        OBVIOUS
      <4>3. QED BY <4>1, <4>2 DEF Row
    <3>4. \A j \in Jobs \ T : row'[j] = row[j]
      BY <3>1 DEF CloseAccount
    <3>5. T # {}
      <4>1. SUFFICES ASSUME T = {} PROVE row' = row
        BY <3>1 DEF CloseAccount
      <4>2. QED BY <3>1, <3>4, <4>1 DEF CloseAccount
    <3>6. T \in SUBSET Jobs
      OBVIOUS
    <3> HIDE DEF T
    <3>7. QED BY <3>2, <3>3, <3>4, <3>5, <3>6
  <2>3. QED BY <2>1, <2>2
<1>2. \A j \in Jobs : StateOf(row'[j]) = IF j \in S THEN "failed" ELSE StateOf(row[j])
  BY <1>1, StateOfRow
<1>3. \A j \in S : StateOf(row[j]) # "none"
  BY <1>1, StateOfRow DEF Row, Status
<1>4. \A w \in Workers : Claimed(w)' = Claimed(w)
  BY DEF DetectWrite, CloseAccount, Claimed
<1>5. effects' = effects
  BY DEF DetectWrite, CloseAccount
<1>6. WQ!Fail(S)
  BY <1>1, <1>2, <1>3, <1>4, <1>5 DEF WQ!Fail
<1>7. QED BY <1>6

\* The purge forgets items that have ended and that nobody holds.
LEMMA PurgeForgets ==
    ASSUME IInv, IInv', NEW S \in SUBSET Jobs, PurgeTerminalJobs(S)
    PROVE  WQ!Forget(S)
<1> USE DEF IInv, TypeOK
<1>1. \A j \in S : row[j].status \in {"completed", "dead_letter"}
  BY DEF PurgeTerminalJobs
<1>2. \A j \in S, w \in Workers : j \notin Claimed(w)
  BY <1>1 DEF ClaimedStatus
<1>3. \A j \in Jobs : row'[j] = IF j \in S THEN NoRow ELSE row[j]
  BY DEF PurgeTerminalJobs
<1>4. NoRow \in Row /\ NoRow.status = "absent" /\ NoRow.attempts = 0
  BY JobQueueAssumption DEF NoRow, Row, Status
<1>5. \A j \in Jobs : StateOf(row'[j]) = IF j \in S THEN "none" ELSE StateOf(row[j])
  BY <1>3, <1>4, StateOfRow
<1>6. \A j \in S : StateOf(row[j]) = "ended"
  BY <1>1, StateOfRow
<1>7. \A w \in Workers : Claimed(w)' = Claimed(w)
  BY DEF PurgeTerminalJobs, Claimed
<1>8. S # {} /\ effects' = effects
  BY DEF PurgeTerminalJobs
<1>9. QED BY <1>2, <1>3, <1>4, <1>5, <1>6, <1>7, <1>8 DEF WQ!Forget, WQ!Held

\* Every step of the queue is a step of the work queue or invisible to it.
LEMMA NextWorkQueue ==
    ASSUME IInv, IInv', [Next]_vars
    PROVE  [WQ!Next]_(WQ!vars)
<1>1. CASE UNCHANGED vars
  BY <1>1 DEF vars, WQ!vars, Claimed
<1>2. CASE \E j \in Jobs, due \in BOOLEAN : EnqueueJob(j, due)
  BY <1>2, EnqueueSubmits DEF WQ!Next
<1>3. CASE (\E j \in Jobs : BecomeDue(j) \/ BecomeAged(j)) \/ DetectRead
  BY <1>3, InvisibleStep
<1>4. CASE \E w \in Workers : FetchAndLockBatch(w)
  BY <1>4, FetchTakes DEF WQ!Next
<1>5. CASE \E w \in Workers, j \in Jobs : StartJob(w, j)
  BY <1>5, StartTries DEF WQ!Next
<1>6. CASE \E w \in Workers : HandlerCommits(w)
  <2>1. PICK w \in Workers : HandlerCommits(w)
    BY <1>6
  <2>2. cur[w] \in Jobs
    BY <2>1, JobQueueAssumption DEF HandlerCommits
  <2>3. QED BY <2>1, <2>2, CommitRuns DEF WQ!Next
<1>7. CASE \E w \in Workers : FinishJob(w)
  <2>1. PICK w \in Workers : FinishJob(w)
    BY <1>7
  <2>2. cur[w] \in Jobs
    BY <2>1 DEF FinishJob, CompleteJob, FailJob, CancelJob, IInv, TypeOK
  <2>3. QED BY <2>1, <2>2, FinishFinishes DEF WQ!Next
<1>8. CASE DetectWrite \/ \E t \in Tenants : CloseAccount(t)
  BY <1>8, FailureFails DEF WQ!Next
<1>9. CASE \E S \in SUBSET Jobs : PurgeTerminalJobs(S)
  BY <1>9, PurgeForgets DEF WQ!Next
<1>10. CASE \E w \in Workers : UncaughtError(w) \/ CrashWorker(w)
  BY <1>10, DropVanishes DEF WQ!Next, UncaughtError, CrashWorker, Idle
<1>q. QED BY <1>1, <1>2, <1>3, <1>4, <1>5, <1>6, <1>7, <1>8, <1>9, <1>10
          DEF Next, FinishJob

\* The processors, the detector, account closure and the purge together keep what
\* WorkQueue promises producers and handlers.
THEOREM Refinement == Spec => ImplementsWorkQueue
<1>1. IInv /\ IInv' /\ [Next]_vars => [WQ!Next]_(WQ!vars)
  BY NextWorkQueue
<1>2. QED BY <1>1, InitWorkQueue, Invariance, PTL DEF Spec, ImplementsWorkQueue, WQ!Spec


-----------------------------------------------------------------------------
(***************************************************************************)
(* What WorkQueue promises, whatever implements it.                        *)
(***************************************************************************)

VARIABLES item, holding, tried, ran

Abstract == INSTANCE WorkQueue WITH
              Items    <- Jobs,
              MaxTries <- MaxAttempts,
              state    <- item,
              holds    <- holding,
              tries    <- tried,
              runs     <- ran

AbstractType ==
    /\ item \in [Jobs -> {"none", "waiting", "taken", "ended", "failed"}]
    /\ holding \in [Workers -> SUBSET Jobs]
    /\ tried \in [Jobs -> Nat]
    /\ ran \in [Jobs -> Nat]

LEMMA AbstractInit == Abstract!Init => AbstractType /\ Abstract!OneHolderPerItem
  BY JobQueueAssumption
  DEF Abstract!Init, AbstractType, Abstract!OneHolderPerItem, Abstract!Held

\* Only waiting items that nobody holds are taken, and an item leaves its holder when it
\* can be taken again.
LEMMA AbstractNext ==
    ASSUME AbstractType, Abstract!OneHolderPerItem, [Abstract!Next]_(Abstract!vars)
    PROVE  AbstractType' /\ Abstract!OneHolderPerItem'
<1> USE JobQueueAssumption DEF AbstractType, Abstract!OneHolderPerItem, Abstract!Held
<1>1. ASSUME NEW i \in Jobs, Abstract!Submit(i)
      PROVE  AbstractType' /\ Abstract!OneHolderPerItem'
  BY <1>1 DEF Abstract!Submit
<1>2. ASSUME NEW w \in Workers, NEW S \in SUBSET Jobs, Abstract!Take(w, S)
      PROVE  AbstractType' /\ Abstract!OneHolderPerItem'
  BY <1>2 DEF Abstract!Take
<1>3. ASSUME NEW w \in Workers, NEW i \in Jobs, Abstract!Try(w, i)
      PROVE  AbstractType' /\ Abstract!OneHolderPerItem'
  BY <1>3 DEF Abstract!Try
<1>4. ASSUME NEW w \in Workers, NEW i \in Jobs, Abstract!Run(w, i)
      PROVE  AbstractType' /\ Abstract!OneHolderPerItem'
  BY <1>4 DEF Abstract!Run
<1>5. ASSUME NEW w \in Workers, NEW i \in Jobs, Abstract!Finish(w, i)
      PROVE  AbstractType' /\ Abstract!OneHolderPerItem'
  BY <1>5 DEF Abstract!Finish
<1>6. ASSUME NEW w \in Workers, Abstract!Vanish(w)
      PROVE  AbstractType' /\ Abstract!OneHolderPerItem'
  BY <1>6 DEF Abstract!Vanish
<1>7. ASSUME NEW S \in SUBSET Jobs, Abstract!Fail(S)
      PROVE  AbstractType' /\ Abstract!OneHolderPerItem'
  BY <1>7 DEF Abstract!Fail
<1>8. ASSUME NEW S \in SUBSET Jobs, Abstract!Forget(S)
      PROVE  AbstractType' /\ Abstract!OneHolderPerItem'
  BY <1>8 DEF Abstract!Forget
<1>9. CASE UNCHANGED Abstract!vars
  BY <1>9 DEF Abstract!vars
<1>10. QED BY <1>1, <1>2, <1>3, <1>4, <1>5, <1>6, <1>7, <1>8, <1>9 DEF Abstract!Next

\* The abstract queue keeps its promise to producers and handlers: one holder, and no more
\* effects than attempts on record.
THEOREM QueuePromise == Abstract!Spec => []Abstract!OneHolderPerItem
<1>1. AbstractType /\ Abstract!OneHolderPerItem /\ [Abstract!Next]_(Abstract!vars)
        => AbstractType' /\ Abstract!OneHolderPerItem'
  BY AbstractNext
<1>2. QED BY <1>1, AbstractInit, PTL DEF Abstract!Spec

=============================================================================
