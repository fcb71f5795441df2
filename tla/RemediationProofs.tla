-------------------------- MODULE RemediationProofs --------------------------
(***************************************************************************)
(* Proofs for Remediation, for any requests, sessions and bounds.          *)
(***************************************************************************)
EXTENDS Remediation, Sums

\* Statuses of a request whose run has begun.
Begun == {"executing", "completed", "failed"}

\* What review and execution say of a request with row w and history h on day d:
\* it has run at most once and is then past its review; a rejected or an escalated
\* one has not run and cannot; a grace period is counted from the last approval.
Lawful(w, h, r, d) ==
    /\ h.runs <= 1
    /\ h.runs = 1 => w.status \in Begun
    /\ h.rejected => h.runs = 0 /\ w.status \in {"rejected", "failed"}
    /\ h.unreviewed => /\ h.runs = 0
                       /\ w.status \in {"pending_approval", "failed"}
                       /\ w.status = "pending_approval" => w.escalated
    /\ h.approvedOn <= d
    /\ w.status = "scheduled" => w.scheduledAt >= h.approvedOn + Grace[r]

RequestsLawful ==
    \A r \in Requests : hist[r].outdated \/ Lawful(row[r], hist[r], r, day)

\* A session at work has a request that exists; the hard limit selected a PENDING one; a run
\* is counted, and without bypass it began after the grace period.
SessionsLawful ==
    \A s \in Sessions :
        LET r == ses[s].r IN
        /\ ses[s].step # "idle" => r \in Requests /\ row[r].status # "absent"
        /\ ses[s].step = "override" => ses[s].mem.status = "pending"
        /\ ses[s].step = "enqueue" => ses[s].mem.status = "scheduled"
        /\ ses[s].step = "running"
             => \/ hist[r].outdated
                \/ /\ hist[r].runs = 1
                   /\ ses[s].bypass \/ day >= hist[r].approvedOn + Grace[r]

\* scheduled_execution_at only moves forward, and no copy is ahead of the row.
DatesAdvance ==
    /\ \A r \in Requests : row[r].scheduledAt <= day + Grace[r]
    /\ \A s \in Sessions :
         ses[s].step # "idle" => ses[s].mem.scheduledAt <= row[ses[s].r].scheduledAt

\* Session s is about to queue the job that r waits for, or is running it.
Cares(s, r) ==
    /\ ses[s].r = r
    /\ \/ ses[s].step = "enqueue" /\ ses[s].mem.scheduledAt = row[r].scheduledAt
       \/ /\ ses[s].step = "execute"
          /\ ses[s].job # Never /\ ses[s].job = row[r].scheduledAt
          /\ ses[s].mem.status = "scheduled" /\ ses[s].mem.scheduledAt <= day

\* A scheduled request is cared for by the very job of its date.
Awaited ==
    \A r \in Requests :
        row[r].status = "scheduled"
            => \/ jobs[r][row[r].scheduledAt] > 0
               \/ \E s \in Sessions : Cares(s, r)
               \/ hist[r].lost

\* Jobs are queued for requests that exist.
JobsHaveRows ==
    \A r \in Requests, d \in Later : jobs[r][d] > 0 => row[r].status # "absent"

IInv == /\ TypeOK /\ RequestsLawful /\ SessionsLawful /\ DatesAdvance
        /\ Awaited /\ JobsHaveRows

\* The requests completed today by runs that began alone.
Sole == {r \in Requests : /\ row[r].status = "completed" /\ row[r].executedAt = day
                          /\ ~hist[r].overlapped}

\* What the runs that began alone have saved today, and what one of them that is going on will
\* add, is below the threshold: of two runs going on, one did not begin alone.
ImpactHeld ==
    /\ \A r \in Requests : row[r].executedAt <= day
    /\ SumFunctionOnSet(Savings, Sole) < Threshold
    /\ \A s \in Sessions : ses[s].step = "running"
          => /\ ses[s].mem.status = "executing"
             /\ \/ hist[ses[s].r].overlapped
                \/ SumFunctionOnSet(Savings, Sole \ {ses[s].r}) + Savings[ses[s].r] < Threshold
    /\ \A s, t \in Sessions :
          (s # t /\ ses[s].step = "running" /\ ses[t].step = "running")
             => hist[ses[s].r].overlapped \/ hist[ses[t].r].overlapped

-----------------------------------------------------------------------------
(***************************************************************************)
(* What a transaction of a session does.                                   *)
(***************************************************************************)

\* A column is written if the session changed it; a session whose copy is the
\* current row writes all it has.
LEMMA FlushRow ==
    ASSUME NEW cur \in Row, NEW mem \in Row, NEW new \in Row, NEW f, f = Flush(cur, mem, new)
    PROVE  /\ f \in Row
           /\ f.status = IF new.status = mem.status THEN cur.status ELSE new.status
           /\ f.scheduledAt = IF new.scheduledAt = mem.scheduledAt THEN cur.scheduledAt
                                                                  ELSE new.scheduledAt
           /\ cur = mem => f = new
<1>1. DOMAIN cur = {"status", "escalated", "scheduledAt", "executedAt"}
  BY DEF Row
<1>2. f.status = IF new.status = mem.status THEN cur.status ELSE new.status
  BY <1>1 DEF Flush
<1>3. f.scheduledAt = IF new.scheduledAt = mem.scheduledAt THEN cur.scheduledAt
                                                           ELSE new.scheduledAt
  BY <1>1 DEF Flush
<1>4. f \in Row
  BY <1>1 DEF Flush, Row
<1>5. cur = mem => f = new
  BY <1>1 DEF Flush, Row
<1> QED BY <1>2, <1>3, <1>4, <1>5

\* The types of what session s works on.
LEMMA SessionFacts ==
    ASSUME IInv, NEW s \in Sessions, ses[s].step # "idle"
    PROVE  /\ ses[s].r \in Requests /\ ses[s] \in Session
           /\ ses[s].mem \in Row /\ row[ses[s].r] \in Row /\ hist[ses[s].r] \in History
           /\ day \in Nat /\ Grace[ses[s].r] \in Nat
           /\ row[ses[s].r].scheduledAt \in Nat /\ ses[s].mem.scheduledAt \in Nat
           /\ ses[s].mem.scheduledAt <= row[ses[s].r].scheduledAt
           /\ row[ses[s].r].scheduledAt <= day + Grace[ses[s].r]
           /\ day + Grace[ses[s].r] \in Later
<1>1. ses[s].r \in Requests
  BY DEF IInv, SessionsLawful
<1>2. ses[s] \in Session /\ row[ses[s].r] \in Row /\ hist[ses[s].r] \in History /\ day \in Days
  BY <1>1 DEF IInv, TypeOK
<1>3. ses[s].mem \in Row
  BY <1>2 DEF Session
<1>4. Grace[ses[s].r] \in 1..MaxGrace /\ MaxGrace \in Nat /\ MaxDay \in Nat
  BY <1>1, RemediationAssumption
<1>5. day \in Nat /\ Grace[ses[s].r] \in Nat /\ day + Grace[ses[s].r] \in Later
  BY <1>2, <1>4 DEF Days, Later
<1>6. row[ses[s].r].scheduledAt \in Nat /\ ses[s].mem.scheduledAt \in Nat
  BY <1>2, <1>3 DEF Row, Later
<1>7. /\ ses[s].mem.scheduledAt <= row[ses[s].r].scheduledAt
      /\ row[ses[s].r].scheduledAt <= day + Grace[ses[s].r]
  BY <1>1 DEF IInv, DatesAdvance
<1> QED BY <1>1, <1>2, <1>3, <1>5, <1>6, <1>7

\* A commit writes the session's changes to the row of its request.
LEMMA Committed ==
    ASSUME IInv, NEW s \in Sessions, ses[s].step # "idle", NEW r \in Requests, r = ses[s].r,
           NEW new \in Row, Commit(s, new),
           new.scheduledAt \in {ses[s].mem.scheduledAt, day + Grace[r]}
    PROVE  /\ row' \in [Requests -> Row]
           /\ \A q \in Requests : q # r => row'[q] = row[q]
           /\ row'[r].status = IF new.status = ses[s].mem.status THEN row[r].status
                                                                 ELSE new.status
           /\ row'[r].scheduledAt = IF new.scheduledAt = ses[s].mem.scheduledAt
                                      THEN row[r].scheduledAt ELSE new.scheduledAt
           /\ row[r] = ses[s].mem => row'[r] = new
           /\ new.scheduledAt <= row'[r].scheduledAt
           /\ row[r].scheduledAt <= row'[r].scheduledAt
           /\ row'[r].scheduledAt <= day + Grace[r]
<1> DEFINE f == Flush(row[r], ses[s].mem, new)
<1>1. /\ ses[s].mem \in Row /\ row[r] \in Row
      /\ day \in Nat /\ Grace[r] \in Nat
      /\ row[r].scheduledAt \in Nat /\ ses[s].mem.scheduledAt \in Nat
      /\ ses[s].mem.scheduledAt <= row[r].scheduledAt
      /\ row[r].scheduledAt <= day + Grace[r]
  BY SessionFacts
<1>2. /\ f \in Row
      /\ f.status = IF new.status = ses[s].mem.status THEN row[r].status ELSE new.status
      /\ f.scheduledAt = IF new.scheduledAt = ses[s].mem.scheduledAt THEN row[r].scheduledAt
                                                                    ELSE new.scheduledAt
      /\ row[r] = ses[s].mem => f = new
  BY <1>1, FlushRow
<1>3. row' = [row EXCEPT ![r] = f] /\ row \in [Requests -> Row]
  BY DEF Commit, IInv, TypeOK
<1> HIDE DEF f
<1>4. /\ row' \in [Requests -> Row] /\ row'[r] = f
      /\ \A q \in Requests : q # r => row'[q] = row[q]
  BY <1>2, <1>3
<1> QED BY <1>1, <1>2, <1>4

\* A note keeps what has been lost; the rest is forgotten if the copy is outdated.
LEMMA Noted ==
    ASSUME IInv, NEW s \in Sessions, NEW r \in Requests, NEW h \in History, Note(r, s, h),
           h.outdated = hist[r].outdated
    PROVE  /\ hist' \in [Requests -> History]
           /\ \A q \in Requests : q # r => hist'[q] = hist[q]
           /\ hist'[r].lost = h.lost
           /\ hist[r].outdated => hist'[r].outdated
           /\ ~hist'[r].outdated => row[r] = ses[s].mem /\ hist'[r] = h
<1> DEFINE g == [NoHistory EXCEPT !.outdated = TRUE, !.lost = h.lost,
                                  !.overlapped = h.overlapped]
           x == IF h.outdated \/ row[r] # ses[s].mem THEN g ELSE h
<1>1. hist \in [Requests -> History] /\ h.lost \in BOOLEAN /\ h.overlapped \in BOOLEAN
  BY DEF IInv, TypeOK, History
<1>2. NoHistory \in History
  BY RemediationAssumption DEF NoHistory, History, Later, Never
<1>3. g \in History /\ g.lost = h.lost
  BY <1>1, <1>2 DEF History
<1>4. g.outdated
  BY <1>2 DEF History
<1>5. hist' = [hist EXCEPT ![r] = x]
  BY DEF Note
<1> HIDE DEF g
<1>6. /\ x \in History /\ x.lost = h.lost
      /\ h.outdated => x.outdated
      /\ ~x.outdated => row[r] = ses[s].mem /\ x = h
  BY <1>3, <1>4
<1> HIDE DEF x
<1>7. /\ hist' \in [Requests -> History] /\ hist'[r] = x
      /\ \A q \in Requests : q # r => hist'[q] = hist[q]
  BY <1>1, <1>5, <1>6
<1> QED BY <1>6, <1>7

\* The invariant after a step that writes at most the row and the history of
\* request r, and changes at most session s, which works on r.
LEMMA StepOnRequest ==
    ASSUME IInv, NEW s \in Sessions, NEW r \in Requests,
           ses[s].step # "idle", ses[s].r = r,
           UNCHANGED <<day, jobs, calls, faults>>,
           ses' \in [Sessions -> Session], \A t \in Sessions \ {s} : ses'[t] = ses[t],
           row' \in [Requests -> Row], \A q \in Requests : q # r => row'[q] = row[q],
           row'[r].status # "absent" \/ row'[r].status = row[r].status,
           row[r].scheduledAt <= row'[r].scheduledAt,
           row'[r].scheduledAt <= day + Grace[r],
           hist' \in [Requests -> History], \A q \in Requests : q # r => hist'[q] = hist[q],
           hist[r].lost => hist'[r].lost,
           hist[r].outdated => hist'[r].outdated,
           hist'[r].outdated \/ Lawful(row'[r], hist'[r], r, day),
           hist'[r].outdated \/ hist'[r] = hist[r] \/ row[r].status \notin Begun,
           ses'[s].step # "idle" => /\ ses'[s].r = r /\ ses'[s].step # "override"
                                    /\ ses'[s].mem.scheduledAt <= row'[r].scheduledAt,
           ses'[s].step = "enqueue" => ses'[s].mem.status = "scheduled",
           ses'[s].step = "running"
             => \/ hist'[r].outdated
                \/ /\ hist'[r].runs = 1
                   /\ ses'[s].bypass \/ day >= hist'[r].approvedOn + Grace[r],
           row'[r].status = "scheduled"
             => \/ Cares(s, r)'
                \/ /\ row[r].status = "scheduled" /\ row'[r].scheduledAt = row[r].scheduledAt
                   /\ ~Cares(s, r)
    PROVE  IInv'
<1>1. TypeOK'
  BY DEF IInv, TypeOK
<1>2. RequestsLawful'
  <2> SUFFICES ASSUME NEW q \in Requests
               PROVE  hist'[q].outdated \/ Lawful(row'[q], hist'[q], q, day')
    BY DEF RequestsLawful
  <2>1. CASE q = r
    BY <2>1
  <2>2. CASE q # r
    <3>1. row'[q] = row[q] /\ hist'[q] = hist[q] /\ day' = day
      BY <2>2
    <3> QED BY <3>1 DEF IInv, RequestsLawful
  <2> QED BY <2>1, <2>2
<1>3. SessionsLawful'
  <2> SUFFICES ASSUME NEW t \in Sessions
               PROVE  /\ ses'[t].step # "idle"
                           => ses'[t].r \in Requests /\ row'[ses'[t].r].status # "absent"
                      /\ ses'[t].step = "override" => ses'[t].mem.status = "pending"
                      /\ ses'[t].step = "enqueue" => ses'[t].mem.status = "scheduled"
                      /\ ses'[t].step = "running"
                           => \/ hist'[ses'[t].r].outdated
                              \/ /\ hist'[ses'[t].r].runs = 1
                                 /\ \/ ses'[t].bypass
                                    \/ day' >= hist'[ses'[t].r].approvedOn + Grace[ses'[t].r]
    BY DEF SessionsLawful
  <2>1. CASE t = s
    BY <2>1 DEF IInv, SessionsLawful
  <2>2. CASE t # s
    <3>1. ses'[t] = ses[t] /\ day' = day
      BY <2>2
    <3>2. /\ ses[t].step # "idle" => ses[t].r \in Requests /\ row[ses[t].r].status # "absent"
          /\ ses[t].step = "override" => ses[t].mem.status = "pending"
          /\ ses[t].step = "enqueue" => ses[t].mem.status = "scheduled"
          /\ ses[t].step = "running"
               => \/ hist[ses[t].r].outdated
                  \/ /\ hist[ses[t].r].runs = 1
                     /\ ses[t].bypass \/ day >= hist[ses[t].r].approvedOn + Grace[ses[t].r]
      BY DEF IInv, SessionsLawful
    <3>3. CASE ses[t].step = "running" /\ ses[t].r = r
      <4>1. hist[r].outdated \/ hist[r].runs = 1
        BY <3>2, <3>3
      <4>2. hist[r].outdated \/ row[r].status \in Begun
        BY <4>1 DEF IInv, RequestsLawful, Lawful
      <4>3. hist'[r].outdated \/ hist'[r] = hist[r]
        BY <4>2
      <4> QED BY <3>1, <3>2, <3>3, <4>3
    <3>4. CASE ~(ses[t].step = "running" /\ ses[t].r = r)
      BY <3>1, <3>2, <3>4
    <3> QED BY <3>3, <3>4
  <2> QED BY <2>1, <2>2
<1>4. DatesAdvance'
  <2>1. ASSUME NEW q \in Requests
        PROVE  row'[q].scheduledAt <= day' + Grace[q]
    BY DEF IInv, DatesAdvance
  <2>2. ASSUME NEW t \in Sessions, ses'[t].step # "idle"
        PROVE  ses'[t].mem.scheduledAt <= row'[ses'[t].r].scheduledAt
    <3>1. CASE t = s
      BY <2>2, <3>1
    <3>2. CASE t # s
      <4>1. ses'[t] = ses[t] /\ ses[t].step # "idle"
        BY <2>2, <3>2
      <4>2. /\ ses[t].r \in Requests
            /\ ses[t].mem.scheduledAt \in Nat /\ row[ses[t].r].scheduledAt \in Nat
            /\ ses[t].mem.scheduledAt <= row[ses[t].r].scheduledAt
        BY <4>1, SessionFacts
      <4>3. CASE ses[t].r = r
        <5>1. row'[r].scheduledAt \in Nat
          BY DEF Row, Later
        <5> QED BY <4>1, <4>2, <4>3, <5>1
      <4>4. CASE ses[t].r # r
        BY <4>1, <4>2, <4>4
      <4> QED BY <4>3, <4>4
    <3> QED BY <3>1, <3>2
  <2> QED BY <2>1, <2>2 DEF DatesAdvance
<1>5. Awaited'
  <2> SUFFICES ASSUME NEW q \in Requests, row'[q].status = "scheduled",
                      ~(jobs'[q][row'[q].scheduledAt] > 0), ~hist'[q].lost
               PROVE  \E t \in Sessions : Cares(t, q)'
    BY DEF Awaited
  <2>1. CASE Cares(s, q)'
    BY <2>1
  <2>2. CASE ~Cares(s, q)'
    <3>1. /\ row[q].status = "scheduled" /\ row'[q].scheduledAt = row[q].scheduledAt
          /\ ~Cares(s, q) /\ ~hist[q].lost
      <4>1. CASE q = r
        BY <2>2, <4>1
      <4>2. CASE q # r
        BY <4>2 DEF Cares
      <4> QED BY <4>1, <4>2
    <3>2. PICK t \in Sessions : Cares(t, q)
      BY <3>1 DEF IInv, Awaited
    <3>3. t # s
      BY <3>1, <3>2
    <3>4. Cares(t, q)'
      BY <3>1, <3>2, <3>3 DEF Cares
    <3> QED BY <3>4
  <2> QED BY <2>1, <2>2
<1>6. JobsHaveRows'
  BY DEF IInv, JobsHaveRows
<1> QED BY <1>1, <1>2, <1>3, <1>4, <1>5, <1>6 DEF IInv

\* A session that ends.
LEMMA Closed ==
    ASSUME IInv, NEW s \in Sessions, Close(s)
    PROVE  /\ ses' \in [Sessions -> Session] /\ ses'[s].step = "idle"
           /\ \A t \in Sessions \ {s} : ses'[t] = ses[t]
<1>1. NoRow \in Row
  BY RemediationAssumption DEF NoRow, Row, Status, Never, Later
<1>2. Never \in Later
  BY RemediationAssumption DEF Never, Later
<1>3. Idle \in Session /\ Idle.step = "idle"
  BY <1>1, <1>2 DEF Idle, Session, Step
<1> QED BY <1>3 DEF Close, IInv, TypeOK

\* A session that goes on with a new copy.
LEMMA GoesOn ==
    ASSUME IInv, NEW s \in Sessions, NEW step \in Step, NEW mem \in Row,
           ses' = [ses EXCEPT ![s].step = step, ![s].mem = mem]
    PROVE  /\ ses' \in [Sessions -> Session]
           /\ ses'[s].step = step /\ ses'[s].mem = mem
           /\ ses'[s].r = ses[s].r /\ ses'[s].bypass = ses[s].bypass
           /\ ses'[s].job = ses[s].job
           /\ \A t \in Sessions \ {s} : ses'[t] = ses[t]
<1> DEFINE x == [ses[s] EXCEPT !.step = step, !.mem = mem]
<1>1. ses[s] \in Session /\ ses \in [Sessions -> Session]
  BY DEF IInv, TypeOK
<1>2. /\ x \in Session /\ x.step = step /\ x.mem = mem
      /\ x.r = ses[s].r /\ x.bypass = ses[s].bypass /\ x.job = ses[s].job
  BY <1>1 DEF Session
<1>3. ses' = [ses EXCEPT ![s] = x]
  BY <1>1
<1> HIDE DEF x
<1> QED BY <1>1, <1>2, <1>3

\* FAILED is written, or nothing if the copy was FAILED already.
LEMMA FailStep ==
    ASSUME IInv, NEW s \in Sessions, ses[s].step \in {"execute", "enqueue"}, Fail(s),
           UNCHANGED <<day, jobs, calls, faults>>
    PROVE  IInv'
<1>1. PICK r \in Requests : r = ses[s].r
  BY SessionFacts
<1> DEFINE mem == ses[s].mem
           new == [mem EXCEPT !.status = "failed"]
<1>2. /\ mem \in Row /\ hist[r] \in History /\ row[r] \in Row
  BY <1>1, SessionFacts
<1>3. /\ new \in Row /\ new.status = "failed" /\ new.scheduledAt = mem.scheduledAt
  BY <1>2 DEF Row, Status
<1>4. Commit(s, new) /\ Note(r, s, hist[r]) /\ Close(s)
  BY <1>1 DEF Fail
<1> HIDE DEF new
<1>5. /\ row' \in [Requests -> Row]
      /\ \A q \in Requests : q # r => row'[q] = row[q]
      /\ row'[r].status = IF new.status = mem.status THEN row[r].status ELSE new.status
      /\ row'[r].scheduledAt = row[r].scheduledAt
      /\ row[r] = mem => row'[r] = new
      /\ row[r].scheduledAt <= row'[r].scheduledAt
      /\ row'[r].scheduledAt <= day + Grace[r]
  BY <1>1, <1>3, <1>4, Committed
<1>6. /\ hist' \in [Requests -> History]
      /\ \A q \in Requests : q # r => hist'[q] = hist[q]
      /\ hist'[r].lost = hist[r].lost
      /\ hist[r].outdated => hist'[r].outdated
      /\ ~hist'[r].outdated => row[r] = mem /\ hist'[r] = hist[r]
  BY <1>2, <1>4, Noted
<1>7. hist'[r].outdated \/ Lawful(row'[r], hist'[r], r, day)
  <2> SUFFICES ASSUME ~hist'[r].outdated PROVE Lawful(new, hist[r], r, day)
    BY <1>5, <1>6
  <2>1. Lawful(row[r], hist[r], r, day)
    BY <1>6 DEF IInv, RequestsLawful
  <2> QED BY <1>3, <2>1 DEF Lawful, Begun
<1>8. row'[r].status = "scheduled" => row[r].status = "scheduled" /\ ~Cares(s, r)
  <2>1. CASE ses[s].step = "execute"
    BY <1>3, <1>5, <2>1 DEF Cares
  <2>2. CASE ses[s].step = "enqueue"
    BY <1>3, <1>5, <2>2 DEF IInv, SessionsLawful
  <2> QED BY <2>1, <2>2
<1> QED BY <1>1, <1>3, <1>4, <1>5, <1>6, <1>7, <1>8, Closed, StepOnRequest

\* The policy sends a request back to its reviewers.
LEMMA EscalateStep ==
    ASSUME IInv, NEW s \in Sessions, ses[s].step = "execute", Executable(ses[s].mem),
           Escalate(s), UNCHANGED <<day, jobs, calls, faults>>
    PROVE  IInv'
<1>1. PICK r \in Requests : r = ses[s].r
  BY SessionFacts
<1> DEFINE mem == ses[s].mem
           new == [mem EXCEPT !.status = "pending_approval", !.escalated = TRUE]
           h == [hist[r] EXCEPT !.unreviewed = TRUE]
<1>2. /\ mem \in Row /\ hist[r] \in History /\ row[r] \in Row
      /\ mem.status \in {"approved", "scheduled"}
  BY <1>1, SessionFacts DEF Executable
<1>3. /\ new \in Row /\ new.status = "pending_approval" /\ new.scheduledAt = mem.scheduledAt
  BY <1>2 DEF Row, Status
<1>4. new.escalated
  BY <1>2 DEF Row
<1>5. /\ h \in History /\ h.outdated = hist[r].outdated /\ h.lost = hist[r].lost
      /\ h.runs = hist[r].runs /\ h.rejected = hist[r].rejected
      /\ h.approvedOn = hist[r].approvedOn
  BY <1>2 DEF History
<1>6. Commit(s, new) /\ Note(r, s, h) /\ Close(s)
  BY <1>1 DEF Escalate
<1> HIDE DEF new, h
<1>7. /\ row' \in [Requests -> Row]
      /\ \A q \in Requests : q # r => row'[q] = row[q]
      /\ row'[r].status = new.status
      /\ row[r] = mem => row'[r] = new
      /\ row[r].scheduledAt <= row'[r].scheduledAt
      /\ row'[r].scheduledAt <= day + Grace[r]
  BY <1>1, <1>2, <1>3, <1>6, Committed
<1>8. /\ hist' \in [Requests -> History]
      /\ \A q \in Requests : q # r => hist'[q] = hist[q]
      /\ hist'[r].lost = h.lost
      /\ hist[r].outdated => hist'[r].outdated
      /\ ~hist'[r].outdated => row[r] = mem /\ hist'[r] = h
  BY <1>5, <1>6, Noted
<1>9. hist'[r].outdated \/ row[r].status \notin Begun
  BY <1>2, <1>8 DEF Begun
<1>10. hist'[r].outdated \/ Lawful(row'[r], hist'[r], r, day)
  <2> SUFFICES ASSUME ~hist'[r].outdated PROVE Lawful(new, h, r, day)
    BY <1>7, <1>8
  <2>1. Lawful(row[r], hist[r], r, day) /\ row[r] = mem
    BY <1>8 DEF IInv, RequestsLawful
  <2>2. hist[r].runs \in 0..2
    BY <1>2 DEF History
  <2>3. h.runs = 0 /\ ~h.rejected /\ h.approvedOn <= day
    BY <1>2, <1>5, <2>1, <2>2 DEF Lawful, Begun
  <2> QED BY <1>3, <1>4, <2>3 DEF Lawful, Begun
<1> QED BY <1>1, <1>3, <1>5, <1>6, <1>7, <1>8, <1>9, <1>10, Closed, StepOnRequest

\* An approved request enters its grace period.
LEMMA ScheduleStep ==
    ASSUME IInv, NEW s \in Sessions, ses[s].step = "execute",
           ses[s].mem.status = "approved", Schedule(s), UNCHANGED <<day, jobs, calls, faults>>
    PROVE  IInv'
<1>1. PICK r \in Requests : r = ses[s].r
  BY SessionFacts
<1> DEFINE mem == ses[s].mem
           new == [mem EXCEPT !.status = "scheduled", !.scheduledAt = day + Grace[r]]
<1>2. /\ mem \in Row /\ hist[r] \in History /\ row[r] \in Row
      /\ day \in Nat /\ Grace[r] \in Nat /\ day + Grace[r] \in Later
  BY <1>1, SessionFacts
<1>3. /\ new \in Row /\ new.status = "scheduled" /\ new.scheduledAt = day + Grace[r]
  BY <1>2 DEF Row, Status
<1>4. /\ Commit(s, new) /\ Note(r, s, hist[r])
      /\ ses' = [ses EXCEPT ![s].step = "enqueue", ![s].mem = new]
  BY <1>1 DEF Schedule
<1> HIDE DEF new
<1>5. /\ row' \in [Requests -> Row]
      /\ \A q \in Requests : q # r => row'[q] = row[q]
      /\ row'[r].status = new.status
      /\ row[r] = mem => row'[r] = new
      /\ new.scheduledAt <= row'[r].scheduledAt
      /\ row[r].scheduledAt <= row'[r].scheduledAt
      /\ row'[r].scheduledAt <= day + Grace[r]
  BY <1>1, <1>3, <1>4, Committed
<1>6. /\ hist' \in [Requests -> History]
      /\ \A q \in Requests : q # r => hist'[q] = hist[q]
      /\ hist'[r].lost = hist[r].lost
      /\ hist[r].outdated => hist'[r].outdated
      /\ ~hist'[r].outdated => row[r] = mem /\ hist'[r] = hist[r]
  BY <1>2, <1>4, Noted
<1>7. /\ ses' \in [Sessions -> Session]
      /\ ses'[s].step = "enqueue" /\ ses'[s].mem = new /\ ses'[s].r = r
      /\ \A t \in Sessions \ {s} : ses'[t] = ses[t]
  BY <1>1, <1>3, <1>4, GoesOn DEF Step
<1>8. hist'[r].outdated \/ Lawful(row'[r], hist'[r], r, day)
  <2> SUFFICES ASSUME ~hist'[r].outdated PROVE Lawful(new, hist[r], r, day)
    BY <1>5, <1>6
  <2>1. Lawful(row[r], hist[r], r, day) /\ row[r] = mem
    BY <1>6 DEF IInv, RequestsLawful
  <2>2. hist[r].runs \in 0..2 /\ hist[r].approvedOn \in Nat
    BY <1>2 DEF History, Later
  <2>3. /\ hist[r].runs = 0 /\ ~hist[r].rejected /\ ~hist[r].unreviewed
        /\ hist[r].approvedOn <= day
    BY <2>1, <2>2 DEF Lawful, Begun
  <2> QED BY <1>2, <1>3, <2>2, <2>3 DEF Lawful
<1>9. Cares(s, r)'
  <2>1. row'[r].scheduledAt \in Nat
    BY <1>5 DEF Row, Later
  <2>2. row'[r].scheduledAt = new.scheduledAt
    BY <1>2, <1>3, <1>5, <2>1
  <2> QED BY <1>7, <2>2 DEF Cares
<1> QED BY <1>1, <1>3, <1>5, <1>6, <1>7, <1>8, <1>9, StepOnRequest

\* The run begins.
LEMMA StartRunStep ==
    ASSUME IInv, NEW s \in Sessions, ses[s].step = "execute", Executable(ses[s].mem),
           ~InGrace(s), ses[s].mem.status = "approved" => ses[s].bypass,
           StartRun(s), UNCHANGED <<day, jobs, calls, faults>>
    PROVE  IInv'
<1>1. PICK r \in Requests : r = ses[s].r
  BY SessionFacts
<1> DEFINE mem == ses[s].mem
           new == [mem EXCEPT !.status = "executing"]
           o == \E t \in Sessions : ses[t].step = "running"
           h == [hist[r] EXCEPT !.runs = IF @ = 2 THEN 2 ELSE @ + 1, !.overlapped = o]
<1>2. /\ mem \in Row /\ hist[r] \in History /\ row[r] \in Row
      /\ day \in Nat /\ Grace[r] \in Nat /\ mem.scheduledAt \in Nat
      /\ mem.status \in {"approved", "scheduled"}
      /\ hist[r].runs \in 0..2 /\ hist[r].approvedOn \in Nat
  BY <1>1, SessionFacts DEF Executable, History, Later
<1>3. /\ new \in Row /\ new.status = "executing" /\ new.scheduledAt = mem.scheduledAt
  BY <1>2 DEF Row, Status
<1>4. o \in BOOLEAN
  OBVIOUS
<1>5. /\ Commit(s, new) /\ Note(r, s, h)
      /\ ses' = [ses EXCEPT ![s].step = "running", ![s].mem = new]
  BY <1>1 DEF StartRun
<1> HIDE DEF o
<1>6. /\ h \in History /\ h.outdated = hist[r].outdated /\ h.lost = hist[r].lost
      /\ h.runs = IF hist[r].runs = 2 THEN 2 ELSE hist[r].runs + 1
      /\ h.rejected = hist[r].rejected /\ h.unreviewed = hist[r].unreviewed
      /\ h.approvedOn = hist[r].approvedOn
  <2>1. (IF hist[r].runs = 2 THEN 2 ELSE hist[r].runs + 1) \in 0..2
    BY <1>2
  <2> QED BY <1>2, <1>4, <2>1 DEF History
<1> HIDE DEF new, h
<1>7. /\ row' \in [Requests -> Row]
      /\ \A q \in Requests : q # r => row'[q] = row[q]
      /\ row'[r].status = new.status
      /\ row[r] = mem => row'[r] = new
      /\ new.scheduledAt <= row'[r].scheduledAt
      /\ row[r].scheduledAt <= row'[r].scheduledAt
      /\ row'[r].scheduledAt <= day + Grace[r]
  BY <1>1, <1>2, <1>3, <1>5, Committed
<1>8. /\ hist' \in [Requests -> History]
      /\ \A q \in Requests : q # r => hist'[q] = hist[q]
      /\ hist'[r].lost = h.lost
      /\ hist[r].outdated => hist'[r].outdated
      /\ ~hist'[r].outdated => row[r] = mem /\ hist'[r] = h
  BY <1>5, <1>6, Noted
<1>9. /\ ses' \in [Sessions -> Session]
      /\ ses'[s].step = "running" /\ ses'[s].mem = new /\ ses'[s].r = r
      /\ ses'[s].bypass = ses[s].bypass
      /\ \A t \in Sessions \ {s} : ses'[t] = ses[t]
  BY <1>1, <1>3, <1>5, GoesOn DEF Step
<1>10. hist'[r].outdated \/ row[r].status \notin Begun
  BY <1>2, <1>8 DEF Begun
<1>11. ASSUME ~hist'[r].outdated
       PROVE  /\ hist'[r] = h /\ row'[r] = new /\ h.runs = 1
              /\ ~h.rejected /\ ~h.unreviewed /\ h.approvedOn <= day
              /\ ses[s].bypass \/ day >= h.approvedOn + Grace[r]
  <2>1. Lawful(row[r], hist[r], r, day) /\ row[r] = mem
    BY <1>8, <1>11 DEF IInv, RequestsLawful
  <2>2. /\ hist[r].runs = 0 /\ ~hist[r].rejected /\ ~hist[r].unreviewed
        /\ hist[r].approvedOn <= day
        /\ mem.status = "scheduled" => mem.scheduledAt >= hist[r].approvedOn + Grace[r]
    BY <1>2, <2>1 DEF Lawful, Begun
  <2>3. ses[s].bypass \/ (mem.status = "scheduled" /\ day >= mem.scheduledAt)
    BY <1>2 DEF InGrace
  <2>4. ses[s].bypass \/ day >= hist[r].approvedOn + Grace[r]
    BY <1>2, <2>2, <2>3
  <2> QED BY <1>6, <1>7, <1>8, <1>11, <2>1, <2>2, <2>4
<1>12. hist'[r].outdated \/ Lawful(row'[r], hist'[r], r, day)
  BY <1>3, <1>11 DEF Lawful, Begun
<1> QED BY <1>1, <1>3, <1>6, <1>7, <1>8, <1>9, <1>10, <1>11, <1>12, StepOnRequest

\* Execution up to the call of the strategy.
LEMMA ExecuteStep ==
    ASSUME IInv, NEW s \in Sessions, NEW capped \in BOOLEAN, NEW policy \in Policies,
           Execute(s, capped, policy)
    PROVE  IInv'
<1>1. ses[s].step = "execute" /\ UNCHANGED <<day, jobs, calls, faults>>
  BY DEF Execute
<1>2. CASE Fail(s)
  BY <1>1, <1>2, FailStep
<1>3. CASE Executable(ses[s].mem) /\ InGrace(s) /\ Close(s) /\ UNCHANGED <<row, hist>>
  <2>1. PICK r \in Requests : r = ses[s].r
    BY <1>1, SessionFacts
  <2>2. ~Cares(s, r)
    <3>1. day \in Nat /\ ses[s].mem.scheduledAt \in Nat /\ day < ses[s].mem.scheduledAt
      BY <1>1, <1>3, SessionFacts DEF InGrace
    <3> QED BY <1>1, <3>1 DEF Cares
  <2>3. /\ row[r].scheduledAt <= row'[r].scheduledAt
        /\ row'[r].scheduledAt <= day + Grace[r]
        /\ row' \in [Requests -> Row] /\ hist' \in [Requests -> History]
        /\ row' = row /\ hist' = hist
    BY <1>1, <1>3, <2>1, SessionFacts DEF IInv, TypeOK
  <2>4. hist'[r].outdated \/ Lawful(row'[r], hist'[r], r, day)
    BY <2>3 DEF IInv, RequestsLawful
  <2> QED BY <1>1, <1>3, <2>1, <2>2, <2>3, <2>4, Closed, StepOnRequest
<1>4. CASE Executable(ses[s].mem) /\ Escalate(s)
  BY <1>1, <1>4, EscalateStep
<1>5. CASE Executable(ses[s].mem) /\ ses[s].mem.status = "approved" /\ Schedule(s)
  BY <1>1, <1>5, ScheduleStep
<1>6. CASE /\ Executable(ses[s].mem) /\ ~InGrace(s)
           /\ ses[s].mem.status = "approved" => ses[s].bypass
           /\ StartRun(s)
  BY <1>1, <1>6, StartRunStep
<1> QED BY <1>2, <1>3, <1>4, <1>5, <1>6 DEF Execute

\* A reviewer approves, or is refused.
LEMMA ApproveStep ==
    ASSUME IInv, NEW s \in Sessions, NEW role \in Roles, Approve(s, role)
    PROVE  IInv'
<1>1. ses[s].step = "approve" /\ UNCHANGED <<day, jobs, calls, faults>>
  BY DEF Approve
<1>2. PICK r \in Requests : r = ses[s].r
  BY <1>1, SessionFacts
<1> DEFINE mem == ses[s].mem
           new == [mem EXCEPT !.status = "approved", !.escalated = FALSE]
           u == hist[r].unreviewed /\ role \notin EscalationRoles
           h == [hist[r] EXCEPT !.approvedOn = day, !.unreviewed = u]
<1>3. /\ mem \in Row /\ hist[r] \in History /\ row[r] \in Row /\ ses[s] \in Session
      /\ day \in Nat /\ day \in Later
      /\ row[r].scheduledAt <= day + Grace[r] /\ row[r].scheduledAt \in Nat
  <2>1. day \in Days
    BY DEF IInv, TypeOK
  <2>2. day \in Later
    BY <2>1, RemediationAssumption DEF Days, Later
  <2> QED BY <1>1, <1>2, <2>2, SessionFacts
<1>4. CASE ~MayApprove(mem, role)
  <2>1. Close(s) /\ UNCHANGED <<row, hist>>
    BY <1>4 DEF Approve
  <2>2. ~Cares(s, r)
    BY <1>1 DEF Cares
  <2>3. row' \in [Requests -> Row] /\ hist' \in [Requests -> History]
    BY <2>1 DEF IInv, TypeOK
  <2>4. hist'[r].outdated \/ Lawful(row'[r], hist'[r], r, day)
    BY <2>1 DEF IInv, RequestsLawful
  <2>5. row[r].scheduledAt <= row'[r].scheduledAt
    BY <1>3, <2>1
  <2> QED BY <1>1, <1>2, <1>3, <2>1, <2>2, <2>3, <2>4, <2>5, Closed, StepOnRequest
<1>5. CASE MayApprove(mem, role)
  <2>1. /\ mem.status \in {"pending", "pending_approval"}
        /\ mem.escalated => role \in EscalationRoles
    BY <1>5 DEF MayApprove
  <2>2. /\ new \in Row /\ new.status = "approved" /\ new.scheduledAt = mem.scheduledAt
    BY <1>3 DEF Row, Status
  <2>3. u \in BOOLEAN /\ (hist[r].unreviewed /\ role \notin EscalationRoles <=> u)
    OBVIOUS
  <2>4. /\ Commit(s, new) /\ Note(r, s, h)
        /\ ses' = [ses EXCEPT ![s] = IF ses[s].then
                     THEN [ses[s] EXCEPT !.step = "execute", !.mem = row'[r]] ELSE Idle]
    BY <1>2, <1>5 DEF Approve
  <2> HIDE DEF u
  <2>5. /\ h \in History /\ h.outdated = hist[r].outdated /\ h.lost = hist[r].lost
        /\ h.runs = hist[r].runs /\ h.rejected = hist[r].rejected
        /\ h.unreviewed = u /\ h.approvedOn = day
    BY <1>3, <2>3 DEF History
  <2> HIDE DEF new, h
  <2>6. /\ row' \in [Requests -> Row]
        /\ \A q \in Requests : q # r => row'[q] = row[q]
        /\ row'[r].status = new.status
        /\ row[r] = mem => row'[r] = new
        /\ row[r].scheduledAt <= row'[r].scheduledAt
        /\ row'[r].scheduledAt <= day + Grace[r]
    BY <1>1, <1>2, <2>1, <2>2, <2>4, Committed
  <2>7. /\ hist' \in [Requests -> History]
        /\ \A q \in Requests : q # r => hist'[q] = hist[q]
        /\ hist'[r].lost = h.lost
        /\ hist[r].outdated => hist'[r].outdated
        /\ ~hist'[r].outdated => row[r] = mem /\ hist'[r] = h
    BY <2>4, <2>5, Noted
  <2>8. hist'[r].outdated \/ row[r].status \notin Begun
    BY <2>1, <2>7 DEF Begun
  <2>9. hist'[r].outdated \/ Lawful(row'[r], hist'[r], r, day)
    <3> SUFFICES ASSUME ~hist'[r].outdated PROVE Lawful(new, h, r, day)
      BY <2>6, <2>7
    <3>1. Lawful(row[r], hist[r], r, day) /\ row[r] = mem
      BY <2>7 DEF IInv, RequestsLawful
    <3>2. hist[r].runs \in 0..2
      BY <1>3 DEF History
    <3>3. h.runs = 0 /\ ~h.rejected /\ ~u
      BY <2>1, <2>3, <2>5, <3>1, <3>2 DEF Lawful, Begun
    <3> QED BY <1>3, <2>2, <2>5, <3>3 DEF Lawful
  <2>10. /\ ses' \in [Sessions -> Session]
         /\ \A t \in Sessions \ {s} : ses'[t] = ses[t]
         /\ ses'[s].step # "idle" => /\ ses'[s].r = r /\ ses'[s].step = "execute"
                                     /\ ses'[s].mem = row'[r]
    <3>1. CASE ses[s].then
      <4>1. PICK w \in Row : w = row'[r]
        BY <2>6
      <4> DEFINE x == [ses[s] EXCEPT !.step = "execute", !.mem = w]
      <4>2. x \in Session /\ x.step = "execute" /\ x.mem = w /\ x.r = r
        BY <1>2, <1>3 DEF Session, Step
      <4>3. ses' = [ses EXCEPT ![s] = x] /\ ses \in [Sessions -> Session]
        BY <2>4, <3>1, <4>1 DEF IInv, TypeOK
      <4> HIDE DEF x
      <4> QED BY <4>1, <4>2, <4>3
    <3>2. CASE ~ses[s].then
      <4>1. Close(s)
        BY <2>4, <3>2 DEF Close
      <4> QED BY <4>1, Closed
    <3> QED BY <3>1, <3>2
  <2>11. row'[r].scheduledAt \in Nat
    BY <2>6 DEF Row, Later
  <2> QED BY <1>1, <1>2, <2>2, <2>5, <2>6, <2>7, <2>8, <2>9, <2>10, <2>11, StepOnRequest
<1> QED BY <1>4, <1>5

\* The hard limit approves what it selected.
LEMMA HardLimitApproveStep ==
    ASSUME IInv, NEW s \in Sessions, HardLimitApprove(s)
    PROVE  IInv'
<1>1. ses[s].step = "override" /\ UNCHANGED <<day, jobs, calls, faults>>
  BY DEF HardLimitApprove
<1>2. PICK r \in Requests : r = ses[s].r
  BY <1>1, SessionFacts
<1> DEFINE mem == ses[s].mem
           new == [mem EXCEPT !.status = "approved"]
           h == [hist[r] EXCEPT !.approvedOn = day]
<1>3. /\ mem \in Row /\ hist[r] \in History /\ row[r] \in Row
      /\ day \in Nat /\ day \in Later /\ mem.status = "pending"
  <2>1. day \in Days
    BY DEF IInv, TypeOK
  <2>2. day \in Later
    BY <2>1, RemediationAssumption DEF Days, Later
  <2>3. mem.status = "pending"
    BY <1>1 DEF IInv, SessionsLawful
  <2> QED BY <1>1, <1>2, <2>2, <2>3, SessionFacts
<1>4. /\ new \in Row /\ new.status = "approved" /\ new.scheduledAt = mem.scheduledAt
  BY <1>3 DEF Row, Status
<1>5. /\ h \in History /\ h.outdated = hist[r].outdated /\ h.lost = hist[r].lost
      /\ h.runs = hist[r].runs /\ h.rejected = hist[r].rejected
      /\ h.unreviewed = hist[r].unreviewed /\ h.approvedOn = day
  BY <1>3 DEF History
<1>6. /\ Commit(s, new) /\ Note(r, s, h)
      /\ ses' = [ses EXCEPT ![s].step = "execute", ![s].mem = new]
  BY <1>2 DEF HardLimitApprove
<1> HIDE DEF new, h
<1>7. /\ row' \in [Requests -> Row]
      /\ \A q \in Requests : q # r => row'[q] = row[q]
      /\ row'[r].status = new.status
      /\ row[r] = mem => row'[r] = new
      /\ new.scheduledAt <= row'[r].scheduledAt
      /\ row[r].scheduledAt <= row'[r].scheduledAt
      /\ row'[r].scheduledAt <= day + Grace[r]
  BY <1>1, <1>2, <1>3, <1>4, <1>6, Committed
<1>8. /\ hist' \in [Requests -> History]
      /\ \A q \in Requests : q # r => hist'[q] = hist[q]
      /\ hist'[r].lost = h.lost
      /\ hist[r].outdated => hist'[r].outdated
      /\ ~hist'[r].outdated => row[r] = mem /\ hist'[r] = h
  BY <1>5, <1>6, Noted
<1>9. /\ ses' \in [Sessions -> Session]
      /\ ses'[s].step = "execute" /\ ses'[s].mem = new /\ ses'[s].r = r
      /\ \A t \in Sessions \ {s} : ses'[t] = ses[t]
  BY <1>2, <1>4, <1>6, GoesOn DEF Step
<1>10. hist'[r].outdated \/ row[r].status \notin Begun
  BY <1>3, <1>8 DEF Begun
<1>11. hist'[r].outdated \/ Lawful(row'[r], hist'[r], r, day)
  <2> SUFFICES ASSUME ~hist'[r].outdated PROVE Lawful(new, h, r, day)
    BY <1>7, <1>8
  <2>1. Lawful(row[r], hist[r], r, day) /\ row[r] = mem
    BY <1>8 DEF IInv, RequestsLawful
  <2>2. hist[r].runs \in 0..2
    BY <1>3 DEF History
  <2>3. h.runs = 0 /\ ~h.rejected /\ ~h.unreviewed
    BY <1>3, <1>5, <2>1, <2>2 DEF Lawful, Begun
  <2> QED BY <1>3, <1>4, <1>5, <2>3 DEF Lawful
<1> QED BY <1>1, <1>2, <1>4, <1>5, <1>7, <1>8, <1>9, <1>10, <1>11, StepOnRequest

\* The result of a run is written.
LEMMA FinishRunStep ==
    ASSUME IInv, NEW s \in Sessions, NEW outcome \in {"success", "failure", "late"},
           FinishRun(s, outcome)
    PROVE  IInv'
<1>1. ses[s].step = "running" /\ UNCHANGED <<day, jobs, calls, faults>> /\ hist' = hist
  BY DEF FinishRun
<1>2. PICK r \in Requests : r = ses[s].r
  BY <1>1, SessionFacts
<1> DEFINE mem == ses[s].mem
           new == Result(mem, outcome)
<1>3. mem \in Row /\ day \in Later
  <2>1. day \in Days
    BY DEF IInv, TypeOK
  <2>2. day \in Later
    BY <2>1, RemediationAssumption DEF Days, Later
  <2> QED BY <1>1, <1>2, <2>2, SessionFacts
<1>4. /\ new \in Row /\ new.status \in {"completed", "failed"}
      /\ new.scheduledAt = mem.scheduledAt
  <2>1. CASE outcome = "success"
    BY <1>3, <2>1 DEF Result, Row, Status
  <2>2. CASE outcome = "late"
    BY <1>3, <2>2 DEF Result, Row, Status
  <2>3. CASE outcome = "failure"
    BY <1>3, <2>3 DEF Result, Row, Status
  <2> QED BY <2>1, <2>2, <2>3
<1>5. Commit(s, new) /\ Close(s)
  BY DEF FinishRun
<1> HIDE DEF new
<1>6. /\ row' \in [Requests -> Row]
      /\ \A q \in Requests : q # r => row'[q] = row[q]
      /\ row'[r].status = IF new.status = mem.status THEN row[r].status ELSE new.status
      /\ row'[r].scheduledAt = row[r].scheduledAt
      /\ row[r].scheduledAt <= row'[r].scheduledAt
      /\ row'[r].scheduledAt <= day + Grace[r]
  BY <1>1, <1>2, <1>4, <1>5, Committed
<1>7. hist'[r].outdated \/ Lawful(row'[r], hist'[r], r, day)
  <2> SUFFICES ASSUME ~hist[r].outdated PROVE Lawful(row'[r], hist[r], r, day)
    BY <1>1
  <2>1. Lawful(row[r], hist[r], r, day) /\ hist[r].runs = 1
    BY <1>1, <1>2 DEF IInv, RequestsLawful, SessionsLawful
  <2>2. row[r].status \in Begun /\ ~hist[r].rejected /\ ~hist[r].unreviewed
    BY <2>1 DEF Lawful
  <2>3. row'[r].status \in Begun
    BY <1>4, <1>6, <2>2 DEF Begun
  <2> QED BY <2>1, <2>2, <2>3 DEF Lawful, Begun
<1>8. row'[r].status = "scheduled" => row[r].status = "scheduled" /\ ~Cares(s, r)
  BY <1>1, <1>4, <1>6 DEF Cares
<1>9. hist' \in [Requests -> History]
  BY <1>1 DEF IInv, TypeOK
<1> QED BY <1>1, <1>2, <1>4, <1>5, <1>6, <1>7, <1>8, <1>9, Closed, StepOnRequest

-----------------------------------------------------------------------------
(***************************************************************************)
(* Steps that leave the review and the runs of every request alone.        *)
(***************************************************************************)

\* Sessions end, or open with the row as it is now; what is left to show is what
\* becomes of the rows and of the jobs.
LEMMA QuietStep ==
    ASSUME IInv, TypeOK', RequestsLawful', Awaited', JobsHaveRows', day' = day,
           \A q \in Requests :
             /\ \/ row'[q].scheduledAt = row[q].scheduledAt
                \/ row[q].status = "absent" /\ row'[q].scheduledAt = 0
             /\ row[q].status # "absent" => row'[q].status # "absent"
             /\ hist'[q].runs = hist[q].runs /\ hist'[q].approvedOn = hist[q].approvedOn
             /\ hist'[q].outdated = hist[q].outdated,
           \A t \in Sessions :
             \/ ses'[t] = ses[t]
             \/ ses'[t].step = "idle"
             \/ /\ ses'[t].step \in {"approve", "override", "execute"}
                /\ ses'[t].r \in Requests /\ row'[ses'[t].r].status # "absent"
                /\ ses'[t].mem = row'[ses'[t].r]
                /\ ses'[t].step = "override" => ses'[t].mem.status = "pending"
    PROVE  IInv'
<1>1. SessionsLawful'
  <2> SUFFICES ASSUME NEW t \in Sessions
               PROVE  /\ ses'[t].step # "idle"
                           => ses'[t].r \in Requests /\ row'[ses'[t].r].status # "absent"
                      /\ ses'[t].step = "override" => ses'[t].mem.status = "pending"
                      /\ ses'[t].step = "enqueue" => ses'[t].mem.status = "scheduled"
                      /\ ses'[t].step = "running"
                           => \/ hist'[ses'[t].r].outdated
                              \/ /\ hist'[ses'[t].r].runs = 1
                                 /\ \/ ses'[t].bypass
                                    \/ day' >= hist'[ses'[t].r].approvedOn + Grace[ses'[t].r]
    BY DEF SessionsLawful
  <2>1. CASE ses'[t] = ses[t]
    <3>1. /\ ses[t].step # "idle" => ses[t].r \in Requests /\ row[ses[t].r].status # "absent"
          /\ ses[t].step = "override" => ses[t].mem.status = "pending"
          /\ ses[t].step = "enqueue" => ses[t].mem.status = "scheduled"
          /\ ses[t].step = "running"
               => \/ hist[ses[t].r].outdated
                  \/ /\ hist[ses[t].r].runs = 1
                     /\ ses[t].bypass \/ day >= hist[ses[t].r].approvedOn + Grace[ses[t].r]
      BY DEF IInv, SessionsLawful
    <3> QED BY <2>1, <3>1
  <2>2. CASE ses'[t] # ses[t]
    BY <2>2
  <2> QED BY <2>1, <2>2
<1>2. DatesAdvance'
  <2>1. ASSUME NEW q \in Requests
        PROVE  row'[q].scheduledAt <= day' + Grace[q]
    <3>1. day \in Nat /\ Grace[q] \in Nat
      BY RemediationAssumption DEF IInv, TypeOK, Days
    <3> QED BY <3>1 DEF IInv, DatesAdvance
  <2>2. ASSUME NEW t \in Sessions, ses'[t].step # "idle"
        PROVE  ses'[t].mem.scheduledAt <= row'[ses'[t].r].scheduledAt
    <3>1. CASE ses'[t] = ses[t]
      <4>1. /\ ses[t].r \in Requests /\ row[ses[t].r].status # "absent"
            /\ ses[t].mem.scheduledAt <= row[ses[t].r].scheduledAt
        BY <2>2, <3>1 DEF IInv, SessionsLawful, DatesAdvance
      <4> QED BY <3>1, <4>1
    <3>2. CASE ses'[t] # ses[t]
      <4>1. ses'[t].r \in Requests /\ ses'[t].mem = row'[ses'[t].r]
        BY <2>2, <3>2
      <4>2. row'[ses'[t].r].scheduledAt \in Nat
        BY <4>1 DEF TypeOK, Row, Later
      <4> QED BY <4>1, <4>2
    <3> QED BY <3>1, <3>2
  <2> QED BY <2>1, <2>2 DEF DatesAdvance
<1> QED BY <1>1, <1>2 DEF IInv

\* A new session is not one that cares for a job, so nothing that was awaited is
\* forgotten when sessions open and the jobs stay.
LEMMA AwaitedStays ==
    ASSUME IInv, jobs' = jobs, day' = day,
           \A q \in Requests : /\ row'[q].status = "scheduled" => row'[q] = row[q]
                               /\ hist'[q].lost = hist[q].lost,
           \A t \in Sessions : ses'[t] = ses[t] \/ ses[t].step = "idle"
    PROVE  Awaited'
<1> SUFFICES ASSUME NEW q \in Requests, row'[q].status = "scheduled",
                    ~(jobs'[q][row'[q].scheduledAt] > 0), ~hist'[q].lost
             PROVE  \E t \in Sessions : Cares(t, q)'
  BY DEF Awaited
<1>1. row'[q] = row[q] /\ ~hist[q].lost /\ jobs' = jobs /\ day' = day
  OBVIOUS
<1>2. PICK t \in Sessions : Cares(t, q)
  BY <1>1 DEF IInv, Awaited
<1>3. ses'[t] = ses[t]
  BY <1>2 DEF Cares
<1>4. Cares(t, q)'
  BY <1>1, <1>2, <1>3 DEF Cares
<1> QED BY <1>4

\* The rows a request may start from.
LEMMA FirstRows ==
    /\ NoRow \in Row /\ NoRow.status = "absent" /\ NoRow.scheduledAt = 0
    /\ NewRow \in Row /\ NewRow.status = "pending" /\ NewRow.scheduledAt = 0
<1>1. NoRow \in Row /\ NoRow.status = "absent" /\ NoRow.scheduledAt = 0
  BY RemediationAssumption DEF NoRow, Row, Status, Never, Later
<1>2. NewRow \in Row /\ NewRow.status = "pending" /\ NewRow.scheduledAt = 0
  BY <1>1 DEF NewRow, Row, Status
<1> QED BY <1>1, <1>2

\* A session opens on request r with the row as it is now, and nothing else
\* changes but the number of calls and a new request.
LEMMA Opens ==
    ASSUME IInv, NEW s \in Sessions, NEW r \in Requests, NEW x \in Session,
           Call(s), UNCHANGED <<day, jobs, faults, hist>>,
           \/ row' = row
           \/ row[r].status = "absent" /\ row' = [row EXCEPT ![r] = NewRow],
           ses' = [ses EXCEPT ![s] = x],
           x.step \in {"approve", "override", "execute"}, x.r = r,
           x.mem = row'[r], row'[r].status # "absent",
           x.step = "override" => x.mem.status = "pending"
    PROVE  IInv'
<1>1. NewRow \in Row /\ NewRow.status = "pending" /\ NewRow.scheduledAt = 0
  BY FirstRows
<1>2. /\ row \in [Requests -> Row] /\ ses \in [Sessions -> Session]
      /\ hist \in [Requests -> History] /\ calls \in 0..MaxCalls /\ MaxCalls \in Nat
  BY RemediationAssumption DEF IInv, TypeOK
<1>3. /\ row' \in [Requests -> Row]
      /\ \A q \in Requests : row'[q] = row[q] \/ (row[q].status = "absent" /\ row'[q] = NewRow)
  BY <1>1, <1>2
<1>4. /\ ses' \in [Sessions -> Session] /\ ses'[s] = x
      /\ \A t \in Sessions : t # s => ses'[t] = ses[t]
  BY <1>2
<1>5. ses[s].step = "idle" /\ calls' \in 0..MaxCalls
  BY <1>2 DEF Call, Idle
<1>6. TypeOK'
  BY <1>3, <1>4, <1>5 DEF IInv, TypeOK
<1>7. RequestsLawful'
  <2> SUFFICES ASSUME NEW q \in Requests, ~hist[q].outdated
               PROVE  Lawful(row'[q], hist[q], q, day)
    BY DEF RequestsLawful
  <2>1. Lawful(row[q], hist[q], q, day) /\ hist[q].runs \in 0..2
    BY <1>2 DEF IInv, RequestsLawful, History
  <2>2. CASE row'[q] = row[q]
    BY <2>1, <2>2
  <2>3. CASE row[q].status = "absent" /\ row'[q] = NewRow
    <3>1. hist[q].runs = 0 /\ ~hist[q].rejected /\ ~hist[q].unreviewed
      BY <2>1, <2>3 DEF Lawful, Begun
    <3> QED BY <1>1, <2>1, <2>3, <3>1 DEF Lawful
  <2> QED BY <1>3, <2>2, <2>3
<1>8. Awaited'
  <2>1. ASSUME NEW q \in Requests
        PROVE  /\ row'[q].status = "scheduled" => row'[q] = row[q]
               /\ hist'[q].lost = hist[q].lost
    BY <1>1, <1>3
  <2>2. \A t \in Sessions : ses'[t] = ses[t] \/ ses[t].step = "idle"
    BY <1>4, <1>5
  <2> QED BY <2>1, <2>2, AwaitedStays
<1>9. ASSUME NEW q \in Requests
      PROVE  /\ \/ row'[q].scheduledAt = row[q].scheduledAt
                \/ row[q].status = "absent" /\ row'[q].scheduledAt = 0
             /\ row[q].status # "absent" => row'[q].status # "absent"
             /\ hist'[q].runs = hist[q].runs /\ hist'[q].approvedOn = hist[q].approvedOn
             /\ hist'[q].outdated = hist[q].outdated
  BY <1>1, <1>3
<1>10. \A t \in Sessions :
         \/ ses'[t] = ses[t]
         \/ ses'[t].step = "idle"
         \/ /\ ses'[t].step \in {"approve", "override", "execute"}
            /\ ses'[t].r \in Requests /\ row'[ses'[t].r].status # "absent"
            /\ ses'[t].mem = row'[ses'[t].r]
            /\ ses'[t].step = "override" => ses'[t].mem.status = "pending"
  BY <1>4
<1>11. JobsHaveRows'
  BY <1>9 DEF IInv, JobsHaveRows
<1> QED BY <1>6, <1>7, <1>8, <1>9, <1>10, <1>11, QuietStep

\* The sessions that people, the autopilot and the hard limit open.
LEMMA OpenSteps ==
    ASSUME IInv, NEW s \in Sessions, NEW r \in Requests, NEW bypass \in BOOLEAN,
           \/ AutopilotCreate(s, r) \/ LoadToApprove(s, r)
           \/ HardLimitSelect(s, r) \/ LoadToExecute(s, r, bypass)
    PROVE  IInv'
<1>1. NewRow \in Row /\ NewRow.status = "pending" /\ NoRow \in Row
  BY FirstRows
<1>2. row \in [Requests -> Row] /\ row[r] \in Row
  BY DEF IInv, TypeOK
<1>3. Never \in Later /\ Bypass \in BOOLEAN
  BY RemediationAssumption DEF Never, Later
<1>4. Idle \in Session
  BY <1>1, <1>3 DEF Idle, Session, Step
<1>5. CASE AutopilotCreate(s, r)
  <2> DEFINE x == [Idle EXCEPT !.step = "approve", !.r = r, !.mem = NewRow,
                               !.then = TRUE, !.bypass = Bypass]
  <2>1. x \in Session /\ x.step = "approve" /\ x.r = r /\ x.mem = NewRow
    BY <1>1, <1>3, <1>4 DEF Session, Step
  <2>2. /\ Call(s) /\ UNCHANGED <<day, jobs, faults, hist>>
        /\ row[r].status = "absent" /\ row' = [row EXCEPT ![r] = NewRow]
        /\ ses' = [ses EXCEPT ![s] = x]
    BY <1>5 DEF AutopilotCreate
  <2> HIDE DEF x
  <2>3. row'[r] = NewRow
    BY <1>2, <2>2
  <2> QED BY <1>1, <2>1, <2>2, <2>3, Opens
<1>6. CASE LoadToApprove(s, r)
  <2> DEFINE x == [Idle EXCEPT !.step = "approve", !.r = r, !.mem = row[r]]
  <2>1. x \in Session /\ x.step = "approve" /\ x.r = r /\ x.mem = row[r]
    BY <1>2, <1>4 DEF Session, Step
  <2>2. /\ Call(s) /\ UNCHANGED <<day, jobs, faults, hist>>
        /\ row[r].status # "absent" /\ row' = row
        /\ ses' = [ses EXCEPT ![s] = x]
    BY <1>6 DEF LoadToApprove
  <2> HIDE DEF x
  <2> QED BY <2>1, <2>2, Opens
<1>7. CASE HardLimitSelect(s, r)
  <2> DEFINE x == [Idle EXCEPT !.step = "override", !.r = r, !.mem = row[r],
                               !.bypass = Bypass]
  <2>1. x \in Session /\ x.step = "override" /\ x.r = r /\ x.mem = row[r]
    BY <1>2, <1>3, <1>4 DEF Session, Step
  <2>2. /\ Call(s) /\ UNCHANGED <<day, jobs, faults, hist>>
        /\ row[r].status = "pending" /\ row' = row
        /\ ses' = [ses EXCEPT ![s] = x]
    BY <1>7 DEF HardLimitSelect
  <2> HIDE DEF x
  <2> QED BY <2>1, <2>2, Opens
<1>8. CASE LoadToExecute(s, r, bypass)
  <2> DEFINE x == [Idle EXCEPT !.step = "execute", !.r = r, !.mem = row[r],
                               !.bypass = bypass]
  <2>1. x \in Session /\ x.step = "execute" /\ x.r = r /\ x.mem = row[r]
    BY <1>2, <1>4 DEF Session, Step
  <2>2. /\ Call(s) /\ UNCHANGED <<day, jobs, faults, hist>>
        /\ row[r].status # "absent" /\ row' = row
        /\ ses' = [ses EXCEPT ![s] = x]
    BY <1>8 DEF LoadToExecute
  <2> HIDE DEF x
  <2> QED BY <2>1, <2>2, Opens
<1> QED BY <1>5, <1>6, <1>7, <1>8

\* A request is created.
LEMMA CreateRequestStep ==
    ASSUME IInv, NEW r \in Requests, CreateRequest(r)
    PROVE  IInv'
<1>1. NewRow \in Row /\ NewRow.status = "pending" /\ NewRow.scheduledAt = 0
  BY FirstRows
<1>2. /\ row \in [Requests -> Row] /\ hist \in [Requests -> History]
      /\ row[r].status = "absent" /\ row' = [row EXCEPT ![r] = NewRow]
      /\ UNCHANGED <<day, ses, jobs, calls, faults, hist>>
  BY DEF IInv, TypeOK, CreateRequest
<1>3. /\ row' \in [Requests -> Row] /\ row'[r] = NewRow
      /\ \A q \in Requests : q # r => row'[q] = row[q]
  BY <1>1, <1>2
<1>4. TypeOK'
  BY <1>2, <1>3 DEF IInv, TypeOK
<1>5. RequestsLawful'
  <2> SUFFICES ASSUME NEW q \in Requests, ~hist[q].outdated
               PROVE  Lawful(row'[q], hist[q], q, day)
    BY <1>2 DEF RequestsLawful
  <2>1. Lawful(row[q], hist[q], q, day) /\ hist[q].runs \in 0..2
    BY <1>2 DEF IInv, RequestsLawful, History
  <2>2. CASE q # r
    BY <1>3, <2>1, <2>2
  <2>3. CASE q = r
    <3>1. hist[q].runs = 0 /\ ~hist[q].rejected /\ ~hist[q].unreviewed
      BY <1>2, <2>1, <2>3 DEF Lawful, Begun
    <3> QED BY <1>1, <1>3, <2>1, <2>3, <3>1 DEF Lawful
  <2> QED BY <2>2, <2>3
<1>6. Awaited'
  <2>1. ASSUME NEW q \in Requests
        PROVE  /\ row'[q].status = "scheduled" => row'[q] = row[q]
               /\ hist'[q].lost = hist[q].lost
    BY <1>1, <1>2, <1>3
  <2> QED BY <1>2, <2>1, AwaitedStays
<1>7. ASSUME NEW q \in Requests
      PROVE  /\ \/ row'[q].scheduledAt = row[q].scheduledAt
                \/ row[q].status = "absent" /\ row'[q].scheduledAt = 0
             /\ row[q].status # "absent" => row'[q].status # "absent"
             /\ hist'[q].runs = hist[q].runs /\ hist'[q].approvedOn = hist[q].approvedOn
             /\ hist'[q].outdated = hist[q].outdated
  BY <1>1, <1>2, <1>3
<1>8. JobsHaveRows'
  BY <1>2, <1>7 DEF IInv, JobsHaveRows
<1> QED BY <1>2, <1>4, <1>5, <1>6, <1>7, <1>8, QuietStep

\* A reviewer rejects: the request waits for a review, so it has not run.
LEMMA RejectStep ==
    ASSUME IInv, NEW r \in Requests, Reject(r)
    PROVE  IInv'
<1> DEFINE w == [row[r] EXCEPT !.status = "rejected", !.escalated = FALSE]
           h == [hist[r] EXCEPT !.rejected = TRUE, !.unreviewed = FALSE]
<1>1. /\ row \in [Requests -> Row] /\ row[r] \in Row
      /\ hist \in [Requests -> History] /\ hist[r] \in History
      /\ row[r].status \in {"pending", "pending_approval"}
      /\ UNCHANGED <<day, ses, jobs, calls, faults>>
  BY DEF IInv, TypeOK, Reject
<1>2. row' = [row EXCEPT ![r] = w] /\ hist' = [hist EXCEPT ![r] = h]
  BY <1>1 DEF Reject
<1>3. w \in Row /\ w.status = "rejected" /\ w.scheduledAt = row[r].scheduledAt
  BY <1>1 DEF Row, Status
<1>4. /\ h \in History /\ h.runs = hist[r].runs /\ h.approvedOn = hist[r].approvedOn
      /\ h.outdated = hist[r].outdated /\ h.lost = hist[r].lost
      /\ h.unreviewed = FALSE
  BY <1>1 DEF History
<1> HIDE DEF w, h
<1>5. /\ row' \in [Requests -> Row] /\ row'[r] = w
      /\ \A q \in Requests : q # r => row'[q] = row[q]
      /\ hist' \in [Requests -> History] /\ hist'[r] = h
      /\ \A q \in Requests : q # r => hist'[q] = hist[q]
  BY <1>1, <1>2, <1>3, <1>4
<1>6. TypeOK'
  BY <1>1, <1>5 DEF IInv, TypeOK
<1>7. RequestsLawful'
  <2> SUFFICES ASSUME NEW q \in Requests, ~hist'[q].outdated
               PROVE  Lawful(row'[q], hist'[q], q, day)
    BY <1>1 DEF RequestsLawful
  <2>1. ~hist[q].outdated
    BY <1>4, <1>5
  <2>2. Lawful(row[q], hist[q], q, day) /\ hist[q].runs \in 0..2
    BY <1>1, <2>1 DEF IInv, RequestsLawful, History
  <2>3. CASE q # r
    BY <1>5, <2>2, <2>3
  <2>4. CASE q = r
    <3>1. hist[r].runs = 0 /\ hist[r].approvedOn <= day
      BY <1>1, <2>2, <2>4 DEF Lawful, Begun
    <3>2. Lawful(w, h, r, day)
      BY <1>3, <1>4, <3>1 DEF Lawful
    <3> QED BY <1>5, <2>4, <3>2
  <2> QED BY <2>3, <2>4
<1>8. ASSUME NEW q \in Requests
      PROVE  /\ row'[q].status = "scheduled" => row'[q] = row[q]
             /\ hist'[q].lost = hist[q].lost
             /\ row'[q].scheduledAt = row[q].scheduledAt
             /\ row[q].status # "absent" => row'[q].status # "absent"
             /\ hist'[q].runs = hist[q].runs /\ hist'[q].approvedOn = hist[q].approvedOn
             /\ hist'[q].outdated = hist[q].outdated
  <2>1. CASE q = r
    BY <1>3, <1>4, <1>5, <2>1
  <2>2. CASE q # r
    BY <1>5, <2>2
  <2> QED BY <2>1, <2>2
<1>9. Awaited'
  BY <1>1, <1>8, AwaitedStays
<1>10. JobsHaveRows'
  BY <1>1, <1>8 DEF IInv, JobsHaveRows
<1> QED BY <1>1, <1>6, <1>7, <1>8, <1>9, <1>10, QuietStep

\* A day passes: what was due stays due.
LEMMA TickStep ==
    ASSUME IInv, Tick
    PROVE  IInv'
<1>1. /\ day \in Nat /\ day' = day + 1 /\ day' \in Days
      /\ row' = row /\ ses' = ses /\ jobs' = jobs /\ hist' = hist
      /\ calls' = calls /\ faults' = faults
  BY RemediationAssumption DEF IInv, TypeOK, Days, Tick
<1>2. TypeOK'
  BY <1>1 DEF IInv, TypeOK
<1>3. ASSUME NEW q \in Requests
      PROVE  /\ Grace[q] \in Nat /\ row[q].scheduledAt \in Nat /\ hist[q].approvedOn \in Nat
  <2>1. Grace[q] \in 1..MaxGrace /\ MaxGrace \in Nat
    BY RemediationAssumption
  <2>2. row[q] \in Row /\ hist[q] \in History
    BY DEF IInv, TypeOK
  <2> QED BY <2>1, <2>2 DEF Row, History, Later
<1>4. RequestsLawful'
  <2> SUFFICES ASSUME NEW q \in Requests, ~hist[q].outdated
               PROVE  Lawful(row[q], hist[q], q, day + 1)
    BY <1>1 DEF RequestsLawful
  <2>1. Lawful(row[q], hist[q], q, day)
    BY DEF IInv, RequestsLawful
  <2> QED BY <1>1, <1>3, <2>1 DEF Lawful
<1>5. SessionsLawful'
  <2> SUFFICES ASSUME NEW t \in Sessions, ses[t].step = "running", ~hist[ses[t].r].outdated
               PROVE  ses[t].bypass \/ day + 1 >= hist[ses[t].r].approvedOn + Grace[ses[t].r]
    BY <1>1 DEF IInv, SessionsLawful
  <2>1. /\ ses[t].r \in Requests
        /\ ses[t].bypass \/ day >= hist[ses[t].r].approvedOn + Grace[ses[t].r]
    BY DEF IInv, SessionsLawful
  <2>2. Grace[ses[t].r] \in Nat /\ hist[ses[t].r].approvedOn \in Nat
    BY <1>3, <2>1
  <2> QED BY <1>1, <2>1, <2>2
<1>6. DatesAdvance'
  <2>1. ASSUME NEW q \in Requests
        PROVE  row[q].scheduledAt <= day + 1 + Grace[q]
    BY <1>1, <1>3 DEF IInv, DatesAdvance
  <2> QED BY <1>1, <2>1 DEF IInv, DatesAdvance
<1>7. Awaited'
  <2> SUFFICES ASSUME NEW q \in Requests, row[q].status = "scheduled",
                      ~(jobs[q][row[q].scheduledAt] > 0), ~hist[q].lost
               PROVE  \E t \in Sessions : Cares(t, q)'
    BY <1>1 DEF Awaited
  <2>1. PICK t \in Sessions : Cares(t, q)
    BY DEF IInv, Awaited
  <2>2. ses[t].mem.scheduledAt \in Nat
    BY <2>1, SessionFacts DEF Cares
  <2>3. Cares(t, q)'
    BY <1>1, <2>1, <2>2 DEF Cares
  <2> QED BY <2>3
<1>8. JobsHaveRows'
  BY <1>1 DEF IInv, JobsHaveRows
<1> QED BY <1>2, <1>4, <1>5, <1>6, <1>7, <1>8 DEF IInv

-----------------------------------------------------------------------------
(***************************************************************************)
(* Steps on the queue of jobs, and faults.                                 *)
(***************************************************************************)

\* The sessions end, or open with the row as it is now; the queue of one request r
\* changes at day d, and the history only in what was lost.  Left to show: whoever
\* cared for a scheduled request still does, or hands it on.
LEMMA QueueStep ==
    ASSUME IInv, NEW r \in Requests, NEW d \in Later, NEW n \in 0..MaxJobs,
           row[r].status # "absent",
           UNCHANGED <<day, row, calls>>, faults' \in 0..MaxFaults,
           jobs' = [jobs EXCEPT ![r][d] = n],
           hist' \in [Requests -> History],
           \A q \in Requests :
             /\ hist'[q].runs = hist[q].runs /\ hist'[q].approvedOn = hist[q].approvedOn
             /\ hist'[q].rejected = hist[q].rejected
             /\ hist'[q].unreviewed = hist[q].unreviewed
             /\ hist'[q].outdated = hist[q].outdated
             /\ hist[q].lost => hist'[q].lost,
           ses' \in [Sessions -> Session],
           \A t \in Sessions :
             \/ ses'[t] = ses[t]
             \/ ses'[t].step = "idle"
             \/ /\ ses'[t].step = "execute"
                /\ ses'[t].r \in Requests /\ row[ses'[t].r].status # "absent"
                /\ ses'[t].mem = row[ses'[t].r],
           \A q \in Requests, t \in Sessions :
             (Cares(t, q) /\ ses'[t] # ses[t] /\ row[q].status = "scheduled")
               => hist'[q].lost \/ (q = r /\ d = row[q].scheduledAt /\ n > 0),
           (row[r].status = "scheduled" /\ d = row[r].scheduledAt /\ jobs[r][d] > 0)
             => n > 0 \/ hist'[r].lost \/ \E t \in Sessions : Cares(t, r)'
    PROVE  IInv'
<1>1. /\ row \in [Requests -> Row] /\ jobs \in [Requests -> [Later -> 0..MaxJobs]]
  BY DEF IInv, TypeOK
<1>2. /\ jobs' \in [Requests -> [Later -> 0..MaxJobs]] /\ jobs'[r][d] = n
      /\ \A q \in Requests, e \in Later : (q # r \/ e # d) => jobs'[q][e] = jobs[q][e]
  BY <1>1
<1>3. TypeOK'
  BY <1>2 DEF IInv, TypeOK
<1>4. RequestsLawful'
  <2> SUFFICES ASSUME NEW q \in Requests, ~hist'[q].outdated
               PROVE  Lawful(row[q], hist'[q], q, day)
    BY DEF RequestsLawful
  <2>1. Lawful(row[q], hist[q], q, day)
    BY DEF IInv, RequestsLawful
  <2> QED BY <2>1 DEF Lawful
<1>5. Awaited'
  <2> SUFFICES ASSUME NEW q \in Requests, row[q].status = "scheduled", ~hist'[q].lost,
                      ~\E t \in Sessions : Cares(t, q)'
               PROVE  jobs'[q][row[q].scheduledAt] > 0
    BY DEF Awaited
  <2>1. row[q].scheduledAt \in Later
    BY <1>1 DEF Row
  <2>2. CASE jobs[q][row[q].scheduledAt] > 0
    BY <1>2, <2>1, <2>2
  <2>3. CASE \E t \in Sessions : Cares(t, q)
    <3>1. PICK t \in Sessions : Cares(t, q)
      BY <2>3
    <3>2. CASE ses'[t] = ses[t]
      <4>1. Cares(t, q)'
        BY <3>1, <3>2 DEF Cares
      <4> QED BY <4>1
    <3>3. CASE ses'[t] # ses[t]
      BY <1>2, <3>1, <3>3
    <3> QED BY <3>2, <3>3
  <2> QED BY <2>2, <2>3 DEF IInv, Awaited
<1>6. ASSUME NEW q \in Requests
      PROVE  /\ row'[q].scheduledAt = row[q].scheduledAt
             /\ row[q].status # "absent" => row'[q].status # "absent"
             /\ hist'[q].runs = hist[q].runs /\ hist'[q].approvedOn = hist[q].approvedOn
             /\ hist'[q].outdated = hist[q].outdated
  OBVIOUS
<1>7. \A t \in Sessions :
        \/ ses'[t] = ses[t]
        \/ ses'[t].step = "idle"
        \/ /\ ses'[t].step \in {"approve", "override", "execute"}
           /\ ses'[t].r \in Requests /\ row'[ses'[t].r].status # "absent"
           /\ ses'[t].mem = row'[ses'[t].r]
           /\ ses'[t].step = "override" => ses'[t].mem.status = "pending"
  OBVIOUS
<1>8. JobsHaveRows'
  BY <1>2 DEF IInv, JobsHaveRows
<1> QED BY <1>3, <1>4, <1>5, <1>6, <1>7, <1>8, QuietStep

\* A fault is counted, and request r has lost something.
LEMMA Lost ==
    ASSUME IInv, NEW r \in Requests, NEW l \in BOOLEAN, hist[r].lost => l,
           hist' = [hist EXCEPT ![r].lost = l]
    PROVE  /\ hist' \in [Requests -> History] /\ hist'[r].lost = l
           /\ \A q \in Requests :
                /\ hist'[q].runs = hist[q].runs /\ hist'[q].approvedOn = hist[q].approvedOn
                /\ hist'[q].rejected = hist[q].rejected
                /\ hist'[q].unreviewed = hist[q].unreviewed
                /\ hist'[q].outdated = hist[q].outdated
                /\ hist[q].lost => hist'[q].lost
<1> DEFINE h == [hist[r] EXCEPT !.lost = l]
<1>1. hist \in [Requests -> History] /\ hist[r] \in History
  BY DEF IInv, TypeOK
<1>2. /\ h \in History /\ h.lost = l
      /\ h.runs = hist[r].runs /\ h.approvedOn = hist[r].approvedOn
      /\ h.rejected = hist[r].rejected /\ h.unreviewed = hist[r].unreviewed
      /\ h.outdated = hist[r].outdated
  BY <1>1 DEF History
<1>3. hist' = [hist EXCEPT ![r] = h]
  BY <1>1
<1> HIDE DEF h
<1>4. /\ hist' \in [Requests -> History] /\ hist'[r] = h
      /\ \A q \in Requests : q # r => hist'[q] = hist[q]
  BY <1>1, <1>2, <1>3
<1> QED BY <1>2, <1>4

\* A worker takes a due job: the session that runs it cares for the request.
LEMMA StartJobStep ==
    ASSUME IInv, NEW s \in Sessions, NEW r \in Requests, NEW d \in Days, StartJob(s, r, d)
    PROVE  IInv'
<1> DEFINE x == [Idle EXCEPT !.step = "execute", !.r = r, !.mem = row[r], !.job = d]
           n == jobs[r][d] - 1
<1>1. /\ row[r] \in Row /\ row[r].scheduledAt \in Nat /\ day \in Nat
      /\ ses \in [Sessions -> Session] /\ hist \in [Requests -> History]
      /\ jobs[r] \in [Later -> 0..MaxJobs] /\ faults \in 0..MaxFaults
  <2>1. row[r] \in Row /\ day \in Days
    BY DEF IInv, TypeOK
  <2> QED BY <2>1 DEF IInv, TypeOK, Row, Later, Days
<1>2. d \in Later /\ d \in Nat /\ d # Never
  BY RemediationAssumption DEF Days, Later, Never
<1>3. /\ ses[s] = Idle /\ d <= day /\ jobs[r][d] > 0
      /\ UNCHANGED <<day, row, calls, faults, hist>>
  BY DEF StartJob
<1>4. row[r].status # "absent"
  BY <1>2, <1>3 DEF IInv, JobsHaveRows
<1>5. n \in 0..MaxJobs /\ jobs' = [jobs EXCEPT ![r][d] = n]
  <2>1. jobs[r][d] \in 0..MaxJobs /\ MaxJobs \in Nat
    BY <1>1, <1>2, RemediationAssumption
  <2>2. n \in 0..MaxJobs
    BY <1>3, <2>1
  <2>3. jobs' = [jobs EXCEPT ![r][d] = n]
    BY DEF StartJob, IInv, TypeOK
  <2> QED BY <2>2, <2>3
<1>6. Idle \in Session /\ Idle.step = "idle"
  <2>1. Never \in Later
    BY RemediationAssumption DEF Never, Later
  <2> QED BY <2>1, FirstRows DEF Idle, Session, Step
<1>7. x \in Session /\ x.step = "execute" /\ x.r = r /\ x.mem = row[r] /\ x.job = d
  BY <1>1, <1>2, <1>6 DEF Session, Step
<1>8. \/ ses' = ses /\ row[r].status = "scheduled" /\ day < row[r].scheduledAt
      \/ ses' = [ses EXCEPT ![s] = x] /\ ~(row[r].status = "scheduled" /\ day < row[r].scheduledAt)
  BY DEF StartJob
<1> HIDE DEF x, n
<1>9. /\ ses' \in [Sessions -> Session]
      /\ \A t \in Sessions : ses'[t] = ses[t] \/ (t = s /\ ses'[t] = x)
  BY <1>1, <1>7, <1>8
<1>10. ASSUME NEW q \in Requests, NEW t \in Sessions, Cares(t, q), ses'[t] # ses[t]
       PROVE  FALSE
  <2>1. ses[t].step = "idle"
    BY <1>3, <1>6, <1>9, <1>10
  <2> QED BY <1>10, <2>1 DEF Cares
<1>11. ASSUME row[r].status = "scheduled", d = row[r].scheduledAt
       PROVE  \E t \in Sessions : Cares(t, r)'
  <2>1. ses' = [ses EXCEPT ![s] = x]
    BY <1>1, <1>3, <1>8, <1>11
  <2>2. ses'[s] = x
    BY <1>1, <2>1
  <2>3. Cares(s, r)'
    BY <1>2, <1>3, <1>7, <1>11, <2>2 DEF Cares
  <2> QED BY <2>3
<1>12. \A t \in Sessions :
         \/ ses'[t] = ses[t]
         \/ ses'[t].step = "idle"
         \/ /\ ses'[t].step = "execute"
            /\ ses'[t].r \in Requests /\ row[ses'[t].r].status # "absent"
            /\ ses'[t].mem = row[ses'[t].r]
  BY <1>4, <1>7, <1>9
<1>13. ASSUME NEW q \in Requests
       PROVE  /\ hist'[q].runs = hist[q].runs /\ hist'[q].approvedOn = hist[q].approvedOn
              /\ hist'[q].rejected = hist[q].rejected
              /\ hist'[q].unreviewed = hist[q].unreviewed
              /\ hist'[q].outdated = hist[q].outdated
              /\ hist[q].lost => hist'[q].lost
  BY <1>3
<1> QED BY <1>1, <1>2, <1>3, <1>4, <1>5, <1>9, <1>10, <1>11, <1>12, <1>13, QueueStep

\* A session queues the job of the grace period it has committed, or ends by a
\* fault: a cancelled job goes back to the queue, anything else is lost.
LEMMA EndSteps ==
    ASSUME IInv, NEW s \in Sessions, EnqueueJob(s) \/ AbortJob(s) \/ Crash(s)
    PROVE  IInv'
<1>1. ses[s].step # "idle" /\ Close(s) /\ UNCHANGED <<day, row, calls>>
  BY DEF EnqueueJob, AbortJob, Crash
<1>2. PICK r \in Requests : r = ses[s].r
  BY <1>1, SessionFacts
<1>3. row[r].status # "absent"
  BY <1>1, <1>2 DEF IInv, SessionsLawful
<1>4. /\ ses' \in [Sessions -> Session] /\ ses'[s].step = "idle"
      /\ \A t \in Sessions : t # s => ses'[t] = ses[t]
  BY <1>1, Closed
<1>5. /\ jobs \in [Requests -> [Later -> 0..MaxJobs]] /\ hist \in [Requests -> History]
      /\ faults \in 0..MaxFaults /\ MaxFaults \in Nat /\ MaxJobs \in Nat
      /\ hist[r].lost \in BOOLEAN /\ ses[s] \in Session
  BY RemediationAssumption DEF IInv, TypeOK, History
<1>6. \A t \in Sessions :
        \/ ses'[t] = ses[t]
        \/ ses'[t].step = "idle"
        \/ /\ ses'[t].step = "execute"
           /\ ses'[t].r \in Requests /\ row[ses'[t].r].status # "absent"
           /\ ses'[t].mem = row[ses'[t].r]
  BY <1>4
<1>7. ASSUME NEW q \in Requests, NEW t \in Sessions, Cares(t, q), ses'[t] # ses[t]
      PROVE  t = s /\ q = r
  BY <1>2, <1>4, <1>7 DEF Cares
<1>8. CASE EnqueueJob(s)
  <2>1. PICK d : d = ses[s].mem.scheduledAt
    OBVIOUS
  <2>2. d \in Later
    BY <1>1, <2>1, SessionFacts DEF Row
  <2>3. PICK n : n = jobs[r][d] + 1
    OBVIOUS
  <2>4. /\ ses[s].step = "enqueue" /\ faults' = faults /\ hist' = hist
        /\ jobs[r][d] < MaxJobs /\ jobs' = [jobs EXCEPT ![r][d] = n]
    BY <1>2, <1>5, <1>8, <2>1, <2>3 DEF EnqueueJob
  <2>5. n \in 0..MaxJobs /\ n > 0
    <3>1. jobs[r][d] \in 0..MaxJobs
      BY <1>5, <2>2
    <3> QED BY <1>5, <2>3, <2>4, <3>1
  <2>6. ASSUME NEW q \in Requests, NEW t \in Sessions, Cares(t, q), ses'[t] # ses[t],
               row[q].status = "scheduled"
        PROVE  hist'[q].lost \/ (q = r /\ d = row[q].scheduledAt /\ n > 0)
    <3>1. t = s /\ q = r
      BY <1>7, <2>6
    <3> QED BY <2>1, <2>4, <2>5, <2>6, <3>1 DEF Cares
  <2>7. ASSUME NEW q \in Requests
        PROVE  /\ hist'[q].runs = hist[q].runs /\ hist'[q].approvedOn = hist[q].approvedOn
               /\ hist'[q].rejected = hist[q].rejected
               /\ hist'[q].unreviewed = hist[q].unreviewed
               /\ hist'[q].outdated = hist[q].outdated
               /\ hist[q].lost => hist'[q].lost
    BY <2>4
  <2>8. hist' \in [Requests -> History] /\ faults' \in 0..MaxFaults
    BY <1>5, <2>4
  <2>9. jobs' = [jobs EXCEPT ![r][d] = n] /\ n \in 0..MaxJobs /\ n > 0
    BY <2>4, <2>5
  <2>10. \A q \in Requests, t \in Sessions :
           (Cares(t, q) /\ ses'[t] # ses[t] /\ row[q].status = "scheduled")
             => hist'[q].lost \/ (q = r /\ d = row[q].scheduledAt /\ n > 0)
    BY <2>6
  <2>11. (row[r].status = "scheduled" /\ d = row[r].scheduledAt /\ jobs[r][d] > 0)
            => n > 0 \/ hist'[r].lost \/ \E t \in Sessions : Cares(t, r)'
    BY <2>9
  <2> QED BY <1>1, <1>3, <1>4, <1>6, <2>2, <2>7, <2>8, <2>9, <2>10, <2>11, QueueStep
<1>9. CASE AbortJob(s)
  <2>1. PICK d : d = ses[s].job
    OBVIOUS
  <2>2. d \in Later
    BY <1>5, <2>1 DEF Session
  <2>3. PICK n : n = jobs[r][d] + 1
    OBVIOUS
  <2>4. PICK l \in BOOLEAN : l = (hist[r].lost \/ ses[s].step = "enqueue")
    OBVIOUS
  <2>5. /\ jobs[r][d] < MaxJobs /\ jobs' = [jobs EXCEPT ![r][d] = n]
        /\ hist' = [hist EXCEPT ![r].lost = l]
    BY <1>2, <1>5, <1>9, <2>1, <2>3, <2>4 DEF AbortJob
  <2>6. n \in 0..MaxJobs /\ n > 0
    <3>1. jobs[r][d] \in 0..MaxJobs
      BY <1>5, <2>2
    <3> QED BY <1>5, <2>3, <2>5, <3>1
  <2>7. /\ hist' \in [Requests -> History] /\ hist'[r].lost = l
        /\ \A q \in Requests :
             /\ hist'[q].runs = hist[q].runs /\ hist'[q].approvedOn = hist[q].approvedOn
             /\ hist'[q].rejected = hist[q].rejected
             /\ hist'[q].unreviewed = hist[q].unreviewed
             /\ hist'[q].outdated = hist[q].outdated
             /\ hist[q].lost => hist'[q].lost
    <3>1. hist[r].lost => l
      BY <2>4
    <3> QED BY <2>5, <3>1, Lost
  <2>8. faults' \in 0..MaxFaults
    BY <1>5, <1>9 DEF AbortJob, Fault
  <2>9. ASSUME NEW q \in Requests, NEW t \in Sessions, Cares(t, q), ses'[t] # ses[t],
               row[q].status = "scheduled"
        PROVE  hist'[q].lost \/ (q = r /\ d = row[q].scheduledAt /\ n > 0)
    <3>1. t = s /\ q = r
      BY <1>7, <2>9
    <3>2. ses[s].step = "enqueue" \/ ses[s].job = row[r].scheduledAt
      BY <2>9, <3>1 DEF Cares
    <3> QED BY <2>1, <2>4, <2>6, <2>7, <3>1, <3>2
  <2>10. jobs' = [jobs EXCEPT ![r][d] = n] /\ n \in 0..MaxJobs /\ n > 0
    BY <2>5, <2>6
  <2>11. \A q \in Requests, t \in Sessions :
           (Cares(t, q) /\ ses'[t] # ses[t] /\ row[q].status = "scheduled")
             => hist'[q].lost \/ (q = r /\ d = row[q].scheduledAt /\ n > 0)
    BY <2>9
  <2>12. (row[r].status = "scheduled" /\ d = row[r].scheduledAt /\ jobs[r][d] > 0)
            => n > 0 \/ hist'[r].lost \/ \E t \in Sessions : Cares(t, r)'
    BY <2>10
  <2> QED BY <1>1, <1>3, <1>4, <1>6, <2>2, <2>7, <2>8, <2>10, <2>11, <2>12, QueueStep
<1>10. CASE Crash(s)
  <2>1. hist' = [hist EXCEPT ![r].lost = TRUE] /\ jobs' = jobs
    BY <1>2, <1>10 DEF Crash
  <2>2. /\ hist' \in [Requests -> History] /\ hist'[r].lost
        /\ \A q \in Requests :
             /\ hist'[q].runs = hist[q].runs /\ hist'[q].approvedOn = hist[q].approvedOn
             /\ hist'[q].rejected = hist[q].rejected
             /\ hist'[q].unreviewed = hist[q].unreviewed
             /\ hist'[q].outdated = hist[q].outdated
             /\ hist[q].lost => hist'[q].lost
    BY <2>1, Lost
  <2>3. faults' \in 0..MaxFaults
    BY <1>5, <1>10 DEF Crash, Fault
  <2>4. PICK n : n = jobs[r][0]
    OBVIOUS
  <2>5. 0 \in Later
    BY RemediationAssumption DEF Later
  <2>6. n \in 0..MaxJobs /\ jobs' = [jobs EXCEPT ![r][0] = n]
    BY <1>5, <2>1, <2>4, <2>5
  <2>7. ASSUME NEW q \in Requests, NEW t \in Sessions, Cares(t, q), ses'[t] # ses[t]
        PROVE  hist'[q].lost
    BY <1>7, <2>2, <2>7
  <2> QED BY <1>1, <1>3, <1>4, <1>6, <2>2, <2>3, <2>4, <2>5, <2>6, <2>7, QueueStep
<1> QED BY <1>8, <1>9, <1>10

\* The stuck-job sweep fails a job that waits for the end of a grace period.
LEMMA DetectStuckJobStep ==
    ASSUME IInv, NEW r \in Requests, NEW d \in Later, DetectStuckJob(r, d)
    PROVE  IInv'
<1>1. /\ jobs \in [Requests -> [Later -> 0..MaxJobs]] /\ ses \in [Sessions -> Session]
      /\ faults \in 0..MaxFaults /\ MaxFaults \in Nat /\ MaxJobs \in Nat
  BY RemediationAssumption DEF IInv, TypeOK
<1>2. PICK n : n = jobs[r][d] - 1
  OBVIOUS
<1>3. /\ jobs[r][d] > 0 /\ jobs' = [jobs EXCEPT ![r][d] = n] /\ faults' \in 0..MaxFaults
      /\ UNCHANGED <<day, row, ses, calls>> /\ hist' = [hist EXCEPT ![r].lost = TRUE]
  BY <1>1, <1>2 DEF DetectStuckJob, Fault
<1>4. n \in 0..MaxJobs
  <2>1. jobs[r][d] \in 0..MaxJobs
    BY <1>1
  <2> QED BY <1>1, <1>2, <1>3, <2>1
<1>5. row[r].status # "absent"
  BY <1>3 DEF IInv, JobsHaveRows
<1>6. /\ hist' \in [Requests -> History] /\ hist'[r].lost
      /\ \A q \in Requests :
           /\ hist'[q].runs = hist[q].runs /\ hist'[q].approvedOn = hist[q].approvedOn
           /\ hist'[q].rejected = hist[q].rejected
           /\ hist'[q].unreviewed = hist[q].unreviewed
           /\ hist'[q].outdated = hist[q].outdated
           /\ hist[q].lost => hist'[q].lost
  BY <1>3, Lost
<1>7. \A t \in Sessions : ses'[t] = ses[t]
  BY <1>3
<1> QED BY <1>1, <1>3, <1>4, <1>5, <1>6, <1>7, QueueStep

-----------------------------------------------------------------------------
(***************************************************************************)
(* Invariance and the theorems.                                            *)
(***************************************************************************)

LEMMA InitIInv == Init => IInv
<1> SUFFICES ASSUME Init PROVE IInv
  OBVIOUS
<1>1. /\ MaxGrace \in Nat /\ MaxDay \in Nat \ {0} /\ MaxJobs \in Nat
      /\ MaxCalls \in Nat /\ MaxFaults \in Nat /\ 0 \in Later
  BY RemediationAssumption DEF Later
<1>2. NoHistory \in History /\ NoHistory.runs = 0 /\ NoHistory.approvedOn = 0
  BY <1>1 DEF NoHistory, History, Never
<1>3. ~NoHistory.rejected /\ ~NoHistory.unreviewed
  BY DEF NoHistory
<1>4. Idle \in Session /\ Idle.step = "idle"
  BY <1>1, FirstRows DEF Idle, Session, Step, Never
<1>5. /\ row \in [Requests -> Row]
      /\ \A r \in Requests : row[r].status # "scheduled" /\ row[r].scheduledAt = 0
  BY FirstRows DEF Init
<1>6. /\ jobs \in [Requests -> [Later -> 0..MaxJobs]]
      /\ \A r \in Requests, d \in Later : ~(jobs[r][d] > 0)
  BY <1>1 DEF Init
<1>7. /\ ses \in [Sessions -> Session] /\ \A s \in Sessions : ses[s].step = "idle"
      /\ hist \in [Requests -> History] /\ \A r \in Requests : hist[r] = NoHistory
      /\ day = 1 /\ calls = 0 /\ faults = 0
  BY <1>2, <1>4 DEF Init
<1>8. TypeOK
  BY <1>1, <1>5, <1>6, <1>7 DEF TypeOK, Days
<1>9. RequestsLawful
  BY <1>2, <1>3, <1>5, <1>7 DEF RequestsLawful, Lawful
<1>10. SessionsLawful
  BY <1>7 DEF SessionsLawful
<1>11. DatesAdvance
  <2>1. ASSUME NEW r \in Requests
        PROVE  row[r].scheduledAt <= day + Grace[r]
    <3>1. Grace[r] \in 1..MaxGrace
      BY RemediationAssumption
    <3> QED BY <1>1, <1>5, <1>7, <3>1
  <2> QED BY <1>7, <2>1 DEF DatesAdvance
<1>12. Awaited /\ JobsHaveRows
  BY <1>5, <1>6 DEF Awaited, JobsHaveRows
<1> QED BY <1>8, <1>9, <1>10, <1>11, <1>12 DEF IInv

LEMMA NextIInv ==
    ASSUME IInv, [Next]_vars
    PROVE  IInv'
<1>1. ASSUME NEW r \in Requests, CreateRequest(r) PROVE IInv'
  BY <1>1, CreateRequestStep
<1>2. ASSUME NEW r \in Requests, Reject(r) PROVE IInv'
  BY <1>2, RejectStep
<1>3. ASSUME NEW s \in Sessions, NEW r \in Requests, NEW b \in BOOLEAN,
             \/ AutopilotCreate(s, r) \/ LoadToApprove(s, r)
             \/ HardLimitSelect(s, r) \/ LoadToExecute(s, r, b)
      PROVE  IInv'
  BY <1>3, OpenSteps
<1>4. ASSUME NEW s \in Sessions, NEW role \in Roles, Approve(s, role)
      PROVE  IInv'
  BY <1>4, ApproveStep
<1>5. ASSUME NEW s \in Sessions, HardLimitApprove(s) PROVE IInv'
  BY <1>5, HardLimitApproveStep
<1>6. ASSUME NEW s \in Sessions, NEW r \in Requests, NEW d \in Days, StartJob(s, r, d)
      PROVE  IInv'
  BY <1>6, StartJobStep
<1>7. ASSUME NEW s \in Sessions, ExecuteSome(s) PROVE IInv'
  BY <1>7, ExecuteStep DEF ExecuteSome
<1>8. ASSUME NEW s \in Sessions, EnqueueJob(s) \/ AbortJob(s) \/ Crash(s) PROVE IInv'
  BY <1>8, EndSteps
<1>9. ASSUME NEW s \in Sessions, NEW o \in {"success", "failure", "late"}, FinishRun(s, o)
      PROVE  IInv'
  BY <1>9, FinishRunStep
<1>10. ASSUME NEW r \in Requests, NEW d \in Later, DetectStuckJob(r, d) PROVE IInv'
  BY <1>10, DetectStuckJobStep
<1>11. CASE Tick
  BY <1>11, TickStep
<1>12. CASE UNCHANGED vars
  BY <1>12 DEF vars, IInv, TypeOK, RequestsLawful, SessionsLawful, DatesAdvance, Awaited,
               Cares, JobsHaveRows
<1>13. ASSUME NEW s \in Sessions, NEW r \in Requests, AutopilotCreate(s, r) PROVE IInv'
  <2>1. TRUE \in BOOLEAN
    OBVIOUS
  <2> QED BY <1>3, <1>13, <2>1
<1>14. ASSUME NEW s \in Sessions, NEW r \in Requests, LoadToApprove(s, r) PROVE IInv'
  <2>1. TRUE \in BOOLEAN
    OBVIOUS
  <2> QED BY <1>3, <1>14, <2>1
<1>15. ASSUME NEW s \in Sessions, NEW r \in Requests, HardLimitSelect(s, r) PROVE IInv'
  <2>1. TRUE \in BOOLEAN
    OBVIOUS
  <2> QED BY <1>3, <1>15, <2>1
<1>16. ASSUME NEW s \in Sessions, EnqueueFails(s) PROVE IInv'
  BY <1>16, FailStep DEF EnqueueFails
<1> QED BY <1>1, <1>2, <1>3, <1>4, <1>5, <1>6, <1>7, <1>8, <1>9, <1>10, <1>11, <1>12, <1>13,
           <1>14, <1>15, <1>16 DEF Next

\* The inductive invariant holds in every reachable state.
THEOREM Invariance == Spec => []IInv
<1>1. Init => IInv
  BY InitIInv
<1>2. IInv /\ [Next]_vars => IInv'
  BY NextIInv
<1> QED BY <1>1, <1>2, PTL DEF Spec

\* Rows, session copies, queued jobs and the history have the types of their
\* columns in every reachable state (models/remediation.py).
THEOREM TypeCorrect == Spec => []TypeOK
<1>1. IInv => TypeOK
  BY DEF IInv
<1> QED BY <1>1, Invariance, PTL

\* No mix of API calls, jobs, autopilot, hard limit, aborted jobs and crashes runs
\* a request twice, unless a session decides on an outdated copy of its row
\* (execute_remediation_request).
THEOREM RunsOnce == Spec => []RunsAtMostOnce
<1>1. IInv => RunsAtMostOnce
  BY DEF IInv, RequestsLawful, Lawful, RunsAtMostOnce
<1> QED BY <1>1, Invariance, PTL

\* What runs was not rejected, is past the grace period counted from its last
\* approval, and was approved by an owner if the policy had escalated it, with the
\* same exception (approve_request, reject_request, execute_remediation_request).
THEOREM ReviewHeld == Spec => []ReviewRespected
<1>1. ASSUME IInv PROVE RejectedNeverRuns
  BY <1>1 DEF IInv, RequestsLawful, Lawful, RejectedNeverRuns
<1>2. ASSUME IInv PROVE GraceRespected
  BY <1>2 DEF IInv, SessionsLawful, GraceRespected
<1>3. ASSUME IInv PROVE EscalationReviewed
  <2> SUFFICES ASSUME NEW s \in Sessions, ses[s].step = "running",
                      ~hist[ses[s].r].outdated
               PROVE  ~hist[ses[s].r].unreviewed
    BY DEF EscalationReviewed
  <2>1. ses[s].r \in Requests /\ hist[ses[s].r].runs = 1
    BY <1>3 DEF IInv, SessionsLawful
  <2>2. Lawful(row[ses[s].r], hist[ses[s].r], ses[s].r, day)
    BY <1>3, <2>1 DEF IInv, RequestsLawful
  <2> QED BY <2>1, <2>2 DEF Lawful
<1>4. IInv => ReviewRespected
  BY <1>1, <1>2, <1>3 DEF ReviewRespected
<1> QED BY <1>4, Invariance, PTL

\* A request in its grace period has the job that will end it queued, or a session
\* that is about to queue or is running it, unless a fault took it
\* (maybe_schedule_grace_period_execution commits SCHEDULED before the job).
THEOREM GraceHasJob == Spec => []GracePeriodHasJob
<1>1. IInv => GracePeriodHasJob
  BY DEF IInv, Awaited, Cares, GracePeriodHasJob
<1> QED BY <1>1, Invariance, PTL


-----------------------------------------------------------------------------
(***************************************************************************)
(* The kill switch.                                                        *)
(***************************************************************************)

Saved(A) == SumFunctionOnSet(Savings, A)

LEMMA SavedFacts ==
    ASSUME NEW A \in SUBSET Requests
    PROVE  /\ Saved(A) \in Nat
           /\ \A B \in SUBSET A : Saved(B) \in Nat /\ Saved(B) <= Saved(A)
           /\ \A r \in A : Saved(A) = Savings[r] + Saved(A \ {r})
<1>1. IsFiniteSet(A) /\ \A x \in A : Savings[x] \in Nat
  BY RemediationAssumption, FS_Subset
<1>2. \A x \in A : Savings[x] \in Int
  BY <1>1
<1>3. Saved(A) \in Nat
  BY <1>1, SumNat DEF Saved
<1>4. \A r \in A : Saved(A) = Savings[r] + Saved(A \ {r})
  BY <1>1, <1>2, SumRemove DEF Saved
<1>5. ASSUME NEW B \in SUBSET A PROVE Saved(B) \in Nat /\ Saved(B) <= Saved(A)
  <2>1. IsFiniteSet(B) /\ \A x \in B : Savings[x] \in Nat
    BY <1>1, FS_Subset
  <2>2. Saved(B) \in Nat
    BY <2>1, SumNat DEF Saved
  <2>3. Saved(B) <= Saved(A)
    BY <1>1, SumSubset DEF Saved
  <2> QED BY <2>2, <2>3
<1> QED BY <1>3, <1>4, <1>5

LEMMA ThresholdFacts ==
    /\ Threshold \in Nat /\ Threshold > 0 /\ \A r \in Requests : Savings[r] \in Nat
BY RemediationAssumption

\* Fewer sums, fewer savings.
LEMMA SavedBelow ==
    ASSUME NEW A \in SUBSET Requests, NEW B \in SUBSET A, NEW n \in Nat,
           Saved(A) + n < Threshold
    PROVE  Saved(B) + n < Threshold
<1>1. PICK a \in Nat, b \in Nat, h \in Nat :
         a = Saved(A) /\ b = Saved(B) /\ b <= a /\ h = Threshold
  BY SavedFacts, ThresholdFacts
<1>2. a + n < h
  BY <1>1
<1>3. b + n < h
  BY <1>1, <1>2
<1> QED BY <1>1, <1>3

LEMMA SavedBelowAll ==
    ASSUME NEW A \in SUBSET Requests, NEW B \in SUBSET A, Saved(A) < Threshold
    PROVE  Saved(B) < Threshold
<1>1. PICK a \in Nat, b \in Nat, h \in Nat :
         a = Saved(A) /\ b = Saved(B) /\ b <= a /\ h = Threshold
  BY SavedFacts, ThresholdFacts
<1> QED BY <1>1

\* A step that completes no request, begins no run, and leaves the notes on overlaps.
LEMMA ImpactStays ==
    ASSUME IInv, ImpactHeld, day' = day,
           \A q \in Requests : hist'[q].overlapped = hist[q].overlapped,
           \A q \in Requests :
              /\ row'[q].executedAt <= day
              /\ (row'[q].status = "completed" /\ row'[q].executedAt = day)
                   => row[q].status = "completed" /\ row[q].executedAt = day,
           \A t \in Sessions : ses'[t].step = "running" => ses'[t] = ses[t]
    PROVE  ImpactHeld'
<1>1. Sole' \subseteq Sole /\ Sole \subseteq Requests
  BY DEF Sole
<1>2. SumFunctionOnSet(Savings, Sole') < Threshold
  <2>1. Saved(Sole) < Threshold
    BY DEF ImpactHeld, Saved
  <2>2. Saved(Sole') < Threshold
    BY <1>1, <2>1, SavedBelowAll
  <2> QED BY <2>2 DEF Saved
<1>3. ASSUME NEW t \in Sessions, ses'[t].step = "running"
      PROVE  /\ ses'[t].mem.status = "executing"
             /\ \/ hist'[ses'[t].r].overlapped
                \/ SumFunctionOnSet(Savings, Sole' \ {ses'[t].r}) + Savings[ses'[t].r] < Threshold
  <2>1. ses'[t] = ses[t] /\ ses[t].step = "running"
    BY <1>3
  <2>2. PICK q \in Requests : q = ses[t].r
    BY <2>1 DEF IInv, SessionsLawful
  <2>3. /\ ses[t].mem.status = "executing"
        /\ hist[q].overlapped \/ Saved(Sole \ {q}) + Savings[q] < Threshold
    BY <2>1, <2>2 DEF ImpactHeld, Saved
  <2>4. CASE hist[q].overlapped
    BY <2>1, <2>2, <2>3, <2>4
  <2>5. CASE Saved(Sole \ {q}) + Savings[q] < Threshold
    <3>1. Sole \ {q} \in SUBSET Requests /\ Sole' \ {q} \in SUBSET (Sole \ {q})
          /\ Savings[q] \in Nat
      BY <1>1, ThresholdFacts
    <3>2. Saved(Sole' \ {q}) + Savings[q] < Threshold
      BY <2>5, <3>1, SavedBelow
    <3> QED BY <2>1, <2>2, <2>3, <3>2 DEF Saved
  <2> QED BY <2>3, <2>4, <2>5
<1>4. ASSUME NEW t \in Sessions, NEW u \in Sessions, t # u,
             ses'[t].step = "running", ses'[u].step = "running"
      PROVE  hist'[ses'[t].r].overlapped \/ hist'[ses'[u].r].overlapped
  <2>1. /\ ses'[t] = ses[t] /\ ses[t].step = "running"
        /\ ses'[u] = ses[u] /\ ses[u].step = "running"
    BY <1>4
  <2>2. ses[t].r \in Requests /\ ses[u].r \in Requests
    BY <2>1 DEF IInv, SessionsLawful
  <2>3. hist[ses[t].r].overlapped \/ hist[ses[u].r].overlapped
    BY <1>4, <2>1 DEF ImpactHeld
  <2> QED BY <2>1, <2>2, <2>3
<1>5. \A q \in Requests : row'[q].executedAt <= day'
  OBVIOUS
<1> QED BY <1>2, <1>3, <1>4, <1>5 DEF ImpactHeld

\* A commit that does not complete the request.
LEMMA Wrote ==
    ASSUME IInv, ImpactHeld, NEW s \in Sessions, ses[s].step # "idle",
           NEW new \in Row, Commit(s, new), new.status # "completed",
           \/ new.executedAt = ses[s].mem.executedAt
           \/ new.executedAt = day /\ new.status # ses[s].mem.status
    PROVE  \A q \in Requests :
              /\ row'[q].executedAt <= day
              /\ (row'[q].status = "completed" /\ row'[q].executedAt = day)
                   => row[q].status = "completed" /\ row[q].executedAt = day
<1>1. PICK r \in Requests : r = ses[s].r
  BY SessionFacts
<1>2. /\ ses[s].mem \in Row /\ row[r] \in Row /\ row \in [Requests -> Row] /\ day \in Nat
  BY <1>1, SessionFacts DEF IInv, TypeOK
<1> DEFINE f == Flush(row[r], ses[s].mem, new)
<1>3. row' = [row EXCEPT ![r] = f]
  BY <1>1, <1>2 DEF Commit
<1>4. /\ f.status = IF new.status = ses[s].mem.status THEN row[r].status ELSE new.status
      /\ f.executedAt = IF new.executedAt = ses[s].mem.executedAt
                          THEN row[r].executedAt ELSE new.executedAt
  <2>1. DOMAIN row[r] = {"status", "escalated", "scheduledAt", "executedAt"}
    BY <1>2 DEF Row
  <2> QED BY <2>1 DEF Flush
<1> HIDE DEF f
<1>5. \A q \in Requests : row[q].executedAt <= day
  BY DEF ImpactHeld
<1>6. row'[r] = f /\ \A q \in Requests : q # r => row'[q] = row[q]
  BY <1>2, <1>3
<1>7. day <= day
  BY <1>2
<1>8. f.executedAt <= day
  BY <1>4, <1>5, <1>7
<1>9. (f.status = "completed" /\ f.executedAt = day)
        => row[r].status = "completed" /\ row[r].executedAt = day
  BY <1>4
<1> QED BY <1>5, <1>6, <1>8, <1>9

\* A note that does not mention overlaps.
LEMMA NotedOverlap ==
    ASSUME IInv, NEW s \in Sessions, NEW r \in Requests, NEW h \in History, Note(r, s, h)
    PROVE  /\ hist'[r].overlapped = h.overlapped
           /\ \A q \in Requests : q # r => hist'[q] = hist[q]
<1> DEFINE g == [NoHistory EXCEPT !.outdated = TRUE, !.lost = h.lost,
                                  !.overlapped = h.overlapped]
           x == IF h.outdated \/ row[r] # ses[s].mem THEN g ELSE h
<1>1. hist \in [Requests -> History]
  BY DEF IInv, TypeOK
<1>2. NoHistory \in History
  BY RemediationAssumption DEF NoHistory, History, Later, Never
<1>3. g.overlapped = h.overlapped
  BY <1>2 DEF History
<1>4. hist' = [hist EXCEPT ![r] = x]
  BY DEF Note
<1> HIDE DEF g
<1>5. x.overlapped = h.overlapped
  BY <1>3
<1> HIDE DEF x
<1> QED BY <1>1, <1>4, <1>5


\* A transaction that writes new, notes h, and ends in x, which is not running.
LEMMA ImpactAfterWrite ==
    ASSUME IInv, ImpactHeld, NEW s \in Sessions, ses[s].step # "idle",
           NEW new \in Row, Commit(s, new), new.status # "completed",
           new.executedAt = ses[s].mem.executedAt,
           NEW h \in History, Note(ses[s].r, s, h), h.overlapped = hist[ses[s].r].overlapped,
           NEW x, ses' = [ses EXCEPT ![s] = x], x.step # "running", day' = day
    PROVE  ImpactHeld'
<1>1. PICK r \in Requests : r = ses[s].r
  BY SessionFacts
<1>2. \A q \in Requests : hist'[q].overlapped = hist[q].overlapped
  BY <1>1, NotedOverlap
<1>3. \A q \in Requests :
         /\ row'[q].executedAt <= day
         /\ (row'[q].status = "completed" /\ row'[q].executedAt = day)
              => row[q].status = "completed" /\ row[q].executedAt = day
  BY Wrote
<1>4. \A t \in Sessions : ses'[t].step = "running" => ses'[t] = ses[t]
  BY DEF IInv, TypeOK
<1> QED BY <1>2, <1>3, <1>4, ImpactStays

\* A step that leaves the rows alone, or creates one.
LEMMA ImpactNoWrite ==
    ASSUME IInv, ImpactHeld, day' = day,
           \A q \in Requests : hist'[q].overlapped = hist[q].overlapped,
           \A q \in Requests : row'[q] = row[q] \/ row'[q] = NewRow,
           \A t \in Sessions : ses'[t].step = "running" => ses'[t] = ses[t]
    PROVE  ImpactHeld'
<1>1. ASSUME NEW q \in Requests
      PROVE  /\ row'[q].executedAt <= day
             /\ (row'[q].status = "completed" /\ row'[q].executedAt = day)
                  => row[q].status = "completed" /\ row[q].executedAt = day
  <2>1. CASE row'[q] = row[q]
    BY <2>1 DEF ImpactHeld
  <2>2. CASE row'[q] = NewRow
    <3>1. NewRow.status = "pending" /\ NewRow.executedAt = 0
      BY DEF NewRow, NoRow, Never
    <3>2. day \in Nat
      BY DEF IInv, TypeOK, Days
    <3> QED BY <2>2, <3>1, <3>2
  <2> QED BY <2>1, <2>2
<1> QED BY <1>1, ImpactStays

\* What a session that opens, moves or closes becomes.
LEMMA NotRunning ==
    ASSUME IInv, NEW s \in Sessions, NEW x, ses' = [ses EXCEPT ![s] = x], x.step # "running"
    PROVE  \A t \in Sessions : ses'[t].step = "running" => ses'[t] = ses[t]
BY DEF IInv, TypeOK

LEMMA IdleNotRunning == Idle.step = "idle"
BY DEF Idle

LEMMA ImpactOpen ==
    ASSUME IInv, ImpactHeld, NEW s \in Sessions, NEW r \in Requests, NEW b \in BOOLEAN,
           NEW d \in Days,
           \/ AutopilotCreate(s, r) \/ LoadToApprove(s, r)
           \/ HardLimitSelect(s, r) \/ LoadToExecute(s, r, b) \/ StartJob(s, r, d)
    PROVE  ImpactHeld'
<1>1. day' = day /\ hist' = hist
  BY DEF AutopilotCreate, LoadToApprove, HardLimitSelect, LoadToExecute, StartJob
<1>2. \A q \in Requests : row'[q] = row[q] \/ row'[q] = NewRow
  <2>1. row \in [Requests -> Row]
    BY DEF IInv, TypeOK
  <2>2. row' = row \/ row' = [row EXCEPT ![r] = NewRow]
    BY DEF AutopilotCreate, LoadToApprove, HardLimitSelect, LoadToExecute, StartJob
  <2> QED BY <2>1, <2>2
<1>3. \A t \in Sessions : ses'[t].step = "running" => ses'[t] = ses[t]
  <2>1. CASE ses' = ses
    BY <2>1
  <2>2. CASE ses' # ses
    <3>1. \E x : ses' = [ses EXCEPT ![s] = x] /\ x.step # "running"
      <4>1. CASE AutopilotCreate(s, r)
        <5> DEFINE x == [Idle EXCEPT !.step = "approve", !.r = r, !.mem = NewRow,
                                     !.then = TRUE, !.bypass = Bypass]
        <5>1. ses' = [ses EXCEPT ![s] = x] /\ x.step = "approve"
          BY <4>1 DEF AutopilotCreate, Idle
        <5> HIDE DEF x
        <5> QED BY <5>1
      <4>2. CASE LoadToApprove(s, r)
        <5> DEFINE x == [Idle EXCEPT !.step = "approve", !.r = r, !.mem = row[r]]
        <5>1. ses' = [ses EXCEPT ![s] = x] /\ x.step = "approve"
          BY <4>2 DEF LoadToApprove, Idle
        <5> HIDE DEF x
        <5> QED BY <5>1
      <4>3. CASE HardLimitSelect(s, r)
        <5> DEFINE x == [Idle EXCEPT !.step = "override", !.r = r, !.mem = row[r],
                                     !.bypass = Bypass]
        <5>1. ses' = [ses EXCEPT ![s] = x] /\ x.step = "override"
          BY <4>3 DEF HardLimitSelect, Idle
        <5> HIDE DEF x
        <5> QED BY <5>1
      <4>4. CASE LoadToExecute(s, r, b)
        <5> DEFINE x == [Idle EXCEPT !.step = "execute", !.r = r, !.mem = row[r],
                                     !.bypass = b]
        <5>1. ses' = [ses EXCEPT ![s] = x] /\ x.step = "execute"
          BY <4>4 DEF LoadToExecute, Idle
        <5> HIDE DEF x
        <5> QED BY <5>1
      <4>5. CASE StartJob(s, r, d)
        <5> DEFINE x == [Idle EXCEPT !.step = "execute", !.r = r, !.mem = row[r], !.job = d]
        <5>1. ses' = [ses EXCEPT ![s] = x] /\ x.step = "execute"
          BY <2>2, <4>5 DEF StartJob, Idle
        <5> HIDE DEF x
        <5> QED BY <5>1
      <4> QED BY <4>1, <4>2, <4>3, <4>4, <4>5
    <3> QED BY <3>1, NotRunning
  <2> QED BY <2>1, <2>2
<1> QED BY <1>1, <1>2, <1>3, ImpactNoWrite

LEMMA ImpactCreate ==
    ASSUME IInv, ImpactHeld, NEW r \in Requests, CreateRequest(r)
    PROVE  ImpactHeld'
<1>1. /\ day' = day /\ hist' = hist /\ ses' = ses
      /\ \A q \in Requests : row'[q] = row[q] \/ row'[q] = NewRow
  BY DEF CreateRequest, IInv, TypeOK
<1> QED BY <1>1, ImpactNoWrite

LEMMA ImpactReject ==
    ASSUME IInv, ImpactHeld, NEW r \in Requests, Reject(r)
    PROVE  ImpactHeld'
<1>1. row \in [Requests -> Row] /\ hist \in [Requests -> History]
  BY DEF IInv, TypeOK
<1>2. row[r] \in Row /\ hist[r] \in History
  BY <1>1
<1> DEFINE w == [row[r] EXCEPT !.status = "rejected", !.escalated = FALSE]
           h == [hist[r] EXCEPT !.rejected = TRUE, !.unreviewed = FALSE]
<1>3. w.status = "rejected" /\ w.executedAt = row[r].executedAt /\ h.overlapped = hist[r].overlapped
  BY <1>2 DEF Row, History
<1>4. row' = [row EXCEPT ![r] = w] /\ hist' = [hist EXCEPT ![r] = h]
  BY <1>1 DEF Reject
<1> HIDE DEF w, h
<1>5. \A q \in Requests : hist'[q].overlapped = hist[q].overlapped
  BY <1>1, <1>3, <1>4
<1>6. \A q \in Requests :
         /\ row'[q].executedAt <= day
         /\ (row'[q].status = "completed" /\ row'[q].executedAt = day)
              => row[q].status = "completed" /\ row[q].executedAt = day
  BY <1>1, <1>3, <1>4 DEF ImpactHeld
<1>7. day' = day /\ ses' = ses
  BY DEF Reject
<1> QED BY <1>5, <1>6, <1>7, ImpactStays

LEMMA ImpactEnd ==
    ASSUME IInv, ImpactHeld, NEW s \in Sessions, EnqueueJob(s) \/ AbortJob(s) \/ Crash(s)
    PROVE  ImpactHeld'
<1>1. day' = day /\ row' = row /\ ses' = [ses EXCEPT ![s] = Idle] /\ ses[s].step # "idle"
  BY DEF EnqueueJob, AbortJob, Crash, Close
<1>2. PICK r \in Requests : r = ses[s].r
  BY <1>1, SessionFacts
<1>3. hist \in [Requests -> History]
  BY DEF IInv, TypeOK
<1>4. \/ hist' = hist
      \/ \E l \in BOOLEAN : hist' = [hist EXCEPT ![r].lost = l]
  <2>1. CASE EnqueueJob(s)
    BY <2>1 DEF EnqueueJob
  <2>2. CASE AbortJob(s)
    <3>1. PICK l \in BOOLEAN : l = (hist[r].lost \/ ses[s].step = "enqueue")
      OBVIOUS
    <3>2. hist' = [hist EXCEPT ![r].lost = l]
      BY <1>2, <1>3, <2>2, <3>1 DEF AbortJob
    <3> QED BY <3>2
  <2>3. CASE Crash(s)
    <3>1. hist' = [hist EXCEPT ![r].lost = TRUE]
      BY <1>2, <2>3 DEF Crash
    <3> QED BY <3>1
  <2> QED BY <2>1, <2>2, <2>3
<1>5. \A q \in Requests : hist'[q].overlapped = hist[q].overlapped
  BY <1>3, <1>4 DEF History
<1>6. \A t \in Sessions : ses'[t].step = "running" => ses'[t] = ses[t]
  BY <1>1, NotRunning, IdleNotRunning
<1>7. \A q \in Requests : row'[q] = row[q] \/ row'[q] = NewRow
  BY <1>1
<1> QED BY <1>1, <1>5, <1>6, <1>7, ImpactNoWrite

LEMMA ImpactDetect ==
    ASSUME IInv, ImpactHeld, NEW r \in Requests, NEW d \in Later, DetectStuckJob(r, d)
    PROVE  ImpactHeld'
<1>1. day' = day /\ row' = row /\ ses' = ses /\ hist' = [hist EXCEPT ![r].lost = TRUE]
  BY DEF DetectStuckJob
<1>2. \A q \in Requests : hist'[q].overlapped = hist[q].overlapped
  BY <1>1 DEF IInv, TypeOK, History
<1> QED BY <1>1, <1>2, ImpactNoWrite

LEMMA ImpactTick ==
    ASSUME IInv, ImpactHeld, Tick
    PROVE  ImpactHeld'
<1>1. day' = day + 1 /\ row' = row /\ ses' = ses /\ hist' = hist
  BY DEF Tick
<1>2. day \in Nat /\ row \in [Requests -> Row]
  BY DEF IInv, TypeOK, Days
<1>3. \A q \in Requests : row[q].executedAt \in Nat /\ row[q].executedAt <= day
  <2>1. \A q \in Requests : row[q].executedAt \in Later
    BY <1>2 DEF Row
  <2> QED BY <2>1 DEF ImpactHeld, Later
<1>4. \A q \in Requests : row'[q].executedAt <= day' /\ row'[q].executedAt # day'
  BY <1>1, <1>2, <1>3
<1>5. Sole' = {}
  BY <1>4 DEF Sole
<1>6. Saved({}) = 0
  BY FS_EmptySet, SumUnfold DEF Saved
<1>7. SumFunctionOnSet(Savings, Sole') < Threshold
  BY <1>5, <1>6, ThresholdFacts DEF Saved
<1>8. ASSUME NEW t \in Sessions, ses'[t].step = "running"
      PROVE  /\ ses'[t].mem.status = "executing"
             /\ \/ hist'[ses'[t].r].overlapped
                \/ SumFunctionOnSet(Savings, Sole' \ {ses'[t].r}) + Savings[ses'[t].r] < Threshold
  <2>1. ses[t].step = "running"
    BY <1>1, <1>8
  <2>2. PICK q \in Requests : q = ses[t].r
    BY <2>1 DEF IInv, SessionsLawful
  <2>3. /\ ses[t].mem.status = "executing"
        /\ hist[q].overlapped \/ Saved(Sole \ {q}) + Savings[q] < Threshold
    BY <2>1, <2>2 DEF ImpactHeld, Saved
  <2>4. Saved(Sole \ {q}) + Savings[q] < Threshold => 0 + Savings[q] < Threshold
    <3>1. Sole \ {q} \in SUBSET Requests /\ {} \in SUBSET (Sole \ {q}) /\ Savings[q] \in Nat
      BY ThresholdFacts DEF Sole
    <3>2. Saved(Sole \ {q}) + Savings[q] < Threshold => Saved({}) + Savings[q] < Threshold
      BY <3>1, SavedBelow
    <3> QED BY <1>6, <3>2
  <2>5. Sole' \ {q} = {}
    BY <1>5
  <2> QED BY <1>1, <1>6, <2>2, <2>3, <2>4, <2>5 DEF Saved
<1>9. ASSUME NEW t \in Sessions, NEW u \in Sessions, t # u,
             ses'[t].step = "running", ses'[u].step = "running"
      PROVE  hist'[ses'[t].r].overlapped \/ hist'[ses'[u].r].overlapped
  BY <1>1, <1>9 DEF ImpactHeld
<1> QED BY <1>4, <1>7, <1>8, <1>9 DEF ImpactHeld


LEMMA ImpactApprove ==
    ASSUME IInv, ImpactHeld, NEW s \in Sessions, NEW role \in Roles,
           Approve(s, role)
    PROVE  ImpactHeld'
<1>1. PICK r \in Requests : r = ses[s].r
  BY SessionFacts DEF Approve
<1> DEFINE mem == ses[s].mem
           new == [mem EXCEPT !.status = "approved", !.escalated = FALSE]
<1>2. /\ mem \in Row /\ hist[r] \in History /\ day \in Days
      /\ ses[s].step = "approve" /\ ses[s].step # "idle" /\ day' = day
  BY <1>1, SessionFacts DEF Approve, IInv, TypeOK
<1>3. CASE MayApprove(mem, role)
  <2>1. PICK u \in BOOLEAN : u = (hist[r].unreviewed /\ role \notin EscalationRoles)
    OBVIOUS
  <2> DEFINE h == [hist[r] EXCEPT !.approvedOn = day, !.unreviewed = u]
             x == IF ses[s].then THEN [ses[s] EXCEPT !.step = "execute", !.mem = row'[r]]
                                 ELSE Idle
  <2>2. /\ new \in Row /\ new.status = "approved" /\ new.executedAt = mem.executedAt
    BY <1>2 DEF Row, Status
  <2>3. h \in History /\ h.overlapped = hist[r].overlapped
    <3>1. day \in Later
      BY <1>2, RemediationAssumption DEF Days, Later
    <3> QED BY <1>2, <3>1 DEF History
  <2>4. x.step # "running"
    <3>1. ses[s] \in Session
      BY DEF IInv, TypeOK
    <3> QED BY <3>1, IdleNotRunning DEF Session
  <2>5. Commit(s, new) /\ ses' = [ses EXCEPT ![s] = x]
    BY <1>1, <1>3 DEF Approve
  <2>6. Note(ses[s].r, s, h)
    <3>1. Note(r, s, [hist[r] EXCEPT !.approvedOn = day, !.unreviewed = @ /\ role \notin EscalationRoles])
      BY <1>1, <1>3 DEF Approve
    <3>2. [hist[r] EXCEPT !.approvedOn = day, !.unreviewed = @ /\ role \notin EscalationRoles] = h
      BY <2>1
    <3> QED BY <1>1, <3>1, <3>2
  <2> HIDE DEF new, h, x
  <2> QED BY <1>1, <1>2, <2>2, <2>3, <2>4, <2>5, <2>6, ImpactAfterWrite
<1>4. CASE ~MayApprove(mem, role)
  <2>1. row' = row /\ hist' = hist /\ ses' = [ses EXCEPT ![s] = Idle]
    BY <1>4 DEF Approve, Close
  <2>2. \A t \in Sessions : ses'[t].step = "running" => ses'[t] = ses[t]
    BY <2>1, NotRunning, IdleNotRunning
  <2> QED BY <1>2, <2>1, <2>2, ImpactNoWrite
<1> QED BY <1>3, <1>4

LEMMA ImpactHardLimit ==
    ASSUME IInv, ImpactHeld, NEW s \in Sessions, HardLimitApprove(s)
    PROVE  ImpactHeld'
<1>1. PICK r \in Requests : r = ses[s].r
  BY SessionFacts DEF HardLimitApprove
<1> DEFINE mem == ses[s].mem
           new == [mem EXCEPT !.status = "approved"]
           h == [hist[r] EXCEPT !.approvedOn = day]
           x == [ses[s] EXCEPT !.step = "execute", !.mem = new]
<1>2. /\ mem \in Row /\ hist[r] \in History /\ day \in Days /\ ses[s].step # "idle"
      /\ day' = day /\ ses \in [Sessions -> Session] /\ ses[s] \in Session
  BY <1>1, SessionFacts DEF HardLimitApprove, IInv, TypeOK
<1>3. /\ new \in Row /\ new.status = "approved" /\ new.executedAt = mem.executedAt
  BY <1>2 DEF Row, Status
<1>4. h \in History /\ h.overlapped = hist[r].overlapped
  <2>1. day \in Later
    BY <1>2, RemediationAssumption DEF Days, Later
  <2> QED BY <1>2, <2>1 DEF History
<1>5. x.step # "running"
  BY <1>2 DEF Session
<1>6. Commit(s, new) /\ ses' = [ses EXCEPT ![s] = x] /\ Note(ses[s].r, s, h)
  BY <1>1, <1>2 DEF HardLimitApprove
<1> HIDE DEF new, h, x
<1> QED BY <1>1, <1>2, <1>3, <1>4, <1>5, <1>6, ImpactAfterWrite

LEMMA ImpactFail ==
    ASSUME IInv, ImpactHeld, NEW s \in Sessions, ses[s].step \in {"execute", "enqueue"},
           Fail(s), day' = day
    PROVE  ImpactHeld'
<1>1. PICK r \in Requests : r = ses[s].r
  BY SessionFacts
<1> DEFINE mem == ses[s].mem
           new == [mem EXCEPT !.status = "failed"]
<1>2. /\ mem \in Row /\ hist[r] \in History /\ ses[s].step # "idle"
  BY <1>1, SessionFacts
<1>3. /\ new \in Row /\ new.status = "failed" /\ new.executedAt = mem.executedAt
  BY <1>2 DEF Row, Status
<1>4. Commit(s, new) /\ ses' = [ses EXCEPT ![s] = Idle] /\ Note(ses[s].r, s, hist[r])
  BY <1>1 DEF Fail, Close
<1>5. Idle.step # "running"
  BY IdleNotRunning
<1> HIDE DEF new
<1> QED BY <1>1, <1>2, <1>3, <1>4, <1>5, ImpactAfterWrite

LEMMA ImpactEscalate ==
    ASSUME IInv, ImpactHeld, NEW s \in Sessions, ses[s].step = "execute", Escalate(s),
           day' = day
    PROVE  ImpactHeld'
<1>1. PICK r \in Requests : r = ses[s].r
  BY SessionFacts
<1> DEFINE mem == ses[s].mem
           new == [mem EXCEPT !.status = "pending_approval", !.escalated = TRUE]
           h == [hist[r] EXCEPT !.unreviewed = TRUE]
<1>2. /\ mem \in Row /\ hist[r] \in History /\ ses[s].step # "idle"
  BY <1>1, SessionFacts
<1>3. /\ new \in Row /\ new.status = "pending_approval" /\ new.executedAt = mem.executedAt
  BY <1>2 DEF Row, Status
<1>4. h \in History /\ h.overlapped = hist[r].overlapped
  BY <1>2 DEF History
<1>5. Commit(s, new) /\ ses' = [ses EXCEPT ![s] = Idle] /\ Note(ses[s].r, s, h)
  BY <1>1 DEF Escalate, Close
<1>6. Idle.step # "running"
  BY IdleNotRunning
<1> HIDE DEF new, h
<1> QED BY <1>1, <1>2, <1>3, <1>4, <1>5, <1>6, ImpactAfterWrite

LEMMA ImpactSchedule ==
    ASSUME IInv, ImpactHeld, NEW s \in Sessions, ses[s].step = "execute", Schedule(s),
           day' = day
    PROVE  ImpactHeld'
<1>1. PICK r \in Requests : r = ses[s].r
  BY SessionFacts
<1> DEFINE mem == ses[s].mem
           new == [mem EXCEPT !.status = "scheduled", !.scheduledAt = day + Grace[r]]
           x == [ses[s] EXCEPT !.step = "enqueue", !.mem = new]
<1>2. /\ mem \in Row /\ hist[r] \in History /\ ses[s].step # "idle"
      /\ ses \in [Sessions -> Session] /\ ses[s] \in Session /\ day + Grace[r] \in Later
  BY <1>1, SessionFacts DEF IInv, TypeOK
<1>3. /\ new \in Row /\ new.status = "scheduled" /\ new.executedAt = mem.executedAt
  <2>1. PICK l \in Later : l = day + Grace[r]
    BY <1>2
  <2>2. new = [mem EXCEPT !.status = "scheduled", !.scheduledAt = l]
    BY <2>1
  <2> HIDE DEF new
  <2> QED BY <1>2, <2>2 DEF Row, Status
<1>4. x.step # "running"
  BY <1>2 DEF Session
<1>5. Commit(s, new) /\ ses' = [ses EXCEPT ![s] = x] /\ Note(ses[s].r, s, hist[r])
  BY <1>1, <1>2 DEF Schedule
<1> HIDE DEF new, x
<1> QED BY <1>1, <1>2, <1>3, <1>4, <1>5, ImpactAfterWrite

\* A run that begins: alone, and then what is completed today leaves room for it; or while
\* another is going on, and then it is noted.
LEMMA ImpactStartRun ==
    ASSUME IInv, ImpactHeld, NEW s \in Sessions, ses[s].step = "execute",
           Executable(ses[s].mem), ~KillSwitch(ses[s].r), StartRun(s), day' = day
    PROVE  ImpactHeld'
<1>1. PICK r \in Requests : r = ses[s].r
  BY SessionFacts
<1> DEFINE mem == ses[s].mem
           new == [mem EXCEPT !.status = "executing"]
           x == [ses[s] EXCEPT !.step = "running", !.mem = new]
<1>2. /\ mem \in Row /\ hist[r] \in History /\ ses[s].step # "idle"
      /\ ses \in [Sessions -> Session] /\ ses[s] \in Session
      /\ mem.status \in {"approved", "scheduled"} /\ row \in [Requests -> Row]
  BY <1>1, SessionFacts DEF IInv, TypeOK, Executable
<1>3. PICK o \in BOOLEAN : o = (\E t \in Sessions : ses[t].step = "running")
  OBVIOUS
<1>4. PICK n \in 0..2 : n = IF hist[r].runs = 2 THEN 2 ELSE hist[r].runs + 1
  <2>1. hist[r].runs \in 0..2
    BY <1>2 DEF History
  <2> QED BY <2>1
<1> DEFINE h == [hist[r] EXCEPT !.runs = n, !.overlapped = o]
<1>5. /\ new \in Row /\ new.status = "executing" /\ new.executedAt = mem.executedAt
  BY <1>2 DEF Row, Status
<1>6. h \in History /\ h.overlapped = o
  BY <1>2 DEF History
<1>7. x.step = "running" /\ x.mem = new /\ x.r = r
  BY <1>1, <1>2 DEF Session
<1>8. Commit(s, new) /\ ses' = [ses EXCEPT ![s] = x]
  BY <1>1, <1>2 DEF StartRun
<1>9. Note(r, s, h)
  <2>1. Note(r, s, [hist[r] EXCEPT !.runs = IF @ = 2 THEN 2 ELSE @ + 1,
                                   !.overlapped = \E t \in Sessions : ses[t].step = "running"])
    BY <1>1 DEF StartRun
  <2>2. [hist[r] EXCEPT !.runs = IF @ = 2 THEN 2 ELSE @ + 1,
                        !.overlapped = \E t \in Sessions : ses[t].step = "running"] = h
    BY <1>3, <1>4
  <2> QED BY <2>1, <2>2
<1> HIDE DEF new, x, h
<1>10. /\ hist'[r].overlapped = o
       /\ \A q \in Requests : q # r => hist'[q] = hist[q]
  BY <1>6, <1>9, NotedOverlap
<1>11. \A q \in Requests :
          /\ row'[q].executedAt <= day
          /\ (row'[q].status = "completed" /\ row'[q].executedAt = day)
               => row[q].status = "completed" /\ row[q].executedAt = day
  BY <1>2, <1>5, <1>8, Wrote
<1>12. row'[r].status = "executing"
  <2> DEFINE f == Flush(row[r], mem, new)
  <2>1. row' = [row EXCEPT ![r] = f]
    BY <1>1, <1>8 DEF Commit
  <2>2. row[r] \in Row
    BY <1>2
  <2>3. f.status = IF new.status = mem.status THEN row[r].status ELSE new.status
    BY <1>2, <1>5, <2>2, FlushRow
  <2> HIDE DEF f
  <2> QED BY <1>2, <1>5, <2>1, <2>3
<1>13. ses'[s] = x /\ \A t \in Sessions : t # s => ses'[t] = ses[t]
  BY <1>2, <1>8
<1> DEFINE D == {q \in Requests : row[q].status = "completed" /\ row[q].executedAt = day}
<1>14. /\ Sole' \subseteq Sole /\ Sole \subseteq Requests /\ Sole' \subseteq D
       /\ D \subseteq Requests /\ r \notin Sole'
  <2>1. r \notin Sole'
    BY <1>12 DEF Sole
  <2>2. Sole' \subseteq Sole
    BY <1>10, <1>11, <2>1 DEF Sole
  <2> QED BY <2>1, <2>2 DEF Sole
<1>15. Saved(D) + Savings[r] < Threshold
  <2>1. TodaysImpact = Saved(D)
    BY DEF TodaysImpact, Saved
  <2>2. ~(TodaysImpact + Savings[r] >= Threshold)
    BY <1>1 DEF KillSwitch
  <2> HIDE DEF D
  <2>3. PICK a \in Nat, b \in Nat, c \in Nat :
           a = Saved(D) /\ b = Savings[r] /\ c = Threshold
    BY <1>14, SavedFacts, ThresholdFacts
  <2>4. ~(a + b >= c)
    BY <2>1, <2>2, <2>3
  <2>5. a + b < c
    BY <2>4
  <2> QED BY <2>3, <2>5
<1> HIDE DEF D
<1>16. SumFunctionOnSet(Savings, Sole') < Threshold
  <2>1. Saved(Sole) < Threshold
    BY DEF ImpactHeld, Saved
  <2>2. Saved(Sole') < Threshold
    BY <1>14, <2>1, SavedBelowAll
  <2> QED BY <2>2 DEF Saved
<1>17. ASSUME NEW t \in Sessions, ses'[t].step = "running"
       PROVE  /\ ses'[t].mem.status = "executing"
              /\ \/ hist'[ses'[t].r].overlapped
                 \/ SumFunctionOnSet(Savings, Sole' \ {ses'[t].r}) + Savings[ses'[t].r] < Threshold
  <2>1. CASE t = s
    <3>1. ses'[t].mem.status = "executing" /\ ses'[t].r = r
      BY <1>5, <1>7, <1>13, <2>1
    <3>2. Sole' \ {r} \in SUBSET D /\ D \in SUBSET Requests /\ Savings[r] \in Nat
      BY <1>14, ThresholdFacts
    <3>3. Saved(Sole' \ {r}) + Savings[r] < Threshold
      BY <1>15, <3>2, SavedBelow
    <3> QED BY <3>1, <3>3 DEF Saved
  <2>2. CASE t # s
    <3>1. ses'[t] = ses[t] /\ ses[t].step = "running"
      BY <1>13, <1>17, <2>2
    <3>2. PICK q \in Requests : q = ses[t].r
      BY <3>1 DEF IInv, SessionsLawful
    <3>3. /\ ses[t].mem.status = "executing"
          /\ hist[q].overlapped \/ Saved(Sole \ {q}) + Savings[q] < Threshold
      BY <3>1, <3>2 DEF ImpactHeld, Saved
    <3>4. o
      BY <1>3, <3>1
    <3>5. CASE hist[q].overlapped \/ q = r
      BY <1>10, <3>1, <3>2, <3>3, <3>4, <3>5
    <3>6. CASE Saved(Sole \ {q}) + Savings[q] < Threshold
      <4>1. Sole \ {q} \in SUBSET Requests /\ Sole' \ {q} \in SUBSET (Sole \ {q})
            /\ Savings[q] \in Nat
        BY <1>14, ThresholdFacts
      <4>2. Saved(Sole' \ {q}) + Savings[q] < Threshold
        BY <3>6, <4>1, SavedBelow
      <4> QED BY <3>1, <3>2, <3>3, <4>2 DEF Saved
    <3> QED BY <3>3, <3>5, <3>6
  <2> QED BY <2>1, <2>2
<1>18. ASSUME NEW t \in Sessions, NEW u \in Sessions, t # u,
              ses'[t].step = "running", ses'[u].step = "running"
       PROVE  hist'[ses'[t].r].overlapped \/ hist'[ses'[u].r].overlapped
  <2>1. ASSUME NEW v \in Sessions, ses'[v].step = "running", v # s
        PROVE  /\ ses'[v] = ses[v] /\ ses[v].step = "running" /\ o
               /\ ses[v].r \in Requests
               /\ hist[ses[v].r].overlapped => hist'[ses[v].r].overlapped
    <3>1. ses'[v] = ses[v] /\ ses[v].step = "running"
      BY <1>13, <2>1
    <3>2. o /\ ses[v].r \in Requests
      BY <1>3, <3>1 DEF IInv, SessionsLawful
    <3> QED BY <1>10, <3>1, <3>2
  <2>2. ses'[s].r = r
    BY <1>7, <1>13
  <2>3. CASE t = s \/ u = s
    BY <1>10, <1>18, <2>1, <2>2, <2>3
  <2>4. CASE t # s /\ u # s
    <3>1. hist[ses[t].r].overlapped \/ hist[ses[u].r].overlapped
      BY <1>18, <2>1, <2>4 DEF ImpactHeld
    <3> QED BY <1>18, <2>1, <2>4, <3>1
  <2> QED BY <2>3, <2>4
<1>19. \A q \in Requests : row'[q].executedAt <= day'
  BY <1>11
<1> QED BY <1>16, <1>17, <1>18, <1>19 DEF ImpactHeld

LEMMA ImpactExecute ==
    ASSUME IInv, ImpactHeld, NEW s \in Sessions, NEW capped \in BOOLEAN,
           NEW policy \in Policies, Execute(s, capped, policy)
    PROVE  ImpactHeld'
<1>1. ses[s].step = "execute" /\ day' = day
  BY DEF Execute
<1>2. CASE Fail(s)
  BY <1>1, <1>2, ImpactFail
<1>3. CASE Close(s) /\ UNCHANGED <<row, hist>>
  <2>1. \A t \in Sessions : ses'[t].step = "running" => ses'[t] = ses[t]
    BY <1>3, NotRunning, IdleNotRunning DEF Close
  <2>2. row' = row /\ hist' = hist
    BY <1>3
  <2> QED BY <1>1, <2>1, <2>2, ImpactNoWrite
<1>4. CASE Escalate(s)
  BY <1>1, <1>4, ImpactEscalate
<1>5. CASE Schedule(s)
  BY <1>1, <1>5, ImpactSchedule
<1>6. CASE StartRun(s) /\ GuardsPass(ses[s].r, capped) /\ Executable(ses[s].mem)
  <2>1. ~KillSwitch(ses[s].r)
    BY <1>6 DEF GuardsPass
  <2> QED BY <1>1, <1>6, <2>1, ImpactStartRun
<1> QED BY <1>2, <1>3, <1>4, <1>5, <1>6 DEF Execute

\* A run that ends adds its savings if it began alone; any other run going on then did not.
LEMMA ImpactFinish ==
    ASSUME IInv, ImpactHeld, NEW s \in Sessions, NEW o \in {"success", "failure", "late"},
           FinishRun(s, o)
    PROVE  ImpactHeld'
<1>1. PICK r \in Requests : r = ses[s].r
  BY SessionFacts DEF FinishRun
<1>2. /\ ses[s].step = "running" /\ ses[s].step # "idle" /\ day' = day /\ hist' = hist
      /\ ses' = [ses EXCEPT ![s] = Idle]
  BY DEF FinishRun, Close
<1> DEFINE mem == ses[s].mem
           new == Result(mem, o)
<1>3. /\ mem \in Row /\ mem.status = "executing" /\ row \in [Requests -> Row]
      /\ ses \in [Sessions -> Session] /\ day \in Later /\ day \in Nat
  <2>1. day \in Later /\ day \in Nat
    BY RemediationAssumption DEF IInv, TypeOK, Days, Later
  <2> QED BY <1>2, <2>1, SessionFacts DEF ImpactHeld, IInv, TypeOK
<1>4. Commit(s, new)
  BY DEF FinishRun
<1>5. \A t \in Sessions : ses'[t].step = "running" => ses'[t] = ses[t]
  BY <1>2, NotRunning, IdleNotRunning
<1>6. CASE o # "success"
  <2>1. new \in Row /\ new.status = "failed"
    BY <1>3, <1>6 DEF Result, Row, Status
  <2>2. new.executedAt = mem.executedAt \/ new.executedAt = day
    BY <1>3, <1>6 DEF Result, Row
  <2> HIDE DEF new
  <2>3. \A q \in Requests :
           /\ row'[q].executedAt <= day
           /\ (row'[q].status = "completed" /\ row'[q].executedAt = day)
                => row[q].status = "completed" /\ row[q].executedAt = day
    BY <1>2, <1>3, <1>4, <2>1, <2>2, Wrote
  <2> QED BY <1>2, <1>5, <2>3, ImpactStays
<1>7. CASE o = "success"
  <2>1. new \in Row /\ new.status = "completed" /\ new.executedAt = day
    BY <1>3, <1>7 DEF Result, Row, Status
  <2> HIDE DEF new
  <2> DEFINE f == Flush(row[r], mem, new)
  <2>2. row' = [row EXCEPT ![r] = f]
    BY <1>1, <1>4 DEF Commit
  <2>3. f.executedAt = IF new.executedAt = mem.executedAt THEN row[r].executedAt
                                                           ELSE new.executedAt
    <3>1. DOMAIN row[r] = {"status", "escalated", "scheduledAt", "executedAt"}
      BY <1>3 DEF Row
    <3> QED BY <3>1 DEF Flush
  <2> HIDE DEF f
  <2>4. row'[r] = f /\ \A q \in Requests : q # r => row'[q] = row[q]
    BY <1>3, <2>2
  <2>5. day <= day
    BY <1>3
  <2>6. \A q \in Requests : row'[q].executedAt <= day'
    BY <1>2, <2>1, <2>3, <2>4, <2>5 DEF ImpactHeld
  <2>7. /\ Sole' \subseteq Sole \cup {r} /\ Sole \subseteq Requests
        /\ hist[r].overlapped => Sole' \subseteq Sole
    BY <1>2, <2>4 DEF Sole
  <2>8. hist[r].overlapped \/ Saved(Sole \ {r}) + Savings[r] < Threshold
    BY <1>1, <1>2 DEF ImpactHeld, Saved
  <2>9. Saved(Sole') < Threshold
    <3>1. CASE hist[r].overlapped
      <4>1. Saved(Sole) < Threshold
        BY DEF ImpactHeld, Saved
      <4> QED BY <2>7, <3>1, <4>1, SavedBelowAll
    <3>2. CASE ~hist[r].overlapped
      <4>1. Sole \cup {r} \in SUBSET Requests /\ r \in Sole \cup {r}
            /\ (Sole \cup {r}) \ {r} = Sole \ {r}
        BY <2>7
      <4>2. Saved(Sole \cup {r}) = Savings[r] + Saved(Sole \ {r})
        BY <4>1, SavedFacts
      <4>3. Sole \ {r} \in SUBSET Requests
        BY <2>7
      <4>4. PICK a \in Nat, b \in Nat : a = Saved(Sole \ {r}) /\ b = Savings[r]
        BY <4>3, SavedFacts, ThresholdFacts
      <4>5. Saved(Sole \cup {r}) < Threshold
        <5>1. a + b < Threshold
          BY <2>8, <3>2, <4>4
        <5>2. Saved(Sole \cup {r}) = b + a
          BY <4>2, <4>4
        <5> QED BY <5>1, <5>2
      <4> QED BY <2>7, <4>1, <4>5, SavedBelowAll
    <3> QED BY <3>1, <3>2
  <2>10. ASSUME NEW t \in Sessions, ses'[t].step = "running"
         PROVE  /\ t # s /\ ses'[t] = ses[t] /\ ses[t].step = "running" /\ ses[t].r \in Requests
    <3>1. ses'[s] = Idle
      BY <1>2, <1>3
    <3>2. t # s
      BY <2>10, <3>1, IdleNotRunning
    <3>3. ses'[t] = ses[t] /\ ses[t].step = "running"
      BY <1>5, <2>10
    <3> QED BY <3>2, <3>3 DEF IInv, SessionsLawful
  <2>11. ASSUME NEW t \in Sessions, ses'[t].step = "running"
         PROVE  /\ ses'[t].mem.status = "executing"
                /\ \/ hist'[ses'[t].r].overlapped
                   \/ SumFunctionOnSet(Savings, Sole' \ {ses'[t].r}) + Savings[ses'[t].r]
                        < Threshold
    <3>1. PICK q \in Requests : q = ses[t].r /\ ses'[t] = ses[t]
      BY <2>10, <2>11
    <3>2. t # s /\ ses[t].step = "running"
      BY <2>10, <2>11
    <3>3. /\ ses[t].mem.status = "executing"
          /\ hist[q].overlapped \/ Saved(Sole \ {q}) + Savings[q] < Threshold
      BY <3>1, <3>2 DEF ImpactHeld, Saved
    <3>4. CASE hist[q].overlapped
      BY <1>2, <3>1, <3>3, <3>4
    <3>5. CASE ~hist[q].overlapped
      <4>1. hist[r].overlapped
        BY <1>1, <1>2, <3>1, <3>2, <3>5 DEF ImpactHeld
      <4>2. Sole \ {q} \in SUBSET Requests /\ Sole' \ {q} \in SUBSET (Sole \ {q})
            /\ Savings[q] \in Nat
        BY <2>7, <4>1, ThresholdFacts
      <4>3. Saved(Sole' \ {q}) + Savings[q] < Threshold
        BY <3>3, <3>5, <4>2, SavedBelow
      <4> QED BY <3>1, <3>3, <4>3 DEF Saved
    <3> QED BY <3>4, <3>5
  <2>12. ASSUME NEW t \in Sessions, NEW u \in Sessions, t # u,
                ses'[t].step = "running", ses'[u].step = "running"
         PROVE  hist'[ses'[t].r].overlapped \/ hist'[ses'[u].r].overlapped
    BY <1>2, <2>10, <2>12 DEF ImpactHeld
  <2>13. SumFunctionOnSet(Savings, Sole') < Threshold
    BY <2>9 DEF Saved
  <2> QED BY <2>6, <2>11, <2>12, <2>13 DEF ImpactHeld
<1> QED BY <1>6, <1>7

LEMMA ImpactInit ==
    ASSUME Init
    PROVE  ImpactHeld
<1>1. \A r \in Requests : row[r].executedAt = 0 /\ row[r].status # "completed"
  BY DEF Init, NewRow, NoRow, Never
<1>2. Sole = {} /\ \A r \in Requests : row[r].executedAt <= day
  BY <1>1 DEF Sole, Init
<1>3. SumFunctionOnSet(Savings, {}) = 0
  BY FS_EmptySet, SumUnfold
<1>4. \A s \in Sessions : ses[s].step # "running"
  BY IdleNotRunning DEF Init
<1> QED BY <1>2, <1>3, <1>4, ThresholdFacts DEF ImpactHeld

LEMMA ImpactNext ==
    ASSUME IInv, ImpactHeld, [Next]_vars
    PROVE  ImpactHeld'
<1>1. ASSUME NEW r \in Requests, CreateRequest(r) PROVE ImpactHeld'
  BY <1>1, ImpactCreate
<1>2. ASSUME NEW r \in Requests, Reject(r) PROVE ImpactHeld'
  BY <1>2, ImpactReject
<1>3. ASSUME NEW s \in Sessions, NEW r \in Requests, NEW b \in BOOLEAN, NEW d \in Days,
             \/ AutopilotCreate(s, r) \/ LoadToApprove(s, r)
             \/ HardLimitSelect(s, r) \/ LoadToExecute(s, r, b) \/ StartJob(s, r, d)
      PROVE  ImpactHeld'
  BY <1>3, ImpactOpen
<1>4. TRUE \in BOOLEAN /\ 1 \in Days
  BY RemediationAssumption DEF Days
<1>5. ASSUME NEW s \in Sessions, NEW r \in Requests, AutopilotCreate(s, r) PROVE ImpactHeld'
  BY <1>3, <1>4, <1>5
<1>6. ASSUME NEW s \in Sessions, NEW r \in Requests, LoadToApprove(s, r) PROVE ImpactHeld'
  BY <1>3, <1>4, <1>6
<1>7. ASSUME NEW s \in Sessions, NEW r \in Requests, HardLimitSelect(s, r) PROVE ImpactHeld'
  BY <1>3, <1>4, <1>7
<1>8. ASSUME NEW s \in Sessions, NEW r \in Requests, NEW b \in BOOLEAN, LoadToExecute(s, r, b)
      PROVE  ImpactHeld'
  BY <1>3, <1>4, <1>8
<1>9. ASSUME NEW s \in Sessions, NEW r \in Requests, NEW d \in Days, StartJob(s, r, d)
      PROVE  ImpactHeld'
  BY <1>3, <1>4, <1>9
<1>10. ASSUME NEW s \in Sessions, NEW role \in Roles, Approve(s, role)
       PROVE  ImpactHeld'
  BY <1>10, ImpactApprove
<1>11. ASSUME NEW s \in Sessions, HardLimitApprove(s) PROVE ImpactHeld'
  BY <1>11, ImpactHardLimit
<1>12. ASSUME NEW s \in Sessions, ExecuteSome(s) PROVE ImpactHeld'
  BY <1>12, ImpactExecute DEF ExecuteSome
<1>13. ASSUME NEW s \in Sessions, EnqueueJob(s) \/ AbortJob(s) \/ Crash(s) PROVE ImpactHeld'
  BY <1>13, ImpactEnd
<1>14. ASSUME NEW s \in Sessions, NEW o \in {"success", "failure", "late"}, FinishRun(s, o)
       PROVE  ImpactHeld'
  BY <1>14, ImpactFinish
<1>15. ASSUME NEW r \in Requests, NEW d \in Later, DetectStuckJob(r, d) PROVE ImpactHeld'
  BY <1>15, ImpactDetect
<1>16. CASE Tick
  BY <1>16, ImpactTick
<1>17. CASE UNCHANGED vars
  <2>1. day' = day /\ row' = row /\ ses' = ses /\ hist' = hist
    BY <1>17 DEF vars
  <2> QED BY <2>1, ImpactNoWrite
<1>18. ASSUME NEW s \in Sessions, EnqueueFails(s) PROVE ImpactHeld'
  BY <1>18, ImpactFail DEF EnqueueFails
<1> QED BY <1>1, <1>2, <1>5, <1>6, <1>7, <1>8, <1>9, <1>10, <1>11, <1>12, <1>13, <1>14,
           <1>15, <1>16, <1>17, <1>18 DEF Next

\* The savings completed on a day reach the kill switch's threshold only if one of the runs
\* began while another was going on (check_all_guards counts completed rows only).
THEOREM KillSwitchHolds == Spec => []KillSwitchUnlessOverlap
<1>1. Init => ImpactHeld
  BY ImpactInit
<1>2. IInv /\ ImpactHeld /\ [Next]_vars => ImpactHeld'
  BY ImpactNext
<1>3. IInv /\ ImpactHeld => KillSwitchUnlessOverlap
  <2> SUFFICES ASSUME ImpactHeld,
                      ~\E r \in Requests : /\ row[r].status = "completed"
                                           /\ row[r].executedAt = day
                                           /\ hist[r].overlapped
               PROVE  TodaysImpact < Threshold
    BY DEF KillSwitchUnlessOverlap
  <2>1. Sole = {r \in Requests : row[r].status = "completed" /\ row[r].executedAt = day}
    BY DEF Sole
  <2> QED BY <2>1 DEF ImpactHeld, TodaysImpact
<1> QED BY <1>1, <1>2, <1>3, Invariance, PTL DEF Spec

\* A request runs once, and only as its reviewers agreed (execute_remediation_request).
THEOREM RunsLawful == Spec => []RunsAreLawful
<1>1. RunsAtMostOnce /\ ReviewRespected => RunsAreLawful
  BY DEF RunsAreLawful
<1>2. QED BY <1>1, RunsOnce, ReviewHeld, PTL

=============================================================================
