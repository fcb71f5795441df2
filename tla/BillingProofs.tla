---------------------------- MODULE BillingProofs ----------------------------
(***************************************************************************)
(* Proofs for Billing, for any events and any finite set of sessions.      *)
(***************************************************************************)
EXTENDS Billing, FiniteSetTheorems, TLAPS

\* Sessions that run a renewal.
Renewing == {s \in Sessions : ses[s].step = "renewal"}

\* Retries beyond the bound are those of runs that a fault queued again.
RetriesPaidFor == retries.waiting + retries.due <= MaxRetries + faults

\* A renewal is queued or running only if the sweep created it.
RenewalsCreated == renewals.queued + Cardinality(Renewing) <= renewals.created

\* A webhook is processed by one session, which has its job RUNNING.
HooksHeld ==
    /\ \A s \in Sessions :
         ses[s].step = "webhook" => ses[s].e \in Webhooks /\ hook[ses[s].e] = "running"
    /\ \A s, t \in Sessions :
         ses[s].step = "webhook" /\ ses[t].step = "webhook" /\ ses[s].e = ses[t].e => s = t

\* A run has completed only if the job is COMPLETED.
OpenNotDone ==
    \A e \in Webhooks : hist.done[e] <= 1 /\ (hook[e] # "completed" => hist.done[e] = 0)

\* A stored card and a charge of it imply an earlier payment.
CardWasPaid ==
    /\ sub.auth => hist.paid
    /\ hist.renewed => hist.paid
    /\ \A s \in Sessions : ses[s].mem.auth \/ ses[s].step = "recover" => hist.paid
    /\ \A e \in Webhooks :
         Kind[e] = "charge.success" /\ e \notin Tiered /\ hook[e] # "absent" => hist.renewed

\* The row is never deleted, and a payment creates it.
RowStays ==
    /\ hist.paid => sub.status # "absent"
    /\ \A s \in Sessions : ses[s].mem.status # "absent" => sub.status # "absent"

\* The attempts counted are payments that failed.
FailuresCounted ==
    hist.outdated \/ sub.attempts <= hist.failed \/ hist.failed = DunningMax

IInv ==
    /\ TypeOK
    /\ RetriesPaidFor
    /\ RenewalsCreated
    /\ HooksHeld
    /\ OpenNotDone
    /\ CardWasPaid
    /\ RowStays
    /\ FailuresCounted
    /\ PlanIsPaidFor
    /\ AttentionHasRetry

-----------------------------------------------------------------------------
(***************************************************************************)
(* What a handler's write does to the row, the plan and the retries.       *)
(***************************************************************************)

\* A column is written if the handler changed it; a handler whose copy is the
\* current row writes all it has.
LEMMA FlushRow ==
    ASSUME sub \in Row, NEW mem \in Row, NEW new \in Row, NEW f, f = Flush(mem, new)
    PROVE  /\ f \in Row
           /\ f.status = IF new.status = mem.status THEN sub.status ELSE new.status
           /\ f.tier = IF new.tier = mem.tier THEN sub.tier ELSE new.tier
           /\ f.auth \in {sub.auth, new.auth}
           /\ sub = mem => f = new
<1>1. DOMAIN sub = {"status", "tier", "auth", "code", "customer", "attempts", "recent", "due"}
  BY DEF Row
<1>2. f.status = IF new.status = mem.status THEN sub.status ELSE new.status
  BY <1>1 DEF Flush
<1>3. f.tier = IF new.tier = mem.tier THEN sub.tier ELSE new.tier
  BY <1>1 DEF Flush
<1>4. f.auth \in {sub.auth, new.auth}
  BY <1>1 DEF Flush
<1>5. f \in Row
  BY <1>1 DEF Flush, Row
<1>6. sub = mem => f = new
  BY <1>1 DEF Flush, Row
<1> QED BY <1>2, <1>3, <1>4, <1>5, <1>6

\* Note keeps all but the counts that an outdated write makes useless.
LEMMA NoteKeeps ==
    ASSUME NEW h \in History, Note(h)
    PROVE  /\ hist' \in History
           /\ hist'.done = h.done
           /\ hist'.paid = h.paid
           /\ hist'.renewed = h.renewed
           /\ hist'.outdated = h.outdated
           /\ ~h.outdated => hist' = h
<1>1. CASE h.outdated
  <2> DEFINE g == [h EXCEPT !.failed = 0, !.repeated = FALSE, !.lost = FALSE]
  <2> 0 \in 0..DunningMax
    BY BillingAssumption
  <2>1. g \in History
    BY DEF History
  <2>2. /\ g.done = h.done /\ g.paid = h.paid /\ g.renewed = h.renewed
        /\ g.outdated = h.outdated
    BY DEF History
  <2>3. hist' = g
    BY <1>1 DEF Note
  <2> QED BY <1>1, <2>1, <2>2, <2>3
<1>2. CASE ~h.outdated
  BY <1>2 DEF Note
<1> QED BY <1>1, <1>2

\* A write of session s.
LEMMA WriteEffect ==
    ASSUME TypeOK, NEW s \in Sessions, NEW new \in Row, NEW h \in History, Write(s, new, h)
    PROVE  /\ sub' \in Row
           /\ sub'.status = IF new.status = ses[s].mem.status THEN sub.status ELSE new.status
           /\ sub'.tier = IF new.tier = ses[s].mem.tier THEN sub.tier ELSE new.tier
           /\ sub'.auth \in {sub.auth, new.auth}
           /\ hist' \in History
           /\ hist'.done = h.done
           /\ hist'.paid = h.paid
           /\ hist'.renewed = h.renewed
           /\ h.outdated => hist'.outdated
           /\ ~hist'.outdated => /\ sub = ses[s].mem /\ sub' = new
                                 /\ hist'.failed = h.failed
                                 /\ hist'.lost = h.lost
                                 /\ hist'.repeated = h.repeated
<1> DEFINE g == [h EXCEPT !.outdated = @ \/ Outdated(s)]
<1>1. sub \in Row /\ ses[s].mem \in Row
  BY DEF TypeOK, Session
<1>2. /\ sub' \in Row
      /\ sub'.status = IF new.status = ses[s].mem.status THEN sub.status ELSE new.status
      /\ sub'.tier = IF new.tier = ses[s].mem.tier THEN sub.tier ELSE new.tier
      /\ sub'.auth \in {sub.auth, new.auth}
      /\ sub = ses[s].mem => sub' = new
  BY <1>1, FlushRow DEF Write
<1>3. /\ g \in History
      /\ g.done = h.done /\ g.paid = h.paid /\ g.renewed = h.renewed
      /\ g.failed = h.failed /\ g.lost = h.lost /\ g.repeated = h.repeated
      /\ g.outdated = (h.outdated \/ Outdated(s))
  BY DEF History
<1>4. Note(g)
  BY DEF Write
<1> HIDE DEF g
<1>5. /\ hist' \in History
      /\ hist'.done = g.done /\ hist'.paid = g.paid /\ hist'.renewed = g.renewed
      /\ hist'.outdated = g.outdated
      /\ ~g.outdated => hist' = g
  BY <1>3, <1>4, NoteKeeps
<1> QED BY <1>2, <1>3, <1>5 DEF Outdated

\* h is the history, with more completed runs, an aborted or a lost one, or a
\* charge of a card that was paid with before.
Carries(h) ==
    /\ h \in History
    /\ h.paid = hist.paid /\ h.outdated = hist.outdated
    /\ h.failed = hist.failed
    /\ hist.lost => h.lost
    /\ hist.renewed => h.renewed
    /\ h.renewed => h.paid

\* A step that takes a paid plan away has counted all failures.
Downgrade ==
    plan = "paid" /\ plan' = "free" => hist'.failed = DunningMax \/ hist'.outdated

\* A step on the row, the plan and the retries that keeps what the invariant
\* says of them; again: the retry it ran is queued once more.
Sound(h, again) ==
    /\ sub' \in Row /\ plan' \in Tiers /\ hist' \in History
    /\ hist'.done = h.done
    /\ hist.outdated => hist'.outdated
    /\ hist.paid => hist'.paid
    /\ hist.renewed => hist'.renewed
    /\ hist'.renewed => hist'.paid
    /\ sub'.auth => hist'.paid
    /\ sub.status # "absent" \/ hist'.paid => sub'.status # "absent"
    /\ FailuresCounted'
    /\ PlanIsPaidFor'
    /\ retries' \in [waiting : 0..MaxRetries, due : Nat]
    /\ retries'.waiting + retries'.due <= MaxRetries + faults + again
    /\ Downgrade

\* After the step an ATTENTION has a retry of its own; passing: or it is the one
\* there was before, with the retries it had.
Attended(passing) ==
    sub'.status = "attention"
        => \/ retries'.waiting + retries'.due > 0
           \/ hist'.lost \/ hist'.outdated
           \/ passing /\ sub.status = "attention" /\ retries' = retries /\ ~hist.lost

\* What the invariant says of the row, the plan and the retries.
LEMMA RowFacts ==
    ASSUME IInv, NEW s \in Sessions
    PROVE  /\ ses[s].mem \in Row /\ sub \in Row /\ plan \in Tiers /\ hist \in History
           /\ retries \in [waiting : 0..MaxRetries, due : Nat]
           /\ retries.waiting + retries.due <= MaxRetries + faults
           /\ MaxRetries \in Nat /\ DunningMax \in Nat \ {0} /\ faults \in Nat
           /\ sub.auth \/ ses[s].mem.auth => hist.paid
           /\ hist.renewed => hist.paid
           /\ ses[s].mem.status # "absent" \/ hist.paid => sub.status # "absent"
           /\ hist.outdated \/ sub.attempts <= hist.failed \/ hist.failed = DunningMax
           /\ hist.paid => plan = sub.tier \/ hist.outdated
           /\ plan = "paid" => hist.paid
           /\ sub.attempts \in Nat /\ hist.failed \in 0..DunningMax
<1>1. /\ ses[s].mem \in Row /\ sub \in Row /\ plan \in Tiers /\ hist \in History
      /\ retries \in [waiting : 0..MaxRetries, due : Nat]
      /\ retries.waiting + retries.due <= MaxRetries + faults
      /\ MaxRetries \in Nat /\ DunningMax \in Nat \ {0} /\ faults \in Nat
  BY BillingAssumption DEF IInv, TypeOK, Session, RetriesPaidFor
<1>2. /\ sub.auth \/ ses[s].mem.auth => hist.paid
      /\ hist.renewed => hist.paid
      /\ ses[s].mem.status # "absent" \/ hist.paid => sub.status # "absent"
  BY DEF IInv, CardWasPaid, RowStays
<1>3. /\ hist.outdated \/ sub.attempts <= hist.failed \/ hist.failed = DunningMax
      /\ hist.paid => plan = sub.tier \/ hist.outdated
      /\ plan = "paid" => hist.paid
  BY DEF IInv, FailuresCounted, PlanIsPaidFor, PlanFollowsTier, PaidPlanWasPaid
<1>4. sub.attempts \in Nat /\ hist.failed \in 0..DunningMax
  BY <1>1 DEF Row, History
<1> QED BY <1>1, <1>2, <1>3, <1>4

\* A handler that writes nothing.
LEMMA NothingWritten ==
    ASSUME IInv, NEW s \in Sessions, NEW h, Carries(h), Note(h),
           UNCHANGED <<sub, plan, retries>>
    PROVE  Sound(h, 0) /\ Attended(TRUE)
<1>1. /\ h \in History
      /\ h.paid = hist.paid /\ h.outdated = hist.outdated
      /\ h.failed = hist.failed
      /\ hist.lost => h.lost
      /\ hist.renewed => h.renewed
      /\ h.renewed => h.paid
  BY DEF Carries
<1>2. /\ hist' \in History
      /\ hist'.done = h.done /\ hist'.paid = h.paid /\ hist'.renewed = h.renewed
      /\ hist'.outdated = h.outdated
      /\ ~h.outdated => hist'.failed = h.failed /\ hist'.lost = h.lost
  BY <1>1, NoteKeeps
<1>3. FailuresCounted' /\ PlanIsPaidFor'
  BY <1>1, <1>2, RowFacts
     DEF FailuresCounted, PlanIsPaidFor, PlanFollowsTier, PaidPlanWasPaid
<1>4. Sound(h, 0)
  BY <1>1, <1>2, <1>3, RowFacts DEF Sound, Downgrade
<1>5. Attended(TRUE)
  BY <1>1, <1>2 DEF Attended
<1> QED BY <1>4, <1>5

\* A handler that leaves tier, card and attempts as they are in its copy, and does
\* not put the row into ATTENTION.
LEMMA PlainWrite ==
    ASSUME IInv, NEW s \in Sessions, NEW h, Carries(h), NEW new \in Row,
           new.status \in {ses[s].mem.status, "active", "cancelled"},
           new.tier = ses[s].mem.tier, new.auth = ses[s].mem.auth,
           new.attempts = ses[s].mem.attempts,
           Write(s, new, h), UNCHANGED <<plan, retries>>
    PROVE  Sound(h, 0) /\ Attended(TRUE)
<1>1. /\ h \in History
      /\ h.paid = hist.paid /\ h.outdated = hist.outdated
      /\ h.failed = hist.failed
      /\ hist.lost => h.lost
      /\ hist.renewed => h.renewed
      /\ h.renewed => h.paid
  BY DEF Carries
<1>2. /\ sub' \in Row
      /\ sub'.status = IF new.status = ses[s].mem.status THEN sub.status ELSE new.status
      /\ sub'.tier = sub.tier
      /\ sub'.auth \in {sub.auth, new.auth}
      /\ hist' \in History
      /\ hist'.done = h.done /\ hist'.paid = h.paid /\ hist'.renewed = h.renewed
      /\ h.outdated => hist'.outdated
      /\ ~hist'.outdated => /\ sub = ses[s].mem /\ sub' = new
                            /\ hist'.failed = h.failed /\ hist'.lost = h.lost
  BY <1>1, WriteEffect DEF IInv
<1>3. FailuresCounted' /\ PlanIsPaidFor'
  BY <1>1, <1>2, RowFacts
     DEF FailuresCounted, PlanIsPaidFor, PlanFollowsTier, PaidPlanWasPaid
<1>4. /\ sub'.auth => hist'.paid
      /\ sub.status # "absent" \/ hist'.paid => sub'.status # "absent"
  BY <1>1, <1>2, RowFacts
<1>5. Sound(h, 0)
  BY <1>1, <1>2, <1>3, <1>4, RowFacts DEF Sound, Downgrade
<1>6. Attended(TRUE)
  BY <1>1, <1>2 DEF Attended
<1> QED BY <1>5, <1>6

\* charge.success, whose event is a checkout or a charge of a stored card.
LEMMA ChargeSuccessSound ==
    ASSUME IInv, NEW s \in Sessions, NEW h, Carries(h),
           ses[s].step = "webhook", Kind[ses[s].e] = "charge.success", ChargeSuccess(s, h)
    PROVE  Sound(h, 0) /\ Attended(TRUE)
<1> DEFINE mem == ses[s].mem
           tiered == ses[s].e \in Tiered
           new == [mem EXCEPT !.status = "active", !.auth = TRUE, !.customer = TRUE,
                              !.tier = IF tiered THEN "paid" ELSE @]
           g == Paid(h)
<1>1. /\ h \in History
      /\ h.paid = hist.paid /\ h.outdated = hist.outdated
      /\ h.failed = hist.failed
      /\ hist.lost => h.lost
      /\ hist.renewed => h.renewed
  BY DEF Carries
<1>2. /\ g \in History
      /\ g.paid
      /\ g.done = h.done /\ g.renewed = h.renewed /\ g.outdated = h.outdated
      /\ g.failed = h.failed /\ g.lost = h.lost
  BY <1>1 DEF Paid, History
<1>2a. g \in History
  BY <1>1 DEF Paid, History
<1>3. /\ mem \in Row
      /\ new \in Row
      /\ new.status = "active" /\ new.attempts = mem.attempts
      /\ new.tier = IF tiered THEN "paid" ELSE mem.tier
  <2>1. mem \in Row /\ "paid" \in Tiers
    BY RowFacts DEF Tiers
  <2>2. (IF tiered THEN "paid" ELSE mem.tier) \in Tiers
    BY <2>1 DEF Row
  <2> QED BY <2>1, <2>2 DEF Row
<1>4. tiered \/ hist.paid
  <2>1. ses[s].e \in Webhooks /\ hook[ses[s].e] = "running"
    BY DEF IInv, HooksHeld
  <2>2. tiered \/ hist.renewed
    BY <2>1 DEF IInv, CardWasPaid
  <2> QED BY <2>2, RowFacts
<1>5. /\ Write(s, new, g)
      /\ plan' = IF tiered THEN "paid" ELSE plan
      /\ UNCHANGED retries
  BY DEF ChargeSuccess
<1> HIDE DEF new, tiered, g
<1>6. /\ sub' \in Row
      /\ sub'.status = IF new.status = mem.status THEN sub.status ELSE new.status
      /\ sub'.tier = IF new.tier = mem.tier THEN sub.tier ELSE new.tier
      /\ hist' \in History
      /\ hist'.done = g.done /\ hist'.paid = g.paid /\ hist'.renewed = g.renewed
      /\ g.outdated => hist'.outdated
      /\ ~hist'.outdated => /\ sub = mem /\ sub' = new
                            /\ hist'.failed = g.failed /\ hist'.lost = g.lost
  BY <1>2a, <1>3, <1>5, WriteEffect DEF IInv
<1>7. hist'.paid
  BY <1>2, <1>6
<1>8. FailuresCounted'
  BY <1>1, <1>2, <1>3, <1>6, RowFacts DEF FailuresCounted
<1>9. PlanIsPaidFor'
  BY <1>1, <1>2, <1>3, <1>4, <1>5, <1>6, <1>7, RowFacts
     DEF PlanIsPaidFor, PlanFollowsTier, PaidPlanWasPaid
<1>10. sub'.status # "absent"
  BY <1>3, <1>6, RowFacts
<1>11. plan' \in Tiers /\ ~(plan = "paid" /\ plan' = "free")
  BY <1>5, RowFacts DEF Tiers
<1>12. Sound(h, 0)
  BY <1>1, <1>2, <1>5, <1>6, <1>7, <1>8, <1>9, <1>10, <1>11, RowFacts DEF Sound, Downgrade
<1>13. Attended(TRUE)
  BY <1>1, <1>2, <1>3, <1>6 DEF Attended
<1> QED BY <1>12, <1>13

\* A failed payment, reported by Paystack or found by a retry.
LEMMA FailedPaymentSound ==
    ASSUME IInv, NEW s \in Sessions, NEW passing \in BOOLEAN, NEW again \in {0, 1},
           passing => again = 0, NEW h, Carries(h), FailedPayment(s, passing, h, again)
    PROVE  Sound(h, again) /\ Attended(passing)
<1> DEFINE mem == ses[s].mem
           counted == [mem EXCEPT !.attempts = @ + 1, !.recent = TRUE]
           noted == [h EXCEPT !.failed = IF @ = DunningMax THEN @ ELSE @ + 1]
<1>1. /\ mem \in Row /\ sub \in Row /\ plan \in Tiers
      /\ retries.waiting \in 0..MaxRetries /\ retries.due \in Nat /\ faults \in Nat
      /\ retries \in [waiting : 0..MaxRetries, due : Nat]
      /\ retries.waiting + retries.due <= MaxRetries + faults
      /\ MaxRetries \in Nat /\ DunningMax \in Nat \ {0}
      /\ hist \in History
  BY RowFacts
<1>2. /\ h \in History
      /\ h.paid = hist.paid /\ h.outdated = hist.outdated
      /\ h.failed = hist.failed
      /\ hist.lost => h.lost
      /\ hist.renewed => h.renewed
      /\ h.renewed => h.paid
  BY DEF Carries
<1>3. /\ counted \in Row
      /\ counted.status = mem.status /\ counted.tier = mem.tier /\ counted.auth = mem.auth
      /\ counted.attempts = mem.attempts + 1
  <2>1. mem.attempts + 1 \in Nat
    BY <1>1 DEF Row
  <2>2. counted \in Row
    BY <1>1, <2>1 DEF Row
  <2>3. /\ counted.status = mem.status /\ counted.tier = mem.tier /\ counted.auth = mem.auth
        /\ counted.attempts = mem.attempts + 1
    BY <1>1 DEF Row
  <2> QED BY <2>2, <2>3
<1>4. /\ noted \in History
      /\ noted.done = h.done /\ noted.paid = h.paid /\ noted.renewed = h.renewed
      /\ noted.outdated = h.outdated /\ noted.lost = h.lost
      /\ noted.failed = IF h.failed = DunningMax THEN DunningMax ELSE h.failed + 1
  <2>1. (IF h.failed = DunningMax THEN h.failed ELSE h.failed + 1) \in 0..DunningMax
    BY <1>1, <1>2 DEF History
  <2> QED BY <1>2, <2>1 DEF History
<1>5. /\ sub.auth \/ mem.auth => hist.paid
      /\ mem.status # "absent" \/ hist.paid => sub.status # "absent"
  BY RowFacts
<1>6. /\ hist.outdated \/ sub.attempts <= hist.failed \/ hist.failed = DunningMax
      /\ hist.paid => plan = sub.tier \/ hist.outdated
      /\ plan = "paid" => hist.paid
  BY RowFacts
<1>7. /\ h.failed \in 0..DunningMax /\ mem.attempts \in Nat /\ sub.attempts \in Nat
  BY <1>1, <1>2 DEF Row, History
<1>8. CASE passing /\ mem.recent
  <2>1. Note(h) /\ UNCHANGED <<sub, plan, retries>>
    BY <1>8 DEF FailedPayment
  <2>2. again = 0
    BY <1>8
  <2> QED BY <1>8, <2>1, <2>2, NothingWritten
<1>9. CASE ~(passing /\ mem.recent) /\ Exhausted(counted.attempts)
  <2> DEFINE new == [counted EXCEPT !.status = "cancelled", !.tier = "free"]
  <2>1. /\ Write(s, new, noted)
        /\ plan' = "free"
        /\ retries' = [retries EXCEPT !.due = @ + again]
    BY <1>9 DEF FailedPayment, FinalFailure
  <2>2. /\ new \in Row
        /\ new.status = "cancelled" /\ new.tier = "free" /\ new.auth = mem.auth
        /\ new.attempts = mem.attempts + 1
    BY <1>3 DEF Row, Tiers
  <2>3. mem.attempts + 1 >= DunningMax
    BY <1>3, <1>9 DEF Exhausted
  <2>4. /\ retries' \in [waiting : 0..MaxRetries, due : Nat]
        /\ retries'.waiting + retries'.due = retries.waiting + retries.due + again
    BY <1>1, <2>1
  <2> HIDE DEF new, noted, counted
  <2>5. /\ sub' \in Row
        /\ sub'.status = IF new.status = mem.status THEN sub.status ELSE new.status
        /\ sub'.auth \in {sub.auth, new.auth}
        /\ hist' \in History
        /\ hist'.done = noted.done /\ hist'.paid = noted.paid /\ hist'.renewed = noted.renewed
        /\ noted.outdated => hist'.outdated
        /\ ~hist'.outdated => sub = mem /\ sub' = new /\ hist'.failed = noted.failed
    BY <1>4, <2>1, <2>2, WriteEffect DEF IInv
  <2>6. hist'.failed = DunningMax \/ hist'.outdated
    BY <1>1, <1>2, <1>4, <1>6, <1>7, <2>3, <2>5
  <2>7. FailuresCounted' /\ PlanIsPaidFor'
    BY <1>4, <2>1, <2>2, <2>5, <2>6
       DEF FailuresCounted, PlanIsPaidFor, PlanFollowsTier, PaidPlanWasPaid
  <2>8. sub'.status # "absent" /\ (sub'.auth => hist'.paid)
    BY <1>2, <1>4, <1>5, <2>2, <2>5
  <2>9. Sound(h, again)
    BY <1>1, <1>2, <1>4, <2>1, <2>4, <2>5, <2>6, <2>7, <2>8 DEF Sound, Downgrade, Tiers
  <2>10. Attended(passing)
    BY <2>2, <2>5 DEF Attended
  <2> QED BY <2>9, <2>10
<1>10. CASE ~(passing /\ mem.recent) /\ ~Exhausted(counted.attempts)
  <2>1. ScheduleRetry(s, counted, noted, again)
    BY <1>10 DEF FailedPayment
  <2> HIDE DEF noted, counted
  <2>2. CASE /\ retries.waiting + retries.due < MaxRetries
             /\ Write(s, [counted EXCEPT !.status = "attention"], noted)
             /\ retries' = [retries EXCEPT !.waiting = @ + 1, !.due = @ + again]
             /\ UNCHANGED plan
    <3> DEFINE new == [counted EXCEPT !.status = "attention"]
    <3>1. /\ new \in Row
          /\ new.status = "attention" /\ new.tier = mem.tier /\ new.auth = mem.auth
          /\ new.attempts = mem.attempts + 1
      BY <1>3 DEF Row
    <3>2. /\ retries' \in [waiting : 0..MaxRetries, due : Nat]
          /\ retries'.waiting + retries'.due = retries.waiting + retries.due + 1 + again
      <4>1. retries.waiting + 1 \in 0..MaxRetries /\ retries.due + again \in Nat
        BY <1>1, <2>2
      <4>2. /\ retries' \in [waiting : 0..MaxRetries, due : Nat]
            /\ retries'.waiting = retries.waiting + 1 /\ retries'.due = retries.due + again
        BY <1>1, <2>2, <4>1
      <4> QED BY <1>1, <4>2
    <3>3. Write(s, new, noted)
      BY <2>2
    <3> HIDE DEF new
    <3>4. /\ sub' \in Row
          /\ sub'.status = IF new.status = mem.status THEN sub.status ELSE new.status
          /\ sub'.tier = sub.tier
          /\ sub'.auth \in {sub.auth, new.auth}
          /\ hist' \in History
          /\ hist'.done = noted.done /\ hist'.paid = noted.paid
          /\ hist'.renewed = noted.renewed
          /\ noted.outdated => hist'.outdated
          /\ ~hist'.outdated => sub = mem /\ sub' = new /\ hist'.failed = noted.failed
      BY <1>4, <3>1, <3>3, WriteEffect DEF IInv
    <3>5. FailuresCounted'
      BY <1>1, <1>2, <1>4, <1>6, <1>7, <3>1, <3>4 DEF FailuresCounted
    <3>6. PlanIsPaidFor'
      BY <1>2, <1>4, <1>6, <2>2, <3>4 DEF PlanIsPaidFor, PlanFollowsTier, PaidPlanWasPaid
    <3>7. sub'.status # "absent" /\ (sub'.auth => hist'.paid)
      BY <1>2, <1>4, <1>5, <3>1, <3>4
    <3>8. Sound(h, again)
      BY <1>1, <1>2, <1>4, <2>2, <3>2, <3>4, <3>5, <3>6, <3>7 DEF Sound, Downgrade
    <3>9. Attended(passing)
      BY <1>1, <3>2 DEF Attended
    <3> QED BY <3>8, <3>9
  <2>3. CASE /\ Note([noted EXCEPT !.lost = @ \/ sub.status = "attention"])
             /\ retries' = [retries EXCEPT !.due = @ + again]
             /\ UNCHANGED <<sub, plan>>
    <3> DEFINE g == [noted EXCEPT !.lost = @ \/ sub.status = "attention"]
    <3>1. /\ g \in History
          /\ g.done = noted.done /\ g.paid = noted.paid /\ g.renewed = noted.renewed
          /\ g.outdated = noted.outdated /\ g.failed = noted.failed
          /\ g.lost = (noted.lost \/ sub.status = "attention")
      BY <1>4 DEF History
    <3>2. Note(g)
      BY <2>3
    <3> HIDE DEF g
    <3>3. /\ hist' \in History
          /\ hist'.done = g.done /\ hist'.paid = g.paid /\ hist'.renewed = g.renewed
          /\ hist'.outdated = g.outdated
          /\ ~g.outdated => hist'.failed = g.failed /\ hist'.lost = g.lost
      BY <3>1, <3>2, NoteKeeps
    <3>4. /\ retries' \in [waiting : 0..MaxRetries, due : Nat]
          /\ retries'.waiting + retries'.due = retries.waiting + retries.due + again
      BY <1>1, <2>3
    <3>5. FailuresCounted'
      BY <1>1, <1>2, <1>4, <1>6, <1>7, <2>3, <3>1, <3>3 DEF FailuresCounted
    <3>6. PlanIsPaidFor'
      BY <1>2, <1>4, <1>6, <2>3, <3>1, <3>3
         DEF PlanIsPaidFor, PlanFollowsTier, PaidPlanWasPaid
    <3>7. Sound(h, again)
      BY <1>1, <1>2, <1>4, <1>5, <2>3, <3>1, <3>3, <3>4, <3>5, <3>6 DEF Sound, Downgrade
    <3>8. Attended(passing)
      BY <2>3, <3>1, <3>3 DEF Attended
    <3> QED BY <3>7, <3>8
  <2> QED BY <2>1, <2>2, <2>3 DEF ScheduleRetry
<1> QED BY <1>8, <1>9, <1>10

\* What the handler of a stored webhook does.
Handled(s, h) ==
    CASE Kind[ses[s].e] = "charge.success"         -> ChargeSuccess(s, h)
      [] Kind[ses[s].e] = "subscription.create"    -> SubscriptionCreate(s, h)
      [] Kind[ses[s].e] = "subscription.disable"   -> SubscriptionDisable(s, h)
      [] Kind[ses[s].e] = "invoice.payment_failed" -> InvoiceFailed(s, h)

\* Whatever the event, its handler keeps the row, the plan and the retries sound.
LEMMA HandledSound ==
    ASSUME IInv, NEW s \in Sessions, NEW h, Carries(h), ses[s].step = "webhook", Handled(s, h)
    PROVE  Sound(h, 0) /\ Attended(TRUE)
<1>1. ses[s].mem \in Row
  BY RowFacts
<1>2. CASE Kind[ses[s].e] = "charge.success"
  BY <1>2, ChargeSuccessSound DEF Handled
<1>3. CASE Kind[ses[s].e] = "subscription.create"
  <2>1. SubscriptionCreate(s, h)
    BY <1>3 DEF Handled
  <2>2. CASE ses[s].mem.customer
    <3> DEFINE new == [ses[s].mem EXCEPT !.status = "active", !.code = TRUE, !.due = FALSE]
    <3>1. /\ new \in Row /\ new.status = "active"
          /\ new.tier = ses[s].mem.tier /\ new.auth = ses[s].mem.auth
          /\ new.attempts = ses[s].mem.attempts
      BY <1>1 DEF Row
    <3>2. Write(s, new, h) /\ UNCHANGED <<plan, retries>>
      BY <2>1, <2>2 DEF SubscriptionCreate
    <3> QED BY <3>1, <3>2, PlainWrite
  <2>3. CASE ~ses[s].mem.customer
    BY <2>1, <2>3, NothingWritten DEF SubscriptionCreate
  <2> QED BY <2>2, <2>3
<1>4. CASE Kind[ses[s].e] = "subscription.disable"
  <2>1. SubscriptionDisable(s, h)
    BY <1>4 DEF Handled
  <2>2. CASE ses[s].mem.code
    <3> DEFINE new == [ses[s].mem EXCEPT !.status = "cancelled"]
    <3>1. /\ new \in Row /\ new.status = "cancelled"
          /\ new.tier = ses[s].mem.tier /\ new.auth = ses[s].mem.auth
          /\ new.attempts = ses[s].mem.attempts
      BY <1>1 DEF Row
    <3>2. Write(s, new, h) /\ UNCHANGED <<plan, retries>>
      BY <2>1, <2>2 DEF SubscriptionDisable
    <3> QED BY <3>1, <3>2, PlainWrite
  <2>3. CASE ~ses[s].mem.code
    BY <2>1, <2>3, NothingWritten DEF SubscriptionDisable
  <2> QED BY <2>2, <2>3
<1>5. CASE Kind[ses[s].e] = "invoice.payment_failed"
  <2>1. InvoiceFailed(s, h)
    BY <1>5 DEF Handled
  <2>2. CASE ses[s].mem.code
    <3>1. FailedPayment(s, TRUE, h, 0)
      BY <2>1, <2>2 DEF InvoiceFailed
    <3> QED BY <3>1, FailedPaymentSound
  <2>3. CASE ~ses[s].mem.code
    BY <2>1, <2>3, NothingWritten DEF InvoiceFailed
  <2> QED BY <2>2, <2>3
<1>6. Kind[ses[s].e] \in Kinds
  BY BillingAssumption DEF IInv, HooksHeld
<1> QED BY <1>2, <1>3, <1>4, <1>5, <1>6 DEF Kinds

-----------------------------------------------------------------------------
(***************************************************************************)
(* The steps of a session.                                                 *)
(***************************************************************************)

\* Session s goes on or ends, the others stay as they are.
Follows(s) ==
    /\ ses' \in [Sessions -> Session]
    /\ \A t \in Sessions \ {s} : ses'[t] = ses[t]
    /\ ses'[s].mem.auth \/ ses'[s].step = "recover" => hist'.paid
    /\ ses'[s].mem.status # "absent" => sub'.status # "absent"
    /\ ses'[s].step # "webhook"

\* A session that ends.
LEMMA CloseFollows ==
    ASSUME IInv, NEW s \in Sessions, Close(s)
    PROVE  Follows(s) /\ ses'[s].step = "idle" /\ ses'[s] = Idle
<1>1. Idle \in Session
  BY DEF Idle, Session, NoRow, Row, Tiers
<1>2. /\ Idle.step = "idle" /\ ~Idle.mem.auth /\ Idle.mem.status = "absent"
  BY DEF Idle, NoRow
<1>3. /\ ses' \in [Sessions -> Session] /\ ses'[s] = Idle
      /\ \A t \in Sessions \ {s} : ses'[t] = ses[t]
  BY <1>1 DEF Close, IInv, TypeOK
<1> QED BY <1>2, <1>3 DEF Follows

\* The part of the invariant that is about the row, the plan, the retries and the
\* copies of the sessions.
LEMMA RowPart ==
    ASSUME IInv, NEW s \in Sessions, NEW h, NEW again \in {0, 1}, Sound(h, again),
           Follows(s), faults' \in 0..MaxFaults, faults + again <= faults',
           \A e \in Webhooks : hook'[e] # "absent" => hook[e] # "absent"
    PROVE  /\ sub' \in Row /\ plan' \in Tiers /\ hist' \in History
           /\ retries' \in [waiting : 0..MaxRetries, due : 0..(MaxRetries + MaxFaults)]
           /\ ses' \in [Sessions -> Session]
           /\ RetriesPaidFor' /\ CardWasPaid' /\ RowStays'
           /\ FailuresCounted' /\ PlanIsPaidFor'
<1>1. /\ sub' \in Row /\ plan' \in Tiers /\ hist' \in History
      /\ hist.paid => hist'.paid
      /\ hist.renewed => hist'.renewed
      /\ hist'.renewed => hist'.paid
      /\ sub'.auth => hist'.paid
      /\ sub.status # "absent" \/ hist'.paid => sub'.status # "absent"
      /\ FailuresCounted' /\ PlanIsPaidFor'
  BY DEF Sound, Downgrade
<1>2. /\ retries' \in [waiting : 0..MaxRetries, due : Nat]
      /\ retries'.waiting + retries'.due <= MaxRetries + faults + again
  BY DEF Sound, Downgrade
<1>3. /\ retries'.waiting \in 0..MaxRetries /\ retries'.due \in 0..(MaxRetries + MaxFaults)
      /\ RetriesPaidFor'
  BY <1>2, BillingAssumption DEF RetriesPaidFor, IInv, TypeOK
<1>4. retries' \in [waiting : 0..MaxRetries, due : 0..(MaxRetries + MaxFaults)]
  BY <1>2, <1>3
<1>5. ASSUME NEW t \in Sessions
      PROVE  /\ ses'[t].mem.auth \/ ses'[t].step = "recover" => hist'.paid
             /\ ses'[t].mem.status # "absent" => sub'.status # "absent"
  <2>1. CASE t = s
    BY <2>1 DEF Follows
  <2>2. CASE t # s
    BY <1>1, <2>2 DEF Follows, IInv, CardWasPaid, RowStays
  <2> QED BY <2>1, <2>2
<1>6. ASSUME NEW e \in Webhooks, Kind[e] = "charge.success", e \notin Tiered,
             hook'[e] # "absent"
      PROVE  hist'.renewed
  BY <1>1, <1>6 DEF IInv, CardWasPaid
<1>7. CardWasPaid'
  BY <1>1, <1>5, <1>6 DEF CardWasPaid
<1>8. RowStays'
  BY <1>1, <1>5 DEF RowStays
<1> QED BY <1>1, <1>3, <1>4, <1>7, <1>8 DEF Follows

\* The part about ATTENTION.
LEMMA AttentionPart ==
    ASSUME IInv, NEW s \in Sessions, NEW passing \in BOOLEAN, Attended(passing), Follows(s),
           hist.outdated => hist'.outdated,
           passing => \/ ses[s].step \notin {"dunning", "recover"}
                      \/ ses'[s].step \in {"dunning", "recover"}
    PROVE  AttentionHasRetry'
<1> SUFFICES ASSUME sub'.status = "attention",
                    ~(retries'.waiting + retries'.due > 0), ~hist'.lost, ~hist'.outdated
             PROVE  \E t \in Sessions : ses'[t].step \in {"dunning", "recover"}
  BY DEF AttentionHasRetry
<1>1. passing /\ sub.status = "attention" /\ retries' = retries /\ ~hist.lost /\ ~hist.outdated
  BY DEF Attended
<1>2. PICK t \in Sessions : ses[t].step \in {"dunning", "recover"}
  BY <1>1 DEF IInv, AttentionHasRetry
<1>3. CASE t = s
  BY <1>1, <1>2, <1>3
<1>4. CASE t # s
  BY <1>2, <1>4 DEF Follows
<1> QED BY <1>3, <1>4

\* The part about stored webhooks, when no run of one completes.
LEMMA HooksKept ==
    ASSUME IInv, NEW s \in Sessions, Follows(s), hook' = hook, hist'.done = hist.done
    PROVE  HooksHeld' /\ OpenNotDone'
<1>1. HooksHeld'
  BY DEF IInv, HooksHeld, Follows
<1>2. OpenNotDone'
  BY DEF IInv, OpenNotDone
<1> QED BY <1>1, <1>2

\* The same when session s ends its run; only a COMPLETED run is counted.
LEMMA HookEnds ==
    ASSUME IInv, NEW s \in Sessions, Follows(s), ses[s].step = "webhook",
           NEW e \in Webhooks, e = ses[s].e,
           NEW x \in {"queued", "completed", "lost"}, hook' = [hook EXCEPT ![e] = x],
           hist'.done \in [Webhooks -> 0..2],
           \A k \in Webhooks : k # e => hist'.done[k] = hist.done[k],
           hist'.done[e] <= IF x = "completed" THEN 1 ELSE 0
    PROVE  /\ hook' \in [Webhooks -> {"absent", "queued", "running", "completed", "lost"}]
           /\ \A k \in Webhooks : hook'[k] # "absent" => hook[k] # "absent"
           /\ HooksHeld' /\ OpenNotDone'
<1>1. /\ hook' \in [Webhooks -> {"absent", "queued", "running", "completed", "lost"}]
      /\ hook'[e] = x /\ \A k \in Webhooks : k # e => hook'[k] = hook[k]
  BY DEF IInv, TypeOK
<1>2. hook[e] = "running"
  BY DEF IInv, HooksHeld
<1>3. HooksHeld'
  <2>1. ASSUME NEW t \in Sessions, ses'[t].step = "webhook"
        PROVE  t # s /\ ses'[t] = ses[t]
    BY <2>1 DEF Follows
  <2>2. ASSUME NEW t \in Sessions, ses'[t].step = "webhook"
        PROVE  ses'[t].e \in Webhooks /\ hook'[ses'[t].e] = "running"
    <3>1. t # s /\ ses'[t] = ses[t]
      BY <2>1, <2>2
    <3>2. ses[t].e \in Webhooks /\ hook[ses[t].e] = "running" /\ ses[t].e # ses[s].e
      BY <2>2, <3>1 DEF IInv, HooksHeld
    <3> QED BY <1>1, <3>1, <3>2
  <2> QED BY <2>1, <2>2 DEF HooksHeld, IInv
<1>4. OpenNotDone'
  <2> SUFFICES ASSUME NEW k \in Webhooks
               PROVE  /\ hist'.done[k] <= 1
                      /\ hook'[k] # "completed" => hist'.done[k] = 0
    BY DEF OpenNotDone
  <2>1. CASE k = e
    BY <1>1, <2>1
  <2>2. CASE k # e
    BY <1>1, <2>2 DEF IInv, OpenNotDone
  <2> QED BY <2>1, <2>2
<1> QED BY <1>1, <1>2, <1>3, <1>4

\* The sessions that run a renewal are finitely many.
LEMMA RenewingFinite ==
    IsFiniteSet(Renewing) /\ Cardinality(Renewing) \in Nat
<1>1. Renewing \subseteq Sessions
  BY DEF Renewing
<1> QED BY <1>1, BillingAssumption, FS_Subset, FS_CardinalityType

\* The part about renewals, when session s has nothing to do with them.
LEMMA RenewalsKept ==
    ASSUME IInv, NEW s \in Sessions, Follows(s), renewals' = renewals,
           ses[s].step # "renewal", ses'[s].step # "renewal"
    PROVE  RenewalsCreated'
<1>1. Renewing' = Renewing
  BY DEF Renewing, Follows
<1> QED BY <1>1 DEF IInv, RenewalsCreated

\* The same when session s ends its renewal, whose job may be queued again.
LEMMA RenewalEnds ==
    ASSUME IInv, NEW s \in Sessions, Follows(s), ses[s].step = "renewal",
           ses'[s].step # "renewal", NEW again \in {0, 1},
           renewals' = [renewals EXCEPT !.queued = @ + again]
    PROVE  /\ RenewalsCreated'
           /\ renewals' \in [queued : 0..MaxRenewals, created : 0..MaxRenewals]
<1>1. Renewing' = Renewing \ {s} /\ s \in Renewing
  BY DEF Renewing, Follows
<1>2. Cardinality(Renewing') = Cardinality(Renewing) - 1 /\ Cardinality(Renewing) \in Nat
  BY <1>1, RenewingFinite, FS_RemoveElement
<1>3. Cardinality(Renewing') \in Nat
  BY <1>1, RenewingFinite, FS_RemoveElement, FS_CardinalityType
<1>4. /\ renewals.queued \in Nat /\ renewals.created \in 0..MaxRenewals
      /\ renewals \in [queued : 0..MaxRenewals, created : 0..MaxRenewals]
      /\ renewals.queued + Cardinality(Renewing) <= renewals.created
  BY DEF IInv, TypeOK, RenewalsCreated
<1>5. renewals'.queued = renewals.queued + again /\ renewals'.created = renewals.created
  BY <1>4
<1>6. RenewalsCreated' /\ renewals.queued + again \in 0..MaxRenewals
  BY <1>2, <1>3, <1>4, <1>5, BillingAssumption DEF RenewalsCreated
<1> QED BY <1>4, <1>6

\* The whole invariant, from its parts.
LEMMA Assemble ==
    ASSUME IInv, NEW s \in Sessions, NEW h, NEW again \in {0, 1}, Sound(h, again),
           NEW passing \in BOOLEAN, Attended(passing), Follows(s),
           passing => \/ ses[s].step \notin {"dunning", "recover"}
                      \/ ses'[s].step \in {"dunning", "recover"},
           faults' \in 0..MaxFaults, faults + again <= faults',
           hook' \in [Webhooks -> {"absent", "queued", "running", "completed", "lost"}],
           \A e \in Webhooks : hook'[e] # "absent" => hook[e] # "absent",
           HooksHeld', OpenNotDone',
           renewals' \in [queued : 0..MaxRenewals, created : 0..MaxRenewals],
           RenewalsCreated'
    PROVE  IInv' /\ Downgrade
<1>1. (hist.outdated => hist'.outdated) /\ Downgrade
  BY DEF Sound
<1>2. /\ sub' \in Row /\ plan' \in Tiers /\ hist' \in History
      /\ retries' \in [waiting : 0..MaxRetries, due : 0..(MaxRetries + MaxFaults)]
      /\ ses' \in [Sessions -> Session]
      /\ RetriesPaidFor' /\ CardWasPaid' /\ RowStays'
      /\ FailuresCounted' /\ PlanIsPaidFor'
  BY RowPart
<1>3. AttentionHasRetry'
  BY <1>1, AttentionPart
<1>4. TypeOK'
  BY <1>2 DEF TypeOK
<1> QED BY <1>1, <1>2, <1>3, <1>4 DEF IInv

\* A webhook that is processed to the end or aborted after its commit.
LEMMA HandleWebhookStep ==
    ASSUME IInv, NEW s \in Sessions, HandleWebhook(s)
    PROVE  IInv' /\ Downgrade
<1>1. PICK e \in Webhooks : e = ses[s].e
  BY DEF HandleWebhook, IInv, HooksHeld
<1>2. hist \in History /\ faults \in 0..MaxFaults /\ (hist.renewed => hist.paid)
  BY RowFacts DEF IInv, TypeOK
<1>3. Follows(s) /\ ses'[s].step = "idle" /\ ses[s].step = "webhook" /\ renewals' = renewals
  BY CloseFollows DEF HandleWebhook
<1>4. hook[e] = "running" /\ hist.done \in [Webhooks -> 0..2] /\ hist.done[e] = 0
  BY <1>1, <1>2, <1>3 DEF IInv, HooksHeld, OpenNotDone, History
<1>5. ASSUME NEW h, Carries(h), Handled(s, h), faults' \in 0..MaxFaults, faults <= faults',
             NEW x \in {"queued", "completed"}, hook' = [hook EXCEPT ![e] = x],
             h.done \in [Webhooks -> 0..2],
             \A k \in Webhooks : k # e => h.done[k] = hist.done[k],
             h.done[e] <= IF x = "completed" THEN 1 ELSE 0
      PROVE  IInv' /\ Downgrade
  <2>1. Sound(h, 0) /\ Attended(TRUE)
    BY <1>3, <1>5, HandledSound
  <2>2. hist'.done = h.done
    BY <2>1 DEF Sound
  <2>3. /\ hook' \in [Webhooks -> {"absent", "queued", "running", "completed", "lost"}]
        /\ \A k \in Webhooks : hook'[k] # "absent" => hook[k] # "absent"
        /\ HooksHeld' /\ OpenNotDone'
    BY <1>1, <1>3, <1>5, <2>2, HookEnds
  <2>4. faults + 0 <= faults'
    BY <1>2, <1>5
  <2>5. RenewalsCreated' /\ renewals' \in [queued : 0..MaxRenewals, created : 0..MaxRenewals]
    BY <1>3, RenewalsKept DEF IInv, TypeOK
  <2> QED BY <1>3, <1>5, <2>1, <2>3, <2>4, <2>5, Assemble
<1>6. CASE /\ hook' = [hook EXCEPT ![e] = "completed"]
           /\ Handled(s, [hist EXCEPT !.done[e] = IF @ = 2 THEN 2 ELSE @ + 1])
           /\ UNCHANGED faults
  <2> DEFINE h == [hist EXCEPT !.done[e] = IF @ = 2 THEN 2 ELSE @ + 1]
  <2>1. /\ h.paid = hist.paid /\ h.outdated = hist.outdated /\ h.renewed = hist.renewed
        /\ h.failed = hist.failed /\ h.lost = hist.lost
        /\ h.done = [hist.done EXCEPT ![e] = 1]
    BY <1>2, <1>4 DEF History
  <2>2. h.done \in [Webhooks -> 0..2]
    BY <1>4, <2>1
  <2>3. h \in History
    BY <1>2, <2>1, <2>2 DEF History
  <2>4. Handled(s, h)
    BY <1>6
  <2> HIDE DEF h
  <2>5. Carries(h)
    BY <1>2, <2>1, <2>3 DEF Carries
  <2>6. h.done[e] <= 1 /\ \A k \in Webhooks : k # e => h.done[k] = hist.done[k]
    BY <1>4, <2>1
  <2>7. faults' \in 0..MaxFaults /\ faults <= faults'
    BY <1>2, <1>6
  <2> QED BY <1>5, <1>6, <2>2, <2>4, <2>5, <2>6, <2>7
<1>7. CASE /\ Fault
           /\ hook' = [hook EXCEPT ![e] = "queued"]
           /\ Handled(s, [hist EXCEPT !.repeated = TRUE])
  <2> DEFINE h == [hist EXCEPT !.repeated = TRUE]
  <2>1. /\ h \in History
        /\ h.paid = hist.paid /\ h.outdated = hist.outdated /\ h.renewed = hist.renewed
        /\ h.failed = hist.failed /\ h.lost = hist.lost /\ h.done = hist.done
    BY <1>2 DEF History
  <2>2. Handled(s, h)
    BY <1>7
  <2> HIDE DEF h
  <2>3. Carries(h)
    BY <1>2, <2>1 DEF Carries
  <2>4. faults' \in 0..MaxFaults /\ faults <= faults'
    BY <1>2, <1>7, BillingAssumption DEF Fault
  <2>5. h.done \in [Webhooks -> 0..2] /\ h.done[e] <= 0
    BY <1>4, <2>1
  <2> QED BY <1>5, <1>7, <2>1, <2>2, <2>3, <2>4, <2>5
<1> QED BY <1>1, <1>6, <1>7 DEF HandleWebhook, Handled

\* The same for a session that runs a retry.
LEMMA RetryStep ==
    ASSUME IInv, NEW s \in Sessions, ses[s].step \in {"dunning", "recover"},
           NEW h, NEW again \in {0, 1}, Sound(h, again), h.done = hist.done,
           NEW passing \in BOOLEAN, Attended(passing), Follows(s),
           passing => ses'[s].step \in {"dunning", "recover"},
           ses'[s].step # "renewal",
           faults' \in 0..MaxFaults, faults + again <= faults',
           hook' = hook, renewals' = renewals
    PROVE  IInv' /\ Downgrade
<1>1. hist'.done = hist.done
  BY DEF Sound
<1>2. HooksHeld' /\ OpenNotDone'
  BY <1>1, HooksKept
<1>3. RenewalsCreated'
  BY RenewalsKept
<1>4. /\ hook' \in [Webhooks -> {"absent", "queued", "running", "completed", "lost"}]
      /\ renewals' \in [queued : 0..MaxRenewals, created : 0..MaxRenewals]
      /\ \A e \in Webhooks : hook'[e] # "absent" => hook[e] # "absent"
  BY DEF IInv, TypeOK
<1> QED BY <1>2, <1>3, <1>4, Assemble

\* A charge of the stored card adds nothing that the row did not imply.
LEMMA RenewedCarries ==
    ASSUME IInv, NEW s \in Sessions
    PROVE  /\ Carries(hist)
           /\ ses[s].mem.auth => /\ Carries(Renewed(hist))
                                 /\ Renewed(hist).done = hist.done
                                 /\ Renewed(hist).paid
           /\ \A h \in Refusals(s) : Carries(h) /\ h.done = hist.done
<1>1. hist \in History /\ (hist.renewed => hist.paid)
  BY RowFacts
<1>2. Carries(hist)
  BY <1>1 DEF Carries
<1>3. ASSUME ses[s].mem.auth
      PROVE  Carries(Renewed(hist)) /\ Renewed(hist).done = hist.done /\ Renewed(hist).paid
  <2> DEFINE g == Renewed(hist)
  <2>1. hist.paid
    BY <1>3, RowFacts
  <2>2. g \in History
    BY <1>1 DEF Renewed, Paid, History
  <2>3. /\ g.paid
        /\ g.outdated = hist.outdated /\ g.failed = hist.failed /\ g.lost = hist.lost
        /\ g.done = hist.done
    BY <1>1 DEF Renewed, Paid, History
  <2>4. g.renewed
    BY <1>1 DEF Renewed, Paid, History
  <2> HIDE DEF g
  <2>5. g.paid = hist.paid
    BY <1>1, <2>1, <2>2, <2>3 DEF History
  <2>6. Carries(g)
    BY <1>1, <2>2, <2>3, <2>4, <2>5 DEF Carries
  <2> QED BY <2>3, <2>6 DEF g
<1>4. \A h \in Refusals(s) : Carries(h) /\ h.done = hist.done
  BY <1>2, <1>3 DEF Refusals
<1> QED BY <1>2, <1>3, <1>4

\* A retry is refused.
LEMMA RetryRefusedStep ==
    ASSUME IInv, NEW s \in Sessions, RetryRefused(s)
    PROVE  IInv' /\ Downgrade
<1>1. PICK h \in Refusals(s), again \in {0, 1} : FailedPayment(s, FALSE, h, again) /\ Ends(again)
  BY DEF RetryRefused
<1>2. Carries(h) /\ h.done = hist.done
  BY RenewedCarries
<1>3. Sound(h, again) /\ Attended(FALSE)
  BY <1>1, <1>2, FailedPaymentSound
<1>4. faults' \in 0..MaxFaults /\ faults + again <= faults'
  BY <1>1, BillingAssumption DEF Ends, Fault, IInv, TypeOK
<1>5. /\ Follows(s) /\ ses'[s].step = "idle" /\ ses[s].step = "dunning"
      /\ hook' = hook /\ renewals' = renewals
  BY CloseFollows DEF RetryRefused
<1> QED BY <1>2, <1>3, <1>4, <1>5, RetryStep

\* The date a charge of the stored card moves is all it changes in the copy.
LEMMA NotDue ==
    ASSUME NEW mem \in Row, NEW new, new = [mem EXCEPT !.due = FALSE]
    PROVE  /\ new \in Row /\ new.status = mem.status /\ new.tier = mem.tier
           /\ new.auth = mem.auth /\ new.attempts = mem.attempts
BY DEF Row

\* A retry is charged.
LEMMA RetryChargedStep ==
    ASSUME IInv, NEW s \in Sessions, RetryCharged(s)
    PROVE  IInv' /\ Downgrade
<1> DEFINE new == [ses[s].mem EXCEPT !.due = FALSE]
           h == Renewed(hist)
<1>1. /\ ses[s].step = "dunning" /\ ses[s].mem.auth
      /\ Write(s, new, h)
      /\ ses' = [ses EXCEPT ![s].step = "recover", ![s].mem = new]
      /\ UNCHANGED <<plan, hook, retries, renewals, faults>>
  BY DEF RetryCharged
<1>2. ses[s].mem \in Row /\ ses[s] \in Session
  BY DEF IInv, TypeOK, Session
<1>3. /\ new \in Row /\ new.status = ses[s].mem.status /\ new.tier = ses[s].mem.tier
      /\ new.auth = ses[s].mem.auth /\ new.attempts = ses[s].mem.attempts
  BY <1>2, NotDue
<1>4. Carries(h) /\ h.done = hist.done /\ h.paid
  BY <1>1, RenewedCarries
<1>5. /\ ses' \in [Sessions -> Session]
      /\ ses'[s].step = "recover" /\ ses'[s].mem = new
      /\ \A t \in Sessions \ {s} : ses'[t] = ses[t]
  <2> DEFINE x == [ses[s] EXCEPT !.step = "recover", !.mem = new]
  <2> HIDE DEF new
  <2>1. x \in Session /\ x.step = "recover" /\ x.mem = new
    BY <1>2, <1>3 DEF Session
  <2>2. ses' = [ses EXCEPT ![s] = x] /\ ses \in [Sessions -> Session]
    BY <1>1 DEF IInv, TypeOK
  <2> HIDE DEF x
  <2> QED BY <2>1, <2>2
<1> HIDE DEF new, h
<1>6. Sound(h, 0) /\ Attended(TRUE)
  BY <1>1, <1>3, <1>4, PlainWrite
<1>7. /\ hist.paid => hist'.paid
      /\ sub.status # "absent" => sub'.status # "absent"
  BY <1>6 DEF Sound
<1>8. hist.paid /\ (ses[s].mem.status # "absent" => sub.status # "absent")
  BY <1>1, RowFacts
<1>9. Follows(s)
  BY <1>3, <1>5, <1>7, <1>8 DEF Follows
<1>10. faults' \in 0..MaxFaults /\ faults + 0 <= faults'
  BY <1>1 DEF IInv, TypeOK
<1> QED BY <1>1, <1>4, <1>5, <1>6, <1>9, <1>10, RetryStep

\* The dunning state is cleared and the plan given back.
LEMMA RetryRecoversStep ==
    ASSUME IInv, NEW s \in Sessions, RetryRecovers(s)
    PROVE  IInv' /\ Downgrade
<1> DEFINE mem == ses[s].mem
           new == [mem EXCEPT !.status = "active", !.attempts = 0, !.recent = FALSE]
           h == Cleared(hist)
<1>1. PICK again \in {0, 1} : retries' = [retries EXCEPT !.due = @ + again] /\ Ends(again)
  BY DEF RetryRecovers
<1>2. /\ ses[s].step = "recover" /\ Write(s, new, h) /\ plan' = mem.tier
      /\ Close(s) /\ hook' = hook /\ renewals' = renewals
  BY DEF RetryRecovers
<1>3. /\ mem \in Row /\ hist \in History /\ plan \in Tiers
      /\ retries \in [waiting : 0..MaxRetries, due : Nat]
      /\ retries.waiting + retries.due <= MaxRetries + faults
      /\ MaxRetries \in Nat /\ DunningMax \in Nat \ {0} /\ faults \in Nat
      /\ hist.renewed => hist.paid
  BY RowFacts
<1>4. /\ new \in Row /\ new.status = "active" /\ new.attempts = 0
      /\ new.tier = mem.tier /\ new.auth = mem.auth
  BY <1>3 DEF Row
<1>5. /\ h \in History
      /\ h.done = hist.done /\ h.paid = hist.paid /\ h.renewed = hist.renewed
      /\ h.outdated = hist.outdated /\ h.failed = 0 /\ h.lost = hist.lost
  <2>1. 0 \in 0..DunningMax
    BY <1>3
  <2> QED BY <1>3, <2>1 DEF Cleared, History
<1>6. hist.paid
  BY <1>2 DEF IInv, CardWasPaid
<1>7. retries'.waiting = retries.waiting /\ retries'.due = retries.due + again
  BY <1>1, <1>3
<1>8. /\ retries' \in [waiting : 0..MaxRetries, due : Nat]
      /\ retries'.waiting + retries'.due <= MaxRetries + faults + again
  BY <1>1, <1>3, <1>7
<1> HIDE DEF new, h
<1>9. /\ sub' \in Row
      /\ sub'.status = IF new.status = mem.status THEN sub.status ELSE new.status
      /\ sub'.tier = sub.tier
      /\ hist' \in History
      /\ hist'.done = h.done /\ hist'.paid = h.paid /\ hist'.renewed = h.renewed
      /\ h.outdated => hist'.outdated
      /\ ~hist'.outdated => sub = mem /\ sub' = new /\ hist'.failed = h.failed
  BY <1>2, <1>4, <1>5, WriteEffect DEF IInv
<1>10. FailuresCounted'
  BY <1>4, <1>5, <1>9 DEF FailuresCounted
<1>11. PlanIsPaidFor'
  BY <1>2, <1>5, <1>6, <1>9 DEF PlanIsPaidFor, PlanFollowsTier, PaidPlanWasPaid
<1>12. sub'.status # "absent"
  BY <1>4, <1>9, RowFacts
<1>13. plan' \in Tiers /\ Downgrade
  <2>1. mem.tier \in Tiers
    BY <1>3 DEF Row
  <2>2. hist'.outdated \/ plan' = plan
    BY <1>2, <1>5, <1>6, <1>9, RowFacts
  <2> QED BY <1>2, <2>1, <2>2 DEF Downgrade
<1>14. Sound(h, again)
  BY <1>5, <1>6, <1>8, <1>9, <1>10, <1>11, <1>12, <1>13, <1>3 DEF Sound
<1>15. Attended(FALSE)
  BY <1>4, <1>9 DEF Attended
<1>16. faults' \in 0..MaxFaults /\ faults + again <= faults'
  BY <1>1, BillingAssumption DEF Ends, Fault, IInv, TypeOK
<1>17. Follows(s) /\ ses'[s].step = "idle"
  BY <1>2, CloseFollows
<1> QED BY <1>2, <1>5, <1>14, <1>15, <1>16, <1>17, RetryStep

\* A session that runs a renewal ends; the job may be queued again.
LEMMA RenewalStep ==
    ASSUME IInv, NEW s \in Sessions, ses[s].step = "renewal", Close(s),
           NEW h, Sound(h, 0), h.done = hist.done, Attended(TRUE),
           NEW again \in {0, 1}, renewals' = [renewals EXCEPT !.queued = @ + again],
           faults' \in 0..MaxFaults, faults <= faults', hook' = hook
    PROVE  IInv' /\ Downgrade
<1>1. Follows(s) /\ ses'[s].step = "idle"
  BY CloseFollows
<1>2. hist'.done = hist.done
  BY DEF Sound
<1>3. HooksHeld' /\ OpenNotDone'
  BY <1>1, <1>2, HooksKept
<1>4. RenewalsCreated' /\ renewals' \in [queued : 0..MaxRenewals, created : 0..MaxRenewals]
  BY <1>1, RenewalEnds
<1>5. /\ hook' \in [Webhooks -> {"absent", "queued", "running", "completed", "lost"}]
      /\ \A e \in Webhooks : hook'[e] # "absent" => hook[e] # "absent"
      /\ faults + 0 <= faults'
  BY DEF IInv, TypeOK
<1> QED BY <1>1, <1>3, <1>4, <1>5, Assemble

\* A renewal is charged.
LEMMA RenewalChargedStep ==
    ASSUME IInv, NEW s \in Sessions, RenewalCharged(s)
    PROVE  IInv' /\ Downgrade
<1> DEFINE new == [ses[s].mem EXCEPT !.due = FALSE]
           h == Renewed(hist)
<1>1. PICK again \in {0, 1} : renewals' = [renewals EXCEPT !.queued = @ + again] /\ Ends(again)
  BY DEF RenewalCharged
<1>2. /\ ses[s].step = "renewal" /\ ses[s].mem.auth /\ Write(s, new, h) /\ Close(s)
      /\ UNCHANGED <<plan, hook, retries>>
  BY DEF RenewalCharged
<1>3. /\ new \in Row /\ new.status = ses[s].mem.status /\ new.tier = ses[s].mem.tier
      /\ new.auth = ses[s].mem.auth /\ new.attempts = ses[s].mem.attempts
  <2>1. ses[s].mem \in Row
    BY RowFacts
  <2> QED BY <2>1, NotDue
<1>4. Carries(h) /\ h.done = hist.done
  BY <1>2, RenewedCarries
<1> HIDE DEF new, h
<1>5. Sound(h, 0) /\ Attended(TRUE)
  BY <1>2, <1>3, <1>4, PlainWrite
<1>6. faults' \in 0..MaxFaults /\ faults <= faults'
  BY <1>1, BillingAssumption DEF Ends, Fault, IInv, TypeOK
<1> QED BY <1>1, <1>2, <1>4, <1>5, <1>6, RenewalStep

\* A session that ends without a write or a note of its own.
LEMMA NothingNoted ==
    ASSUME IInv, NEW s \in Sessions, NEW h, Carries(h), hist' = h,
           UNCHANGED <<sub, plan, retries>>
    PROVE  Sound(h, 0) /\ Attended(TRUE)
<1>1. /\ h \in History
      /\ h.paid = hist.paid /\ h.outdated = hist.outdated
      /\ h.failed = hist.failed
      /\ hist.lost => h.lost
      /\ hist.renewed => h.renewed
      /\ h.renewed => h.paid
  BY DEF Carries
<1>2. FailuresCounted' /\ PlanIsPaidFor'
  BY <1>1, RowFacts DEF FailuresCounted, PlanIsPaidFor, PlanFollowsTier, PaidPlanWasPaid
<1>3. Sound(h, 0)
  BY <1>1, <1>2, RowFacts DEF Sound, Downgrade
<1>4. Attended(TRUE)
  BY <1>1 DEF Attended
<1> QED BY <1>3, <1>4

\* A renewal is refused.
LEMMA RenewalRefusedStep ==
    ASSUME IInv, NEW s \in Sessions, RenewalRefused(s)
    PROVE  IInv' /\ Downgrade
<1>1. PICK h \in Refusals(s) : hist' = h
  BY DEF RenewalRefused
<1>2. /\ ses[s].step = "renewal" /\ Close(s) /\ UNCHANGED <<sub, plan, retries>>
      /\ hook' = hook /\ faults' = faults /\ renewals' = renewals
  BY DEF RenewalRefused
<1>3. Carries(h) /\ h.done = hist.done
  BY RenewedCarries
<1>4. Sound(h, 0) /\ Attended(TRUE)
  BY <1>1, <1>2, <1>3, NothingNoted
<1>5. renewals' = [renewals EXCEPT !.queued = @ + 0]
  BY <1>2 DEF IInv, TypeOK
<1>6. faults' \in 0..MaxFaults /\ faults <= faults'
  BY <1>2 DEF IInv, TypeOK
<1> QED BY <1>2, <1>3, <1>4, <1>5, <1>6, RenewalStep

\* A session that processes a webhook ends without a completed run.
LEMMA WebhookDropped ==
    ASSUME IInv, NEW s \in Sessions, ses[s].step = "webhook", Close(s),
           NEW h, Sound(h, 0), h.done = hist.done, Attended(TRUE),
           NEW x \in {"queued", "lost"}, hook' = [hook EXCEPT ![ses[s].e] = x],
           faults' \in 0..MaxFaults, faults <= faults', renewals' = renewals
    PROVE  IInv' /\ Downgrade
<1>1. PICK e \in Webhooks : e = ses[s].e
  BY DEF IInv, HooksHeld
<1>2. Follows(s) /\ ses'[s].step = "idle"
  BY CloseFollows
<1>3. hist'.done = hist.done /\ hist.done \in [Webhooks -> 0..2] /\ hist.done[e] = 0
  <2>1. hook[e] = "running" /\ hist \in History
    BY <1>1 DEF IInv, TypeOK, HooksHeld
  <2> QED BY <2>1 DEF Sound, IInv, OpenNotDone, History
<1>4. /\ hook' \in [Webhooks -> {"absent", "queued", "running", "completed", "lost"}]
      /\ \A k \in Webhooks : hook'[k] # "absent" => hook[k] # "absent"
      /\ HooksHeld' /\ OpenNotDone'
  <2>1. /\ hook' = [hook EXCEPT ![e] = x] /\ x \in {"queued", "completed", "lost"}
        /\ hist'.done \in [Webhooks -> 0..2]
        /\ \A k \in Webhooks : k # e => hist'.done[k] = hist.done[k]
        /\ hist'.done[e] <= IF x = "completed" THEN 1 ELSE 0
    BY <1>1, <1>3
  <2> QED BY <1>1, <1>2, <2>1, HookEnds
<1>5. RenewalsCreated' /\ renewals' \in [queued : 0..MaxRenewals, created : 0..MaxRenewals]
  BY <1>2, RenewalsKept DEF IInv, TypeOK
<1>6. faults + 0 <= faults'
  BY DEF IInv, TypeOK
<1> QED BY <1>2, <1>4, <1>5, <1>6, Assemble

\* A charge finds that the row has been created meanwhile.
LEMMA InsertConflictStep ==
    ASSUME IInv, NEW s \in Sessions, InsertConflict(s)
    PROVE  IInv' /\ Downgrade
<1>1. /\ ses[s].step = "webhook" /\ hook' = [hook EXCEPT ![ses[s].e] = "queued"] /\ Close(s)
      /\ UNCHANGED <<sub, plan, retries>> /\ hist' = hist
      /\ renewals' = renewals /\ faults' = faults
  BY DEF InsertConflict
<1>2. Carries(hist)
  BY RenewedCarries
<1>3. Sound(hist, 0) /\ Attended(TRUE)
  BY <1>1, <1>2, NothingNoted
<1>4. faults' \in 0..MaxFaults /\ faults <= faults'
  BY <1>1 DEF IInv, TypeOK
<1> QED BY <1>1, <1>3, <1>4, WebhookDropped

\* A handler fails before it writes.
LEMMA AbortHandlerStep ==
    ASSUME IInv, NEW s \in Sessions, AbortHandler(s)
    PROVE  IInv' /\ Downgrade
<1>1. /\ Close(s) /\ UNCHANGED <<sub, plan>> /\ hist' = hist
      /\ faults < MaxFaults /\ faults' = faults + 1
  BY DEF AbortHandler, Fault
<1>2. faults' \in 0..MaxFaults /\ faults <= faults' /\ faults + 1 <= faults'
  BY <1>1, BillingAssumption DEF IInv, TypeOK
<1>3. Carries(hist)
  BY RenewedCarries
<1>4. CASE /\ ses[s].step = "webhook"
           /\ hook' = [hook EXCEPT ![ses[s].e] = "queued"]
           /\ UNCHANGED <<retries, renewals>>
  <2>1. Sound(hist, 0) /\ Attended(TRUE)
    BY <1>1, <1>3, <1>4, NothingNoted
  <2> QED BY <1>1, <1>2, <1>4, <2>1, WebhookDropped
<1>5. CASE /\ ses[s].step \in {"dunning", "recover"}
           /\ retries' = [retries EXCEPT !.due = @ + 1]
           /\ UNCHANGED <<hook, renewals>>
  <2>1. /\ retries \in [waiting : 0..MaxRetries, due : Nat]
        /\ retries.waiting + retries.due <= MaxRetries + faults
        /\ MaxRetries \in Nat /\ faults \in Nat
    BY RowFacts
  <2>2. retries'.waiting = retries.waiting /\ retries'.due = retries.due + 1
    BY <1>5, <2>1
  <2>3. /\ retries' \in [waiting : 0..MaxRetries, due : Nat]
        /\ retries'.waiting + retries'.due <= MaxRetries + faults + 1
        /\ retries'.waiting + retries'.due > 0
    BY <1>5, <2>1, <2>2
  <2>4. FailuresCounted' /\ PlanIsPaidFor'
    BY <1>1, RowFacts DEF FailuresCounted, PlanIsPaidFor, PlanFollowsTier, PaidPlanWasPaid
  <2>5. Sound(hist, 1)
    BY <1>1, <2>3, <2>4, RowFacts DEF Sound, Downgrade
  <2>6. Attended(FALSE)
    BY <2>3 DEF Attended
  <2>7. Follows(s) /\ ses'[s].step = "idle"
    BY <1>1, CloseFollows
  <2> QED BY <1>2, <1>5, <2>5, <2>6, <2>7, RetryStep
<1>6. CASE /\ ses[s].step = "renewal"
           /\ renewals' = [renewals EXCEPT !.queued = @ + 1]
           /\ UNCHANGED <<hook, retries>>
  <2>1. Sound(hist, 0) /\ Attended(TRUE)
    BY <1>1, <1>3, <1>6, NothingNoted
  <2> QED BY <1>1, <1>2, <1>6, <2>1, RenewalStep
<1> QED BY <1>4, <1>5, <1>6 DEF AbortHandler

\* The process dies.
LEMMA CrashStep ==
    ASSUME IInv, NEW s \in Sessions, Crash(s)
    PROVE  IInv' /\ Downgrade
<1> DEFINE h == [hist EXCEPT !.lost = @ \/ ses[s].step \in {"dunning", "recover"}]
<1>1. /\ Close(s) /\ UNCHANGED <<sub, plan, retries>> /\ renewals' = renewals
      /\ faults < MaxFaults /\ faults' = faults + 1
      /\ Note(h) /\ ses[s].step # "idle"
  BY DEF Crash, Fault
<1>2. faults' \in 0..MaxFaults /\ faults <= faults' /\ faults + 0 <= faults'
  BY <1>1, BillingAssumption DEF IInv, TypeOK
<1>3. /\ h \in History
      /\ h.done = hist.done /\ h.paid = hist.paid /\ h.renewed = hist.renewed
      /\ h.outdated = hist.outdated /\ h.failed = hist.failed
      /\ h.lost = (hist.lost \/ ses[s].step \in {"dunning", "recover"})
  <2>1. hist \in History
    BY RowFacts
  <2> QED BY <2>1 DEF History
<1> HIDE DEF h
<1>4. Carries(h)
  <2>1. hist.renewed => hist.paid
    BY RowFacts
  <2>2. hist.lost => h.lost
    BY <1>3
  <2> QED BY <1>3, <2>1, <2>2 DEF Carries
<1>5. Sound(h, 0) /\ Attended(TRUE)
  BY <1>1, <1>4, NothingWritten
<1>6. CASE ses[s].step = "webhook"
  <2>1. hook' = [hook EXCEPT ![ses[s].e] = "lost"]
    BY <1>6 DEF Crash
  <2> QED BY <1>1, <1>2, <1>3, <1>5, <1>6, <2>1, WebhookDropped
<1>7. CASE ses[s].step \in {"dunning", "recover"}
  <2>1. hist'.lost \/ hist'.outdated
    BY <1>1, <1>3, <1>7, NoteKeeps
  <2>2. Attended(FALSE)
    BY <2>1 DEF Attended
  <2>3. Follows(s) /\ ses'[s].step = "idle"
    BY <1>1, CloseFollows
  <2>4. hook' = hook
    BY <1>7 DEF Crash
  <2> QED BY <1>1, <1>2, <1>3, <1>5, <1>7, <2>2, <2>3, <2>4, RetryStep
<1>8. CASE ses[s].step = "renewal"
  <2>1. hook' = hook
    BY <1>8 DEF Crash
  <2>2. renewals' = [renewals EXCEPT !.queued = @ + 0]
    BY <1>1 DEF IInv, TypeOK
  <2> QED BY <1>1, <1>2, <1>3, <1>5, <1>8, <2>1, <2>2, RenewalStep
<1>9. ses[s].step \in {"idle", "webhook", "dunning", "renewal", "recover"}
  BY DEF IInv, TypeOK, Session
<1> QED BY <1>1, <1>6, <1>7, <1>8, <1>9

\* A session starts a handler, which loads the row.
LEMMA Started ==
    ASSUME IInv, NEW s \in Sessions, NEW step \in {"webhook", "dunning", "renewal"},
           NEW e \in Webhooks \cup {NoEvent}, Start(s, step, e),
           UNCHANGED <<sub, plan, faults, hist>>,
           \A k \in Webhooks : hook'[k] # "absent" => hook[k] # "absent"
    PROVE  /\ ses' \in [Sessions -> Session]
           /\ ses[s].step = "idle" /\ ses'[s].step = step /\ ses'[s].e = e
           /\ \A t \in Sessions \ {s} : ses'[t] = ses[t]
           /\ CardWasPaid' /\ RowStays' /\ FailuresCounted' /\ PlanIsPaidFor'
<1> DEFINE x == [step |-> step, e |-> e, mem |-> sub]
<1>1. ses' = [ses EXCEPT ![s] = x] /\ ses[s] = Idle
  BY DEF Start
<1>2. x \in Session /\ x.step = step /\ x.e = e /\ x.mem = sub
  BY DEF Session, IInv, TypeOK
<1> HIDE DEF x
<1>3. /\ ses' \in [Sessions -> Session] /\ ses'[s] = x
      /\ \A t \in Sessions \ {s} : ses'[t] = ses[t]
  BY <1>1, <1>2 DEF IInv, TypeOK
<1>4. Idle.step = "idle"
  BY DEF Idle
<1>5. ASSUME NEW t \in Sessions
      PROVE  /\ ses'[t].mem.auth \/ ses'[t].step = "recover" => hist'.paid
             /\ ses'[t].mem.status # "absent" => sub'.status # "absent"
  <2>1. CASE t = s
    <3>1. ses'[t].mem = sub /\ ses'[t].step # "recover"
      BY <1>2, <1>3, <2>1
    <3> QED BY <3>1, RowFacts
  <2>2. CASE t # s
    BY <1>3, <2>2 DEF IInv, CardWasPaid, RowStays
  <2> QED BY <2>1, <2>2
<1>6. CardWasPaid'
  BY <1>5 DEF IInv, CardWasPaid
<1>7. RowStays'
  BY <1>5 DEF IInv, RowStays
<1>8. FailuresCounted' /\ PlanIsPaidFor'
  BY DEF IInv, FailuresCounted, PlanIsPaidFor, PlanFollowsTier, PaidPlanWasPaid
<1> QED BY <1>1, <1>2, <1>3, <1>4, <1>6, <1>7, <1>8

\* A stored webhook is taken up.
LEMMA StartWebhookStep ==
    ASSUME IInv, NEW s \in Sessions, NEW e \in Webhooks, StartWebhook(s, e)
    PROVE  IInv' /\ Downgrade
<1>1. /\ hook[e] = "queued" /\ hook' = [hook EXCEPT ![e] = "running"]
      /\ Start(s, "webhook", e)
      /\ UNCHANGED <<sub, plan, retries, renewals, faults, hist>>
  BY DEF StartWebhook
<1>2. /\ hook' \in [Webhooks -> {"absent", "queued", "running", "completed", "lost"}]
      /\ hook'[e] = "running" /\ \A k \in Webhooks : k # e => hook'[k] = hook[k]
  BY <1>1 DEF IInv, TypeOK
<1>3. /\ ses' \in [Sessions -> Session]
      /\ ses[s].step = "idle" /\ ses'[s].step = "webhook" /\ ses'[s].e = e
      /\ \A t \in Sessions \ {s} : ses'[t] = ses[t]
      /\ CardWasPaid' /\ RowStays' /\ FailuresCounted' /\ PlanIsPaidFor'
  BY <1>1, <1>2, Started
<1>4. TypeOK'
  BY <1>1, <1>2, <1>3 DEF IInv, TypeOK
<1>5. HooksHeld'
  <2>1. ASSUME NEW t \in Sessions \ {s}, ses[t].step = "webhook"
        PROVE  ses[t].e \in Webhooks /\ hook[ses[t].e] = "running" /\ ses[t].e # e
    BY <1>1, <2>1 DEF IInv, HooksHeld
  <2>2. ASSUME NEW t \in Sessions, ses'[t].step = "webhook"
        PROVE  ses'[t].e \in Webhooks /\ hook'[ses'[t].e] = "running"
    BY <1>2, <1>3, <2>1, <2>2
  <2>3. ASSUME NEW t \in Sessions, NEW u \in Sessions, ses'[t].step = "webhook",
               ses'[u].step = "webhook", ses'[t].e = ses'[u].e
        PROVE  t = u
    BY <1>3, <2>1, <2>3 DEF IInv, HooksHeld
  <2> QED BY <2>2, <2>3 DEF HooksHeld
<1>6. OpenNotDone'
  BY <1>1, <1>2 DEF IInv, OpenNotDone
<1>7. RetriesPaidFor'
  BY <1>1 DEF IInv, RetriesPaidFor
<1>8. RenewalsCreated'
  <2>1. Renewing' = Renewing
    BY <1>3 DEF Renewing
  <2> QED BY <1>1, <2>1 DEF IInv, RenewalsCreated
<1>9. AttentionHasRetry'
  BY <1>1, <1>3 DEF IInv, AttentionHasRetry
<1> QED BY <1>1, <1>3, <1>4, <1>5, <1>6, <1>7, <1>8, <1>9 DEF IInv, Downgrade

\* A retry is taken up.
LEMMA StartDunningStep ==
    ASSUME IInv, NEW s \in Sessions, StartDunning(s)
    PROVE  IInv' /\ Downgrade
<1>1. /\ retries.due > 0 /\ retries' = [retries EXCEPT !.due = @ - 1]
      /\ Start(s, "dunning", NoEvent)
      /\ UNCHANGED <<sub, plan, hook, renewals, faults, hist>>
  BY DEF StartDunning
<1>2. /\ ses' \in [Sessions -> Session]
      /\ ses[s].step = "idle" /\ ses'[s].step = "dunning"
      /\ \A t \in Sessions \ {s} : ses'[t] = ses[t]
      /\ CardWasPaid' /\ RowStays' /\ FailuresCounted' /\ PlanIsPaidFor'
  BY <1>1, Started
<1>3. /\ retries'.waiting = retries.waiting /\ retries'.due = retries.due - 1
      /\ retries' \in [waiting : 0..MaxRetries, due : 0..(MaxRetries + MaxFaults)]
      /\ RetriesPaidFor'
  <2>1. /\ retries \in [waiting : 0..MaxRetries, due : 0..(MaxRetries + MaxFaults)]
        /\ MaxRetries \in Nat /\ MaxFaults \in Nat /\ faults \in Nat
        /\ retries.waiting + retries.due <= MaxRetries + faults
    BY BillingAssumption DEF IInv, TypeOK, RetriesPaidFor
  <2>2. retries.due - 1 \in 0..(MaxRetries + MaxFaults)
    BY <1>1, <2>1
  <2>3. /\ retries'.waiting = retries.waiting /\ retries'.due = retries.due - 1
        /\ retries' \in [waiting : 0..MaxRetries, due : 0..(MaxRetries + MaxFaults)]
    BY <1>1, <2>1, <2>2
  <2> QED BY <1>1, <2>1, <2>3 DEF RetriesPaidFor
<1>4. TypeOK'
  BY <1>1, <1>2, <1>3 DEF IInv, TypeOK
<1>5. HooksHeld' /\ OpenNotDone'
  BY <1>1, <1>2 DEF IInv, HooksHeld, OpenNotDone
<1>6. RenewalsCreated'
  <2>1. Renewing' = Renewing
    BY <1>2 DEF Renewing
  <2> QED BY <1>1, <2>1 DEF IInv, RenewalsCreated
<1>7. AttentionHasRetry'
  BY <1>2 DEF AttentionHasRetry
<1> QED BY <1>1, <1>2, <1>3, <1>4, <1>5, <1>6, <1>7 DEF IInv, Downgrade

\* A renewal is taken up, or dropped because the subscription is not active.
LEMMA StartRenewalStep ==
    ASSUME IInv, NEW s \in Sessions, StartRenewal(s)
    PROVE  IInv' /\ Downgrade
<1>1. /\ renewals.queued > 0 /\ renewals' = [renewals EXCEPT !.queued = @ - 1]
      /\ UNCHANGED <<sub, plan, hook, retries, faults, hist>>
      /\ Start(s, "renewal", NoEvent) \/ ses' = ses
  BY DEF StartRenewal
<1>2. /\ renewals \in [queued : 0..MaxRenewals, created : 0..MaxRenewals]
      /\ renewals.queued + Cardinality(Renewing) <= renewals.created
      /\ MaxRenewals \in Nat
  BY BillingAssumption DEF IInv, TypeOK, RenewalsCreated
<1>3. renewals.queued - 1 \in 0..MaxRenewals
  BY <1>1, <1>2
<1>4. /\ renewals'.queued = renewals.queued - 1 /\ renewals'.created = renewals.created
      /\ renewals' \in [queued : 0..MaxRenewals, created : 0..MaxRenewals]
  BY <1>1, <1>2, <1>3
<1>5. IsFiniteSet(Renewing) /\ Cardinality(Renewing) \in Nat
  BY RenewingFinite
<1>6. CASE Start(s, "renewal", NoEvent)
  <2>1. /\ ses' \in [Sessions -> Session]
        /\ ses[s].step = "idle" /\ ses'[s].step = "renewal"
        /\ \A t \in Sessions \ {s} : ses'[t] = ses[t]
        /\ CardWasPaid' /\ RowStays' /\ FailuresCounted' /\ PlanIsPaidFor'
    BY <1>1, <1>6, Started
  <2>2. Renewing' = Renewing \cup {s} /\ s \notin Renewing
    BY <2>1 DEF Renewing
  <2>3. Cardinality(Renewing') = Cardinality(Renewing) + 1
    BY <1>5, <2>2, FS_AddElement
  <2>4. RenewalsCreated'
    BY <1>2, <1>4, <1>5, <2>3 DEF RenewalsCreated
  <2>5. TypeOK'
    BY <1>1, <1>4, <2>1 DEF IInv, TypeOK
  <2>6. HooksHeld' /\ OpenNotDone'
    BY <1>1, <2>1 DEF IInv, HooksHeld, OpenNotDone
  <2>7. RetriesPaidFor' /\ AttentionHasRetry'
    BY <1>1, <2>1 DEF IInv, RetriesPaidFor, AttentionHasRetry
  <2> QED BY <1>1, <2>1, <2>4, <2>5, <2>6, <2>7 DEF IInv, Downgrade
<1>7. CASE ses' = ses
  <2>1. RenewalsCreated'
    <3>1. Renewing' = Renewing
      BY <1>7 DEF Renewing
    <3> QED BY <1>2, <1>4, <1>5, <3>1 DEF RenewalsCreated
  <2>2. TypeOK'
    BY <1>1, <1>4, <1>7 DEF IInv, TypeOK
  <2>3. /\ RetriesPaidFor' /\ AttentionHasRetry' /\ HooksHeld' /\ OpenNotDone'
        /\ CardWasPaid' /\ RowStays' /\ FailuresCounted' /\ PlanIsPaidFor'
    BY <1>1, <1>7
       DEF IInv, RetriesPaidFor, AttentionHasRetry, HooksHeld, OpenNotDone, CardWasPaid,
           RowStays, FailuresCounted, PlanIsPaidFor, PlanFollowsTier, PaidPlanWasPaid
  <2> QED BY <1>1, <2>1, <2>2, <2>3 DEF IInv, Downgrade
<1> QED BY <1>1, <1>6, <1>7

-----------------------------------------------------------------------------
(***************************************************************************)
(* The clock, the customer, Paystack and the sweep.                        *)
(***************************************************************************)

\* Outside the handlers the row changes only in ways that keep its card, its tier
\* and its attempts, but for the checkout that creates it.
LEMMA RowStep ==
    ASSUME IInv, sub' \in Row, sub'.auth => sub.auth,
           sub.status # "absent" => sub'.status # "absent",
           sub'.tier = sub.tier \/ sub.status = "absent",
           sub'.attempts <= sub.attempts,
           sub'.status = "attention" => sub.status = "attention",
           UNCHANGED <<plan, hook, retries, renewals, ses, faults, hist>>
    PROVE  IInv' /\ Downgrade
<1>1. TypeOK'
  BY DEF IInv, TypeOK
<1>2. RetriesPaidFor' /\ HooksHeld' /\ OpenNotDone'
  BY DEF IInv, RetriesPaidFor, HooksHeld, OpenNotDone
<1>3. RenewalsCreated'
  <2>1. Renewing' = Renewing
    BY DEF Renewing
  <2> QED BY <2>1 DEF IInv, RenewalsCreated
<1>4. CardWasPaid' /\ RowStays'
  BY DEF IInv, CardWasPaid, RowStays
<1>5. FailuresCounted'
  <2>1. sub.attempts \in Nat /\ sub'.attempts \in Nat /\ hist.failed \in 0..DunningMax
    BY DEF IInv, TypeOK, Row, History
  <2> QED BY <2>1, BillingAssumption DEF IInv, FailuresCounted
<1>6. PlanIsPaidFor'
  BY DEF IInv, PlanIsPaidFor, PlanFollowsTier, PaidPlanWasPaid, RowStays
<1>7. AttentionHasRetry'
  BY DEF IInv, AttentionHasRetry
<1>8. Downgrade
  BY DEF Downgrade
<1> QED BY <1>1, <1>2, <1>3, <1>4, <1>5, <1>6, <1>7, <1>8 DEF IInv

\* The date comes, the debounce ends, a customer checks out or cancels.
LEMMA CustomerStep ==
    ASSUME IInv, DueDateComes \/ DebounceEnds \/ Checkout \/ CancelSubscription
    PROVE  IInv' /\ Downgrade
<1>1. sub \in Row /\ sub.attempts \in Nat
  BY DEF IInv, TypeOK, Row
<1>2. CASE DueDateComes
  <2> DEFINE new == [sub EXCEPT !.due = TRUE]
  <2>1. /\ new \in Row /\ new.auth = sub.auth /\ new.status = sub.status
        /\ new.tier = sub.tier /\ new.attempts = sub.attempts
    BY <1>1 DEF Row
  <2>2. sub' = new /\ UNCHANGED <<plan, hook, retries, renewals, ses, faults, hist>>
    BY <1>2 DEF DueDateComes
  <2> HIDE DEF new
  <2> QED BY <1>1, <2>1, <2>2, RowStep
<1>3. CASE DebounceEnds
  <2> DEFINE new == [sub EXCEPT !.recent = FALSE]
  <2>1. /\ new \in Row /\ new.auth = sub.auth /\ new.status = sub.status
        /\ new.tier = sub.tier /\ new.attempts = sub.attempts
    BY <1>1 DEF Row
  <2>2. sub' = new /\ UNCHANGED <<plan, hook, retries, renewals, ses, faults, hist>>
    BY <1>3 DEF DebounceEnds
  <2> HIDE DEF new
  <2> QED BY <1>1, <2>1, <2>2, RowStep
<1>4. CASE Checkout
  <2> DEFINE new == [NoRow EXCEPT !.status = "active", !.tier = "paid"]
  <2>1. NoRow \in Row /\ ~NoRow.auth /\ NoRow.attempts = 0
    BY DEF NoRow, Row, Tiers
  <2>2. /\ new \in Row /\ new.auth = NoRow.auth /\ new.status = "active"
        /\ new.attempts = NoRow.attempts
    BY <2>1 DEF Row, Tiers
  <2>3. /\ sub.status = "absent" /\ sub' = new
        /\ UNCHANGED <<plan, hook, retries, renewals, ses, faults, hist>>
    BY <1>4 DEF Checkout
  <2> HIDE DEF new
  <2> QED BY <1>1, <2>1, <2>2, <2>3, RowStep
<1>5. CASE CancelSubscription
  <2> DEFINE new == [sub EXCEPT !.status = "cancelled"]
  <2>1. /\ new \in Row /\ new.auth = sub.auth /\ new.status = "cancelled"
        /\ new.tier = sub.tier /\ new.attempts = sub.attempts
    BY <1>1 DEF Row
  <2>2. sub' = new /\ UNCHANGED <<plan, hook, retries, renewals, ses, faults, hist>>
    BY <1>5 DEF CancelSubscription
  <2> HIDE DEF new
  <2> QED BY <1>1, <2>1, <2>2, RowStep
<1> QED BY <1>2, <1>3, <1>4, <1>5

\* The day of a retry comes, or the retry is failed as stuck.
LEMMA RetryDayComesStep ==
    ASSUME IInv, RetryDayComes
    PROVE  IInv' /\ Downgrade
<1>1. /\ retries.waiting > 0
      /\ UNCHANGED <<sub, plan, hook, renewals, ses, faults>>
  BY DEF RetryDayComes
<1>2. /\ retries \in [waiting : 0..MaxRetries, due : 0..(MaxRetries + MaxFaults)]
      /\ retries.waiting \in Nat /\ retries.due \in Nat
      /\ retries.waiting + retries.due <= MaxRetries + faults
      /\ MaxRetries \in Nat /\ MaxFaults \in Nat /\ faults \in 0..MaxFaults
      /\ hist \in History
  BY BillingAssumption DEF IInv, TypeOK, RetriesPaidFor
<1>3. ASSUME retries' \in [waiting : 0..MaxRetries, due : 0..(MaxRetries + MaxFaults)],
             retries'.waiting + retries'.due <= retries.waiting + retries.due,
             retries'.waiting + retries'.due > 0 \/ hist'.lost \/ hist'.outdated,
             hist' \in History, hist'.done = hist.done, hist'.paid = hist.paid,
             hist'.renewed = hist.renewed, hist'.outdated = hist.outdated,
             ~hist.outdated => hist'.failed = hist.failed
      PROVE  IInv' /\ Downgrade
  <2>1. TypeOK'
    BY <1>1, <1>3 DEF IInv, TypeOK
  <2>2. RetriesPaidFor'
    BY <1>1, <1>2, <1>3 DEF RetriesPaidFor
  <2>3. RenewalsCreated'
    <3>1. Renewing' = Renewing
      BY <1>1 DEF Renewing
    <3> QED BY <1>1, <3>1 DEF IInv, RenewalsCreated
  <2>4. HooksHeld' /\ OpenNotDone' /\ CardWasPaid' /\ RowStays'
    BY <1>1, <1>3 DEF IInv, HooksHeld, OpenNotDone, CardWasPaid, RowStays
  <2>5. FailuresCounted' /\ PlanIsPaidFor'
    BY <1>1, <1>3 DEF IInv, FailuresCounted, PlanIsPaidFor, PlanFollowsTier, PaidPlanWasPaid
  <2>6. AttentionHasRetry'
    BY <1>3 DEF AttentionHasRetry
  <2> QED BY <1>1, <2>1, <2>2, <2>3, <2>4, <2>5, <2>6 DEF IInv, Downgrade
<1>4. CASE retries' = [retries EXCEPT !.waiting = @ - 1, !.due = @ + 1] /\ UNCHANGED hist
  <2>1. retries.waiting - 1 \in 0..MaxRetries /\ retries.due + 1 \in 0..(MaxRetries + MaxFaults)
    BY <1>1, <1>2
  <2>2. /\ retries'.waiting = retries.waiting - 1 /\ retries'.due = retries.due + 1
        /\ retries' \in [waiting : 0..MaxRetries, due : 0..(MaxRetries + MaxFaults)]
    BY <1>2, <1>4, <2>1
  <2>3. /\ retries'.waiting + retries'.due <= retries.waiting + retries.due
        /\ retries'.waiting + retries'.due > 0
    BY <1>1, <1>2, <2>2
  <2> QED BY <1>2, <1>3, <1>4, <2>2, <2>3
<1>5. CASE /\ retries' = [retries EXCEPT !.waiting = @ - 1]
           /\ Note([hist EXCEPT !.lost = TRUE])
  <2> DEFINE h == [hist EXCEPT !.lost = TRUE]
  <2>1. /\ h \in History
        /\ h.done = hist.done /\ h.paid = hist.paid /\ h.renewed = hist.renewed
        /\ h.outdated = hist.outdated /\ h.failed = hist.failed
    BY <1>2 DEF History
  <2>2. h.lost
    BY <1>2 DEF History
  <2>3. Note(h)
    BY <1>5
  <2> HIDE DEF h
  <2>4. /\ hist' \in History
        /\ hist'.done = h.done /\ hist'.paid = h.paid /\ hist'.renewed = h.renewed
        /\ hist'.outdated = h.outdated
        /\ ~h.outdated => hist' = h
    BY <2>1, <2>3, NoteKeeps
  <2>5. retries.waiting - 1 \in 0..MaxRetries
    BY <1>1, <1>2
  <2>6. /\ retries'.waiting = retries.waiting - 1 /\ retries'.due = retries.due
        /\ retries' \in [waiting : 0..MaxRetries, due : 0..(MaxRetries + MaxFaults)]
    BY <1>2, <1>5, <2>5
  <2>7. retries'.waiting + retries'.due <= retries.waiting + retries.due
    BY <1>2, <2>6
  <2>8. hist'.lost \/ hist'.outdated
    BY <2>2, <2>4
  <2> QED BY <1>3, <2>1, <2>4, <2>6, <2>7, <2>8
<1> QED BY <1>4, <1>5 DEF RetryDayComes

\* Paystack delivers an event.
LEMMA DeliverWebhookStep ==
    ASSUME IInv, NEW e \in Webhooks, DeliverWebhook(e)
    PROVE  IInv' /\ Downgrade
<1>1. /\ hook[e] = "absent" /\ hook' = [hook EXCEPT ![e] = "queued"]
      /\ Kind[e] = "charge.success" => e \in Tiered \/ hist.renewed
      /\ UNCHANGED <<sub, plan, retries, renewals, ses, faults, hist>>
  BY DEF DeliverWebhook
<1>2. /\ hook' \in [Webhooks -> {"absent", "queued", "running", "completed", "lost"}]
      /\ hook'[e] = "queued" /\ \A k \in Webhooks : k # e => hook'[k] = hook[k]
  BY <1>1 DEF IInv, TypeOK
<1>3. TypeOK'
  BY <1>1, <1>2 DEF IInv, TypeOK
<1>4. HooksHeld'
  <2>1. \A t \in Sessions :
          ses[t].step = "webhook" => ses[t].e \in Webhooks \ {e} /\ hook[ses[t].e] = "running"
    BY <1>1 DEF IInv, HooksHeld
  <2>2. \A t \in Sessions :
          ses'[t].step = "webhook" => ses'[t].e \in Webhooks /\ hook'[ses'[t].e] = "running"
    BY <1>1, <1>2, <2>1
  <2> QED BY <1>1, <2>2 DEF IInv, HooksHeld
<1>5. OpenNotDone'
  BY <1>1, <1>2 DEF IInv, OpenNotDone
<1>6. CardWasPaid'
  BY <1>1, <1>2 DEF IInv, CardWasPaid
<1>7. RenewalsCreated'
  <2>1. Renewing' = Renewing
    BY <1>1 DEF Renewing
  <2> QED BY <1>1, <2>1 DEF IInv, RenewalsCreated
<1>8. /\ RetriesPaidFor' /\ RowStays' /\ FailuresCounted' /\ PlanIsPaidFor'
      /\ AttentionHasRetry'
  BY <1>1 DEF IInv, RetriesPaidFor, RowStays, FailuresCounted, PlanIsPaidFor, PlanFollowsTier,
              PaidPlanWasPaid, AttentionHasRetry
<1> QED BY <1>1, <1>3, <1>4, <1>5, <1>6, <1>7, <1>8 DEF IInv, Downgrade

\* The sweep queues a renewal.
LEMMA BillingSweepStep ==
    ASSUME IInv, BillingSweep
    PROVE  IInv' /\ Downgrade
<1>1. /\ renewals.created < MaxRenewals
      /\ renewals' = [queued |-> renewals.queued + 1, created |-> renewals.created + 1]
      /\ UNCHANGED <<sub, plan, hook, retries, ses, faults, hist>>
  BY DEF BillingSweep
<1>2. /\ renewals.queued \in 0..MaxRenewals /\ renewals.created \in 0..MaxRenewals
      /\ renewals.queued + Cardinality(Renewing) <= renewals.created
      /\ Cardinality(Renewing) \in Nat /\ MaxRenewals \in Nat
  BY BillingAssumption, RenewingFinite DEF IInv, TypeOK, RenewalsCreated
<1>3. renewals.queued + 1 \in 0..MaxRenewals /\ renewals.created + 1 \in 0..MaxRenewals
  BY <1>1, <1>2
<1>4. RenewalsCreated'
  <2>1. Renewing' = Renewing
    BY <1>1 DEF Renewing
  <2> QED BY <1>1, <1>2, <2>1 DEF RenewalsCreated
<1>5. TypeOK'
  BY <1>1, <1>3 DEF IInv, TypeOK
<1>6. /\ RetriesPaidFor' /\ AttentionHasRetry' /\ HooksHeld' /\ OpenNotDone'
      /\ CardWasPaid' /\ RowStays' /\ FailuresCounted' /\ PlanIsPaidFor'
  BY <1>1
     DEF IInv, RetriesPaidFor, AttentionHasRetry, HooksHeld, OpenNotDone, CardWasPaid,
         RowStays, FailuresCounted, PlanIsPaidFor, PlanFollowsTier, PaidPlanWasPaid
<1> QED BY <1>1, <1>4, <1>5, <1>6 DEF IInv, Downgrade

-----------------------------------------------------------------------------
(***************************************************************************)
(* The theorems.                                                           *)
(***************************************************************************)

\* Initially there is no row, no event and no session at work.
LEMMA InitIInv == Init => IInv
<1> SUFFICES ASSUME Init PROVE IInv
  OBVIOUS
<1>1. NoRow \in Row /\ NoRow.status = "absent" /\ ~NoRow.auth /\ NoRow.attempts = 0
  BY DEF NoRow, Row, Tiers
<1>2. /\ Idle \in Session /\ Idle.step = "idle" /\ Idle.mem = NoRow
  BY <1>1 DEF Idle, Session
<1>3. /\ \A s \in Sessions : ses[s] = Idle
      /\ \A e \in Webhooks : hook[e] = "absent"
      /\ ses \in [Sessions -> Session]
  BY <1>2 DEF Init
<1>4. /\ hist.done = [e \in Webhooks |-> 0] /\ ~hist.paid /\ ~hist.renewed
      /\ hist.failed = 0 /\ ~hist.outdated
  BY DEF Init
<1>5. hist \in History
  <2>1. 0 \in 0..DunningMax /\ [e \in Webhooks |-> 0] \in [Webhooks -> 0..2]
    BY BillingAssumption
  <2> QED BY <2>1 DEF Init, History
<1>6. TypeOK
  BY <1>1, <1>3, <1>5, BillingAssumption DEF Init, TypeOK, Tiers
<1>7. RetriesPaidFor
  BY BillingAssumption DEF Init, RetriesPaidFor
<1>8. RenewalsCreated
  <2>1. Renewing = {}
    BY <1>2, <1>3 DEF Renewing
  <2> QED BY <2>1, FS_EmptySet DEF Init, RenewalsCreated
<1>9. HooksHeld /\ OpenNotDone
  BY <1>2, <1>3, <1>4 DEF HooksHeld, OpenNotDone
<1>10. CardWasPaid /\ RowStays /\ FailuresCounted
  BY <1>1, <1>2, <1>3, <1>4 DEF Init, CardWasPaid, RowStays, FailuresCounted
<1>11. PlanIsPaidFor /\ AttentionHasRetry
  BY <1>1, <1>4
     DEF Init, PlanIsPaidFor, PlanFollowsTier, PaidPlanWasPaid, AttentionHasRetry
<1> QED BY <1>6, <1>7, <1>8, <1>9, <1>10, <1>11 DEF IInv

\* Every step keeps the invariant, and takes a plan away only when it may.
LEMMA NextIInv == IInv /\ [Next]_vars => IInv' /\ Downgrade
<1> SUFFICES ASSUME IInv, [Next]_vars PROVE IInv' /\ Downgrade
  OBVIOUS
<1>1. CASE DueDateComes \/ DebounceEnds \/ Checkout \/ CancelSubscription
  BY <1>1, CustomerStep
<1>2. CASE RetryDayComes
  BY <1>2, RetryDayComesStep
<1>3. CASE BillingSweep
  BY <1>3, BillingSweepStep
<1>4. CASE \E e \in Webhooks : DeliverWebhook(e)
  BY <1>4, DeliverWebhookStep
<1>5. CASE \E s \in Sessions, e \in Webhooks : StartWebhook(s, e)
  BY <1>5, StartWebhookStep
<1>6. CASE \E s \in Sessions : HandleWebhook(s)
  BY <1>6, HandleWebhookStep
<1>7. CASE \E s \in Sessions : InsertConflict(s)
  BY <1>7, InsertConflictStep
<1>8. CASE \E s \in Sessions : StartDunning(s)
  BY <1>8, StartDunningStep
<1>9. CASE \E s \in Sessions : RetryCharged(s)
  BY <1>9, RetryChargedStep
<1>10. CASE \E s \in Sessions : RetryRecovers(s)
  BY <1>10, RetryRecoversStep
<1>11. CASE \E s \in Sessions : RetryRefused(s)
  BY <1>11, RetryRefusedStep
<1>12. CASE \E s \in Sessions : StartRenewal(s)
  BY <1>12, StartRenewalStep
<1>13. CASE \E s \in Sessions : RenewalCharged(s)
  BY <1>13, RenewalChargedStep
<1>14. CASE \E s \in Sessions : RenewalRefused(s)
  BY <1>14, RenewalRefusedStep
<1>15. CASE \E s \in Sessions : AbortHandler(s)
  BY <1>15, AbortHandlerStep
<1>16. CASE \E s \in Sessions : Crash(s)
  BY <1>16, CrashStep
<1>17. CASE UNCHANGED vars
  <2>1. Renewing' = Renewing
    BY <1>17 DEF vars, Renewing
  <2>2. RenewalsCreated'
    BY <1>17, <2>1 DEF vars, IInv, RenewalsCreated
  <2>3. TypeOK'
    BY <1>17 DEF vars, IInv, TypeOK
  <2>4. /\ RetriesPaidFor' /\ AttentionHasRetry' /\ HooksHeld' /\ OpenNotDone'
        /\ CardWasPaid' /\ RowStays' /\ FailuresCounted' /\ PlanIsPaidFor'
    BY <1>17
       DEF vars, IInv, RetriesPaidFor, AttentionHasRetry, HooksHeld, OpenNotDone, CardWasPaid,
           RowStays, FailuresCounted, PlanIsPaidFor, PlanFollowsTier, PaidPlanWasPaid
  <2> QED BY <1>17, <2>2, <2>3, <2>4 DEF vars, IInv, Downgrade
<1> QED BY <1>1, <1>2, <1>3, <1>4, <1>5, <1>6, <1>7, <1>8, <1>9, <1>10, <1>11, <1>12, <1>13,
           <1>14, <1>15, <1>16, <1>17 DEF Next

\* The inductive invariant holds.
THEOREM Invariance == Spec => []IInv
BY InitIInv, NextIInv, PTL DEF Spec

\* The rows, the queues and the sessions keep their types: neither retries nor
\* renewals outgrow what the sweep and the faults allow.
THEOREM TypeCorrect == Spec => []TypeOK
<1>1. IInv => TypeOK
  BY DEF IInv
<1> QED BY <1>1, Invariance, PTL

\* The plan a tenant is entitled to is the tier paid for, whatever events are
\* repeated, reordered or lost (_handle_charge_success, dunning), unless a handler
\* wrote from an outdated copy.
THEOREM EntitlementPaid == Spec => []PlanIsPaidFor
<1>1. IInv => PlanIsPaidFor
  BY DEF IInv
<1> QED BY <1>1, Invariance, PTL

\* A subscription in ATTENTION has a retry queued or running (the dunning state
\* and its job commit together), with the exemptions of the property.
THEOREM NotStranded == Spec => []AttentionHasRetry
<1>1. IInv => AttentionHasRetry
  BY DEF IInv
<1> QED BY <1>1, Invariance, PTL

\* However often an event is delivered, one run of its handler completes
\* (store_webhook's key, and the claim of the job).
THEOREM WebhookOnce == Spec => []AppliedOnce
<1>1. IInv => AppliedOnce
  BY DEF IInv, OpenNotDone, AppliedOnce
<1> QED BY <1>1, Invariance, PTL

\* No step downgrades a tenant before DunningMax payments have failed
\* (process_failed_payment, _handle_final_failure).
THEOREM DowngradeEarned == Spec => DowngradeNeedsAllRetries
<1>1. IInv /\ [Next]_vars
        => [plan = "paid" /\ plan' = "free"
              => hist'.failed = DunningMax \/ hist'.outdated \/ hist'.repeated]_vars
  BY NextIInv DEF Downgrade
<1> QED BY <1>1, Invariance, PTL DEF Spec, DowngradeNeedsAllRetries

=============================================================================
