--------------------------- MODULE DispatchProofs ---------------------------
(***************************************************************************)
(* Proofs for Dispatch, for any kinds, workers and tenants, any finite     *)
(* set of instances and any bounds.                                        *)
(***************************************************************************)
EXTENDS Dispatch, FiniteSetTheorems, SequenceTheorems, TLAPS

\* Instances that have fired k this period.
HaveFired(k) == Instances \ due[k]

\* Those of them that fail open.
FiredOpen(k) == HaveFired(k) \cap FailOpen

\* Every task sent was sent by an instance that fired.
SentByFired == \A k \in Kinds : sent[k] <= Cardinality(HaveFired(k))

\* A lock taken during the firings, which outlives them, pays for one task, the
\* instances that failed open for the others.
SentUnderLock ==
    \A k \in Kinds :
        /\ due[k] # {} /\ lock[k] # "firing" => sent[k] <= Cardinality(FiredOpen(k))
        /\ sent[k] <= 1 + Cardinality(FiredOpen(k))

Types ==
    /\ due \in [Kinds -> SUBSET Instances]
    /\ lock \in [Kinds -> LockStates]
    /\ sent \in [Kinds -> Nat]
    /\ covered \in [Kinds -> BOOLEAN]
    /\ asked \in [Instances -> 0..Len(DailyOrder)]
    /\ queue \in [Kinds -> 0..MaxQueue]
    /\ again \in [Kinds -> 0..MaxQueue]
    /\ sweep \in [Workers -> Sweep \cup {Idle}]
    /\ jobs \in [Kinds -> SUBSET Tenants]
    /\ faults \in 0..MaxFaults

IInv == Types /\ SentByFired /\ SentUnderLock /\ SweepsDisjoint

-----------------------------------------------------------------------------
(***************************************************************************)
(* The counts.                                                             *)
(***************************************************************************)

\* The sets counted are finite.
LEMMA FiredFinite ==
    ASSUME NEW k \in Kinds
    PROVE  /\ IsFiniteSet(HaveFired(k))
           /\ IsFiniteSet(FiredOpen(k))
           /\ Cardinality(HaveFired(k)) \in Nat
           /\ Cardinality(FiredOpen(k)) \in Nat
           /\ Cardinality(HaveFired(k)) <= Cardinality(Instances)
           /\ Cardinality(FiredOpen(k)) <= Cardinality(FailOpen)
           /\ Cardinality(FailOpen) \in Nat
<1>1. IsFiniteSet(Instances) /\ FailOpen \subseteq Instances
  BY DispatchAssumption
<1>2. HaveFired(k) \subseteq Instances /\ FiredOpen(k) \subseteq FailOpen
  BY DEF HaveFired, FiredOpen
<1>3. IsFiniteSet(FailOpen)
  BY <1>1, FS_Subset
<1>4. /\ IsFiniteSet(HaveFired(k)) /\ Cardinality(HaveFired(k)) <= Cardinality(Instances)
      /\ IsFiniteSet(FiredOpen(k))
      /\ Cardinality(FiredOpen(k)) <= Cardinality(FailOpen)
  BY <1>1, <1>2, <1>3, FS_Subset
<1>5. QED BY <1>3, <1>4, FS_CardinalityType

\* Initially nothing is locked, sent or running.
LEMMA InitIInv == Init => IInv
<1> SUFFICES ASSUME Init PROVE IInv
  OBVIOUS
<1>0. Len(DailyOrder) \in Nat
  BY DispatchAssumption, LenProperties
<1>1. Types
  BY <1>0, DispatchAssumption DEF Init, Types, LockStates
<1>2. \A k \in Kinds : /\ sent[k] = 0
                       /\ Cardinality(HaveFired(k)) \in Nat
                       /\ Cardinality(FiredOpen(k)) \in Nat
  BY FiredFinite DEF Init
<1>3. SentByFired /\ SentUnderLock
  BY <1>2 DEF SentByFired, SentUnderLock
<1>4. SweepsDisjoint
  BY DEF Init, SweepsDisjoint, Open, Idle
<1>5. QED BY <1>1, <1>3, <1>4 DEF IInv

\* A lock keeps its state, or it was free and is taken.
LEMMA LockTaken ==
    ASSUME IInv, NEW k \in Kinds, LockUnanswered(k) \/ TakeLock(k)
    PROVE  /\ lock' \in [Kinds -> LockStates]
           /\ \A m \in Kinds \ {k} : lock'[m] = lock[m]
           /\ lock'[k] = lock[k] \/ lock[k] = "free"
           /\ due[k] # {} => lock'[k] = lock[k] \/ lock'[k] = "firing"
<1>1. CASE lock' = lock
  BY <1>1 DEF IInv, Types
<1>2. CASE TakeLock(k)
  BY <1>2 DEF TakeLock, IInv, Types, LockStates
<1>3. QED BY <1>1, <1>2 DEF LockUnanswered

\* A scheduler fires k: it sends nothing, or a task paid for by the lock it has
\* just taken or by its failing open.
LEMMA FireCounts ==
    ASSUME IInv, NEW i \in Instances, NEW k \in Kinds, Fired(i, k),
           lock' \in [Kinds -> LockStates],
           \A m \in Kinds \ {k} : lock'[m] = lock[m],
           lock'[k] = lock[k] \/ lock'[k] = "firing",
           \/ UNCHANGED <<sent, queue>>
           \/ /\ SendTask(k) /\ sent' = [sent EXCEPT ![k] = @ + 1]
              /\ i \in FailOpen \/ (lock[k] = "free" /\ lock'[k] = "firing"),
           faults' \in 0..MaxFaults, UNCHANGED <<covered, asked, again, sweep, jobs>>
    PROVE  IInv'
<1> USE DEF IInv, Types
<1>1. /\ i \in due[k]
      /\ due' = [due EXCEPT ![k] = @ \ {i}]
  BY DEF Fired
<1>2. /\ HaveFired(k)' = HaveFired(k) \cup {i} /\ i \notin HaveFired(k)
      /\ \A m \in Kinds \ {k} : /\ due'[m] = due[m]
                                /\ HaveFired(m)' = HaveFired(m)
                                /\ FiredOpen(m)' = FiredOpen(m)
  BY <1>1 DEF HaveFired, FiredOpen
<1>3. Cardinality(HaveFired(k)') = Cardinality(HaveFired(k)) + 1
  <2>1. IsFiniteSet(HaveFired(k))
    BY FiredFinite
  <2>2. Cardinality(HaveFired(k) \cup {i}) = Cardinality(HaveFired(k)) + 1
    BY <1>2, <2>1, FS_AddElement
  <2>3. QED BY <1>2, <2>2
<1>4. /\ i \in FailOpen => Cardinality(FiredOpen(k)')
                             = Cardinality(FiredOpen(k)) + 1
      /\ i \notin FailOpen => Cardinality(FiredOpen(k)')
                                = Cardinality(FiredOpen(k))
  <2>1. CASE i \in FailOpen
    <3>1. FiredOpen(k)' = FiredOpen(k) \cup {i} /\ i \notin FiredOpen(k)
      BY <1>2, <2>1 DEF FiredOpen
    <3>2. QED BY <2>1, <3>1, FiredFinite, FS_AddElement
  <2>2. CASE i \notin FailOpen
    <3>1. FiredOpen(k)' = FiredOpen(k)
      BY <1>2, <2>2 DEF FiredOpen
    <3>2. QED BY <2>2, <3>1
  <2>3. QED BY <2>1, <2>2
<1>5. /\ sent'[k] \in {sent[k], sent[k] + 1}
      /\ sent'[k] # sent[k] => i \in FailOpen \/ (lock[k] = "free" /\ lock'[k] = "firing")
      /\ \A m \in Kinds \ {k} : sent'[m] = sent[m]
      /\ sent' \in [Kinds -> Nat] /\ queue' \in [Kinds -> 0..MaxQueue]
  <2>1. CASE UNCHANGED <<sent, queue>>
    BY <2>1
  <2>2. CASE /\ SendTask(k) /\ sent' = [sent EXCEPT ![k] = @ + 1]
             /\ i \in FailOpen \/ (lock[k] = "free" /\ lock'[k] = "firing")
    <3>1. queue' = [queue EXCEPT ![k] = @ + 1] /\ queue[k] < MaxQueue
      BY <2>2 DEF SendTask
    <3>2. queue' \in [Kinds -> 0..MaxQueue]
      BY <3>1, DispatchAssumption
    <3>3. sent' \in [Kinds -> Nat] /\ sent'[k] = sent[k] + 1
          /\ \A m \in Kinds \ {k} : sent'[m] = sent[m]
      BY <2>2
    <3>4. QED BY <2>2, <3>2, <3>3
  <2>3. QED BY <2>1, <2>2
<1>6. Types'
  BY <1>1, <1>5
<1>7. SentByFired'
  <2> SUFFICES ASSUME NEW m \in Kinds PROVE sent'[m] <= Cardinality(HaveFired(m)')
    BY DEF SentByFired
  <2>1. /\ sent[m] \in Nat /\ Cardinality(HaveFired(m)) \in Nat
        /\ sent[m] <= Cardinality(HaveFired(m))
    BY FiredFinite DEF SentByFired
  <2>2. CASE m = k
    BY <1>3, <1>5, <2>1, <2>2
  <2>3. CASE m # k
    BY <1>2, <1>5, <2>1, <2>3
  <2>4. QED BY <2>2, <2>3
<1>8. SentUnderLock'
  <2> SUFFICES ASSUME NEW m \in Kinds
               PROVE  /\ due'[m] # {} /\ lock'[m] # "firing"
                            => sent'[m] <= Cardinality(FiredOpen(m)')
                      /\ sent'[m] <= 1 + Cardinality(FiredOpen(m)')
    BY DEF SentUnderLock
  <2>1. /\ sent[m] \in Nat
        /\ due[m] # {} /\ lock[m] # "firing" => sent[m] <= Cardinality(FiredOpen(m))
        /\ sent[m] <= 1 + Cardinality(FiredOpen(m))
        /\ Cardinality(FiredOpen(m)) \in Nat
    BY FiredFinite DEF SentUnderLock
  <2>2. CASE m = k
    <3>1. due[k] # {} /\ (lock'[k] # "firing" => lock[k] # "firing")
      BY <1>1
    <3>2. Cardinality(FiredOpen(k)') \in {Cardinality(FiredOpen(k)), Cardinality(FiredOpen(k)) + 1}
      BY <1>4
    <3>3. CASE sent'[k] = sent[k]
      BY <2>1, <2>2, <3>1, <3>2, <3>3
    <3>4. CASE sent'[k] = sent[k] + 1
      <4>1. i \in FailOpen \/ (lock[k] = "free" /\ lock'[k] = "firing")
        BY <1>5, <2>1, <2>2, <3>4
      <4>2. CASE i \in FailOpen
        BY <1>4, <2>1, <2>2, <3>1, <3>4, <4>2
      <4>3. CASE i \notin FailOpen
        <5>1. sent[k] <= Cardinality(FiredOpen(k))
          BY <2>1, <2>2, <3>1, <4>1, <4>3
        <5>2. QED BY <1>4, <2>1, <2>2, <3>4, <4>1, <4>3, <5>1
      <4>4. QED BY <4>2, <4>3
    <3>5. QED BY <1>5, <3>3, <3>4
  <2>3. CASE m # k
    BY <1>2, <1>5, <2>1, <2>3
  <2>4. QED BY <2>2, <2>3
<1>9. SweepsDisjoint'
  BY DEF SweepsDisjoint, Open
<1>q. QED BY <1>6, <1>7, <1>8, <1>9

\* The dispatch of an instance: the five outcomes.
LEMMA FireStep ==
    ASSUME IInv, NEW i \in Instances, NEW k \in Kinds, Fire(i, k)
    PROVE  IInv'
<1>1. faults \in 0..MaxFaults /\ (Fault => faults' \in 0..MaxFaults)
  BY DispatchAssumption DEF IInv, Types, Fault
<1>2. due[k] # {}
  BY DEF Fire, DispatchTask, SkipDispatch, MissFiring, SendFails, LockCallFails, Fired
<1>3. lock' = lock => /\ lock' \in [Kinds -> LockStates]
                      /\ \A m \in Kinds \ {k} : lock'[m] = lock[m]
                      /\ lock'[k] = lock[k] \/ lock'[k] = "firing"
  BY DEF IInv, Types
<1>4. LockUnanswered(k) \/ TakeLock(k)
         => /\ lock' \in [Kinds -> LockStates]
            /\ \A m \in Kinds \ {k} : lock'[m] = lock[m]
            /\ lock'[k] = lock[k] \/ lock'[k] = "firing"
  BY <1>2, LockTaken
<1>5. TakeLock(k) => lock[k] = "free" /\ lock'[k] = "firing"
  BY <1>2 DEF TakeLock, IInv, Types
<1>6. CASE DispatchTask(i, k)
  <2>1. /\ Fired(i, k) /\ TakeLock(k) /\ SendTask(k)
        /\ sent' = [sent EXCEPT ![k] = @ + 1]
        /\ UNCHANGED <<covered, asked, again, sweep, jobs>> /\ faults' = faults
    BY <1>6 DEF DispatchTask
  <2>2. QED BY <1>1, <1>4, <1>5, <2>1, FireCounts
<1>7. CASE SkipDispatch(i, k)
  <2>1. /\ Fired(i, k) /\ lock' = lock /\ UNCHANGED <<sent, queue>>
        /\ UNCHANGED <<covered, asked, again, sweep, jobs>> /\ faults' = faults
    BY <1>7 DEF SkipDispatch, broker
  <2>2. QED BY <1>1, <1>3, <2>1, FireCounts
<1>8. CASE MissFiring(i, k)
  <2>1. /\ Fired(i, k) /\ lock' = lock /\ UNCHANGED <<sent, queue>> /\ Fault
        /\ UNCHANGED <<covered, asked, again, sweep, jobs>>
    BY <1>8 DEF MissFiring, broker
  <2>2. QED BY <1>1, <1>3, <2>1, FireCounts
<1>9. CASE SendFails(i, k)
  <2>1. /\ Fired(i, k) /\ TakeLock(k) /\ UNCHANGED <<sent, queue>> /\ Fault
        /\ UNCHANGED <<covered, asked, again, sweep, jobs>>
    BY <1>9 DEF SendFails, broker
  <2>2. QED BY <1>1, <1>4, <2>1, FireCounts
<1>10. CASE LockCallFails(i, k)
  <2>1. /\ Fired(i, k) /\ LockUnanswered(k) /\ Fault
        /\ \/ UNCHANGED <<sent, queue>>
           \/ SendTask(k) /\ sent' = [sent EXCEPT ![k] = @ + 1] /\ i \in FailOpen
        /\ UNCHANGED <<covered, asked, again, sweep, jobs>>
    BY <1>10 DEF LockCallFails
  <2>2. QED BY <1>1, <1>4, <2>1, FireCounts
<1>q. QED BY <1>6, <1>7, <1>8, <1>9, <1>10 DEF Fire

\* A step that fires nothing and sends nothing for a scheduler keeps the counts, if
\* no lock of a firing is given up while the firings go on.
LEMMA CountsKept ==
    ASSUME IInv, UNCHANGED <<due, sent>>,
           \A k \in Kinds : due[k] # {} /\ lock[k] = "firing" => lock'[k] = "firing"
    PROVE  SentByFired' /\ SentUnderLock'
<1>1. \A k \in Kinds : HaveFired(k)' = HaveFired(k) /\ FiredOpen(k)' = FiredOpen(k)
  BY DEF HaveFired, FiredOpen
<1>2. SentByFired'
  BY <1>1 DEF IInv, SentByFired
<1>3. SentUnderLock'
  BY <1>1 DEF IInv, SentUnderLock
<1>4. QED BY <1>2, <1>3

\* A lock expires, but none that was taken in the firings under way.
LEMMA LockExpiresStep ==
    ASSUME IInv, NEW k \in Kinds, LockExpires(k)
    PROVE  IInv'
<1>1. /\ lock' = [lock EXCEPT ![k] = "free"]
      /\ lock[k] = "firing" => due[k] = {}
      /\ UNCHANGED <<due, sent, covered, asked, queue, again, sweep, jobs, faults>>
  BY DEF LockExpires, cron, broker
<1>2. Types'
  BY <1>1 DEF IInv, Types, LockStates
<1>3. SentByFired' /\ SentUnderLock'
  BY <1>1, CountsKept DEF IInv, Types
<1>4. SweepsDisjoint'
  BY <1>1 DEF IInv, SweepsDisjoint, Open
<1>5. QED BY <1>2, <1>3, <1>4 DEF IInv

\* What a request does leaves the schedulers' counts alone: it takes a lock that is
\* free.
LEMMA RequestFrame ==
    ASSUME IInv, UNCHANGED <<due, sent, again, sweep, jobs>>,
           lock' \in [Kinds -> LockStates],
           \A k \in Kinds : lock'[k] = lock[k] \/ lock[k] = "free",
           covered' \in [Kinds -> BOOLEAN],
           asked' \in [Instances -> 0..Len(DailyOrder)],
           queue' \in [Kinds -> 0..MaxQueue],
           faults' \in 0..MaxFaults
    PROVE  IInv'
<1>1. Types'
  BY DEF IInv, Types
<1>2. SentByFired' /\ SentUnderLock'
  BY CountsKept
<1>3. SweepsDisjoint'
  BY DEF IInv, SweepsDisjoint, Open
<1>4. QED BY <1>1, <1>2, <1>3 DEF IInv

\* The steps of a request.
LEMMA RequestStep ==
    ASSUME IInv, NEW i \in Instances, Request(i)
    PROVE  IInv'
<1> DEFINE n == Len(DailyOrder)
<1>0. n \in Nat
  BY DispatchAssumption, LenProperties
<1>1. /\ asked \in [Instances -> 0..n] /\ asked[i] \in 0..n
      /\ lock \in [Kinds -> LockStates] /\ covered \in [Kinds -> BOOLEAN]
      /\ queue \in [Kinds -> 0..MaxQueue] /\ faults \in 0..MaxFaults
  BY DEF IInv, Types
<1> HIDE DEF n
<1>2. Fault => faults' \in 0..MaxFaults
  BY <1>1, DispatchAssumption DEF Fault
<1>3. \A k \in Kinds : SendTask(k) => queue' \in [Kinds -> 0..MaxQueue]
  BY <1>1, DispatchAssumption DEF SendTask
<1>4. \A k \in Kinds : Asked(i, k) => asked' \in [Instances -> 0..n]
  <2> SUFFICES ASSUME NEW k \in Kinds, Asked(i, k) PROVE asked' \in [Instances -> 0..n]
    OBVIOUS
  <2>1. asked[i] - 1 \in 0..n /\ asked' = [asked EXCEPT ![i] = asked[i] - 1]
    BY <1>0, <1>1 DEF Asked
  <2>2. QED BY <1>1, <2>1
<1>5. \A k \in Kinds : LockUnanswered(k) \/ TakeLock(k) =>
         lock' \in [Kinds -> LockStates] /\ \A m \in Kinds : lock'[m] = lock[m] \/ lock[m] = "free"
  BY LockTaken
<1>6. \A k \in Kinds : Cover(k) => covered' \in [Kinds -> BOOLEAN]
  BY <1>1 DEF Cover
<1>7. CASE TriggerAnalysis(i)
  <2>1. asked' \in [Instances -> 0..n]
    BY <1>0, <1>1, <1>7 DEF TriggerAnalysis, n
  <2>2. UNCHANGED <<due, sent, again, sweep, jobs, lock, covered, queue, faults>>
    BY <1>7 DEF TriggerAnalysis, cron, broker
  <2>3. QED BY <1>1, <2>1, <2>2, RequestFrame DEF n
<1>8. ASSUME NEW k \in Cohorts, RequestTask(i, k) PROVE IInv'
  <2>1. k \in Kinds
    BY DispatchAssumption
  <2>2. /\ asked' \in [Instances -> 0..n] /\ covered' \in [Kinds -> BOOLEAN]
        /\ UNCHANGED <<due, sent, again, sweep, jobs, faults>>
    BY <1>4, <1>6, <1>8, <2>1 DEF RequestTask, cron
  <2>3. CASE TakeLock(k) /\ SendTask(k)
    BY <1>1, <1>3, <1>5, <2>1, <2>2, <2>3, RequestFrame DEF n
  <2>4. CASE UNCHANGED <<lock, queue>>
    BY <1>1, <2>2, <2>4, RequestFrame DEF n
  <2>5. QED BY <1>8, <2>3, <2>4 DEF RequestTask
<1>9. ASSUME NEW k \in Cohorts, RequestFails(i, k) PROVE IInv'
  <2>1. k \in Kinds
    BY DispatchAssumption
  <2>2. /\ asked' \in [Instances -> 0..n] /\ covered' \in [Kinds -> BOOLEAN]
        /\ UNCHANGED <<due, sent, again, sweep, jobs>>
        /\ faults' \in 0..MaxFaults
    BY <1>2, <1>4, <1>6, <1>9, <2>1 DEF RequestFails, cron
  <2>3. LockUnanswered(k) \/ TakeLock(k)
    BY <1>9 DEF RequestFails
  <2>4. queue' \in [Kinds -> 0..MaxQueue]
    BY <1>1, <1>3, <1>9, <2>1 DEF RequestFails
  <2>5. QED BY <1>5, <2>1, <2>2, <2>3, <2>4, RequestFrame DEF n
<1>10. CASE LoseRequest(i)
  <2>1. asked' \in [Instances -> 0..n] /\ faults' \in 0..MaxFaults
    BY <1>0, <1>1, <1>2, <1>10 DEF LoseRequest
  <2>2. UNCHANGED <<due, sent, again, sweep, jobs, lock, covered, queue>>
    BY <1>10 DEF LoseRequest, cron, broker
  <2>3. QED BY <1>1, <2>1, <2>2, RequestFrame DEF n
<1>q. QED BY <1>7, <1>8, <1>9, <1>10 DEF Request

\* A new period starts the counts again, and changes no row lock.
LEMMA NewPeriodStep ==
    ASSUME IInv, NEW k \in Kinds, NewPeriod(k)
    PROVE  IInv'
<1> USE DEF IInv, Types
<1>1. /\ due' = [due EXCEPT ![k] = Instances]
      /\ lock' = [lock EXCEPT ![k] = IF lock[k] = "between" THEN "before" ELSE lock[k]]
      /\ covered' = [covered EXCEPT ![k] = lock[k] = "between"]
      /\ sent' = [sent EXCEPT ![k] = 0] /\ jobs' = [jobs EXCEPT ![k] = {}]
      /\ sweep' = Outdated(k)
      /\ UNCHANGED <<asked, queue, again, faults>>
  BY DEF NewPeriod, broker
<1>2. ASSUME NEW w \in Workers
      PROVE  /\ sweep'[w] \in Sweep \cup {Idle}
             /\ sweep'[w].pc = sweep[w].pc
             /\ Open(w) => sweep'[w].rows = sweep[w].rows
  <2>1. CASE sweep[w].pc = "open" /\ sweep[w].kind = k
    <3>1. sweep[w] \in Sweep
      BY <2>1 DEF Idle
    <3>2. sweep'[w] = [sweep[w] EXCEPT !.fresh = FALSE]
      BY <1>1, <2>1 DEF Outdated
    <3>3. QED BY <3>1, <3>2 DEF Sweep
  <2>2. CASE ~(sweep[w].pc = "open" /\ sweep[w].kind = k)
    BY <1>1, <2>2 DEF Outdated
  <2>3. QED BY <2>1, <2>2
<1>3. sweep' \in [Workers -> Sweep \cup {Idle}]
  BY <1>1, <1>2 DEF Outdated
<1>4. Types'
  <2>1. lock' \in [Kinds -> LockStates]
    BY <1>1 DEF LockStates
  <2>2. covered' \in [Kinds -> BOOLEAN]
    BY <1>1
  <2>3. QED BY <1>1, <1>3, <2>1, <2>2
<1>5. \A m \in Kinds \ {k} : /\ due'[m] = due[m] /\ lock'[m] = lock[m]
                             /\ HaveFired(m)' = HaveFired(m) /\ FiredOpen(m)' = FiredOpen(m)
  BY <1>1 DEF HaveFired, FiredOpen
<1>6. Cardinality(HaveFired(k)') \in Nat /\ Cardinality(FiredOpen(k)') \in Nat
  <2>1. HaveFired(k)' = {} /\ FiredOpen(k)' = {}
    BY <1>1 DEF HaveFired, FiredOpen
  <2>2. QED BY <2>1, FS_EmptySet
<1>7. SentByFired' /\ SentUnderLock'
  <2>1. sent'[k] = 0 /\ \A m \in Kinds \ {k} : sent'[m] = sent[m]
    BY <1>1
  <2> SUFFICES ASSUME NEW m \in Kinds
               PROVE  /\ sent'[m] <= Cardinality(HaveFired(m)')
                      /\ due'[m] # {} /\ lock'[m] # "firing"
                            => sent'[m] <= Cardinality(FiredOpen(m)')
                      /\ sent'[m] <= 1 + Cardinality(FiredOpen(m)')
    BY DEF SentByFired, SentUnderLock
  <2>2. CASE m = k
    BY <1>6, <2>1, <2>2
  <2>3. CASE m # k
    BY <1>5, <2>1, <2>3 DEF SentByFired, SentUnderLock
  <2>4. QED BY <2>2, <2>3
<1>8. SweepsDisjoint'
  BY <1>2 DEF SweepsDisjoint, Open
<1>q. QED BY <1>4, <1>7, <1>8

\* What the workers do leaves the scheduler's variables alone.
LEMMA WorkerFrame ==
    ASSUME IInv, UNCHANGED <<due, lock, sent, covered, asked>>,
           queue' \in [Kinds -> 0..MaxQueue],
           again' \in [Kinds -> 0..MaxQueue],
           sweep' \in [Workers -> Sweep \cup {Idle}],
           jobs' \in [Kinds -> SUBSET Tenants],
           faults' \in 0..MaxFaults,
           SweepsDisjoint'
    PROVE  IInv'
  BY CountsKept DEF IInv, Types

\* A worker whose transaction ends, or has not begun, holds no row.
LEMMA ReleaseDisjoint ==
    ASSUME IInv, NEW w \in Workers, NEW x \in Sweep \cup {Idle}, x.pc # "open",
           sweep' = [sweep EXCEPT ![w] = x]
    PROVE  /\ SweepsDisjoint'
           /\ sweep' \in [Workers -> Sweep \cup {Idle}]
  BY DEF IInv, Types, SweepsDisjoint, Open

\* A begun sweep has no rows.
LEMMA BeginType ==
    ASSUME NEW k \in Kinds, NEW n \in 1..MaxTries
    PROVE  Begin(k, n) \in Sweep /\ Begin(k, n).pc # "open"
  BY DEF Begin, Sweep

\* A running sweep knows its kind and its try.
LEMMA SweepType ==
    ASSUME IInv, NEW w \in Workers, sweep[w] # Idle
    PROVE  /\ sweep[w] \in Sweep
           /\ sweep[w].kind \in Kinds
           /\ sweep[w].tries \in 1..MaxTries
           /\ sweep[w].rows \in SUBSET Tenants
  BY DEF IInv, Types, Sweep

\* A worker takes a task from the broker, sent by a scheduler or retried by Celery.
LEMMA StartTaskStep ==
    ASSUME IInv, NEW w \in Workers, NEW k \in Kinds, StartTask(w, k) \/ StartAgain(w, k)
    PROVE  IInv'
<1>1. 1 \in 1..MaxTries /\ 2 \in 1..MaxTries
  BY DispatchAssumption
<1>2. SweepsDisjoint' /\ sweep' \in [Workers -> Sweep \cup {Idle}]
  <2>1. /\ Begin(k, 1) \in Sweep \cup {Idle} /\ Begin(k, 1).pc # "open"
        /\ Begin(k, 2) \in Sweep \cup {Idle} /\ Begin(k, 2).pc # "open"
    BY <1>1, BeginType
  <2>2. CASE StartTask(w, k)
    BY <2>1, <2>2, ReleaseDisjoint DEF StartTask
  <2>3. CASE StartAgain(w, k)
    BY <2>1, <2>3, ReleaseDisjoint DEF StartAgain
  <2>4. QED BY <2>2, <2>3
<1>3. queue' \in [Kinds -> 0..MaxQueue] /\ again' \in [Kinds -> 0..MaxQueue]
  <2>1. queue \in [Kinds -> 0..MaxQueue] /\ again \in [Kinds -> 0..MaxQueue]
    BY DEF IInv, Types
  <2>2. CASE StartTask(w, k)
    BY <2>1, <2>2, DispatchAssumption DEF StartTask
  <2>3. CASE StartAgain(w, k)
    BY <2>1, <2>3, DispatchAssumption DEF StartAgain
  <2>4. QED BY <2>2, <2>3
<1>4. UNCHANGED <<due, lock, sent, covered, asked, jobs, faults>>
  BY DEF StartTask, StartAgain, cron
<1>5. QED BY <1>2, <1>3, <1>4, WorkerFrame DEF IInv, Types

\* db.begin() is refused: the sweep ends or tries again.
LEMMA RefuseBeginStep ==
    ASSUME IInv, NEW w \in Workers, RefuseBegin(w)
    PROVE  IInv'
<1>1. sweep[w] # Idle
  BY DEF RefuseBegin, Idle
<1>2. sweep[w].kind \in Kinds /\ sweep[w].tries \in 1..MaxTries
  BY <1>1, SweepType
<1>3. UNCHANGED <<due, lock, sent, covered, asked, queue, again, jobs, faults>>
  BY DEF RefuseBegin, cron, broker
<1>4. CASE sweep[w].kind \in Cohorts \cup License \/ sweep[w].tries = MaxTries
  <2>1. sweep' = [sweep EXCEPT ![w] = Idle] /\ Idle.pc # "open"
    BY <1>4 DEF RefuseBegin, Idle, IInv, Types
  <2>2. SweepsDisjoint' /\ sweep' \in [Workers -> Sweep \cup {Idle}]
    BY <2>1, ReleaseDisjoint
  <2>3. QED BY <1>3, <2>2, WorkerFrame DEF IInv, Types
<1>5. CASE ~(sweep[w].kind \in Cohorts \cup License \/ sweep[w].tries = MaxTries)
  <2>1. sweep' = [sweep EXCEPT ![w] = Begin(sweep[w].kind, sweep[w].tries + 1)]
    BY <1>5 DEF RefuseBegin, IInv, Types
  <2>2. sweep[w].tries + 1 \in 1..MaxTries
    BY <1>2, <1>5, DispatchAssumption
  <2>3. SweepsDisjoint' /\ sweep' \in [Workers -> Sweep \cup {Idle}]
    BY <1>2, <2>1, <2>2, BeginType, ReleaseDisjoint
  <2>4. QED BY <1>3, <2>3, WorkerFrame DEF IInv, Types
<1>6. QED BY <1>4, <1>5

\* A sweep locks rows that no open sweep has locked.
LEMMA LoadStep ==
    ASSUME IInv, NEW w \in Workers, NEW S \in SUBSET Tenants, Load(w, S)
    PROVE  IInv'
<1> DEFINE x == [sweep[w] EXCEPT !.pc = "open", !.rows = S, !.fresh = TRUE]
<1>1. sweep[w] # Idle /\ sweep[w].pc = "begin"
  BY DEF Load, Idle
<1>2. x \in Sweep /\ x.rows = S
  BY <1>1, SweepType DEF Sweep
<1>3. sweep' = [sweep EXCEPT ![w] = x]
  BY DEF Load, IInv, Types
<1>4. \A v \in Workers : Open(v) => sweep[v].rows \cap S = {}
  BY DEF Load, LockedRows
<1> HIDE DEF x
<1>5. SweepsDisjoint'
  BY <1>2, <1>3, <1>4 DEF SweepsDisjoint, Open, IInv, Types
<1>6. sweep' \in [Workers -> Sweep \cup {Idle}]
  BY <1>2, <1>3 DEF IInv, Types
<1>7. QED BY <1>5, <1>6, WorkerFrame DEF Load, IInv, Types, cron, broker

\* The jobs of the locked rows are inserted.
LEMMA CommitStep ==
    ASSUME IInv, NEW w \in Workers, Commit(w)
    PROVE  IInv'
<1>1. sweep[w] # Idle
  BY DEF Commit, Open, Idle
<1>2. jobs' \in [Kinds -> SUBSET Tenants]
  BY <1>1, SweepType DEF Commit, IInv, Types
<1>3. Idle.pc # "open"
  BY DEF Idle
<1>4. SweepsDisjoint' /\ sweep' \in [Workers -> Sweep \cup {Idle}]
  BY <1>3, ReleaseDisjoint DEF Commit
<1>5. QED BY <1>2, <1>4, WorkerFrame DEF Commit, IInv, Types, cron, broker

\* A sweep is tried again, given up, left to Celery or lost with its worker.
LEMMA AbandonStep ==
    ASSUME IInv, NEW w \in Workers,
           RetrySweep(w) \/ RetryLater(w) \/ GiveUpSweep(w) \/ CrashWorker(w)
    PROVE  IInv'
<1>1. /\ sweep[w] # Idle /\ faults' \in 0..MaxFaults
      /\ UNCHANGED <<due, lock, sent, covered, asked, jobs>>
  BY DispatchAssumption
     DEF RetrySweep, RetryLater, GiveUpSweep, CrashWorker, Fault, IInv, Types, cron
<1>2. sweep[w].kind \in Kinds /\ sweep[w].tries \in 1..MaxTries
  BY <1>1, SweepType
<1>3. sweep' = [sweep EXCEPT ![w] = Idle]
        => SweepsDisjoint' /\ sweep' \in [Workers -> Sweep \cup {Idle}]
  <2>1. Idle.pc # "open"
    BY DEF Idle
  <2>2. QED BY <2>1, ReleaseDisjoint
<1>4. queue' \in [Kinds -> 0..MaxQueue] /\ again' \in [Kinds -> 0..MaxQueue]
  <2>1. queue \in [Kinds -> 0..MaxQueue] /\ again \in [Kinds -> 0..MaxQueue]
    BY DEF IInv, Types
  <2>2. CASE UNCHANGED <<queue, again>>
    BY <2>1, <2>2
  <2>3. CASE /\ again[sweep[w].kind] < MaxQueue /\ queue' = queue
             /\ again' = [again EXCEPT ![sweep[w].kind] = @ + 1]
    BY <1>2, <2>1, <2>3, DispatchAssumption
  <2>4. CASE SendTask(sweep[w].kind) /\ again' = again
    BY <1>2, <2>1, <2>4, DispatchAssumption DEF SendTask
  <2>5. QED BY <2>2, <2>3, <2>4 DEF RetrySweep, RetryLater, GiveUpSweep, CrashWorker, broker
<1>5. CASE RetrySweep(w)
  <2>1. sweep[w].tries + 1 \in 1..MaxTries
    BY <1>2, <1>5, DispatchAssumption DEF RetrySweep
  <2>2. sweep' = [sweep EXCEPT ![w] = Begin(sweep[w].kind, sweep[w].tries + 1)]
    BY <1>5 DEF RetrySweep, IInv, Types
  <2>3. SweepsDisjoint' /\ sweep' \in [Workers -> Sweep \cup {Idle}]
    BY <1>2, <2>1, <2>2, BeginType, ReleaseDisjoint
  <2>4. QED BY <1>1, <1>4, <2>3, WorkerFrame DEF IInv, Types
<1>6. CASE RetryLater(w) \/ GiveUpSweep(w) \/ CrashWorker(w)
  <2>1. sweep' = [sweep EXCEPT ![w] = Idle]
    BY <1>6 DEF RetryLater, GiveUpSweep, CrashWorker
  <2>2. QED BY <1>1, <1>3, <1>4, <2>1, WorkerFrame DEF IInv, Types
<1>q. QED BY <1>5, <1>6

\* Every step preserves the invariant.
LEMMA NextIInv ==
    ASSUME IInv, [Next]_vars
    PROVE  IInv'
<1>1. CASE \E k \in Kinds : NewPeriod(k) \/ LockExpires(k)
  BY <1>1, NewPeriodStep, LockExpiresStep
<1>2. CASE \E i \in Instances, k \in Kinds : Fire(i, k)
  BY <1>2, FireStep
<1>3. CASE \E i \in Instances : Request(i)
  BY <1>3, RequestStep
<1>4. CASE \E w \in Workers, k \in Kinds : StartTask(w, k) \/ StartAgain(w, k)
  BY <1>4, StartTaskStep
<1>5. CASE \E w \in Workers : RefuseBegin(w)
  BY <1>5, RefuseBeginStep
<1>6. CASE \E w \in Workers : LoadSome(w)
  BY <1>6, LoadStep DEF LoadSome
<1>7. CASE \E w \in Workers : Commit(w)
  BY <1>7, CommitStep
<1>8. CASE \E w \in Workers : RetrySweep(w) \/ RetryLater(w) \/ GiveUpSweep(w) \/ CrashWorker(w)
  BY <1>8, AbandonStep
<1>9. CASE UNCHANGED vars
  <2>1. UNCHANGED <<due, lock, sent, covered, asked, queue, again, sweep, jobs, faults>>
    BY <1>9 DEF vars
  <2>2. SweepsDisjoint'
    BY <2>1 DEF IInv, SweepsDisjoint, Open
  <2>3. QED BY <2>1, <2>2, WorkerFrame DEF IInv, Types
<1>q. QED BY <1>1, <1>2, <1>3, <1>4, <1>5, <1>6, <1>7, <1>8, <1>9 DEF Next

\* The counts and the row locks hold in every behaviour, faults included.
THEOREM Invariance == Spec => []IInv
  BY InitIInv, NextIInv, PTL DEF Spec

\* Every variable keeps its type; in particular no more tasks are sent in a period
\* than there are instances.
THEOREM TypeCorrect == Spec => []TypeOK
<1>1. IInv => TypeOK
  <2> SUFFICES ASSUME IInv PROVE TypeOK
    OBVIOUS
  <2>1. ASSUME NEW k \in Kinds PROVE sent[k] \in 0..Cardinality(Instances)
    <3>1. sent[k] \in Nat /\ sent[k] <= Cardinality(HaveFired(k))
      BY DEF IInv, Types, SentByFired
    <3>2. /\ Cardinality(HaveFired(k)) <= Cardinality(Instances)
          /\ Cardinality(HaveFired(k)) \in Nat
      BY FiredFinite
    <3>3. Cardinality(Instances) \in Nat
      BY DispatchAssumption, FS_CardinalityType
    <3>4. QED BY <3>1, <3>2, <3>3
  <2>2. sent \in [Kinds -> 0..Cardinality(Instances)]
    BY <2>1 DEF IInv, Types
  <2>3. QED BY <2>2 DEF IInv, Types, TypeOK
<1>2. QED BY <1>1, Invariance, PTL

\* A period is dispatched once, and once more at most for every instance that is
\* configured to fail open, however many instances fire and whatever Redis and
\* the broker answer (_acquire_dispatch_lock).
THEOREM DispatchOnce == Spec => []OneDispatchPerPeriod
<1>1. IInv => OneDispatchPerPeriod
  <2> SUFFICES ASSUME IInv, NEW k \in Kinds PROVE sent[k] <= 1 + Cardinality(FailOpen)
    BY DEF OneDispatchPerPeriod
  <2>1. sent[k] \in Nat /\ sent[k] <= 1 + Cardinality(FiredOpen(k))
    BY DEF IInv, Types, SentUnderLock
  <2>2. QED BY <2>1, FiredFinite
<1>2. QED BY <1>1, Invariance, PTL

\* Sweeps that overlap never work on the same tenant (skip_locked).
THEOREM SweepsExclusive == Spec => []SweepsDisjoint
<1>1. IInv => SweepsDisjoint
  BY DEF IInv
<1>2. QED BY <1>1, Invariance, PTL

-----------------------------------------------------------------------------
(***************************************************************************)
(* The dispatch of a period in which nothing fails.                        *)
(***************************************************************************)

\* Without a fault at most one task is sent; a period in which none was is covered
\* by a request, or nobody has fired and the lock is free; and as long as instances
\* have to fire, the lock of the one that dispatched is set.
Tells(k) ==
    /\ sent[k] \in {0, 1}
    /\ sent[k] = 0 => covered[k] \/ (due[k] = Instances /\ lock[k] = "free")
    /\ sent[k] = 1 /\ due[k] # {} => lock[k] = "firing"

LockTellsDispatch == faults = 0 => \A k \in Kinds : Tells(k)

\* Initially no lock is set and no task sent.
LEMMA InitLockTells == Init => LockTellsDispatch
  BY DEF Init, LockTellsDispatch, Tells

\* A fault is counted.
LEMMA FaultCounted ==
    ASSUME IInv, Fault
    PROVE  faults' # 0
  BY DispatchAssumption DEF Fault, IInv, Types

\* A step on the schedulers' variables of one kind leaves the others alone.
LEMMA OthersTell ==
    ASSUME IInv, NEW k \in Kinds, \A m \in Kinds : Tells(m), Tells(k)',
           \A m \in Kinds \ {k} : /\ sent'[m] = sent[m] /\ covered'[m] = covered[m]
                                  /\ due'[m] = due[m] /\ lock'[m] = lock[m]
    PROVE  \A m \in Kinds : Tells(m)'
  BY DEF Tells

\* The first instance that finds the lock free dispatches, the others find it held;
\* the new period finds it gone or held by a request, which covers the period.
LEMMA NextLockTells ==
    ASSUME IInv, LockTellsDispatch, [Next]_vars
    PROVE  LockTellsDispatch'
<1> SUFFICES ASSUME faults' = 0
             PROVE  \A k \in Kinds : Tells(k)'
  BY DEF LockTellsDispatch
<1>1. ~Fault
  BY FaultCounted
<1>2. faults = 0 => \A k \in Kinds : Tells(k)
  BY DEF LockTellsDispatch
<1> USE DEF IInv, Types
<1>3. ASSUME faults = 0, UNCHANGED <<due, lock, sent, covered>>
      PROVE  \A m \in Kinds : Tells(m)'
  BY <1>2, <1>3 DEF Tells
<1>4. ASSUME NEW k \in Kinds, NewPeriod(k)
      PROVE  \A m \in Kinds : Tells(m)'
  <2>1. /\ due' = [due EXCEPT ![k] = Instances] /\ sent' = [sent EXCEPT ![k] = 0]
        /\ lock[k] \in {"free", "between"}
        /\ lock' = [lock EXCEPT ![k] = IF lock[k] = "between" THEN "before" ELSE lock[k]]
        /\ covered' = [covered EXCEPT ![k] = lock[k] = "between"]
        /\ faults' = faults
    BY <1>4 DEF NewPeriod
  <2>2. /\ due'[k] = Instances /\ sent'[k] = 0
        /\ lock[k] = "between" => covered'[k]
        /\ lock[k] # "between" => lock'[k] = "free"
    BY <2>1
  <2>3. Tells(k)'
    BY <2>1, <2>2 DEF Tells
  <2>4. QED BY <1>2, <2>1, <2>3, OthersTell
<1>5. ASSUME NEW k \in Kinds, LockExpires(k)
      PROVE  \A m \in Kinds : Tells(m)'
  <2>1. /\ lock' = [lock EXCEPT ![k] = "free"] /\ lock[k] # "free"
        /\ lock[k] = "firing" => due[k] = {}
        /\ UNCHANGED <<due, sent, covered, faults>>
    BY <1>5 DEF LockExpires, cron
  <2>2. Tells(k)'
    BY <1>2, <2>1 DEF Tells
  <2>3. QED BY <1>2, <2>1, <2>2, OthersTell
<1>6. ASSUME NEW i \in Instances, NEW k \in Kinds, Fire(i, k)
      PROVE  \A m \in Kinds : Tells(m)'
  <2>1. DispatchTask(i, k) \/ SkipDispatch(i, k)
    BY <1>1, <1>6 DEF Fire, MissFiring, SendFails, LockCallFails
  <2>2. /\ faults = 0 /\ i \in due[k] /\ covered' = covered
        /\ due' = [due EXCEPT ![k] = @ \ {i}]
    BY <2>1 DEF DispatchTask, SkipDispatch, Fired
  <2>3. CASE DispatchTask(i, k)
    <3>1. /\ lock[k] = "free" /\ lock' = [lock EXCEPT ![k] = "firing"]
          /\ sent' = [sent EXCEPT ![k] = sent[k] + 1]
      BY <2>2, <2>3 DEF DispatchTask, TakeLock
    <3>2. sent[k] = 0
      BY <1>2, <2>2, <3>1 DEF Tells
    <3>3. sent'[k] = 1 /\ lock'[k] = "firing"
      BY <3>1, <3>2
    <3>4. Tells(k)'
      BY <3>3 DEF Tells
    <3>5. QED BY <1>2, <2>2, <3>1, <3>4, OthersTell
  <2>4. CASE SkipDispatch(i, k)
    <3>1. lock[k] # "free" /\ UNCHANGED <<lock, sent>>
      BY <2>4 DEF SkipDispatch
    <3>2. Tells(k)'
      BY <1>2, <2>2, <3>1 DEF Tells
    <3>3. QED BY <1>2, <2>2, <3>1, <3>2, OthersTell
  <2>5. QED BY <2>1, <2>3, <2>4
<1>7. ASSUME NEW i \in Instances, Request(i)
      PROVE  \A m \in Kinds : Tells(m)'
  <2>1. TriggerAnalysis(i) \/ \E k \in Cohorts : RequestTask(i, k)
    BY <1>1, <1>7 DEF Request, RequestFails, LoseRequest
  <2>2. CASE TriggerAnalysis(i)
    BY <1>3, <2>2 DEF TriggerAnalysis, cron
  <2>3. ASSUME NEW k \in Cohorts, RequestTask(i, k) PROVE \A m \in Kinds : Tells(m)'
    <3>1. k \in Kinds /\ faults = 0 /\ UNCHANGED <<due, sent>> /\ Cover(k)
      BY <2>3, DispatchAssumption DEF RequestTask, cron
    <3>2. /\ covered' \in [Kinds -> BOOLEAN]
          /\ covered'[k] = (covered[k] \/ (lock'[k] # lock[k] /\ due[k] # {}))
          /\ \A m \in Kinds \ {k} : covered'[m] = covered[m]
      BY <3>1 DEF Cover
    <3>3. CASE TakeLock(k)
      <4>1. /\ lock[k] = "free" /\ \A m \in Kinds \ {k} : lock'[m] = lock[m]
            /\ due[k] # {} => lock'[k] = "firing"
        BY <3>1, <3>3 DEF TakeLock
      <4>2. Tells(k)'
        <5>1. CASE due[k] = {}
          <6>1. due[k] # Instances
            BY <5>1, DispatchAssumption
          <6>2. sent[k] = 0 => covered'[k]
            BY <1>2, <3>1, <3>2, <6>1 DEF Tells
          <6>3. QED BY <1>2, <3>1, <5>1, <6>2 DEF Tells
        <5>2. CASE due[k] # {}
          <6>1. covered'[k] /\ lock'[k] = "firing"
            BY <3>2, <4>1, <5>2
          <6>2. QED BY <1>2, <3>1, <6>1 DEF Tells
        <5>3. QED BY <5>1, <5>2
      <4>3. QED BY <1>2, <3>1, <3>2, <4>1, <4>2, OthersTell
    <3>4. CASE UNCHANGED lock
      BY <1>2, <3>1, <3>2, <3>4 DEF Tells
    <3>5. QED BY <2>3, <3>3, <3>4 DEF RequestTask
  <2>4. QED BY <2>1, <2>2, <2>3
<1>8. CASE \/ \E w \in Workers, k \in Kinds : StartTask(w, k) \/ StartAgain(w, k)
           \/ \E w \in Workers : RefuseBegin(w) \/ LoadSome(w) \/ Commit(w)
  <2>1. faults' = faults /\ UNCHANGED <<due, lock, sent, covered>>
    BY <1>8 DEF StartTask, StartAgain, RefuseBegin, LoadSome, Load, Commit, cron
  <2>2. QED BY <1>3, <2>1
<1>9. CASE \E w \in Workers : RetrySweep(w) \/ RetryLater(w) \/ GiveUpSweep(w) \/ CrashWorker(w)
  BY <1>1, <1>9 DEF RetrySweep, RetryLater, GiveUpSweep, CrashWorker
<1>10. CASE UNCHANGED vars
  BY <1>3, <1>10 DEF vars
<1>q. QED BY <1>4, <1>5, <1>6, <1>7, <1>8, <1>9, <1>10 DEF Next

\* Until something fails, every period is dispatched once by the first of any number
\* of instances that finds the lock free, and not at all only if an administrator's
\* request has dispatched it (_acquire_dispatch_lock, daily_analysis_job).
THEOREM HealthyDispatch == Spec => []DispatchedWhenHealthy
<1>1. IInv /\ LockTellsDispatch /\ [Next]_vars => LockTellsDispatch'
  BY NextLockTells
<1>2. LockTellsDispatch => DispatchedWhenHealthy
  BY DEF LockTellsDispatch, Tells, DispatchedWhenHealthy
<1>3. QED BY <1>1, <1>2, InitLockTells, Invariance, PTL DEF Spec

\* A period is dispatched neither too often nor, while nothing fails, too seldom,
\* whatever requests come in between (_acquire_dispatch_lock, cohort_analysis_job).
THEOREM DispatchesKept == Spec => []DispatchesCounted
<1>1. OneDispatchPerPeriod /\ DispatchedWhenHealthy => DispatchesCounted
  BY DEF DispatchesCounted
<1>2. QED BY <1>1, DispatchOnce, HealthyDispatch, PTL

=============================================================================
