--------------------------- MODULE LLMBudgetProofs --------------------------
(***************************************************************************)
(* Proofs for LLMBudget, for any sessions, amounts, limits, quotas, caps   *)
(* and bounds.                                                             *)
(***************************************************************************)
EXTENDS LLMBudget, Sums

\* The row lock is held exactly while a transaction is open.
InTransaction == {"check", "call"}

LockHeld == \A s \in Sessions : lock = s <=> ses[s].step \in InTransaction

\* Until some copy was outdated, an open transaction has the row as it was committed, reset if
\* its month has passed, plus a reservation the limit allowed.
ReservedFromRow ==
    \A s \in Sessions : ses[s].step \in InTransaction /\ ~hist.outdated =>
        LET mem == ses[s].mem IN
        /\ ses[s].txn = mem
        /\ mem.spend + mem.pending <= Max(Limits)
        /\ ses[s].est <= mem.pending
        /\ mem.spend = IF mem.month = budget.month THEN budget.spend ELSE 0

\* Analyses past the quota whose usage is not yet recorded.
Passed == {s \in Sessions : ses[s].step \in {"slot", "overflow", "reserve"} \cup InTransaction}

\* Each of them may still add one to today's analyses.
QuotaReserved == today + Cardinality(Passed) <= DailyLimit + Cardinality(Sessions) - 1

\* A counter below zero is only met after a release that may have been another's.
ZeroUnmatched == \A s \in Sessions : ses[s].step = "zero" => hist.unmatched

\* The month of the last alert only grows, so a copy that shows this month's alert is right;
\* a transaction writes back the month it found; and nothing is reserved under a limit of
\* zero.
AlertsGrow ==
    /\ budget.alerted <= month
    /\ \A s \in Sessions :
          /\ ses[s].mem.alerted <= budget.alerted
          /\ ses[s].step \in InTransaction => ses[s].txn.alerted = budget.alerted
          /\ ses[s].step \in InTransaction \cup {"alert"} => ses[s].mem.limit > 0

IInv == /\ TypeOK
        /\ LockHeld /\ ReservedFromRow /\ MoneyAccounted
        /\ QuotaReserved /\ ZeroUnmatched /\ SlotsAccounted
        /\ AlertsGrow /\ ThresholdReported

-----------------------------------------------------------------------------
(***************************************************************************)
(* The model's operators.                                                  *)
(***************************************************************************)

\* A finite nonempty set of limits has a largest one.
LEMMA MaxExists ==
    ASSUME NEW S, IsFiniteSet(S), S # {}, S \subseteq Nat
    PROVE  \E x \in S : \A y \in S : x >= y
<1> DEFINE Good(T) == \E x \in T : \A y \in T : x >= y
           B == {T \in SUBSET S : T # {} /\ ~Good(T)}
<1> SUFFICES ASSUME B # {} PROVE FALSE
  OBVIOUS
<1>1. PICK T \in B : \A U \in SUBSET T : U # T => U \notin B
  <2>1. B \subseteq SUBSET S
    OBVIOUS
  <2> HIDE DEF B
  <2> QED
    BY <2>1, Least
<1>2. T \in SUBSET S /\ T # {} /\ ~Good(T)
  OBVIOUS
<1>3. PICK t \in T : TRUE
  BY <1>2
<1>4. \A y \in T : y \in Nat
  BY <1>2
<1>5. CASE T = {t}
  <2>1. Good(T)
    BY <1>3, <1>4, <1>5
  <2> QED
    BY <1>2, <2>1
<1>6. CASE T # {t}
  <2>1. /\ T \ {t} \in SUBSET T /\ T \ {t} # T /\ T \ {t} # {}
        /\ T \ {t} \in SUBSET S
    BY <1>2, <1>3, <1>6
  <2>2. T \ {t} \notin B
    BY <1>1, <2>1
  <2>3. Good(T \ {t})
    BY <2>1, <2>2
  <2>4. PICK m \in T \ {t} : \A y \in T \ {t} : m >= y
    BY <2>3
  <2>5. CASE m >= t
    <3>1. Good(T)
      BY <1>4, <2>4, <2>5
    <3> QED
      BY <1>2, <3>1
  <2>6. CASE ~(m >= t)
    <3>1. \A y \in T : t >= y
      BY <1>3, <1>4, <2>4, <2>6
    <3>2. Good(T)
      BY <1>3, <3>1
    <3> QED
      BY <1>2, <3>2
  <2> QED
    BY <2>5, <2>6
<1> QED
  BY <1>5, <1>6

LEMMA MaxLimit == Max(Limits) \in Limits /\ Max(Limits) \in Nat /\ \A l \in Limits : l <= Max(Limits)
<1>1. IsFiniteSet(Limits) /\ Limits # {} /\ Limits \subseteq Nat
  BY LLMBudgetAssumption
<1>2. \E x \in Limits : \A y \in Limits : x >= y
  BY <1>1, MaxExists
<1>3. Max(Limits) \in Limits /\ \A y \in Limits : Max(Limits) >= y
  BY <1>2 DEF Max
<1>4. PICK m \in Nat : m = Max(Limits)
  BY <1>1, <1>3
<1>5. \A l \in Limits : l \in Nat /\ m >= l
  BY <1>1, <1>3, <1>4
<1>6. \A l \in Limits : l <= m
  BY <1>5
<1> QED
  BY <1>3, <1>4, <1>6

LEMMA FirstRowType == FirstRow \in Row /\ FirstRow.alerted = 0
<1>1. 1 \in Months /\ 0 \in 0..MaxMonth
  BY LLMBudgetAssumption DEF Months
<1> QED
  BY <1>1, MaxLimit DEF FirstRow, Row

LEMMA IdleType ==
    /\ Idle \in Session
    /\ Idle.step = "idle" /\ Idle.mem = FirstRow /\ Idle.est = 0
BY FirstRowType DEF Idle, Session

LEMMA MonusType ==
    ASSUME NEW a \in Nat, NEW b \in Nat
    PROVE  /\ Monus(a, b) \in Nat /\ Monus(a, b) <= a
           /\ a <= b => Monus(a, b) = 0
           /\ a > b => Monus(a, b) = a - b
BY DEF Monus

\* A flush keeps the columns the session has not changed.
LEMMA FlushFacts ==
    ASSUME NEW row \in Row, NEW mem \in Row, NEW new \in Row
    PROVE  /\ Flush(row, mem, new) \in Row
           /\ new.alerted = mem.alerted => Flush(row, mem, new).alerted = row.alerted
           /\ row = mem => Flush(row, mem, new) = new
<1> DEFINE f == Flush(row, mem, new)
<1>1. DOMAIN row = {"limit", "spend", "pending", "month", "alerted"}
  BY DEF Row
<1>2. f = [c \in {"limit", "spend", "pending", "month", "alerted"} |->
             IF new[c] = mem[c] THEN row[c] ELSE new[c]]
  BY <1>1 DEF Flush
<1>3. /\ f.limit = IF new.limit = mem.limit THEN row.limit ELSE new.limit
      /\ f.spend = IF new.spend = mem.spend THEN row.spend ELSE new.spend
      /\ f.pending = IF new.pending = mem.pending THEN row.pending ELSE new.pending
      /\ f.month = IF new.month = mem.month THEN row.month ELSE new.month
      /\ f.alerted = IF new.alerted = mem.alerted THEN row.alerted ELSE new.alerted
  BY <1>2
<1>4. f = [limit |-> f.limit, spend |-> f.spend, pending |-> f.pending,
           month |-> f.month, alerted |-> f.alerted]
  BY <1>2
<1> HIDE DEF f
<1>5. /\ row.limit \in Limits /\ new.limit \in Limits /\ row.spend \in Nat /\ new.spend \in Nat
      /\ row.pending \in Nat /\ new.pending \in Nat /\ row.month \in Months
      /\ new.month \in Months /\ row.alerted \in 0..MaxMonth /\ new.alerted \in 0..MaxMonth
  BY DEF Row
<1>6. f \in Row
  <2>1. /\ f.limit \in Limits /\ f.spend \in Nat /\ f.pending \in Nat /\ f.month \in Months
        /\ f.alerted \in 0..MaxMonth
    BY <1>3, <1>5
  <2> QED
    BY <1>4, <2>1 DEF Row
<1>7. ASSUME row = mem PROVE f = new
  <2>1. /\ f.limit = new.limit /\ f.spend = new.spend /\ f.pending = new.pending
        /\ f.month = new.month /\ f.alerted = new.alerted
    BY <1>3, <1>7
  <2>2. new = [limit |-> new.limit, spend |-> new.spend, pending |-> new.pending,
               month |-> new.month, alerted |-> new.alerted]
    BY DEF Row
  <2> QED
    BY <1>4, <2>1, <2>2
<1> QED
  BY <1>3, <1>6, <1>7 DEF f

LEMMA NoteFacts ==
    ASSUME NEW h \in History, Note(h)
    PROVE  /\ hist' \in History
           /\ hist'.unmatched = h.unmatched /\ hist'.outdated = h.outdated
           /\ hist'.unsent = h.unsent
           /\ ~h.outdated => hist'.cost = h.cost /\ hist'.over = h.over
           /\ ~h.unmatched => hist'.leaked = h.leaked
<1>1. PICK a \in Nat, b \in Nat, c \in Nat :
         /\ a = IF h.outdated THEN 0 ELSE h.cost
         /\ b = IF h.outdated THEN 0 ELSE h.over
         /\ c = IF h.unmatched THEN 0 ELSE h.leaked
  BY DEF History
<1>2. hist' = [h EXCEPT !.cost = a, !.over = b, !.leaked = c]
  BY <1>1 DEF Note
<1> QED
  BY <1>1, <1>2 DEF History

\* How the number of analyses in a set of steps changes when one analysis moves.
LEMMA CountStep ==
    ASSUME ses \in [Sessions -> Session], NEW s \in Sessions, NEW x \in Session,
           ses' = [ses EXCEPT ![s] = x], NEW K
    PROVE  /\ Cardinality({t \in Sessions : ses[t].step \in K}) \in Nat
           /\ Cardinality({t \in Sessions : ses'[t].step \in K}) \in Nat
           /\ Cardinality({t \in Sessions : ses'[t].step \in K})
                = Cardinality({t \in Sessions : ses[t].step \in K})
                    + (IF x.step \in K THEN 1 ELSE 0)
                    - (IF ses[s].step \in K THEN 1 ELSE 0)
<1> DEFINE A == {t \in Sessions : ses[t].step \in K}
           C == {t \in Sessions : ses'[t].step \in K}
<1>0. IsFiniteSet(Sessions)
  BY LLMBudgetAssumption
<1>1. IsFiniteSet(A) /\ IsFiniteSet(C)
  BY <1>0, FS_Subset
<1>2. Cardinality(A) \in Nat /\ Cardinality(C) \in Nat
  BY <1>1, FS_CardinalityType
<1>3. ses'[s] = x /\ \A t \in Sessions \ {s} : ses'[t] = ses[t]
  OBVIOUS
<1>4. CASE x.step \in K /\ ses[s].step \in K
  <2>1. A = C
    BY <1>3, <1>4
  <2>2. PICK n \in Nat : n = Cardinality(A)
    BY <1>2
  <2>3. n = Cardinality(C)
    BY <2>1, <2>2
  <2> HIDE DEF A, C
  <2>4. Cardinality(C) = Cardinality(A) + (IF x.step \in K THEN 1 ELSE 0)
                                        - (IF ses[s].step \in K THEN 1 ELSE 0)
    BY <1>4, <2>2, <2>3
  <2> QED
    BY <1>2, <2>4 DEF A, C
<1>5. CASE x.step \notin K /\ ses[s].step \notin K
  <2>1. A = C
    BY <1>3, <1>5
  <2>2. PICK n \in Nat : n = Cardinality(A)
    BY <1>2
  <2>3. n = Cardinality(C)
    BY <2>1, <2>2
  <2> HIDE DEF A, C
  <2>4. Cardinality(C) = Cardinality(A) + (IF x.step \in K THEN 1 ELSE 0)
                                        - (IF ses[s].step \in K THEN 1 ELSE 0)
    BY <1>5, <2>2, <2>3
  <2> QED
    BY <1>2, <2>4 DEF A, C
<1>6. CASE x.step \in K /\ ses[s].step \notin K
  <2>1. C = A \cup {s} /\ s \notin A
    BY <1>3, <1>6
  <2>2. Cardinality(C) = Cardinality(A) + 1
    BY <1>1, <2>1, FS_AddElement
  <2> QED
    BY <1>2, <1>6, <2>2
<1>7. CASE x.step \notin K /\ ses[s].step \in K
  <2>1. C = A \ {s} /\ s \in A
    BY <1>3, <1>7
  <2>2. Cardinality(C) = Cardinality(A) - 1
    BY <1>1, <2>1, FS_RemoveElement
  <2> QED
    BY <1>2, <1>7, <2>2
<1> QED
  BY <1>4, <1>5, <1>6, <1>7


-----------------------------------------------------------------------------
(***************************************************************************)
(* Most operations move one analysis to a step outside the transaction and *)
(* leave the money alone: the invariant is kept for all of them at once.   *)
(***************************************************************************)

Reached == usage > 0 /\ usage * 100 >= Max(Limits) * AlertPercent

One(step) == IF step \in Counted THEN 1 ELSE 0

\* Session s goes on as x, outside the transaction.
Moves(s, x) ==
    /\ ses' = [ses EXCEPT ![s] = x]
    /\ x.step \notin InTransaction /\ x.step # "alert"
    /\ lock' = IF lock = s THEN Nobody ELSE lock
    /\ month' = month /\ usage' = usage /\ today' = today
    /\ budget' = budget \/ (lock = Nobody /\ budget' = [budget EXCEPT !.alerted = month])
    /\ slots' \in Int /\ local' \in 0..Cap /\ flags' \in SUBSET Flags
    /\ calls' \in 0..MaxCalls /\ faults' \in 0..MaxFaults
    /\ hist' \in History /\ hist'.outdated = hist.outdated
    /\ ~hist.outdated => hist'.cost = hist.cost /\ hist'.over = hist.over
    /\ hist.unmatched => hist'.unmatched
    /\ hist.unsent => hist'.unsent
    /\ x.step \in {"slot", "overflow", "reserve"} =>
          ses[s].step \in {"slot", "overflow", "reserve"} \/ today < DailyLimit
    /\ ~hist'.unmatched =>
          slots' - hist'.leaked = slots - hist.leaked + One(x.step) - One(ses[s].step)
    /\ x.step = "zero" => hist'.unmatched
    /\ x.mem.alerted <= budget.alerted
    /\ ses[s].step = "alert" => hist'.unsent \/ budget'.alerted = month \/ ~Reached

LEMMA SetsAreFinite ==
    /\ IsFiniteSet(Sessions) /\ Cardinality(Sessions) \in Nat
    /\ DailyLimit \in Nat /\ DailyLimit > 0
BY LLMBudgetAssumption, FS_CardinalityType

\* The month is a month, and so is the mark an alert leaves.
LEMMA AlertedRow ==
    ASSUME NEW row \in Row, month \in Months
    PROVE  /\ [row EXCEPT !.alerted = month] \in Row
           /\ [row EXCEPT !.alerted = month].alerted = month
           /\ [row EXCEPT !.alerted = month].spend = row.spend
           /\ [row EXCEPT !.alerted = month].pending = row.pending
           /\ [row EXCEPT !.alerted = month].month = row.month
           /\ [row EXCEPT !.alerted = month].limit = row.limit
<1>1. month \in 0..MaxMonth
  BY LLMBudgetAssumption DEF Months
<1> QED
  BY <1>1 DEF Row

\* The quota, when one analysis moves past it or on.
LEMMA QuotaStep ==
    ASSUME TypeOK, QuotaReserved, NEW s \in Sessions, NEW x \in Session,
           ses' = [ses EXCEPT ![s] = x], NEW d \in 0..1, today' = today + d,
           LET K == {"slot", "overflow", "reserve"} \cup InTransaction
           IN  \/ ses[s].step \in K /\ (d = 1 => x.step \notin K)
               \/ d = 0 /\ (x.step \in K => today < DailyLimit)
    PROVE  QuotaReserved'
<1> DEFINE K == {"slot", "overflow", "reserve"} \cup InTransaction
<1>1. ses \in [Sessions -> Session] /\ today \in Nat
  BY DEF TypeOK
<1>2. PICK a \in Nat : a = Cardinality({t \in Sessions : ses[t].step \in K})
  BY <1>1, CountStep
<1>3. PICK c \in Nat : c = Cardinality({t \in Sessions : ses'[t].step \in K})
  BY <1>1, CountStep
<1>4. c = a + (IF x.step \in K THEN 1 ELSE 0) - (IF ses[s].step \in K THEN 1 ELSE 0)
  <2> HIDE DEF K
  <2> QED
    BY <1>1, <1>2, <1>3, CountStep
<1>5. Passed = {t \in Sessions : ses[t].step \in K}
  BY DEF Passed
<1>6. Passed' = {t \in Sessions : ses'[t].step \in K}
  BY DEF Passed
<1>7. c <= Cardinality(Sessions)
  <2>1. {t \in Sessions : ses'[t].step \in K} \subseteq Sessions
    OBVIOUS
  <2> HIDE DEF K
  <2> QED
    BY <2>1, <1>3, SetsAreFinite, FS_Subset
<1>8. PICK n \in Nat : n = Cardinality(Sessions)
  BY SetsAreFinite
<1>9. today + a <= DailyLimit + n - 1
  BY <1>2, <1>5, <1>8 DEF QuotaReserved
<1>10. PICK td \in Nat : td = today
  BY <1>1
<1>11. PICK dl \in Nat : dl = DailyLimit /\ dl > 0
  BY SetsAreFinite
<1>12. td + d + c <= dl + n - 1
  <2>1. \/ ses[s].step \in K /\ (d = 1 => x.step \notin K)
        \/ d = 0 /\ (x.step \in K => td < dl)
    BY <1>10, <1>11
  <2>2. td + a <= dl + n - 1 /\ c <= n
    BY <1>7, <1>8, <1>9, <1>10, <1>11
  <2> HIDE DEF K
  <2>3. CASE ses[s].step \in K /\ x.step \in K
    BY <1>4, <2>1, <2>2, <2>3
  <2>4. CASE ses[s].step \in K /\ x.step \notin K
    BY <1>4, <2>1, <2>2, <2>4
  <2>5. CASE ses[s].step \notin K /\ x.step \in K
    BY <1>4, <2>1, <2>2, <2>5
  <2>6. CASE ses[s].step \notin K /\ x.step \notin K
    BY <1>4, <2>1, <2>2, <2>6
  <2> QED
    BY <2>3, <2>4, <2>5, <2>6
<1>13. today' + Cardinality(Passed') <= DailyLimit + Cardinality(Sessions) - 1
  BY <1>3, <1>6, <1>8, <1>10, <1>11, <1>12
<1> QED
  BY <1>13 DEF QuotaReserved

\* The slots, when one analysis moves.
LEMMA SlotStep ==
    ASSUME TypeOK, SlotsAccounted, NEW s \in Sessions, NEW x \in Session,
           ses' = [ses EXCEPT ![s] = x], slots' \in Int, hist' \in History,
           hist.unmatched => hist'.unmatched,
           ~hist'.unmatched =>
              slots' - hist'.leaked = slots - hist.leaked + One(x.step) - One(ses[s].step)
    PROVE  SlotsAccounted'
<1> SUFFICES ASSUME ~hist'.unmatched
             PROVE  slots' = hist'.leaked + Cardinality({t \in Sessions : ses'[t].step \in Counted})
  BY DEF SlotsAccounted
<1>1. ses \in [Sessions -> Session] /\ slots \in Int /\ hist.leaked \in Nat /\ hist'.leaked \in Nat
  BY DEF TypeOK, History
<1>2. PICK a \in Nat : a = Cardinality({t \in Sessions : ses[t].step \in Counted})
  BY <1>1, CountStep
<1>3. PICK c \in Nat : c = Cardinality({t \in Sessions : ses'[t].step \in Counted})
  BY <1>1, CountStep
<1>4. PICK u \in 0..1, v \in 0..1 : u = One(x.step) /\ v = One(ses[s].step)
  BY DEF One
<1>5. c = a + u - v
  <2>1. c = a + (IF x.step \in Counted THEN 1 ELSE 0) - (IF ses[s].step \in Counted THEN 1 ELSE 0)
    BY <1>1, <1>2, <1>3, CountStep
  <2> QED
    BY <1>4, <2>1 DEF One
<1>6. slots = hist.leaked + a
  BY <1>2 DEF SlotsAccounted
<1>7. PICK p \in Int, q \in Nat, p2 \in Int, q2 \in Nat :
         p = slots /\ q = hist.leaked /\ p2 = slots' /\ q2 = hist'.leaked
  BY <1>1
<1>8. p2 - q2 = p - q + u - v
  BY <1>4, <1>7
<1>9. p = q + a
  BY <1>6, <1>7
<1>10. p2 = q2 + c
  BY <1>5, <1>8, <1>9
<1> QED
  BY <1>3, <1>7, <1>10


LEMMA SessionStep ==
    ASSUME IInv, NEW s \in Sessions, NEW x \in Session, Moves(s, x)
    PROVE  IInv'
<1> USE DEF IInv
<1>1. /\ budget \in Row /\ lock \in Sessions \cup {Nobody} /\ ses \in [Sessions -> Session]
      /\ month \in Months /\ today \in Nat /\ usage \in Nat /\ hist \in History
  BY DEF TypeOK
<1>2. /\ ses' = [ses EXCEPT ![s] = x]
      /\ x.step \notin InTransaction /\ x.step # "alert"
      /\ lock' = IF lock = s THEN Nobody ELSE lock
      /\ month' = month /\ usage' = usage /\ today' = today
      /\ budget' = budget \/ (lock = Nobody /\ budget' = [budget EXCEPT !.alerted = month])
  BY DEF Moves
<1>3. /\ hist' \in History /\ hist'.outdated = hist.outdated
      /\ ~hist.outdated => hist'.cost = hist.cost /\ hist'.over = hist.over
      /\ hist.unmatched => hist'.unmatched
      /\ hist.unsent => hist'.unsent
  BY DEF Moves
<1>4. ses'[s] = x /\ \A t \in Sessions : t # s => ses'[t] = ses[t]
  BY <1>1, <1>2
<1>5. Nobody \notin Sessions
  BY LLMBudgetAssumption
<1>6. /\ budget' \in Row /\ budget'.spend = budget.spend /\ budget'.pending = budget.pending
      /\ budget'.month = budget.month
      /\ budget' = budget \/ (lock = Nobody /\ budget'.alerted = month)
  BY <1>1, <1>2, AlertedRow
<1>7. TypeOK'
  <2>1. ses' \in [Sessions -> Session]
    BY <1>1, <1>2
  <2>2. lock' \in Sessions \cup {Nobody}
    BY <1>1, <1>2
  <2>3. /\ slots' \in Int /\ local' \in 0..Cap /\ flags' \in SUBSET Flags
        /\ calls' \in 0..MaxCalls /\ faults' \in 0..MaxFaults
    BY DEF Moves
  <2> QED
    BY <1>1, <1>2, <1>3, <1>6, <2>1, <2>2, <2>3 DEF TypeOK
<1>8. LockHeld'
  <2>1. \A t \in Sessions : lock' = t <=> ses'[t].step \in InTransaction
    <3> SUFFICES ASSUME NEW t \in Sessions
                 PROVE  lock' = t <=> ses'[t].step \in InTransaction
      OBVIOUS
    <3>1. lock = t <=> ses[t].step \in InTransaction
      BY DEF LockHeld
    <3> QED
      BY <1>2, <1>4, <1>5, <3>1
  <2> QED
    BY <2>1 DEF LockHeld, InTransaction
<1>9. ReservedFromRow'
  <2> SUFFICES ASSUME NEW t \in Sessions, ses'[t].step \in InTransaction, ~hist'.outdated
               PROVE  /\ ses'[t].txn = ses'[t].mem
                      /\ ses'[t].mem.spend + ses'[t].mem.pending <= Max(Limits)
                      /\ ses'[t].est <= ses'[t].mem.pending
                      /\ ses'[t].mem.spend = IF ses'[t].mem.month = budget'.month
                                             THEN budget'.spend ELSE 0
    BY DEF ReservedFromRow, InTransaction
  <2>1. t # s
    BY <1>2, <1>4
  <2>2. ses'[t] = ses[t] /\ ses[t].step \in InTransaction /\ ~hist.outdated
    BY <1>3, <1>4, <2>1
  <2>3. /\ ses[t].txn = ses[t].mem
        /\ ses[t].mem.spend + ses[t].mem.pending <= Max(Limits)
        /\ ses[t].est <= ses[t].mem.pending
        /\ ses[t].mem.spend = IF ses[t].mem.month = budget.month THEN budget.spend ELSE 0
    BY <2>2 DEF ReservedFromRow
  <2> QED
    BY <1>6, <2>2, <2>3
<1>10. MoneyAccounted'
  BY <1>3, <1>6 DEF MoneyAccounted, OverspendBounded, SpendIsRecorded
<1>11. QuotaReserved'
  <2>1. x.step \in {"slot", "overflow", "reserve"} =>
          ses[s].step \in {"slot", "overflow", "reserve"} \/ today < DailyLimit
    BY DEF Moves
  <2>2. today' = today + 0
    BY <1>1, <1>2
  <2>3. LET K == {"slot", "overflow", "reserve"} \cup InTransaction
        IN  \/ ses[s].step \in K /\ (0 = 1 => x.step \notin K)
            \/ 0 = 0 /\ (x.step \in K => today < DailyLimit)
    BY <1>2, <2>1
  <2>4. 0 \in 0..1
    OBVIOUS
  <2> QED
    BY <1>2, <2>2, <2>3, <2>4, QuotaStep
<1>12. ZeroUnmatched'
  <2>1. x.step = "zero" => hist'.unmatched
    BY DEF Moves
  <2> QED
    BY <1>3, <1>4, <2>1 DEF ZeroUnmatched
<1>13. SlotsAccounted'
  <2>1. slots' \in Int
    BY DEF Moves
  <2>2. ~hist'.unmatched =>
          slots' - hist'.leaked = slots - hist.leaked + One(x.step) - One(ses[s].step)
    BY DEF Moves
  <2> QED
    BY <1>2, <1>3, <2>1, <2>2, SlotStep
<1>14. AlertsGrow'
  <2>1. PICK m \in Nat, a \in Nat, b \in Nat : m = month /\ a = budget.alerted /\ b = budget'.alerted
    BY <1>1, <1>6 DEF Months, Row
  <2>2. a <= m
    BY <2>1 DEF AlertsGrow
  <2>3. a <= b /\ b <= m
    BY <1>6, <2>1, <2>2
  <2>4. budget'.alerted <= month'
    BY <1>2, <2>1, <2>3
  <2>5. ASSUME NEW t \in Sessions
        PROVE  /\ ses'[t].mem.alerted <= budget'.alerted
               /\ ses'[t].step \in InTransaction => ses'[t].txn.alerted = budget'.alerted
               /\ ses'[t].step \in InTransaction \cup {"alert"} => ses'[t].mem.limit > 0
    <3>1. CASE t = s
      <4>1. x.mem.alerted <= budget.alerted
        BY DEF Moves
      <4>2. PICK y \in Nat : y = x.mem.alerted
        BY DEF Session, Row
      <4>3. y <= b
        BY <2>1, <2>3, <4>1, <4>2
      <4> QED
        BY <1>2, <1>4, <2>1, <3>1, <4>2, <4>3
    <3>2. CASE t # s
      <4>1. ses'[t] = ses[t]
        BY <1>4, <3>2
      <4>2. /\ ses[t].mem.alerted <= budget.alerted
            /\ ses[t].step \in InTransaction => ses[t].txn.alerted = budget.alerted
            /\ ses[t].step \in InTransaction \cup {"alert"} => ses[t].mem.limit > 0
        BY DEF AlertsGrow
      <4>3. PICK y \in Nat : y = ses[t].mem.alerted
        BY <1>1 DEF Session, Row
      <4>4. y <= b
        BY <2>1, <2>3, <4>2, <4>3
      <4>5. ses[t].step \in InTransaction => budget' = budget
        BY <1>2, <1>5 DEF LockHeld
      <4> QED
        BY <2>1, <4>1, <4>2, <4>3, <4>4, <4>5
    <3> QED
      BY <3>1, <3>2
  <2> QED
    BY <2>4, <2>5 DEF AlertsGrow, InTransaction
<1>15. ThresholdReported'
  <2> SUFFICES ASSUME usage' > 0 /\ usage' * 100 >= Max(Limits) * AlertPercent
               PROVE  \/ budget'.alerted = month'
                      \/ \E t \in Sessions : ses'[t].step = "alert"
                      \/ hist'.unsent
    BY DEF ThresholdReported
  <2>1. Reached
    BY <1>2 DEF Reached
  <2>2. \/ budget.alerted = month
        \/ \E t \in Sessions : ses[t].step = "alert"
        \/ hist.unsent
    BY <2>1 DEF Reached, ThresholdReported
  <2>3. CASE budget.alerted = month
    BY <1>2, <1>6, <2>3
  <2>4. CASE \E t \in Sessions : ses[t].step = "alert"
    <3>1. PICK t \in Sessions : ses[t].step = "alert"
      BY <2>4
    <3>2. CASE t = s
      <4>1. hist'.unsent \/ budget'.alerted = month
        BY <2>1, <3>1, <3>2 DEF Moves
      <4> QED
        BY <1>2, <4>1
    <3>3. CASE t # s
      BY <1>4, <3>1, <3>3
    <3> QED
      BY <3>2, <3>3
  <2>5. CASE hist.unsent
    BY <1>3, <2>5
  <2> QED
    BY <2>2, <2>3, <2>4, <2>5
<1> QED
  BY <1>7, <1>8, <1>9, <1>10, <1>11, <1>12, <1>13, <1>14, <1>15


-----------------------------------------------------------------------------
(***************************************************************************)
(* The operations of that kind.                                            *)
(***************************************************************************)

Steps == {"idle", "quota", "slot", "zero"} \cup Counted

Finished == [Idle EXCEPT !.step = "release"]

\* What a session is when it moves on, closes, or has only its slot to release.
LEMMA GotoFacts ==
    ASSUME IInv, NEW s \in Sessions, NEW k \in Steps
    PROVE  /\ [ses[s] EXCEPT !.step = k] \in Session
           /\ [ses[s] EXCEPT !.step = k].step = k
           /\ [ses[s] EXCEPT !.step = k].mem = ses[s].mem
           /\ [ses[s] EXCEPT !.step = k].txn = ses[s].txn
           /\ [ses[s] EXCEPT !.step = k].est = ses[s].est
           /\ ses[s].mem.alerted <= budget.alerted
           /\ Goto(s, k) => ses' = [ses EXCEPT ![s] = [ses[s] EXCEPT !.step = k]]
<1>1. ses \in [Sessions -> Session]
  BY DEF IInv, TypeOK
<1>2. ses[s] \in Session
  BY <1>1
<1>3. ses[s].mem.alerted <= budget.alerted
  BY DEF IInv, AlertsGrow
<1>4. Goto(s, k) => ses' = [ses EXCEPT ![s] = [ses[s] EXCEPT !.step = k]]
  BY <1>1 DEF Goto
<1>5. [ses[s] EXCEPT !.step = k] \in Session
  BY <1>2 DEF Session, Steps
<1>6. /\ [ses[s] EXCEPT !.step = k].step = k
      /\ [ses[s] EXCEPT !.step = k].mem = ses[s].mem
      /\ [ses[s] EXCEPT !.step = k].txn = ses[s].txn
      /\ [ses[s] EXCEPT !.step = k].est = ses[s].est
  BY <1>2 DEF Session
<1> QED
  BY <1>3, <1>4, <1>5, <1>6

LEMMA EndFacts ==
    ASSUME IInv
    PROVE  /\ Idle \in Session /\ Finished \in Session
           /\ Idle.step = "idle" /\ Finished.step = "release"
           /\ Idle.mem.alerted <= budget.alerted /\ Finished.mem.alerted <= budget.alerted
<1>1. Finished \in Session /\ Finished.step = "release" /\ Finished.mem = Idle.mem
  <2>1. Idle \in Session
    BY IdleType
  <2> HIDE DEF Idle
  <2> QED
    BY <2>1 DEF Finished, Session, Counted
<1>2. Idle.mem.alerted = 0
  BY IdleType, FirstRowType
<1>3. PICK n \in Nat : n = budget.alerted
  BY DEF IInv, TypeOK, Row
<1>4. 0 <= budget.alerted
  BY <1>3
<1> QED
  BY <1>1, <1>2, <1>4, IdleType

LEMMA OneOf ==
    /\ One("idle") = 0 /\ One("quota") = 0 /\ One("slot") = 0 /\ One("zero") = 0
    /\ One("overflow") = 1 /\ One("reserve") = 1 /\ One("check") = 1 /\ One("call") = 1
    /\ One("alert") = 1 /\ One("release") = 1
BY DEF One, Counted

\* A step outside the transaction that only counts, or does nothing but move on.
LEMMA QuietStep ==
    ASSUME IInv, NEW s \in Sessions, NEW x \in Session, ses' = [ses EXCEPT ![s] = x],
           ses[s].step \notin InTransaction, ses[s].step # "alert",
           x.step \notin InTransaction, x.step # "alert", x.mem.alerted <= budget.alerted,
           UNCHANGED <<money, local, faults, hist>>, calls' \in 0..MaxCalls,
           x.step \in {"slot", "overflow", "reserve"} =>
              ses[s].step \in {"slot", "overflow", "reserve"} \/ today < DailyLimit,
           slots' \in Int,
           ~hist.unmatched => slots' = slots + One(x.step) - One(ses[s].step),
           x.step = "zero" => hist.unmatched
    PROVE  IInv'
<1>1. /\ budget' = budget /\ lock' = lock /\ flags' = flags /\ month' = month
      /\ today' = today /\ usage' = usage /\ local' = local /\ faults' = faults /\ hist' = hist
  BY DEF money
<1>2. /\ local \in 0..Cap /\ flags \in SUBSET Flags /\ faults \in 0..MaxFaults /\ hist \in History
      /\ slots \in Int
  BY DEF IInv, TypeOK
<1>3. lock # s
  BY DEF IInv, LockHeld
<1>4. ~hist'.unmatched =>
         slots' - hist'.leaked = slots - hist.leaked + One(x.step) - One(ses[s].step)
  <2>1. hist.leaked \in Nat
    BY <1>2 DEF History
  <2>2. PICK u \in 0..1, v \in 0..1 : u = One(x.step) /\ v = One(ses[s].step)
    BY DEF One
  <2>3. PICK p \in Int, q \in Nat, p2 \in Int : p = slots /\ q = hist.leaked /\ p2 = slots'
    BY <1>2, <2>1
  <2>4. ~hist.unmatched => p2 = p + u - v
    BY <2>2, <2>3
  <2>5. ~hist.unmatched => p2 - q = p - q + u - v
    BY <2>4
  <2> QED
    BY <1>1, <2>2, <2>3, <2>5
<1>5. Moves(s, x)
  BY <1>1, <1>2, <1>3, <1>4 DEF Moves
<1> QED
  BY <1>5, SessionStep

LEMMA BeginStep ==
    ASSUME IInv, NEW s \in Sessions, NEW zombie \in BOOLEAN, Begin(s, zombie)
    PROVE  IInv'
<1> DEFINE m == IF zombie THEN budget ELSE FirstRow
           x == [Idle EXCEPT !.step = "quota", !.zombie = zombie, !.mem = m]
<1>1. budget \in Row /\ calls \in 0..MaxCalls /\ slots \in Int /\ MaxCalls \in Nat
  BY LLMBudgetAssumption DEF IInv, TypeOK
<1>2. m \in Row /\ m.alerted <= budget.alerted
  <2>1. PICK n \in Nat : n = budget.alerted
    BY <1>1 DEF Row
  <2> QED
    BY <1>1, <2>1, FirstRowType
<1> HIDE DEF m
<1>3. x \in Session /\ x.step = "quota" /\ x.mem = m
  <2>1. Idle \in Session
    BY IdleType
  <2> QED
    BY <1>2, <2>1 DEF Session
<1>4. ses' = [ses EXCEPT ![s] = x]
  BY DEF Begin, m
<1> HIDE DEF x
<1>5. ses[s].step = "idle"
  BY IdleType DEF Begin
<1>6. UNCHANGED <<money, local, faults, hist>> /\ slots' = slots
  BY DEF Begin, fairUse
<1>7. calls' \in 0..MaxCalls
  BY <1>1 DEF Begin
<1>8. ~hist.unmatched => slots' = slots + One(x.step) - One(ses[s].step)
  BY <1>1, <1>3, <1>5, <1>6, OneOf
<1>9. /\ ses[s].step \notin InTransaction /\ ses[s].step # "alert"
      /\ x.step \notin InTransaction /\ x.step # "alert" /\ x.step # "zero"
      /\ x.step \notin {"slot", "overflow", "reserve"}
  BY <1>3, <1>5 DEF InTransaction
<1>10. x.mem.alerted <= budget.alerted /\ slots' \in Int
  BY <1>1, <1>2, <1>3, <1>6
<1> QED
  BY <1>3, <1>4, <1>6, <1>7, <1>8, <1>9, <1>10, QuietStep

LEMMA CheckQuotaStep ==
    ASSUME IInv, NEW s \in Sessions, CheckQuota(s)
    PROVE  IInv'
<1>1. calls \in 0..MaxCalls /\ slots \in Int
  BY DEF IInv, TypeOK
<1>2. ses[s].step = "quota" /\ UNCHANGED <<money, local, faults, hist>>
      /\ slots' = slots /\ calls' = calls
  BY DEF CheckQuota, fairUse
<1>3. PICK x \in Session :
         /\ ses' = [ses EXCEPT ![s] = x] /\ x.mem.alerted <= budget.alerted
         /\ (x.step = "slot" /\ today < DailyLimit) \/ x.step = "idle"
  <2>1. CASE QuotaLeft /\ Goto(s, "slot")
    <3>1. "slot" \in Steps
      BY DEF Steps
    <3> QED
      BY <2>1, <3>1, GotoFacts DEF QuotaLeft
  <2>2. CASE Close(s)
    BY <2>2, EndFacts DEF Close
  <2> QED
    BY <2>1, <2>2 DEF CheckQuota
<1>4. ~hist.unmatched => slots' = slots + One(x.step) - One(ses[s].step)
  BY <1>1, <1>2, <1>3, OneOf
<1>5. /\ ses[s].step \notin InTransaction /\ ses[s].step # "alert"
      /\ x.step \notin InTransaction /\ x.step # "alert" /\ x.step # "zero"
      /\ x.step \in {"slot", "overflow", "reserve"} => today < DailyLimit
  BY <1>2, <1>3 DEF InTransaction
<1>6. calls' \in 0..MaxCalls /\ slots' \in Int
  BY <1>1, <1>2
<1> QED
  BY <1>2, <1>3, <1>4, <1>5, <1>6, QuietStep

LEMMA AcquireSlotStep ==
    ASSUME IInv, NEW s \in Sessions, AcquireSlot(s)
    PROVE  IInv'
<1>1. calls \in 0..MaxCalls /\ slots \in Int
  BY DEF IInv, TypeOK
<1>2. ses[s].step = "slot" /\ UNCHANGED <<money, local, faults, hist>>
      /\ slots' = slots + 1 /\ calls' = calls
  BY DEF AcquireSlot
<1>3. PICK x \in Session :
         /\ ses' = [ses EXCEPT ![s] = x] /\ x.mem.alerted <= budget.alerted
         /\ x.step \in {"overflow", "reserve"}
  <2>1. PICK k \in {"overflow", "reserve"} : Goto(s, k)
    BY DEF AcquireSlot
  <2>2. k \in Steps
    BY DEF Steps, Counted
  <2> DEFINE y == [ses[s] EXCEPT !.step = k]
  <2>3. /\ y \in Session /\ y.step = k /\ y.mem.alerted <= budget.alerted
        /\ ses' = [ses EXCEPT ![s] = y]
    BY <2>1, <2>2, GotoFacts
  <2> HIDE DEF y
  <2> QED
    BY <2>3
<1>4. ~hist.unmatched => slots' = slots + One(x.step) - One(ses[s].step)
  <2>1. One(x.step) = 1 /\ One(ses[s].step) = 0
    BY <1>2, <1>3, OneOf
  <2> QED
    BY <1>1, <1>2, <2>1
<1>5. /\ ses[s].step \notin InTransaction /\ ses[s].step # "alert"
      /\ x.step \notin InTransaction /\ x.step # "alert" /\ x.step # "zero"
      /\ ses[s].step \in {"slot", "overflow", "reserve"}
  BY <1>2, <1>3 DEF InTransaction
<1>6. calls' \in 0..MaxCalls /\ slots' \in Int
  BY <1>1, <1>2
<1> QED
  BY <1>2, <1>3, <1>4, <1>5, <1>6, QuietStep

LEMMA UndoAcquireStep ==
    ASSUME IInv, NEW s \in Sessions, UndoAcquire(s)
    PROVE  IInv'
<1>1. calls \in 0..MaxCalls /\ slots \in Int
  BY DEF IInv, TypeOK
<1>2. ses[s].step = "overflow" /\ UNCHANGED <<money, local, faults, hist>>
      /\ slots' = slots - 1 /\ calls' = calls /\ ses' = [ses EXCEPT ![s] = Idle]
  BY DEF UndoAcquire, Close
<1>3. ~hist.unmatched => slots' = slots + One(Idle.step) - One(ses[s].step)
  <2>1. One(Idle.step) = 0 /\ One(ses[s].step) = 1
    BY <1>2, EndFacts, OneOf
  <2> QED
    BY <1>1, <1>2, <2>1
<1>4. /\ ses[s].step \notin InTransaction /\ ses[s].step # "alert"
      /\ Idle.step \notin InTransaction /\ Idle.step # "alert" /\ Idle.step # "zero"
      /\ Idle.step \notin {"slot", "overflow", "reserve"}
  BY <1>2, EndFacts DEF InTransaction
<1>5. calls' \in 0..MaxCalls /\ slots' \in Int
  BY <1>1, <1>2
<1>6. Idle \in Session /\ Idle.mem.alerted <= budget.alerted
  BY EndFacts
<1> QED
  BY <1>2, <1>3, <1>4, <1>5, <1>6, QuietStep

LEMMA ReleaseStep ==
    ASSUME IInv, NEW s \in Sessions, Release(s)
    PROVE  IInv'
<1>1. calls \in 0..MaxCalls /\ slots \in Int /\ ses \in [Sessions -> Session] /\ hist \in History
  BY DEF IInv, TypeOK
<1>2. ses[s].step = "release" /\ UNCHANGED <<money, local, faults, hist>>
      /\ slots' = slots - 1 /\ calls' = calls
  BY DEF Release
<1>3. PICK x \in Session :
         /\ ses' = [ses EXCEPT ![s] = x] /\ x.mem.alerted <= budget.alerted
         /\ (x.step = "zero" /\ slots - 1 < 0) \/ x.step = "idle"
  <2>1. CASE slots - 1 < 0
    <3>1. "zero" \in Steps /\ Goto(s, "zero")
      BY <2>1 DEF Steps, Release
    <3> QED
      BY <2>1, <3>1, GotoFacts
  <2>2. CASE ~(slots - 1 < 0)
    <3>1. ses' = [ses EXCEPT ![s] = Idle]
      BY <2>2 DEF Release, Close
    <3> QED
      BY <3>1, EndFacts
  <2> QED
    BY <2>1, <2>2
<1>4. ~hist.unmatched => slots' = slots + One(x.step) - One(ses[s].step)
  <2>1. One(x.step) = 0 /\ One(ses[s].step) = 1
    BY <1>2, <1>3, OneOf
  <2> QED
    BY <1>1, <1>2, <2>1
<1>5. /\ ses[s].step \notin InTransaction /\ ses[s].step # "alert"
      /\ x.step \notin InTransaction /\ x.step # "alert"
      /\ x.step \notin {"slot", "overflow", "reserve"}
  BY <1>2, <1>3 DEF InTransaction
<1>6. calls' \in 0..MaxCalls /\ slots' \in Int
  BY <1>1, <1>2
<1>7. x.step = "zero" => hist.unmatched
  <2> SUFFICES ASSUME slots - 1 < 0, ~hist.unmatched PROVE FALSE
    BY <1>3
  <2> DEFINE A == {t \in Sessions : ses[t].step \in Counted}
  <2>1. IsFiniteSet(A) /\ s \in A
    <3>1. A \subseteq Sessions /\ s \in A
      BY <1>2 DEF Counted
    <3> QED
      BY <3>1, SetsAreFinite, FS_Subset
  <2>2. slots = hist.leaked + Cardinality(A)
    BY DEF IInv, SlotsAccounted
  <2> HIDE DEF A
  <2>3. Cardinality(A) \in Nat /\ Cardinality(A) # 0
    BY <2>1, FS_CardinalityType, FS_EmptySet
  <2>4. PICK n \in Nat, l \in Nat : n = Cardinality(A) /\ n # 0 /\ l = hist.leaked
    BY <1>1, <2>3 DEF History
  <2>5. slots = l + n
    BY <2>2, <2>4
  <2> QED
    BY <2>4, <2>5
<1> QED
  BY <1>2, <1>3, <1>4, <1>5, <1>6, <1>7, QuietStep

LEMMA ZeroSlotsStep ==
    ASSUME IInv, NEW s \in Sessions, ZeroSlots(s)
    PROVE  IInv'
<1>1. calls \in 0..MaxCalls
  BY DEF IInv, TypeOK
<1>2. ses[s].step = "zero" /\ UNCHANGED <<money, local, faults, hist>>
      /\ slots' = 0 /\ calls' = calls /\ ses' = [ses EXCEPT ![s] = Idle]
  BY DEF ZeroSlots, Close
<1>3. hist.unmatched
  BY <1>2 DEF IInv, ZeroUnmatched
<1>4. /\ ses[s].step \notin InTransaction /\ ses[s].step # "alert"
      /\ Idle.step \notin InTransaction /\ Idle.step # "alert" /\ Idle.step # "zero"
      /\ Idle.step \notin {"slot", "overflow", "reserve"}
  BY <1>2, EndFacts DEF InTransaction
<1>5. calls' \in 0..MaxCalls /\ slots' \in Int
  BY <1>1, <1>2
<1>6. Idle \in Session /\ Idle.mem.alerted <= budget.alerted
  BY EndFacts
<1> QED
  BY <1>2, <1>3, <1>4, <1>5, <1>6, QuietStep


\* An analysis that ends, or goes on, after a fault: what the history then says.
LEMMA HistFacts ==
    ASSUME IInv, NEW n \in Nat, NEW u \in BOOLEAN
    PROVE  /\ Note([hist EXCEPT !.unmatched = TRUE]) =>
                 /\ hist' \in History /\ hist'.outdated = hist.outdated /\ hist'.unmatched
                 /\ hist'.unsent = hist.unsent
                 /\ ~hist.outdated => hist'.cost = hist.cost /\ hist'.over = hist.over
           /\ Note([hist EXCEPT !.leaked = @ + n, !.unsent = u]) =>
                 /\ hist' \in History /\ hist'.outdated = hist.outdated
                 /\ hist'.unmatched = hist.unmatched /\ hist'.unsent = u
                 /\ ~hist.outdated => hist'.cost = hist.cost /\ hist'.over = hist.over
                 /\ ~hist.unmatched => hist'.leaked = hist.leaked + n
<1>1. hist \in History
  BY DEF IInv, TypeOK
<1> DEFINE g == [hist EXCEPT !.unmatched = TRUE]
           h == [hist EXCEPT !.leaked = @ + n, !.unsent = u]
<1>2. g \in History /\ g.outdated = hist.outdated /\ g.unmatched = TRUE
      /\ g.unsent = hist.unsent /\ g.cost = hist.cost /\ g.over = hist.over
  BY <1>1 DEF History
<1>3. h \in History /\ h.outdated = hist.outdated /\ h.unmatched = hist.unmatched
      /\ h.unsent = u /\ h.cost = hist.cost /\ h.over = hist.over
      /\ h.leaked = hist.leaked + n
  <2>1. PICK l \in Nat : l = hist.leaked + n
    BY <1>1 DEF History
  <2>2. h = [hist EXCEPT !.leaked = l, !.unsent = u]
    BY <2>1
  <2> HIDE DEF h
  <2>3. DOMAIN hist = {"leaked", "unmatched", "outdated", "cost", "over", "unsent"}
    BY <1>1 DEF History
  <2>4. h \in History
    BY <1>1, <2>2 DEF History
  <2>5. h.leaked = l /\ h.unsent = u
    BY <2>2, <2>3
  <2>6. h.outdated = hist.outdated /\ h.unmatched = hist.unmatched
        /\ h.cost = hist.cost /\ h.over = hist.over
    BY <2>2, <2>3
  <2> QED
    BY <2>1, <2>4, <2>5, <2>6
<1> HIDE DEF g, h
<1>4. Note(g) =>
         /\ hist' \in History /\ hist'.outdated = hist.outdated /\ hist'.unmatched
         /\ hist'.unsent = hist.unsent
         /\ ~hist.outdated => hist'.cost = hist.cost /\ hist'.over = hist.over
  BY <1>2, NoteFacts
<1>5. Note(h) =>
         /\ hist' \in History /\ hist'.outdated = hist.outdated
         /\ hist'.unmatched = hist.unmatched /\ hist'.unsent = u
         /\ ~hist.outdated => hist'.cost = hist.cost /\ hist'.over = hist.over
         /\ ~hist.unmatched => hist'.leaked = hist.leaked + n
  BY <1>3, NoteFacts
<1> QED
  BY <1>4, <1>5 DEF g, h

LEMMA FaultType ==
    ASSUME IInv, Fault
    PROVE  faults' \in 0..MaxFaults
BY LLMBudgetAssumption DEF IInv, TypeOK, Fault

LEMMA AcquireLocallyStep ==
    ASSUME IInv, NEW s \in Sessions, AcquireLocally(s)
    PROVE  IInv'
<1>1. /\ local \in 0..Cap /\ slots \in Int /\ flags \in SUBSET Flags /\ calls \in 0..MaxCalls
      /\ Cap \in Nat
  BY LLMBudgetAssumption DEF IInv, TypeOK
<1>2. /\ budget' = budget /\ lock' = lock /\ flags' = flags /\ month' = month
      /\ today' = today /\ usage' = usage /\ calls' = calls
  BY DEF AcquireLocally, money
<1>3. faults' \in 0..MaxFaults
  BY FaultType DEF AcquireLocally
<1>4. /\ hist' \in History /\ hist'.outdated = hist.outdated /\ hist'.unmatched
      /\ hist'.unsent = hist.unsent
      /\ ~hist.outdated => hist'.cost = hist.cost /\ hist'.over = hist.over
  <2>1. Note([hist EXCEPT !.unmatched = TRUE])
    BY DEF AcquireLocally
  <2>2. 0 \in Nat /\ TRUE \in BOOLEAN
    OBVIOUS
  <2> QED
    BY <2>1, <2>2, HistFacts
<1>5. ses[s].step \in {"slot", "overflow"} /\ slots' \in Int
  BY <1>1 DEF AcquireLocally
<1>6. PICK x \in Session :
         /\ ses' = [ses EXCEPT ![s] = x] /\ x.mem.alerted <= budget.alerted
         /\ x.step \in {"reserve", "idle"} /\ local' \in 0..Cap
  <2>1. CASE local < Cap
    <3>1. "reserve" \in Steps /\ Goto(s, "reserve") /\ local' \in 0..Cap
      BY <1>1, <2>1 DEF Steps, Counted, AcquireLocally
    <3> DEFINE y == [ses[s] EXCEPT !.step = "reserve"]
    <3>2. /\ y \in Session /\ y.step = "reserve" /\ y.mem.alerted <= budget.alerted
          /\ ses' = [ses EXCEPT ![s] = y]
      BY <3>1, GotoFacts
    <3> HIDE DEF y
    <3> QED
      BY <3>1, <3>2
  <2>2. CASE ~(local < Cap)
    <3>1. ses' = [ses EXCEPT ![s] = Idle] /\ local' \in 0..Cap
      BY <1>1, <2>2 DEF AcquireLocally, Close
    <3> QED
      BY <3>1, EndFacts
  <2> QED
    BY <2>1, <2>2
<1>7. /\ x.step \notin InTransaction /\ x.step # "alert" /\ x.step # "zero"
      /\ ses[s].step \in {"slot", "overflow", "reserve"} /\ ses[s].step # "alert"
      /\ lock # s
  BY <1>5, <1>6 DEF InTransaction, IInv, LockHeld
<1>8. Moves(s, x)
  BY <1>1, <1>2, <1>3, <1>4, <1>5, <1>6, <1>7 DEF Moves
<1> QED
  BY <1>8, SessionStep

LEMMA ReleaseLocallyStep ==
    ASSUME IInv, NEW s \in Sessions, ReleaseLocally(s)
    PROVE  IInv'
<1>1. /\ local \in 0..Cap /\ slots \in Int /\ flags \in SUBSET Flags /\ calls \in 0..MaxCalls
      /\ Cap \in Nat
  BY LLMBudgetAssumption DEF IInv, TypeOK
<1>2. /\ budget' = budget /\ lock' = lock /\ flags' = flags /\ month' = month
      /\ today' = today /\ usage' = usage /\ calls' = calls
  BY DEF ReleaseLocally, money
<1>3. faults' \in 0..MaxFaults
  BY FaultType DEF ReleaseLocally
<1>4. /\ hist' \in History /\ hist'.outdated = hist.outdated /\ hist'.unmatched
      /\ hist'.unsent = hist.unsent
      /\ ~hist.outdated => hist'.cost = hist.cost /\ hist'.over = hist.over
  <2>1. Note([hist EXCEPT !.unmatched = TRUE])
    BY DEF ReleaseLocally
  <2>2. 0 \in Nat /\ TRUE \in BOOLEAN
    OBVIOUS
  <2> QED
    BY <2>1, <2>2, HistFacts
<1>5. ses[s].step \in {"release", "zero"} /\ slots' \in Int
  BY <1>1 DEF ReleaseLocally
<1>6. ses' = [ses EXCEPT ![s] = Idle] /\ local' \in 0..Cap
  <2>1. ses' = [ses EXCEPT ![s] = Idle] /\ local' = Monus(local, 1)
    BY DEF ReleaseLocally, Close
  <2>2. local \in Nat /\ 1 \in Nat
    BY <1>1
  <2>3. Monus(local, 1) \in Nat /\ Monus(local, 1) <= local
    BY <2>2, MonusType
  <2>4. PICK m \in Nat : m = Monus(local, 1) /\ m <= local
    BY <2>3
  <2> QED
    BY <1>1, <2>1, <2>4
<1>7. /\ Idle.step \notin InTransaction /\ Idle.step # "alert" /\ Idle.step # "zero"
      /\ Idle.step \notin {"slot", "overflow", "reserve"} /\ ses[s].step # "alert"
      /\ lock # s
  BY <1>5, EndFacts DEF InTransaction, IInv, LockHeld
<1>8. Idle \in Session /\ Idle.mem.alerted <= budget.alerted
  BY EndFacts
<1>9. Moves(s, Idle)
  BY <1>1, <1>2, <1>3, <1>4, <1>5, <1>6, <1>7, <1>8 DEF Moves
<1> QED
  BY <1>8, <1>9, SessionStep

\* A step that ends in e, Idle or Finished, and counts the slots it leaves behind.
LEMMA EndStep ==
    ASSUME IInv, NEW s \in Sessions, NEW e \in {Idle, Finished}, NEW n \in Nat,
           NEW u \in BOOLEAN,
           ses' = [ses EXCEPT ![s] = e], ses[s].step # "idle",
           lock' = IF lock = s THEN Nobody ELSE lock,
           Note([hist EXCEPT !.leaked = @ + n, !.unsent = u]),
           UNCHANGED <<budget, month, today, usage, slots, local, calls>>,
           faults' \in 0..MaxFaults, flags' \in SUBSET Flags,
           hist.unsent \/ ses[s].step = "alert" => u,
           n + One(e.step) = One(ses[s].step)
    PROVE  IInv'
<1>1. /\ local \in 0..Cap /\ slots \in Int /\ calls \in 0..MaxCalls /\ hist \in History
  BY DEF IInv, TypeOK
<1>2. /\ e \in Session /\ e.step \in {"idle", "release"} /\ e.mem.alerted <= budget.alerted
  BY EndFacts
<1>3. /\ hist' \in History /\ hist'.outdated = hist.outdated
      /\ hist'.unmatched = hist.unmatched /\ hist'.unsent = u
      /\ ~hist.outdated => hist'.cost = hist.cost /\ hist'.over = hist.over
      /\ ~hist.unmatched => hist'.leaked = hist.leaked + n
  BY HistFacts
<1>4. ~hist'.unmatched =>
         slots' - hist'.leaked = slots - hist.leaked + One(e.step) - One(ses[s].step)
  <2>1. PICK a \in 0..1, b \in 0..1 : a = One(e.step) /\ b = One(ses[s].step)
    BY DEF One
  <2>2. PICK p \in Int, q \in Nat, q2 \in Nat : p = slots /\ q = hist.leaked /\ q2 = hist'.leaked
    BY <1>1, <1>3 DEF History
  <2>3. n + a = b
    BY <2>1
  <2>4. ~hist'.unmatched => q2 = q + n
    BY <1>3, <2>2
  <2>5. ~hist'.unmatched => p - q2 = p - q + a - b
    BY <2>3, <2>4
  <2> QED
    BY <2>1, <2>2, <2>5
<1>5. /\ e.step \notin InTransaction /\ e.step # "alert" /\ e.step # "zero"
      /\ e.step \notin {"slot", "overflow", "reserve"}
  BY <1>2 DEF InTransaction
<1>6. Moves(s, e)
  BY <1>1, <1>2, <1>3, <1>4, <1>5 DEF Moves
<1> QED
  BY <1>2, <1>6, SessionStep

LEMMA NotLeaked ==
    ASSUME IInv
    PROVE  /\ [hist EXCEPT !.leaked = @ + 0, !.unsent = hist.unsent] = hist
           /\ hist.unsent \in BOOLEAN
           /\ [hist EXCEPT !.leaked = @ + 1, !.unsent = hist.unsent]
                = [hist EXCEPT !.leaked = @ + 1]
           /\ \A u \in BOOLEAN : [hist EXCEPT !.leaked = @ + 0, !.unsent = u]
                = [hist EXCEPT !.unsent = u]
<1>1. hist \in History
  BY DEF IInv, TypeOK
<1>2. PICK l \in Nat : l = hist.leaked
  BY <1>1 DEF History
<1>3. hist.leaked + 0 = hist.leaked
  BY <1>2
<1> QED
  BY <1>1, <1>3 DEF History

LEMMA AbandonStep ==
    ASSUME IInv, NEW s \in Sessions, Abandon(s), ses[s].step \in InTransaction,
           flags' \in SUBSET Flags,
           UNCHANGED <<budget, month, today, usage, fairUse, calls, faults>>
    PROVE  IInv'
<1>1. 1 \in Nat /\ hist.unsent \in BOOLEAN /\ Idle \in {Idle, Finished}
  BY NotLeaked
<1>2. Note([hist EXCEPT !.leaked = @ + 1, !.unsent = hist.unsent])
  BY NotLeaked DEF Abandon
<1>3. /\ ses[s].step # "idle" /\ ses[s].step # "alert" /\ One(ses[s].step) = 1
  BY OneOf DEF InTransaction
<1>4. 1 + One(Idle.step) = One(ses[s].step)
  BY <1>3, EndFacts, OneOf
<1>5. /\ ses' = [ses EXCEPT ![s] = Idle] /\ lock' = IF lock = s THEN Nobody ELSE lock
  BY DEF Abandon, Close
<1>6. UNCHANGED <<budget, month, today, usage, slots, local, calls>> /\ faults' \in 0..MaxFaults
  BY DEF fairUse, IInv, TypeOK
<1>7. hist.unsent \/ ses[s].step = "alert" => hist.unsent
  BY <1>3
<1> QED
  BY <1>1, <1>2, <1>3, <1>4, <1>5, <1>6, <1>7, EndStep

LEMMA CallFailsStep ==
    ASSUME IInv, NEW s \in Sessions, CallFails(s)
    PROVE  IInv'
<1>1. /\ Abandon(s) /\ ses[s].step \in InTransaction
      /\ UNCHANGED <<budget, month, today, usage, fairUse, calls, faults>>
      /\ flags' = flags
  BY DEF CallFails, InTransaction
<1>2. flags' \in SUBSET Flags
  BY <1>1 DEF IInv, TypeOK
<1> QED
  BY <1>1, <1>2, AbandonStep

LEMMA RecordFailsStep ==
    ASSUME IInv, NEW s \in Sessions, RecordFails(s)
    PROVE  IInv'
<1>1. PICK u \in BOOLEAN : u = (hist.unsent \/ ses[s].step = "alert")
  OBVIOUS
<1>2. hist \in History /\ flags \in SUBSET Flags
  BY DEF IInv, TypeOK
<1>3. 0 \in Nat /\ Finished \in {Idle, Finished}
  OBVIOUS
<1>4. Note([hist EXCEPT !.leaked = @ + 0, !.unsent = u])
  <2>1. [hist EXCEPT !.leaked = @ + 0, !.unsent = u] = [hist EXCEPT !.unsent = u]
    BY NotLeaked
  <2>2. [hist EXCEPT !.unsent = u] = [hist EXCEPT !.unsent = @ \/ ses[s].step = "alert"]
    BY <1>1, <1>2 DEF History
  <2> QED
    BY <2>1, <2>2 DEF RecordFails
<1>5. ses[s].step \in {"call", "alert"} /\ ses[s].step # "idle"
  BY DEF RecordFails
<1>6. One(Finished.step) = 1 /\ One(ses[s].step) = 1
  BY <1>5, EndFacts, OneOf
<1>7. 0 + One(Finished.step) = One(ses[s].step)
  BY <1>6
<1>8. /\ ses' = [ses EXCEPT ![s] = Finished] /\ lock' = IF lock = s THEN Nobody ELSE lock
  BY DEF RecordFails, Finish, Finished
<1>9. UNCHANGED <<budget, month, today, usage, slots, local, calls>> /\ flags' \in SUBSET Flags
  BY <1>2 DEF RecordFails, fairUse
<1>10. faults' \in 0..MaxFaults
  BY FaultType DEF RecordFails
<1>11. hist.unsent \/ ses[s].step = "alert" => u
  BY <1>1
<1> QED
  BY <1>3, <1>4, <1>5, <1>7, <1>8, <1>9, <1>10, <1>11, EndStep

LEMMA CrashStep ==
    ASSUME IInv, NEW s \in Sessions, Crash(s)
    PROVE  IInv'
<1>1. PICK u \in BOOLEAN : u = (hist.unsent \/ ses[s].step = "alert")
  OBVIOUS
<1>2. PICK n \in Nat : n = (IF ses[s].step \in Counted THEN 1 ELSE 0) /\ n = One(ses[s].step)
  BY DEF One
<1>3. hist \in History /\ flags \in SUBSET Flags
  BY DEF IInv, TypeOK
<1>4. Note([hist EXCEPT !.leaked = @ + n, !.unsent = u])
  <2>1. Note([hist EXCEPT !.leaked = @ + (IF ses[s].step \in Counted THEN 1 ELSE 0),
                          !.unsent = @ \/ ses[s].step = "alert"])
    BY DEF Crash
  <2>2. [hist EXCEPT !.leaked = @ + (IF ses[s].step \in Counted THEN 1 ELSE 0),
                     !.unsent = @ \/ ses[s].step = "alert"]
          = [hist EXCEPT !.leaked = @ + n, !.unsent = u]
    BY <1>1, <1>2, <1>3 DEF History
  <2> QED
    BY <2>1, <2>2
<1>5. ses[s].step # "idle" /\ Idle \in {Idle, Finished}
  BY DEF Crash
<1>6. n + One(Idle.step) = One(ses[s].step)
  BY <1>2, EndFacts, OneOf
<1>7. /\ ses' = [ses EXCEPT ![s] = Idle] /\ lock' = IF lock = s THEN Nobody ELSE lock
  BY DEF Crash, Close
<1>8. UNCHANGED <<budget, month, today, usage, slots, local, calls>> /\ flags' \in SUBSET Flags
  BY <1>3 DEF Crash, fairUse
<1>9. faults' \in 0..MaxFaults
  BY FaultType DEF Crash
<1>10. hist.unsent \/ ses[s].step = "alert" => u
  BY <1>1
<1> QED
  BY <1>4, <1>5, <1>6, <1>7, <1>8, <1>9, <1>10, EndStep


\* The check for the alert looks at a copy of the row whose limit may be old, but no limit
\* is above the largest, and no copy shows an alert the row does not have.
LEMMA NotAlerting ==
    ASSUME IInv, NEW s \in Sessions, ses[s].step = "alert", ~Alerting(ses[s].mem)
    PROVE  budget.alerted = month \/ ~Reached
<1>1. ses[s].mem \in Row /\ budget \in Row /\ month \in Months /\ usage \in Nat
  BY DEF IInv, TypeOK, Session
<1>2. ses[s].mem.limit > 0 /\ ses[s].mem.alerted <= budget.alerted /\ budget.alerted <= month
  BY DEF IInv, AlertsGrow
<1>3. CASE ses[s].mem.alerted = month
  <2>1. PICK m \in Nat, b \in Nat : m = month /\ b = budget.alerted
    BY <1>1 DEF Months, Row
  <2>2. m <= b /\ b <= m
    BY <1>2, <1>3, <2>1
  <2> QED
    BY <2>1, <2>2
<1>4. CASE ~(usage * 100 >= ses[s].mem.limit * AlertPercent)
  <2>1. PICK l \in Nat, m \in Nat, p \in Nat, u \in Nat :
           l = ses[s].mem.limit /\ m = Max(Limits) /\ p = AlertPercent /\ u = usage
    <3>1. ses[s].mem.limit \in Limits
      BY <1>1 DEF Row
    <3>2. ses[s].mem.limit \in Nat
      BY <3>1, LLMBudgetAssumption
    <3>3. Max(Limits) \in Nat
      BY MaxLimit
    <3>4. AlertPercent \in Nat
      BY LLMBudgetAssumption
    <3> QED
      BY <1>1, <3>2, <3>3, <3>4
  <2>2. l <= m
    <3>1. l \in Limits
      BY <1>1, <2>1 DEF Row
    <3> QED
      BY <2>1, <3>1, MaxLimit
  <2>3. l * p <= m * p
    <3>1. PICK k \in Nat : m = l + k
      <4>1. m - l \in Nat /\ m = l + (m - l)
        BY <2>2
      <4> QED
        BY <4>1
    <3>2. (l + k) * p = l * p + k * p
      OBVIOUS
    <3>3. k * p \in Nat /\ l * p \in Nat
      OBVIOUS
    <3> QED
      BY <3>1, <3>2, <3>3
  <2>4. PICK y \in Int, z \in Int : y = l * p /\ z = m * p
    OBVIOUS
  <2>5. u * 100 < y
    BY <1>4, <2>1, <2>4
  <2>6. ~(u * 100 >= z)
    BY <2>3, <2>4, <2>5
  <2> QED
    BY <2>1, <2>4, <2>6 DEF Reached
<1> QED
  BY <1>2, <1>3, <1>4 DEF Alerting

LEMMA CheckAlertStep ==
    ASSUME IInv, NEW s \in Sessions, CheckAlert(s)
    PROVE  IInv'
<1>1. /\ local \in 0..Cap /\ slots \in Int /\ flags \in SUBSET Flags /\ calls \in 0..MaxCalls
      /\ faults \in 0..MaxFaults /\ hist \in History /\ budget \in Row /\ month \in Months
  BY DEF IInv, TypeOK
<1>2. /\ lock' = lock /\ flags' = flags /\ month' = month /\ today' = today /\ usage' = usage
      /\ slots' = slots /\ local' = local /\ calls' = calls /\ faults' = faults /\ hist' = hist
      /\ ses[s].step = "alert" /\ ses' = [ses EXCEPT ![s] = Finished]
  BY DEF CheckAlert, fairUse, Finish, Finished
<1>3. /\ Finished \in Session /\ Finished.step = "release"
      /\ Finished.mem.alerted <= budget.alerted
  BY EndFacts
<1>4. lock # s
  BY <1>2 DEF IInv, LockHeld, InTransaction
<1>5. ~hist'.unmatched =>
         slots' - hist'.leaked = slots - hist.leaked + One(Finished.step) - One(ses[s].step)
  <2>1. One(Finished.step) = 1 /\ One(ses[s].step) = 1
    BY <1>2, <1>3, OneOf
  <2>2. PICK p \in Int, q \in Nat : p = slots /\ q = hist.leaked
    BY <1>1 DEF History
  <2>3. p - q = p - q + 1 - 1
    OBVIOUS
  <2> QED
    BY <1>2, <2>1, <2>2, <2>3
<1>6. /\ budget' = budget \/ (lock = Nobody /\ budget' = [budget EXCEPT !.alerted = month])
      /\ budget'.alerted = month \/ ~Reached
  <2>1. CASE Alerting(ses[s].mem)
    BY <1>1, <2>1, AlertedRow DEF CheckAlert
  <2>2. CASE ~Alerting(ses[s].mem)
    <3>1. budget' = budget
      BY <2>2 DEF CheckAlert
    <3> QED
      BY <1>2, <2>2, <3>1, NotAlerting
  <2> QED
    BY <2>1, <2>2
<1>7. /\ Finished.step \notin InTransaction /\ Finished.step # "alert" /\ Finished.step # "zero"
      /\ Finished.step \notin {"slot", "overflow", "reserve"}
  BY <1>3 DEF InTransaction
<1>8. Moves(s, Finished)
  BY <1>1, <1>2, <1>3, <1>4, <1>5, <1>6, <1>7 DEF Moves
<1> QED
  BY <1>3, <1>8, SessionStep

-----------------------------------------------------------------------------
(***************************************************************************)
(* The steps that open a transaction or go on in it.                       *)
(***************************************************************************)

LEMMA HoldStep ==
    ASSUME IInv, NEW s \in Sessions, NEW x \in Session, ses' = [ses EXCEPT ![s] = x],
           x.step \in InTransaction, ses[s].step \in {"reserve"} \cup InTransaction,
           lock \in {Nobody, s}, lock' = s,
           flags' \in SUBSET Flags,
           UNCHANGED <<budget, month, today, usage, fairUse, calls, faults>>,
           hist' \in History, hist'.unmatched = hist.unmatched, hist'.unsent = hist.unsent,
           ~hist.unmatched => hist'.leaked = hist.leaked, hist.outdated => hist'.outdated,
           ~hist'.outdated => hist'.cost = hist.cost /\ hist'.over = hist.over,
           ~hist'.outdated =>
              /\ x.txn = x.mem
              /\ x.mem.spend + x.mem.pending <= Max(Limits)
              /\ x.est <= x.mem.pending
              /\ x.mem.spend = IF x.mem.month = budget.month THEN budget.spend ELSE 0,
           x.mem.alerted <= budget.alerted, x.txn.alerted = budget.alerted, x.mem.limit > 0
    PROVE  IInv'
<1> USE DEF IInv
<1>1. /\ lock \in Sessions \cup {Nobody} /\ ses \in [Sessions -> Session]
      /\ month \in Months /\ today \in Nat /\ usage \in Nat /\ hist \in History /\ slots \in Int
  BY DEF TypeOK
<1>2. /\ budget' = budget /\ flags' \in SUBSET Flags /\ month' = month /\ today' = today
      /\ usage' = usage /\ slots' = slots /\ local' = local /\ calls' = calls /\ faults' = faults
  BY DEF fairUse
<1>3. ses'[s] = x /\ \A t \in Sessions : t # s => ses'[t] = ses[t]
  BY <1>1
<1>4. Nobody \notin Sessions
  BY LLMBudgetAssumption
<1>5. TypeOK'
  <2>1. ses' \in [Sessions -> Session]
    BY <1>1
  <2> QED
    BY <1>2, <2>1 DEF TypeOK
<1>6. \A t \in Sessions : t # s => ses'[t] = ses[t] /\ ses[t].step \notin InTransaction
  BY <1>3, <1>4 DEF LockHeld
<1>7. LockHeld'
  <2>1. \A t \in Sessions : lock' = t <=> ses'[t].step \in InTransaction
    BY <1>3, <1>6
  <2> QED
    BY <2>1 DEF LockHeld, InTransaction
<1>8. ReservedFromRow'
  <2> SUFFICES ASSUME NEW t \in Sessions, ses'[t].step \in InTransaction, ~hist'.outdated
               PROVE  /\ ses'[t].txn = ses'[t].mem
                      /\ ses'[t].mem.spend + ses'[t].mem.pending <= Max(Limits)
                      /\ ses'[t].est <= ses'[t].mem.pending
                      /\ ses'[t].mem.spend = IF ses'[t].mem.month = budget'.month
                                             THEN budget'.spend ELSE 0
    BY DEF ReservedFromRow, InTransaction
  <2>1. ses'[t] = x
    BY <1>3, <1>6
  <2> QED
    BY <1>2, <2>1
<1>9. MoneyAccounted'
  BY <1>2 DEF MoneyAccounted, OverspendBounded, SpendIsRecorded
<1>10. QuotaReserved'
  <2>1. today' = today + 0 /\ 0 \in 0..1
    BY <1>1, <1>2
  <2>2. LET K == {"slot", "overflow", "reserve"} \cup InTransaction
        IN  \/ ses[s].step \in K /\ (0 = 1 => x.step \notin K)
            \/ 0 = 0 /\ (x.step \in K => today < DailyLimit)
    OBVIOUS
  <2> QED
    BY <2>1, <2>2, QuotaStep
<1>11. ZeroUnmatched'
  <2>1. x.step # "zero"
    BY DEF InTransaction
  <2> QED
    BY <1>3, <2>1 DEF ZeroUnmatched
<1>12. SlotsAccounted'
  <2>1. One(x.step) = 1 /\ One(ses[s].step) = 1
    BY OneOf DEF InTransaction
  <2>2. ~hist'.unmatched =>
          slots' - hist'.leaked = slots - hist.leaked + One(x.step) - One(ses[s].step)
    <3>1. PICK p \in Int, q \in Nat : p = slots /\ q = hist.leaked
      BY <1>1 DEF History
    <3>2. p - q = p - q + 1 - 1
      OBVIOUS
    <3> QED
      BY <1>2, <2>1, <3>1, <3>2
  <2>3. slots' \in Int
    BY <1>1, <1>2
  <2> QED
    BY <2>2, <2>3, SlotStep
<1>13. AlertsGrow'
  <2>1. budget'.alerted <= month'
    BY <1>2 DEF AlertsGrow
  <2>2. \A t \in Sessions :
          /\ ses'[t].mem.alerted <= budget'.alerted
          /\ ses'[t].step \in InTransaction => ses'[t].txn.alerted = budget'.alerted
          /\ ses'[t].step \in InTransaction \cup {"alert"} => ses'[t].mem.limit > 0
    BY <1>2, <1>3 DEF AlertsGrow
  <2> QED
    BY <2>1, <2>2 DEF AlertsGrow, InTransaction
<1>14. ThresholdReported'
  <2>1. ses[s].step # "alert"
    BY DEF InTransaction
  <2>2. \A t \in Sessions : ses[t].step = "alert" => ses'[t].step = "alert"
    BY <1>3, <2>1
  <2> QED
    BY <1>2, <2>2 DEF ThresholdReported
<1> QED
  BY <1>5, <1>7, <1>8, <1>9, <1>10, <1>11, <1>12, <1>13, <1>14

LEMMA CheckBudgetStep ==
    ASSUME IInv, NEW s \in Sessions, CheckBudget(s)
    PROVE  IInv'
<1>1. /\ ses \in [Sessions -> Session] /\ hist \in History
  BY DEF IInv, TypeOK
<1>2. /\ ses[s].step = "check"
      /\ UNCHANGED <<budget, month, today, usage, fairUse, calls, faults>>
  BY DEF CheckBudget
<1>3. ses[s].step \in InTransaction /\ "call" \in InTransaction /\ "call" \in Steps
  BY <1>2 DEF InTransaction, Steps, Counted
<1>0. flags' \in SUBSET Flags
  <2>1. flags \in SUBSET Flags
    BY DEF IInv, TypeOK
  <2>2. flags' \in {flags, flags \cup {"blocked"}, flags \cup {"soft"}}
    BY DEF CheckBudget
  <2> QED
    BY <2>1, <2>2 DEF Flags
<1>4. CASE Abandon(s)
  BY <1>0, <1>2, <1>3, <1>4, AbandonStep
<1>5. CASE Goto(s, "call") /\ UNCHANGED <<lock, hist>>
  <2> DEFINE x == [ses[s] EXCEPT !.step = "call"]
  <2>1. /\ x \in Session /\ x.step = "call" /\ x.mem = ses[s].mem /\ x.txn = ses[s].txn
        /\ x.est = ses[s].est /\ ses[s].mem.alerted <= budget.alerted
        /\ ses' = [ses EXCEPT ![s] = x]
    BY <1>3, <1>5, GotoFacts
  <2> HIDE DEF x
  <2>2. ~hist.outdated =>
          /\ ses[s].txn = ses[s].mem
          /\ ses[s].mem.spend + ses[s].mem.pending <= Max(Limits)
          /\ ses[s].est <= ses[s].mem.pending
          /\ ses[s].mem.spend = IF ses[s].mem.month = budget.month THEN budget.spend ELSE 0
    BY <1>3 DEF IInv, ReservedFromRow
  <2>3. ses[s].txn.alerted = budget.alerted /\ ses[s].mem.limit > 0 /\ lock = s
    BY <1>3 DEF IInv, AlertsGrow, LockHeld
  <2>4. UNCHANGED <<budget, month, today, usage, fairUse, calls, faults>>
    BY <1>2
  <2>5. hist' = hist /\ lock' = s /\ lock \in {Nobody, s}
    BY <1>5, <2>3
  <2>6. ~hist'.outdated =>
          /\ x.txn = x.mem
          /\ x.mem.spend + x.mem.pending <= Max(Limits)
          /\ x.est <= x.mem.pending
          /\ x.mem.spend = IF x.mem.month = budget.month THEN budget.spend ELSE 0
    BY <2>1, <2>2, <2>5
  <2>7. x.mem.alerted <= budget.alerted /\ x.txn.alerted = budget.alerted /\ x.mem.limit > 0
    BY <2>1, <2>3
  <2>8. /\ hist' \in History /\ hist'.unmatched = hist.unmatched /\ hist'.unsent = hist.unsent
        /\ (~hist.unmatched => hist'.leaked = hist.leaked) /\ (hist.outdated => hist'.outdated)
        /\ (~hist'.outdated => hist'.cost = hist.cost /\ hist'.over = hist.over)
    BY <1>1, <2>5
  <2>9. x.step \in InTransaction
    BY <1>3, <2>1
  <2> QED
    BY <1>0, <1>3, <2>1, <2>4, <2>5, <2>6, <2>7, <2>8, <2>9, HoldStep
<1> QED
  BY <1>4, <1>5 DEF CheckBudget


\* A reservation the row can afford, on a row that is reset if its month has passed.
LEMMA ReservedRow ==
    ASSUME NEW mem \in Row, NEW est \in Estimates, month \in Months,
           Affordable(MonthReset(mem), est)
    PROVE  LET new == [MonthReset(mem) EXCEPT !.pending = @ + est] IN
           /\ new \in Row /\ new.alerted = mem.alerted
           /\ new.limit > 0
           /\ new.spend + new.pending <= Max(Limits)
           /\ est <= new.pending
           /\ new.spend = IF new.month = mem.month THEN mem.spend ELSE 0
<1> DEFINE now == MonthReset(mem)
           new == [now EXCEPT !.pending = @ + est]
<1>1. /\ now \in Row /\ now.alerted = mem.alerted
      /\ now.spend = IF now.month = mem.month THEN mem.spend ELSE 0
  BY DEF MonthReset, Row
<1>2. Affordable(now, est)
  OBVIOUS
<1> HIDE DEF now
<1>3. PICK l \in Nat, sp \in Nat, p \in Nat : l = now.limit /\ sp = now.spend /\ p = now.pending
  <2>1. now.limit \in Limits /\ now.spend \in Nat /\ now.pending \in Nat
    BY <1>1 DEF Row
  <2>2. now.limit \in Nat
    BY <2>1, LLMBudgetAssumption
  <2> QED
    BY <2>1, <2>2
<1>4. est \in Nat /\ est > 0
  BY LLMBudgetAssumption
<1>5. est <= l - (sp + p)
  BY <1>2, <1>3 DEF Affordable
<1>6. l <= Max(Limits) /\ Max(Limits) \in Nat
  <2>1. l \in Limits
    BY <1>1, <1>3 DEF Row
  <2> QED
    BY <2>1, MaxLimit
<1>7. PICK m \in Nat : m = Max(Limits) /\ l <= m
  BY <1>6
<1>8. PICK q \in Nat : q = p + est
  BY <1>4
<1>9. new = [now EXCEPT !.pending = q]
  BY <1>3, <1>8
<1>10. /\ new \in Row /\ new.pending = q /\ new.spend = now.spend /\ new.limit = now.limit
       /\ new.alerted = now.alerted /\ new.month = now.month
  BY <1>1, <1>9 DEF Row
<1> HIDE DEF new
<1>11. l > 0 /\ sp + q <= m /\ est <= q
  BY <1>4, <1>5, <1>7, <1>8
<1>12. /\ new.limit > 0 /\ new.spend + new.pending <= Max(Limits) /\ est <= new.pending
  BY <1>3, <1>7, <1>10, <1>11
<1>13. new.spend = IF new.month = mem.month THEN mem.spend ELSE 0
  BY <1>1, <1>10
<1>14. new.alerted = mem.alerted
  BY <1>1, <1>10
<1>15. /\ new \in Row /\ new.alerted = mem.alerted
       /\ new.limit > 0
       /\ new.spend + new.pending <= Max(Limits)
       /\ est <= new.pending
       /\ new.spend = IF new.month = mem.month THEN mem.spend ELSE 0
  BY <1>10, <1>12, <1>13, <1>14
<1> QED
  BY <1>15 DEF new, now

LEMMA ReserveStep ==
    ASSUME IInv, NEW s \in Sessions, NEW est \in Estimates, Reserve(s, est)
    PROVE  IInv'
<1> DEFINE mem == IF ses[s].zombie THEN ses[s].mem ELSE budget
           now == MonthReset(mem)
           new == [now EXCEPT !.pending = @ + est]
           txn == Flush(budget, mem, new)
           k == IF ses[s].zombie THEN "call" ELSE "check"
           x == [ses[s] EXCEPT !.mem = new, !.txn = txn, !.est = est, !.step = k]
           h == [hist EXCEPT !.outdated = @ \/ mem # budget]
<1>1. /\ budget \in Row /\ ses \in [Sessions -> Session] /\ hist \in History /\ month \in Months
      /\ flags \in SUBSET Flags /\ faults \in 0..MaxFaults
  BY DEF IInv, TypeOK
<1>2. ses[s] \in Session /\ ses[s].mem \in Row /\ ses[s].mem.alerted <= budget.alerted
  BY <1>1 DEF Session, IInv, AlertsGrow
<1>3. /\ ses[s].step = "reserve" /\ lock = Nobody
      /\ UNCHANGED <<budget, flags, month, today, usage, fairUse, calls, faults>>
  BY DEF Reserve
<1>4. lock # s
  BY <1>3, LLMBudgetAssumption
<1>5. CASE ~Affordable(now, est)
  <2>1. ses' = [ses EXCEPT ![s] = Finished] /\ lock' = lock /\ hist' = hist
    BY <1>5 DEF Reserve, Finish, Finished
  <2>2. [hist EXCEPT !.leaked = @ + 0, !.unsent = hist.unsent] = hist /\ hist.unsent \in BOOLEAN
    BY NotLeaked
  <2>3. /\ Finished \in Session /\ Finished.step = "release"
        /\ Finished.mem.alerted <= budget.alerted
    BY EndFacts
  <2>4. One(Finished.step) = 1 /\ One(ses[s].step) = 1
    BY <1>3, <2>3, OneOf
  <2>5. ~hist.unmatched => slots' = slots + One(Finished.step) - One(ses[s].step)
    <3>1. slots' = slots /\ slots \in Int
      BY <1>3 DEF fairUse, IInv, TypeOK
    <3> QED
      BY <2>4, <3>1
  <2>6. UNCHANGED <<money, local, faults, hist>>
    BY <1>3, <2>1 DEF money, fairUse
  <2>7. calls' \in 0..MaxCalls /\ slots' \in Int
    BY <1>3 DEF fairUse, IInv, TypeOK
  <2>8. /\ ses[s].step \notin InTransaction /\ ses[s].step # "alert"
        /\ Finished.step \notin InTransaction /\ Finished.step # "alert"
        /\ Finished.step # "zero" /\ Finished.step \notin {"slot", "overflow", "reserve"}
    BY <1>3, <2>3 DEF InTransaction
  <2> QED
    BY <2>1, <2>3, <2>5, <2>6, <2>7, <2>8, QuietStep
<1>6. CASE Affordable(now, est)
  <2>1. lock' = s /\ Note(h)
    BY <1>6 DEF Reserve
  <2>2. ses' = [ses EXCEPT ![s] = x]
    BY <1>1, <1>6 DEF Reserve
  <2>3. mem \in Row /\ mem.alerted <= budget.alerted
    <3>1. PICK b \in Nat : b = budget.alerted
      BY <1>1 DEF Row
    <3> QED
      BY <1>1, <1>2, <3>1
  <2>4. (mem # budget) \in BOOLEAN
    OBVIOUS
  <2>5. k \in InTransaction /\ k \in Steps
    BY DEF InTransaction, Steps, Counted
  <2>6. PICK o \in BOOLEAN : o = (hist.outdated \/ mem # budget)
    OBVIOUS
  <2>7. /\ h \in History /\ h.outdated = o /\ h.unmatched = hist.unmatched
        /\ h.unsent = hist.unsent /\ h.cost = hist.cost /\ h.over = hist.over
        /\ h.leaked = hist.leaked
    <3>1. h = [hist EXCEPT !.outdated = o]
      BY <1>1, <2>6 DEF History
    <3> HIDE DEF h, mem
    <3> QED
      BY <1>1, <3>1 DEF History
  <2> HIDE DEF h, mem, k
  <2>8. /\ new \in Row /\ new.alerted = mem.alerted
        /\ new.limit > 0
        /\ new.spend + new.pending <= Max(Limits)
        /\ est <= new.pending
        /\ new.spend = IF new.month = mem.month THEN mem.spend ELSE 0
    BY <1>1, <1>6, <2>3, ReservedRow
  <2> HIDE DEF new, now
  <2>9. /\ txn \in Row /\ txn.alerted = budget.alerted
        /\ budget = mem => txn = new
    BY <1>1, <2>3, <2>8, FlushFacts
  <2> HIDE DEF txn
  <2>10. /\ x \in Session /\ x.step = k /\ x.mem = new /\ x.txn = txn /\ x.est = est
    <3>1. k \in {"idle", "quota", "slot", "zero"} \cup Counted /\ est \in Estimates \cup {0}
      BY <2>5 DEF Steps
    <3> QED
      BY <1>2, <2>8, <2>9, <3>1 DEF Session
  <2> HIDE DEF x
  <2>11. /\ hist' \in History /\ hist'.unmatched = hist.unmatched
         /\ hist'.unsent = hist.unsent /\ hist'.outdated = o
         /\ ~hist.unmatched => hist'.leaked = hist.leaked
         /\ ~hist'.outdated => hist'.cost = hist.cost /\ hist'.over = hist.over
    BY <2>1, <2>7, NoteFacts
  <2>12. hist.outdated => hist'.outdated
    BY <2>6, <2>11
  <2>13. ~hist'.outdated =>
           /\ x.txn = x.mem
           /\ x.mem.spend + x.mem.pending <= Max(Limits)
           /\ x.est <= x.mem.pending
           /\ x.mem.spend = IF x.mem.month = budget.month THEN budget.spend ELSE 0
    <3> SUFFICES ASSUME ~hist'.outdated
                 PROVE  /\ x.txn = x.mem
                        /\ x.mem.spend + x.mem.pending <= Max(Limits)
                        /\ x.est <= x.mem.pending
                        /\ x.mem.spend = IF x.mem.month = budget.month THEN budget.spend ELSE 0
      OBVIOUS
    <3>1. mem = budget
      BY <2>6, <2>11
    <3> QED
      BY <2>8, <2>9, <2>10, <3>1
  <2>14. x.mem.alerted <= budget.alerted /\ x.txn.alerted = budget.alerted /\ x.mem.limit > 0
    BY <2>3, <2>8, <2>9, <2>10
  <2>15. x.step \in InTransaction /\ ses[s].step \in {"reserve"} \cup InTransaction
         /\ lock \in {Nobody, s}
    BY <1>3, <2>5, <2>10
  <2>16. flags' \in SUBSET Flags
    BY <1>1, <1>3
  <2> QED
    BY <1>3, <2>1, <2>2, <2>10, <2>11, <2>12, <2>13, <2>14, <2>15, <2>16, HoldStep
<1> QED
  BY <1>5, <1>6

-----------------------------------------------------------------------------
(***************************************************************************)
(* The record of the usage.                                                *)
(***************************************************************************)

\* What a record adds to the spend, it takes from the reservation or counts as beyond the
\* estimate.
LEMMA RecordBound ==
    ASSUME NEW sp \in Nat, NEW p \in Nat, NEW e \in Nat, NEW m \in Nat, NEW tk \in Nat,
           NEW c \in {0, tk}, e <= p, sp + p <= m
    PROVE  sp + c + Monus(p, tk) <= m + Monus(c, e)
<1>1. CASE p > tk
  BY <1>1 DEF Monus
<1>2. CASE ~(p > tk)
  BY <1>2 DEF Monus
<1> QED
  BY <1>1, <1>2

LEMMA RecordUsageStep ==
    ASSUME IInv, NEW s \in Sessions, NEW tokens \in Costs, NEW byok \in BOOLEAN,
           RecordUsage(s, tokens, byok)
    PROVE  IInv'
<1> USE DEF IInv
<1> DEFINE mem == ses[s].mem
           cost == IF byok THEN 0 ELSE tokens
           new == [mem EXCEPT !.pending = Monus(@, tokens), !.spend = @ + cost]
           row == Flush(ses[s].txn, mem, new)
           reset == row.month # budget.month
           x == [Idle EXCEPT !.step = "alert", !.mem = new]
           h == [hist EXCEPT !.cost = cost + IF reset THEN 0 ELSE @,
                             !.over = Monus(cost, ses[s].est) + IF reset THEN 0 ELSE @]
<1>1. /\ budget \in Row /\ ses \in [Sessions -> Session] /\ hist \in History /\ month \in Months
      /\ today \in Nat /\ usage \in Nat /\ slots \in Int
  BY DEF TypeOK
<1>2. /\ ses[s].step = "call" /\ budget' = row /\ lock' = Nobody
      /\ today' = today + 1 /\ usage' = usage + cost
      /\ ses' = [ses EXCEPT ![s] = x] /\ Note(h)
      /\ flags' = flags /\ month' = month /\ slots' = slots /\ local' = local
      /\ calls' = calls /\ faults' = faults
  BY DEF RecordUsage, fairUse
<1>3. tokens \in Nat /\ cost \in {0, tokens} /\ cost \in Nat
  BY LLMBudgetAssumption
<1>4. mem \in Row /\ ses[s].txn \in Row /\ ses[s].est \in Nat
  <2>1. ses[s] \in Session
    BY <1>1
  <2>2. mem \in Row /\ ses[s].txn \in Row /\ ses[s].est \in Estimates \cup {0}
    BY <2>1 DEF Session
  <2>3. \A e \in Estimates \cup {0} : e \in Nat
    BY LLMBudgetAssumption
  <2> QED
    BY <2>2, <2>3
<1> HIDE DEF mem, cost
<1>5. PICK sp \in Nat, p \in Nat, e \in Nat, q \in Nat :
         /\ sp = mem.spend /\ p = mem.pending /\ e = ses[s].est /\ q = Monus(p, tokens)
  <2>1. mem.spend \in Nat /\ mem.pending \in Nat
    BY <1>4 DEF Row
  <2>2. Monus(mem.pending, tokens) \in Nat
    BY <1>3, <2>1, MonusType
  <2> QED
    BY <1>4, <2>1, <2>2
<1>6. /\ new \in Row /\ new.pending = q /\ new.spend = sp + cost /\ new.month = mem.month
      /\ new.alerted = mem.alerted /\ new.limit = mem.limit
  <2>1. PICK sc \in Nat : sc = sp + cost
    BY <1>3
  <2>2. new = [mem EXCEPT !.pending = q, !.spend = sc]
    BY <1>5, <2>1
  <2> HIDE DEF new
  <2>3. /\ new \in Row /\ new.pending = q /\ new.spend = sc /\ new.month = mem.month
        /\ new.alerted = mem.alerted /\ new.limit = mem.limit
    BY <1>4, <2>2 DEF Row
  <2> QED
    BY <2>1, <2>3
<1> HIDE DEF new
<1>7. /\ row \in Row /\ row.alerted = ses[s].txn.alerted
      /\ ses[s].txn = mem => row = new
  BY <1>4, <1>6, FlushFacts
<1> HIDE DEF row
<1>8. x \in Session /\ x.step = "alert" /\ x.mem = new
  <2>1. Idle \in Session
    BY IdleType
  <2> QED
    BY <1>6, <2>1 DEF Session, Counted
<1> HIDE DEF x
<1>9. ses'[s] = x /\ \A t \in Sessions : t # s => ses'[t] = ses[t]
  BY <1>1, <1>2
<1>10. Nobody \notin Sessions /\ lock = s
  BY <1>2, LLMBudgetAssumption DEF LockHeld, InTransaction
<1>11. \A t \in Sessions : ses'[t].step \notin InTransaction
  <2>1. \A t \in Sessions : t # s => ses[t].step \notin InTransaction
    BY <1>10 DEF LockHeld
  <2>2. x.step \notin InTransaction
    BY <1>8 DEF InTransaction
  <2> QED
    BY <1>9, <2>1, <2>2
<1>12. PICK hc \in Nat, ho \in Nat, mo \in Nat :
          /\ hc = hist.cost /\ ho = hist.over /\ mo = Monus(cost, e)
  <2>1. Monus(cost, e) \in Nat
    BY <1>3, MonusType
  <2> QED
    BY <1>1, <2>1 DEF History
<1>13. PICK hc2 \in Nat, ho2 \in Nat :
          /\ hc2 = cost + (IF reset THEN 0 ELSE hc)
          /\ ho2 = mo + (IF reset THEN 0 ELSE ho)
  <2> HIDE DEF reset
  <2>1. cost + (IF reset THEN 0 ELSE hc) \in Nat
    BY <1>3
  <2>2. mo + (IF reset THEN 0 ELSE ho) \in Nat
    OBVIOUS
  <2> QED
    BY <2>1, <2>2
<1>14. /\ h \in History /\ h.cost = hc2 /\ h.over = ho2 /\ h.leaked = hist.leaked
       /\ h.unmatched = hist.unmatched /\ h.outdated = hist.outdated /\ h.unsent = hist.unsent
  <2>1. h = [hist EXCEPT !.cost = hc2, !.over = ho2]
    BY <1>5, <1>12, <1>13
  <2> HIDE DEF h
  <2> QED
    BY <1>1, <2>1 DEF History
<1> HIDE DEF h
<1>15. /\ hist' \in History /\ hist'.outdated = hist.outdated
       /\ hist'.unmatched = hist.unmatched /\ hist'.unsent = hist.unsent
       /\ ~hist.outdated => hist'.cost = hc2 /\ hist'.over = ho2
       /\ ~hist.unmatched => hist'.leaked = hist.leaked
  BY <1>2, <1>14, NoteFacts
<1>16. TypeOK'
  <2>1. ses' \in [Sessions -> Session]
    BY <1>1, <1>2, <1>8
  <2>2. today' \in Nat /\ usage' \in Nat
    BY <1>1, <1>2, <1>3
  <2> QED
    BY <1>2, <1>7, <1>15, <2>1, <2>2 DEF TypeOK
<1>17. LockHeld'
  <2>1. \A t \in Sessions : lock' = t <=> ses'[t].step \in InTransaction
    BY <1>2, <1>10, <1>11
  <2> QED
    BY <2>1 DEF LockHeld, InTransaction
<1>18. ReservedFromRow'
  BY <1>11 DEF ReservedFromRow, InTransaction
<1>19. MoneyAccounted'
  <2> SUFFICES ASSUME ~hist.outdated
               PROVE  /\ row.spend + row.pending <= Max(Limits) + hist'.over
                      /\ row.spend = hist'.cost
    BY <1>2, <1>15 DEF MoneyAccounted, OverspendBounded, SpendIsRecorded
  <2>1. /\ ses[s].txn = mem
        /\ mem.spend + mem.pending <= Max(Limits)
        /\ ses[s].est <= mem.pending
        /\ mem.spend = IF mem.month = budget.month THEN budget.spend ELSE 0
    BY <1>2 DEF ReservedFromRow, InTransaction, mem
  <2>2. row = new
    BY <1>7, <2>1
  <2>3. budget.spend = hc
    BY <1>12 DEF MoneyAccounted, SpendIsRecorded
  <2>4. PICK m \in Nat : m = Max(Limits)
    BY MaxLimit
  <2>5. sp + p <= m /\ e <= p
    BY <1>5, <2>1, <2>4
  <2>6. reset <=> mem.month # budget.month
    BY <1>6, <2>2
  <2>7. sp = IF reset THEN 0 ELSE hc
    BY <1>5, <2>1, <2>3, <2>6
  <2> HIDE DEF reset
  <2>8. sp + cost = hc2
    BY <1>3, <1>13, <2>7
  <2>9. sp + cost + q <= m + mo
    BY <1>3, <1>5, <1>12, <2>5, RecordBound
  <2>10. sp + cost + q <= m + ho2
    BY <1>3, <1>13, <2>9
  <2> QED
    BY <1>6, <1>15, <2>2, <2>4, <2>8, <2>10
<1>20. QuotaReserved'
  <2>1. 1 \in 0..1
    OBVIOUS
  <2>2. LET K == {"slot", "overflow", "reserve"} \cup InTransaction
        IN  \/ ses[s].step \in K /\ (1 = 1 => x.step \notin K)
            \/ 1 = 0 /\ (x.step \in K => today < DailyLimit)
    BY <1>2, <1>8 DEF InTransaction
  <2> QED
    BY <1>2, <1>8, <2>1, <2>2, QuotaStep
<1>21. ZeroUnmatched'
  <2>1. \A t \in Sessions : ses'[t].step = "zero" => hist'.unmatched
    BY <1>8, <1>9, <1>15 DEF ZeroUnmatched
  <2> QED
    BY <2>1 DEF ZeroUnmatched
<1>22. SlotsAccounted'
  <2>1. One(x.step) = 1 /\ One(ses[s].step) = 1
    BY <1>2, <1>8, OneOf
  <2>2. ~hist'.unmatched =>
          slots' - hist'.leaked = slots - hist.leaked + One(x.step) - One(ses[s].step)
    <3>1. PICK a \in Int, b \in Nat : a = slots /\ b = hist.leaked
      BY <1>1 DEF History
    <3>2. a - b = a - b + 1 - 1
      OBVIOUS
    <3> QED
      BY <1>2, <1>15, <2>1, <3>1, <3>2
  <2>3. slots' \in Int
    BY <1>1, <1>2
  <2> QED
    BY <1>2, <1>8, <1>15, <2>2, <2>3, SlotStep
<1>23. AlertsGrow'
  <2>1. budget'.alerted = budget.alerted
    BY <1>2, <1>7 DEF AlertsGrow, InTransaction
  <2>2. budget'.alerted <= month'
    BY <1>2, <2>1 DEF AlertsGrow
  <2>3. x.mem.alerted <= budget.alerted /\ x.mem.limit > 0
    BY <1>2, <1>6, <1>8 DEF AlertsGrow, InTransaction, mem
  <2>4. \A t \in Sessions :
          /\ ses'[t].mem.alerted <= budget'.alerted
          /\ ses'[t].step \in InTransaction => ses'[t].txn.alerted = budget'.alerted
          /\ ses'[t].step \in InTransaction \cup {"alert"} => ses'[t].mem.limit > 0
    BY <1>9, <1>11, <2>1, <2>3 DEF AlertsGrow
  <2> QED
    BY <2>2, <2>4 DEF AlertsGrow, InTransaction
<1>24. ThresholdReported'
  <2>1. \E t \in Sessions : ses'[t].step = "alert"
    BY <1>8, <1>9
  <2> QED
    BY <2>1 DEF ThresholdReported
<1> QED
  BY <1>16, <1>17, <1>18, <1>19, <1>20, <1>21, <1>22, <1>23, <1>24

\* A failed analysis whose caller goes on: the row keeps the reservation, which the limit allowed.
LEMMA CallFailsCaughtStep ==
    ASSUME IInv, NEW s \in Sessions, CallFailsCaught(s)
    PROVE  IInv'
<1> USE DEF IInv
<1> DEFINE row == ses[s].txn
           reset == row.month # budget.month
           h == [hist EXCEPT !.leaked = @ + 1, !.cost = IF reset THEN 0 ELSE @,
                             !.over = IF reset THEN 0 ELSE @]
<1>1. /\ budget \in Row /\ ses \in [Sessions -> Session] /\ hist \in History /\ month \in Months
      /\ today \in Nat /\ usage \in Nat /\ slots \in Int
  BY DEF TypeOK
<1>2. /\ ses[s].step \in InTransaction /\ budget' = row /\ lock' = Nobody
      /\ today' = today /\ usage' = usage
      /\ ses' = [ses EXCEPT ![s] = Idle] /\ Note(h)
      /\ flags' = flags /\ month' = month /\ slots' = slots /\ local' = local
      /\ calls' = calls /\ faults' = faults
  BY DEF CallFailsCaught, Close, InTransaction, fairUse
<1>3. row \in Row
  <2>1. ses[s] \in Session
    BY <1>1
  <2> QED
    BY <2>1 DEF Session
<1> HIDE DEF row
<1>4. /\ Idle \in Session /\ Idle.step = "idle" /\ Idle.mem.alerted <= budget.alerted
      /\ Idle.step \notin InTransaction /\ Idle.step # "alert" /\ Idle.step # "zero"
  BY EndFacts DEF InTransaction
<1>5. ses'[s] = Idle /\ \A t \in Sessions : t # s => ses'[t] = ses[t]
  BY <1>1, <1>2
<1>6. Nobody \notin Sessions /\ lock = s
  BY <1>2, LLMBudgetAssumption DEF LockHeld
<1>7. \A t \in Sessions : ses'[t].step \notin InTransaction
  <2>1. \A t \in Sessions : t # s => ses[t].step \notin InTransaction
    BY <1>6 DEF LockHeld
  <2> QED
    BY <1>4, <1>5, <2>1
<1>8. PICK hc \in Nat, ho \in Nat, l \in Nat, hc2 \in Nat, ho2 \in Nat :
         /\ hc = hist.cost /\ ho = hist.over /\ l = hist.leaked
         /\ hc2 = (IF reset THEN 0 ELSE hc) /\ ho2 = (IF reset THEN 0 ELSE ho)
  BY <1>1 DEF History
<1>9. /\ h \in History /\ h.cost = hc2 /\ h.over = ho2 /\ h.leaked = l + 1
      /\ h.unmatched = hist.unmatched /\ h.outdated = hist.outdated /\ h.unsent = hist.unsent
  <2>1. PICK l1 \in Nat : l1 = l + 1
    OBVIOUS
  <2>2. h = [hist EXCEPT !.leaked = l1, !.cost = hc2, !.over = ho2]
    BY <1>8, <2>1
  <2> HIDE DEF h
  <2>3. /\ h \in History /\ h.cost = hc2 /\ h.over = ho2 /\ h.leaked = l1
        /\ h.unmatched = hist.unmatched /\ h.outdated = hist.outdated /\ h.unsent = hist.unsent
    BY <1>1, <2>2 DEF History
  <2> QED
    BY <2>1, <2>3
<1> HIDE DEF h
<1>10. /\ hist' \in History /\ hist'.outdated = hist.outdated
       /\ hist'.unmatched = hist.unmatched /\ hist'.unsent = hist.unsent
       /\ ~hist.outdated => hist'.cost = hc2 /\ hist'.over = ho2
       /\ ~hist.unmatched => hist'.leaked = l + 1
  BY <1>2, <1>9, NoteFacts
<1>11. TypeOK'
  <2>1. ses' \in [Sessions -> Session]
    BY <1>1, <1>2, <1>4
  <2> QED
    BY <1>2, <1>3, <1>10, <2>1 DEF TypeOK
<1>12. LockHeld'
  <2>1. \A t \in Sessions : lock' = t <=> ses'[t].step \in InTransaction
    BY <1>2, <1>6, <1>7
  <2> QED
    BY <2>1 DEF LockHeld, InTransaction
<1>13. ReservedFromRow'
  BY <1>7 DEF ReservedFromRow, InTransaction
<1>14. MoneyAccounted'
  <2> SUFFICES ASSUME ~hist.outdated
               PROVE  /\ row.spend + row.pending <= Max(Limits) + hist'.over
                      /\ row.spend = hist'.cost
    BY <1>2, <1>10 DEF MoneyAccounted, OverspendBounded, SpendIsRecorded
  <2>1. /\ row.spend + row.pending <= Max(Limits)
        /\ row.spend = IF reset THEN 0 ELSE budget.spend
    BY <1>2 DEF ReservedFromRow, row
  <2>2. budget.spend = hc
    BY <1>8 DEF MoneyAccounted, SpendIsRecorded
  <2>3. PICK m \in Nat, sp \in Nat, p \in Nat : m = Max(Limits) /\ sp = row.spend /\ p = row.pending
    BY <1>3, MaxLimit DEF Row
  <2> HIDE DEF reset
  <2>4. sp = hc2
    BY <1>8, <2>1, <2>2, <2>3
  <2>5. sp + p <= m + ho2
    BY <2>1, <2>3
  <2> QED
    BY <1>10, <2>3, <2>4, <2>5
<1>15. QuotaReserved'
  <2>1. 0 \in 0..1 /\ today' = today + 0
    BY <1>1, <1>2
  <2>2. LET K == {"slot", "overflow", "reserve"} \cup InTransaction
        IN  \/ ses[s].step \in K /\ (0 = 1 => Idle.step \notin K)
            \/ 0 = 0 /\ (Idle.step \in K => today < DailyLimit)
    BY <1>2
  <2> QED
    BY <1>2, <1>4, <2>1, <2>2, QuotaStep
<1>16. ZeroUnmatched'
  BY <1>4, <1>5, <1>10 DEF ZeroUnmatched
<1>17. SlotsAccounted'
  <2>1. One(Idle.step) = 0 /\ One(ses[s].step) = 1
    BY <1>2, <1>4, OneOf DEF InTransaction
  <2>2. ~hist'.unmatched =>
          slots' - hist'.leaked = slots - hist.leaked + One(Idle.step) - One(ses[s].step)
    <3>1. PICK a \in Int : a = slots
      BY <1>1
    <3>2. a - (l + 1) = a - l + 0 - 1
      OBVIOUS
    <3> QED
      BY <1>2, <1>8, <1>10, <2>1, <3>1, <3>2
  <2>3. slots' \in Int
    BY <1>1, <1>2
  <2> QED
    BY <1>2, <1>4, <1>10, <2>2, <2>3, SlotStep
<1>18. AlertsGrow'
  <2>1. budget'.alerted = budget.alerted
    BY <1>2 DEF AlertsGrow, row
  <2>2. budget'.alerted <= month'
    BY <1>2, <2>1 DEF AlertsGrow
  <2>3. \A t \in Sessions :
          /\ ses'[t].mem.alerted <= budget'.alerted
          /\ ses'[t].step \in InTransaction => ses'[t].txn.alerted = budget'.alerted
          /\ ses'[t].step \in InTransaction \cup {"alert"} => ses'[t].mem.limit > 0
    BY <1>4, <1>5, <1>7, <2>1 DEF AlertsGrow
  <2> QED
    BY <2>2, <2>3 DEF AlertsGrow, InTransaction
<1>19. ThresholdReported'
  <2>1. budget'.alerted = budget.alerted
    BY <1>2 DEF AlertsGrow, row
  <2>2. \A t \in Sessions : ses[t].step = "alert" => ses'[t].step = "alert"
    BY <1>2, <1>5 DEF InTransaction
  <2> QED
    BY <1>2, <1>10, <2>1, <2>2 DEF ThresholdReported
<1> QED
  BY <1>11, <1>12, <1>13, <1>14, <1>15, <1>16, <1>17, <1>18, <1>19

-----------------------------------------------------------------------------
(***************************************************************************)
(* Settings and clocks.                                                    *)
(***************************************************************************)

LEMMA SetLimitStep ==
    ASSUME IInv, NEW limit \in Limits, SetLimit(limit)
    PROVE  IInv'
<1> USE DEF IInv
<1>1. budget \in Row /\ calls \in 0..MaxCalls /\ MaxCalls \in Nat
  BY LLMBudgetAssumption DEF TypeOK
<1>2. /\ lock' = lock /\ ses' = ses /\ slots' = slots /\ local' = local /\ flags' = flags
      /\ month' = month /\ today' = today /\ usage' = usage /\ faults' = faults /\ hist' = hist
      /\ lock = Nobody /\ budget' = [budget EXCEPT !.limit = limit]
  BY DEF SetLimit, fairUse
<1>3. /\ budget' \in Row /\ budget'.spend = budget.spend /\ budget'.pending = budget.pending
      /\ budget'.month = budget.month /\ budget'.alerted = budget.alerted
  BY <1>1, <1>2 DEF Row
<1>4. calls' \in 0..MaxCalls
  BY <1>1 DEF SetLimit
<1>5. TypeOK'
  BY <1>2, <1>3, <1>4 DEF TypeOK
<1>6. LockHeld'
  BY <1>2 DEF LockHeld, InTransaction
<1>7. ReservedFromRow'
  BY <1>2, <1>3 DEF ReservedFromRow, InTransaction
<1>8. MoneyAccounted'
  BY <1>2, <1>3 DEF MoneyAccounted, OverspendBounded, SpendIsRecorded
<1>9. QuotaReserved' /\ ZeroUnmatched' /\ SlotsAccounted'
  BY <1>2 DEF QuotaReserved, Passed, InTransaction, ZeroUnmatched, SlotsAccounted
<1>10. AlertsGrow'
  BY <1>2, <1>3 DEF AlertsGrow, InTransaction
<1>11. ThresholdReported'
  BY <1>2, <1>3 DEF ThresholdReported
<1> QED
  BY <1>5, <1>6, <1>7, <1>8, <1>9, <1>10, <1>11

LEMMA SlotsExpireStep ==
    ASSUME IInv, SlotsExpire
    PROVE  IInv'
<1> USE DEF IInv
<1>1. /\ budget' = budget /\ lock' = lock /\ ses' = ses /\ slots' = 0 /\ local' = local
      /\ flags' = flags /\ month' = month /\ today' = today /\ usage' = usage
      /\ calls' = calls /\ faults' = faults
  BY DEF SlotsExpire, money
<1> DEFINE busy == \E s \in Sessions : ses[s].step \in Counted \cup {"zero"}
<1>2. hist \in History
  BY DEF TypeOK
<1>3. PICK u \in BOOLEAN : u = (hist.unmatched \/ busy)
  OBVIOUS
<1>4. Note([hist EXCEPT !.leaked = 0, !.unmatched = u])
  <2>1. Note([hist EXCEPT !.leaked = 0, !.unmatched = @ \/ busy])
    BY DEF SlotsExpire
  <2> HIDE DEF busy
  <2>2. [hist EXCEPT !.leaked = 0, !.unmatched = @ \/ busy]
          = [hist EXCEPT !.leaked = 0, !.unmatched = u]
    BY <1>2, <1>3 DEF History
  <2> QED
    BY <2>1, <2>2
<1> DEFINE h == [hist EXCEPT !.leaked = 0, !.unmatched = u]
<1>5. /\ h \in History /\ h.leaked = 0 /\ h.unmatched = u /\ h.outdated = hist.outdated
      /\ h.cost = hist.cost /\ h.over = hist.over /\ h.unsent = hist.unsent
  BY <1>2 DEF History
<1> HIDE DEF h
<1>6. Note(h)
  BY <1>4 DEF h
<1>7. /\ hist' \in History /\ hist'.outdated = hist.outdated /\ hist'.unmatched = u
      /\ hist'.unsent = hist.unsent
      /\ ~hist.outdated => hist'.cost = hist.cost /\ hist'.over = hist.over
      /\ ~u => hist'.leaked = 0
  BY <1>5, <1>6, NoteFacts
<1>8. TypeOK'
  <2>1. slots' \in Int
    BY <1>1
  <2> QED
    BY <1>1, <1>7, <2>1 DEF TypeOK
<1>9. LockHeld'
  BY <1>1 DEF LockHeld, InTransaction
<1>10. ReservedFromRow'
  BY <1>1, <1>7 DEF ReservedFromRow, InTransaction
<1>11. MoneyAccounted'
  BY <1>1, <1>7 DEF MoneyAccounted, OverspendBounded, SpendIsRecorded
<1>12. QuotaReserved'
  BY <1>1 DEF QuotaReserved, Passed, InTransaction
<1>13. ZeroUnmatched'
  <2>1. \A t \in Sessions : ses[t].step = "zero" => u
    BY <1>3
  <2> QED
    BY <1>1, <1>7, <2>1 DEF ZeroUnmatched
<1>14. SlotsAccounted'
  <2> SUFFICES ASSUME ~u
               PROVE  0 = hist'.leaked + Cardinality({t \in Sessions : ses[t].step \in Counted})
    BY <1>1, <1>7 DEF SlotsAccounted
  <2>1. {t \in Sessions : ses[t].step \in Counted} = {}
    BY <1>3
  <2>2. Cardinality({t \in Sessions : ses[t].step \in Counted}) = 0
    BY <2>1, FS_EmptySet
  <2>3. hist'.leaked = 0
    BY <1>7
  <2> QED
    BY <2>2, <2>3
<1>15. AlertsGrow'
  BY <1>1 DEF AlertsGrow, InTransaction
<1>16. ThresholdReported'
  BY <1>1, <1>7 DEF ThresholdReported
<1> QED
  BY <1>8, <1>9, <1>10, <1>11, <1>12, <1>13, <1>14, <1>15, <1>16

LEMMA FlagExpiresStep ==
    ASSUME IInv, NEW f \in Flags, FlagExpires(f)
    PROVE  IInv'
<1> USE DEF IInv
<1>1. /\ budget' = budget /\ lock' = lock /\ ses' = ses /\ slots' = slots /\ local' = local
      /\ flags' = flags \ {f} /\ month' = month /\ today' = today /\ usage' = usage
      /\ calls' = calls /\ faults' = faults /\ hist' = hist
  BY DEF FlagExpires, fairUse
<1>2. TypeOK'
  BY <1>1 DEF TypeOK
<1>3. LockHeld' /\ ReservedFromRow'
  BY <1>1 DEF LockHeld, ReservedFromRow, InTransaction
<1>4. MoneyAccounted'
  BY <1>1 DEF MoneyAccounted, OverspendBounded, SpendIsRecorded
<1>5. QuotaReserved' /\ ZeroUnmatched' /\ SlotsAccounted'
  BY <1>1 DEF QuotaReserved, Passed, InTransaction, ZeroUnmatched, SlotsAccounted
<1>6. AlertsGrow' /\ ThresholdReported'
  BY <1>1 DEF AlertsGrow, InTransaction, ThresholdReported
<1> QED
  BY <1>2, <1>3, <1>4, <1>5, <1>6

\* On a new day, every analysis under way may still be counted.
LEMMA FreshQuota ==
    ASSUME ses' = ses, today' = 0
    PROVE  QuotaReserved'
<1>1. Passed' \subseteq Sessions
  BY DEF Passed
<1>2. PICK c \in Nat, n \in Nat, d \in Nat :
         /\ c = Cardinality(Passed') /\ n = Cardinality(Sessions) /\ c <= n
         /\ d = DailyLimit /\ d > 0
  <2>1. IsFiniteSet(Passed') /\ Cardinality(Passed') <= Cardinality(Sessions)
    BY <1>1, SetsAreFinite, FS_Subset
  <2>2. Cardinality(Passed') \in Nat
    BY <2>1, FS_CardinalityType
  <2> QED
    BY <2>1, <2>2, SetsAreFinite
<1>3. 0 + c <= d + n - 1
  BY <1>2
<1>4. today' + Cardinality(Passed') <= DailyLimit + Cardinality(Sessions) - 1
  BY <1>2, <1>3
<1> QED
  BY <1>4 DEF QuotaReserved

LEMMA NextDayStep ==
    ASSUME IInv, NextDay
    PROVE  IInv'
<1> USE DEF IInv
<1>1. /\ budget' = budget /\ lock' = lock /\ ses' = ses /\ slots' = slots /\ local' = local
      /\ flags' = flags /\ month' = month /\ today' = 0 /\ usage' = usage
      /\ calls' = calls /\ faults' = faults /\ hist' = hist
  BY DEF NextDay, fairUse
<1>2. TypeOK'
  BY <1>1 DEF TypeOK
<1>3. LockHeld' /\ ReservedFromRow'
  BY <1>1 DEF LockHeld, ReservedFromRow, InTransaction
<1>4. MoneyAccounted'
  BY <1>1 DEF MoneyAccounted, OverspendBounded, SpendIsRecorded
<1>5. QuotaReserved'
  BY <1>1, FreshQuota
<1>6. ZeroUnmatched' /\ SlotsAccounted'
  BY <1>1 DEF ZeroUnmatched, SlotsAccounted
<1>7. AlertsGrow' /\ ThresholdReported'
  BY <1>1 DEF AlertsGrow, InTransaction, ThresholdReported
<1> QED
  BY <1>2, <1>3, <1>4, <1>5, <1>6, <1>7

LEMMA NextMonthStep ==
    ASSUME IInv, NextMonth
    PROVE  IInv'
<1> USE DEF IInv
<1>1. /\ budget' = budget /\ lock' = lock /\ ses' = ses /\ slots' = slots /\ local' = local
      /\ flags' = flags /\ month' = month + 1 /\ today' = 0 /\ usage' = 0
      /\ calls' = calls /\ faults' = faults /\ hist' = hist /\ month < MaxMonth
  BY DEF NextMonth, fairUse
<1>2. month \in Months /\ MaxMonth \in Nat /\ budget \in Row
  BY LLMBudgetAssumption DEF TypeOK
<1>3. month' \in Months
  BY <1>1, <1>2 DEF Months
<1>4. TypeOK'
  BY <1>1, <1>3 DEF TypeOK
<1>5. LockHeld' /\ ReservedFromRow'
  BY <1>1 DEF LockHeld, ReservedFromRow, InTransaction
<1>6. MoneyAccounted'
  BY <1>1 DEF MoneyAccounted, OverspendBounded, SpendIsRecorded
<1>7. QuotaReserved'
  BY <1>1, FreshQuota
<1>8. ZeroUnmatched' /\ SlotsAccounted'
  BY <1>1 DEF ZeroUnmatched, SlotsAccounted
<1>9. AlertsGrow'
  <2>1. PICK m \in Nat, b \in Nat : m = month /\ b = budget.alerted
    BY <1>2 DEF Months, Row
  <2>2. b <= m
    BY <2>1 DEF AlertsGrow
  <2>3. budget'.alerted <= month'
    BY <1>1, <2>1, <2>2
  <2> QED
    BY <1>1, <2>3 DEF AlertsGrow, InTransaction
<1>10. ThresholdReported'
  BY <1>1 DEF ThresholdReported
<1> QED
  BY <1>4, <1>5, <1>6, <1>7, <1>8, <1>9, <1>10

-----------------------------------------------------------------------------
(***************************************************************************)
(* The theorems.                                                           *)
(***************************************************************************)

LEMMA InitIInv ==
    ASSUME Init
    PROVE  IInv
<1> USE DEF Init
<1>1. \A s \in Sessions : ses[s] = Idle
  OBVIOUS
<1>2. \A s \in Sessions : ses[s].step = "idle" /\ ses[s].mem.alerted = 0
  BY <1>1, IdleType, FirstRowType
<1>3. /\ hist.leaked = 0 /\ ~hist.unmatched /\ ~hist.outdated /\ hist.cost = 0 /\ hist.over = 0
      /\ hist \in History
  BY DEF History
<1>4. budget \in Row /\ budget.spend = 0 /\ budget.pending = 0 /\ budget.alerted = 0
  BY FirstRowType DEF FirstRow
<1>5. TypeOK
  <2>1. ses \in [Sessions -> Session]
    BY IdleType
  <2>2. 1 \in Months /\ 0 \in 0..Cap /\ 0 \in 0..MaxCalls /\ 0 \in 0..MaxFaults
    BY LLMBudgetAssumption DEF Months
  <2>3. /\ lock \in Sessions \cup {Nobody} /\ slots \in Int /\ local \in 0..Cap
        /\ flags \in SUBSET Flags /\ month \in Months /\ today \in Nat /\ usage \in Nat
        /\ calls \in 0..MaxCalls /\ faults \in 0..MaxFaults
    <3>1. /\ lock = Nobody /\ slots = 0 /\ local = 0 /\ flags = {} /\ month = 1
          /\ today = 0 /\ usage = 0 /\ calls = 0 /\ faults = 0
      BY Zenon
    <3> HIDE DEF Init
    <3>2. lock \in Sessions \cup {Nobody} /\ flags \in SUBSET Flags
      BY <3>1
    <3>3. slots \in Int /\ today \in Nat /\ usage \in Nat
      BY <3>1
    <3> QED
      BY <2>2, <3>1, <3>2, <3>3
  <2>4. budget \in Row /\ hist \in History
    BY <1>3, <1>4
  <2> USE DEF TypeOK
  <2> HIDE DEF Init
  <2> QED
    BY <2>1, <2>3, <2>4
<1>6. LockHeld /\ ReservedFromRow /\ ZeroUnmatched
  BY <1>2, LLMBudgetAssumption DEF LockHeld, ReservedFromRow, ZeroUnmatched, InTransaction
<1>7. MoneyAccounted
  <2>1. PICK m \in Nat : m = Max(Limits)
    BY MaxLimit
  <2> QED
    BY <1>3, <1>4, <2>1 DEF MoneyAccounted, OverspendBounded, SpendIsRecorded
<1>8. QuotaReserved
  <2>1. Passed = {}
    BY <1>2 DEF Passed, InTransaction
  <2>2. Cardinality(Passed) = 0
    BY <2>1, FS_EmptySet
  <2>3. PICK n \in Nat, d \in Nat : n = Cardinality(Sessions) /\ d = DailyLimit /\ d > 0
    BY SetsAreFinite
  <2>4. 0 + 0 <= d + n - 1
    BY <2>3
  <2> QED
    BY <2>2, <2>3, <2>4 DEF QuotaReserved
<1>9. SlotsAccounted
  <2>1. {s \in Sessions : ses[s].step \in Counted} = {}
    BY <1>2 DEF Counted
  <2>2. Cardinality({s \in Sessions : ses[s].step \in Counted}) = 0
    BY <2>1, FS_EmptySet
  <2> QED
    BY <1>3, <2>2 DEF SlotsAccounted
<1>10. AlertsGrow
  BY <1>2, <1>4 DEF AlertsGrow, InTransaction
<1>11. ThresholdReported
  BY DEF ThresholdReported
<1> QED
  BY <1>5, <1>6, <1>7, <1>8, <1>9, <1>10, <1>11 DEF IInv

LEMMA NextIInv ==
    ASSUME IInv, [Next]_vars
    PROVE  IInv'
<1>1. ASSUME NEW s \in Sessions, NEW zombie \in BOOLEAN, Begin(s, zombie) PROVE IInv'
  BY <1>1, BeginStep
<1>2. ASSUME NEW s \in Sessions, CheckQuota(s) PROVE IInv'
  BY <1>2, CheckQuotaStep
<1>3. ASSUME NEW s \in Sessions, AcquireSlot(s) PROVE IInv'
  BY <1>3, AcquireSlotStep
<1>4. ASSUME NEW s \in Sessions, UndoAcquire(s) PROVE IInv'
  BY <1>4, UndoAcquireStep
<1>5. ASSUME NEW s \in Sessions, AcquireLocally(s) PROVE IInv'
  BY <1>5, AcquireLocallyStep
<1>6. ASSUME NEW s \in Sessions, NEW est \in Estimates, Reserve(s, est) PROVE IInv'
  BY <1>6, ReserveStep
<1>7. ASSUME NEW s \in Sessions, CheckBudget(s) PROVE IInv'
  BY <1>7, CheckBudgetStep
<1>8. ASSUME NEW s \in Sessions, CallFails(s) PROVE IInv'
  BY <1>8, CallFailsStep
<1>9. ASSUME NEW s \in Sessions, NEW tokens \in Costs, NEW byok \in BOOLEAN,
             RecordUsage(s, tokens, byok)
      PROVE  IInv'
  BY <1>9, RecordUsageStep
<1>10. ASSUME NEW s \in Sessions, RecordFails(s) PROVE IInv'
  BY <1>10, RecordFailsStep
<1>11. ASSUME NEW s \in Sessions, CheckAlert(s) PROVE IInv'
  BY <1>11, CheckAlertStep
<1>12. ASSUME NEW s \in Sessions, Release(s) PROVE IInv'
  BY <1>12, ReleaseStep
<1>13. ASSUME NEW s \in Sessions, ZeroSlots(s) PROVE IInv'
  BY <1>13, ZeroSlotsStep
<1>14. ASSUME NEW s \in Sessions, ReleaseLocally(s) PROVE IInv'
  BY <1>14, ReleaseLocallyStep
<1>15. ASSUME NEW limit \in Limits, SetLimit(limit) PROVE IInv'
  BY <1>15, SetLimitStep
<1>16. ASSUME NEW s \in Sessions, Crash(s) PROVE IInv'
  BY <1>16, CrashStep
<1>17. CASE SlotsExpire
  BY <1>17, SlotsExpireStep
<1>18. ASSUME NEW f \in Flags, FlagExpires(f) PROVE IInv'
  BY <1>18, FlagExpiresStep
<1>19. CASE NextDay
  BY <1>19, NextDayStep
<1>20. CASE NextMonth
  BY <1>20, NextMonthStep
<1>21. CASE UNCHANGED vars
  <2>1. /\ budget' = budget /\ lock' = lock /\ ses' = ses /\ slots' = slots /\ local' = local
        /\ flags' = flags /\ month' = month /\ today' = today /\ usage' = usage
        /\ calls' = calls /\ faults' = faults /\ hist' = hist
    BY <1>21 DEF vars
  <2>2. TypeOK' /\ LockHeld' /\ ReservedFromRow'
    BY <2>1 DEF IInv, TypeOK, LockHeld, ReservedFromRow, InTransaction
  <2>3. MoneyAccounted'
    BY <2>1 DEF IInv, MoneyAccounted, OverspendBounded, SpendIsRecorded
  <2>4. QuotaReserved' /\ ZeroUnmatched'
    BY <2>1 DEF IInv, QuotaReserved, Passed, InTransaction, ZeroUnmatched
  <2>6. SlotsAccounted'
    BY <2>1 DEF IInv, SlotsAccounted
  <2>5. AlertsGrow' /\ ThresholdReported'
    BY <2>1 DEF IInv, AlertsGrow, InTransaction, ThresholdReported
  <2> QED
    BY <2>2, <2>3, <2>4, <2>5, <2>6 DEF IInv
<1>22. ASSUME NEW s \in Sessions, CallFailsCaught(s) PROVE IInv'
  BY <1>22, CallFailsCaughtStep
<1> QED
  BY <1>1, <1>2, <1>3, <1>4, <1>5, <1>6, <1>7, <1>8, <1>9, <1>10, <1>11, <1>12, <1>13, <1>14,
     <1>15, <1>16, <1>17, <1>18, <1>19, <1>20, <1>21, <1>22 DEF Next

\* IInv holds in every reachable state: each operation of the budget, of the
\* fair-use guards and of the alert keeps it.
THEOREM Invariance == Spec => []IInv
<1>1. Init => IInv
  BY InitIInv
<1>2. IInv /\ [Next]_vars => IInv'
  BY NextIInv
<1> QED
  BY <1>1, <1>2, PTL DEF Spec

\* Every row, session, counter and bound keeps its type.
THEOREM TypeCorrect == Spec => []TypeOK
<1>1. IInv => TypeOK
  BY DEF IInv
<1> QED
  BY <1>1, Invariance, PTL

\* The spend of the row is what was recorded, and with what is pending it stays within the
\* largest limit and what calls cost beyond their estimates, unless a zombie analysis wrote
\* from an outdated copy (check_and_reserve_budget, record_usage_entry).
THEOREM MoneyKept == Spec => []MoneyAccounted
<1>1. IInv => MoneyAccounted
  BY DEF IInv
<1> QED
  BY <1>1, Invariance, PTL

\* The unlocked daily quota is overrun by at most the other analyses under way, and the
\* in-flight counter counts those under way and those that ended without a release, unless a
\* release may have met another's slot.
THEOREM AnalysesCounted == Spec => []AnalysesAccounted
<1>1. IInv => AnalysesAccounted
  <2> SUFFICES ASSUME IInv PROVE QuotaOverrunBounded /\ SlotsAccounted
    BY DEF AnalysesAccounted
  <2>1. SlotsAccounted
    BY DEF IInv
  <2>2. IsFiniteSet(Passed)
    <3>1. Passed \subseteq Sessions
      BY DEF Passed
    <3> QED
      BY <3>1, SetsAreFinite, FS_Subset
  <2>3. PICK c \in Nat, n \in Nat, d \in Nat, td \in Nat :
           /\ c = Cardinality(Passed) /\ n = Cardinality(Sessions) /\ d = DailyLimit
           /\ td = today
    BY <2>2, SetsAreFinite, FS_CardinalityType DEF IInv, TypeOK
  <2>4. td + c <= d + n - 1
    BY <2>3 DEF IInv, QuotaReserved
  <2>5. td <= d + n - 1
    BY <2>4
  <2> QED
    BY <2>1, <2>3, <2>5 DEF QuotaOverrunBounded
<1> QED
  BY <1>1, Invariance, PTL

\* Usage that reaches the threshold of the largest limit has its alert sent, about to be
\* decided, or lost to an error (check_budget_and_alert).
THEOREM ThresholdAlerted == Spec => []ThresholdReported
<1>1. IInv => ThresholdReported
  BY DEF IInv
<1> QED
  BY <1>1, Invariance, PTL

=============================================================================
