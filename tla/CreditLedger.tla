---------------------------- MODULE CreditLedger ----------------------------
(***************************************************************************)
(* What the enforcement gate promises about credits, without gates, locks, *)
(* approvals, months or policies.                                          *)
(*                                                                         *)
(* A request holds credit once, when it is decided, and only what the      *)
(* grants have left.  A hold is closed once, as a whole: part of it is     *)
(* spent for good and the rest goes back to the very grants it came from.  *)
(***************************************************************************)
EXTENDS Integers, Functions

CONSTANTS
    Keys,    \* requests
    Grants,  \* credit grants
    Total    \* what a grant is issued with

VARIABLES
    phase,   \* phase[k]: new, open (holding) or closed
    issued,  \* the grants issued so far
    left,    \* left[c]: what is left of grant c
    held,    \* held[k][c]: what k holds of c
    spent    \* spent[k][c]: what k has spent of c

vars == <<phase, issued, left, held, spent>>

Init ==
    /\ phase = [k \in Keys |-> "new"]
    /\ issued = {}
    /\ left = [c \in Grants |-> 0]
    /\ held = [k \in Keys |-> [c \in Grants |-> 0]]
    /\ spent = [k \in Keys |-> [c \in Grants |-> 0]]

Issue(c) ==
    /\ c \notin issued
    /\ issued' = issued \cup {c}
    /\ left' = [left EXCEPT ![c] = Total[c]]
    /\ UNCHANGED <<phase, held, spent>>

\* Amounts of every grant, none above what f has of it.
Parts(f) == {g \in [Grants -> UNION {0..f[c] : c \in Grants}] :
               \A c \in Grants : g[c] <= f[c]}

\* k is decided and takes an amount out of every grant.
Hold(k) ==
    /\ phase[k] = "new"
    /\ phase' = [phase EXCEPT ![k] = "open"]
    /\ \E amount \in Parts(left) :
          /\ held' = [held EXCEPT ![k] = amount]
          /\ left' = [c \in Grants |-> left[c] - amount[c]]
    /\ UNCHANGED <<issued, spent>>

\* k is decided and holds nothing.
Refuse(k) ==
    /\ phase[k] = "new"
    /\ phase' = [phase EXCEPT ![k] = "closed"]
    /\ UNCHANGED <<issued, left, held, spent>>

\* The open holds of S end together; used[k] is what k spends.
Close(S) ==
    /\ S # {}
    /\ \A k \in S : phase[k] = "open"
    /\ phase' = [k \in Keys |-> IF k \in S THEN "closed" ELSE phase[k]]
    /\ held' = [k \in Keys |-> IF k \in S THEN [c \in Grants |-> 0] ELSE held[k]]
    /\ \E used \in [S -> UNION {Parts(held[k]) : k \in S}] :
          /\ \A k \in S : used[k] \in Parts(held[k])
          /\ spent' = [k \in Keys |->
                         IF k \in S THEN [c \in Grants |-> spent[k][c] + used[k][c]]
                                    ELSE spent[k]]
          /\ left' = [c \in Grants |->
                         left[c] + SumFunctionOnSet([k \in S |-> held[k][c] - used[k][c]], S)]
    /\ UNCHANGED issued

Next ==
    \/ \E c \in Grants : Issue(c)
    \/ \E k \in Keys : Hold(k)
    \/ \E k \in Keys : Refuse(k)
    \/ \E S \in SUBSET Keys : Close(S)

Spec == Init /\ [][Next]_vars

\* What the credit settlement promises of credit (reserve_credit_for_decision,
\* settle_credit_reservations_for_decision): what a grant was issued with is
\* either left, held by an open request or spent, none of it is below zero, and
\* a request that is not open holds nothing.
LedgerConserved ==
    /\ \A c \in Grants :
          /\ left[c] >= 0
          /\ left[c] + SumFunctionOnSet([k \in Keys |-> held[k][c] + spent[k][c]], Keys)
               = IF c \in issued THEN Total[c] ELSE 0
    /\ \A k \in Keys, c \in Grants :
          /\ held[k][c] >= 0 /\ spent[k][c] >= 0
          /\ phase[k] # "open" => held[k][c] = 0

=============================================================================
