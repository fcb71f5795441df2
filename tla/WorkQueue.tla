----------------------------- MODULE WorkQueue ------------------------------
(***************************************************************************)
(* What the background job queue promises its producers and its handlers,  *)
(* without rows, batches, sessions or clocks.                              *)
(*                                                                         *)
(* A worker takes waiting items exclusively and is the only one that can   *)
(* put an item back.  An attempt is opened before the item's work may take *)
(* effect, and each attempt has at most one effect.  Anybody may declare   *)
(* an item failed, even one that a worker holds.  A worker may vanish with *)
(* what it holds.                                                          *)
(***************************************************************************)
EXTENDS Naturals

CONSTANTS Items, Workers, MaxTries

VARIABLES
    state,  \* state[i]: none, waiting, taken, ended (done or given up) or failed
    holds,  \* holds[w]: the items w has
    tries,  \* tries[i]: attempts opened
    runs    \* runs[i]: attempts that took effect

vars == <<state, holds, tries, runs>>

Init ==
    /\ state = [i \in Items |-> "none"]
    /\ holds = [w \in Workers |-> {}]
    /\ tries = [i \in Items |-> 0]
    /\ runs = [i \in Items |-> 0]

Held(i) == \E w \in Workers : i \in holds[w]

Submit(i) ==
    /\ state[i] = "none"
    /\ state' = [state EXCEPT ![i] = "waiting"]
    /\ tries' = [tries EXCEPT ![i] = 0]
    /\ runs' = [runs EXCEPT ![i] = 0]
    /\ UNCHANGED holds

\* Waiting items nobody holds, with attempts left.
Take(w, S) ==
    /\ holds[w] = {}
    /\ S # {}
    /\ \A i \in S : state[i] = "waiting" /\ tries[i] < MaxTries /\ ~Held(i)
    /\ holds' = [holds EXCEPT ![w] = S]
    /\ state' = [i \in Items |-> IF i \in S THEN "taken" ELSE state[i]]
    /\ UNCHANGED <<tries, runs>>

\* An attempt is opened only when the ones before it were within bounds.
Try(w, i) ==
    /\ i \in holds[w]
    /\ tries[i] < MaxTries
    /\ tries' = [tries EXCEPT ![i] = @ + 1]
    /\ UNCHANGED <<state, holds, runs>>

\* The effect of the attempt becomes durable before the attempt is over.
Run(w, i) ==
    /\ i \in holds[w]
    /\ runs[i] < tries[i]
    /\ runs' = [runs EXCEPT ![i] = @ + 1]
    /\ UNCHANGED <<state, holds, tries>>

\* The attempt is over: the item waits again or has ended, and a success has
\* taken effect.
Finish(w, i) ==
    /\ i \in holds[w]
    /\ holds' = [holds EXCEPT ![w] = @ \ {i}]
    /\ \E s \in {"waiting", "ended"} : state' = [state EXCEPT ![i] = s]
    /\ \/ runs' = runs
       \/ /\ runs[i] < tries[i]
          /\ state'[i] = "ended"
          /\ runs' = [runs EXCEPT ![i] = @ + 1]
    /\ UNCHANGED tries

Vanish(w) ==
    /\ holds[w] # {}
    /\ holds' = [holds EXCEPT ![w] = {}]
    /\ UNCHANGED <<state, tries, runs>>

Fail(S) ==
    /\ S # {}
    /\ \A i \in S : state[i] # "none"
    /\ state' = [i \in Items |-> IF i \in S THEN "failed" ELSE state[i]]
    /\ UNCHANGED <<holds, tries, runs>>

\* Only items that have ended and that nobody holds are forgotten.
Forget(S) ==
    /\ S # {}
    /\ \A i \in S : state[i] = "ended" /\ ~Held(i)
    /\ state' = [i \in Items |-> IF i \in S THEN "none" ELSE state[i]]
    /\ tries' = [i \in Items |-> IF i \in S THEN 0 ELSE tries[i]]
    /\ UNCHANGED <<holds, runs>>

Next ==
    \/ \E i \in Items : Submit(i)
    \/ \E w \in Workers, S \in SUBSET Items : Take(w, S)
    \/ \E w \in Workers, i \in Items : Try(w, i)
    \/ \E w \in Workers, i \in Items : Run(w, i)
    \/ \E w \in Workers, i \in Items : Finish(w, i)
    \/ \E w \in Workers : Vanish(w)
    \/ \E S \in SUBSET Items : Fail(S)
    \/ \E S \in SUBSET Items : Forget(S)

Spec == Init /\ [][Next]_vars

-----------------------------------------------------------------------------

\* An item has one holder at most, and while it has one nobody can take, submit
\* or forget it, even after it was declared failed; its work took effect no more
\* often than attempts were opened, and those are bounded.
OneHolderPerItem ==
    /\ \A v, w \in Workers : v # w => holds[v] \cap holds[w] = {}
    /\ \A i \in Items : Held(i) => state[i] \in {"taken", "failed"}
    /\ \A i \in Items : tries[i] <= MaxTries /\ (state[i] # "none" => runs[i] <= tries[i])

=============================================================================
