----------------------------- MODULE MCJobQueue -----------------------------
(***************************************************************************)
(* Small instances of JobQueue for TLC.                                    *)
(***************************************************************************)
EXTENDS JobQueue, TLC

CONSTANTS j1, j2, w1, w2, t1, t2

\* One job whose handler leaves the commit to the processor (j1) and one whose
\* handler commits on its own (j2), of two tenants.
MCTenantOf == (j1 :> t1) @@ (j2 :> t2)
MCTenantOfOne == [j \in Jobs |-> t1]

=============================================================================
