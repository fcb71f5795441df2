---------------------------- MODULE MCRemediation ----------------------------
(***************************************************************************)
(* Small instances of Remediation for TLC.                                 *)
(***************************************************************************)
EXTENDS Remediation, TLC

CONSTANTS r1, r2

\* Every request saves one unit and waits one day.
MCSavings == [r \in Requests |-> 1]
MCGrace == [r \in Requests |-> 1]

=============================================================================
