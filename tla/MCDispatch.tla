----------------------------- MODULE MCDispatch -----------------------------
(***************************************************************************)
(* Small instances of Dispatch for TLC.                                    *)
(***************************************************************************)
EXTENDS Dispatch

CONSTANTS cohort, acceptance, license, i1, i2, i3, w1, w2, t1, t2

\* One cohort stands for the three.
MCDailyOrder == <<cohort>>
MCNoCohorts == <<>>

=============================================================================
