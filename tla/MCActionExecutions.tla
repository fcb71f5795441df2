------------------------- MODULE MCActionExecutions -------------------------
(***************************************************************************)
(* Small instances of ActionExecutions for TLC.                            *)
(***************************************************************************)
EXTENDS ActionExecutions, TLC

CONSTANTS a1, w1, w2, r1, r2

=============================================================================
