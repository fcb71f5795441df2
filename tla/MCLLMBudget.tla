----------------------------- MODULE MCLLMBudget -----------------------------
(***************************************************************************)
(* Small instances of LLMBudget for TLC.                                   *)
(***************************************************************************)
EXTENDS LLMBudget, TLC

Symmetry == Permutations(Sessions)

=============================================================================
