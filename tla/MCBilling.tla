------------------------------ MODULE MCBilling ------------------------------
(***************************************************************************)
(* Small instances of Billing for TLC.                                     *)
(***************************************************************************)
EXTENDS Billing, TLC

CONSTANTS charge, renewed, create, fail, disable

MCKind ==
    [e \in Webhooks |->
       CASE e \in {charge, renewed} -> "charge.success"
         [] e = create              -> "subscription.create"
         [] e = fail                -> "invoice.payment_failed"
         [] e = disable             -> "subscription.disable"]

Symmetry == Permutations(Sessions)

=============================================================================
