--------------------------- MODULE MCReservations ---------------------------
(***************************************************************************)
(* Small instances of Reservations for TLC.                                *)
(***************************************************************************)
EXTENDS Reservations, SequencesExt, TLC

CONSTANTS k1, k2, k3, g1, g2, res, eme

\* A reserved grant of two quanta and an emergency grant of one, both open to
\* every request: a settlement may use part of the first and none of the second.
\* Only the first expires.
MCTotal == [c \in Grants |-> IF c = eme THEN 1 ELSE 2]
MCPerpetual == Grants \cap {eme}
MCReservedOrder == [k \in Keys |-> SetToSeq(Grants \ {eme})]
MCEmergencyOrder == SetToSeq(Grants \cap {eme})

Symmetry == Permutations(Keys \ Legacy) \cup Permutations(Gates)

=============================================================================
