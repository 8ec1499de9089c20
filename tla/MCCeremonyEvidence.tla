-------------------------- MODULE MCCeremonyEvidence ---------------------------
(* A small ceremony for TLC. *)
EXTENDS CeremonyEvidence, TLC

CONSTANTS p1, p2, v1, v2

Sets == {(p1 :> v1 @@ p2 :> v2)}

Symmetry == Permutations(Nonces)
=============================================================================
