--------------------------- MODULE MCWitnessLineage --------------------------
(* A small instance of WitnessLineage for TLC. *)
EXTENDS WitnessLineage, TLC

\* Requests are interchangeable.
Symmetry == Permutations(Bindings)
=============================================================================
