-------------------------- MODULE MCConfirmedRelease --------------------------
(* Small instances of ConfirmedRelease for TLC. *)
EXTENDS ConfirmedRelease, TLC

\* Requests and workers are interchangeable.
Symmetry == Permutations(Bindings) \cup Permutations(Workers)
=============================================================================
