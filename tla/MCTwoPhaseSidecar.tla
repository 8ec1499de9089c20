-------------------------- MODULE MCTwoPhaseSidecar --------------------------
(* Small instances of TwoPhaseSidecar for TLC. *)
EXTENDS TwoPhaseSidecar, TLC

\* Requests and workers are interchangeable in the safety runs.
Symmetry == Permutations(Bindings) \cup Permutations(Workers)

\* The service while nobody puts a disk back.
Undisturbed ==
  \/ \E p \in Workers : WorkerStep(p) \/ WorkerFault(p)
  \/ ChainStep

UndisturbedSpec == Init /\ [][Undisturbed]_vars
=============================================================================
