------------------------- MODULE MCTwoPhaseProgress --------------------------
(* A small instance of TwoPhaseProgress for TLC. *)
EXTENDS TwoPhaseProgress
=============================================================================
