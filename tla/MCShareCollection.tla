-------------------------- MODULE MCShareCollection ---------------------------
(* A small instance of ShareCollection for TLC. *)
EXTENDS ShareCollection
=============================================================================
