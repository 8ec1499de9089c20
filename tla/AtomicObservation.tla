--------------------------- MODULE AtomicObservation ---------------------------
(***************************************************************************)
(* What a funding attestation promises about Bitcoin ("one stable Core     *)
(* snapshot", "point-in-time binding of one ceremony to Core's active      *)
(* chain"): each observation is read off one chain at one instant.         *)
(***************************************************************************)
EXTENDS Integers, Sequences, SequencesExt

CONSTANT MinDepth   \* minimum_confirmations

VARIABLES
  tip,       \* the active chain: the blocks from height 1 up, as a sequence
  observed   \* the observations so far

vars == <<tip, observed>>

\* A block is the chain that ends in it.
Active(block) == IsPrefix(block, tip)
Confirmations(block) == Len(tip) - Len(block) + 1
Buried(block) == Active(block) /\ Confirmations(block) >= MinDepth

Init == tip = <<>> /\ observed = {}

\* Only more work replaces the chain.
Advance ==
  /\ Len(tip') > Len(tip)
  /\ UNCHANGED observed

Observe(anchor, beacon) ==
  /\ Buried(anchor) /\ Buried(beacon)
  /\ observed' = observed \cup
       {[anchor |-> anchor, anchorDepth |-> Confirmations(anchor),
         beacon |-> beacon, beaconDepth |-> Confirmations(beacon), best |-> tip]}
  /\ UNCHANGED tip

ObserveSomething ==
  \E h, k \in 0 .. Len(tip) : Observe(SubSeq(tip, 1, h), SubSeq(tip, 1, k))

Next == Advance \/ ObserveSomething
Spec == Init /\ [][Next]_vars
=============================================================================
