----------------------------- MODULE SlotStates -----------------------------
(***************************************************************************)
(* The vocabulary every other module shares: slot identifiers, the states  *)
(* of a one-shot slot, and the part of a slot's row that a checkpoint      *)
(* carries.                                                                *)
(*                                                                         *)
(* A binding stands for the triple of digests (input, authorization,       *)
(* chain/witness) that the first accepted request writes into the row.     *)
(* The code always writes, compares and exports the three together, so     *)
(* one value per request is enough to tell requests apart.                 *)
(***************************************************************************)
EXTENDS Naturals

CONSTANTS
  SlotCount,   \* slot_count of the ledger
  Bindings,    \* the (input, authorization, chain) digest triples of the requests
  NoBinding    \* the three NULL columns of a slot nobody has burned

ASSUME SlotCountAssumption == SlotCount \in Nat \ {0}
ASSUME NoBindingAssumption == NoBinding \notin Bindings

SlotIds == 0 .. (SlotCount - 1)

\* The five values finalize accepts; they are also the terminal states.
Outcomes == {"success", "malformed", "abort", "timeout", "retry-rejected"}

States == {"available", "burned"} \cup Outcomes

\* A slot as SlotCheckpoint sees it.
SlotRow == [state : States, binding : Bindings \cup {NoBinding}]

FreshRow == [state |-> "available", binding |-> NoBinding]

\* SlotCheckpoint.__post_init__: an available slot has no binding, a consumed one has.
WellFormedRow(row) == (row.state = "available") <=> (row.binding = NoBinding)

Terminal(row) == row.state \in Outcomes

(***************************************************************************)
(* The identity of an audit event.  SHA-256 over the sequence number, the  *)
(* event, time.time_ns() and the previous hash is taken to be              *)
(* collision-free, so a hash is modelled by a name of the event: its       *)
(* sequence number and the instant at which it was appended.  Two events   *)
(* with the same sequence number exist only on two branches of the log     *)
(* (before and after a restored database), appended at different instants. *)
(***************************************************************************)
Hash == [seq : Nat, at : Nat]

EventHash(sequence, created_at) == [seq |-> sequence, at |-> created_at]

ZeroHash == EventHash(0, 0)
=============================================================================
