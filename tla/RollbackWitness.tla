--------------------------- MODULE RollbackWitness ---------------------------
(***************************************************************************)
(* src/ranklock/rollback_witness.py: the independent witnesses that keep   *)
(* the last accepted checkpoint of a participant's ledger.                 *)
(* SqliteRollbackWitness.anchor is one BEGIN IMMEDIATE transaction, hence  *)
(* one action.                                                             *)
(*                                                                         *)
(* A checkpoint is the number of audit events, the head of the chain and   *)
(* the state and binding of every slot.  Left out: the participant's       *)
(* signature (deterministic over the same fields), the ledger identity     *)
(* (one ledger), and the receipt's generation and back link, which no      *)
(* client of the witness reads.                                            *)
(***************************************************************************)
EXTENDS SlotStates

CONSTANTS
  Witnesses,   \* the configured rollback witnesses
  NoRecord     \* the ledger has no row at a witness

ASSUME WitnessesAssumption == Witnesses # {}

VARIABLE
  store   \* per witness: the checkpoint column of table ledgers, or NoRecord

Checkpoint == [count : Nat, head : Hash, slots : [SlotIds -> SlotRow]]

ASSUME NoRecordAssumption == NoRecord \notin Checkpoint

WitnessTypeOK == store \in [Witnesses -> Checkpoint \cup {NoRecord}]

WitnessInit == store = [w \in Witnesses |-> NoRecord]

-----------------------------------------------------------------------------
\* UnsignedLedgerCheckpoint.__post_init__ and SlotCheckpoint.__post_init__: what
\* raises RollbackWitnessError instead of becoming a checkpoint.
WellFormedCheckpoint(cp) ==
  /\ \A s \in SlotIds : WellFormedRow(cp.slots[s])
  /\ cp.count = 0 =>
       /\ cp.head = ZeroHash
       /\ \A s \in SlotIds : cp.slots[s].state = "available"

\* Mutant: the burn need not be witnessed before a terminal state.
MonotonicSkippingBurn(before, after) ==
  /\ before.binding # NoBinding => after.binding = before.binding
  /\ before.state = "burned" => after.state # "available"
  /\ before.state \in Outcomes => after.state = before.state

\* _monotonic: a binding never changes, a burn is seen before any terminal
\* state, and a terminal state is permanent.
Monotonic(before, after) ==
  /\ before.binding # NoBinding => after.binding = before.binding
  /\ before.state = "available" => after.state \in {"available", "burned"}
  /\ before.state = "burned" => after.state # "available"
  /\ before.state \in Outcomes => after.state = before.state

\* _validate_transition, as a condition instead of RollbackDetectedError.
ValidTransition(previous, current) ==
  /\ current.count >= previous.count
  /\ current.count = previous.count => current.head = previous.head
  /\ current.count > previous.count => current.head # previous.head
  /\ \A s \in SlotIds : Monotonic(previous.slots[s], current.slots[s])

\* The first checkpoint of a ledger has to be its genesis.
IsGenesis(cp) ==
  /\ cp.count = 0
  /\ \A s \in SlotIds : cp.slots[s].state = "available"

\* When anchor returns a receipt instead of raising.
CanAnchor(w, cp) ==
  IF store[w] = NoRecord
  THEN IsGenesis(cp)
  ELSE cp = store[w] \/ ValidTransition(store[w], cp)

\* anchor: the accepted checkpoint is stored before the receipt is returned;
\* anchoring the stored checkpoint again returns the existing receipt.
Anchor(w, cp) ==
  /\ CanAnchor(w, cp)
  /\ store' = [store EXCEPT ![w] = cp]
=============================================================================
