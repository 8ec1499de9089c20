--------------------------- MODULE AnchoredLedger ----------------------------
(***************************************************************************)
(* The slot ledger of one participant together with its rollback           *)
(* witnesses: from_ledger, anchor_ledger_at_all_witnesses, and the disk    *)
(* that may be put back to an older snapshot.                              *)
(*                                                                         *)
(* A worker is a process that uses the ledger.  Building a checkpoint      *)
(* reads the log and then every slot row through connections of its own,   *)
(* so a checkpoint may mix moments; it is then offered to the witnesses    *)
(* one after the other.  The order in which a worker walks its witnesses   *)
(* is its local configuration, so any order is allowed here.               *)
(*                                                                         *)
(* This module is a library of steps: a client module decides what a       *)
(* worker does before, between and after its anchoring passes.             *)
(***************************************************************************)
EXTENDS SlotLedger, RollbackWitness

CONSTANTS
  Workers,      \* processes sharing the ledger database
  Restorable,   \* witnesses inside the participant's rollback domain
  MaxRestores   \* how often the disk is put back

ASSUME RestorableAssumption == Restorable \subseteq Witnesses

\* docs/57, "Rollback protection": at least one witness is outside the domain.
ASSUME ReliableAssumption == Restorable # Witnesses

ASSUME MaxRestoresAssumption == MaxRestores \in Nat

VARIABLES
  anchor,   \* per worker: the anchoring pass it is in
  disk,     \* the snapshot that can be put back: ledger and restorable witnesses
  restores  \* how often it was put back

anchoredVars == <<ledgerVars, store, anchor, disk, restores>>

Reliable == Witnesses \ Restorable

\* read: how many slot rows are in cp; todo: witnesses that have not answered yet.
Pass ==
  [at : {"none", "events", "rows", "send", "done", "failed"},
   cp : Checkpoint, read : 0 .. SlotCount, todo : SUBSET Witnesses]

Disk ==
  [slots : [SlotIds -> SlotRow], count : Nat, head : Hash,
   store : [Restorable -> Checkpoint \cup {NoRecord}]]

AnchoredTypeOK ==
  /\ LedgerTypeOK
  /\ WitnessTypeOK
  /\ anchor \in [Workers -> Pass]
  /\ disk \in Disk
  /\ restores \in 0 .. MaxRestores

EmptyCheckpoint == [count |-> 0, head |-> ZeroHash, slots |-> [s \in SlotIds |-> FreshRow]]

Idle == [at |-> "none", cp |-> EmptyCheckpoint, read |-> 0, todo |-> {}]
Started == [Idle EXCEPT !.at = "events"]
Failed == [Idle EXCEPT !.at = "failed"]

CurrentDisk ==
  [slots |-> slots, count |-> count, head |-> head, store |-> [w \in Restorable |-> store[w]]]

AnchoredInit ==
  /\ LedgerInit
  /\ WitnessInit
  /\ anchor = [p \in Workers |-> Idle]
  /\ disk = CurrentDisk
  /\ restores = 0

-----------------------------------------------------------------------------
(* UnsignedLedgerCheckpoint.from_ledger *)

\* ledger.events(): the number of events and the head, in one read.
ReadEvents(p) ==
  /\ anchor[p].at = "events"
  /\ anchor' = [anchor EXCEPT ![p].at = "rows", ![p].cp.count = count, ![p].cp.head = head]
  /\ UNCHANGED <<ledgerVars, store, disk, restores>>

\* Mutant: the loop over the slots advances by two.
WithEveryOtherRow(pass, i, row) ==
  LET grown == [pass EXCEPT !.cp.slots[i] = row, !.read = i + 2]
  IN IF i + 1 < SlotCount THEN grown
     ELSE IF WellFormedCheckpoint(grown.cp) THEN [grown EXCEPT !.at = "send", !.todo = Witnesses]
     ELSE Failed

\* What is left of a checkpoint once row i is in it: after the last row the
\* constructor checks it and the participant signs it, or it raises.
WithRow(pass, i, row) ==
  LET grown == [pass EXCEPT !.cp.slots[i] = row, !.read = i + 1]
  IN IF i + 1 < SlotCount THEN grown
     ELSE IF WellFormedCheckpoint(grown.cp) THEN [grown EXCEPT !.at = "send", !.todo = Witnesses]
     ELSE Failed

\* ledger.use(i): one slot row, in a read of its own.
ReadRow(p) ==
  /\ anchor[p].at = "rows"
  /\ anchor' = [anchor EXCEPT ![p] = WithRow(@, @.read, slots[@.read])]
  /\ UNCHANGED <<ledgerVars, store, disk, restores>>

-----------------------------------------------------------------------------
(* anchor_ledger_at_all_witnesses *)

\* A witness stores the checkpoint and the receipt arrives.
Accepted(p, w) ==
  /\ anchor[p].at = "send"
  /\ w \in anchor[p].todo
  /\ Anchor(w, anchor[p].cp)
  /\ anchor' = [anchor EXCEPT ![p].todo = @ \ {w},
                              ![p].at = IF anchor[p].todo = {w} THEN "done" ELSE "send"]
  /\ UNCHANGED <<ledgerVars, disk, restores>>

\* The witness stores the checkpoint but the answer is lost or times out.
ReplyLost(p, w) ==
  /\ anchor[p].at = "send"
  /\ w \in anchor[p].todo
  /\ Anchor(w, anchor[p].cp)
  /\ anchor' = [anchor EXCEPT ![p] = Failed]
  /\ UNCHANGED <<ledgerVars, disk, restores>>

\* RollbackDetectedError, or a witness without this ledger and no genesis.
Refused(p, w) ==
  /\ anchor[p].at = "send"
  /\ w \in anchor[p].todo
  /\ ~ CanAnchor(w, anchor[p].cp)
  /\ anchor' = [anchor EXCEPT ![p] = Failed]
  /\ UNCHANGED <<ledgerVars, store, disk, restores>>

\* The request does not reach the witness.
Unreachable(p) ==
  /\ anchor[p].at = "send"
  /\ anchor' = [anchor EXCEPT ![p] = Failed]
  /\ UNCHANGED <<ledgerVars, store, disk, restores>>

\* What the pass does by itself, and what the network does to it.
PassProgress(p) ==
  \/ ReadEvents(p)
  \/ ReadRow(p)
  \/ \E w \in Witnesses : Accepted(p, w) \/ Refused(p, w)

PassFault(p) ==
  \/ \E w \in Witnesses : ReplyLost(p, w)
  \/ Unreachable(p)

-----------------------------------------------------------------------------
(* The machine under the workers *)

\* A copy of the disk is taken (a backup, a virtual-machine snapshot); one that
\* is never put back makes no difference.
TakeSnapshot ==
  /\ restores < MaxRestores
  /\ disk' = CurrentDisk
  /\ UNCHANGED <<ledgerVars, store, anchor, restores>>

\* The copy is put back.  No worker survives: an open ledger notices that its
\* database file was replaced (validate_private_file compares the inode).
Restore ==
  /\ restores < MaxRestores
  /\ restores' = restores + 1
  /\ slots' = disk.slots
  /\ count' = disk.count
  /\ head' = disk.head
  /\ now' = now + 1
  /\ store' = [w \in Witnesses |-> IF w \in Restorable THEN disk.store[w] ELSE store[w]]
  /\ anchor' = [p \in Workers |-> Idle]
  /\ UNCHANGED disk
=============================================================================
