--------------------------- MODULE TwoPhaseSidecar ---------------------------
(***************************************************************************)
(* src/ranklock/two_phase_sidecar.py with the functions of                 *)
(* two_phase_authorization.py it calls: workers of one participant serve   *)
(* phase-one requests (label shares) and phase-two requests (the seed      *)
(* share) over one durable ledger, the rollback witnesses and Bitcoin      *)
(* Core.                                                                   *)
(*                                                                         *)
(* Every call that leaves the process (a ledger transaction, a witness     *)
(* request, a Core query, the creation of the output file) is a step of    *)
(* its own; everything a method computes between two of them is part of    *)
(* the step before.  A worker may crash between any two steps.             *)
(*                                                                         *)
(* Requests are validly signed; what authentication rejects before the     *)
(* ledger is touched leaves no trace and is not modelled.                  *)
(***************************************************************************)
EXTENDS AnchoredLedger

CONSTANTS
  Blocks,    \* blocks that may include a slot's witness transaction
  NoTx,      \* no sufficiently buried block includes it
  NoBlock    \* a worker that has not read Core

ASSUME NoTxAssumption == NoTx \notin (Bindings \X Blocks)
ASSUME NoBlockAssumption == NoBlock \notin Blocks

VARIABLES
  worker,   \* per worker: where it is and the request it serves
  chain,    \* per slot: the binding the active chain confirms, and in which block
  labels,   \* phase-one response files that became visible: <<slot, binding>>
  seeds     \* phase-two response files that became visible: <<slot, binding>>

sidecarVars == <<worker, chain, labels, seeds>>
vars == <<anchoredVars, sidecarVars>>

\* Where a worker is: it has no sidecar object, it constructs one, it waits
\* for a request, or it is in front of the named step of issue_witness_shares
\* or issue_seed_share.
Places ==
  {"down", "boot", "ready",
   "build-labels", "anchor-labels", "write-labels",
   "read-core", "prepare-seed", "observe", "anchor-confirmed", "reread-core",
   "succeed", "anchor-success", "write-seed",
   "abort", "anchor-abort"}

\* In front of or inside an anchoring pass.
Anchoring == {"boot", "anchor-labels", "anchor-confirmed", "anchor-success", "anchor-abort"}

Job ==
  [pc : Places, slot : SlotIds, binding : Bindings \cup {NoBinding}, block : Blocks \cup {NoBlock}]

TypeOK ==
  /\ AnchoredTypeOK
  /\ worker \in [Workers -> Job]
  /\ chain \in [SlotIds -> (Bindings \X Blocks) \cup {NoTx}]
  /\ labels \subseteq SlotIds \X Bindings
  /\ seeds \subseteq SlotIds \X Bindings

NoJob == [pc |-> "ready", slot |-> 0, binding |-> NoBinding, block |-> NoBlock]
Down == [NoJob EXCEPT !.pc = "down"]

Init ==
  /\ AnchoredInit
  /\ worker = [p \in Workers |-> Down]
  /\ chain = [s \in SlotIds |-> NoTx]
  /\ labels = {}
  /\ seeds = {}

-----------------------------------------------------------------------------
At(p, place) == worker[p].pc = place
Goto(p, place) == worker' = [worker EXCEPT ![p].pc = place]

\* The call returns or raises; the sidecar object can serve another request.
Finish(p) == worker' = [worker EXCEPT ![p] = NoJob]

\* Go to place and start an anchoring pass there.
AnchorAt(p, place) ==
  /\ Goto(p, place)
  /\ anchor' = [anchor EXCEPT ![p] = Started]

\* The pass of worker p is over with this result.
PassEnded(p, place, result) ==
  /\ At(p, place)
  /\ anchor[p].at = result
  /\ anchor' = [anchor EXCEPT ![p] = Idle]

-----------------------------------------------------------------------------
(* __post_init__ *)

Construct(p) ==
  /\ At(p, "down")
  /\ AnchorAt(p, "boot")
  /\ UNCHANGED <<ledgerVars, store, disk, restores, chain, labels, seeds>>

Constructed(p) ==
  /\ PassEnded(p, "boot", "done")
  /\ Goto(p, "ready")
  /\ UNCHANGED <<ledgerVars, store, disk, restores, chain, labels, seeds>>

\* Mutant: the bootstrap error is swallowed and the sidecar serves requests.
ConstructionErrorIgnored(p) ==
  /\ PassEnded(p, "boot", "failed")
  /\ Goto(p, "ready")
  /\ UNCHANGED <<ledgerVars, store, disk, restores, chain, labels, seeds>>

ConstructionFailed(p) ==
  /\ PassEnded(p, "boot", "failed")
  /\ Goto(p, "down")
  /\ UNCHANGED <<ledgerVars, store, disk, restores, chain, labels, seeds>>

-----------------------------------------------------------------------------
(* issue_witness_shares *)

\* Mutant: a repeated request is not answered again, as if the burn were a lock.
RequestLabelsOnce(p, s, b) ==
  /\ At(p, "ready")
  /\ BeginBurn(s, b)
  /\ worker' = [worker EXCEPT ![p] = [NoJob EXCEPT !.pc = "build-labels", !.slot = s, !.binding = b]]
  /\ UNCHANGED <<store, anchor, disk, restores, chain, labels, seeds>>

\* prepare_witness_share_response up to its ledger transaction: burned now, or
\* an exact replay of a burned or completed slot.
RequestLabels(p, s, b) ==
  /\ At(p, "ready")
  /\ \/ BeginBurn(s, b)
     \/ BeginExact(s, b) /\ slots[s].state \in {"burned", "success"}
  /\ worker' = [worker EXCEPT ![p] = [NoJob EXCEPT !.pc = "build-labels", !.slot = s, !.binding = b]]
  /\ UNCHANGED <<store, anchor, disk, restores, chain, labels, seeds>>

\* SlotConflictError, or "previously terminated as ..."; the ledger has recorded the attempt.
RequestLabelsRefused(p, s, b) ==
  /\ At(p, "ready")
  /\ \/ BeginExact(s, b) /\ slots[s].state \notin {"burned", "success"}
     \/ BeginPoisoned(s, b)
     \/ BeginConflict(s, b)
  /\ UNCHANGED <<worker, store, anchor, disk, restores, chain, labels, seeds>>

\* Mutant: the response is written before the burn is anchored.
LabelsBuiltUnanchored(p) ==
  /\ At(p, "build-labels")
  /\ Goto(p, "write-labels")
  /\ UNCHANGED <<ledgerVars, store, anchor, disk, restores, chain, labels, seeds>>

\* The selected label shares are collected and signed.
LabelsBuilt(p) ==
  /\ At(p, "build-labels")
  /\ AnchorAt(p, "anchor-labels")
  /\ UNCHANGED <<ledgerVars, store, disk, restores, chain, labels, seeds>>

\* Building them raised: the slot is malformed, unless it already ended otherwise.
LabelsMalformed(p) ==
  /\ At(p, "build-labels")
  /\ Finalize(worker[p].slot, "malformed")
  /\ Finish(p)
  /\ UNCHANGED <<store, anchor, disk, restores, chain, labels, seeds>>

LabelsAnchored(p) ==
  /\ PassEnded(p, "anchor-labels", "done")
  /\ Goto(p, "write-labels")
  /\ UNCHANGED <<ledgerVars, store, disk, restores, chain, labels, seeds>>

LabelsNotAnchored(p) ==
  /\ PassEnded(p, "anchor-labels", "failed")
  /\ Finish(p)
  /\ UNCHANGED <<ledgerVars, store, disk, restores, chain, labels, seeds>>

\* atomic_write_once: the bytes depend on the request alone, so an existing
\* file of the same request is left as it is.
WriteLabels(p) ==
  /\ At(p, "write-labels")
  /\ labels' = labels \cup {<<worker[p].slot, worker[p].binding>>}
  /\ Finish(p)
  /\ UNCHANGED <<ledgerVars, store, anchor, disk, restores, chain, seeds>>

-----------------------------------------------------------------------------
(* issue_seed_share *)

\* Mutant: a completed slot is not served again.
RequestSeedOnce(p, s, b) ==
  /\ At(p, "ready")
  /\ slots[s] = [state |-> "burned", binding |-> b]
  /\ worker' = [worker EXCEPT ![p] = [NoJob EXCEPT !.pc = "read-core", !.slot = s, !.binding = b]]
  /\ UNCHANGED <<ledgerVars, store, anchor, disk, restores, chain, labels, seeds>>

\* The checks on ledger.use in front of the try block: burned or completed for
\* exactly this preauthorization.  Any other request raises and changes nothing.
RequestSeed(p, s, b) ==
  /\ At(p, "ready")
  /\ slots[s].state \in {"burned", "success"}
  /\ slots[s].binding = b
  /\ worker' = [worker EXCEPT ![p] = [NoJob EXCEPT !.pc = "read-core", !.slot = s, !.binding = b]]
  /\ UNCHANGED <<ledgerVars, store, anchor, disk, restores, chain, labels, seeds>>

\* Core confirms exactly this binding in block k.
Confirms(p, k) == chain[worker[p].slot] = <<worker[p].binding, k>>

ReadCore(p, k) ==
  /\ At(p, "read-core")
  /\ Confirms(p, k)
  /\ worker' = [worker EXCEPT ![p].pc = "prepare-seed", ![p].block = k]
  /\ UNCHANGED <<ledgerVars, store, anchor, disk, restores, chain, labels, seeds>>

\* prepare_seed_response: the exact replay of the burn, then the signed share.
PrepareSeed(p) ==
  /\ At(p, "prepare-seed")
  /\ BeginExact(worker[p].slot, worker[p].binding)
  /\ Goto(p, IF slots[worker[p].slot].state \in {"burned", "success"} THEN "observe" ELSE "abort")
  /\ UNCHANGED <<store, anchor, disk, restores, chain, labels, seeds>>

\* SlotConflictError: the slot was poisoned since it was looked at.
PrepareSeedPoisoned(p) ==
  /\ At(p, "prepare-seed")
  /\ BeginPoisoned(worker[p].slot, worker[p].binding)
  /\ Goto(p, "abort")
  /\ UNCHANGED <<store, anchor, disk, restores, chain, labels, seeds>>

RecordConfirmed(p) ==
  /\ At(p, "observe")
  /\ Observe(worker[p].slot)
  /\ AnchorAt(p, "anchor-confirmed")
  /\ UNCHANGED <<store, disk, restores, chain, labels, seeds>>

ConfirmedAnchored(p) ==
  /\ PassEnded(p, "anchor-confirmed", "done")
  /\ Goto(p, "reread-core")
  /\ UNCHANGED <<ledgerVars, store, disk, restores, chain, labels, seeds>>

ConfirmedNotAnchored(p) ==
  /\ PassEnded(p, "anchor-confirmed", "failed")
  /\ Goto(p, "abort")
  /\ UNCHANGED <<ledgerVars, store, disk, restores, chain, labels, seeds>>

\* The second view has to show the inclusion of the first.
RereadCore(p) ==
  /\ At(p, "reread-core")
  /\ Confirms(p, worker[p].block)
  /\ Goto(p, "succeed")
  /\ UNCHANGED <<ledgerVars, store, anchor, disk, restores, chain, labels, seeds>>

\* Core does not confirm the binding: too early, reorganised, or in another block.
CoreDisagrees(p) ==
  /\ \/ At(p, "read-core") /\ \A k \in Blocks : ~ Confirms(p, k)
     \/ At(p, "reread-core") /\ ~ Confirms(p, worker[p].block)
  /\ Goto(p, "abort")
  /\ UNCHANGED <<ledgerVars, store, anchor, disk, restores, chain, labels, seeds>>

\* Anything else raised inside the try block: Core cannot be read, the ledger
\* cannot be written, or the confirmation does not continue the preauthorization.
PhaseTwoRaises(p) ==
  /\ worker[p].pc \in {"read-core", "prepare-seed", "observe", "reread-core"}
  /\ Goto(p, "abort")
  /\ UNCHANGED <<ledgerVars, store, anchor, disk, restores, chain, labels, seeds>>

\* The except clause: finalize as abort and anchor that.
Abort(p) ==
  /\ At(p, "abort")
  /\ \/ FinalizeBurned(worker[p].slot, "abort")
     \/ FinalizeAgain(worker[p].slot, "abort")
  /\ AnchorAt(p, "anchor-abort")
  /\ UNCHANGED <<store, disk, restores, chain, labels, seeds>>

\* finalize raised: "recovery also failed".
AbortRefused(p) ==
  /\ At(p, "abort")
  /\ FinalizeRefused(worker[p].slot, "abort") \/ FinalizeFull(worker[p].slot)
  /\ Finish(p)
  /\ UNCHANGED <<store, anchor, disk, restores, chain, labels, seeds>>

\* Anchored or not, the method raises.
AbortAnchored(p) ==
  /\ \E result \in {"done", "failed"} : PassEnded(p, "anchor-abort", result)
  /\ Finish(p)
  /\ UNCHANGED <<ledgerVars, store, disk, restores, chain, labels, seeds>>

Succeed(p) ==
  /\ At(p, "succeed")
  /\ \/ FinalizeBurned(worker[p].slot, "success")
     \/ FinalizeAgain(worker[p].slot, "success")
  /\ AnchorAt(p, "anchor-success")
  /\ UNCHANGED <<store, disk, restores, chain, labels, seeds>>

\* Mutant: an exception of finalize is swallowed.
SucceedAnyway(p) ==
  /\ At(p, "succeed")
  /\ FinalizeRefused(worker[p].slot, "success")
  /\ AnchorAt(p, "anchor-success")
  /\ UNCHANGED <<store, disk, restores, chain, labels, seeds>>

\* finalize raised and nothing catches it: another worker ended the slot first.
SucceedRefused(p) ==
  /\ At(p, "succeed")
  /\ FinalizeRefused(worker[p].slot, "success") \/ FinalizeFull(worker[p].slot)
  /\ Finish(p)
  /\ UNCHANGED <<store, anchor, disk, restores, chain, labels, seeds>>

SuccessAnchored(p) ==
  /\ PassEnded(p, "anchor-success", "done")
  /\ Goto(p, "write-seed")
  /\ UNCHANGED <<ledgerVars, store, disk, restores, chain, labels, seeds>>

SuccessNotAnchored(p) ==
  /\ PassEnded(p, "anchor-success", "failed")
  /\ Finish(p)
  /\ UNCHANGED <<ledgerVars, store, disk, restores, chain, labels, seeds>>

WriteSeed(p) ==
  /\ At(p, "write-seed")
  /\ seeds' = seeds \cup {<<worker[p].slot, worker[p].binding>>}
  /\ Finish(p)
  /\ UNCHANGED <<ledgerVars, store, anchor, disk, restores, chain, labels>>

-----------------------------------------------------------------------------
(* The rest of the world *)

WorkerPass(p) ==
  /\ worker[p].pc \in Anchoring
  /\ PassProgress(p)
  /\ UNCHANGED sidecarVars

WitnessTrouble(p) ==
  /\ worker[p].pc \in Anchoring
  /\ PassFault(p)
  /\ UNCHANGED sidecarVars

Crash(p) ==
  /\ worker[p].pc # "down"
  /\ worker' = [worker EXCEPT ![p] = Down]
  /\ anchor' = [anchor EXCEPT ![p] = Idle]
  /\ UNCHANGED <<ledgerVars, store, disk, restores, chain, labels, seeds>>

\* The witness transaction needs the label shares on its witness stack.
Mine(s, b, k) ==
  /\ chain[s] = NoTx
  /\ <<s, b>> \in labels
  /\ chain' = [chain EXCEPT ![s] = <<b, k>>]
  /\ UNCHANGED <<anchoredVars, worker, labels, seeds>>

Reorganise(s) ==
  /\ chain[s] # NoTx
  /\ chain' = [chain EXCEPT ![s] = NoTx]
  /\ UNCHANGED <<anchoredVars, worker, labels, seeds>>

Snapshot ==
  /\ TakeSnapshot
  /\ UNCHANGED sidecarVars

\* Files already handed out stay handed out; Core is another machine.
RestoreDisk ==
  /\ Restore
  /\ worker' = [p \in Workers |-> Down]
  /\ UNCHANGED <<chain, labels, seeds>>

Constructing(p) == Construct(p) \/ Constructed(p) \/ ConstructionFailed(p)

PhaseOne(p) ==
  \/ \E s \in SlotIds, b \in Bindings : RequestLabels(p, s, b) \/ RequestLabelsRefused(p, s, b)
  \/ LabelsBuilt(p)
  \/ LabelsAnchored(p) \/ LabelsNotAnchored(p)
  \/ WriteLabels(p)

PhaseTwo(p) ==
  \/ \E s \in SlotIds, b \in Bindings : RequestSeed(p, s, b)
  \/ \E k \in Blocks : ReadCore(p, k)
  \/ PrepareSeed(p) \/ PrepareSeedPoisoned(p)
  \/ RecordConfirmed(p)
  \/ ConfirmedAnchored(p) \/ ConfirmedNotAnchored(p)
  \/ RereadCore(p) \/ CoreDisagrees(p)
  \/ Abort(p) \/ AbortRefused(p) \/ AbortAnchored(p)
  \/ Succeed(p) \/ SucceedRefused(p)
  \/ SuccessAnchored(p) \/ SuccessNotAnchored(p)
  \/ WriteSeed(p)

\* What a worker does, and what may go wrong around it.
WorkerStep(p) == Constructing(p) \/ PhaseOne(p) \/ PhaseTwo(p) \/ WorkerPass(p)

WorkerFault(p) == LabelsMalformed(p) \/ PhaseTwoRaises(p) \/ WitnessTrouble(p) \/ Crash(p)

ChainStep ==
  \/ \E s \in SlotIds, b \in Bindings, k \in Blocks : Mine(s, b, k)
  \/ \E s \in SlotIds : Reorganise(s)

Next ==
  \/ \E p \in Workers : WorkerStep(p) \/ WorkerFault(p)
  \/ ChainStep
  \/ Snapshot
  \/ RestoreDisk

Spec == Init /\ [][Next]_vars

-----------------------------------------------------------------------------
(* What the participant promises *)

(***************************************************************************)
(* One binding per slot ever leaves the participant: all label-share files *)
(* and seed files of a slot are for the same request, even when the ledger *)
(* (and the witnesses in the same rollback domain) are put back to an      *)
(* older snapshot, as long as one witness is outside that domain.          *)
(***************************************************************************)
OneBindingReleased ==
  \A f, g \in labels \cup seeds : f[1] = g[1] => f[2] = g[2]

(***************************************************************************)
(* Bytes follow the witnesses: when a label file is visible, every witness *)
(* outside the rollback domain holds the burn for that very request; when  *)
(* a seed file is visible, they hold its success.  So a slot a witness saw *)
(* abort, malformed or poisoned never releases a seed.                     *)
(***************************************************************************)
ReleasedIsWitnessed ==
  \A w \in Reliable :
    /\ labels \cup seeds # {} => store[w] # NoRecord
    /\ \A f \in labels :
         /\ store[w].slots[f[1]].state # "available"
         /\ store[w].slots[f[1]].binding = f[2]
    /\ \A f \in seeds :
         /\ store[w].slots[f[1]].state = "success"
         /\ store[w].slots[f[1]].binding = f[2]

(***************************************************************************)
(* A seed file appears only for a slot whose live row is success, and so   *)
(* never for one a conflicting request poisoned, or phase two aborted,     *)
(* while the worker was between two steps.                                 *)
(***************************************************************************)
SeedOnlyAfterSuccess ==
  [][\A f \in seeds' \ seeds : slots[f[1]].state = "success" /\ slots[f[1]].binding = f[2]]_vars

(***************************************************************************)
(* When the witnesses refuse the live ledger although no disk was put      *)
(* back, it is because some slot ended before its burn was witnessed (a    *)
(* conflict or a malformed response right after the burn).  Nothing else   *)
(* the workers do, in any interleaving, leaves a ledger no witness accepts *)
(* any more.                                                               *)
(***************************************************************************)
LiveCheckpoint == [count |-> count, head |-> head, slots |-> slots]

OnlySkippedBurnsAreRefused ==
  \A w \in Witnesses :
    \/ CanAnchor(w, LiveCheckpoint)
    \/ /\ store[w] # NoRecord
       /\ \E s \in SlotIds : store[w].slots[s].state = "available" /\ Terminal(slots[s])

(***************************************************************************)
(* The docstring of issue_seed_share: a reorganisation that runs beside    *)
(* the call aborts the slot instead of exposing the seed share, so a seed  *)
(* file appears only while the chain confirms its witness transaction.     *)
(***************************************************************************)
SeedNeedsConfirmation ==
  [][\A f \in seeds' \ seeds : \E k \in Blocks : chain[f[1]] = <<f[2], k>>]_vars

(***************************************************************************)
(* Seen through one witness outside the rollback domain, the participant   *)
(* is the one-shot release of OneShotRelease.tla: crashes, lost messages,  *)
(* concurrent workers and restored disks all come out as its steps.        *)
(***************************************************************************)
TrustedWitness == CHOOSE w \in Reliable : TRUE

WitnessedRows ==
  IF store[TrustedWitness] = NoRecord
  THEN [s \in SlotIds |-> FreshRow]
  ELSE store[TrustedWitness].slots

Release == INSTANCE OneShotRelease WITH row <- WitnessedRows

ImplementsOneShotRelease == Release!ReleaseSpec
=============================================================================
