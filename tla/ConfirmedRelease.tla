--------------------------- MODULE ConfirmedRelease ---------------------------
(***************************************************************************)
(* The two sidecars that release everything in one call once Bitcoin       *)
(* confirms the request: ParticipantReleaseSidecar.issue                   *)
(* (src/ranklock/release_sidecar.py) and                                   *)
(* SplitScalarParticipantReleaseSidecar.issue                              *)
(* (src/ranklock/split_scalar_authorization.py).  They make the same calls *)
(* on Core, ledger and witnesses and differ in how they fail: the first    *)
(* aborts the slot only when the second look at Core disagrees, the second *)
(* whenever anything raises after begin and finds the slot still burned.   *)
(*                                                                         *)
(* verify_confirmed_bitcoin_binding asks Core twice (the transaction, then *)
(* the header of its block) and compares the two depths, so it is two      *)
(* steps here.  The block is part of the caller's request.  What a         *)
(* restored disk does is examined with TwoPhaseSidecar, which uses ledger  *)
(* and witnesses in the same way; here the disk is never put back.         *)
(***************************************************************************)
EXTENDS AnchoredLedger, ResponseFiles

CONSTANTS
  Blocks,     \* blocks that may include a slot's counterproof transaction
  NoTx,       \* the active chain does not include it
  NoBlock,    \* a worker without a request
  MinDepth,   \* minimum_confirmations
  MaxDepth    \* how deep the chain buries a block in the instance

ASSUME DepthAssumption == MinDepth \in Nat \ {0} /\ MaxDepth \in Nat \ {0}

\* No file, and bytes that are no response of this participant.
ASSUME FileAssumption == Paths # {} /\ {Foreign, Absent} \cap (SlotIds \X Bindings) = {}

VARIABLES
  protocol,   \* which of the two sidecars the participant runs
  worker,     \* per worker: where it is and the request it serves
  chain,      \* per slot: the binding that is confirmed, its block and its depth
  released,   \* history: <<slot, binding>> whose bytes were visible at a destination
  answered    \* history: <<slot, binding>> for which issue returned normally

releaseVars == <<protocol, worker, chain, file, released, answered>>
vars == <<anchoredVars, releaseVars>>

Protocols == {"one-phase", "split-scalar"}

Places ==
  {"down", "boot", "ready",
   "read-tx", "read-header", "begin", "build", "observe", "anchor-confirmed",
   "reread-tx", "reread-header", "succeed", "anchor-success",
   "inspect", "link", "compare",
   "recover", "abort", "anchor-abort"}

Anchoring == {"boot", "anchor-confirmed", "anchor-success", "anchor-abort"}

\* One response per slot: the binding the active chain confirms, where and how deep.
Inclusion == [binding : Bindings, block : Blocks, depth : 1 .. MaxDepth]

Job ==
  [pc : Places, slot : SlotIds, binding : Bindings \cup {NoBinding},
   block : Blocks \cup {NoBlock}, path : Paths, depth : 0 .. MaxDepth]

Responses == SlotIds \X Bindings

TypeOK ==
  /\ AnchoredTypeOK
  /\ protocol \in Protocols
  /\ worker \in [Workers -> Job]
  /\ chain \in [SlotIds -> Inclusion \cup {NoTx}]
  /\ file \in [Paths -> Responses \cup {Foreign, Absent}]
  /\ released \subseteq Responses
  /\ answered \subseteq Responses

NoJob ==
  [pc |-> "ready", slot |-> 0, binding |-> NoBinding, block |-> NoBlock,
   path |-> CHOOSE f \in Paths : TRUE, depth |-> 0]
Down == [NoJob EXCEPT !.pc = "down"]

Init ==
  /\ AnchoredInit
  /\ FilesInit
  /\ protocol \in Protocols
  /\ worker = [p \in Workers |-> Down]
  /\ chain = [s \in SlotIds |-> NoTx]
  /\ released = {}
  /\ answered = {}

-----------------------------------------------------------------------------
At(p, place) == worker[p].pc = place
Goto(p, place) == worker' = [worker EXCEPT ![p].pc = place]

\* The call returns or raises; the sidecar object can serve another request.
Finish(p) == worker' = [worker EXCEPT ![p] = NoJob]

AnchorAt(p, place) ==
  /\ Goto(p, place)
  /\ anchor' = [anchor EXCEPT ![p] = Started]

PassEnded(p, place, result) ==
  /\ At(p, place)
  /\ anchor[p].at = result
  /\ anchor' = [anchor EXCEPT ![p] = Idle]

Response(p) == <<worker[p].slot, worker[p].binding>>

LedgerOnly == UNCHANGED <<store, anchor, disk, restores, protocol, chain, file, released, answered>>
AnchorOnly ==
  UNCHANGED <<ledgerVars, store, disk, restores, protocol, chain, file, released, answered>>
LedgerThenAnchor == UNCHANGED <<store, disk, restores, protocol, chain, file, released, answered>>
WorkerOnly == UNCHANGED <<anchoredVars, protocol, chain, file, released, answered>>

-----------------------------------------------------------------------------
(* __post_init__ *)

Construct(p) ==
  /\ At(p, "down")
  /\ AnchorAt(p, "boot")
  /\ AnchorOnly

Constructed(p) ==
  /\ PassEnded(p, "boot", "done")
  /\ Goto(p, "ready")
  /\ AnchorOnly

ConstructionFailed(p) ==
  /\ PassEnded(p, "boot", "failed")
  /\ Goto(p, "down")
  /\ AnchorOnly

-----------------------------------------------------------------------------
(* verify_confirmed_bitcoin_binding *)

\* getrawtransaction: the transaction of this request, in the named block, deep enough.
Confirmed(p, d) ==
  /\ d >= MinDepth
  /\ chain[worker[p].slot] = [binding |-> worker[p].binding, block |-> worker[p].block, depth |-> d]

\* issue is called.
Ask(p, s, b, k, f) ==
  /\ At(p, "ready")
  /\ worker' = [worker EXCEPT ![p] =
       [NoJob EXCEPT !.pc = "read-tx", !.slot = s, !.binding = b, !.block = k, !.path = f]]
  /\ WorkerOnly

ReadTransaction(p, d) ==
  /\ worker[p].pc \in {"read-tx", "reread-tx"}
  /\ Confirmed(p, d)
  /\ worker' = [worker EXCEPT ![p].depth = d,
                              ![p].pc = IF @ = "read-tx" THEN "read-header" ELSE "reread-header"]
  /\ WorkerOnly

\* getblockheader: still the same depth.  The second time this is what lets
\* the slot complete.
ReadHeader(p) ==
  /\ worker[p].pc \in {"read-header", "reread-header"}
  /\ Confirmed(p, worker[p].depth)
  /\ worker' = [worker EXCEPT ![p].depth = 0,
                              ![p].pc = IF @ = "read-header" THEN "begin" ELSE "succeed"]
  /\ WorkerOnly

-----------------------------------------------------------------------------
(* How a failure is handled *)

OnePhase == protocol = "one-phase"

\* Where an exception leads that is raised in front of place.
Handler(place) ==
  IF OnePhase
  THEN IF place \in {"reread-tx", "reread-header"} THEN "abort" ELSE "ready"
  ELSE IF place \in {"read-tx", "read-header", "begin"} THEN "ready" ELSE "recover"

Raise(p) ==
  LET place == Handler(worker[p].pc) IN
    worker' = [worker EXCEPT ![p] = IF place = "ready" THEN NoJob
                                    ELSE [@ EXCEPT !.pc = place, !.depth = 0]]

\* Core does not show the request, or shows two different depths.
CoreDisagrees(p) ==
  /\ \/ worker[p].pc \in {"read-tx", "reread-tx"} /\ \A d \in 0 .. MaxDepth : ~ Confirmed(p, d)
     \/ worker[p].pc \in {"read-header", "reread-header"} /\ ~ Confirmed(p, worker[p].depth)
  /\ Raise(p)
  /\ WorkerOnly

\* Core cannot be read or the ledger or the output cannot be written.
CallFails(p) ==
  /\ worker[p].pc \in {"read-tx", "read-header", "begin", "observe", "reread-tx", "reread-header",
                       "succeed", "inspect", "link"}
  /\ Raise(p)
  /\ WorkerOnly

\* Split-scalar: the except clause looks at the slot first, in a read of its own.
Recover(p) ==
  /\ At(p, "recover")
  /\ IF slots[worker[p].slot].state = "burned" THEN Goto(p, "abort") ELSE Finish(p)
  /\ WorkerOnly

Abort(p) ==
  /\ At(p, "abort")
  /\ \/ FinalizeBurned(worker[p].slot, "abort")
     \/ FinalizeAgain(worker[p].slot, "abort")
  /\ AnchorAt(p, "anchor-abort")
  /\ LedgerThenAnchor

\* "recovery also failed".
AbortRefused(p) ==
  /\ At(p, "abort")
  /\ FinalizeRefused(worker[p].slot, "abort") \/ FinalizeFull(worker[p].slot)
  /\ Finish(p)
  /\ LedgerOnly

\* Anchored or not, issue raises.
AbortAnchored(p) ==
  /\ \E result \in {"done", "failed"} : PassEnded(p, "anchor-abort", result)
  /\ Finish(p)
  /\ AnchorOnly

-----------------------------------------------------------------------------
(* issue, from begin to the terminal anchor *)

\* begin, in prepare_participant_response or directly: burned now, or an exact
\* replay of a burned or completed slot.
BeginSlot(p) ==
  /\ At(p, "begin")
  /\ LET s == worker[p].slot IN
       \/ BeginBurn(s, worker[p].binding)
       \/ BeginExact(s, worker[p].binding) /\ slots[s].state \in {"burned", "success"}
  /\ Goto(p, IF OnePhase THEN "build" ELSE "observe")
  /\ LedgerOnly

\* SlotConflictError, or "previously terminated as ...": neither touches the
\* slot any further (split-scalar looks at it once more and finds it ended).
BeginRefused(p) ==
  /\ At(p, "begin")
  /\ LET s == worker[p].slot IN
       \/ BeginExact(s, worker[p].binding) /\ slots[s].state \notin {"burned", "success"}
       \/ BeginPoisoned(s, worker[p].binding)
       \/ BeginConflict(s, worker[p].binding)
  /\ Finish(p)
  /\ LedgerOnly

\* One-phase: the share response is built and signed in memory.
ResponseBuilt(p) ==
  /\ At(p, "build")
  /\ Goto(p, "observe")
  /\ WorkerOnly

\* Building it raised: malformed, unless the slot already ended otherwise.
ResponseMalformed(p) ==
  /\ At(p, "build")
  /\ Finalize(worker[p].slot, "malformed")
  /\ Finish(p)
  /\ LedgerOnly

\* Mutant: the burn is not anchored before Core is read again.
RecordWithoutAnchor(p) ==
  /\ At(p, "observe")
  /\ Observe(worker[p].slot)
  /\ Goto(p, "reread-tx")
  /\ LedgerOnly

RecordConfirmed(p) ==
  /\ At(p, "observe")
  /\ Observe(worker[p].slot)
  /\ AnchorAt(p, "anchor-confirmed")
  /\ LedgerThenAnchor

BurnAnchored(p) ==
  /\ PassEnded(p, "anchor-confirmed", "done")
  /\ Goto(p, "reread-tx")
  /\ AnchorOnly

Succeed(p) ==
  /\ At(p, "succeed")
  /\ \/ FinalizeBurned(worker[p].slot, "success")
     \/ FinalizeAgain(worker[p].slot, "success")
  /\ AnchorAt(p, "anchor-success")
  /\ LedgerThenAnchor

\* finalize raised: another worker ended the slot first.
SucceedRefused(p) ==
  /\ At(p, "succeed")
  /\ FinalizeRefused(worker[p].slot, "success") \/ FinalizeFull(worker[p].slot)
  /\ Raise(p)
  /\ LedgerOnly

SuccessAnchored(p) ==
  /\ PassEnded(p, "anchor-success", "done")
  /\ Goto(p, "inspect")
  /\ AnchorOnly

\* Mutant: the terminal anchor is best effort.
NotAnchoredIgnored(p) ==
  /\ PassEnded(p, "anchor-success", "failed")
  /\ Goto(p, "inspect")
  /\ AnchorOnly

\* A witness refused or was not reached, at either anchor.
NotAnchored(p) ==
  /\ \/ PassEnded(p, "anchor-confirmed", "failed")
     \/ PassEnded(p, "anchor-success", "failed")
  /\ Raise(p)
  /\ AnchorOnly

-----------------------------------------------------------------------------
(* atomic_write_once *)

\* issue returns the response to its caller.
Answer(p) ==
  /\ Finish(p)
  /\ answered' = answered \cup {Response(p)}

NoAnswer == UNCHANGED answered
FilesOnly == UNCHANGED <<anchoredVars, protocol, chain>>

InspectOutput(p) ==
  /\ At(p, "inspect")
  /\ LET f == worker[p].path IN
       \/ Missing(f) /\ Goto(p, "link") /\ NoAnswer
       \/ Holds(f, Response(p)) /\ Answer(p)
       \/ Conflicts(f, Response(p)) /\ Raise(p) /\ NoAnswer
  /\ FilesOnly
  /\ UNCHANGED <<file, released>>

PublishOutput(p) ==
  /\ At(p, "link")
  /\ LinkFile(worker[p].path, Response(p))
  /\ released' = released \cup {Response(p)}
  /\ Answer(p)
  /\ FilesOnly

OutputExists(p) ==
  /\ At(p, "link")
  /\ LinkCollides(worker[p].path)
  /\ Goto(p, "compare")
  /\ FilesOnly
  /\ UNCHANGED <<released, answered>>

\* Mutant: whoever won the race is taken to have written the same bytes.
CompareNothing(p) ==
  /\ At(p, "compare")
  /\ Answer(p)
  /\ FilesOnly
  /\ UNCHANGED <<file, released>>

\* Opened again after the collision: the same bytes, other bytes, or gone.
CompareOutput(p) ==
  /\ At(p, "compare")
  /\ IF Holds(worker[p].path, Response(p)) THEN Answer(p) ELSE Raise(p) /\ NoAnswer
  /\ FilesOnly
  /\ UNCHANGED <<file, released>>

-----------------------------------------------------------------------------
(* The rest of the world *)

WorkerPass(p) ==
  /\ worker[p].pc \in Anchoring
  /\ PassProgress(p)
  /\ UNCHANGED releaseVars

WitnessTrouble(p) ==
  /\ worker[p].pc \in Anchoring
  /\ PassFault(p)
  /\ UNCHANGED releaseVars

Crash(p) ==
  /\ worker[p].pc # "down"
  /\ worker' = [worker EXCEPT ![p] = Down]
  /\ anchor' = [anchor EXCEPT ![p] = Idle]
  /\ AnchorOnly

ChainOnly == UNCHANGED <<anchoredVars, protocol, worker, file, released, answered>>

Mine(s, b, k) ==
  /\ chain[s] = NoTx
  /\ chain' = [chain EXCEPT ![s] = [binding |-> b, block |-> k, depth |-> 1]]
  /\ ChainOnly

\* A block on top: every confirmed transaction is one deeper.
Extend ==
  /\ \E s \in SlotIds : chain[s] # NoTx
  /\ \A s \in SlotIds : chain[s] # NoTx => chain[s].depth < MaxDepth
  /\ chain' = [s \in SlotIds |-> IF chain[s] = NoTx THEN NoTx ELSE [chain[s] EXCEPT !.depth = @ + 1]]
  /\ ChainOnly

Reorganise(s) ==
  /\ chain[s] # NoTx
  /\ chain' = [chain EXCEPT ![s] = NoTx]
  /\ ChainOnly

\* It makes a difference only while some worker looks at the directory.
OthersUseDirectory ==
  /\ \E p \in Workers : worker[p].pc \in {"inspect", "link", "compare"}
  /\ \E f \in Paths : PublishForeign(f) \/ Collect(f)
  /\ FilesOnly
  /\ UNCHANGED <<worker, released, answered>>

Asking(p) == \E s \in SlotIds, b \in Bindings, k \in Blocks, f \in Paths : Ask(p, s, b, k, f)

\* A call that has begun, or a process that starts.
Working(p) ==
  \/ Construct(p) \/ Constructed(p) \/ ConstructionFailed(p)
  \/ \E d \in 0 .. MaxDepth : ReadTransaction(p, d)
  \/ ReadHeader(p) \/ CoreDisagrees(p)
  \/ BeginSlot(p) \/ BeginRefused(p)
  \/ ResponseBuilt(p)
  \/ RecordConfirmed(p) \/ BurnAnchored(p) \/ NotAnchored(p)
  \/ Succeed(p) \/ SucceedRefused(p) \/ SuccessAnchored(p)
  \/ InspectOutput(p) \/ PublishOutput(p) \/ OutputExists(p) \/ CompareOutput(p)
  \/ Recover(p) \/ Abort(p) \/ AbortRefused(p) \/ AbortAnchored(p)
  \/ WorkerPass(p)

WorkerFault(p) == ResponseMalformed(p) \/ CallFails(p) \/ WitnessTrouble(p) \/ Crash(p)

ChainStep ==
  \/ \E s \in SlotIds, b \in Bindings, k \in Blocks : Mine(s, b, k)
  \/ Extend
  \/ \E s \in SlotIds : Reorganise(s)

Next ==
  \/ \E p \in Workers : Asking(p) \/ Working(p) \/ WorkerFault(p)
  \/ ChainStep
  \/ OthersUseDirectory

Spec == Init /\ [][Next]_vars

-----------------------------------------------------------------------------
(***************************************************************************)
(* What became visible under a name is never replaced by other bytes, in   *)
(* whatever order processes inspect, link and compare.                     *)
(***************************************************************************)
PublishedNeverReplaced ==
  [][\A f \in Paths : file[f] # Absent => file'[f] \in {file[f], Absent}]_file

(***************************************************************************)
(* When issue returns normally its response really was published: losing   *)
(* the race for the name is reported as success only if the winner wrote   *)
(* these very bytes.                                                       *)
(***************************************************************************)
AnswersArePublished == answered \subseteq released

(***************************************************************************)
(* The outside witnesses hold the burn of a slot before its live row       *)
(* becomes success, in both sidecars, and before it becomes abort in the   *)
(* one-phase sidecar.  Otherwise _monotonic would refuse the ledger from   *)
(* then on: a terminal state may not be the first thing a witness sees.    *)
(***************************************************************************)
BurnWitnessed(s) ==
  \A w \in Reliable :
    /\ store[w] # NoRecord
    /\ store[w].slots[s].state # "available"
    /\ store[w].slots[s].binding = slots[s].binding

EndsOnlyWitnessedBurns ==
  [][\A s \in SlotIds :
       (/\ slots[s].state = "burned"
        /\ slots'[s].state \in IF OnePhase THEN {"success", "abort"} ELSE {"success"})
         => BurnWitnessed(s)]_vars

(***************************************************************************)
(* Seen through one witness outside the rollback domain, either sidecar is *)
(* the one-shot release of OneShotRelease.tla in which every response      *)
(* carries the seed share: it leaves only after a success the witnesses    *)
(* have accepted, and a slot releases one request.                         *)
(***************************************************************************)
TrustedWitness == CHOOSE w \in Reliable : TRUE

WitnessedRows ==
  IF store[TrustedWitness] = NoRecord
  THEN [s \in SlotIds |-> FreshRow]
  ELSE store[TrustedWitness].slots

Release == INSTANCE OneShotRelease WITH row <- WitnessedRows, labels <- {}, seeds <- released

ImplementsOneShotRelease == Release!ReleaseSpec
=============================================================================
