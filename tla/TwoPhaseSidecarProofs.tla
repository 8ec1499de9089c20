----------------------- MODULE TwoPhaseSidecarProofs ------------------------
(***************************************************************************)
(* Proofs about TwoPhaseSidecar, for any number of slots, requests,        *)
(* workers, witnesses, events, blocks and restored snapshots.              *)
(***************************************************************************)
EXTENDS TwoPhaseSidecar, AnchoredLedgerProofs

(***************************************************************************)
(* The argument.  A worker that is about to publish has a claim: the row   *)
(* of its slot carries its binding (and, for a seed, success).  The claim  *)
(* is established in the live ledger, carried over by the checkpoint that  *)
(* is read afterwards, and by the witnesses that accept the checkpoint.    *)
(* Nothing the other workers do takes it back, because neither the ledger  *)
(* nor a witness outside the rollback domain ever loses a consumed row;    *)
(* and when the disk is put back, no worker survives to act on a claim.    *)
(***************************************************************************)

\* Where a worker serves a request; where it carries a claim to the witnesses;
\* where it is about to write.
Serving == Places \ {"down", "boot", "ready"}
Carrying == {"anchor-labels", "anchor-success"}
Writing == {"write-labels", "write-seed"}

Claims(job, row) ==
  /\ row.state # "available"
  /\ row.binding = job.binding
  /\ job.pc \in {"anchor-success", "write-seed"} => row.state = "success"

WitnessHonours(w, job) ==
  store[w] # NoRecord /\ Claims(job, store[w].slots[job.slot])

Honoured(p) ==
  /\ worker[p].pc \in Serving => Claims(worker[p], slots[worker[p].slot])
  /\ worker[p].pc \in Carrying =>
       /\ anchor[p].read > worker[p].slot =>
            Claims(worker[p], anchor[p].cp.slots[worker[p].slot])
       /\ anchor[p].at \in {"send", "done"} =>
            \A w \in Reliable \ anchor[p].todo : WitnessHonours(w, worker[p])
  /\ worker[p].pc \in Writing => \A w \in Reliable : WitnessHonours(w, worker[p])

\* A worker with a request knows which.
JobOK(p) == worker[p].pc \in Serving => worker[p].binding \in Bindings

Inv ==
  /\ TypeOK
  /\ \A p \in Workers : PassOK(p) /\ JobOK(p) /\ Honoured(p)
  /\ StoreOK
  /\ ReleasedIsWitnessed

-----------------------------------------------------------------------------
(* What a step of worker p writes into worker and anchor *)

OthersStay(p) ==
  \A q \in Workers \ {p} : worker'[q] = worker[q] /\ anchor'[q] = anchor[q]

AnchorType == anchor' \in [Workers -> Pass]
JobType == worker' \in [Workers -> Job]

LEMMA ConstantJobs == {NoJob, Down} \subseteq Job
<1>1. 0 \in SlotIds
  BY SlotCountAssumption DEF SlotIds
<1> QED BY <1>1 DEF NoJob, Down, Job, Places

LEMMA GotoFacts ==
  ASSUME TypeOK, NEW p \in Workers, NEW place \in Places, Goto(p, place)
  PROVE  /\ JobType
         /\ worker'[p].pc = place
         /\ worker'[p].slot = worker[p].slot
         /\ worker'[p].binding = worker[p].binding
         /\ worker'[p].block = worker[p].block
         /\ \A q \in Workers \ {p} : worker'[q] = worker[q]
<1>1. worker \in [Workers -> Job] /\ worker[p] \in Job
  BY DEF TypeOK
<1>2. worker' = [worker EXCEPT ![p] = [@ EXCEPT !.pc = place]]
  BY DEF Goto
<1>3. [worker[p] EXCEPT !.pc = place] \in Job
  BY <1>1 DEF Job
<1> QED BY <1>1, <1>2, <1>3 DEF JobType, Job

LEMMA FinishFacts ==
  ASSUME TypeOK, NEW p \in Workers, Finish(p)
  PROVE  /\ JobType
         /\ worker'[p] = NoJob
         /\ \A q \in Workers \ {p} : worker'[q] = worker[q]
  BY ConstantJobs DEF TypeOK, Finish, JobType

LEMMA AnchorFacts ==
  ASSUME TypeOK, NEW p \in Workers, NEW pass \in Pass, anchor' = [anchor EXCEPT ![p] = pass]
  PROVE  /\ AnchorType
         /\ anchor'[p] = pass
         /\ \A q \in Workers \ {p} : anchor'[q] = anchor[q]
  BY DEF TypeOK, AnchoredTypeOK, AnchorType

-----------------------------------------------------------------------------
(* What makes a claim survive *)

LEMMA ClaimsKept ==
  ASSUME NEW job, NEW before, NEW after, RowKept(before, after), Claims(job, before)
  PROVE  Claims(job, after)
  BY DEF RowKept, Claims, Outcomes

LEMMA WitnessKept ==
  ASSUME StoreKept, NEW w \in Reliable, NEW job, job.slot \in SlotIds, WitnessHonours(w, job)
  PROVE  store'[w] # NoRecord /\ Claims(job, store'[w].slots[job.slot])
  BY ClaimsKept DEF StoreKept, WitnessHonours

LEMMA ReleasedKept ==
  ASSUME TypeOK, ReleasedIsWitnessed, StoreKept, UNCHANGED <<labels, seeds>>
  PROVE  ReleasedIsWitnessed'
<1> SUFFICES ASSUME NEW w \in Reliable
    PROVE  /\ labels \cup seeds # {} => store'[w] # NoRecord
           /\ \A f \in labels : /\ store'[w].slots[f[1]].state # "available"
                                 /\ store'[w].slots[f[1]].binding = f[2]
           /\ \A f \in seeds : /\ store'[w].slots[f[1]].state = "success"
                                /\ store'[w].slots[f[1]].binding = f[2]
  BY DEF ReleasedIsWitnessed
<1>1. \A f \in labels \cup seeds : f[1] \in SlotIds
  BY DEF TypeOK
<1>2. \A f \in labels \cup seeds :
        store[w] # NoRecord /\ RowKept(store[w].slots[f[1]], store'[w].slots[f[1]])
  BY <1>1 DEF ReleasedIsWitnessed, StoreKept
<1>3. labels \cup seeds # {} => store'[w] # NoRecord
  BY DEF ReleasedIsWitnessed, StoreKept
<1>4. ASSUME NEW f \in labels
      PROVE  store'[w].slots[f[1]].state # "available" /\ store'[w].slots[f[1]].binding = f[2]
  BY <1>2 DEF ReleasedIsWitnessed, RowKept
<1>5. ASSUME NEW f \in seeds
      PROVE  store'[w].slots[f[1]].state = "success" /\ store'[w].slots[f[1]].binding = f[2]
  BY <1>2 DEF ReleasedIsWitnessed, RowKept, Outcomes
<1> QED BY <1>3, <1>4, <1>5

\* A worker that does not move keeps everything the invariant says of it.
LEMMA StillHonoured ==
  ASSUME Inv, LedgerKept, StoreKept, NEW q \in Workers,
         worker'[q] = worker[q], anchor'[q] = anchor[q]
  PROVE  PassOK(q)' /\ JobOK(q)' /\ Honoured(q)'
<1>1. PassOK(q)' /\ JobOK(q)'
  BY DEF Inv, PassOK, JobOK
<1>2. worker[q].slot \in SlotIds
  BY DEF Inv, TypeOK, Job
<1>3. worker[q].pc \in Serving => Claims(worker[q], slots'[worker[q].slot])
  BY <1>2, ClaimsKept DEF Inv, Honoured, LedgerKept
<1>4. ASSUME NEW w \in Reliable, WitnessHonours(w, worker[q])
      PROVE  WitnessHonours(w, worker[q])'
  BY <1>2, <1>4, WitnessKept DEF WitnessHonours
<1> QED BY <1>1, <1>3, <1>4 DEF Inv, Honoured

\* So a step of one worker has to be examined for that worker only.
LEMMA OneWorkerMoves ==
  ASSUME Inv, TypeOK', LedgerKept, StoreKept, StoreOK', ReleasedIsWitnessed',
         NEW p \in Workers, OthersStay(p), PassOK(p)', JobOK(p)', Honoured(p)'
  PROVE  Inv'
<1>1. \A q \in Workers \ {p} : PassOK(q)' /\ JobOK(q)' /\ Honoured(q)'
  BY StillHonoured DEF OthersStay
<1> QED BY <1>1 DEF Inv

\* The common case: the step touches the ledger, worker p and its pass, nothing else.
Elsewhere == <<store, disk, restores, chain, labels, seeds>>

LEMMA WorkerMoves ==
  ASSUME Inv, LedgerKept, JobType, AnchorType, UNCHANGED Elsewhere,
         NEW p \in Workers, OthersStay(p), PassOK(p)', JobOK(p)', Honoured(p)'
  PROVE  Inv'
<1>1. TypeOK'
  BY DEF Inv, TypeOK, AnchoredTypeOK, WitnessTypeOK, LedgerKept, JobType, AnchorType, Elsewhere
<1>2. StoreKept /\ StoreOK' /\ ReleasedIsWitnessed'
  BY UnchangedStoreKept DEF Elsewhere, Inv, StoreOK, ReleasedIsWitnessed
<1> QED BY <1>1, <1>2, OneWorkerMoves

LEMMA PassResetFacts ==
  ASSUME Inv, NEW p \in Workers, PassReset(p)
  PROVE  /\ AnchorType
         /\ PassOK(p)'
         /\ \A q \in Workers \ {p} : anchor'[q] = anchor[q]
<1>1. CASE UNCHANGED anchor
  BY <1>1 DEF Inv, TypeOK, AnchoredTypeOK, AnchorType, PassOK
<1>2. CASE anchor' = [anchor EXCEPT ![p] = Idle]
  <2>1. AnchorType /\ anchor'[p] = Idle /\ \A q \in Workers \ {p} : anchor'[q] = anchor[q]
    BY <1>2, ConstantPasses, AnchorFacts DEF Inv
  <2>2. PassOK(p)'
    BY <2>1 DEF PassOK, Idle
  <2> QED BY <2>1, <2>2
<1>3. CASE anchor' = [anchor EXCEPT ![p] = Started]
  <2>1. AnchorType /\ anchor'[p] = Started /\ \A q \in Workers \ {p} : anchor'[q] = anchor[q]
    BY <1>3, ConstantPasses, AnchorFacts DEF Inv
  <2>2. PassOK(p)'
    BY <2>1 DEF PassOK, Started, Idle
  <2> QED BY <2>1, <2>2
<1> QED BY <1>1, <1>2, <1>3 DEF PassReset

\* A worker that has no claim where it goes is honoured there.
LEMMA FreeGoto ==
  ASSUME Inv, LedgerKept, UNCHANGED Elsewhere, NEW p \in Workers, PassReset(p),
         NEW place \in Places \ (Carrying \cup Writing), Goto(p, place),
         place \in Serving => worker[p].pc \in Serving
  PROVE  Inv'
<1>1. /\ JobType /\ worker'[p].pc = place
      /\ worker'[p].slot = worker[p].slot /\ worker'[p].binding = worker[p].binding
      /\ \A q \in Workers \ {p} : worker'[q] = worker[q]
  BY GotoFacts DEF Inv
<1>2. worker[p].slot \in SlotIds /\ RowKept(slots[worker[p].slot], slots'[worker[p].slot])
  BY DEF Inv, TypeOK, Job, LedgerKept
<1>3. JobOK(p)'
  BY <1>1 DEF Inv, JobOK
<1>4. place \in Serving => Claims(worker[p], slots[worker[p].slot])
  BY DEF Inv, Honoured
<1>5. Honoured(p)'
  BY <1>1, <1>2, <1>4 DEF Honoured, Claims, RowKept, Carrying, Writing
<1> QED BY <1>1, <1>3, <1>5, PassResetFacts, WorkerMoves DEF OthersStay

LEMMA FreeFinish ==
  ASSUME Inv, LedgerKept, UNCHANGED Elsewhere, NEW p \in Workers, PassReset(p), Finish(p)
  PROVE  Inv'
<1>1. JobType /\ worker'[p].pc = "ready" /\ \A q \in Workers \ {p} : worker'[q] = worker[q]
  BY FinishFacts DEF Inv, NoJob
<1>2. JobOK(p)' /\ Honoured(p)'
  BY <1>1 DEF JobOK, Honoured, Serving, Carrying, Writing
<1> QED BY <1>1, <1>2, PassResetFacts, WorkerMoves DEF OthersStay

-----------------------------------------------------------------------------
(* Steps that leave the worker without a claim *)

LEMMA ConstructingInv == ASSUME Inv, NEW p \in Workers, Constructing(p) PROVE Inv'
<1> USE UnchangedKept DEF Inv, TypeOK, AnchoredTypeOK, Elsewhere, PassReset, Places, Serving, Carrying, Writing
<1>1. CASE Construct(p)
  BY <1>1, FreeGoto DEF Construct, AnchorAt
<1>2. CASE Constructed(p)
  BY <1>2, FreeGoto DEF Constructed, PassEnded
<1>3. CASE ConstructionFailed(p)
  BY <1>3, FreeGoto DEF ConstructionFailed, PassEnded
<1> QED BY <1>1, <1>2, <1>3 DEF Constructing

\* What the invariant says of a worker, as the step lemmas use it.
LEMMA AtPlace ==
  ASSUME Inv, NEW p \in Workers
  PROVE  /\ LedgerTypeOK
         /\ worker[p].slot \in SlotIds
         /\ worker[p].pc \in Serving =>
              /\ worker[p].binding \in Bindings
              /\ Claims(worker[p], slots[worker[p].slot])
  BY DEF Inv, TypeOK, AnchoredTypeOK, Job, JobOK, Honoured

LEMMA FreeStepsInv ==
  ASSUME Inv, NEW p \in Workers,
         \/ PrepareSeed(p) \/ PrepareSeedPoisoned(p) \/ RecordConfirmed(p)
         \/ ConfirmedAnchored(p) \/ ConfirmedNotAnchored(p)
         \/ RereadCore(p) \/ CoreDisagrees(p) \/ PhaseTwoRaises(p) \/ Abort(p)
  PROVE  Inv'
<1> DEFINE s == worker[p].slot
           b == worker[p].binding
<1>0. LedgerTypeOK /\ s \in SlotIds
        /\ (worker[p].pc \in Serving => b \in Bindings)
  BY AtPlace
<1> USE DEF Elsewhere, PassReset, Places, Serving, Carrying, Writing, At
<1>1. CASE PrepareSeed(p)
  <2>1. LedgerKept
    BY <1>0, <1>1, BeginExactKept DEF PrepareSeed
  <2>2. CASE Goto(p, "observe")
    BY <1>0, <1>1, <2>1, <2>2, FreeGoto DEF PrepareSeed
  <2>3. CASE Goto(p, "abort")
    BY <1>0, <1>1, <2>1, <2>3, FreeGoto DEF PrepareSeed
  <2> QED BY <1>1, <2>2, <2>3 DEF PrepareSeed
<1>2. CASE PrepareSeedPoisoned(p)
  <2>1. LedgerKept
    BY <1>0, <1>2, UnchangedKept DEF PrepareSeedPoisoned, BeginPoisoned, NoEvent
  <2> QED BY <1>0, <1>2, <2>1, FreeGoto DEF PrepareSeedPoisoned
<1>3. CASE RecordConfirmed(p)
  <2>1. LedgerKept
    BY <1>0, <1>3, ObserveKept DEF RecordConfirmed
  <2> QED BY <1>0, <1>3, <2>1, FreeGoto DEF RecordConfirmed, AnchorAt
<1>4. CASE ConfirmedAnchored(p)
  BY <1>0, <1>4, UnchangedKept, FreeGoto DEF ConfirmedAnchored, PassEnded
<1>5. CASE ConfirmedNotAnchored(p)
  BY <1>0, <1>5, UnchangedKept, FreeGoto DEF ConfirmedNotAnchored, PassEnded
<1>6. CASE RereadCore(p)
  BY <1>0, <1>6, UnchangedKept, FreeGoto DEF RereadCore
<1>7. CASE CoreDisagrees(p)
  <2>1. worker[p].pc \in {"read-core", "reread-core"}
    BY <1>7 DEF CoreDisagrees
  <2> QED BY <1>0, <1>7, <2>1, UnchangedKept, FreeGoto DEF CoreDisagrees
<1>8. CASE PhaseTwoRaises(p)
  BY <1>0, <1>8, UnchangedKept, FreeGoto DEF PhaseTwoRaises
<1>9. CASE Abort(p)
  <2>1. LedgerKept
    BY <1>0, <1>9, FinalizeBurnedKept, FinalizeRaisesKept DEF Abort, Outcomes
  <2> QED BY <1>0, <1>9, <2>1, FreeGoto DEF Abort, AnchorAt
<1> QED BY <1>1, <1>2, <1>3, <1>4, <1>5, <1>6, <1>7, <1>8, <1>9

\* The steps with which a call returns or raises without having published anything.
LEMMA FinishingStepsInv ==
  ASSUME Inv, NEW p \in Workers,
         \/ LabelsMalformed(p) \/ LabelsNotAnchored(p)
         \/ AbortRefused(p) \/ AbortAnchored(p)
         \/ SucceedRefused(p) \/ SuccessNotAnchored(p)
  PROVE  Inv'
<1> DEFINE s == worker[p].slot
<1>0. LedgerTypeOK /\ s \in SlotIds
  BY AtPlace
<1> USE DEF Elsewhere, PassReset
<1>1. CASE LabelsMalformed(p)
  <2>1. LedgerKept
    BY <1>0, <1>1, FinalizeBurnedKept, FinalizeRaisesKept DEF LabelsMalformed, Finalize, Outcomes
  <2> QED BY <1>1, <2>1, FreeFinish DEF LabelsMalformed
<1>2. CASE LabelsNotAnchored(p)
  BY <1>0, <1>2, UnchangedKept, FreeFinish DEF LabelsNotAnchored, PassEnded
<1>3. CASE AbortRefused(p)
  <2>1. LedgerKept
    BY <1>0, <1>3, FinalizeRaisesKept DEF AbortRefused, Outcomes
  <2> QED BY <1>3, <2>1, FreeFinish DEF AbortRefused
<1>4. CASE AbortAnchored(p)
  BY <1>0, <1>4, UnchangedKept, FreeFinish DEF AbortAnchored, PassEnded
<1>5. CASE SucceedRefused(p)
  <2>1. LedgerKept
    BY <1>0, <1>5, FinalizeRaisesKept DEF SucceedRefused, Outcomes
  <2> QED BY <1>5, <2>1, FreeFinish DEF SucceedRefused
<1>6. CASE SuccessNotAnchored(p)
  BY <1>0, <1>6, UnchangedKept, FreeFinish DEF SuccessNotAnchored, PassEnded
<1> QED BY <1>1, <1>2, <1>3, <1>4, <1>5, <1>6

-----------------------------------------------------------------------------
(* Steps that take up a request, make a claim, or carry it on *)

\* Taking up a request: the job is written in one piece.
LEMMA JobFacts ==
  ASSUME TypeOK, NEW p \in Workers, NEW job \in Job, worker' = [worker EXCEPT ![p] = job]
  PROVE  /\ JobType
         /\ worker'[p] = job
         /\ \A q \in Workers \ {p} : worker'[q] = worker[q]
  BY DEF TypeOK, JobType

LEMMA RequestLabelsInv ==
  ASSUME Inv, NEW p \in Workers, NEW s \in SlotIds, NEW b \in Bindings, RequestLabels(p, s, b)
  PROVE  Inv'
<1> DEFINE job == [NoJob EXCEPT !.pc = "build-labels", !.slot = s, !.binding = b]
<1>1. job \in Job /\ job.pc = "build-labels" /\ job.slot = s /\ job.binding = b
  BY DEF NoJob, Job, Places
<1>2. JobType /\ worker'[p] = job /\ \A q \in Workers \ {p} : worker'[q] = worker[q]
  BY <1>1, JobFacts DEF RequestLabels, Inv
<1>3. LedgerKept /\ slots'[s].state # "available" /\ slots'[s].binding = b
  <2>0. LedgerTypeOK
    BY AtPlace
  <2>1. CASE BeginBurn(s, b)
    BY <2>0, <2>1, BeginBurnKept
  <2>2. CASE BeginExact(s, b) /\ slots[s].state \in {"burned", "success"}
    BY <2>0, <2>2, BeginExactKept DEF BeginExact
  <2> QED BY <2>1, <2>2 DEF RequestLabels
<1>4. JobOK(p)' /\ Honoured(p)'
  BY <1>1, <1>2, <1>3 DEF JobOK, Honoured, Claims, Serving, Carrying, Writing
<1>5. AnchorType /\ PassOK(p)' /\ \A q \in Workers \ {p} : anchor'[q] = anchor[q]
  BY PassResetFacts DEF PassReset, RequestLabels
<1> QED BY <1>2, <1>3, <1>4, <1>5, WorkerMoves DEF OthersStay, RequestLabels, Elsewhere

LEMMA RequestLabelsRefusedInv ==
  ASSUME Inv, NEW p \in Workers, NEW s \in SlotIds, NEW b \in Bindings,
         RequestLabelsRefused(p, s, b)
  PROVE  Inv'
<1>1. LedgerKept
  BY AtPlace, BeginExactKept, BeginConflictKept, UnchangedKept
  DEF RequestLabelsRefused, BeginPoisoned, NoEvent
<1>2. JobType /\ AnchorType
  BY DEF Inv, TypeOK, AnchoredTypeOK, JobType, AnchorType, RequestLabelsRefused
<1>3. PassOK(p)' /\ JobOK(p)' /\ Honoured(p)'
  BY <1>1, UnchangedStoreKept, StillHonoured DEF RequestLabelsRefused
<1> QED BY <1>1, <1>2, <1>3, WorkerMoves DEF OthersStay, RequestLabelsRefused, Elsewhere

LEMMA RequestSeedInv ==
  ASSUME Inv, NEW p \in Workers, NEW s \in SlotIds, NEW b \in Bindings, RequestSeed(p, s, b)
  PROVE  Inv'
<1> DEFINE job == [NoJob EXCEPT !.pc = "read-core", !.slot = s, !.binding = b]
<1>1. job \in Job /\ job.pc = "read-core" /\ job.slot = s /\ job.binding = b
  BY DEF NoJob, Job, Places
<1>2. JobType /\ worker'[p] = job /\ \A q \in Workers \ {p} : worker'[q] = worker[q]
  BY <1>1, JobFacts DEF RequestSeed, Inv
<1>3. LedgerKept
  BY UnchangedKept, AtPlace DEF RequestSeed
<1>4. JobOK(p)' /\ Honoured(p)'
  BY <1>1, <1>2 DEF JobOK, Honoured, Claims, Carrying, Writing, RequestSeed, ledgerVars
<1>5. AnchorType /\ PassOK(p)' /\ \A q \in Workers \ {p} : anchor'[q] = anchor[q]
  BY PassResetFacts DEF PassReset, RequestSeed
<1> QED BY <1>2, <1>3, <1>4, <1>5, WorkerMoves DEF OthersStay, RequestSeed, Elsewhere

LEMMA ReadCoreInv ==
  ASSUME Inv, NEW p \in Workers, NEW k \in Blocks, ReadCore(p, k)
  PROVE  Inv'
<1> DEFINE job == [worker[p] EXCEPT !.pc = "prepare-seed", !.block = k]
<1>1. /\ worker[p] \in Job /\ worker[p].pc = "read-core" /\ worker[p].binding \in Bindings
      /\ Claims(worker[p], slots[worker[p].slot])
  BY AtPlace DEF Inv, TypeOK, ReadCore, At, Serving, Places
<1>2. /\ job \in Job /\ job.pc = "prepare-seed"
      /\ job.slot = worker[p].slot /\ job.binding = worker[p].binding
  BY <1>1 DEF Job, Places
<1>3. worker' = [worker EXCEPT ![p] = job]
  BY DEF ReadCore
<1>4. JobType /\ worker'[p] = job /\ \A q \in Workers \ {p} : worker'[q] = worker[q]
  BY <1>2, <1>3, JobFacts DEF Inv
<1>5. LedgerKept
  BY UnchangedKept, AtPlace DEF ReadCore
<1>6. JobOK(p)' /\ Honoured(p)'
  BY <1>1, <1>2, <1>4 DEF JobOK, Honoured, Claims, Carrying, Writing, ReadCore, ledgerVars
<1>7. AnchorType /\ PassOK(p)' /\ \A q \in Workers \ {p} : anchor'[q] = anchor[q]
  BY PassResetFacts DEF PassReset, ReadCore
<1> QED BY <1>4, <1>5, <1>6, <1>7, WorkerMoves DEF OthersStay, ReadCore, Elsewhere

\* The labels are built: the claim goes on its way to the witnesses.
LEMMA LabelsBuiltInv ==
  ASSUME Inv, NEW p \in Workers, LabelsBuilt(p)
  PROVE  Inv'
<1>1. /\ JobType /\ worker'[p].pc = "anchor-labels" /\ worker'[p].slot = worker[p].slot
      /\ worker'[p].binding = worker[p].binding
      /\ \A q \in Workers \ {p} : worker'[q] = worker[q]
  BY GotoFacts DEF LabelsBuilt, AnchorAt, Inv, Places
<1>2. AnchorType /\ anchor'[p] = Started /\ \A q \in Workers \ {p} : anchor'[q] = anchor[q]
  BY ConstantPasses, AnchorFacts DEF LabelsBuilt, AnchorAt, Inv
<1>3. /\ worker[p].pc = "build-labels" /\ worker[p].slot \in SlotIds
      /\ worker[p].binding \in Bindings /\ LedgerTypeOK
  BY AtPlace DEF LabelsBuilt, At, Serving, Places
<1>4. Claims(worker[p], slots[worker[p].slot])
  BY <1>3, AtPlace DEF Serving, Places
<1>5. PassOK(p)' /\ JobOK(p)'
  BY <1>1, <1>2, <1>3 DEF PassOK, JobOK, Started, Idle
<1>6. Honoured(p)'
  BY <1>1, <1>2, <1>3, <1>4
  DEF Honoured, Claims, Carrying, Writing, Started, Idle, SlotIds, LabelsBuilt, ledgerVars
<1>7. LedgerKept
  BY <1>3, UnchangedKept DEF LabelsBuilt
<1> QED BY <1>1, <1>2, <1>5, <1>6, <1>7, WorkerMoves DEF OthersStay, LabelsBuilt, Elsewhere

\* The slot ended as success: the same for the seed.
LEMMA SucceedInv ==
  ASSUME Inv, NEW p \in Workers, Succeed(p)
  PROVE  Inv'
<1>1. /\ JobType /\ worker'[p].pc = "anchor-success" /\ worker'[p].slot = worker[p].slot
      /\ worker'[p].binding = worker[p].binding
      /\ \A q \in Workers \ {p} : worker'[q] = worker[q]
  BY GotoFacts DEF Succeed, AnchorAt, Inv, Places
<1>2. AnchorType /\ anchor'[p] = Started /\ \A q \in Workers \ {p} : anchor'[q] = anchor[q]
  BY ConstantPasses, AnchorFacts DEF Succeed, AnchorAt, Inv
<1>3. /\ worker[p].pc = "succeed" /\ worker[p].slot \in SlotIds
      /\ worker[p].binding \in Bindings /\ LedgerTypeOK
      /\ Claims(worker[p], slots[worker[p].slot])
  BY AtPlace DEF Succeed, At, Serving, Places
<1>4. LedgerKept /\ slots'[worker[p].slot].state = "success"
  BY <1>3, FinalizeBurnedKept, FinalizeRaisesKept
  DEF Succeed, Outcomes, FinalizeAgain, NoEvent, ledgerVars
<1>5. RowKept(slots[worker[p].slot], slots'[worker[p].slot])
  BY <1>3, <1>4 DEF LedgerKept
<1>6. PassOK(p)' /\ JobOK(p)'
  BY <1>1, <1>2, <1>3 DEF PassOK, JobOK, Started, Idle
<1>7. Honoured(p)'
  BY <1>1, <1>2, <1>3, <1>4, <1>5
  DEF Honoured, Claims, RowKept, Carrying, Writing, Started, Idle, SlotIds
<1> QED BY <1>1, <1>2, <1>4, <1>6, <1>7, WorkerMoves DEF OthersStay, Succeed, Elsewhere

\* The pass is over: every reliable witness honours the claim, the file may be written.
LEMMA AnchoredInv ==
  ASSUME Inv, NEW p \in Workers, LabelsAnchored(p) \/ SuccessAnchored(p)
  PROVE  Inv'
<1> DEFINE place == IF worker[p].pc = "anchor-labels" THEN "write-labels" ELSE "write-seed"
<1>1. /\ worker[p].pc \in Carrying /\ anchor[p].at = "done" /\ Goto(p, place)
      /\ anchor' = [anchor EXCEPT ![p] = Idle]
      /\ UNCHANGED <<ledgerVars, Elsewhere>>
      /\ worker[p].pc = "anchor-success" => place = "write-seed"
      /\ worker[p].pc = "anchor-labels" => place = "write-labels"
      /\ place \in Writing
  BY DEF LabelsAnchored, SuccessAnchored, PassEnded, At, Carrying, Writing, Elsewhere
<1> HIDE DEF place
<1>2. /\ JobType /\ worker'[p].pc = place /\ worker'[p].slot = worker[p].slot
      /\ worker'[p].binding = worker[p].binding
      /\ \A q \in Workers \ {p} : worker'[q] = worker[q]
  BY <1>1, GotoFacts DEF Inv, Places, Writing
<1>3. AnchorType /\ PassOK(p)' /\ \A q \in Workers \ {p} : anchor'[q] = anchor[q]
  BY <1>1, PassResetFacts DEF PassReset
<1>4. LedgerKept
  BY <1>1, UnchangedKept, AtPlace
<1>5. /\ worker[p].binding \in Bindings
      /\ Claims(worker[p], slots[worker[p].slot])
  BY <1>1, AtPlace DEF Carrying, Serving, Places
<1>6. \A w \in Reliable : WitnessHonours(w, worker[p])
  BY <1>1 DEF Inv, Honoured, PassOK
<1>7. JobOK(p)'
  BY <1>2, <1>5 DEF JobOK
<1>8. ASSUME NEW row, Claims(worker[p], row) PROVE Claims(worker'[p], row)
  BY <1>1, <1>2, <1>8 DEF Claims, Carrying, Writing
<1>9. Honoured(p)'
  BY <1>1, <1>2, <1>5, <1>6, <1>8
  DEF Honoured, WitnessHonours, Carrying, Writing, Elsewhere, ledgerVars
<1> QED BY <1>1, <1>2, <1>3, <1>4, <1>7, <1>9, WorkerMoves DEF OthersStay

\* A file becomes visible that every reliable witness honours.
LEMMA WriteInv ==
  ASSUME Inv, NEW p \in Workers, WriteLabels(p) \/ WriteSeed(p)
  PROVE  Inv'
<1> DEFINE file == <<worker[p].slot, worker[p].binding>>
<1>1. /\ worker[p].slot \in SlotIds /\ worker[p].binding \in Bindings /\ worker[p].pc \in Writing
      /\ LedgerTypeOK
  BY AtPlace DEF WriteLabels, WriteSeed, At, Writing, Serving, Places
<1>2. \A w \in Reliable : WitnessHonours(w, worker[p])
  BY <1>1 DEF Inv, Honoured
<1>3. /\ JobType /\ worker'[p].pc = "ready" /\ \A q \in Workers \ {p} : worker'[q] = worker[q]
  BY FinishFacts DEF Inv, NoJob, WriteLabels, WriteSeed
<1>4. /\ UNCHANGED <<ledgerVars, store, anchor, disk, restores, chain>>
      /\ \/ labels' = labels \cup {file} /\ seeds' = seeds
         \/ seeds' = seeds \cup {file} /\ labels' = labels /\ worker[p].pc = "write-seed"
  BY DEF WriteLabels, WriteSeed, At
<1>5. LedgerKept /\ StoreKept /\ StoreOK'
  BY <1>1, <1>4, UnchangedKept, UnchangedStoreKept DEF Inv, StoreOK
<1>6. TypeOK'
  BY <1>1, <1>3, <1>4, <1>5
  DEF Inv, TypeOK, AnchoredTypeOK, LedgerKept, WitnessTypeOK, JobType
<1>7. PassOK(p)' /\ JobOK(p)' /\ Honoured(p)'
  BY <1>3, <1>4 DEF Inv, PassOK, JobOK, Honoured, Serving, Carrying, Writing
<1>8. ReleasedIsWitnessed'
  <2> SUFFICES ASSUME NEW w \in Reliable
      PROVE  /\ store[w] # NoRecord
             /\ \A f \in labels' : /\ store[w].slots[f[1]].state # "available"
                                    /\ store[w].slots[f[1]].binding = f[2]
             /\ \A f \in seeds' : /\ store[w].slots[f[1]].state = "success"
                                   /\ store[w].slots[f[1]].binding = f[2]
    BY <1>4 DEF ReleasedIsWitnessed
  <2>1. /\ store[w] # NoRecord
        /\ store[w].slots[file[1]].state # "available"
        /\ store[w].slots[file[1]].binding = file[2]
        /\ worker[p].pc = "write-seed" => store[w].slots[file[1]].state = "success"
    BY <1>2 DEF WitnessHonours, Claims
  <2>2. \A f \in labels : /\ store[w].slots[f[1]].state # "available"
                          /\ store[w].slots[f[1]].binding = f[2]
    BY DEF Inv, ReleasedIsWitnessed
  <2>3. \A f \in seeds : /\ store[w].slots[f[1]].state = "success"
                         /\ store[w].slots[f[1]].binding = f[2]
    BY DEF Inv, ReleasedIsWitnessed
  <2> HIDE DEF file
  <2> QED BY <1>4, <2>1, <2>2, <2>3
<1> QED BY <1>3, <1>4, <1>5, <1>6, <1>7, <1>8, OneWorkerMoves DEF OthersStay

-----------------------------------------------------------------------------
(* The steps of an anchoring pass *)

\* A claim in the words of AnchoredLedgerProofs.
LevelOf(job) == IF job.pc \in {"anchor-success", "write-seed"} THEN "success" ELSE "burned"

LEMMA ClaimSays ==
  /\ \A job, row : Claims(job, row) <=> Says(row, job.binding, LevelOf(job))
  /\ \A w, job : WitnessHonours(w, job) <=> Backed(w, job.slot, job.binding, LevelOf(job))
  BY DEF Claims, Says, LevelOf, WitnessHonours, Backed

LEMMA InvAnchoredOK == ASSUME Inv PROVE AnchoredOK
  BY DEF Inv, TypeOK, AnchoredOK

\* A pass carries the claim on.
LEMMA PassInv ==
  ASSUME Inv, NEW p \in Workers, WorkerPass(p) \/ WitnessTrouble(p)
  PROVE  Inv'
<1>j. PICK job : job = worker[p]
  OBVIOUS
<1>1. PassKept(p) /\ UNCHANGED sidecarVars
  BY InvAnchoredOK, PassKeeps DEF WorkerPass, WitnessTrouble
<1>2. /\ job.slot \in SlotIds /\ LedgerTypeOK /\ UNCHANGED worker
      /\ UNCHANGED <<ledgerVars, labels, seeds>>
  BY <1>1, <1>j, AtPlace DEF PassKept, sidecarVars
<1>3. LedgerKept /\ StoreKept /\ StoreOK' /\ TypeOK' /\ ReleasedIsWitnessed'
  BY <1>1, <1>2, UnchangedKept, ReleasedKept DEF Inv, TypeOK, PassKept, AnchoredOK, sidecarVars
<1>4. PassOK(p)' /\ JobOK(p)'
  BY <1>1, <1>2 DEF Inv, JobOK, PassKept, AnchoredOK
<1>5. ASSUME job.pc \in Carrying
      PROVE  /\ anchor'[p].read > job.slot => Claims(job, anchor'[p].cp.slots[job.slot])
             /\ anchor'[p].at \in {"send", "done"} =>
                  \A w \in Reliable \ anchor'[p].todo :
                    store'[w] # NoRecord /\ Claims(job, store'[w].slots[job.slot])
  <2>1. Says(slots[job.slot], job.binding, LevelOf(job))
    BY <1>5, <1>j, ClaimSays DEF Inv, Honoured, Carrying, Serving, Places
  <2>2. Carried(p, job.slot, job.binding, LevelOf(job))
    BY <1>5, <1>j, ClaimSays DEF Inv, Honoured, Carried
  <2> QED BY <1>1, <1>2, <2>1, <2>2, ClaimSays DEF PassKept, CarriesOn
<1>6. job.pc \in Writing =>
        \A w \in Reliable : store'[w] # NoRecord /\ Claims(job, store'[w].slots[job.slot])
  BY <1>2, <1>3, <1>j, WitnessKept DEF Inv, Honoured
<1>7. Honoured(p)'
  BY <1>2, <1>5, <1>6, <1>j DEF Inv, Honoured, WitnessHonours, ledgerVars
<1> QED BY <1>1, <1>2, <1>3, <1>4, <1>7, OneWorkerMoves DEF OthersStay, PassKept, OtherPassesStay

-----------------------------------------------------------------------------
(* The rest of the world *)

LEMMA CrashInv == ASSUME Inv, NEW p \in Workers, Crash(p) PROVE Inv'
<1>1. JobType /\ worker'[p] = Down /\ \A q \in Workers \ {p} : worker'[q] = worker[q]
  BY ConstantJobs, JobFacts DEF Crash, Inv
<1>2. AnchorType /\ PassOK(p)' /\ \A q \in Workers \ {p} : anchor'[q] = anchor[q]
  BY PassResetFacts DEF Crash, PassReset
<1>3. JobOK(p)' /\ Honoured(p)'
  BY <1>1 DEF Down, NoJob, JobOK, Honoured, Serving, Carrying, Writing
<1>4. LedgerKept
  BY UnchangedKept, AtPlace DEF Crash
<1> QED BY <1>1, <1>2, <1>3, <1>4, WorkerMoves DEF Crash, OthersStay, Elsewhere

\* Core and the backup see nothing of a claim.
LEMMA OutsideInv == ASSUME Inv, ChainStep \/ Snapshot PROVE Inv'
<1>1. /\ UNCHANGED <<ledgerVars, store, anchor, restores, worker, labels, seeds>>
      /\ disk' \in Disk
      /\ chain' \in [SlotIds -> (Bindings \X Blocks) \cup {NoTx}]
  <2>1. CASE Snapshot
    <3>1. CurrentDisk \in Disk
      BY RestorableAssumption
      DEF CurrentDisk, Disk, Inv, TypeOK, AnchoredTypeOK, LedgerTypeOK, WitnessTypeOK
    <3> QED BY <2>1, <3>1 DEF Snapshot, TakeSnapshot, sidecarVars, Inv, TypeOK
  <2>2. CASE ChainStep
    <3>1. ASSUME NEW s \in SlotIds, NEW b \in Bindings, NEW k \in Blocks, Mine(s, b, k)
          PROVE  chain' \in [SlotIds -> (Bindings \X Blocks) \cup {NoTx}]
      BY <3>1 DEF Mine, Inv, TypeOK
    <3>2. ASSUME NEW s \in SlotIds, Reorganise(s)
          PROVE  chain' \in [SlotIds -> (Bindings \X Blocks) \cup {NoTx}]
      BY <3>2 DEF Reorganise, Inv, TypeOK
    <3>3. UNCHANGED <<anchoredVars, worker, labels, seeds>>
      BY <2>2 DEF ChainStep, Mine, Reorganise
    <3> QED BY <2>2, <3>1, <3>2, <3>3 DEF ChainStep, anchoredVars, Inv, TypeOK, AnchoredTypeOK
  <2> QED BY <2>1, <2>2
<1>2. TypeOK'
  BY <1>1 DEF Inv, TypeOK, AnchoredTypeOK, LedgerTypeOK, WitnessTypeOK, ledgerVars
<1>3. \A p \in Workers : PassOK(p)' /\ JobOK(p)' /\ Honoured(p)'
  BY <1>1 DEF Inv, PassOK, JobOK, Honoured, WitnessHonours, ledgerVars
<1>4. StoreOK' /\ ReleasedIsWitnessed'
  BY <1>1 DEF Inv, StoreOK, ReleasedIsWitnessed
<1> QED BY <1>2, <1>3, <1>4 DEF Inv

\* The disk goes back, the reliable witnesses do not, and no worker survives.
LEMMA RestoreInv == ASSUME Inv, RestoreDisk PROVE Inv'
<1>1. disk \in Disk /\ restores \in 0 .. MaxRestores /\ restores < MaxRestores /\ now \in Nat
      /\ store \in [Witnesses -> Checkpoint \cup {NoRecord}]
  BY DEF Inv, TypeOK, AnchoredTypeOK, LedgerTypeOK, WitnessTypeOK, RestoreDisk, Restore
<1>2. LedgerTypeOK'
  BY <1>1 DEF RestoreDisk, Restore, Disk, LedgerTypeOK
<1>3. WitnessTypeOK' /\ \A w \in Reliable : store'[w] = store[w]
  BY <1>1, RestorableAssumption DEF RestoreDisk, Restore, Disk, WitnessTypeOK, Reliable
<1>4. \A p \in Workers : worker'[p] = Down /\ anchor'[p] = Idle
  BY DEF RestoreDisk, Restore
<1>5. TypeOK'
  BY <1>1, <1>2, <1>3, ConstantPasses, ConstantJobs, MaxRestoresAssumption
  DEF RestoreDisk, Restore, Inv, TypeOK, AnchoredTypeOK
<1>6. \A p \in Workers : PassOK(p)' /\ JobOK(p)' /\ Honoured(p)'
  BY <1>4 DEF PassOK, JobOK, Honoured, Idle, Down, NoJob, Serving, Carrying, Writing
<1>7. StoreOK' /\ ReleasedIsWitnessed'
  BY <1>3 DEF Inv, StoreOK, ReleasedIsWitnessed, RestoreDisk
<1> QED BY <1>5, <1>6, <1>7 DEF Inv

-----------------------------------------------------------------------------
LEMMA InitInv == Init => Inv
<1> SUFFICES ASSUME Init PROVE Inv
  OBVIOUS
<1>1. LedgerTypeOK /\ WitnessTypeOK
  BY DEF Init, AnchoredInit, LedgerInit, WitnessInit, LedgerTypeOK, WitnessTypeOK, FreshRow,
         SlotRow, States, ZeroHash, EventHash, Hash
<1>2. disk \in Disk
  BY <1>1, RestorableAssumption
  DEF Init, AnchoredInit, CurrentDisk, Disk, LedgerTypeOK, WitnessTypeOK
<1>3. TypeOK
  BY <1>1, <1>2, ConstantPasses, ConstantJobs, MaxRestoresAssumption
  DEF Init, AnchoredInit, TypeOK, AnchoredTypeOK
<1>4. \A p \in Workers : PassOK(p) /\ JobOK(p) /\ Honoured(p)
  BY DEF Init, AnchoredInit, PassOK, JobOK, Honoured, Idle, Down, NoJob, Serving, Carrying, Writing
<1>5. Reliable \subseteq Witnesses
  BY DEF Reliable
<1>6. StoreOK /\ ReleasedIsWitnessed
  BY <1>5 DEF Init, AnchoredInit, WitnessInit, StoreOK, ReleasedIsWitnessed
<1> QED BY <1>3, <1>4, <1>6 DEF Inv

LEMMA StepInv == Inv /\ [Next]_vars => Inv'
<1> SUFFICES ASSUME Inv, [Next]_vars PROVE Inv'
  OBVIOUS
<1>1. ASSUME NEW p \in Workers, WorkerStep(p) PROVE Inv'
  <2>1. CASE Constructing(p)
    BY <2>1, ConstructingInv
  <2>2. CASE PhaseOne(p)
    BY <2>2, RequestLabelsInv, RequestLabelsRefusedInv, LabelsBuiltInv, AnchoredInv,
       FinishingStepsInv, WriteInv DEF PhaseOne
  <2>3. CASE PhaseTwo(p)
    BY <2>3, RequestSeedInv, ReadCoreInv, FreeStepsInv, FinishingStepsInv, SucceedInv,
       AnchoredInv, WriteInv DEF PhaseTwo
  <2>4. CASE WorkerPass(p)
    BY <2>4, PassInv
  <2> QED BY <1>1, <2>1, <2>2, <2>3, <2>4 DEF WorkerStep
<1>2. ASSUME NEW p \in Workers, WorkerFault(p) PROVE Inv'
  BY <1>2, FinishingStepsInv, FreeStepsInv, PassInv, CrashInv DEF WorkerFault
<1>3. CASE UNCHANGED vars
  BY <1>3 DEF Inv, TypeOK, AnchoredTypeOK, LedgerTypeOK, WitnessTypeOK, PassOK, JobOK, Honoured,
              WitnessHonours, StoreOK, ReleasedIsWitnessed,
              vars, anchoredVars, ledgerVars, sidecarVars
<1> QED BY <1>1, <1>2, <1>3, OutsideInv, RestoreInv DEF Next

(***************************************************************************)
(* The sidecar's state is well formed, and a worker about to publish is    *)
(* honoured by every witness outside the rollback domain: however workers, *)
(* crashes, lost messages and restored disks interleave.                   *)
(***************************************************************************)
THEOREM ClaimsAreHonoured == Spec => []Inv
  BY InitInv, StepInv, PTL DEF Spec

(***************************************************************************)
(* In particular every step leaves a well-typed state: no pass reads past  *)
(* the last slot and no counter leaves its range.                          *)
(***************************************************************************)
THEOREM SidecarTypeCorrect == Spec => []TypeOK
  BY ClaimsAreHonoured, PTL DEF Inv

(***************************************************************************)
(* Nothing is visible that the reliable witnesses do not back: labels need *)
(* a witnessed burn for that request, a seed a witnessed success.          *)
(***************************************************************************)
THEOREM ReleaseFollowsWitnesses == Spec => []ReleasedIsWitnessed
  BY ClaimsAreHonoured, PTL DEF Inv

(***************************************************************************)
(* One request per slot ever gets material out of the participant, for any *)
(* number of workers, requests, crashes and restored snapshots.            *)
(***************************************************************************)
THEOREM OneBindingPerSlot == Spec => []OneBindingReleased
<1>1. Reliable # {}
  BY RestorableAssumption, ReliableAssumption DEF Reliable
<1>2. ReleasedIsWitnessed => OneBindingReleased
  BY <1>1 DEF ReleasedIsWitnessed, OneBindingReleased
<1> QED BY <1>2, ReleaseFollowsWitnesses, PTL

-----------------------------------------------------------------------------
(* The files and the witnesses implement the one-shot release *)

\* A step writes a file that the claim of its worker backs.
WritesLabels(p) ==
  /\ worker[p].pc = "write-labels"
  /\ labels' = labels \cup {<<worker[p].slot, worker[p].binding>>}
  /\ UNCHANGED <<store, seeds, ledgerVars>>

WritesSeed(p) ==
  /\ worker[p].pc = "write-seed"
  /\ seeds' = seeds \cup {<<worker[p].slot, worker[p].binding>>}
  /\ UNCHANGED <<store, labels, ledgerVars>>

\* A step of a pass offers a checkpoint to a witness.
OffersCheckpoint(p, v) ==
  /\ anchor[p].at = "send"
  /\ Anchor(v, anchor[p].cp)
  /\ UNCHANGED <<labels, seeds>>

\* Any other step leaves the files and the reliable witnesses alone.
NothingVisible ==
  /\ UNCHANGED <<labels, seeds>>
  /\ \A w \in Reliable : store'[w] = store[w]

VisibleStep ==
  \/ \E p \in Workers : WritesLabels(p) \/ WritesSeed(p)
  \/ \E p \in Workers, v \in Witnesses : OffersCheckpoint(p, v)
  \/ NothingVisible

LEMMA VisibleSteps == ASSUME [Next]_vars PROVE VisibleStep
<1>1. ASSUME NEW p \in Workers, WorkerStep(p) \/ WorkerFault(p) PROVE VisibleStep
  <2>1. CASE WorkerPass(p) \/ WitnessTrouble(p)
    BY <2>1
    DEF WorkerPass, WitnessTrouble, PassProgress, PassFault, ReadEvents, ReadRow, Accepted,
        ReplyLost, Refused, Unreachable, sidecarVars, VisibleStep, OffersCheckpoint, NothingVisible
  <2>2. CASE Constructing(p)
    BY <2>2 DEF Constructing, Construct, Constructed, ConstructionFailed, VisibleStep,
                NothingVisible
  <2>3. CASE WriteLabels(p) \/ WriteSeed(p)
    BY <2>3 DEF WriteLabels, WriteSeed, At, VisibleStep, WritesLabels, WritesSeed
  <2>4. CASE PhaseOne(p) /\ ~ WriteLabels(p)
    BY <2>4 DEF PhaseOne, RequestLabels, RequestLabelsRefused, LabelsBuilt, LabelsAnchored,
                LabelsNotAnchored, VisibleStep, NothingVisible
  <2>5. CASE PhaseTwo(p) /\ ~ WriteSeed(p)
    BY <2>5 DEF PhaseTwo, RequestSeed, ReadCore, PrepareSeed, PrepareSeedPoisoned,
                RecordConfirmed, ConfirmedAnchored, ConfirmedNotAnchored, RereadCore,
                CoreDisagrees, Abort, AbortRefused, AbortAnchored, Succeed, SucceedRefused,
                SuccessAnchored, SuccessNotAnchored, VisibleStep, NothingVisible
  <2>6. CASE LabelsMalformed(p) \/ PhaseTwoRaises(p) \/ Crash(p)
    BY <2>6 DEF LabelsMalformed, PhaseTwoRaises, Crash, VisibleStep, NothingVisible
  <2> QED BY <1>1, <2>1, <2>2, <2>3, <2>4, <2>5, <2>6 DEF WorkerStep, WorkerFault
<1>2. CASE ChainStep \/ Snapshot
  BY <1>2 DEF ChainStep, Mine, Reorganise, Snapshot, TakeSnapshot, anchoredVars, sidecarVars,
              VisibleStep, NothingVisible
<1>3. CASE RestoreDisk
  BY <1>3 DEF RestoreDisk, Restore, VisibleStep, NothingVisible, Reliable
<1>4. CASE UNCHANGED vars
  BY <1>4 DEF vars, anchoredVars, sidecarVars, VisibleStep, NothingVisible
<1> QED BY <1>1, <1>2, <1>3, <1>4 DEF Next

(***************************************************************************)
(* A seed file comes out only while the live ledger has the slot completed *)
(* for that request: no other worker can have poisoned or aborted it       *)
(* between finalize and the write.                                         *)
(***************************************************************************)
THEOREM SeedsFollowSuccess == Spec => SeedOnlyAfterSuccess
<1>1. ASSUME Inv, [Next]_vars, NEW f \in seeds' \ seeds
      PROVE  slots[f[1]].state = "success" /\ slots[f[1]].binding = f[2]
  <2>1. PICK p \in Workers : WritesSeed(p)
    BY <1>1, VisibleSteps DEF VisibleStep, WritesLabels, OffersCheckpoint, NothingVisible
  <2>2. f[1] = worker[p].slot /\ f[2] = worker[p].binding
    BY <1>1, <2>1 DEF WritesSeed
  <2>3. Claims(worker[p], slots[worker[p].slot])
    BY <1>1, <2>1 DEF Inv, Honoured, WritesSeed, Serving, Places
  <2> QED BY <2>1, <2>2, <2>3 DEF Claims, WritesSeed
<1>2. Inv /\ [Next]_vars =>
        [\A f \in seeds' \ seeds : slots[f[1]].state = "success" /\ slots[f[1]].binding = f[2]]_vars
  BY <1>1
<1> QED BY <1>2, ClaimsAreHonoured, PTL DEF Spec, SeedOnlyAfterSuccess

LEMMA TrustedFacts == TrustedWitness \in Reliable /\ TrustedWitness \in Witnesses
<1>1. Reliable # {}
  BY RestorableAssumption, ReliableAssumption DEF Reliable
<1> QED BY <1>1 DEF TrustedWitness, Reliable

\* The vocabulary of the abstract specification is that of the detailed one.
LEMMA SameVocabulary ==
  /\ Release!SlotIds = SlotIds
  /\ Release!Outcomes = Outcomes
  /\ Release!SlotRow = SlotRow
  /\ Release!FreshRow = FreshRow
  BY DEF Release!SlotIds, Release!Outcomes, Release!SlotRow, Release!States, Release!FreshRow,
         SlotIds, Outcomes, SlotRow, States, FreshRow

LEMMA SameStoreRows ==
  ASSUME store'[TrustedWitness] = store[TrustedWitness]
  PROVE  WitnessedRows' = WitnessedRows
  BY DEF WitnessedRows, TrustedWitness, Reliable

LEMMA TrustedRows ==
  WitnessedRows = RowsAt(TrustedWitness) /\ WitnessedRows' = RowsAt(TrustedWitness)'
  BY DEF WitnessedRows, RowsAt, TrustedWitness, Reliable

\* A checkpoint the trusted witness takes is a move of the slots.
LEMMA OfferRefines ==
  ASSUME Inv, NEW p \in Workers, NEW v \in Witnesses, OffersCheckpoint(p, v),
         store'[TrustedWitness] # store[TrustedWitness]
  PROVE  Release!SlotsMove
<1>1. PICK w \in Reliable : w = TrustedWitness
  BY TrustedFacts
<1>2. v = w
  BY <1>1, TrustedFacts DEF OffersCheckpoint, Anchor, Inv, TypeOK, AnchoredTypeOK, WitnessTypeOK
<1>3. /\ RowsAt(w)' \in [SlotIds -> SlotRow]
      /\ \A s \in SlotIds : RowMove(RowsAt(w)[s], RowsAt(w)'[s])
  BY <1>2, InvAnchoredOK, OfferMoves DEF OffersCheckpoint
<1>4. WitnessedRows = RowsAt(w) /\ WitnessedRows' = RowsAt(w)'
  BY <1>1, TrustedRows DEF WitnessedRows, RowsAt, TrustedWitness, Reliable
<1>5. \A before, after : RowMove(before, after) =>
        after = before \/ Release!Bound(before, after) \/ Release!Ended(before, after)
  BY SameVocabulary DEF RowMove, Release!Bound, Release!Ended
<1> QED BY <1>3, <1>4, <1>5, SameVocabulary DEF Release!SlotsMove, OffersCheckpoint

\* What a worker publishes, the trusted witness holds.
LEMMA PublishRefines ==
  ASSUME Inv, NEW p \in Workers, WritesLabels(p) \/ WritesSeed(p)
  PROVE  \E s \in SlotIds, b \in Bindings : Release!PublishLabels(s, b) \/ Release!PublishSeed(s, b)
<1>1. /\ worker[p].slot \in SlotIds
      /\ worker[p].binding \in Bindings
      /\ worker[p].pc \in Writing
  BY DEF WritesLabels, WritesSeed, Inv, TypeOK, Job, JobOK, Writing, Serving, Places
<1>2. WitnessHonours(TrustedWitness, worker[p])
  BY <1>1, TrustedFacts DEF Inv, Honoured
<1>3. WitnessedRows = store[TrustedWitness].slots /\ Claims(worker[p], WitnessedRows[worker[p].slot])
  BY <1>2 DEF WitnessHonours, WitnessedRows
<1>4. WitnessedRows' = WitnessedRows
  BY SameStoreRows DEF WritesLabels, WritesSeed
<1>5. CASE WritesLabels(p)
  BY <1>1, <1>3, <1>4, <1>5 DEF WritesLabels, Claims, Release!PublishLabels
<1>6. CASE WritesSeed(p)
  BY <1>1, <1>3, <1>4, <1>6 DEF WritesSeed, Claims, Release!PublishSeed
<1> QED BY <1>5, <1>6

LEMMA StepRefines == Inv /\ [Next]_vars => [Release!ReleaseNext]_Release!releaseVars
<1> SUFFICES ASSUME Inv, [Next]_vars PROVE [Release!ReleaseNext]_Release!releaseVars
  OBVIOUS
<1>1. ASSUME NEW p \in Workers, WritesLabels(p) \/ WritesSeed(p) PROVE Release!ReleaseNext
  BY <1>1, PublishRefines, SameVocabulary DEF Release!ReleaseNext
<1>2. CASE /\ UNCHANGED <<labels, seeds>>
           /\ store'[TrustedWitness] = store[TrustedWitness]
  BY <1>2, SameStoreRows DEF Release!releaseVars
<1>3. ASSUME NEW p \in Workers, NEW v \in Witnesses, OffersCheckpoint(p, v),
             store'[TrustedWitness] # store[TrustedWitness]
      PROVE  Release!ReleaseNext
  BY <1>3, OfferRefines DEF Release!ReleaseNext
<1> QED BY <1>1, <1>2, <1>3, VisibleSteps, TrustedFacts
        DEF VisibleStep, NothingVisible, OffersCheckpoint

(***************************************************************************)
(* The sidecar implements the one-shot release of OneShotRelease.tla, with *)
(* the rows a witness outside the rollback domain holds as its slots, for  *)
(* any number of workers, crashes, lost messages and restored disks.       *)
(***************************************************************************)
THEOREM SidecarImplementsRelease == Spec => ImplementsOneShotRelease
<1>1. Init => Release!ReleaseInit
  <2> SUFFICES ASSUME Init PROVE Release!ReleaseInit
    OBVIOUS
  <2>1. store[TrustedWitness] = NoRecord
    BY TrustedFacts DEF Init, AnchoredInit, WitnessInit
  <2> QED BY <2>1, SameVocabulary DEF Init, Release!ReleaseInit, WitnessedRows
<1> QED BY <1>1, StepRefines, ClaimsAreHonoured, PTL DEF Spec, ImplementsOneShotRelease, Release!ReleaseSpec
=============================================================================
