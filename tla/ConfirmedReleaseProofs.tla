------------------------ MODULE ConfirmedReleaseProofs ------------------------
(***************************************************************************)
(* Proofs about ConfirmedRelease, for any number of slots, requests,       *)
(* workers, witnesses, output names, blocks and depths, and both sidecars. *)
(***************************************************************************)
EXTENDS ConfirmedRelease, AnchoredLedgerProofs

(***************************************************************************)
(* The argument.  From begin on, the live row of a worker's slot is bound  *)
(* to its request, and is success from the terminal anchor on.  Each of    *)
(* the two anchoring passes carries that row to the witnesses, so behind a *)
(* pass they back it; nothing later takes it back.  A worker looks at Core *)
(* for the second time, completes the slot, or (one-phase) aborts it only  *)
(* behind the first pass, and touches the output only behind the second.   *)
(***************************************************************************)

\* Without a request; with a slot begun for it; in a pass that carries the row;
\* behind such a pass.
Resting == {"down", "boot", "ready"}
Serving ==
  {"build", "observe", "anchor-confirmed", "reread-tx", "reread-header", "succeed",
   "anchor-success", "inspect", "link", "compare", "recover", "abort", "anchor-abort"}
Carrying == {"anchor-confirmed", "anchor-success"}
Publishing == {"inspect", "link", "compare"}

BehindPass(place) ==
  \/ place \in {"reread-tx", "reread-header", "succeed"} \cup Publishing
  \/ OnePhase /\ place = "abort"

Level(place) == IF place \in {"anchor-success"} \cup Publishing THEN "success" ELSE "burned"

JobOK(p) ==
  /\ worker[p].pc \notin Resting => worker[p].binding \in Bindings
  /\ worker[p].pc = "recover" => ~ OnePhase

LiveClaim(p) ==
  worker[p].pc \in Serving =>
    Says(slots[worker[p].slot], worker[p].binding, Level(worker[p].pc))

CarriedClaim(p) ==
  worker[p].pc \in Carrying =>
    Carried(p, worker[p].slot, worker[p].binding, Level(worker[p].pc))

BackedClaim(p) ==
  BehindPass(worker[p].pc) =>
    \A w \in Reliable : Backed(w, worker[p].slot, worker[p].binding, Level(worker[p].pc))

Honoured(p) == LiveClaim(p) /\ CarriedClaim(p) /\ BackedClaim(p)

\* What is in the directory is ours and published, or somebody else's; what
\* was published, the witnesses back.
FilesOK ==
  /\ \A f \in Paths : file[f] \in released \cup {Foreign, Absent}
  /\ AnswersArePublished
  /\ \A w \in Reliable, r \in released : Backed(w, r[1], r[2], "success")

Inv ==
  /\ TypeOK
  /\ AnchoredOK
  /\ \A p \in Workers : JobOK(p) /\ Honoured(p)
  /\ FilesOK

-----------------------------------------------------------------------------
(* What a step of worker p writes into worker *)

JobType == worker' \in [Workers -> Job]
OtherJobsStay(p) == \A q \in Workers \ {p} : worker'[q] = worker[q]

\* Worker p goes to place with the request it has.
Moves(p, place) ==
  /\ JobType
  /\ OtherJobsStay(p)
  /\ worker'[p].pc = place
  /\ worker'[p].slot = worker[p].slot
  /\ worker'[p].binding = worker[p].binding

\* Worker p is without a request.
Rests(p) ==
  /\ JobType
  /\ OtherJobsStay(p)
  /\ worker'[p].pc \in Resting

LEMMA ConstantJobs == NoJob \in Job /\ NoJob.pc = "ready" /\ Down \in Job /\ Down.pc = "down"
<1>1. 0 \in SlotIds
  BY SlotCountAssumption DEF SlotIds
<1>2. (CHOOSE f \in Paths : TRUE) \in Paths
  BY FileAssumption
<1>3. 0 \in 0 .. MaxDepth
  BY DepthAssumption
<1>4. NoJob \in Job /\ NoJob.pc = "ready"
  BY <1>1, <1>2, <1>3 DEF NoJob, Job, Places
<1>5. Down \in Job /\ Down.pc = "down"
  BY <1>4 DEF Down, Job, Places
<1> QED BY <1>4, <1>5

LEMMA JobFacts ==
  ASSUME TypeOK, NEW p \in Workers, NEW job \in Job, worker' = [worker EXCEPT ![p] = job]
  PROVE  JobType /\ OtherJobsStay(p) /\ worker'[p] = job
  BY DEF TypeOK, JobType, OtherJobsStay

LEMMA FinishFacts ==
  ASSUME TypeOK, NEW p \in Workers, Finish(p)
  PROVE  Rests(p)
<1>1. JobType /\ OtherJobsStay(p) /\ worker'[p] = NoJob
  BY ConstantJobs, JobFacts DEF Finish
<1> QED BY <1>1, ConstantJobs DEF Rests, Resting

\* The two forms in which a worker's place is changed.
LEMMA MovedFacts ==
  ASSUME TypeOK, NEW p \in Workers, NEW place \in Places, NEW job \in Job,
         job.pc = place, job.slot = worker[p].slot, job.binding = worker[p].binding,
         worker' = [worker EXCEPT ![p] = job]
  PROVE  Moves(p, place)
<1>1. JobType /\ OtherJobsStay(p) /\ worker'[p] = job
  BY JobFacts
<1> QED BY <1>1 DEF Moves

LEMMA MoveFacts ==
  ASSUME TypeOK, NEW p \in Workers, NEW place \in Places, NEW d \in 0 .. MaxDepth,
         worker' = [worker EXCEPT ![p] = [@ EXCEPT !.pc = place, !.depth = d]]
  PROVE  Moves(p, place)
<1> DEFINE job == [worker[p] EXCEPT !.pc = place, !.depth = d]
<1>1. worker[p] \in Job
  BY DEF TypeOK
<1>2. job \in Job
  BY <1>1 DEF Job
<1>3. job.pc = place /\ job.slot = worker[p].slot /\ job.binding = worker[p].binding
  BY <1>1 DEF Job
<1>4. worker' = [worker EXCEPT ![p] = job]
  OBVIOUS
<1> HIDE DEF job
<1> QED BY <1>2, <1>3, <1>4, MovedFacts

LEMMA GotoFacts ==
  ASSUME TypeOK, NEW p \in Workers, NEW place \in Places, Goto(p, place)
  PROVE  Moves(p, place)
<1> DEFINE job == [worker[p] EXCEPT !.pc = place]
<1>1. worker[p] \in Job
  BY DEF TypeOK
<1>2. job \in Job
  BY <1>1 DEF Job
<1>3. job.pc = place /\ job.slot = worker[p].slot /\ job.binding = worker[p].binding
  BY <1>1 DEF Job
<1>4. worker' = [worker EXCEPT ![p] = job]
  BY DEF Goto
<1> HIDE DEF job
<1> QED BY <1>2, <1>3, <1>4, MovedFacts

\* An exception ends the call, or leads to a handler the protocol has.
LEMMA RaiseFacts ==
  ASSUME TypeOK, NEW p \in Workers, Raise(p)
  PROVE  \/ Rests(p)
         \/ /\ worker[p].pc \notin {"read-tx", "read-header", "begin"}
            /\ ~ OnePhase /\ Moves(p, "recover")
         \/ /\ worker[p].pc \in {"reread-tx", "reread-header"}
            /\ OnePhase /\ Moves(p, "abort")
<1>1. PICK place : place = Handler(worker[p].pc)
  OBVIOUS
<1>2. \/ place = "ready"
      \/ /\ place = "recover" /\ ~ OnePhase
         /\ worker[p].pc \notin {"read-tx", "read-header", "begin"}
      \/ /\ place = "abort" /\ OnePhase
         /\ worker[p].pc \in {"reread-tx", "reread-header"}
  BY <1>1 DEF Handler
<1>3. CASE place = "ready"
  <2>1. Finish(p)
    BY <1>1, <1>3 DEF Raise, Finish
  <2> QED BY <2>1, FinishFacts
<1>4. CASE place \in {"recover", "abort"}
  <2>1. worker' = [worker EXCEPT ![p] = [@ EXCEPT !.pc = place, !.depth = 0]]
    BY <1>1, <1>4 DEF Raise
  <2>2. place \in Places /\ 0 \in 0 .. MaxDepth
    BY <1>4, DepthAssumption DEF Places
  <2>3. Moves(p, place)
    BY <2>1, <2>2, MoveFacts
  <2> QED BY <1>2, <1>4, <2>3
<1> QED BY <1>2, <1>3, <1>4

-----------------------------------------------------------------------------
(* Steps of one worker *)

\* What the invariant says of a worker, as the step lemmas use it.
LEMMA AtPlace ==
  ASSUME Inv, NEW p \in Workers
  PROVE  /\ TypeOK /\ LedgerTypeOK
         /\ worker[p].slot \in SlotIds
         /\ worker[p].path \in Paths
         /\ worker[p].pc \notin Resting => worker[p].binding \in Bindings
  BY DEF Inv, TypeOK, AnchoredTypeOK, Job, JobOK

\* A worker that does not move keeps its claim.
LEMMA StillHonoured ==
  ASSUME Inv, LedgerKept, StoreKept, UNCHANGED protocol, NEW q \in Workers,
         worker'[q] = worker[q], anchor'[q] = anchor[q]
  PROVE  JobOK(q)' /\ Honoured(q)'
<1>1. worker[q].slot \in SlotIds
  BY AtPlace
<1>2. JobOK(q)'
  BY DEF Inv, JobOK, OnePhase
<1>3. LiveClaim(q)'
  BY <1>1, SaysKept DEF Inv, Honoured, LiveClaim, LedgerKept, Level
<1>4. ASSUME NEW w \in Reliable,
             Backed(w, worker[q].slot, worker[q].binding, Level(worker[q].pc))
      PROVE  /\ store'[w] # NoRecord
             /\ Says(store'[w].slots[worker[q].slot], worker[q].binding, Level(worker[q].pc))
  BY <1>1, <1>4, BackedKept
<1>5. CarriedClaim(q)'
  BY <1>4 DEF Inv, Honoured, CarriedClaim, Carried, Backed, Level
<1>6. BackedClaim(q)'
  BY <1>4 DEF Inv, Honoured, BackedClaim, BehindPass, Backed, OnePhase, Level
<1> QED BY <1>2, <1>3, <1>5, <1>6 DEF Honoured

LEMMA FilesStay ==
  ASSUME Inv, StoreKept, UNCHANGED <<file, released, answered>>
  PROVE  FilesOK'
<1>1. \A r \in released : r[1] \in SlotIds
  BY DEF Inv, TypeOK, Responses
<1> QED
  BY <1>1, BackedKept DEF Inv, FilesOK, AnswersArePublished, Backed

\* So a step of one worker has to be examined for that worker only.
LEMMA OneWorkerMoves ==
  ASSUME Inv, AnchoredOK', LedgerKept, StoreKept, UNCHANGED <<protocol, chain>>,
         file' \in [Paths -> Responses \cup {Foreign, Absent}],
         released' \subseteq Responses, answered' \subseteq Responses, FilesOK',
         NEW p \in Workers, OtherPassesStay(p), OtherJobsStay(p), JobType,
         JobOK(p)', Honoured(p)'
  PROVE  Inv'
<1>1. \A q \in Workers \ {p} : JobOK(q)' /\ Honoured(q)'
  BY StillHonoured DEF OtherPassesStay, OtherJobsStay
<1>2. TypeOK'
  BY DEF Inv, TypeOK, AnchoredOK, JobType
<1> QED BY <1>1, <1>2 DEF Inv

\* The common case: the step touches the ledger, the worker and the pass it is in.
Quiet == UNCHANGED <<store, disk, restores, protocol, chain, file, released, answered>>

LEMMA QuietMoves ==
  ASSUME Inv, LedgerKept, Quiet, NEW p \in Workers, PassReset(p), OtherJobsStay(p), JobType,
         JobOK(p)', Honoured(p)'
  PROVE  Inv'
<1>1. AnchoredOK' /\ StoreKept /\ OtherPassesStay(p)
  BY ResetKeeps DEF Inv, Quiet
<1> QED BY <1>1, FilesStay, OneWorkerMoves DEF Quiet, Inv, TypeOK

LEMMA RestInv ==
  ASSUME Inv, LedgerKept, Quiet, NEW p \in Workers, PassReset(p), Rests(p)
  PROVE  Inv'
<1>1. JobOK(p)' /\ Honoured(p)'
  BY DEF Rests, JobOK, Honoured, LiveClaim, CarriedClaim, BackedClaim, BehindPass,
         Resting, Serving, Carrying, Publishing
<1> QED BY <1>1, QuietMoves DEF Rests

\* A move with the same claim or a weaker one.
LEMMA MoveInv ==
  ASSUME Inv, LedgerKept, Quiet, NEW p \in Workers, PassReset(p),
         worker[p].pc \notin Resting,
         NEW place \in Places \ (Carrying \cup Resting), Moves(p, place),
         place = "recover" => ~ OnePhase,
         place \in Serving =>
           worker[p].pc \in Serving /\ (Level(place) = "burned" \/ Level(place) = Level(worker[p].pc)),
         BehindPass(place) =>
           \A w \in Reliable : Backed(w, worker[p].slot, worker[p].binding, Level(place))
  PROVE  Inv'
<1>1. worker[p].slot \in SlotIds /\ worker[p].binding \in Bindings
  BY AtPlace
<1>2. RowKept(slots[worker[p].slot], slots'[worker[p].slot])
  BY <1>1 DEF LedgerKept
<1>3. JobOK(p)'
  BY <1>1 DEF Moves, JobOK, Quiet, OnePhase
<1>4. LiveClaim(p)'
  BY <1>2 DEF Inv, Honoured, LiveClaim, Moves, RowKept, Outcomes, Says, Level
<1>5. CarriedClaim(p)'
  BY DEF CarriedClaim, Moves
<1>6. BackedClaim(p)'
  BY DEF BackedClaim, BehindPass, Moves, Quiet, OnePhase, Backed, Says, Level
<1>7. Honoured(p)'
  BY <1>4, <1>5, <1>6 DEF Honoured
<1> QED BY <1>3, <1>7, QuietMoves DEF Moves

\* A pass starts that carries what the live row says.
LEMMA CarryInv ==
  ASSUME Inv, LedgerKept, Quiet, NEW p \in Workers, worker[p].pc \notin Resting,
         NEW place \in Carrying, AnchorAt(p, place),
         Says(slots'[worker[p].slot], worker[p].binding, Level(place))
  PROVE  Inv'
<1>1. worker[p].slot \in SlotIds /\ worker[p].binding \in Bindings /\ TypeOK
  BY AtPlace
<1>2. Moves(p, place)
  BY <1>1, GotoFacts DEF AnchorAt, Carrying, Places
<1>3. anchor'[p] = Started
  BY <1>1 DEF AnchorAt, TypeOK, AnchoredTypeOK
<1>4. JobOK(p)'
  BY <1>1, <1>2 DEF Moves, JobOK, Carrying
<1>5. LiveClaim(p)' /\ BackedClaim(p)'
  BY <1>2 DEF LiveClaim, BackedClaim, BehindPass, Moves, Carrying, Publishing, Level
<1>6. CarriedClaim(p)'
  <2>1. ~ (0 > worker[p].slot)
    BY <1>1 DEF SlotIds
  <2> QED BY <1>2, <1>3, <2>1 DEF CarriedClaim, Carried, Moves, Started, Idle
<1>7. Honoured(p)'
  BY <1>5, <1>6 DEF Honoured
<1>8. PassReset(p)
  BY DEF AnchorAt, PassReset
<1> QED BY <1>2, <1>4, <1>7, <1>8, QuietMoves DEF Moves

\* The pass is over: every reliable witness backs the row.
LEMMA PassDone ==
  ASSUME Inv, NEW p \in Workers, NEW place \in Carrying, PassEnded(p, place, "done")
  PROVE  \A w \in Reliable : Backed(w, worker[p].slot, worker[p].binding, Level(place))
  BY DEF Inv, AnchoredOK, PassOK, PassEnded, At, Honoured, CarriedClaim, Carried

\* What a worker behind a pass knows.
LEMMA Behind ==
  ASSUME Inv, NEW p \in Workers, BehindPass(worker[p].pc)
  PROVE  \A w \in Reliable :
           Backed(w, worker[p].slot, worker[p].binding, Level(worker[p].pc))
  BY DEF Inv, Honoured, BackedClaim

\* An exception takes no claim further than the worker had one.
LEMMA RaiseInv ==
  ASSUME Inv, LedgerKept, Quiet, NEW p \in Workers, PassReset(p), Raise(p),
         worker[p].pc \in Serving \cup {"read-tx", "read-header", "begin"}
  PROVE  Inv'
<1> USE AtPlace
<1>1. CASE Rests(p)
  BY <1>1, RestInv
<1>2. CASE /\ worker[p].pc \notin {"read-tx", "read-header", "begin"}
           /\ ~ OnePhase /\ Moves(p, "recover")
  <2>1. /\ worker[p].pc \notin Resting /\ worker[p].pc \in Serving
        /\ "recover" \in Places \ (Carrying \cup Resting)
        /\ ~ BehindPass("recover") /\ Level("recover") = "burned"
    BY <1>2 DEF Resting, Serving, Places, Carrying, BehindPass, Publishing, Level
  <2> QED BY <1>2, <2>1, MoveInv
<1>3. CASE /\ worker[p].pc \in {"reread-tx", "reread-header"}
           /\ OnePhase /\ Moves(p, "abort")
  <2>1. /\ worker[p].pc \notin Resting /\ worker[p].pc \in Serving
        /\ "abort" \in Places \ (Carrying \cup Resting)
        /\ BehindPass(worker[p].pc) /\ Level(worker[p].pc) = "burned" /\ Level("abort") = "burned"
    BY <1>3 DEF Resting, Serving, Places, Carrying, BehindPass, Publishing, Level
  <2> QED BY <1>3, <2>1, MoveInv, Behind
<1> QED BY <1>1, <1>2, <1>3, RaiseFacts

-----------------------------------------------------------------------------
(* The actions *)

LEMMA RestingStepsInv ==
  ASSUME Inv, NEW p \in Workers,
         \/ Construct(p) \/ Constructed(p) \/ ConstructionFailed(p) \/ Crash(p)
         \/ BeginRefused(p) \/ ResponseMalformed(p) \/ AbortRefused(p) \/ AbortAnchored(p)
  PROVE  Inv'
<1>0. TypeOK /\ LedgerTypeOK /\ worker[p].slot \in SlotIds
        /\ (worker[p].pc = "begin" => worker[p].binding \in Bindings)
  BY AtPlace DEF Resting
<1> USE DEF Quiet, PassReset
<1>1. ASSUME NEW place \in Resting, Goto(p, place) PROVE Rests(p)
  BY <1>0, <1>1, GotoFacts DEF Resting, Places, Moves, Rests
<1>2. CASE Construct(p)
  BY <1>0, <1>1, <1>2, RestInv, UnchangedKept DEF Construct, AnchorAt, AnchorOnly, Resting
<1>3. CASE Constructed(p)
  BY <1>0, <1>1, <1>3, RestInv, UnchangedKept DEF Constructed, PassEnded, AnchorOnly, Resting
<1>4. CASE ConstructionFailed(p)
  BY <1>0, <1>1, <1>4, RestInv, UnchangedKept DEF ConstructionFailed, PassEnded, AnchorOnly, Resting
<1>5. CASE Crash(p)
  <2>1. Rests(p)
    BY <1>0, <1>5, ConstantJobs, JobFacts DEF Crash, Rests, Resting
  <2> QED BY <1>0, <1>5, <2>1, RestInv, UnchangedKept DEF Crash, AnchorOnly
<1>6. CASE BeginRefused(p)
  <2>1. LedgerKept
    BY <1>0, <1>6, BeginExactKept, BeginConflictKept, UnchangedKept
    DEF BeginRefused, At, BeginPoisoned, NoEvent
  <2> QED BY <1>0, <1>6, <2>1, FinishFacts, RestInv DEF BeginRefused, LedgerOnly
<1>7. CASE ResponseMalformed(p)
  <2>1. LedgerKept
    BY <1>0, <1>7, FinalizeBurnedKept, FinalizeRaisesKept DEF ResponseMalformed, Finalize, Outcomes
  <2> QED BY <1>0, <1>7, <2>1, FinishFacts, RestInv DEF ResponseMalformed, LedgerOnly
<1>8. CASE AbortRefused(p)
  <2>1. LedgerKept
    BY <1>0, <1>8, FinalizeRaisesKept DEF AbortRefused, Outcomes
  <2> QED BY <1>0, <1>8, <2>1, FinishFacts, RestInv DEF AbortRefused, LedgerOnly
<1>9. CASE AbortAnchored(p)
  BY <1>0, <1>9, FinishFacts, RestInv, UnchangedKept DEF AbortAnchored, PassEnded, AnchorOnly
<1> QED BY <1>2, <1>3, <1>4, <1>5, <1>6, <1>7, <1>8, <1>9

\* The request is taken up, and Core is read for the first time or again.
LEMMA AskInv ==
  ASSUME Inv, NEW p \in Workers, NEW s \in SlotIds, NEW b \in Bindings, NEW k \in Blocks,
         NEW f \in Paths, Ask(p, s, b, k, f)
  PROVE  Inv'
<1> DEFINE job == [NoJob EXCEPT !.pc = "read-tx", !.slot = s, !.binding = b, !.block = k, !.path = f]
<1>1. 0 \in 0 .. MaxDepth
  BY DepthAssumption
<1>2. job \in Job /\ job.pc = "read-tx" /\ job.binding = b
  BY <1>1 DEF NoJob, Job, Places
<1>3. JobType /\ OtherJobsStay(p) /\ worker'[p] = job
  BY <1>2, JobFacts DEF Ask, Inv
<1>4. JobOK(p)' /\ Honoured(p)'
  BY <1>2, <1>3
  DEF JobOK, Honoured, LiveClaim, CarriedClaim, BackedClaim, BehindPass, Serving, Carrying, Publishing
<1>5. LedgerKept /\ Quiet /\ PassReset(p)
  BY AtPlace, UnchangedKept DEF Ask, WorkerOnly, anchoredVars, Quiet, PassReset
<1> QED BY <1>3, <1>4, <1>5, QuietMoves

LEMMA ReadCoreInv ==
  ASSUME Inv, NEW p \in Workers, NEW d \in 0 .. MaxDepth,
         ReadTransaction(p, d) \/ ReadHeader(p)
  PROVE  Inv'
<1>0. LedgerKept /\ Quiet /\ PassReset(p) /\ TypeOK /\ 0 \in 0 .. MaxDepth
  BY AtPlace, UnchangedKept, DepthAssumption
  DEF ReadTransaction, ReadHeader, WorkerOnly, anchoredVars, Quiet, PassReset
<1> DEFINE place == CASE worker[p].pc = "read-tx" -> "read-header"
                      [] worker[p].pc = "reread-tx" -> "reread-header"
                      [] worker[p].pc = "read-header" -> "begin"
                      [] worker[p].pc = "reread-header" -> "succeed"
<1>1. /\ worker[p].pc \in {"read-tx", "reread-tx", "read-header", "reread-header"}
      /\ place \in {"read-header", "reread-header", "begin", "succeed"}
      /\ place \in {"reread-header", "succeed"} => worker[p].pc \in {"reread-tx", "reread-header"}
  BY DEF ReadTransaction, ReadHeader
<1>2. Moves(p, place)
  <2>1. place \in Places
    BY <1>1 DEF Places
  <2>2. CASE ReadTransaction(p, d)
    <3>1. worker' = [worker EXCEPT ![p] = [@ EXCEPT !.pc = place, !.depth = d]]
      BY <2>2 DEF ReadTransaction
    <3> QED BY <1>0, <2>1, <3>1, MoveFacts
  <2>3. CASE ReadHeader(p)
    <3>1. worker' = [worker EXCEPT ![p] = [@ EXCEPT !.pc = place, !.depth = 0]]
      BY <2>3 DEF ReadHeader
    <3> QED BY <1>0, <2>1, <3>1, MoveFacts
  <2> QED BY <2>2, <2>3
<1> HIDE DEF place
<1>3. /\ place \in Places \ (Carrying \cup Resting) /\ worker[p].pc \notin Resting
      /\ place # "recover" /\ Level(place) = "burned"
      /\ place \in Serving => worker[p].pc \in Serving
  BY <1>1 DEF Places, Carrying, Resting, Level, Publishing, Serving
<1>4. BehindPass(place) => BehindPass(worker[p].pc) /\ Level(worker[p].pc) = "burned"
  BY <1>1 DEF BehindPass, Level, Publishing
<1> QED BY <1>0, <1>2, <1>3, <1>4, MoveInv, Behind

LEMMA RaisingStepsInv ==
  ASSUME Inv, NEW p \in Workers,
         CoreDisagrees(p) \/ CallFails(p) \/ NotAnchored(p) \/ SucceedRefused(p)
  PROVE  Inv'
<1>1. LedgerTypeOK /\ worker[p].slot \in SlotIds
  BY AtPlace
<1>2. CASE CoreDisagrees(p) \/ CallFails(p)
  <2>1. LedgerKept /\ Quiet /\ PassReset(p) /\ Raise(p)
    BY <1>1, <1>2, UnchangedKept
    DEF CoreDisagrees, CallFails, WorkerOnly, anchoredVars, Quiet, PassReset
  <2>2. worker[p].pc \in Serving \cup {"read-tx", "read-header", "begin"}
    BY <1>2 DEF CoreDisagrees, CallFails, Serving
  <2> QED BY <2>1, <2>2, RaiseInv
<1>3. CASE NotAnchored(p)
  <2>1. LedgerKept /\ Quiet /\ PassReset(p) /\ Raise(p) /\ worker[p].pc \in Serving
    BY <1>1, <1>3, UnchangedKept
    DEF NotAnchored, PassEnded, At, AnchorOnly, Quiet, PassReset, Serving
  <2> QED BY <2>1, RaiseInv
<1>4. CASE SucceedRefused(p)
  <2>1. LedgerKept /\ Quiet /\ PassReset(p) /\ Raise(p) /\ worker[p].pc \in Serving
    BY <1>1, <1>4, FinalizeRaisesKept
    DEF SucceedRefused, At, LedgerOnly, Quiet, PassReset, Serving, Outcomes
  <2> QED BY <2>1, RaiseInv
<1> QED BY <1>2, <1>3, <1>4

\* The slot is begun: from here on the live row is bound to the request.
LEMMA BeginInv ==
  ASSUME Inv, NEW p \in Workers, BeginSlot(p)
  PROVE  Inv'
<1> DEFINE place == IF OnePhase THEN "build" ELSE "observe"
<1>0. /\ TypeOK /\ LedgerTypeOK /\ worker[p].slot \in SlotIds
      /\ worker[p].binding \in Bindings
  BY AtPlace DEF BeginSlot, At, Resting
<1>1. LedgerKept /\ Says(slots'[worker[p].slot], worker[p].binding, "burned")
  <2>1. CASE BeginBurn(worker[p].slot, worker[p].binding)
    BY <1>0, <2>1, BeginBurnKept DEF Says
  <2>2. CASE BeginExact(worker[p].slot, worker[p].binding)
    BY <1>0, <2>2, BeginExactKept DEF BeginExact, Says
  <2> QED BY <2>1, <2>2 DEF BeginSlot
<1>2. Quiet /\ PassReset(p)
  BY DEF BeginSlot, LedgerOnly, Quiet, PassReset
<1>3. Moves(p, place)
  BY <1>0, GotoFacts DEF BeginSlot, Places
<1>4. JobOK(p)'
  BY <1>0, <1>3 DEF Moves, JobOK
<1>5. place \in {"build", "observe"}
  OBVIOUS
<1> HIDE DEF place
<1>6. /\ place \in Serving /\ Level(place) = "burned" /\ place \notin Carrying
      /\ place \notin {"reread-tx", "reread-header", "succeed", "abort"} \cup Publishing
  BY <1>5 DEF Serving, Level, Publishing, Carrying
<1>7. LiveClaim(p)'
  BY <1>1, <1>3, <1>6 DEF LiveClaim, Moves, Says, Level
<1>8. CarriedClaim(p)' /\ BackedClaim(p)'
  BY <1>3, <1>6 DEF CarriedClaim, BackedClaim, BehindPass, Moves
<1> QED BY <1>1, <1>2, <1>3, <1>4, <1>7, <1>8, QuietMoves DEF Moves, Honoured

\* Moves within a call that neither begin a pass nor write.
LEMMA MovingStepsInv ==
  ASSUME Inv, NEW p \in Workers,
         ResponseBuilt(p) \/ Recover(p) \/ Abort(p) \/ BurnAnchored(p) \/ SuccessAnchored(p)
         \/ OutputExists(p)
  PROVE  Inv'
<1>0. TypeOK /\ LedgerTypeOK /\ worker[p].slot \in SlotIds
  BY AtPlace
<1> USE DEF Quiet, PassReset
<1>p. /\ {"observe", "abort", "anchor-abort", "reread-tx", "inspect", "compare"}
           \subseteq Places \ (Carrying \cup Resting)
      /\ \A place \in {"observe", "abort", "anchor-abort", "reread-tx"} : Level(place) = "burned"
      /\ ~ BehindPass("observe") /\ ~ BehindPass("anchor-abort")
      /\ ~ OnePhase => ~ BehindPass("abort")
  BY DEF Places, Carrying, Resting, Level, Publishing, BehindPass
<1>1. CASE ResponseBuilt(p)
  <2>1. Moves(p, "observe") /\ LedgerKept /\ Quiet /\ PassReset(p) /\ worker[p].pc = "build"
    BY <1>0, <1>1, <1>p, GotoFacts, UnchangedKept DEF ResponseBuilt, At, WorkerOnly, anchoredVars
  <2> QED BY <1>p, <2>1, MoveInv DEF Serving, Resting
<1>2. CASE Recover(p)
  <2>1. LedgerKept /\ Quiet /\ PassReset(p) /\ worker[p].pc = "recover" /\ ~ OnePhase
    BY <1>0, <1>2, UnchangedKept DEF Recover, At, WorkerOnly, anchoredVars, Inv, JobOK
  <2>2. CASE Goto(p, "abort")
    BY <1>0, <1>p, <2>1, <2>2, GotoFacts, MoveInv DEF Serving, Resting
  <2>3. CASE Finish(p)
    BY <1>0, <2>1, <2>3, FinishFacts, RestInv
  <2> QED BY <1>2, <2>2, <2>3 DEF Recover
<1>3. CASE Abort(p)
  <2>1. LedgerKept
    BY <1>0, <1>3, FinalizeBurnedKept, FinalizeRaisesKept DEF Abort, Outcomes
  <2>2. Moves(p, "anchor-abort") /\ Quiet /\ PassReset(p) /\ worker[p].pc = "abort"
    BY <1>0, <1>3, <1>p, GotoFacts DEF Abort, AnchorAt, At, LedgerThenAnchor
  <2> QED BY <1>p, <2>1, <2>2, MoveInv DEF Serving, Resting
<1>4. CASE BurnAnchored(p)
  <2>1. /\ Moves(p, "reread-tx") /\ LedgerKept /\ Quiet /\ PassReset(p)
        /\ worker[p].pc = "anchor-confirmed"
    BY <1>0, <1>4, <1>p, GotoFacts, UnchangedKept DEF BurnAnchored, PassEnded, At, AnchorOnly
  <2>2. \A w \in Reliable : Backed(w, worker[p].slot, worker[p].binding, Level("reread-tx"))
    BY <1>4, PassDone DEF BurnAnchored, Carrying, Level, Publishing
  <2> QED BY <1>p, <2>1, <2>2, MoveInv DEF Serving, Resting
<1>5. CASE SuccessAnchored(p)
  <2>1. /\ Moves(p, "inspect") /\ LedgerKept /\ Quiet /\ PassReset(p)
        /\ worker[p].pc = "anchor-success"
    BY <1>0, <1>5, <1>p, GotoFacts, UnchangedKept DEF SuccessAnchored, PassEnded, At, AnchorOnly
  <2>2. \A w \in Reliable : Backed(w, worker[p].slot, worker[p].binding, Level("inspect"))
    BY <1>5, PassDone DEF SuccessAnchored, Carrying, Level, Publishing
  <2>3. Level("inspect") = Level("anchor-success")
    BY DEF Level, Publishing
  <2> QED BY <1>p, <2>1, <2>2, <2>3, MoveInv DEF Serving, Resting
<1>6. CASE OutputExists(p)
  <2>1. /\ Moves(p, "compare") /\ LedgerKept /\ Quiet /\ PassReset(p)
        /\ worker[p].pc = "link"
    BY <1>0, <1>6, <1>p, GotoFacts, UnchangedKept
    DEF OutputExists, LinkCollides, At, FilesOnly, anchoredVars
  <2>2. Level("compare") = Level("link") /\ BehindPass("link")
    BY DEF Level, Publishing, BehindPass
  <2> QED BY <1>p, <2>1, <2>2, MoveInv, Behind DEF Serving, Resting
<1> QED BY <1>1, <1>2, <1>3, <1>4, <1>5, <1>6

\* The two anchoring passes that carry a row start behind a ledger operation.
LEMMA CarryingStepsInv ==
  ASSUME Inv, NEW p \in Workers, RecordConfirmed(p) \/ Succeed(p)
  PROVE  Inv'
<1>0. TypeOK /\ LedgerTypeOK /\ worker[p].slot \in SlotIds
  BY AtPlace
<1>1. worker[p].pc \in {"observe", "succeed"}
  BY DEF RecordConfirmed, Succeed, At
<1>2. Says(slots[worker[p].slot], worker[p].binding, "burned")
  BY <1>1 DEF Inv, Honoured, LiveClaim, Serving, Level, Publishing
<1>3. Quiet /\ worker[p].pc \notin Resting
  BY <1>1 DEF RecordConfirmed, Succeed, LedgerThenAnchor, Quiet, Resting
<1>4. CASE RecordConfirmed(p)
  <2>1. LedgerKept /\ UNCHANGED slots
    BY <1>0, <1>4, ObserveKept DEF RecordConfirmed
  <2>2. Level("anchor-confirmed") = "burned" /\ "anchor-confirmed" \in Carrying
    BY DEF Level, Publishing, Carrying
  <2> QED BY <1>2, <1>3, <1>4, <2>1, <2>2, CarryInv DEF RecordConfirmed
<1>5. CASE Succeed(p)
  <2>1. LedgerKept /\ slots'[worker[p].slot].state = "success"
    BY <1>0, <1>5, FinalizeBurnedKept, FinalizeRaisesKept
    DEF Succeed, Outcomes, FinalizeAgain, NoEvent, ledgerVars
  <2>2. Says(slots'[worker[p].slot], worker[p].binding, "success")
    BY <1>0, <1>2, <2>1 DEF LedgerKept, RowKept, Says
  <2>3. Level("anchor-success") = "success" /\ "anchor-success" \in Carrying
    BY DEF Level, Publishing, Carrying
  <2> QED BY <1>3, <1>5, <2>1, <2>2, <2>3, CarryInv DEF Succeed
<1> QED BY <1>4, <1>5

\* An answer is given for bytes that were published.
LEMMA AnswerInv ==
  ASSUME Inv, NEW p \in Workers, Answer(p), Response(p) \in released,
         FilesOnly, UNCHANGED <<file, released>>
  PROVE  Inv'
<1>0. TypeOK /\ LedgerTypeOK
  BY AtPlace
<1>1. Rests(p)
  BY <1>0, FinishFacts DEF Answer
<1>2. JobOK(p)' /\ Honoured(p)'
  BY <1>1 DEF Rests, JobOK, Honoured, LiveClaim, CarriedClaim, BackedClaim, BehindPass,
              Resting, Serving, Carrying, Publishing
<1>3. LedgerKept /\ StoreKept /\ AnchoredOK' /\ OtherPassesStay(p)
  BY <1>0, UnchangedKept, ResetKeeps DEF FilesOnly, anchoredVars, PassReset, Inv
<1>4. answered' \subseteq released /\ released \subseteq Responses
  BY DEF Answer, Inv, FilesOK, AnswersArePublished, TypeOK
<1>5. FilesOK'
  BY <1>4 DEF Inv, FilesOK, AnswersArePublished, Backed, FilesOnly, anchoredVars
<1> QED BY <1>0, <1>1, <1>2, <1>3, <1>4, <1>5, OneWorkerMoves DEF Rests, FilesOnly, TypeOK

LEMMA InspectInv ==
  ASSUME Inv, NEW p \in Workers, InspectOutput(p) \/ CompareOutput(p)
  PROVE  Inv'
<1>0. /\ TypeOK /\ LedgerTypeOK /\ worker[p].slot \in SlotIds /\ worker[p].path \in Paths
      /\ worker[p].binding \in Bindings /\ worker[p].pc \in Publishing
      /\ FilesOnly /\ UNCHANGED <<file, released>>
  BY AtPlace DEF InspectOutput, CompareOutput, At, Resting, Publishing
<1>1. CASE Holds(worker[p].path, Response(p)) /\ Answer(p)
  <2>1. Response(p) \in released
    BY <1>0, <1>1, FileAssumption DEF Holds, Response, Inv, FilesOK
  <2> QED BY <1>0, <1>1, <2>1, AnswerInv
<1>2. ASSUME NoAnswer PROVE LedgerKept /\ Quiet /\ PassReset(p)
  BY <1>0, <1>2, UnchangedKept DEF FilesOnly, anchoredVars, Quiet, PassReset, NoAnswer
<1>3. CASE Raise(p) /\ NoAnswer
  BY <1>0, <1>2, <1>3, RaiseInv DEF Publishing, Serving
<1>4. CASE At(p, "inspect") /\ Goto(p, "link") /\ NoAnswer
  <2>1. "link" \in Places \ (Carrying \cup Resting) /\ Level("link") = Level("inspect")
          /\ BehindPass("inspect") /\ "inspect" \in Serving
    BY DEF Places, Carrying, Resting, Level, Publishing, BehindPass, Serving
  <2>2. Moves(p, "link")
    BY <1>0, <1>4, <2>1, GotoFacts
  <2> QED BY <1>2, <1>4, <2>1, <2>2, MoveInv, Behind DEF At, Resting
<1> QED BY <1>1, <1>3, <1>4 DEF InspectOutput, CompareOutput

\* The link: bytes every reliable witness backs become visible.
LEMMA PublishInv ==
  ASSUME Inv, NEW p \in Workers, PublishOutput(p)
  PROVE  Inv'
<1>r. PICK r : r = Response(p)
  OBVIOUS
<1>0. /\ TypeOK /\ LedgerTypeOK /\ worker[p].slot \in SlotIds /\ worker[p].path \in Paths
      /\ worker[p].binding \in Bindings /\ worker[p].pc = "link"
  BY AtPlace DEF PublishOutput, At, Resting
<1>1. Rests(p)
  BY <1>0, FinishFacts DEF PublishOutput, Answer
<1>2. JobOK(p)' /\ Honoured(p)'
  BY <1>1 DEF Rests, JobOK, Honoured, LiveClaim, CarriedClaim, BackedClaim, BehindPass,
              Resting, Serving, Carrying, Publishing
<1>3. LedgerKept /\ StoreKept /\ AnchoredOK' /\ OtherPassesStay(p)
  BY <1>0, UnchangedKept, ResetKeeps DEF PublishOutput, FilesOnly, anchoredVars, PassReset, Inv
<1>4. /\ r \in Responses
      /\ file' = [file EXCEPT ![worker[p].path] = r]
      /\ released' = released \cup {r} /\ answered' = answered \cup {r}
      /\ UNCHANGED <<protocol, chain, store>>
  BY <1>0, <1>r DEF PublishOutput, LinkFile, Answer, Response, Responses, FilesOnly, anchoredVars
<1>5. \A w \in Reliable : Backed(w, r[1], r[2], "success")
  BY <1>0, <1>r, Behind DEF BehindPass, Level, Publishing, Response
<1>6. \A w \in Reliable, q \in released' : Backed(w, q[1], q[2], "success")
  BY <1>4, <1>5 DEF Inv, FilesOK
<1>7. /\ file' \in [Paths -> Responses \cup {Foreign, Absent}]
      /\ \A f \in Paths : file'[f] \in released' \cup {Foreign, Absent}
      /\ released' \subseteq Responses /\ answered' \subseteq released'
  BY <1>0, <1>4 DEF TypeOK, Inv, FilesOK, AnswersArePublished
<1>8. FilesOK'
  BY <1>4, <1>6, <1>7 DEF FilesOK, AnswersArePublished, Backed
<1> QED BY <1>1, <1>2, <1>3, <1>4, <1>7, <1>8, OneWorkerMoves DEF Rests

\* A pass carries the claim on.
LEMMA PassInv ==
  ASSUME Inv, NEW p \in Workers, WorkerPass(p) \/ WitnessTrouble(p)
  PROVE  Inv'
<1>1. PassKept(p) /\ UNCHANGED releaseVars /\ worker[p].pc \in Anchoring
  BY PassKeeps DEF WorkerPass, WitnessTrouble, Inv
<1>2. LedgerKept
  BY <1>1, UnchangedKept, AtPlace DEF PassKept
<1>3. worker[p].slot \in SlotIds
  BY AtPlace
<1>4. JobOK(p)' /\ LiveClaim(p)'
  BY <1>1 DEF Inv, JobOK, Honoured, LiveClaim, PassKept, releaseVars, ledgerVars, OnePhase, Level
<1>5. CarriedClaim(p)'
  <2>1. ASSUME worker[p].pc \in Carrying
        PROVE  /\ Says(slots[worker[p].slot], worker[p].binding, Level(worker[p].pc))
               /\ Carried(p, worker[p].slot, worker[p].binding, Level(worker[p].pc))
    BY <2>1 DEF Inv, Honoured, LiveClaim, CarriedClaim, Carrying, Serving
  <2> QED BY <1>1, <1>3, <2>1 DEF CarriedClaim, Carried, Backed, PassKept, CarriesOn, releaseVars, Level
<1>6. BackedClaim(p)'
  BY <1>1 DEF BackedClaim, BehindPass, Anchoring, Publishing, releaseVars, OnePhase
<1>7. FilesOK'
  BY <1>1, FilesStay DEF PassKept, releaseVars
<1> QED BY <1>1, <1>2, <1>4, <1>5, <1>6, <1>7, OneWorkerMoves
        DEF PassKept, releaseVars, OtherJobsStay, JobType, Inv, TypeOK, Honoured

-----------------------------------------------------------------------------
(* The rest of the world *)

\* The chain has nothing to do with a claim.
LEMMA ChainInv ==
  ASSUME Inv, ChainStep
  PROVE  Inv'
<1>0. TypeOK
  BY DEF Inv
<1>1. chain' \in [SlotIds -> Inclusion \cup {NoTx}]
  <2>1. ASSUME NEW s \in SlotIds, NEW b \in Bindings, NEW k \in Blocks, Mine(s, b, k)
        PROVE  chain' \in [SlotIds -> Inclusion \cup {NoTx}]
    BY <1>0, <2>1, DepthAssumption DEF Mine, TypeOK, Inclusion
  <2>2. ASSUME Extend PROVE chain' \in [SlotIds -> Inclusion \cup {NoTx}]
    <3>1. ASSUME NEW s \in SlotIds, chain[s] # NoTx
          PROVE  [chain[s] EXCEPT !.depth = @ + 1] \in Inclusion
      <4>1. chain[s] \in Inclusion /\ chain[s].depth < MaxDepth
        BY <1>0, <2>2, <3>1 DEF Extend, TypeOK
      <4>2. chain[s].depth + 1 \in 1 .. MaxDepth
        BY <4>1, DepthAssumption DEF Inclusion
      <4> QED BY <4>1, <4>2 DEF Inclusion
    <3> QED BY <2>2, <3>1 DEF Extend
  <2>3. ASSUME NEW s \in SlotIds, Reorganise(s)
        PROVE  chain' \in [SlotIds -> Inclusion \cup {NoTx}]
    BY <1>0, <2>3 DEF Reorganise, TypeOK
  <2> QED BY <2>1, <2>2, <2>3 DEF ChainStep
<1>2. UNCHANGED <<anchoredVars, protocol, worker, file, released, answered>>
  BY DEF ChainStep, Mine, Extend, Reorganise, ChainOnly
<1> QED BY <1>1, <1>2
        DEF Inv, TypeOK, AnchoredOK, AnchoredTypeOK, LedgerTypeOK, WitnessTypeOK, PassOK, StoreOK,
            JobOK, Honoured, LiveClaim, CarriedClaim, BackedClaim, BehindPass, Carried, Backed,
            FilesOK, AnswersArePublished, OnePhase, anchoredVars, ledgerVars, Level

\* Other processes add bytes that are not ours, or take a file away.
LEMMA DirectoryInv ==
  ASSUME Inv, OthersUseDirectory
  PROVE  Inv'
<1>1. PICK f \in Paths : PublishForeign(f) \/ Collect(f)
  BY DEF OthersUseDirectory
<1>2. file \in [Paths -> Responses \cup {Foreign, Absent}]
  BY DEF Inv, TypeOK
<1>3. PICK x \in {Foreign, Absent} : file' = [file EXCEPT ![f] = x]
  BY <1>1 DEF PublishForeign, LinkFile, Collect
<1>4. /\ file' \in [Paths -> Responses \cup {Foreign, Absent}]
      /\ \A g \in Paths : file'[g] \in released \cup {Foreign, Absent}
  BY <1>2, <1>3 DEF Inv, FilesOK
<1>5. UNCHANGED <<anchoredVars, protocol, chain, worker, released, answered>>
  BY DEF OthersUseDirectory, FilesOnly
<1> QED BY <1>4, <1>5
        DEF Inv, TypeOK, AnchoredOK, AnchoredTypeOK, LedgerTypeOK, WitnessTypeOK, PassOK, StoreOK,
            JobOK, Honoured, LiveClaim, CarriedClaim, BackedClaim, BehindPass, Carried, Backed,
            FilesOK, AnswersArePublished, OnePhase, anchoredVars, ledgerVars, Level

LEMMA InitInv == Init => Inv
<1> SUFFICES ASSUME Init PROVE Inv
  OBVIOUS
<1>1. LedgerTypeOK /\ WitnessTypeOK
  BY DEF Init, AnchoredInit, LedgerInit, WitnessInit, LedgerTypeOK, WitnessTypeOK, FreshRow,
         SlotRow, States, ZeroHash, EventHash, Hash
<1>2. disk \in Disk
  BY <1>1, RestorableAssumption
  DEF Init, AnchoredInit, CurrentDisk, Disk, LedgerTypeOK, WitnessTypeOK
<1>3. AnchoredTypeOK
  BY <1>1, <1>2, ConstantPasses, MaxRestoresAssumption DEF Init, AnchoredInit, AnchoredTypeOK
<1>4. TypeOK
  BY <1>3, ConstantJobs DEF Init, FilesInit, TypeOK
<1>5. \A p \in Workers : PassOK(p) /\ JobOK(p) /\ Honoured(p)
  BY DEF Init, AnchoredInit, PassOK, JobOK, Honoured, LiveClaim, CarriedClaim, BackedClaim,
         BehindPass, Idle, Down, NoJob, Resting, Serving, Carrying, Publishing
<1>6. StoreOK
  BY DEF Init, AnchoredInit, WitnessInit, StoreOK, Reliable
<1>7. FilesOK
  BY DEF Init, FilesInit, FilesOK, AnswersArePublished
<1> QED BY <1>3, <1>4, <1>5, <1>6, <1>7 DEF Inv, AnchoredOK

LEMMA StepInv == Inv /\ [Next]_vars => Inv'
<1> SUFFICES ASSUME Inv, [Next]_vars PROVE Inv'
  OBVIOUS
<1>1. ASSUME NEW p \in Workers, Asking(p) \/ Working(p) \/ WorkerFault(p) PROVE Inv'
  <2>1. 0 \in 0 .. MaxDepth
    BY DepthAssumption
  <2> QED
    BY <1>1, <2>1, AskInv, RestingStepsInv, ReadCoreInv, RaisingStepsInv, BeginInv, MovingStepsInv,
       CarryingStepsInv, InspectInv, PublishInv, PassInv
    DEF Asking, Working, WorkerFault
<1>2. CASE UNCHANGED vars
  BY <1>2
  DEF Inv, TypeOK, AnchoredOK, AnchoredTypeOK, LedgerTypeOK, WitnessTypeOK, PassOK, StoreOK,
      JobOK, Honoured, LiveClaim, CarriedClaim, BackedClaim, BehindPass, Carried, Backed,
      FilesOK, AnswersArePublished, OnePhase, vars, releaseVars, anchoredVars, ledgerVars, Level
<1> QED BY <1>1, <1>2, ChainInv, DirectoryInv DEF Next
-----------------------------------------------------------------------------
(* What follows for the runs' properties *)

(***************************************************************************)
(* In both sidecars a worker that looks at Core again, completes the slot  *)
(* or touches its output is backed by every witness outside the rollback   *)
(* domain, however workers, crashes, lost messages and the chain           *)
(* interleave; in the one-phase sidecar so is one that aborts.             *)
(***************************************************************************)
THEOREM ConfirmedClaimsAreHonoured == Spec => []Inv
  BY InitInv, StepInv, PTL DEF Spec

(***************************************************************************)
(* Every step leaves a well-typed state.                                   *)
(***************************************************************************)
THEOREM ConfirmedTypeCorrect == Spec => []TypeOK
  BY ConfirmedClaimsAreHonoured, PTL DEF Inv

(***************************************************************************)
(* When issue returns normally its response was published, by this worker  *)
(* or by one that wrote the same bytes.                                    *)
(***************************************************************************)
THEOREM AnswersPublished == Spec => []AnswersArePublished
  BY ConfirmedClaimsAreHonoured, PTL DEF Inv, FilesOK

(***************************************************************************)
(* No process replaces what another one published under the same name.     *)
(***************************************************************************)
THEOREM NamesAreWrittenOnce == Spec => PublishedNeverReplaced
<1>1. ASSUME Inv, Next, NEW f \in Paths, file[f] # Absent
      PROVE  file'[f] \in {file[f], Absent}
  <2>0. file \in [Paths -> Responses \cup {Foreign, Absent}]
    BY <1>1 DEF Inv, TypeOK
  <2>1. ASSUME NEW p \in Workers, Asking(p) \/ Working(p) \/ WorkerFault(p)
        PROVE  UNCHANGED file \/ PublishOutput(p)
    BY <2>1
    DEF Asking, Ask, Working, WorkerFault, Construct, Constructed, ConstructionFailed,
        ReadTransaction, ReadHeader, CoreDisagrees, BeginSlot, BeginRefused, ResponseBuilt,
        RecordConfirmed, BurnAnchored, NotAnchored, Succeed, SucceedRefused, SuccessAnchored,
        InspectOutput, OutputExists, LinkCollides, CompareOutput, Recover, Abort, AbortRefused,
        AbortAnchored, WorkerPass, WitnessTrouble, ResponseMalformed, CallFails, Crash,
        AnchorOnly, LedgerOnly, LedgerThenAnchor, WorkerOnly, releaseVars
  <2>2. ASSUME NEW p \in Workers, PublishOutput(p) PROVE file'[f] = file[f]
    BY <1>1, <2>0, <2>2 DEF PublishOutput, LinkFile
  <2>3. CASE OthersUseDirectory
    <3>1. PICK g \in Paths : PublishForeign(g) \/ Collect(g)
      BY <2>3 DEF OthersUseDirectory
    <3> QED BY <1>1, <2>0, <3>1 DEF PublishForeign, LinkFile, Collect
  <2>4. CASE ChainStep
    BY <2>4 DEF ChainStep, Mine, Extend, Reorganise, ChainOnly
  <2> QED BY <1>1, <2>1, <2>2, <2>3, <2>4 DEF Next
<1>2. Inv /\ [Next]_vars =>
        [\A f \in Paths : file[f] # Absent => file'[f] \in {file[f], Absent}]_file
  BY <1>1 DEF vars, releaseVars
<1> QED BY <1>2, ConfirmedClaimsAreHonoured, PTL DEF Spec, PublishedNeverReplaced

\* Which steps change a row of the ledger.
LEMMA RowSteps ==
  ASSUME [Next]_vars, slots' # slots
  PROVE  \E p \in Workers :
           BeginSlot(p) \/ BeginRefused(p) \/ ResponseMalformed(p) \/ Abort(p) \/ Succeed(p)
<1>1. ASSUME NEW p \in Workers, Asking(p) \/ Working(p) \/ WorkerFault(p)
      PROVE  BeginSlot(p) \/ BeginRefused(p) \/ ResponseMalformed(p) \/ Abort(p) \/ Succeed(p)
  <2>1. CASE WorkerPass(p) \/ WitnessTrouble(p)
    BY <2>1
    DEF WorkerPass, WitnessTrouble, PassProgress, PassFault, ReadEvents, ReadRow, Accepted,
        ReplyLost, Refused, Unreachable, ledgerVars
  <2>2. CASE ~ (WorkerPass(p) \/ WitnessTrouble(p))
    BY <1>1, <2>2
    DEF Asking, Ask, Working, WorkerFault, Construct, Constructed, ConstructionFailed,
        ReadTransaction, ReadHeader, CoreDisagrees, ResponseBuilt, RecordConfirmed, Observe,
        BurnAnchored, NotAnchored, SucceedRefused, SuccessAnchored, InspectOutput, PublishOutput,
        OutputExists, CompareOutput, Recover, AbortRefused, AbortAnchored, CallFails, Crash,
        FinalizeRefused, FinalizeFull, LogFull, NoEvent, AnchorOnly, LedgerOnly, WorkerOnly,
        FilesOnly, anchoredVars, ledgerVars
  <2> QED BY <2>1, <2>2
<1>2. ~ ChainStep /\ ~ OthersUseDirectory /\ ~ UNCHANGED vars
  BY DEF ChainStep, Mine, Extend, Reorganise, ChainOnly, OthersUseDirectory, FilesOnly, vars,
         anchoredVars, ledgerVars
<1> QED BY <1>1, <1>2 DEF Next

(***************************************************************************)
(* Neither sidecar completes a slot, and the one-phase sidecar does not    *)
(* abort one, before every reliable witness holds its burn.                *)
(***************************************************************************)
THEOREM OnlyWitnessedBurnsEnd == Spec => EndsOnlyWitnessedBurns
<1>1. ASSUME Inv, [Next]_vars, NEW s \in SlotIds, slots[s].state = "burned",
             slots'[s].state \in IF OnePhase THEN {"success", "abort"} ELSE {"success"}
      PROVE  BurnWitnessed(s)
  <2>1. slots \in [SlotIds -> SlotRow]
    BY <1>1, AtPlace DEF Inv, TypeOK, AnchoredTypeOK, LedgerTypeOK
  <2>2. slots' # slots /\ slots[s].state = "burned" /\ slots'[s].state \in {"success", "abort"}
        /\ (slots'[s].state = "abort" => OnePhase)
    BY <1>1
  <2>3. PICK p \in Workers :
          BeginSlot(p) \/ BeginRefused(p) \/ ResponseMalformed(p) \/ Abort(p) \/ Succeed(p)
    BY <1>1, <2>2, RowSteps
  <2>4. worker[p].slot \in SlotIds
    BY <1>1, AtPlace
  <2>5. ~ BeginSlot(p)
    BY <2>1, <2>2, <2>4 DEF BeginSlot, BeginBurn, BeginExact
  <2>6. ~ BeginRefused(p)
    BY <2>1, <2>2, <2>4 DEF BeginRefused, BeginExact, BeginPoisoned, BeginConflict, NoEvent,
                            ledgerVars, SlotRow
  <2>7. ~ ResponseMalformed(p)
    BY <2>1, <2>2, <2>4 DEF ResponseMalformed, Finalize, FinalizeBurned, FinalizeAgain,
                            FinalizeRefused, FinalizeFull, LogFull, NoEvent, ledgerVars, SlotRow
  <2>8. /\ worker[p].slot = s
        /\ worker[p].pc = "succeed" \/ (worker[p].pc = "abort" /\ OnePhase)
    BY <2>1, <2>2, <2>3, <2>4, <2>5, <2>6, <2>7
    DEF Abort, Succeed, At, FinalizeBurned, FinalizeAgain, NoEvent, ledgerVars, SlotRow
  <2>9. \A w \in Reliable : Backed(w, s, worker[p].binding, Level(worker[p].pc))
    BY <1>1, <2>8, Behind DEF BehindPass
  <2>10. slots[s].binding = worker[p].binding
    BY <1>1, <2>8 DEF Inv, Honoured, LiveClaim, Serving, Says
  <2> QED BY <2>9, <2>10 DEF Backed, Says, BurnWitnessed
<1>2. Inv /\ [Next]_vars =>
        [\A s \in SlotIds :
           (/\ slots[s].state = "burned"
            /\ slots'[s].state \in IF OnePhase THEN {"success", "abort"} ELSE {"success"})
             => BurnWitnessed(s)]_vars
  BY <1>1
<1> QED BY <1>2, ConfirmedClaimsAreHonoured, PTL DEF Spec, EndsOnlyWitnessedBurns

-----------------------------------------------------------------------------
(* The files and the witnesses implement the one-shot release *)

\* What a step does that somebody outside the participant can see: it offers a
\* checkpoint to a witness, publishes a response, or neither.
Offers(p, v) ==
  /\ anchor[p].at = "send"
  /\ Anchor(v, anchor[p].cp)
  /\ UNCHANGED released

Invisible == UNCHANGED <<store, released>>

LEMMA VisibleSteps ==
  ASSUME [Next]_vars
  PROVE  \/ \E p \in Workers : PublishOutput(p)
         \/ \E p \in Workers, v \in Witnesses : Offers(p, v)
         \/ Invisible
<1>1. ASSUME NEW p \in Workers, Asking(p) \/ Working(p) \/ WorkerFault(p)
      PROVE  PublishOutput(p) \/ (\E v \in Witnesses : Offers(p, v)) \/ Invisible
  <2>1. CASE WorkerPass(p) \/ WitnessTrouble(p)
    BY <2>1
    DEF WorkerPass, WitnessTrouble, PassProgress, PassFault, ReadEvents, ReadRow, Accepted,
        ReplyLost, Refused, Unreachable, releaseVars, Offers, Invisible
  <2>2. CASE ~ (WorkerPass(p) \/ WitnessTrouble(p))
    BY <1>1, <2>2
    DEF Asking, Ask, Working, WorkerFault, Construct, Constructed, ConstructionFailed,
        ReadTransaction, ReadHeader, CoreDisagrees, BeginSlot, BeginRefused, ResponseBuilt,
        RecordConfirmed, BurnAnchored, NotAnchored, Succeed, SucceedRefused, SuccessAnchored,
        InspectOutput, OutputExists, CompareOutput, Recover, Abort, AbortRefused,
        AbortAnchored, ResponseMalformed, CallFails, Crash, AnchorOnly, LedgerOnly,
        LedgerThenAnchor, WorkerOnly, FilesOnly, anchoredVars, Invisible
  <2> QED BY <2>1, <2>2
<1>2. ChainStep \/ OthersUseDirectory \/ UNCHANGED vars => Invisible
  BY DEF ChainStep, Mine, Extend, Reorganise, ChainOnly, OthersUseDirectory, FilesOnly, vars,
         releaseVars, anchoredVars, Invisible
<1> QED BY <1>1, <1>2 DEF Next

LEMMA TrustedFacts ==
  /\ TrustedWitness \in Reliable
  /\ TrustedWitness' = TrustedWitness
  /\ WitnessedRows = RowsAt(TrustedWitness)
  /\ WitnessedRows' = RowsAt(TrustedWitness)'
<1>1. Reliable # {}
  BY RestorableAssumption, ReliableAssumption DEF Reliable
<1> QED BY <1>1 DEF TrustedWitness, Reliable, WitnessedRows, RowsAt

\* The vocabulary of the abstract specification is that of the detailed one.
LEMMA SameVocabulary ==
  /\ Release!SlotIds = SlotIds
  /\ Release!Outcomes = Outcomes
  /\ Release!SlotRow = SlotRow
  /\ Release!FreshRow = FreshRow
  BY DEF Release!SlotIds, Release!Outcomes, Release!SlotRow, Release!States, Release!FreshRow,
         SlotIds, Outcomes, SlotRow, States, FreshRow

\* A checkpoint the trusted witness takes is a move of the slots; one that
\* another witness takes is not seen.
LEMMA OfferRefines ==
  ASSUME Inv, NEW p \in Workers, NEW v \in Witnesses, Offers(p, v)
  PROVE  Release!SlotsMove \/ UNCHANGED Release!releaseVars
<1>1. CASE v = TrustedWitness
  <2>1. PICK w \in Reliable : w = TrustedWitness
    BY TrustedFacts
  <2>2. /\ RowsAt(w)' \in [SlotIds -> SlotRow]
        /\ \A s \in SlotIds : RowMove(RowsAt(w)[s], RowsAt(w)'[s])
    BY <1>1, <2>1, OfferMoves DEF Inv, Offers
  <2>3. WitnessedRows = RowsAt(w) /\ WitnessedRows' = RowsAt(w)'
    BY <2>1, TrustedFacts DEF WitnessedRows, RowsAt
  <2>4. \A before, after : RowMove(before, after) =>
          after = before \/ Release!Bound(before, after) \/ Release!Ended(before, after)
    BY SameVocabulary DEF RowMove, Release!Bound, Release!Ended
  <2> QED BY <2>2, <2>3, <2>4, SameVocabulary DEF Release!SlotsMove, Offers
<1>2. CASE v # TrustedWitness
  <2>1. TrustedWitness \in Witnesses /\ store \in [Witnesses -> Checkpoint \cup {NoRecord}]
    BY TrustedFacts DEF Reliable, Inv, TypeOK, AnchoredTypeOK, WitnessTypeOK
  <2>2. store'[TrustedWitness] = store[TrustedWitness]
    BY <1>2, <2>1 DEF Offers, Anchor
  <2>3. WitnessedRows' = WitnessedRows
    BY <2>2, TrustedFacts DEF WitnessedRows
  <2> QED BY <2>3 DEF Offers, Release!releaseVars
<1> QED BY <1>1, <1>2

\* What a worker publishes, the trusted witness holds as completed.
LEMMA PublishRefines ==
  ASSUME Inv, NEW p \in Workers, PublishOutput(p)
  PROVE  \E s \in SlotIds, b \in Bindings : Release!PublishSeed(s, b)
<1>1. /\ worker[p].slot \in SlotIds /\ worker[p].binding \in Bindings /\ worker[p].pc = "link"
  BY AtPlace DEF PublishOutput, At, Resting
<1>2. Backed(TrustedWitness, worker[p].slot, worker[p].binding, "success")
  BY <1>1, Behind, TrustedFacts DEF BehindPass, Publishing, Level
<1>3. Says(WitnessedRows[worker[p].slot], worker[p].binding, "success")
  BY <1>2 DEF Backed, WitnessedRows
<1>4. /\ UNCHANGED store
      /\ released' = released \cup {<<worker[p].slot, worker[p].binding>>}
  BY DEF PublishOutput, FilesOnly, anchoredVars, Response
<1>5. WitnessedRows' = WitnessedRows
  BY <1>4, TrustedFacts DEF WitnessedRows
<1>6. Release!PublishSeed(worker[p].slot, worker[p].binding)
  BY <1>3, <1>4, <1>5 DEF Release!PublishSeed, Says
<1> QED BY <1>1, <1>6

LEMMA StepRefines == Inv /\ [Next]_vars => [Release!ReleaseNext]_Release!releaseVars
<1> SUFFICES ASSUME Inv, [Next]_vars PROVE [Release!ReleaseNext]_Release!releaseVars
  OBVIOUS
<1>1. ASSUME NEW p \in Workers, PublishOutput(p) PROVE Release!ReleaseNext
  BY <1>1, PublishRefines, SameVocabulary DEF Release!ReleaseNext
<1>2. ASSUME NEW p \in Workers, NEW v \in Witnesses, Offers(p, v)
      PROVE  Release!ReleaseNext \/ UNCHANGED Release!releaseVars
  BY <1>2, OfferRefines DEF Release!ReleaseNext
<1>3. CASE Invisible
  <2>1. WitnessedRows' = WitnessedRows
    BY <1>3, TrustedFacts DEF Invisible, WitnessedRows
  <2> QED BY <1>3, <2>1 DEF Invisible, Release!releaseVars
<1> QED BY <1>1, <1>2, <1>3, VisibleSteps

(***************************************************************************)
(* Either sidecar implements the one-shot release of OneShotRelease.tla,   *)
(* with the rows of a witness outside the rollback domain as the slots:    *)
(* a response leaves only after a success the witness has accepted, and    *)
(* one request per slot.                                                   *)
(***************************************************************************)
THEOREM ConfirmedImplementsRelease == Spec => ImplementsOneShotRelease
<1>1. Init => Release!ReleaseInit
  <2> SUFFICES ASSUME Init PROVE Release!ReleaseInit
    OBVIOUS
  <2>1. store[TrustedWitness] = NoRecord
    BY TrustedFacts DEF Init, AnchoredInit, WitnessInit, Reliable
  <2> QED BY <2>1, SameVocabulary DEF Init, Release!ReleaseInit, WitnessedRows
<1> QED BY <1>1, StepRefines, ConfirmedClaimsAreHonoured, PTL
        DEF Spec, ImplementsOneShotRelease, Release!ReleaseSpec
===============================================================================
