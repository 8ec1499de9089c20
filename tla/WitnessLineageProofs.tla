------------------------- MODULE WitnessLineageProofs -------------------------
(***************************************************************************)
(* Proofs about the checkpoints the witnesses outside the rollback domain  *)
(* hold, for any number of slots, requests, workers, witnesses and events: *)
(* the log behind them never forks however often the disk is put back, and *)
(* where it never is, they fall out with the live ledger in one way only.  *)
(***************************************************************************)
EXTENDS WitnessLineage, TwoPhaseSidecarProofs

(***************************************************************************)
(* The argument.  A checkpoint is read from the live log and its worker    *)
(* dies when the disk is put back, so the checkpoint of a pass is always   *)
(* on the live log.  Putting the disk back cuts the log, and a witness may *)
(* then hold more events than there are; it refuses every checkpoint until *)
(* the log is as long again.  The log cannot get that long: only a worker  *)
(* that serves requests appends, and a new worker serves none before every *)
(* witness has accepted the log as the disk left it.                       *)
(***************************************************************************)

LogEndsAtHead ==
  /\ log \in Seq(Hash)
  /\ Len(log) = count
  /\ count > 0 => log[count] = head

\* The live log passes through this checkpoint (or snapshot).
OnLog(cp) ==
  /\ cp.count <= count
  /\ cp.count > 0 => log[cp.count] = cp.head

Follows(w) == store[w] # NoRecord => OnLog(store[w])
Ahead(w) == store[w] # NoRecord /\ store[w].count > count

Serves(p) == worker[p].pc \notin {"down", "boot"}

PassFollows(p) ==
  /\ anchor[p].at \in {"rows", "send", "done"} => OnLog(anchor[p].cp)
  /\ anchor[p].at \in {"send", "done"} => \A w \in Reliable \ anchor[p].todo : Follows(w)

Lineage ==
  /\ LogEndsAtHead
  /\ OnLog(disk)
  /\ \A p \in Workers : PassFollows(p)
  /\ \A w \in Reliable : Follows(w) \/ Ahead(w)
  /\ \A p \in Workers : Serves(p) => \A w \in Reliable : Follows(w)

-----------------------------------------------------------------------------
(* The steps, as far as log, witnesses and passes see them *)

LogStays == UNCHANGED <<slots, count, head>>
LogGrows == count' = count + 1 /\ head' = EventHash(count + 1, now)

\* What a worker does outside of its anchoring passes.
OwnStep(p) == Constructing(p) \/ PhaseOne(p) \/ PhaseTwo(p) \/ LabelsMalformed(p)
              \/ PhaseTwoRaises(p) \/ Crash(p)

PassStep(p) == WorkerPass(p) \/ WitnessTrouble(p)

\* An operation of the ledger appends one event or none.
LEMMA BeginAppends ==
  ASSUME LedgerTypeOK, NEW s \in SlotIds, NEW b \in Bindings, Begin(s, b)
  PROVE  (LogStays \/ LogGrows) /\ LedgerKept
<1>1. LogStays \/ LogGrows
  BY DEF Begin, BeginBurn, BeginExact, BeginPoisoned, BeginConflict, NoEvent, AppendEvent,
         ledgerVars, LogStays, LogGrows
<1> QED
  BY <1>1, BeginBurnKept, BeginExactKept, BeginConflictKept, UnchangedKept
  DEF Begin, BeginPoisoned, NoEvent

LEMMA LaterCallAppends ==
  ASSUME LedgerTypeOK, NEW s \in SlotIds,
         Observe(s) \/ \E outcome \in Outcomes : Finalize(s, outcome)
  PROVE  (LogStays \/ LogGrows) /\ LedgerKept
<1>1. LogStays \/ LogGrows
  BY DEF Observe, Finalize, FinalizeBurned, FinalizeAgain, FinalizeRefused, FinalizeFull, LogFull,
         NoEvent, AppendEvent, ledgerVars, LogStays, LogGrows
<1> QED
  BY <1>1, ObserveKept, FinalizeBurnedKept, FinalizeRaisesKept DEF Finalize

OwnStepSeen(p) ==
  /\ UNCHANGED <<store, disk>>
  /\ PassReset(p)
  /\ \A q \in Workers \ {p} : worker'[q] = worker[q]
  /\ LogStays \/ (LogGrows /\ Serves(p))
  /\ LedgerKept /\ UNCHANGED restores
  /\ worker'[p].pc \notin {"down", "boot"} => Serves(p) \/ anchor[p].at = "done"

LEMMA OwnSteps ==
  ASSUME Inv, NEW p \in Workers, OwnStep(p)
  PROVE  OwnStepSeen(p)
<1>t. TypeOK /\ LedgerTypeOK /\ worker[p].slot \in SlotIds
      /\ (Serves(p) /\ worker[p].pc # "ready" => worker[p].binding \in Bindings)
  BY AtPlace DEF Inv, Serves, Serving, TypeOK, Job
<1>k. UNCHANGED ledgerVars => LedgerKept
  BY <1>t, UnchangedKept
<1>0. /\ worker \in [Workers -> Job]
      /\ \A place : Goto(p, place) => worker'[p].pc = place
      /\ \A place : Goto(p, place) => \A q \in Workers \ {p} : worker'[q] = worker[q]
      /\ Finish(p) => \A q \in Workers \ {p} : worker'[q] = worker[q]
  BY <1>t DEF TypeOK, Goto, Finish, Job
<1> USE DEF OwnStepSeen, PassReset, Serves, LogStays, ledgerVars
<1>1. CASE Constructing(p)
  BY <1>0, <1>k, <1>1 DEF Constructing, Construct, Constructed, ConstructionFailed, AnchorAt, PassEnded
<1>2. CASE PhaseOne(p)
  <2>1. ASSUME NEW s \in SlotIds, NEW b \in Bindings,
               RequestLabels(p, s, b) \/ RequestLabelsRefused(p, s, b)
        PROVE  OwnStepSeen(p)
    <3>1. (LogStays \/ LogGrows) /\ LedgerKept
      BY <1>t, <2>1, BeginAppends DEF RequestLabels, RequestLabelsRefused, Begin
    <3> QED
      BY <1>0, <1>k, <2>1, <3>1 DEF RequestLabels, RequestLabelsRefused, At, NoJob
  <2>2. CASE LabelsBuilt(p) \/ LabelsAnchored(p) \/ LabelsNotAnchored(p) \/ WriteLabels(p)
    BY <1>0, <1>k, <2>2 DEF LabelsBuilt, LabelsAnchored, LabelsNotAnchored, WriteLabels, At, AnchorAt,
                      PassEnded
  <2> QED
    BY <1>2, <2>1, <2>2 DEF PhaseOne
<1>3. CASE PhaseTwo(p)
  <2>1. ASSUME NEW s \in SlotIds, NEW b \in Bindings, RequestSeed(p, s, b) PROVE OwnStepSeen(p)
    BY <1>0, <1>k, <2>1 DEF RequestSeed, At
  <2>2. ASSUME NEW k \in Blocks, ReadCore(p, k) PROVE OwnStepSeen(p)
    BY <1>0, <1>k, <2>2 DEF ReadCore, At
  <2>3. CASE PrepareSeed(p) \/ PrepareSeedPoisoned(p)
    <3>1. (LogStays \/ LogGrows) /\ LedgerKept
      BY <1>t, <2>3, BeginAppends DEF PrepareSeed, PrepareSeedPoisoned, Begin, At
    <3> QED
      BY <1>0, <1>k, <2>3, <3>1 DEF PrepareSeed, PrepareSeedPoisoned, At
  <2>4. CASE RecordConfirmed(p)
    <3>1. (LogStays \/ LogGrows) /\ LedgerKept
      BY <1>t, <2>4, LaterCallAppends DEF RecordConfirmed
    <3> QED
      BY <1>0, <1>k, <2>4, <3>1 DEF RecordConfirmed, At, AnchorAt
  <2>5. CASE ConfirmedAnchored(p) \/ ConfirmedNotAnchored(p) \/ RereadCore(p) \/ CoreDisagrees(p)
    BY <1>0, <1>k, <2>5 DEF ConfirmedAnchored, ConfirmedNotAnchored, RereadCore, CoreDisagrees, At,
                      PassEnded
  <2>6. CASE Abort(p) \/ AbortRefused(p) \/ Succeed(p) \/ SucceedRefused(p)
    <3>1. (LogStays \/ LogGrows) /\ LedgerKept
      BY <1>t, <2>6, LaterCallAppends
      DEF Abort, AbortRefused, Succeed, SucceedRefused, Finalize, Outcomes
    <3> QED
      BY <1>0, <1>k, <2>6, <3>1 DEF Abort, AbortRefused, Succeed, SucceedRefused, At, AnchorAt
  <2>7. CASE AbortAnchored(p) \/ SuccessAnchored(p) \/ SuccessNotAnchored(p) \/ WriteSeed(p)
    BY <1>0, <1>k, <2>7 DEF AbortAnchored, SuccessAnchored, SuccessNotAnchored, WriteSeed, At, PassEnded
  <2> QED
    BY <1>3, <2>1, <2>2, <2>3, <2>4, <2>5, <2>6, <2>7 DEF PhaseTwo
<1>4. CASE LabelsMalformed(p)
  <2>1. (LogStays \/ LogGrows) /\ LedgerKept
    BY <1>t, <1>4, LaterCallAppends DEF LabelsMalformed, Outcomes
  <2> QED
    BY <1>0, <1>k, <1>4, <2>1 DEF LabelsMalformed, At
<1>5. CASE PhaseTwoRaises(p)
  BY <1>0, <1>k, <1>5 DEF PhaseTwoRaises
<1>6. CASE Crash(p)
  BY <1>0, <1>k, <1>6 DEF Crash, Down
<1> QED
  BY <1>1, <1>2, <1>3, <1>4, <1>5, <1>6 DEF OwnStep

\* What the history variable does.
LEMMA LogRemembered ==
  ASSUME LogEndsAtHead, TypeOK, Remember, LogStays \/ LogGrows, head' \in Hash
  PROVE  /\ LogEndsAtHead'
         /\ \A n \in 1 .. count : log'[n] = log[n]
         /\ count <= count'
<1>1. log \in Seq(Hash) /\ Len(log) = count /\ count \in Nat
  BY DEF LogEndsAtHead, TypeOK, AnchoredTypeOK, LedgerTypeOK
<1>2. CASE LogStays
  <2>1. log' = SubSeq(log, 1, count) /\ count' = count /\ head' = head
    BY <1>1, <1>2 DEF Remember, LogStays
  <2>2. log' = log
    BY <1>1, <2>1
  <2> QED
    BY <1>1, <2>1, <2>2 DEF LogEndsAtHead
<1>3. CASE LogGrows
  <2>1. log' = Append(log, head') /\ count' = count + 1
    BY <1>1, <1>3 DEF Remember, LogGrows
  <2> QED
    BY <1>1, <2>1 DEF LogEndsAtHead
<1> QED
  BY <1>2, <1>3

\* While the log only grows, what was on it stays on it.
LEMMA OnLogKept ==
  ASSUME count \in Nat, count' \in Nat, count <= count', \A n \in 1 .. count : log'[n] = log[n],
         NEW cp, cp.count \in Nat, OnLog(cp)
  PROVE  cp.count <= count' /\ (cp.count > 0 => log'[cp.count] = cp.head)
  BY DEF OnLog

\* The types the proof uses.
LEMMA CheckpointTypes ==
  ASSUME TypeOK
  PROVE  /\ count \in Nat /\ head \in Hash
         /\ disk.count \in Nat
         /\ \A p \in Workers : anchor[p] \in Pass /\ anchor[p].cp \in Checkpoint
         /\ \A p \in Workers : anchor[p].cp.count \in Nat
         /\ Reliable \subseteq Witnesses
         /\ \A w \in Witnesses : store[w] # NoRecord => store[w] \in Checkpoint
         /\ \A w \in Witnesses : store[w] # NoRecord => store[w].count \in Nat
<1>1. /\ count \in Nat /\ head \in Hash /\ disk.count \in Nat
      /\ \A p \in Workers : anchor[p] \in Pass
      /\ \A w \in Witnesses : store[w] # NoRecord => store[w] \in Checkpoint
      /\ Reliable \subseteq Witnesses
  BY DEF TypeOK, AnchoredTypeOK, LedgerTypeOK, WitnessTypeOK, Disk, Reliable
<1>2. \A p \in Workers : anchor[p].cp \in Checkpoint
  BY <1>1 DEF Pass
<1> QED
  BY <1>1, <1>2 DEF Checkpoint

\* A step of a worker that no pass takes keeps the lineage.
LEMMA OwnStepsKeep ==
  ASSUME Inv, TypeOK', Lineage, NEW p \in Workers, OwnStep(p), Remember
  PROVE  Lineage'
<1>0. TypeOK /\ PassOK(p)
  BY DEF Inv
<1>1. OwnStepSeen(p)
  BY OwnSteps
<1>2. /\ count \in Nat /\ count' \in Nat /\ head' \in Hash
      /\ disk.count \in Nat /\ Reliable \subseteq Witnesses
      /\ \A q \in Workers : anchor[q].cp.count \in Nat
      /\ \A w \in Witnesses : store[w] # NoRecord => store[w].count \in Nat
  BY <1>0, CheckpointTypes DEF TypeOK, AnchoredTypeOK, LedgerTypeOK
<1>3. LogEndsAtHead' /\ count <= count' /\ \A n \in 1 .. count : log'[n] = log[n]
  BY <1>0, <1>1, <1>2, LogRemembered DEF OwnStepSeen, Lineage
<1>4. OnLog(disk)'
  BY <1>1, <1>2, <1>3 DEF OwnStepSeen, Lineage, OnLog
<1>5. ASSUME NEW w \in Reliable, Follows(w) PROVE Follows(w)'
  BY <1>1, <1>2, <1>3, <1>5 DEF OwnStepSeen, Follows, OnLog
<1>6. ASSUME NEW w \in Reliable PROVE Follows(w)' \/ Ahead(w)'
  <2>1. CASE Follows(w)
    BY <1>5, <2>1
  <2>2. CASE ~ Follows(w)
    <3>1. Ahead(w) /\ LogStays
      BY <1>1, <2>2 DEF OwnStepSeen, Lineage
    <3> QED
      BY <1>1, <3>1 DEF OwnStepSeen, Ahead, LogStays
  <2> QED
    BY <2>1, <2>2
<1>7. ASSUME NEW q \in Workers PROVE PassFollows(q)'
  <2>1. CASE anchor'[q] = anchor[q]
    <3>1. anchor'[q].at \in {"rows", "send", "done"} => OnLog(anchor[q].cp)'
      BY <1>2, <1>3, <2>1 DEF Lineage, PassFollows, OnLog
    <3> QED
      BY <1>5, <2>1, <3>1 DEF Lineage, PassFollows, Reliable
  <2>2. CASE anchor'[q] = Idle \/ anchor'[q] = Started
    BY <2>2 DEF PassFollows, Idle, Started
  <2> QED
    BY <1>0, <1>1, <2>1, <2>2 DEF OwnStepSeen, PassReset, TypeOK, AnchoredTypeOK
<1>8. ASSUME NEW q \in Workers, Serves(q)', NEW w \in Reliable PROVE Follows(w)'
  <2>1. CASE Serves(q)
    BY <1>5, <2>1 DEF Lineage
  <2>2. CASE ~ Serves(q)
    <3>1. q = p /\ anchor[p].at = "done"
      BY <1>1, <1>8, <2>2 DEF OwnStepSeen, Serves
    <3> QED
      BY <1>0, <1>5, <3>1 DEF Lineage, PassFollows, PassOK
  <2> QED
    BY <2>1, <2>2
<1> QED
  BY <1>3, <1>4, <1>6, <1>7, <1>8 DEF Lineage

\* A reliable witness that accepts a checkpoint on the live log was on the log
\* itself: one that is ahead refuses it.
LEMMA AcceptingFollows ==
  ASSUME TypeOK, Lineage, NEW w \in Reliable, NEW cp \in Checkpoint, OnLog(cp), CanAnchor(w, cp)
  PROVE  Follows(w)
<1>1. /\ count \in Nat /\ cp.count \in Nat /\ cp # NoRecord
      /\ store[w] # NoRecord => store[w].count \in Nat
  BY CheckpointTypes, NoRecordAssumption DEF Checkpoint
<1>2. ~ Ahead(w)
  BY <1>1 DEF Ahead, CanAnchor, ValidTransition, OnLog
<1> QED
  BY <1>2 DEF Lineage

\* A pass reads the end of the log, or one more row.
ReadsLedger(p) ==
  /\ \/ anchor'[p].at = "rows"
     \/ anchor'[p].at = "send" /\ anchor'[p].todo = Witnesses
  /\ \/ anchor'[p].cp.count = count /\ anchor'[p].cp.head = head
     \/ /\ anchor[p].at = "rows"
        /\ anchor'[p].cp.count = anchor[p].cp.count /\ anchor'[p].cp.head = anchor[p].cp.head
  /\ \A s \in SlotIds : anchor'[p].cp.slots[s] \in {slots[s], anchor[p].cp.slots[s]}

\* What a step of a pass does to the pass and the witnesses.
PassStepSeen(p) ==
  /\ UNCHANGED <<worker, disk, restores, slots, count, head>>
  /\ \A q \in Workers \ {p} : anchor'[q] = anchor[q]
  /\ \/ /\ UNCHANGED store
        /\ \/ anchor'[p] = Failed
           \/ ReadsLedger(p)
     \/ \E w \in Witnesses :
          /\ anchor[p].at = "send"
          /\ Anchor(w, anchor[p].cp)
          /\ \/ anchor'[p] = Failed
             \/ /\ anchor'[p].cp = anchor[p].cp
                /\ anchor'[p].todo = anchor[p].todo \ {w}

LEMMA RowKeepsEvents ==
  ASSUME NEW pass \in Pass, NEW i \in SlotIds, NEW row, pass.at = "rows",
         NEW new, new = WithRow(pass, i, row), new # Failed
  PROVE  /\ new.cp.count = pass.cp.count /\ new.cp.head = pass.cp.head
         /\ new.at = "rows" \/ (new.at = "send" /\ new.todo = Witnesses)
         /\ new.cp.slots[i] = row
         /\ \A s \in SlotIds \ {i} : new.cp.slots[s] = pass.cp.slots[s]
<1> DEFINE cp == [pass.cp EXCEPT !.slots = [@ EXCEPT ![i] = row]]
           grown == [pass EXCEPT !.cp = cp, !.read = i + 1]
<1>1. pass.cp \in Checkpoint
  BY DEF Pass
<1>2. /\ cp.count = pass.cp.count /\ cp.head = pass.cp.head /\ cp.slots[i] = row
      /\ \A s \in SlotIds \ {i} : cp.slots[s] = pass.cp.slots[s]
  BY <1>1 DEF Checkpoint
<1> HIDE DEF cp
<1>3. grown.cp = cp /\ grown.at = "rows" /\ DOMAIN grown = {"at", "cp", "read", "todo"}
  BY DEF Pass
<1>4. new \in {grown, [grown EXCEPT !.at = "send", !.todo = Witnesses], Failed}
  BY DEF WithRow, cp
<1> HIDE DEF grown
<1>5. \/ new.cp = cp /\ new.at = "rows"
      \/ new.cp = cp /\ new.at = "send" /\ new.todo = Witnesses
  <2>1. CASE new = grown
    BY <1>3, <2>1
  <2>2. CASE new = [grown EXCEPT !.at = "send", !.todo = Witnesses]
    BY <1>3, <2>2
  <2> QED
    BY <1>4, <2>1, <2>2
<1> QED
  BY <1>2, <1>5

LEMMA PassSteps ==
  ASSUME TypeOK, NEW p \in Workers, PassOK(p), PassStep(p)
  PROVE  PassStepSeen(p)
<1>0. anchor \in [Workers -> Pass] /\ anchor[p] \in Pass /\ anchor[p].cp \in Checkpoint
  BY DEF TypeOK, AnchoredTypeOK, Pass
<1>1. UNCHANGED worker /\ (PassProgress(p) \/ PassFault(p))
  BY DEF PassStep, WorkerPass, WitnessTrouble, sidecarVars
<1>2. CASE ReadEvents(p)
  <2>1. /\ anchor'[p] = [anchor[p] EXCEPT !.at = "rows",
                                          !.cp = [@ EXCEPT !.count = count, !.head = head]]
        /\ \A q \in Workers \ {p} : anchor'[q] = anchor[q]
    BY <1>0, <1>2 DEF ReadEvents
  <2>2. /\ anchor'[p].at = "rows" /\ anchor'[p].cp.count = count /\ anchor'[p].cp.head = head
        /\ anchor'[p].cp.slots = anchor[p].cp.slots
    <3>1. PICK cp : cp = [anchor[p].cp EXCEPT !.count = count, !.head = head]
      OBVIOUS
    <3>2. cp.count = count /\ cp.head = head /\ cp.slots = anchor[p].cp.slots
      BY <1>0, <3>1 DEF Checkpoint
    <3>3. anchor'[p] = [anchor[p] EXCEPT !.at = "rows", !.cp = cp]
      BY <2>1, <3>1
    <3>4. anchor'[p].at = "rows" /\ anchor'[p].cp = cp
      BY <1>0, <3>3 DEF Pass
    <3> QED
      BY <3>2, <3>4
  <2> QED
    BY <1>1, <1>2, <2>1, <2>2 DEF ReadEvents, ReadsLedger, PassStepSeen, ledgerVars
<1>3. CASE ReadRow(p)
  <2>1. /\ anchor'[p] = WithRow(anchor[p], anchor[p].read, slots[anchor[p].read])
        /\ \A q \in Workers \ {p} : anchor'[q] = anchor[q]
        /\ anchor[p].at = "rows"
    BY <1>0, <1>3 DEF ReadRow
  <2>2. anchor[p].read \in SlotIds
    BY <1>0, <2>1, SlotCountAssumption DEF PassOK, Pass, SlotIds
  <2>3. anchor'[p] # Failed => ReadsLedger(p)
    BY <1>0, <2>1, <2>2, RowKeepsEvents DEF ReadsLedger
  <2> QED
    BY <1>1, <1>3, <2>1, <2>3 DEF ReadRow, PassStepSeen, ledgerVars
<1>4. ASSUME NEW w \in Witnesses, Accepted(p, w) PROVE PassStepSeen(p)
  <2>1. /\ anchor'[p].cp = anchor[p].cp /\ anchor'[p].todo = anchor[p].todo \ {w}
        /\ \A q \in Workers \ {p} : anchor'[q] = anchor[q]
    BY <1>0, <1>4 DEF Accepted, Pass
  <2> QED
    BY <1>1, <1>4, <2>1 DEF Accepted, PassStepSeen, ledgerVars
<1>5. ASSUME NEW w \in Witnesses, ReplyLost(p, w) PROVE PassStepSeen(p)
  BY <1>0, <1>1, <1>5 DEF ReplyLost, PassStepSeen, ledgerVars
<1>6. CASE (\E w \in Witnesses : Refused(p, w)) \/ Unreachable(p)
  BY <1>0, <1>1, <1>6 DEF Refused, Unreachable, PassStepSeen, ledgerVars
<1> QED
  BY <1>1, <1>2, <1>3, <1>4, <1>5, <1>6 DEF PassProgress, PassFault

\* A step of a pass keeps the lineage.
LEMMA PassStepsKeep ==
  ASSUME Inv, TypeOK', Lineage, NEW p \in Workers, PassStep(p), Remember
  PROVE  Lineage'
<1>0. TypeOK /\ PassOK(p)
  BY DEF Inv
<1>1. PassStepSeen(p)
  BY <1>0, PassSteps
<1>2. /\ count \in Nat /\ Reliable \subseteq Witnesses /\ head' \in Hash
      /\ \A q \in Workers : anchor[q].cp \in Checkpoint
      /\ store \in [Witnesses -> Checkpoint \cup {NoRecord}]
  BY <1>0, CheckpointTypes DEF TypeOK, AnchoredTypeOK, LedgerTypeOK, WitnessTypeOK
<1>3. LogEndsAtHead' /\ log' = log /\ count' = count
  <2>1. count' = count /\ head' = head
    BY <1>1 DEF PassStepSeen
  <2>2. log \in Seq(Hash) /\ Len(log) = count
    BY DEF Lineage, LogEndsAtHead
  <2>3. log' = SubSeq(log, 1, count)
    BY <1>2, <2>1 DEF Remember
  <2>4. log' = log
    BY <2>2, <2>3
  <2> QED
    BY <2>1, <2>4 DEF Lineage, LogEndsAtHead
<1>4. \A cp : OnLog(cp) => cp.count <= count' /\ (cp.count > 0 => log'[cp.count] = cp.head)
  BY <1>3 DEF OnLog
<1>5. ASSUME NEW w \in Reliable PROVE (Follows(w)' \/ Ahead(w)') /\ (Follows(w) => Follows(w)')
  <2>1. CASE store'[w] = store[w]
    BY <1>3, <1>4, <2>1 DEF Lineage, Follows, Ahead, OnLog
  <2>2. CASE store'[w] # store[w]
    <3>1. store'[w] = anchor[p].cp /\ anchor[p].at = "send"
      BY <1>1, <1>2, <2>2 DEF PassStepSeen, Anchor
    <3>2. OnLog(anchor[p].cp)
      BY <3>1 DEF Lineage, PassFollows
    <3> QED
      BY <1>4, <3>1, <3>2 DEF Follows, OnLog
  <2> QED
    BY <2>1, <2>2
<1>6. ASSUME NEW q \in Workers, anchor'[q] = anchor[q] PROVE PassFollows(q)'
  <2>1. anchor'[q].at \in {"rows", "send", "done"} => OnLog(anchor[q].cp)'
    BY <1>4, <1>6 DEF Lineage, PassFollows, OnLog
  <2> QED
    BY <1>5, <1>6, <2>1 DEF Lineage, PassFollows, Reliable
<1>7. PassFollows(p)'
  <2>1. CASE anchor'[p] = Failed
    BY <2>1 DEF PassFollows, Failed, Idle
  <2>2. CASE ReadsLedger(p) /\ anchor'[p].cp.count = count /\ anchor'[p].cp.head = head
    <3>1. OnLog(anchor[p].cp)'
      BY <1>2, <1>3, <2>2 DEF OnLog, Lineage, LogEndsAtHead
    <3> QED
      BY <1>2, <2>2, <3>1 DEF PassFollows, ReadsLedger, Reliable
  <2>3. CASE /\ ReadsLedger(p) /\ anchor[p].at = "rows"
             /\ anchor'[p].cp.count = anchor[p].cp.count /\ anchor'[p].cp.head = anchor[p].cp.head
    <3>1. OnLog(anchor[p].cp)
      BY <2>3 DEF Lineage, PassFollows
    <3>2. OnLog(anchor[p].cp)'
      BY <1>3, <2>3, <3>1 DEF OnLog
    <3> QED
      BY <1>2, <2>3, <3>2 DEF PassFollows, ReadsLedger, Reliable
  <2>4. ASSUME NEW w \in Witnesses, anchor[p].at = "send", Anchor(w, anchor[p].cp),
               anchor'[p].cp = anchor[p].cp, anchor'[p].todo = anchor[p].todo \ {w}
        PROVE  PassFollows(p)'
    <3>1. OnLog(anchor[p].cp)
      BY <2>4 DEF Lineage, PassFollows
    <3>2. OnLog(anchor[p].cp)'
      BY <1>4, <2>4, <3>1 DEF OnLog
    <3>3. ASSUME NEW v \in Reliable \ (anchor[p].todo \ {w}) PROVE Follows(v)'
      <4>1. CASE v = w
        <5>1. store'[w] = anchor[p].cp
          BY <1>2, <2>4 DEF Anchor
        <5> QED
          BY <2>4, <3>2, <4>1, <5>1 DEF Follows, OnLog
      <4>2. CASE v # w
        BY <1>5, <2>4, <3>3, <4>2 DEF Lineage, PassFollows
      <4> QED
        BY <4>1, <4>2
    <3> QED
      BY <2>4, <3>2, <3>3 DEF PassFollows, Reliable
  <2> QED
    BY <1>1, <2>1, <2>2, <2>3, <2>4 DEF PassStepSeen, ReadsLedger
<1>8. \A q \in Workers : PassFollows(q)'
  BY <1>1, <1>6, <1>7 DEF PassStepSeen
<1>9. OnLog(disk)' /\ \A q \in Workers : Serves(q)' => Serves(q)
  BY <1>1, <1>4 DEF PassStepSeen, Lineage, OnLog, Serves
<1> QED
  BY <1>3, <1>5, <1>8, <1>9 DEF Lineage, Reliable

\* The disk is put back: the log is cut where the snapshot ended, and the
\* witnesses beyond that point are ahead.
LEMMA RestoreKeeps ==
  ASSUME TypeOK, TypeOK', Lineage, RestoreDisk, Remember
  PROVE  Lineage'
<1>1. /\ count' = disk.count /\ head' = disk.head /\ UNCHANGED disk
      /\ anchor' = [p \in Workers |-> Idle] /\ worker' = [p \in Workers |-> Down]
      /\ \A w \in Reliable : store'[w] = store[w]
  BY DEF RestoreDisk, Restore, Reliable
<1>2. /\ log \in Seq(Hash) /\ Len(log) = count /\ count \in Nat /\ disk.count \in Nat
      /\ disk.count <= count /\ (disk.count > 0 => log[disk.count] = disk.head)
      /\ Reliable \subseteq Witnesses
      /\ \A w \in Witnesses : store[w] # NoRecord => store[w].count \in Nat
  BY CheckpointTypes DEF Lineage, LogEndsAtHead, OnLog
<1>3. log' = SubSeq(log, 1, disk.count)
  BY <1>1, <1>2 DEF Remember
<1>4. /\ log' \in Seq(Hash) /\ Len(log') = disk.count
      /\ \A n \in 1 .. disk.count : log'[n] = log[n]
  BY <1>2, <1>3
<1>5. LogEndsAtHead' /\ OnLog(disk)'
  BY <1>1, <1>2, <1>4 DEF LogEndsAtHead, OnLog
<1>6. \A p \in Workers : PassFollows(p)' /\ ~ Serves(p)'
  BY <1>1 DEF PassFollows, Serves, Idle, Down, NoJob
<1>7. ASSUME NEW w \in Reliable PROVE Follows(w)' \/ Ahead(w)'
  <2>1. CASE store[w] = NoRecord
    BY <1>1, <2>1 DEF Follows
  <2>2. CASE store[w] # NoRecord /\ store[w].count > disk.count
    BY <1>1, <2>2 DEF Ahead
  <2>3. CASE store[w] # NoRecord /\ ~ (store[w].count > disk.count)
    <3>1. store[w].count \in Nat /\ store[w].count <= disk.count
      BY <1>2, <2>3
    <3>2. OnLog(store[w])
      BY <1>2, <2>3, <3>1 DEF Lineage, Follows, Ahead
    <3> QED
      BY <1>1, <1>2, <1>4, <3>1, <3>2 DEF Follows, OnLog
  <2> QED
    BY <2>1, <2>2, <2>3
<1> QED
  BY <1>5, <1>6, <1>7 DEF Lineage

\* The chain and the copying of the disk.
LEMMA OthersKeep ==
  ASSUME TypeOK, TypeOK', Lineage, ChainStep \/ Snapshot, Remember
  PROVE  Lineage'
<1>1. UNCHANGED <<worker, anchor, store, count, head>>
  BY DEF ChainStep, Mine, Reorganise, Snapshot, TakeSnapshot, sidecarVars, anchoredVars, ledgerVars
<1>2. log' = log
  <2>1. log \in Seq(Hash) /\ Len(log) = count /\ count \in Nat
    BY CheckpointTypes DEF Lineage, LogEndsAtHead
  <2>2. log' = SubSeq(log, 1, count)
    BY <1>1, <2>1 DEF Remember
  <2> QED
    BY <2>1, <2>2
<1>3. \/ disk'.count = disk.count /\ disk'.head = disk.head
      \/ disk'.count = count /\ disk'.head = head
  <2>1. CASE ChainStep
    BY <2>1 DEF ChainStep, Mine, Reorganise, anchoredVars
  <2>2. CASE Snapshot
    BY <2>2 DEF Snapshot, TakeSnapshot, CurrentDisk
  <2> QED
    BY <2>1, <2>2
<1>4. OnLog(disk)'
  BY <1>1, <1>2, <1>3, CheckpointTypes DEF Lineage, LogEndsAtHead, OnLog
<1> QED
  BY <1>1, <1>2, <1>4
  DEF Lineage, LogEndsAtHead, PassFollows, Follows, Ahead, OnLog, Serves, Reliable

-----------------------------------------------------------------------------
(* The lineage of every history, and what a witness accepts in it *)

LEMMA LineageSteps ==
  ASSUME [LineageNext]_lineageVars
  PROVE  \/ UNCHANGED lineageVars
         \/ /\ Remember
            /\ \/ \E p \in Workers : OwnStep(p) \/ PassStep(p)
               \/ ChainStep \/ Snapshot
               \/ RestoreDisk
  BY DEF LineageNext, WorkerStep, WorkerFault, OwnStep, PassStep

LEMMA StepLineage == Inv /\ TypeOK' /\ Lineage /\ [LineageNext]_lineageVars => Lineage'
<1> SUFFICES ASSUME Inv, TypeOK', Lineage, [LineageNext]_lineageVars PROVE Lineage'
  OBVIOUS
<1>1. TypeOK
  BY DEF Inv
<1>2. CASE UNCHANGED lineageVars
  BY <1>2 DEF lineageVars, vars, anchoredVars, sidecarVars, ledgerVars, Lineage, LogEndsAtHead,
              OnLog, PassFollows, Follows, Ahead, Serves
<1> QED
  BY <1>1, <1>2, LineageSteps, OwnStepsKeep, PassStepsKeep, RestoreKeeps, OthersKeep

LEMMA InitLineage == LineageInit => Lineage
<1> SUFFICES ASSUME LineageInit PROVE Lineage
  OBVIOUS
<1>1. /\ log = <<>> /\ count = 0
      /\ disk.count = 0 /\ \A w \in Witnesses : store[w] = NoRecord
      /\ \A p \in Workers : anchor[p].at = "none" /\ worker[p].pc = "down"
  BY DEF LineageInit, Init, AnchoredInit, LedgerInit, WitnessInit, CurrentDisk, Idle, Down, NoJob
<1> QED
  BY <1>1 DEF Lineage, LogEndsAtHead, OnLog, PassFollows, Follows, Serves, Reliable

\* The history variable only watches: what it watches is the sidecar.
LEMMA LineageIsSidecar == LineageSpec => Spec
<1>1. LineageInit => Init
  BY DEF LineageInit
<1>2. [LineageNext]_lineageVars => [Next]_vars
  BY DEF LineageNext, Next, lineageVars
<1> QED
  BY <1>1, <1>2, PTL DEF LineageSpec, Spec

\* Every checkpoint under way is on the live log, and every witness outside
\* the rollback domain is on it too, or ahead of it while nobody serves.
THEOREM LineageHolds == LineageSpec => []Lineage
<1>1. LineageSpec => []Inv
  BY LineageIsSidecar, ClaimsAreHonoured, PTL
<1>2. Inv => TypeOK
  BY DEF Inv
<1> QED
  BY <1>1, <1>2, InitLineage, StepLineage, PTL DEF LineageSpec

\* What the record of a reliable witness may change to.
ExtendsRecord(w) ==
  (store[w] # NoRecord /\ store'[w] # store[w] /\ store[w].count > 0) =>
    store[w].count \in DOMAIN log /\ log[store[w].count] = store[w].head

LEMMA StepExtends ==
  ASSUME Inv, Lineage, [LineageNext]_lineageVars, NEW w \in Reliable
  PROVE  ExtendsRecord(w)
<1> SUFFICES ASSUME store[w] # NoRecord, store'[w] # store[w], store[w].count > 0
             PROVE  store[w].count \in DOMAIN log /\ log[store[w].count] = store[w].head
  BY DEF ExtendsRecord
<1>0. /\ TypeOK /\ w \in Witnesses
      /\ store \in [Witnesses -> Checkpoint \cup {NoRecord}]
  BY DEF Inv, TypeOK, AnchoredTypeOK, WitnessTypeOK, Reliable
<1>1. PICK p \in Workers : PassStep(p)
  <2>1. \A p \in Workers : OwnStep(p) => UNCHANGED store
    BY OwnSteps DEF OwnStepSeen
  <2>2. ~ UNCHANGED store /\ ~ RestoreDisk
    BY DEF RestoreDisk, Restore, Reliable
  <2> QED
    BY <2>1, <2>2, LineageSteps
    DEF lineageVars, vars, anchoredVars, ChainStep, Mine, Reorganise, Snapshot, TakeSnapshot
<1>2. anchor[p].at = "send" /\ Anchor(w, anchor[p].cp)
  <2>1. PassStepSeen(p)
    BY <1>0, <1>1, PassSteps DEF Inv
  <2> QED
    BY <1>0, <2>1 DEF PassStepSeen, Anchor
<1>3. anchor[p].cp \in Checkpoint /\ OnLog(anchor[p].cp)
  BY <1>0, <1>2, CheckpointTypes DEF Lineage, PassFollows
<1>4. Follows(w)
  BY <1>0, <1>2, <1>3, AcceptingFollows DEF Anchor
<1>5. store[w].count \in Nat /\ log \in Seq(Hash) /\ Len(log) = count
  BY <1>0, CheckpointTypes DEF Lineage, LogEndsAtHead
<1> QED
  BY <1>4, <1>5 DEF Follows, OnLog

(***************************************************************************)
(* The audit log a reliable witness follows never forks: the head it held  *)
(* is on the log of the checkpoint it accepts, for any number of restored  *)
(* disks, crashes and concurrent workers.  The witness compares counts and *)
(* heads only; that a new process anchors before it serves does the rest.  *)
(***************************************************************************)
THEOREM WitnessedLogsNeverFork == LineageSpec => AcceptsOnlyExtensions
<1>1. Inv /\ Lineage /\ [LineageNext]_lineageVars =>
        [\A w \in Reliable :
           (store[w] # NoRecord /\ store'[w] # store[w] /\ store[w].count > 0) =>
             store[w].count \in DOMAIN log /\ log[store[w].count] = store[w].head]_lineageVars
  BY StepExtends DEF ExtendsRecord
<1>2. LineageSpec => []Inv
  BY LineageIsSidecar, ClaimsAreHonoured, PTL
<1> QED
  BY <1>1, <1>2, LineageHolds, PTL DEF LineageSpec, AcceptsOnlyExtensions

-----------------------------------------------------------------------------
(***************************************************************************)
(* While no disk has been put back.  Every checkpoint, under way or        *)
(* stored, is the past of the live ledger: it has as many events with the  *)
(* same head, or fewer, and every row has become what the ledger shows by  *)
(* the ledger's own operations.  So a witness could accept the live ledger *)
(* except where a slot was burned and ended unseen.                        *)
(***************************************************************************)

RowsPast(cp) == \A s \in SlotIds : RowKept(cp.slots[s], slots[s])

EventsPast(cp) ==
  /\ cp.count <= count
  /\ cp.count = count => cp.head = head
  /\ cp.head.seq = cp.count

\* Every witness has the ledger.
Known == \A w \in Witnesses : store[w] # NoRecord

PassPast(p) ==
  /\ RowsPast(anchor[p].cp)
  /\ anchor[p].at \in {"rows", "send", "done"} => EventsPast(anchor[p].cp)
  /\ anchor[p].at \in {"send", "done"} =>
       \A w \in Witnesses \ anchor[p].todo : store[w] # NoRecord

WitnessPast(w) ==
  store[w] # NoRecord =>
    /\ RowsPast(store[w])
    /\ EventsPast(store[w])
    /\ \A s \in SlotIds : WellFormedRow(store[w].slots[s])

Behind ==
  /\ head.seq = count
  /\ count = 0 => \A s \in SlotIds : slots[s].state = "available"
  /\ count > 0 => Known
  /\ \A p \in Workers : PassPast(p) /\ (Serves(p) => Known)
  /\ \A w \in Witnesses : WitnessPast(w)

LEMMA RowKeptChain ==
  ASSUME NEW before, NEW between, NEW after, RowKept(before, between), RowKept(between, after)
  PROVE  RowKept(before, after)
  BY DEF RowKept, Outcomes

\* What was the past stays the past while the ledger goes on.
LEMMA PastKept ==
  ASSUME TypeOK, LedgerKept, LogStays \/ LogGrows, NEW cp, cp.count \in Nat
  PROVE  /\ RowsPast(cp) => \A s \in SlotIds : RowKept(cp.slots[s], slots'[s])
         /\ EventsPast(cp) => /\ cp.count <= count'
                              /\ cp.count = count' => cp.head = head'
                              /\ cp.head.seq = cp.count
<1>1. count \in Nat
  BY CheckpointTypes
<1>2. EventsPast(cp) => /\ cp.count <= count'
                        /\ cp.count = count' => cp.head = head'
                        /\ cp.head.seq = cp.count
  BY <1>1 DEF EventsPast, LogStays, LogGrows
<1>3. RowsPast(cp) => \A s \in SlotIds : RowKept(cp.slots[s], slots'[s])
  BY RowKeptChain DEF RowsPast, LedgerKept
<1> QED
  BY <1>2, <1>3

\* Nothing has been consumed in the checkpoint a pass starts with.
LEMMA FreshPast == RowsPast(EmptyCheckpoint) /\ \A s \in SlotIds : RowKept(FreshRow, slots'[s])
  BY DEF RowsPast, EmptyCheckpoint, FreshRow, RowKept

LEMMA OwnStepsBehind ==
  ASSUME Inv, Behind, NEW p \in Workers, OwnStep(p)
  PROVE  Behind'
<1>0. TypeOK /\ PassOK(p)
  BY DEF Inv
<1>1. OwnStepSeen(p)
  BY OwnSteps
<1>2. /\ count \in Nat /\ anchor \in [Workers -> Pass]
      /\ \A q \in Workers : anchor[q].cp.count \in Nat
      /\ \A w \in Witnesses : store[w] # NoRecord => store[w].count \in Nat
  BY <1>0, CheckpointTypes DEF TypeOK, AnchoredTypeOK
<1>3. LedgerKept /\ (LogStays \/ LogGrows) /\ UNCHANGED store
  BY <1>1 DEF OwnStepSeen
<1>4. head'.seq = count' /\ (count' = 0 => \A s \in SlotIds : slots'[s].state = "available")
  BY <1>2, <1>3 DEF Behind, LogStays, LogGrows, EventHash
<1>5. Serves(p) \/ anchor[p].at = "done" => Known
  BY <1>0 DEF Behind, PassPast, PassOK, Known
<1>6. count' > 0 => Known'
  BY <1>1, <1>2, <1>5 DEF OwnStepSeen, Behind, LogStays, Known
<1>7. ASSUME NEW q \in Workers PROVE PassPast(q)' /\ (Serves(q)' => Known')
  <2>1. Serves(q)' => Known'
    BY <1>1, <1>5 DEF OwnStepSeen, Serves, Behind, Known
  <2>2. CASE anchor'[q] = anchor[q]
    <3>1. /\ RowsPast(anchor[q].cp)
          /\ anchor[q].at \in {"rows", "send", "done"} => EventsPast(anchor[q].cp)
          /\ anchor[q].at \in {"send", "done"} =>
               \A w \in Witnesses \ anchor[q].todo : store[w] # NoRecord
      BY DEF Behind, PassPast
    <3>2. /\ \A s \in SlotIds : RowKept(anchor[q].cp.slots[s], slots'[s])
          /\ anchor[q].at \in {"rows", "send", "done"} =>
               /\ anchor[q].cp.count <= count'
               /\ anchor[q].cp.count = count' => anchor[q].cp.head = head'
               /\ anchor[q].cp.head.seq = anchor[q].cp.count
      BY <1>0, <1>2, <1>3, <3>1, PastKept
    <3> QED
      BY <1>3, <2>1, <2>2, <3>1, <3>2 DEF PassPast, RowsPast, EventsPast
  <2>3. CASE anchor'[q] = Idle \/ anchor'[q] = Started
    <3>1. anchor'[q].cp = EmptyCheckpoint /\ anchor'[q].at \in {"none", "events"}
      BY <2>3 DEF Idle, Started
    <3> QED
      BY <2>1, <3>1, FreshPast DEF PassPast, RowsPast, EmptyCheckpoint
  <2> QED
    BY <1>1, <1>2, <2>2, <2>3 DEF OwnStepSeen, PassReset
<1>8. ASSUME NEW w \in Witnesses PROVE WitnessPast(w)'
  <2> SUFFICES ASSUME store[w] # NoRecord PROVE WitnessPast(w)'
    BY <1>3 DEF WitnessPast
  <2>1. RowsPast(store[w]) /\ EventsPast(store[w]) /\ \A s \in SlotIds : WellFormedRow(store[w].slots[s])
    BY DEF Behind, WitnessPast
  <2>2. /\ \A s \in SlotIds : RowKept(store[w].slots[s], slots'[s])
        /\ store[w].count <= count'
        /\ store[w].count = count' => store[w].head = head'
        /\ store[w].head.seq = store[w].count
    BY <1>0, <1>2, <1>3, <2>1, PastKept
  <2> QED
    BY <1>3, <2>1, <2>2 DEF WitnessPast, RowsPast, EventsPast
<1> QED
  BY <1>4, <1>6, <1>7, <1>8 DEF Behind

LEMMA PassStepsBehind ==
  ASSUME Inv, Behind, NEW p \in Workers, PassStep(p)
  PROVE  Behind'
<1>0. TypeOK /\ PassOK(p)
  BY DEF Inv
<1>1. PassStepSeen(p)
  BY <1>0, PassSteps
<1>2. /\ anchor \in [Workers -> Pass] /\ anchor[p].cp \in Checkpoint
      /\ store \in [Witnesses -> Checkpoint \cup {NoRecord}]
      /\ count \in Nat
  BY <1>0, CheckpointTypes DEF TypeOK, AnchoredTypeOK, WitnessTypeOK
<1>3. UNCHANGED <<worker, slots, count, head>>
  BY <1>1 DEF PassStepSeen
<1>4. \A cp : /\ RowsPast(cp) => \A s \in SlotIds : RowKept(cp.slots[s], slots'[s])
              /\ EventsPast(cp) => /\ cp.count <= count'
                                   /\ cp.count = count' => cp.head = head'
                                   /\ cp.head.seq = cp.count
  BY <1>3 DEF RowsPast, EventsPast
<1>5. ASSUME NEW w \in Witnesses
      PROVE  /\ store[w] # NoRecord => store'[w] # NoRecord
             /\ WitnessPast(w)'
  <2>1. CASE store'[w] = store[w]
    BY <1>4, <2>1 DEF Behind, WitnessPast, RowsPast, EventsPast
  <2>2. CASE store'[w] # store[w]
    <3>1. store'[w] = anchor[p].cp /\ anchor[p].at = "send"
      BY <1>1, <1>2, <2>2 DEF PassStepSeen, Anchor
    <3>2. RowsPast(anchor[p].cp) /\ EventsPast(anchor[p].cp)
      BY <3>1 DEF Behind, PassPast
    <3>3. \A s \in SlotIds : WellFormedRow(anchor[p].cp.slots[s])
      BY <1>0, <3>1 DEF PassOK
    <3> QED
      BY <1>2, <1>4, <3>1, <3>2, <3>3, NoRecordAssumption DEF WitnessPast, RowsPast, EventsPast
  <2> QED
    BY <2>1, <2>2
<1>6. ASSUME NEW q \in Workers, anchor'[q] = anchor[q] PROVE PassPast(q)'
  <2>1. /\ \A s \in SlotIds : RowKept(anchor[q].cp.slots[s], slots'[s])
        /\ anchor[q].at \in {"rows", "send", "done"} =>
             /\ anchor[q].cp.count <= count'
             /\ anchor[q].cp.count = count' => anchor[q].cp.head = head'
             /\ anchor[q].cp.head.seq = anchor[q].cp.count
        /\ anchor[q].at \in {"send", "done"} =>
             \A w \in Witnesses \ anchor[q].todo : store[w] # NoRecord
    BY <1>4 DEF Behind, PassPast
  <2> QED
    BY <1>5, <1>6, <2>1 DEF PassPast, RowsPast, EventsPast
<1>7. PassPast(p)'
  <2>1. CASE anchor'[p] = Failed
    <3>1. anchor'[p].cp = EmptyCheckpoint /\ anchor'[p].at = "failed"
      BY <2>1 DEF Failed, Idle
    <3> QED
      BY <3>1, FreshPast DEF PassPast, RowsPast, EmptyCheckpoint
  <2>2. CASE ReadsLedger(p)
    <3>1. ASSUME NEW s \in SlotIds PROVE RowKept(anchor'[p].cp.slots[s], slots'[s])
      <4>1. RowKept(slots[s], slots'[s])
        BY <1>3 DEF RowKept
      <4>2. RowKept(anchor[p].cp.slots[s], slots'[s])
        BY <1>4 DEF Behind, PassPast
      <4> QED
        BY <2>2, <4>1, <4>2 DEF ReadsLedger
    <3>2. /\ anchor'[p].cp.count <= count'
          /\ anchor'[p].cp.count = count' => anchor'[p].cp.head = head'
          /\ anchor'[p].cp.head.seq = anchor'[p].cp.count
      <4>1. CASE anchor'[p].cp.count = count /\ anchor'[p].cp.head = head
        BY <1>2, <1>3, <4>1 DEF Behind
      <4>2. CASE /\ anchor[p].at = "rows"
                 /\ anchor'[p].cp.count = anchor[p].cp.count
                 /\ anchor'[p].cp.head = anchor[p].cp.head
        BY <1>3, <4>2 DEF Behind, PassPast, EventsPast
      <4> QED
        BY <2>2, <4>1, <4>2 DEF ReadsLedger
    <3>3. anchor'[p].at = "rows" \/ (anchor'[p].at = "send" /\ anchor'[p].todo = Witnesses)
      BY <2>2 DEF ReadsLedger
    <3> QED
      BY <3>1, <3>2, <3>3 DEF PassPast, RowsPast, EventsPast
  <2>3. ASSUME NEW w \in Witnesses, anchor[p].at = "send", Anchor(w, anchor[p].cp),
               anchor'[p].cp = anchor[p].cp, anchor'[p].todo = anchor[p].todo \ {w}
        PROVE  PassPast(p)'
    <3>1. /\ \A s \in SlotIds : RowKept(anchor[p].cp.slots[s], slots'[s])
          /\ anchor[p].cp.count <= count'
          /\ anchor[p].cp.count = count' => anchor[p].cp.head = head'
          /\ anchor[p].cp.head.seq = anchor[p].cp.count
      BY <1>4, <2>3 DEF Behind, PassPast
    <3>2. store'[w] # NoRecord
      BY <1>2, <2>3, NoRecordAssumption DEF Anchor
    <3>3. \A v \in Witnesses \ (anchor[p].todo \ {w}) : store'[v] # NoRecord
      BY <1>5, <2>3, <3>2 DEF Behind, PassPast
    <3> QED
      BY <2>3, <3>1, <3>3 DEF PassPast, RowsPast, EventsPast
  <2> QED
    BY <1>1, <2>1, <2>2, <2>3 DEF PassStepSeen
<1>8. Known => Known'
  BY <1>5 DEF Known
<1> QED
  BY <1>1, <1>3, <1>5, <1>6, <1>7, <1>8 DEF Behind, PassStepSeen, Serves

WitnessesBehind == restores = 0 => Behind

LEMMA StepBehind == Inv /\ WitnessesBehind /\ [Next]_vars => WitnessesBehind'
<1> SUFFICES ASSUME Inv, WitnessesBehind, [Next]_vars, restores' = 0 PROVE Behind'
  BY DEF WitnessesBehind
<1>0. restores \in Nat
  BY DEF Inv, TypeOK, AnchoredTypeOK
<1>1. ~ RestoreDisk
  BY <1>0 DEF RestoreDisk, Restore
<1>2. ASSUME NEW p \in Workers, OwnStep(p) PROVE Behind'
  BY <1>2, OwnSteps, OwnStepsBehind DEF OwnStepSeen, WitnessesBehind
<1>3. ASSUME NEW p \in Workers, PassStep(p) PROVE Behind'
  BY <1>3, PassSteps, PassStepsBehind DEF PassStepSeen, WitnessesBehind, Inv
<1>4. CASE ChainStep \/ Snapshot \/ UNCHANGED vars
  <2>1. UNCHANGED <<worker, anchor, store, restores, slots, count, head>>
    BY <1>4 DEF ChainStep, Mine, Reorganise, Snapshot, TakeSnapshot, vars, sidecarVars,
                anchoredVars, ledgerVars
  <2> QED
    BY <2>1 DEF WitnessesBehind, Behind, Known, PassPast, WitnessPast, RowsPast, EventsPast, Serves
<1> QED
  BY <1>1, <1>2, <1>3, <1>4 DEF Next, WorkerStep, WorkerFault, OwnStep, PassStep

LEMMA InitBehind == Init => WitnessesBehind
<1> SUFFICES ASSUME Init PROVE Behind
  BY DEF WitnessesBehind
<1>1. /\ count = 0 /\ head.seq = 0 /\ \A s \in SlotIds : slots[s].state = "available"
      /\ \A w \in Witnesses : store[w] = NoRecord
      /\ \A p \in Workers : /\ anchor[p].at = "none" /\ anchor[p].cp = EmptyCheckpoint
                            /\ worker[p].pc = "down"
  BY DEF Init, AnchoredInit, LedgerInit, WitnessInit, Idle, Down, NoJob, FreshRow, ZeroHash, EventHash
<1> QED
  BY <1>1, FreshPast DEF Behind, PassPast, WitnessPast, Serves

\* Until a disk is put back, every checkpoint is the past of the live ledger.
THEOREM CheckpointsStayBehind == Spec => []WitnessesBehind
  BY InitBehind, StepBehind, ClaimsAreHonoured, PTL DEF Spec

LEMMA BehindAccepts ==
  ASSUME Inv, Behind, NEW w \in Witnesses
  PROVE  \/ CanAnchor(w, LiveCheckpoint)
         \/ /\ store[w] # NoRecord
            /\ \E s \in SlotIds : store[w].slots[s].state = "available" /\ Terminal(slots[s])
<1>0. /\ count \in Nat /\ (store[w] # NoRecord => store[w] \in Checkpoint /\ store[w].count \in Nat)
      /\ \A s \in SlotIds : slots[s].state \in States
      /\ LiveCheckpoint.count = count /\ LiveCheckpoint.head = head /\ LiveCheckpoint.slots = slots
  BY CheckpointTypes DEF Inv, TypeOK, AnchoredTypeOK, LedgerTypeOK, SlotRow, LiveCheckpoint
<1>1. CASE store[w] = NoRecord
  <2>1. count = 0 /\ \A s \in SlotIds : slots[s].state = "available"
    BY <1>0, <1>1 DEF Behind, Known
  <2> QED
    BY <1>0, <1>1, <2>1 DEF CanAnchor, IsGenesis
<1>2. CASE store[w] # NoRecord /\ \A s \in SlotIds :
             store[w].slots[s].state = "available" => ~ Terminal(slots[s])
  <2>1. RowsPast(store[w]) /\ EventsPast(store[w]) /\ \A s \in SlotIds : WellFormedRow(store[w].slots[s])
    BY <1>2 DEF Behind, WitnessPast
  <2>2. /\ count >= store[w].count
        /\ count = store[w].count => head = store[w].head
        /\ count > store[w].count => head # store[w].head
    BY <1>0, <1>2, <2>1 DEF EventsPast, Behind
  <2>3. ASSUME NEW s \in SlotIds PROVE Monotonic(store[w].slots[s], slots[s])
    <3>1. /\ RowKept(store[w].slots[s], slots[s]) /\ WellFormedRow(store[w].slots[s])
          /\ slots[s].state \in States
          /\ store[w].slots[s].state = "available" => slots[s].state \notin Outcomes
      BY <1>0, <1>2, <2>1 DEF RowsPast, Terminal
    <3> QED
      BY <3>1 DEF RowKept, WellFormedRow, Monotonic, States, Outcomes
  <2> QED
    BY <1>0, <1>2, <2>2, <2>3 DEF CanAnchor, ValidTransition
<1> QED
  BY <1>1, <1>2

(***************************************************************************)
(* As long as no disk was put back, the witnesses refuse the live ledger   *)
(* only because some slot ended before they saw its burn, for any number   *)
(* of workers, crashes and lost answers (rollback_witness.py, _monotonic). *)
(***************************************************************************)
THEOREM RefusalsNeedARestore == Spec => [](restores = 0 => OnlySkippedBurnsAreRefused)
<1>1. Inv /\ WitnessesBehind => (restores = 0 => OnlySkippedBurnsAreRefused)
  BY BehindAccepts DEF WitnessesBehind, OnlySkippedBurnsAreRefused
<1> QED
  BY <1>1, CheckpointsStayBehind, ClaimsAreHonoured, PTL

(***************************************************************************)
(* Where no disk can be put back, a refused ledger always has such a slot. *)
(***************************************************************************)
THEOREM OnlySkippedBurns ==
  ASSUME MaxRestores = 0
  PROVE  Spec => []OnlySkippedBurnsAreRefused
<1>1. Inv => restores = 0
  BY DEF Inv, TypeOK, AnchoredTypeOK
<1> QED
  BY <1>1, RefusalsNeedARestore, ClaimsAreHonoured, PTL
===============================================================================
