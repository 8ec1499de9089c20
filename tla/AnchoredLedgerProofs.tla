------------------------- MODULE AnchoredLedgerProofs -------------------------
(***************************************************************************)
(* Lemmas about AnchoredLedger that the proofs about its clients share:    *)
(* what ledger, passes and witnesses keep, and how a claim about a slot    *)
(* travels from the live ledger through a checkpoint to the witnesses.     *)
(***************************************************************************)
EXTENDS AnchoredLedger, TLAPS

-----------------------------------------------------------------------------
(* What the operations of the ledger keep *)

\* A consumed row keeps its binding, is not reopened, and keeps its outcome.
RowKept(before, after) ==
  before.state # "available" =>
    /\ after.state # "available"
    /\ after.binding = before.binding
    /\ before.state \in Outcomes => after.state = before.state

LedgerKept == LedgerTypeOK' /\ \A s \in SlotIds : RowKept(slots[s], slots'[s])

LEMMA UnchangedKept == ASSUME LedgerTypeOK, UNCHANGED ledgerVars PROVE LedgerKept
  BY DEF LedgerTypeOK, ledgerVars, LedgerKept, RowKept

LEMMA AppendType == ASSUME LedgerTypeOK, AppendEvent PROVE count' \in Nat /\ head' \in Hash /\ now' \in Nat
  BY DEF LedgerTypeOK, AppendEvent, Hash, EventHash

LEMMA BeginBurnKept ==
  ASSUME LedgerTypeOK, NEW s \in SlotIds, NEW b \in Bindings, BeginBurn(s, b)
  PROVE  LedgerKept /\ slots'[s].state = "burned" /\ slots'[s].binding = b
  BY AppendType DEF BeginBurn, LedgerTypeOK, LedgerKept, RowKept, SlotRow, States

LEMMA BeginExactKept ==
  ASSUME LedgerTypeOK, NEW s \in SlotIds, NEW b \in Bindings, BeginExact(s, b)
  PROVE  LedgerKept /\ UNCHANGED slots
  BY AppendType DEF BeginExact, LedgerTypeOK, LedgerKept, RowKept

LEMMA BeginConflictKept ==
  ASSUME LedgerTypeOK, NEW s \in SlotIds, NEW b \in Bindings, BeginConflict(s, b)
  PROVE  LedgerKept
<1> DEFINE state == IF slots[s].state = "burned" THEN "retry-rejected" ELSE slots[s].state
<1>1. state \in States
  BY DEF LedgerTypeOK, SlotRow, States, Outcomes
<1>2. slots' = [slots EXCEPT ![s].state = state]
  BY DEF BeginConflict
<1>3. slots' \in [SlotIds -> SlotRow]
  BY <1>1, <1>2 DEF LedgerTypeOK, SlotRow
<1>4. slots'[s].state = state /\ slots'[s].binding = slots[s].binding
  BY <1>2 DEF LedgerTypeOK, SlotRow
<1>5. RowKept(slots[s], slots'[s])
  BY <1>4 DEF RowKept, BeginConflict, Outcomes
<1>6. \A t \in SlotIds \ {s} : RowKept(slots[t], slots'[t])
  BY <1>2 DEF LedgerTypeOK, RowKept
<1> QED BY <1>3, <1>5, <1>6, AppendType DEF BeginConflict, LedgerKept, LedgerTypeOK

LEMMA FinalizeBurnedKept ==
  ASSUME LedgerTypeOK, NEW s \in SlotIds, NEW outcome \in Outcomes, FinalizeBurned(s, outcome)
  PROVE  /\ LedgerKept
         /\ slots'[s].state = outcome
         /\ slots'[s].binding = slots[s].binding
<1>1. slots' \in [SlotIds -> SlotRow]
  BY DEF FinalizeBurned, LedgerTypeOK, SlotRow, States
<1>2. slots'[s].state = outcome /\ slots'[s].binding = slots[s].binding
  BY DEF FinalizeBurned, LedgerTypeOK, SlotRow
<1>3. \A t \in SlotIds \ {s} : slots'[t] = slots[t]
  BY DEF FinalizeBurned, LedgerTypeOK
<1>4. \A t \in SlotIds : RowKept(slots[t], slots'[t])
  BY <1>2, <1>3 DEF FinalizeBurned, RowKept, Outcomes
<1> QED BY <1>1, <1>2, <1>4, AppendType DEF FinalizeBurned, LedgerKept, LedgerTypeOK

LEMMA ObserveKept ==
  ASSUME LedgerTypeOK, NEW s \in SlotIds, Observe(s)
  PROVE  LedgerKept /\ UNCHANGED slots
  BY AppendType DEF Observe, LedgerTypeOK, LedgerKept, RowKept

\* The outcomes of finalize that change nothing.
LEMMA FinalizeRaisesKept ==
  ASSUME LedgerTypeOK, NEW s \in SlotIds, NEW outcome \in Outcomes,
         FinalizeAgain(s, outcome) \/ FinalizeRefused(s, outcome) \/ FinalizeFull(s)
  PROVE  LedgerKept
  BY UnchangedKept DEF FinalizeAgain, FinalizeRefused, FinalizeFull, LogFull, NoEvent

-----------------------------------------------------------------------------
(* Passes and witnesses *)

\* How far a pass has come: rows are read in order, and all of them before the
\* checkpoint is well formed and sent.
PassOK(p) ==
  /\ anchor[p].at = "events" => anchor[p].read = 0
  /\ anchor[p].at = "rows" => anchor[p].read < SlotCount
  /\ anchor[p].at \in {"send", "done"} =>
       /\ anchor[p].read = SlotCount
       /\ \A s \in SlotIds : WellFormedRow(anchor[p].cp.slots[s])
  /\ anchor[p].at = "done" => anchor[p].todo = {}

\* What a reliable witness holds is well formed.
StoreOK ==
  \A w \in Reliable : store[w] # NoRecord =>
    \A s \in SlotIds : WellFormedRow(store[w].slots[s])

AnchoredOK ==
  /\ AnchoredTypeOK
  /\ \A p \in Workers : PassOK(p)
  /\ StoreOK

\* The passes that are written in one piece.
LEMMA ConstantPasses == {Idle, Started, Failed} \subseteq Pass
<1>1. EmptyCheckpoint \in Checkpoint
  BY DEF EmptyCheckpoint, Checkpoint, FreshRow, SlotRow, States, ZeroHash, EventHash, Hash
<1>2. 0 \in 0 .. SlotCount
  BY SlotCountAssumption
<1> QED BY <1>1, <1>2 DEF Idle, Started, Failed, Pass

\* A reliable witness never loses a record nor a consumed row.
StoreKept ==
  \A w \in Reliable : store[w] # NoRecord =>
    /\ store'[w] # NoRecord
    /\ \A s \in SlotIds : RowKept(store[w].slots[s], store'[w].slots[s])

LEMMA UnchangedStoreKept == ASSUME UNCHANGED store PROVE StoreKept
  BY DEF StoreKept, RowKept

\* The passes of the others, and everything a pass does not touch.
OtherPassesStay(p) == \A q \in Workers \ {p} : anchor'[q] = anchor[q]

\* _monotonic keeps what a consumed row says.
LEMMA MonotonicKept ==
  ASSUME NEW before \in SlotRow, NEW after, WellFormedRow(before), Monotonic(before, after)
  PROVE  RowKept(before, after)
  BY DEF SlotRow, States, WellFormedRow, Monotonic, RowKept, Outcomes

LEMMA AnchorKept ==
  ASSUME AnchoredOK, NEW w \in Witnesses, NEW cp \in Checkpoint, Anchor(w, cp),
         \A s \in SlotIds : WellFormedRow(cp.slots[s])
  PROVE  StoreKept /\ StoreOK' /\ WitnessTypeOK' /\ store'[w] = cp
<1>1. /\ store \in [Witnesses -> Checkpoint \cup {NoRecord}]
      /\ store' = [store EXCEPT ![w] = cp]
      /\ CanAnchor(w, cp)
  BY DEF AnchoredOK, AnchoredTypeOK, WitnessTypeOK, Anchor
<1>2. /\ WitnessTypeOK' /\ store'[w] = cp /\ cp # NoRecord
      /\ \A v \in Witnesses \ {w} : store'[v] = store[v]
  BY <1>1, NoRecordAssumption DEF WitnessTypeOK
<1>3. Reliable \subseteq Witnesses
  BY DEF Reliable
<1>4. StoreOK'
  BY <1>2, <1>3 DEF AnchoredOK, StoreOK
<1>5. ASSUME NEW v \in Reliable, store[v] # NoRecord, NEW s \in SlotIds
      PROVE  RowKept(store[v].slots[s], store'[v].slots[s])
  <2>1. CASE v = w /\ cp # store[w]
    <3>1. Monotonic(store[v].slots[s], cp.slots[s])
      BY <1>1, <1>5, <2>1 DEF CanAnchor, ValidTransition
    <3>2. store[v].slots[s] \in SlotRow /\ WellFormedRow(store[v].slots[s])
      BY <1>1, <1>3, <1>5 DEF Checkpoint, AnchoredOK, StoreOK
    <3> QED BY <1>2, <2>1, <3>1, <3>2, MonotonicKept
  <2>2. CASE v # w \/ cp = store[w]
    BY <1>2, <1>3, <2>2 DEF RowKept
  <2> QED BY <2>1, <2>2
<1> QED BY <1>2, <1>3, <1>4, <1>5 DEF StoreKept

\* What a step may do to the pass of worker p without being a step of the pass.
PassReset(p) ==
  \/ UNCHANGED anchor
  \/ anchor' = [anchor EXCEPT ![p] = Idle]
  \/ anchor' = [anchor EXCEPT ![p] = Started]

LEMMA ResetKeeps ==
  ASSUME AnchoredOK, LedgerKept, UNCHANGED <<store, disk, restores>>,
         NEW p \in Workers, PassReset(p)
  PROVE  AnchoredOK' /\ StoreKept /\ OtherPassesStay(p)
<1>1. StoreKept /\ StoreOK' /\ WitnessTypeOK'
  BY UnchangedStoreKept DEF AnchoredOK, AnchoredTypeOK, StoreOK, WitnessTypeOK
<1>2. anchor' \in [Workers -> Pass] /\ OtherPassesStay(p) /\ \A q \in Workers : PassOK(q)'
  <2>1. CASE UNCHANGED anchor
    BY <2>1 DEF AnchoredOK, AnchoredTypeOK, OtherPassesStay, PassOK
  <2>2. ASSUME NEW pass \in {Idle, Started}, anchor' = [anchor EXCEPT ![p] = pass]
        PROVE  anchor' \in [Workers -> Pass] /\ OtherPassesStay(p) /\ \A q \in Workers : PassOK(q)'
    <3>1. anchor' \in [Workers -> Pass] /\ anchor'[p] = pass /\ OtherPassesStay(p)
      BY <2>2, ConstantPasses DEF AnchoredOK, AnchoredTypeOK, OtherPassesStay
    <3>2. PassOK(p)'
      BY <2>2, <3>1 DEF PassOK, Idle, Started
    <3> QED BY <3>1, <3>2 DEF AnchoredOK, OtherPassesStay, PassOK
  <2> QED BY <2>1, <2>2 DEF PassReset
<1> QED BY <1>1, <1>2 DEF AnchoredOK, AnchoredTypeOK, LedgerKept

-----------------------------------------------------------------------------
(* Claims *)

\* A row is bound to b and consumed, or even completed.
Says(row, b, level) ==
  /\ row.state # "available"
  /\ row.binding = b
  /\ level = "success" => row.state = "success"

Backed(w, s, b, level) == store[w] # NoRecord /\ Says(store[w].slots[s], b, level)

\* The pass of p has the row already, and whoever answered holds it.
Carried(p, s, b, level) ==
  /\ anchor[p].read > s => Says(anchor[p].cp.slots[s], b, level)
  /\ anchor[p].at \in {"send", "done"} =>
       \A w \in Reliable \ anchor[p].todo : Backed(w, s, b, level)

LEMMA SaysKept ==
  ASSUME NEW before, NEW after, NEW b, NEW level, RowKept(before, after), Says(before, b, level)
  PROVE  Says(after, b, level)
  BY DEF RowKept, Says, Outcomes

LEMMA BackedKept ==
  ASSUME StoreKept, NEW w \in Reliable, NEW s \in SlotIds, NEW b, NEW level, Backed(w, s, b, level)
  PROVE  store'[w] # NoRecord /\ Says(store'[w].slots[s], b, level)
  BY SaysKept DEF StoreKept, Backed

\* What a step of a pass of worker p does: it keeps what is known, and it
\* carries on a claim that the live row supports.
CarriesOn(p) ==
  \A s \in SlotIds : \A b, level :
    Says(slots[s], b, level) /\ Carried(p, s, b, level) =>
      /\ anchor'[p].read > s => Says(anchor'[p].cp.slots[s], b, level)
      /\ anchor'[p].at \in {"send", "done"} =>
           \A w \in Reliable \ anchor'[p].todo :
             store'[w] # NoRecord /\ Says(store'[w].slots[s], b, level)

PassKept(p) ==
  /\ AnchoredOK'
  /\ UNCHANGED <<ledgerVars, disk, restores>>
  /\ StoreKept
  /\ OtherPassesStay(p)
  /\ CarriesOn(p)

\* The new pass of p is well formed: the rest of the state is as the step left it.
LEMMA NewPass ==
  ASSUME AnchoredOK, NEW p \in Workers, NEW pass \in Pass,
         anchor' = [anchor EXCEPT ![p] = pass], PassOK(p)',
         UNCHANGED <<ledgerVars, disk, restores>>, StoreOK', WitnessTypeOK'
  PROVE  AnchoredOK' /\ OtherPassesStay(p) /\ anchor'[p] = pass
<1>1. anchor' \in [Workers -> Pass] /\ anchor'[p] = pass /\ OtherPassesStay(p)
  BY DEF AnchoredOK, AnchoredTypeOK, OtherPassesStay
<1>2. \A q \in Workers : PassOK(q)'
  BY <1>1 DEF AnchoredOK, OtherPassesStay, PassOK
<1> QED BY <1>1, <1>2 DEF AnchoredOK, AnchoredTypeOK, LedgerTypeOK, ledgerVars

LEMMA StoreStays ==
  ASSUME AnchoredOK, UNCHANGED store
  PROVE  StoreKept /\ StoreOK' /\ WitnessTypeOK'
  BY UnchangedStoreKept DEF AnchoredOK, AnchoredTypeOK, StoreOK, WitnessTypeOK

LEMMA ReadEventsKeeps ==
  ASSUME AnchoredOK, NEW p \in Workers, ReadEvents(p)
  PROVE  PassKept(p)
<1> DEFINE pass == [anchor[p] EXCEPT !.at = "rows", !.cp = [@ EXCEPT !.count = count, !.head = head]]
<1>1. /\ anchor[p] \in Pass /\ anchor[p].cp \in Checkpoint /\ anchor[p].at = "events"
      /\ anchor[p].read = 0 /\ count \in Nat /\ head \in Hash
  BY DEF AnchoredOK, AnchoredTypeOK, LedgerTypeOK, ReadEvents, PassOK, Pass
<1>2. [anchor[p].cp EXCEPT !.count = count, !.head = head] \in Checkpoint
  BY <1>1 DEF Checkpoint
<1>3. pass \in Pass /\ pass.at = "rows" /\ pass.read = 0
  BY <1>1, <1>2 DEF Pass
<1>4. /\ anchor' = [anchor EXCEPT ![p] = pass] /\ anchor'[p] = pass
      /\ UNCHANGED <<ledgerVars, store, disk, restores>>
  BY DEF ReadEvents, AnchoredOK, AnchoredTypeOK
<1> HIDE DEF pass
<1>5. PassOK(p)'
  BY <1>3, <1>4, SlotCountAssumption DEF PassOK
<1>6. StoreKept /\ AnchoredOK' /\ OtherPassesStay(p)
  BY <1>3, <1>4, <1>5, StoreStays, NewPass
<1>7. \A s \in SlotIds : ~ (0 > s)
  BY DEF SlotIds
<1>8. CarriesOn(p)
  BY <1>3, <1>4, <1>7 DEF CarriesOn
<1> QED BY <1>4, <1>6, <1>8 DEF PassKept

\* A pass that fails carries nothing.
LEMMA FailedKeeps ==
  ASSUME AnchoredOK, NEW p \in Workers, anchor' = [anchor EXCEPT ![p] = Failed],
         UNCHANGED <<ledgerVars, disk, restores>>, StoreKept, StoreOK', WitnessTypeOK'
  PROVE  PassKept(p)
<1>1. Failed \in Pass /\ anchor'[p] = Failed
  BY ConstantPasses DEF AnchoredOK, AnchoredTypeOK
<1>2. PassOK(p)'
  BY <1>1 DEF PassOK, Failed, Idle
<1>3. AnchoredOK' /\ OtherPassesStay(p)
  BY <1>1, <1>2, NewPass
<1>4. \A s \in SlotIds : ~ (0 > s)
  BY DEF SlotIds
<1>5. CarriesOn(p)
  BY <1>1, <1>4 DEF CarriesOn, Failed, Idle
<1> QED BY <1>3, <1>5 DEF PassKept

\* One more row is in the checkpoint, as the ledger has it now.
LEMMA WithRowFacts ==
  ASSUME NEW pass \in Pass, NEW i \in SlotIds, NEW row \in SlotRow,
         pass.at = "rows", pass.read = i, WithRow(pass, i, row) # Failed
  PROVE  /\ WithRow(pass, i, row) \in Pass
         /\ WithRow(pass, i, row).read = i + 1
         /\ WithRow(pass, i, row).cp.slots[i] = row
         /\ \A s \in SlotIds \ {i} : WithRow(pass, i, row).cp.slots[s] = pass.cp.slots[s]
         /\ \/ WithRow(pass, i, row).at = "rows" /\ i + 1 < SlotCount
            \/ /\ WithRow(pass, i, row).at = "send" /\ i + 1 = SlotCount
               /\ WithRow(pass, i, row).todo = Witnesses
               /\ \A s \in SlotIds : WellFormedRow(WithRow(pass, i, row).cp.slots[s])
<1> DEFINE cp == [pass.cp EXCEPT !.slots = [@ EXCEPT ![i] = row]]
           grown == [pass EXCEPT !.cp = cp, !.read = i + 1]
           sent == [grown EXCEPT !.at = "send", !.todo = Witnesses]
<1>1. pass.cp \in Checkpoint /\ i \in 0 .. SlotCount - 1 /\ SlotCount \in Nat
  BY SlotCountAssumption DEF Pass, SlotIds
<1>2. cp \in Checkpoint /\ cp.slots[i] = row
        /\ \A s \in SlotIds \ {i} : cp.slots[s] = pass.cp.slots[s]
  BY <1>1 DEF Checkpoint
<1> HIDE DEF cp
<1> i + 1 \in 0 .. SlotCount
  BY <1>1
<1>3. /\ grown \in Pass /\ grown.cp = cp /\ grown.read = i + 1 /\ grown.at = "rows"
  BY <1>2 DEF Pass
<1> HIDE DEF grown
<1>4. /\ sent \in Pass /\ sent.cp = cp /\ sent.read = i + 1 /\ sent.at = "send"
      /\ sent.todo = Witnesses
  BY <1>3 DEF Pass
<1> HIDE DEF sent
<1>5. CASE i + 1 < SlotCount
  <2>1. WithRow(pass, i, row) = grown
    BY <1>5 DEF WithRow, cp, grown
  <2> QED BY <1>2, <1>3, <1>5, <2>1
<1>6. CASE ~ (i + 1 < SlotCount)
  <2>1. WithRow(pass, i, row) = sent /\ WellFormedCheckpoint(grown.cp)
    BY <1>6 DEF WithRow, cp, grown, sent
  <2>2. i + 1 = SlotCount
    BY <1>1, <1>6
  <2> QED BY <1>2, <1>3, <1>4, <2>1, <2>2 DEF WellFormedCheckpoint
<1> QED BY <1>5, <1>6

LEMMA ReadRowKeeps ==
  ASSUME AnchoredOK, NEW p \in Workers, ReadRow(p)
  PROVE  PassKept(p)
<1>i. PICK i : i = anchor[p].read
  OBVIOUS
<1> DEFINE pass == WithRow(anchor[p], i, slots[i])
<1>1. /\ anchor[p] \in Pass /\ anchor[p].at = "rows" /\ i \in SlotIds /\ slots[i] \in SlotRow
  BY <1>i, SlotCountAssumption
  DEF AnchoredOK, AnchoredTypeOK, LedgerTypeOK, ReadRow, PassOK, Pass, SlotIds
<1>2. /\ anchor' = [anchor EXCEPT ![p] = pass]
      /\ UNCHANGED <<ledgerVars, store, disk, restores>>
  BY <1>i DEF ReadRow
<1>3. StoreKept /\ StoreOK' /\ WitnessTypeOK'
  BY <1>2, StoreStays
<1>4. CASE pass = Failed
  BY <1>2, <1>3, <1>4, FailedKeeps
<1>5. CASE pass # Failed
  <2>1. /\ pass \in Pass /\ pass.read = i + 1 /\ pass.cp.slots[i] = slots[i]
        /\ \A s \in SlotIds \ {i} : pass.cp.slots[s] = anchor[p].cp.slots[s]
        /\ \/ pass.at = "rows" /\ i + 1 < SlotCount
           \/ /\ pass.at = "send" /\ i + 1 = SlotCount /\ pass.todo = Witnesses
              /\ \A s \in SlotIds : WellFormedRow(pass.cp.slots[s])
    BY <1>i, <1>1, <1>5, WithRowFacts
  <2>2. anchor'[p] = pass
    BY <1>2 DEF AnchoredOK, AnchoredTypeOK
  <2> HIDE DEF pass
  <2>3. PassOK(p)'
    BY <2>1, <2>2 DEF PassOK
  <2>4. AnchoredOK' /\ OtherPassesStay(p)
    BY <1>2, <1>3, <2>1, <2>3, NewPass
  <2>5. ASSUME NEW s \in SlotIds, NEW b, NEW level, Says(slots[s], b, level),
               Carried(p, s, b, level), i + 1 > s
        PROVE  Says(pass.cp.slots[s], b, level)
    <3>1. CASE s = i
      BY <2>1, <2>5, <3>1
    <3>2. CASE s # i
      BY <1>i, <1>1, <2>1, <2>5, <3>2 DEF Carried, SlotIds
    <3> QED BY <3>1, <3>2
  <2>6. Reliable \ Witnesses = {}
    BY DEF Reliable
  <2>7. CarriesOn(p)
    BY <2>1, <2>2, <2>5, <2>6 DEF CarriesOn
  <2> QED BY <1>2, <1>3, <2>4, <2>7 DEF PassKept
<1> QED BY <1>4, <1>5

\* A witness accepts: one more backs the claim.
LEMMA AcceptedKeeps ==
  ASSUME AnchoredOK, NEW p \in Workers, NEW w \in Witnesses, Accepted(p, w)
  PROVE  PassKept(p)
<1> DEFINE pass == [anchor[p] EXCEPT !.todo = @ \ {w},
                                     !.at = IF anchor[p].todo = {w} THEN "done" ELSE "send"]
<1>1. /\ anchor[p] \in Pass /\ anchor[p].cp \in Checkpoint /\ anchor[p].at = "send"
      /\ anchor[p].read = SlotCount /\ w \in anchor[p].todo
      /\ \A s \in SlotIds : WellFormedRow(anchor[p].cp.slots[s])
  BY DEF AnchoredOK, AnchoredTypeOK, Accepted, PassOK, Pass
<1>2. /\ anchor' = [anchor EXCEPT ![p] = pass] /\ Anchor(w, anchor[p].cp)
      /\ UNCHANGED <<ledgerVars, disk, restores>>
  BY DEF Accepted
<1>3. StoreKept /\ StoreOK' /\ WitnessTypeOK' /\ store'[w] = anchor[p].cp
  BY <1>1, <1>2, AnchorKept
<1>4. /\ pass \in Pass /\ pass.cp = anchor[p].cp /\ pass.read = SlotCount
      /\ pass.todo = anchor[p].todo \ {w}
      /\ pass.at \in {"send", "done"} /\ (pass.at = "done" => pass.todo = {})
  BY <1>1 DEF Pass
<1>5. anchor'[p] = pass
  BY <1>2 DEF AnchoredOK, AnchoredTypeOK
<1> HIDE DEF pass
<1>6. PassOK(p)'
  BY <1>1, <1>4, <1>5 DEF PassOK
<1>7. AnchoredOK' /\ OtherPassesStay(p)
  BY <1>2, <1>3, <1>4, <1>6, NewPass
<1>8. \A s \in SlotIds : SlotCount > s
  BY SlotCountAssumption DEF SlotIds
<1>9. ASSUME NEW s \in SlotIds, NEW b, NEW level, Carried(p, s, b, level),
             NEW v \in Reliable \ (anchor[p].todo \ {w})
      PROVE  store'[v] # NoRecord /\ Says(store'[v].slots[s], b, level)
  <2>1. CASE v = w
    BY <1>1, <1>3, <1>8, <1>9, <2>1, NoRecordAssumption DEF Carried
  <2>2. CASE v # w
    BY <1>1, <1>3, <1>9, <2>2, BackedKept DEF Carried
  <2> QED BY <2>1, <2>2
<1>10. CarriesOn(p)
  BY <1>1, <1>4, <1>5, <1>8, <1>9 DEF CarriesOn, Carried
<1> QED BY <1>2, <1>3, <1>7, <1>10 DEF PassKept

\* The ways a pass fails: the witness stored the checkpoint but nobody hears of
\* it, refused it, or was not reached.
LEMMA PassFailsKeeps ==
  ASSUME AnchoredOK, NEW p \in Workers,
         (\E w \in Witnesses : ReplyLost(p, w) \/ Refused(p, w)) \/ Unreachable(p)
  PROVE  PassKept(p)
<1>1. anchor' = [anchor EXCEPT ![p] = Failed] /\ UNCHANGED <<ledgerVars, disk, restores>>
  BY DEF ReplyLost, Refused, Unreachable
<1>2. StoreKept /\ StoreOK' /\ WitnessTypeOK'
  <2>1. CASE \E w \in Witnesses : ReplyLost(p, w)
    <3> PICK w \in Witnesses : ReplyLost(p, w)
      BY <2>1
    <3>1. /\ Anchor(w, anchor[p].cp) /\ anchor[p].cp \in Checkpoint
          /\ \A s \in SlotIds : WellFormedRow(anchor[p].cp.slots[s])
      BY DEF ReplyLost, AnchoredOK, AnchoredTypeOK, PassOK, Pass
    <3> QED BY <3>1, AnchorKept
  <2>2. CASE UNCHANGED store
    BY <2>2, StoreStays
  <2> QED BY <2>1, <2>2 DEF Refused, Unreachable
<1> QED BY <1>1, <1>2, FailedKeeps

\* Every step of a pass keeps what the ledger and the witnesses say and carries
\* the claim of its worker on.
LEMMA PassKeeps ==
  ASSUME AnchoredOK, NEW p \in Workers, PassProgress(p) \/ PassFault(p)
  PROVE  PassKept(p)
  BY ReadEventsKeeps, ReadRowKeeps, AcceptedKeeps, PassFailsKeeps DEF PassProgress, PassFault

-----------------------------------------------------------------------------
(* The rows of a reliable witness as abstract slots *)

RowsAt(w) ==
  IF store[w] = NoRecord THEN [s \in SlotIds |-> FreshRow] ELSE store[w].slots

\* One slot: nothing happens, its first request binds it, or it ends.
RowMove(before, after) ==
  \/ after = before
  \/ before = FreshRow /\ after \in [state : {"burned"}, binding : Bindings]
  \/ before.state = "burned" /\ \E outcome \in Outcomes : after = [before EXCEPT !.state = outcome]

\* Two well-formed rows that _monotonic relates differ by at most one abstract move.
LEMMA RowMoves ==
  ASSUME NEW before \in SlotRow, NEW after \in SlotRow,
         WellFormedRow(before), WellFormedRow(after), Monotonic(before, after)
  PROVE  RowMove(before, after)
<1>1. /\ before = [state |-> before.state, binding |-> before.binding]
      /\ after = [state |-> after.state, binding |-> after.binding]
      /\ before.state \in States /\ after.state \in States
  BY DEF SlotRow
<1>2. CASE before.state = "available"
  <2>1. before.binding = NoBinding
    BY <1>2 DEF WellFormedRow
  <2>2. CASE after.state = "available"
    BY <1>1, <1>2, <2>1, <2>2 DEF WellFormedRow, RowMove
  <2>3. CASE after.state = "burned"
    <3>1. after.binding \in Bindings
      BY <2>3 DEF SlotRow, WellFormedRow
    <3>2. after \in [state : {"burned"}, binding : Bindings]
      BY <1>1, <2>3, <3>1
    <3>3. before = FreshRow
      BY <1>1, <1>2, <2>1 DEF FreshRow
    <3> QED BY <3>2, <3>3 DEF RowMove
  <2> QED BY <1>2, <2>2, <2>3 DEF Monotonic
<1>3. CASE before.state = "burned"
  <2>1. before.binding # NoBinding /\ after.binding = before.binding
    BY <1>3 DEF WellFormedRow, Monotonic
  <2>2. CASE after.state = "burned"
    BY <1>1, <1>3, <2>1, <2>2 DEF RowMove
  <2>3. CASE after.state \in Outcomes
    <3>1. after = [before EXCEPT !.state = after.state]
      BY <1>1, <2>1
    <3> QED BY <1>3, <2>3, <3>1 DEF RowMove
  <2> QED BY <1>1, <1>3, <2>2, <2>3 DEF Monotonic, States
<1>4. CASE before.state \in Outcomes
  <2>1. before.binding # NoBinding /\ after.binding = before.binding /\ after.state = before.state
    BY <1>4 DEF WellFormedRow, Monotonic, Outcomes
  <2> QED BY <1>1, <2>1 DEF RowMove
<1> QED BY <1>1, <1>2, <1>3, <1>4 DEF States

\* A checkpoint a witness takes moves every slot at most once.
LEMMA OfferMoves ==
  ASSUME AnchoredOK, NEW p \in Workers, NEW w \in Reliable,
         anchor[p].at = "send", Anchor(w, anchor[p].cp)
  PROVE  /\ RowsAt(w)' \in [SlotIds -> SlotRow]
         /\ \A s \in SlotIds : RowMove(RowsAt(w)[s], RowsAt(w)'[s])
<1> DEFINE cp == anchor[p].cp
<1>1. /\ w \in Witnesses
      /\ store \in [Witnesses -> Checkpoint \cup {NoRecord}]
      /\ cp \in Checkpoint
  BY DEF Reliable, AnchoredOK, AnchoredTypeOK, WitnessTypeOK, Pass
<1>2. store'[w] = cp /\ CanAnchor(w, cp)
  BY <1>1 DEF Anchor
<1>3. \A s \in SlotIds : WellFormedRow(cp.slots[s]) /\ cp.slots[s] \in SlotRow
  BY <1>1 DEF AnchoredOK, PassOK, Checkpoint
<1>4. RowsAt(w)' = cp.slots
  BY <1>1, <1>2, NoRecordAssumption DEF RowsAt
<1>5. ASSUME NEW s \in SlotIds PROVE RowMove(RowsAt(w)[s], cp.slots[s])
  <2>1. CASE store[w] = NoRecord
    <3>1. cp.slots[s].state = "available" /\ cp.slots[s].binding = NoBinding
      BY <1>2, <1>3, <2>1 DEF CanAnchor, IsGenesis, WellFormedRow
    <3>2. cp.slots[s] = FreshRow
      BY <1>3, <3>1 DEF SlotRow, FreshRow
    <3> QED BY <2>1, <3>2 DEF RowsAt, RowMove
  <2>2. CASE store[w] # NoRecord
    <3>1. RowsAt(w)[s] = store[w].slots[s]
      BY <2>2 DEF RowsAt
    <3>2. cp = store[w] \/ Monotonic(store[w].slots[s], cp.slots[s])
      BY <1>2, <2>2 DEF CanAnchor, ValidTransition
    <3>3. WellFormedRow(store[w].slots[s]) /\ store[w].slots[s] \in SlotRow
      BY <1>1, <2>2 DEF AnchoredOK, StoreOK, Checkpoint
    <3>4. CASE cp = store[w]
      BY <3>1, <3>4 DEF RowMove
    <3> QED BY <1>3, <3>1, <3>2, <3>3, <3>4, RowMoves
  <2> QED BY <2>1, <2>2
<1>6. cp.slots \in [SlotIds -> SlotRow]
  BY <1>1 DEF Checkpoint
<1> QED BY <1>4, <1>5, <1>6
=============================================================================
