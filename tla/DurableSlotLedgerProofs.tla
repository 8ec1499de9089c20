----------------------- MODULE DurableSlotLedgerProofs -----------------------
(***************************************************************************)
(* Proofs about DurableSlotLedger and the verifier of its audit log, for   *)
(* any number of slots, requests and events: type correctness, the         *)
(* permanence of consumed slots, the audit chain, the refinement of        *)
(* SlotLedger, and the history the log tells (one burn per slot, the last  *)
(* event and the row, the poisoning by a conflict, the replay of the       *)
(* verifier).                                                              *)
(***************************************************************************)
EXTENDS AuditVerifier, WellFoundedInduction, TLAPS

\* A row without a binding is an available row, so an event about a consumed
\* slot always has a binding to record.
RowsWellFormed == \A s \in SlotIds : WellFormedRow(rows[s])

Inv == TypeOK /\ RowsWellFormed

\* The hash and the number of the event appended next are of the right type.
LEMMA NextHashType == ASSUME TypeOK PROVE NextHash \in Hash /\ NextSequence \in Nat
  BY DEF TypeOK, NextHash, NextSequence, EventHash, Hash

\* Appending keeps the log, the head and the clock well typed.
LEMMA AppendEventType ==
  ASSUME TypeOK, NEW s \in SlotIds, NEW type \in EventTypes, NEW state \in States,
         NEW b \in Bindings, NEW outcome \in Outcomes \cup {NoOutcome},
         AppendEvent(s, type, state, b, outcome)
  PROVE  /\ audit_events' \in Seq(AuditEvent)
         /\ chain_head' \in Hash
         /\ now' \in Nat
<1>1. NextHash \in Hash /\ NextSequence \in Nat
  BY NextHashType
<1> DEFINE event == [sequence |-> NextSequence, slot_id |-> s, event_type |-> type,
                     state |-> state, binding |-> b, outcome |-> outcome, created_at |-> now,
                     previous_hash |-> chain_head, event_hash |-> NextHash]
<1>2. event \in AuditEvent
  BY <1>1 DEF TypeOK, AuditEvent
<1>3. audit_events' = Append(audit_events, event)
  BY DEF AppendEvent
<1> QED
  BY <1>1, <1>2, <1>3 DEF TypeOK, AppendEvent

\* A slot that ends gets its new state, outcome and latest hash; the other rows
\* and the binding of this one stay.
LEMMA EndedRowType ==
  ASSUME Inv, NEW s \in SlotIds, rows[s].state # "available", NEW outcome \in Outcomes,
         NEW hash \in Hash,
         rows' = [rows EXCEPT ![s].state = outcome, ![s].outcome = outcome, ![s].latest = hash]
  PROVE  rows' \in [SlotIds -> LedgerRow] /\ RowsWellFormed'
<1>1. /\ rows[s] \in LedgerRow
      /\ rows' = [rows EXCEPT ![s] = [@ EXCEPT !.state = outcome, !.outcome = outcome,
                                              !.latest = hash]]
  BY DEF Inv, TypeOK
<1>2. [rows[s] EXCEPT !.state = outcome, !.outcome = outcome, !.latest = hash] \in LedgerRow
  BY <1>1 DEF LedgerRow, States
<1>3. /\ rows'[s].state = outcome
      /\ rows'[s].binding = rows[s].binding
      /\ \A t \in SlotIds \ {s} : rows'[t] = rows[t]
  BY <1>1 DEF Inv, TypeOK, LedgerRow
<1>4. RowsWellFormed'
  BY <1>3 DEF Inv, RowsWellFormed, WellFormedRow, Outcomes
<1> QED BY <1>1, <1>2, <1>4 DEF Inv, TypeOK

LEMMA InitInv == Init => Inv
  BY SlotCountAssumption, NoBindingAssumption
  DEF Init, Inv, TypeOK, RowsWellFormed, WellFormedRow, LedgerRow, States, ZeroHash, EventHash, Hash

-----------------------------------------------------------------------------
LEMMA StepInv == Inv /\ [Next]_vars => Inv'
<1> SUFFICES ASSUME Inv, [Next]_vars PROVE Inv'
  OBVIOUS
<1> USE NoBindingAssumption
<1>0. NextHash \in Hash
  BY NextHashType DEF Inv
<1>1. ASSUME NEW s \in SlotIds, NEW b \in Bindings, Burn(s, b) PROVE Inv'
  <2>1. audit_events' \in Seq(AuditEvent) /\ chain_head' \in Hash /\ now' \in Nat
    BY <1>1, AppendEventType DEF Burn, Inv, EventTypes, States
  <2> QED BY <1>0, <1>1, <2>1 DEF Burn, Inv, TypeOK, RowsWellFormed, WellFormedRow, LedgerRow, States
<1>2. ASSUME NEW s \in SlotIds, NEW b \in Bindings, ExactReplay(s, b) PROVE Inv'
  <2>1. rows[s].state \in States /\ rows[s].outcome \in Outcomes \cup {NoOutcome}
    BY DEF Inv, TypeOK, LedgerRow
  <2>2. audit_events' \in Seq(AuditEvent) /\ chain_head' \in Hash /\ now' \in Nat
    BY <1>2, <2>1, AppendEventType DEF ExactReplay, Inv, EventTypes
  <2> QED BY <1>0, <1>2, <2>2 DEF ExactReplay, Inv, TypeOK, RowsWellFormed, WellFormedRow, LedgerRow
<1>3. ASSUME NEW s \in SlotIds, NEW b \in Bindings, Conflict(s, b) PROVE Inv'
  <2>1. rows[s].state \in States
    BY DEF Inv, TypeOK, LedgerRow
  <2>2. audit_events' \in Seq(AuditEvent) /\ chain_head' \in Hash /\ now' \in Nat
    BY <1>3, <2>1, AppendEventType DEF Conflict, Inv, EventTypes, States, Outcomes
  <2>3. CASE rows[s].state \in Outcomes
    BY <1>0, <1>3, <2>2, <2>3
    DEF Conflict, Inv, TypeOK, RowsWellFormed, WellFormedRow, LedgerRow, Outcomes
  <2>4. CASE rows[s].state = "burned"
    <3>1. rows' \in [SlotIds -> LedgerRow] /\ RowsWellFormed'
      BY <1>0, <1>3, <2>4, EndedRowType DEF Conflict, Outcomes
    <3> QED BY <2>2, <3>1 DEF Inv, TypeOK
  <2> QED BY <1>3, <2>3, <2>4 DEF Conflict
<1>4. ASSUME NEW s \in SlotIds, NEW outcome \in Outcomes, FinalizeBurned(s, outcome) PROVE Inv'
  <2>1. rows[s].binding \in Bindings
    BY <1>4 DEF FinalizeBurned, Inv, TypeOK, LedgerRow, RowsWellFormed, WellFormedRow
  <2>2. audit_events' \in Seq(AuditEvent) /\ chain_head' \in Hash /\ now' \in Nat
    BY <1>4, <2>1, AppendEventType DEF FinalizeBurned, Inv, EventTypes, States
  <2>3. rows' \in [SlotIds -> LedgerRow] /\ RowsWellFormed'
    BY <1>0, <1>4, EndedRowType DEF FinalizeBurned
  <2> QED BY <2>2, <2>3 DEF Inv, TypeOK
<1>5. ASSUME NEW s \in SlotIds, Observe(s) PROVE Inv'
  <2>1. rows[s].binding \in Bindings /\ rows[s].state \in States
          /\ rows[s].outcome \in Outcomes \cup {NoOutcome}
    BY <1>5 DEF Observe, Inv, TypeOK, LedgerRow, RowsWellFormed, WellFormedRow
  <2>2. audit_events' \in Seq(AuditEvent) /\ chain_head' \in Hash /\ now' \in Nat
    BY <1>5, <2>1, AppendEventType DEF Observe, Inv, EventTypes
  <2> QED BY <1>0, <1>5, <2>2 DEF Observe, Inv, TypeOK, RowsWellFormed, WellFormedRow, LedgerRow
<1>6. ASSUME UNCHANGED vars PROVE Inv'
  BY <1>6 DEF Inv, TypeOK, RowsWellFormed, WellFormedRow, vars
<1>7. ASSUME Tick PROVE Inv'
  BY <1>7 DEF Inv, TypeOK, RowsWellFormed, WellFormedRow, Tick
<1> QED
  BY <1>1, <1>2, <1>3, <1>4, <1>5, <1>6, <1>7
  DEF Next, Begin, PoisonedReplay, Finalize, FinalizeUnchanged, ObserveRefused, LogFull, RollBack

(***************************************************************************)
(* Type correctness of the ledger: whatever the sequence of calls, rows,   *)
(* log and head stay well formed, and a row has a binding exactly when it  *)
(* is consumed (what SlotCheckpoint.__post_init__ demands of it).          *)
(***************************************************************************)
THEOREM LedgerTypeCorrect == Spec => []Inv
<1>1. Init => Inv
  BY InitInv
<1>2. Inv /\ [Next]_vars => Inv'
  BY StepInv
<1> QED BY <1>1, <1>2, PTL DEF Spec

(***************************************************************************)
(* The columns of the slot rows and of the log keep the values the schema  *)
(* and the code expect of them, after any sequence of calls.               *)
(***************************************************************************)
THEOREM LedgerTyped == Spec => []TypeOK
<1>1. Inv => TypeOK
  BY DEF Inv
<1> QED BY <1>1, LedgerTypeCorrect, PTL

-----------------------------------------------------------------------------
\* What any step does to one slot: nothing, its burn, or something that leaves a
\* consumed row consumed, its binding as it is and its outcome final.
RowStep(s) ==
  \/ rows'[s] = rows[s]
  \/ /\ rows[s].state = "available"
     /\ rows'[s].state = "burned"
     /\ rows'[s].binding \in Bindings
     /\ rows'[s].outcome = NoOutcome
  \/ /\ rows[s].state # "available"
     /\ rows'[s].state # "available"
     /\ rows'[s].binding = rows[s].binding
     /\ rows[s].state # "burned" =>
          rows'[s].state = rows[s].state /\ rows'[s].outcome = rows[s].outcome

LEMMA StepRows == Inv /\ [Next]_vars => \A s \in SlotIds : RowStep(s)
<1> SUFFICES ASSUME Inv, [Next]_vars, NEW s \in SlotIds PROVE RowStep(s)
  OBVIOUS
<1>1. ASSUME NEW t \in SlotIds, NEW b \in Bindings, Burn(t, b) PROVE RowStep(s)
  BY <1>1 DEF Burn, RowStep, Inv, TypeOK
<1>2. ASSUME NEW t \in SlotIds, NEW b \in Bindings, ExactReplay(t, b) PROVE RowStep(s)
  BY <1>2 DEF ExactReplay, RowStep, Inv, TypeOK, LedgerRow
<1>3. ASSUME NEW t \in SlotIds, NEW b \in Bindings, Conflict(t, b) PROVE RowStep(s)
  <2>1. CASE rows[t].state \in Outcomes
    BY <1>3, <2>1 DEF Conflict, RowStep, Inv, TypeOK, LedgerRow, Outcomes
  <2>2. CASE rows[t].state = "burned"
    BY <1>3, <2>2 DEF Conflict, RowStep, Inv, TypeOK, LedgerRow, Outcomes
  <2> QED BY <1>3, <2>1, <2>2 DEF Conflict
<1>4. ASSUME NEW t \in SlotIds, NEW outcome \in Outcomes, FinalizeBurned(t, outcome)
      PROVE  RowStep(s)
  BY <1>4 DEF FinalizeBurned, RowStep, Inv, TypeOK, LedgerRow, Outcomes
<1>5. ASSUME NEW t \in SlotIds, Observe(t) PROVE RowStep(s)
  BY <1>5 DEF Observe, RowStep, Inv, TypeOK, LedgerRow
<1>6. ASSUME UNCHANGED rows PROVE RowStep(s)
  BY <1>6 DEF RowStep
<1> QED
  BY <1>1, <1>2, <1>3, <1>4, <1>5, <1>6
  DEF Next, Begin, PoisonedReplay, Finalize, FinalizeUnchanged, ObserveRefused, LogFull, RollBack,
      Tick, vars

(***************************************************************************)
(* No call reopens a consumed slot, rebinds it, or changes the outcome of  *)
(* a terminal one: the docstring's one-shot rule, for any sequence of      *)
(* begin, finalize and observation calls of any number of processes.       *)
(***************************************************************************)
THEOREM SlotsAreConsumedForGood == Spec => ConsumedForGood
<1>1. Inv /\ [Next]_vars =>
        [\A s \in SlotIds :
           /\ rows[s].state # "available" =>
                /\ rows'[s].state # "available"
                /\ rows'[s].binding = rows[s].binding
           /\ rows[s].state \in Outcomes =>
                /\ rows'[s].state = rows[s].state
                /\ rows'[s].outcome = rows[s].outcome]_vars
  BY StepRows DEF RowStep, Outcomes
<1> QED BY <1>1, LedgerTypeCorrect, PTL DEF Spec, ConsumedForGood

-----------------------------------------------------------------------------
\* One more event continues the chain.
LEMMA AppendKeepsChain ==
  ASSUME Inv, Inv', ChainIntact, NEW s \in SlotIds, NEW type \in EventTypes, NEW state \in States,
         NEW b \in Bindings, NEW outcome \in Outcomes \cup {NoOutcome},
         AppendEvent(s, type, state, b, outcome)
  PROVE  ChainIntact'
<1> DEFINE event == [sequence |-> NextSequence, slot_id |-> s, event_type |-> type,
                     state |-> state, binding |-> b, outcome |-> outcome, created_at |-> now,
                     previous_hash |-> chain_head, event_hash |-> NextHash]
<1>1. audit_events' = Append(audit_events, event) /\ chain_head' = NextHash
  BY DEF AppendEvent
<1>2. audit_events \in Seq(AuditEvent) /\ Len(audit_events) \in Nat
  BY DEF Inv, TypeOK
<1>3. /\ Len(audit_events') = Len(audit_events) + 1
      /\ audit_events'[Len(audit_events) + 1] = event
      /\ \A i \in 1 .. Len(audit_events) : audit_events'[i] = audit_events[i]
      /\ audit_events' # <<>>
  BY <1>1, <1>2
<1>4. ASSUME NEW i \in 1 .. Len(audit_events)
      PROVE  /\ audit_events'[i].sequence = i
             /\ audit_events'[i].previous_hash =
                  IF i = 1 THEN ZeroHash ELSE audit_events'[i - 1].event_hash
  BY <1>2, <1>3 DEF ChainIntact
<1>5. /\ audit_events'[Len(audit_events) + 1].sequence = Len(audit_events) + 1
      /\ audit_events'[Len(audit_events) + 1].previous_hash =
           IF Len(audit_events) + 1 = 1 THEN ZeroHash ELSE audit_events'[Len(audit_events)].event_hash
  BY <1>2, <1>3 DEF ChainIntact, NextSequence
<1>6. DOMAIN audit_events' = 1 .. (Len(audit_events) + 1)
  BY <1>1, <1>2, <1>3
<1> HIDE DEF event
<1>7. chain_head' = audit_events'[Len(audit_events')].event_hash
  BY <1>1, <1>3 DEF event
<1> QED BY <1>2, <1>3, <1>4, <1>5, <1>6, <1>7 DEF ChainIntact

LEMMA StepChain == Inv /\ Inv' /\ ChainIntact /\ [Next]_vars => ChainIntact'
<1> SUFFICES ASSUME Inv, Inv', ChainIntact, [Next]_vars PROVE ChainIntact'
  OBVIOUS
<1>0. \A s \in SlotIds :
        /\ rows[s].state \in States
        /\ rows[s].outcome \in Outcomes \cup {NoOutcome}
        /\ rows[s].state # "available" => rows[s].binding \in Bindings
  BY NoBindingAssumption DEF Inv, TypeOK, LedgerRow, RowsWellFormed, WellFormedRow
<1>1. ASSUME NEW s \in SlotIds, NEW b \in Bindings, Burn(s, b) PROVE ChainIntact'
  BY <1>1, AppendKeepsChain DEF Burn, EventTypes, States
<1>2. ASSUME NEW s \in SlotIds, NEW b \in Bindings, ExactReplay(s, b) PROVE ChainIntact'
  BY <1>0, <1>2, AppendKeepsChain DEF ExactReplay, EventTypes
<1>3. ASSUME NEW s \in SlotIds, NEW b \in Bindings, Conflict(s, b) PROVE ChainIntact'
  BY <1>0, <1>3, AppendKeepsChain DEF Conflict, EventTypes, States, Outcomes
<1>4. ASSUME NEW s \in SlotIds, NEW outcome \in Outcomes, FinalizeBurned(s, outcome)
      PROVE  ChainIntact'
  BY <1>0, <1>4, AppendKeepsChain DEF FinalizeBurned, EventTypes, States
<1>5. ASSUME NEW s \in SlotIds, Observe(s) PROVE ChainIntact'
  BY <1>0, <1>5, AppendKeepsChain DEF Observe, EventTypes
<1>6. ASSUME UNCHANGED <<audit_events, chain_head>> PROVE ChainIntact'
  BY <1>6 DEF ChainIntact
<1> QED
  BY <1>1, <1>2, <1>3, <1>4, <1>5, <1>6
  DEF Next, Begin, PoisonedReplay, Finalize, FinalizeUnchanged, ObserveRefused, LogFull, RollBack,
      Tick, vars

(***************************************************************************)
(* The audit chain has no gap: after any calls, every event carries the    *)
(* hash of its predecessor and the head in the metadata is the last hash.  *)
(***************************************************************************)
THEOREM ChainStaysIntact == Spec => []ChainIntact
<1>1. Init => ChainIntact
  BY DEF Init, ChainIntact
<1> QED BY <1>1, StepChain, LedgerTypeCorrect, PTL DEF Spec

-----------------------------------------------------------------------------
\* The rows as a checkpoint carries them, the substitution of Abstract.
CheckpointRows == [s \in SlotIds |-> [state |-> rows[s].state, binding |-> rows[s].binding]]

\* Both modules use the same slots, outcomes and event names.
LEMMA SameVocabulary ==
  /\ Abstract!SlotIds = SlotIds
  /\ Abstract!Outcomes = Outcomes
  /\ \A n, t : Abstract!EventHash(n, t) = EventHash(n, t)
  BY DEF Abstract!SlotIds, SlotIds, Abstract!Outcomes, Outcomes, Abstract!EventHash, EventHash

\* An appended event is one more event and a new head.
LEMMA AppendRefines ==
  ASSUME Inv, NEW s, NEW type, NEW state, NEW b, NEW outcome,
         AppendEvent(s, type, state, b, outcome)
  PROVE  Abstract!AppendEvent
<1>1. /\ Len(audit_events) \in Nat
      /\ Len(audit_events') = Len(audit_events) + 1
  BY DEF AppendEvent, Inv, TypeOK
<1> QED
  BY <1>1, MaxEventsAssumption
  DEF AppendEvent, Abstract!AppendEvent, NextSequence, NextHash, EventHash, Abstract!EventHash

\* A row whose state and binding stay leaves the checkpoint as it is.
LEMMA LatestRefines ==
  ASSUME Inv, NEW s \in SlotIds, NEW hash, rows' = [rows EXCEPT ![s].latest = hash]
  PROVE  CheckpointRows' = CheckpointRows
<1>1. \A t \in SlotIds : rows'[t].state = rows[t].state /\ rows'[t].binding = rows[t].binding
  BY DEF Inv, TypeOK, LedgerRow
<1> QED BY <1>1 DEF CheckpointRows

\* Ending a slot changes the state in its checkpoint row and nothing else.
LEMMA EndedRefines ==
  ASSUME Inv, NEW s \in SlotIds, NEW outcome, NEW hash,
         rows' = [rows EXCEPT ![s].state = outcome, ![s].outcome = outcome, ![s].latest = hash]
  PROVE  CheckpointRows' = [CheckpointRows EXCEPT ![s].state = outcome]
<1>1. /\ rows'[s].state = outcome
      /\ rows'[s].binding = rows[s].binding
      /\ \A t \in SlotIds \ {s} : rows'[t] = rows[t]
  BY DEF Inv, TypeOK, LedgerRow
<1>2. [[state |-> rows[s].state, binding |-> rows[s].binding] EXCEPT !.state = outcome] =
        [state |-> outcome, binding |-> rows[s].binding]
  OBVIOUS
<1>3. \A t \in SlotIds :
        CheckpointRows'[t] = IF t = s THEN [state |-> outcome, binding |-> rows[s].binding]
                             ELSE CheckpointRows[t]
  BY <1>1 DEF CheckpointRows
<1>4. [CheckpointRows EXCEPT ![s].state = outcome] =
        [t \in SlotIds |-> IF t = s THEN [state |-> outcome, binding |-> rows[s].binding]
                           ELSE CheckpointRows[t]]
  BY <1>2 DEF CheckpointRows
<1> QED BY <1>3, <1>4 DEF CheckpointRows

LEMMA StepRefines == Inv /\ [Next]_vars => [Abstract!LedgerNext]_Abstract!ledgerVars
<1> SUFFICES ASSUME Inv, [Next]_vars PROVE [Abstract!LedgerNext]_Abstract!ledgerVars
  OBVIOUS
<1> USE SameVocabulary
<1>0. \A s \in SlotIds : CheckpointRows[s] = [state |-> rows[s].state, binding |-> rows[s].binding]
  BY DEF CheckpointRows
<1>1. ASSUME NEW s \in SlotIds, NEW b \in Bindings, Burn(s, b) PROVE Abstract!BeginBurn(s, b)
  <2>1. Abstract!AppendEvent
    BY <1>1, AppendRefines DEF Burn
  <2>2. CheckpointRows' = [CheckpointRows EXCEPT ![s] = [state |-> "burned", binding |-> b]]
    BY <1>1 DEF Burn, CheckpointRows, Inv, TypeOK
  <2> QED BY <1>0, <1>1, <2>1, <2>2 DEF Burn, Abstract!BeginBurn, CheckpointRows
<1>2. ASSUME NEW s \in SlotIds, NEW b \in Bindings, ExactReplay(s, b)
      PROVE  Abstract!BeginExact(s, b)
  <2>1. Abstract!AppendEvent
    BY <1>2, AppendRefines DEF ExactReplay
  <2>2. CheckpointRows' = CheckpointRows
    BY <1>2, LatestRefines DEF ExactReplay
  <2> QED BY <1>0, <1>2, <2>1, <2>2 DEF ExactReplay, Abstract!BeginExact, CheckpointRows
<1>3. ASSUME NEW s \in SlotIds, NEW b \in Bindings, Conflict(s, b)
      PROVE  Abstract!BeginConflict(s, b)
  <2>1. Abstract!AppendEvent
    BY <1>3, AppendRefines DEF Conflict
  <2>2. CASE rows[s].state \in Outcomes
    <3>1. CheckpointRows' = CheckpointRows
      BY <1>3, <2>2, LatestRefines DEF Conflict, Outcomes
    <3>2. [CheckpointRows EXCEPT ![s].state = CheckpointRows[s].state] = CheckpointRows
      BY DEF CheckpointRows
    <3> DEFINE kept == IF CheckpointRows[s].state = "burned" THEN "retry-rejected"
                       ELSE CheckpointRows[s].state
    <3>3. kept = CheckpointRows[s].state
      <4>1. CheckpointRows[s].state = rows[s].state
        BY DEF CheckpointRows
      <4>2. rows[s].state # "burned"
        BY <2>2 DEF Outcomes
      <4> QED BY <4>1, <4>2
    <3>4. CheckpointRows' = [CheckpointRows EXCEPT ![s].state = kept]
      BY <3>1, <3>2, <3>3
    <3> QED BY <1>0, <1>3, <2>1, <3>4 DEF Conflict, Abstract!BeginConflict, CheckpointRows
  <2>3. CASE rows[s].state = "burned"
    <3>1. CheckpointRows' = [CheckpointRows EXCEPT ![s].state = "retry-rejected"]
      <4>1. rows' = [rows EXCEPT ![s].state = "retry-rejected", ![s].outcome = "retry-rejected",
                                 ![s].latest = NextHash]
        BY <1>3, <2>3 DEF Conflict, Outcomes
      <4> QED BY <4>1, EndedRefines
    <3> QED BY <1>0, <1>3, <2>1, <2>3, <3>1 DEF Conflict, Abstract!BeginConflict, CheckpointRows
  <2> QED BY <1>3, <2>2, <2>3 DEF Conflict
<1>4. ASSUME NEW s \in SlotIds, NEW outcome \in Outcomes, FinalizeBurned(s, outcome)
      PROVE  Abstract!FinalizeBurned(s, outcome)
  <2>1. Abstract!AppendEvent
    BY <1>4, AppendRefines DEF FinalizeBurned
  <2>2. CheckpointRows' = [CheckpointRows EXCEPT ![s].state = outcome]
    BY <1>4, EndedRefines DEF FinalizeBurned
  <2> QED BY <1>0, <1>4, <2>1, <2>2 DEF FinalizeBurned, Abstract!FinalizeBurned, CheckpointRows
<1>5. ASSUME NEW s \in SlotIds, Observe(s) PROVE Abstract!Observe(s)
  <2>1. Abstract!AppendEvent
    BY <1>5, AppendRefines DEF Observe
  <2>2. CheckpointRows' = CheckpointRows
    BY <1>5, LatestRefines DEF Observe
  <2> QED BY <1>0, <1>5, <2>1, <2>2 DEF Observe, Abstract!Observe, CheckpointRows
<1>6. ASSUME Tick PROVE Abstract!Tick
  BY <1>6 DEF Tick, Abstract!Tick
<1>7. ASSUME UNCHANGED vars PROVE UNCHANGED Abstract!ledgerVars
  BY <1>7 DEF vars, Abstract!ledgerVars, CheckpointRows
<1> QED
  BY <1>1, <1>2, <1>3, <1>4, <1>5, <1>6, <1>7
  DEF Next, Begin, PoisonedReplay, Finalize, FinalizeUnchanged, ObserveRefused, LogFull, RollBack,
      Abstract!LedgerNext, Abstract!Begin, Abstract!Finalize

(***************************************************************************)
(* The ledger with its log implements the ledger the sidecars and the      *)
(* witnesses see: every transaction is the SlotLedger operation of the     *)
(* same name, or one that raises and changes nothing.                      *)
(***************************************************************************)
THEOREM LedgerImplementsSlotLedger == Spec => ImplementsSlotLedger
<1>1. Init => Abstract!LedgerInit
  BY DEF Init, Abstract!LedgerInit, Abstract!FreshRow, Abstract!ZeroHash, Abstract!EventHash,
         ZeroHash, EventHash, Abstract!SlotIds, SlotIds
<1> QED BY <1>1, StepRefines, LedgerTypeCorrect, PTL DEF Spec, ImplementsSlotLedger, Abstract!LedgerSpec

-----------------------------------------------------------------------------
(***************************************************************************)
(* The argument.  Every operation that changes a row appends one event     *)
(* about that slot and writes the event's hash into the row, so what the   *)
(* row says is what the last event of the slot says.  A conflict after a   *)
(* terminal event therefore has that terminal event before it in the log,  *)
(* and a conflict with none before it found the slot burned.               *)
(***************************************************************************)

\* The outcome column repeats a terminal state.
OutcomeColumn(row) ==
  row.outcome = IF row.state \in Outcomes THEN row.state ELSE NoOutcome

\* Event i is the last about slot s, and tells its row.
TellsRow(s, i) ==
  /\ i \in EventsOf(s)
  /\ \A j \in EventsOf(s) : j <= i
  /\ rows[s].state = audit_events[i].state
  /\ rows[s].latest = audit_events[i].event_hash

LastTold ==
  \A s \in SlotIds :
    /\ OutcomeColumn(rows[s])
    /\ rows[s].state # "available" => \E i \in EventsOf(s) : TellsRow(s, i)

History == OneBurnPerSlot /\ LastTold /\ ConflictPoisons

-----------------------------------------------------------------------------
(* One step and the log *)

\* The event appended by a step is about s, and the row of s carries its hash.
Recorded(s, event) ==
  /\ event.slot_id = s
  /\ audit_events' = Append(audit_events, event)
  /\ \A t \in SlotIds \ {s} : rows'[t] = rows[t]
  /\ rows'[s].state # "available"
  /\ rows'[s].state = event.state
  /\ rows'[s].latest = event.event_hash
  /\ event.event_hash = EventHash(event.sequence, event.created_at)
  /\ OutcomeColumn(rows'[s])

\* It is the burn of an unused slot, or something else about a consumed one.
Burned(s, event) ==
  /\ rows[s].state = "available"
  /\ event.event_type = "burn"
  /\ rows'[s].binding = event.binding
  /\ rows'[s].first = event.event_hash
  /\ rows'[s].outcome = event.outcome

Continued(s, event) ==
  /\ rows[s].state # "available"
  /\ event.event_type # "burn"
  /\ rows'[s].binding = rows[s].binding
  /\ rows'[s].first = rows[s].first
  /\ rows[s].state \in Outcomes => rows'[s].state = rows[s].state
  /\ event.event_type = "conflict-rejected" /\ rows[s].state \notin Outcomes =>
       rows'[s].state = "retry-rejected"
  /\ event.event_type = "exact-replay" => rows'[s].state = rows[s].state
  /\ event.event_type \notin {"exact-replay", "conflict-rejected"} =>
       rows'[s].outcome = event.outcome

\* The event of an append, and where it lands.
LEMMA AppendRecords ==
  ASSUME Inv, NEW s \in SlotIds, NEW type, NEW state, NEW b, NEW outcome,
         AppendEvent(s, type, state, b, outcome)
  PROVE  \E event :
           /\ audit_events' = Append(audit_events, event)
           /\ event.slot_id = s /\ event.event_type = type /\ event.state = state
           /\ event.binding = b /\ event.outcome = outcome
           /\ event.event_hash = NextHash
           /\ event.event_hash = EventHash(event.sequence, event.created_at)
<1> DEFINE event == [sequence |-> NextSequence, slot_id |-> s, event_type |-> type,
                     state |-> state, binding |-> b, outcome |-> outcome, created_at |-> now,
                     previous_hash |-> chain_head, event_hash |-> NextHash]
<1>1. audit_events' = Append(audit_events, event)
  BY DEF AppendEvent
<1>2. /\ event.slot_id = s /\ event.event_type = type /\ event.state = state
      /\ event.binding = b /\ event.outcome = outcome
      /\ event.event_hash = NextHash
      /\ event.event_hash = EventHash(event.sequence, event.created_at)
  BY DEF NextHash
<1> QED
  BY <1>1, <1>2

\* Either a step leaves rows and log alone, or it records one event.
LEMMA StepRecords ==
  ASSUME Inv, LastTold, [Next]_vars
  PROVE  \/ UNCHANGED <<rows, audit_events>>
         \/ \E s \in SlotIds : \E event :
              Recorded(s, event) /\ (Burned(s, event) \/ Continued(s, event))
<1> DEFINE Goal == \E s \in SlotIds : \E event :
                     Recorded(s, event) /\ (Burned(s, event) \/ Continued(s, event))
<1>0. \A s \in SlotIds : rows[s] \in LedgerRow /\ OutcomeColumn(rows[s])
  BY DEF Inv, TypeOK, LastTold
<1>1. ASSUME NEW s \in SlotIds, NEW b \in Bindings, Burn(s, b) PROVE Goal
  <2>1. PICK event : /\ audit_events' = Append(audit_events, event)
                     /\ event.slot_id = s /\ event.event_type = "burn"
                     /\ event.state = "burned" /\ event.binding = b
                     /\ event.outcome = NoOutcome
                     /\ event.event_hash = NextHash
                     /\ event.event_hash = EventHash(event.sequence, event.created_at)
    BY <1>1, AppendRecords DEF Burn
  <2>2. Recorded(s, event)
    BY <1>1, <2>1 DEF Burn, Recorded, OutcomeColumn, Outcomes, Inv, TypeOK
  <2>3. Burned(s, event)
    BY <1>1, <2>1 DEF Burn, Burned, Inv, TypeOK
  <2> QED BY <2>2, <2>3
<1>2. ASSUME NEW s \in SlotIds, NEW b \in Bindings, ExactReplay(s, b) PROVE Goal
  <2>1. PICK event : /\ audit_events' = Append(audit_events, event)
                     /\ event.slot_id = s /\ event.event_type = "exact-replay"
                     /\ event.state = rows[s].state /\ event.binding = b
                     /\ event.outcome = rows[s].outcome
                     /\ event.event_hash = NextHash
                     /\ event.event_hash = EventHash(event.sequence, event.created_at)
    BY <1>2, AppendRecords DEF ExactReplay
  <2>2. Recorded(s, event)
    BY <1>0, <1>2, <2>1 DEF ExactReplay, Recorded, OutcomeColumn, LedgerRow, Inv, TypeOK
  <2>3. Continued(s, event)
    BY <1>0, <1>2, <2>1 DEF ExactReplay, Continued, LedgerRow, Inv, TypeOK
  <2> QED BY <2>2, <2>3
<1>3. ASSUME NEW s \in SlotIds, NEW b \in Bindings, Conflict(s, b) PROVE Goal
  <2>1. CASE rows[s].state \in Outcomes
    <3>1. /\ AppendEvent(s, "conflict-rejected", rows[s].state, b, "retry-rejected")
          /\ rows' = [rows EXCEPT ![s].latest = NextHash]
      BY <1>3, <2>1 DEF Conflict, Outcomes
    <3>2. PICK event : /\ audit_events' = Append(audit_events, event)
                       /\ event.slot_id = s /\ event.event_type = "conflict-rejected"
                       /\ event.state = rows[s].state /\ event.binding = b
                       /\ event.outcome = "retry-rejected"
                       /\ event.event_hash = NextHash
                       /\ event.event_hash = EventHash(event.sequence, event.created_at)
      BY <3>1, AppendRecords
    <3>3. Recorded(s, event)
      BY <1>0, <2>1, <3>1, <3>2 DEF Recorded, OutcomeColumn, LedgerRow, Inv, TypeOK, Outcomes
    <3>4. Continued(s, event)
      BY <1>0, <2>1, <3>1, <3>2 DEF Continued, LedgerRow, Inv, TypeOK, Outcomes
    <3> QED BY <3>3, <3>4
  <2>2. CASE rows[s].state = "burned"
    <3>1. /\ AppendEvent(s, "conflict-rejected", "retry-rejected", b, "retry-rejected")
          /\ rows' = [rows EXCEPT ![s].state = "retry-rejected",
                                  ![s].outcome = "retry-rejected", ![s].latest = NextHash]
      BY <1>3, <2>2 DEF Conflict, Outcomes
    <3>2. PICK event : /\ audit_events' = Append(audit_events, event)
                       /\ event.slot_id = s /\ event.event_type = "conflict-rejected"
                       /\ event.state = "retry-rejected" /\ event.binding = b
                       /\ event.outcome = "retry-rejected"
                       /\ event.event_hash = NextHash
                       /\ event.event_hash = EventHash(event.sequence, event.created_at)
      BY <3>1, AppendRecords
    <3>3. Recorded(s, event)
      BY <1>0, <3>1, <3>2 DEF Recorded, OutcomeColumn, LedgerRow, Inv, TypeOK, Outcomes
    <3>4. Continued(s, event)
      BY <1>0, <2>2, <3>1, <3>2 DEF Continued, LedgerRow, Inv, TypeOK, Outcomes
    <3> QED BY <3>3, <3>4
  <2> QED BY <1>3, <2>1, <2>2 DEF Conflict
<1>4. ASSUME NEW s \in SlotIds, NEW outcome \in Outcomes, FinalizeBurned(s, outcome) PROVE Goal
  <2>1. PICK event : /\ audit_events' = Append(audit_events, event)
                     /\ event.slot_id = s /\ event.event_type = "finalize"
                     /\ event.state = outcome /\ event.binding = rows[s].binding
                     /\ event.outcome = outcome
                     /\ event.event_hash = NextHash
                     /\ event.event_hash = EventHash(event.sequence, event.created_at)
    BY <1>4, AppendRecords DEF FinalizeBurned
  <2>2. Recorded(s, event)
    BY <1>0, <1>4, <2>1 DEF FinalizeBurned, Recorded, OutcomeColumn, LedgerRow, Inv, TypeOK, Outcomes
  <2>3. Continued(s, event)
    BY <1>0, <1>4, <2>1 DEF FinalizeBurned, Continued, LedgerRow, Inv, TypeOK, Outcomes
  <2> QED BY <2>2, <2>3
<1>5. ASSUME NEW s \in SlotIds, Observe(s) PROVE Goal
  <2>1. PICK event : /\ audit_events' = Append(audit_events, event)
                     /\ event.slot_id = s /\ event.event_type = "observation"
                     /\ event.state = rows[s].state /\ event.binding = rows[s].binding
                     /\ event.outcome = rows[s].outcome
                     /\ event.event_hash = NextHash
                     /\ event.event_hash = EventHash(event.sequence, event.created_at)
    BY <1>5, AppendRecords DEF Observe
  <2>2. Recorded(s, event)
    BY <1>0, <1>5, <2>1 DEF Observe, Recorded, OutcomeColumn, LedgerRow, Inv, TypeOK
  <2>3. Continued(s, event)
    BY <1>0, <1>5, <2>1 DEF Observe, Continued, LedgerRow, Inv, TypeOK
  <2> QED BY <2>2, <2>3
<1> HIDE DEF Goal
<1>6. UNCHANGED <<rows, audit_events>> \/ Goal
  BY <1>1, <1>2, <1>3, <1>4, <1>5
  DEF Next, Begin, PoisonedReplay, Finalize, FinalizeUnchanged, ObserveRefused, LogFull, RollBack,
      Tick, vars
<1> QED BY <1>6 DEF Goal

-----------------------------------------------------------------------------
(* What an appended event does to the history *)

\* The log after an append: the old events, and the new one last.
LEMMA LogAfter ==
  ASSUME Inv, NEW s \in SlotIds, NEW event, Recorded(s, event)
  PROVE  /\ Len(audit_events) \in Nat
         /\ DOMAIN audit_events = 1 .. Len(audit_events)
         /\ DOMAIN audit_events' = 1 .. (Len(audit_events) + 1)
         /\ \A i \in DOMAIN audit_events : audit_events'[i] = audit_events[i]
         /\ audit_events'[Len(audit_events) + 1] = event
         /\ EventsOf(s)' = EventsOf(s) \cup {Len(audit_events) + 1}
         /\ \A t \in SlotIds \ {s} : EventsOf(t)' = EventsOf(t)
         /\ \A t \in SlotIds : EventsOf(t) \subseteq 1 .. Len(audit_events)
<1>1. audit_events \in Seq(AuditEvent) /\ Len(audit_events) \in Nat
  BY DEF Inv, TypeOK
<1>2. audit_events' = Append(audit_events, event) /\ event.slot_id = s
  BY DEF Recorded
<1>3. /\ DOMAIN audit_events = 1 .. Len(audit_events)
      /\ DOMAIN audit_events' = 1 .. (Len(audit_events) + 1)
      /\ \A i \in DOMAIN audit_events : audit_events'[i] = audit_events[i]
      /\ audit_events'[Len(audit_events) + 1] = event
  BY <1>1, <1>2
<1>4. EventsOf(s)' = EventsOf(s) \cup {Len(audit_events) + 1}
  BY <1>1, <1>2, <1>3 DEF EventsOf
<1>5. ASSUME NEW t \in SlotIds \ {s} PROVE EventsOf(t)' = EventsOf(t)
  BY <1>1, <1>2, <1>3 DEF EventsOf
<1> QED BY <1>1, <1>3, <1>4, <1>5 DEF EventsOf

\* The new event is the last of its slot, and the others keep theirs.
LEMMA KeepsLastTold ==
  ASSUME Inv, LastTold, NEW s \in SlotIds, NEW event, Recorded(s, event)
  PROVE  LastTold'
<1> SUFFICES ASSUME NEW t \in SlotIds
             PROVE  /\ OutcomeColumn(rows[t])'
                    /\ rows'[t].state # "available" => \E i \in EventsOf(t)' : TellsRow(t, i)'
  BY DEF LastTold
<1>n. PICK n : n = Len(audit_events) + 1
  OBVIOUS
<1>1. CASE t = s
  <2>1. n \in EventsOf(s)' /\ \A j \in EventsOf(s)' : j <= n
    BY <1>n, LogAfter
  <2>2. rows'[s].state = audit_events'[n].state /\ rows'[s].latest = audit_events'[n].event_hash
    BY <1>n, LogAfter DEF Recorded
  <2>3. TellsRow(s, n)'
    BY <2>1, <2>2 DEF TellsRow
  <2> QED BY <1>1, <2>1, <2>3 DEF Recorded, OutcomeColumn
<1>2. CASE t # s
  <2>1. rows'[t] = rows[t] /\ EventsOf(t)' = EventsOf(t)
    BY <1>2, LogAfter DEF Recorded
  <2>2. OutcomeColumn(rows[t])'
    BY <2>1 DEF LastTold, OutcomeColumn
  <2>3. ASSUME NEW i \in EventsOf(t), TellsRow(t, i) PROVE TellsRow(t, i)'
    <3>1. audit_events'[i] = audit_events[i]
      BY <1>n, LogAfter DEF EventsOf
    <3> QED BY <2>1, <2>3, <3>1 DEF TellsRow
  <2> QED BY <2>1, <2>2, <2>3 DEF LastTold
<1> QED BY <1>1, <1>2

\* A burn is the only event of its slot; anything else comes after the burn.
LEMMA KeepsOneBurn ==
  ASSUME Inv, OneBurnPerSlot, NEW s \in SlotIds, NEW event, Recorded(s, event),
         Burned(s, event) \/ Continued(s, event)
  PROVE  OneBurnPerSlot'
<1>n. PICK n : n = Len(audit_events) + 1
  OBVIOUS
<1> DEFINE IsBurn(t, i) == /\ audit_events[i].event_type = "burn"
                           /\ audit_events[i].binding = rows[t].binding
                           /\ audit_events[i].event_hash = rows[t].first
                           /\ \A j \in EventsOf(t) \ {i} :
                                /\ j > i
                                /\ audit_events[j].event_type # "burn"
<1> SUFFICES ASSUME NEW t \in SlotIds
             PROVE  IF rows'[t].state = "available" THEN EventsOf(t)' = {}
                    ELSE \E i \in EventsOf(t)' : IsBurn(t, i)'
  BY DEF OneBurnPerSlot
<1>0. IF rows[t].state = "available" THEN EventsOf(t) = {}
      ELSE \E i \in EventsOf(t) : IsBurn(t, i)
  BY DEF OneBurnPerSlot
<1>1. CASE t = s /\ Burned(s, event)
  <2>1. EventsOf(s)' = {n} /\ audit_events'[n] = event
    BY <1>0, <1>n, <1>1, LogAfter DEF Burned
  <2>2. IsBurn(s, n)'
    BY <1>1, <2>1 DEF Burned
  <2> QED BY <1>1, <2>1, <2>2 DEF Recorded
<1>2. CASE t = s /\ Continued(s, event)
  <2>1. PICK i \in EventsOf(s) : IsBurn(s, i)
    BY <1>0, <1>2 DEF Continued
  <2>2. /\ EventsOf(s)' = EventsOf(s) \cup {n} /\ audit_events'[n] = event
        /\ \A j \in EventsOf(s) : audit_events'[j] = audit_events[j] /\ j \in Nat /\ n > j
    BY <1>n, LogAfter DEF EventsOf
  <2>3. rows'[s].binding = rows[s].binding /\ rows'[s].first = rows[s].first
    BY <1>2 DEF Continued
  <2>4. ASSUME NEW j \in EventsOf(s)' \ {i} PROVE j > i /\ audit_events'[j].event_type # "burn"
    <3>1. CASE j = n
      BY <1>2, <2>2, <3>1 DEF Continued
    <3>2. CASE j # n
      BY <2>1, <2>2, <3>2
    <3> QED BY <3>1, <3>2
  <2>5. IsBurn(s, i)'
    BY <2>1, <2>2, <2>3, <2>4
  <2> QED BY <1>2, <2>2, <2>5 DEF Recorded
<1>3. CASE t # s
  <2>1. rows'[t] = rows[t] /\ EventsOf(t)' = EventsOf(t)
    BY <1>3, LogAfter DEF Recorded
  <2>2. \A j \in EventsOf(t) : audit_events'[j] = audit_events[j]
    BY <1>n, LogAfter DEF EventsOf
  <2>3. ASSUME NEW i \in EventsOf(t), IsBurn(t, i) PROVE IsBurn(t, i)'
    BY <2>1, <2>2, <2>3
  <2> HIDE DEF IsBurn
  <2> QED BY <1>0, <2>1, <2>3
<1> QED BY <1>1, <1>2, <1>3

\* A new conflict found the slot burned, or a terminal event before it; an old
\* one poisoned the slot and a terminal state stays.
LEMMA KeepsPoison ==
  ASSUME Inv, LastTold, ConflictPoisons, NEW s \in SlotIds, NEW event, Recorded(s, event),
         Burned(s, event) \/ Continued(s, event)
  PROVE  ConflictPoisons'
<1> DEFINE n == Len(audit_events) + 1
<1> SUFFICES ASSUME NEW t \in SlotIds, NEW i \in EventsOf(t)',
                    audit_events'[i].event_type = "conflict-rejected",
                    \A j \in EventsOf(t)' : j < i => audit_events'[j].state \notin Outcomes
             PROVE  rows'[t].state = "retry-rejected"
  BY DEF ConflictPoisons
<1>1. CASE t = s /\ i = n
  <2>1. /\ EventsOf(s)' = EventsOf(s) \cup {n} /\ audit_events'[n] = event
        /\ \A j \in EventsOf(s) : audit_events'[j] = audit_events[j] /\ j < n
    BY LogAfter DEF EventsOf
  <2>2. Continued(s, event)
    BY <1>1, <2>1 DEF Burned
  <2>3. rows[s].state \notin Outcomes
    <3>1. PICK k \in EventsOf(s) : TellsRow(s, k)
      BY <2>2 DEF Continued, LastTold
    <3> QED BY <1>1, <2>1, <3>1 DEF TellsRow
  <2> QED BY <1>1, <2>1, <2>2, <2>3 DEF Continued
<1>2. CASE i \in EventsOf(t)
  <2>1. /\ EventsOf(t) \subseteq EventsOf(t)'
        /\ \A j \in EventsOf(t) : audit_events'[j] = audit_events[j]
    BY LogAfter DEF EventsOf
  <2>2. rows[t].state = "retry-rejected"
    BY <1>2, <2>1 DEF ConflictPoisons
  <2> QED BY <2>2 DEF Recorded, Burned, Continued, Outcomes
<1> QED BY <1>1, <1>2, LogAfter

LEMMA InitHistory == Init => History
<1> SUFFICES ASSUME Init PROVE History
  OBVIOUS
<1>1. \A s \in SlotIds : EventsOf(s) = {} /\ rows[s].state = "available" /\ rows[s].outcome = NoOutcome
  BY DEF Init, EventsOf
<1> QED
  BY <1>1 DEF History, OneBurnPerSlot, LastTold, ConflictPoisons, OutcomeColumn, Outcomes

LEMMA StepHistory == Inv /\ History /\ [Next]_vars => History'
<1> SUFFICES ASSUME Inv, History, [Next]_vars PROVE History'
  OBVIOUS
<1>1. CASE UNCHANGED <<rows, audit_events>>
  BY <1>1 DEF History, OneBurnPerSlot, LastTold, ConflictPoisons, TellsRow, OutcomeColumn, EventsOf
<1>2. ASSUME NEW s \in SlotIds, NEW event, Recorded(s, event),
             Burned(s, event) \/ Continued(s, event)
      PROVE  History'
  BY <1>2, KeepsOneBurn, KeepsLastTold, KeepsPoison DEF History
<1> QED BY <1>1, <1>2, StepRecords DEF History

-----------------------------------------------------------------------------
(* Theorems *)

\* The history holds after any calls.
THEOREM LogTellsHistory == Spec => []History
  BY InitHistory, StepHistory, LedgerTypeCorrect, PTL DEF Spec

\* Whatever calls were made, a consumed slot was burned exactly once, before
\* anything else happened to it, and its row still has that burn's binding.
THEOREM SlotBurnedOnce == Spec => []OneBurnPerSlot
<1>1. History => OneBurnPerSlot
  BY DEF History
<1> QED BY <1>1, LogTellsHistory, PTL

\* The last event of a slot and its row always agree, so a row can be rebuilt
\* from the log.
THEOREM RowFollowsLog == Spec => []LastEventTellsRow
<1>1. Inv /\ History => LastEventTellsRow
  <2> SUFFICES ASSUME Inv, History, NEW s \in SlotIds, NEW i \in EventsOf(s),
                      \A j \in EventsOf(s) : j <= i
               PROVE  /\ rows[s].state = audit_events[i].state
                      /\ rows[s].latest = audit_events[i].event_hash
                      /\ rows[s].outcome = IF rows[s].state \in Outcomes THEN rows[s].state
                                           ELSE NoOutcome
    BY DEF LastEventTellsRow
  <2>1. rows[s].state # "available"
    BY DEF History, OneBurnPerSlot
  <2>2. PICK k \in EventsOf(s) : TellsRow(s, k)
    BY <2>1 DEF History, LastTold
  <2>3. EventsOf(s) \subseteq Nat
    BY DEF EventsOf, Inv, TypeOK
  <2>4. k = i
    BY <2>2, <2>3 DEF TellsRow
  <2> QED BY <2>2, <2>4 DEF TellsRow, History, LastTold, OutcomeColumn
<1> QED BY <1>1, LogTellsHistory, LedgerTypeCorrect, PTL

\* A conflicting request before completion poisons its slot for good.
THEOREM ConflictsPoison == Spec => []ConflictPoisons
<1>1. History => ConflictPoisons
  BY DEF History
<1> QED BY <1>1, LogTellsHistory, PTL

-----------------------------------------------------------------------------
(* The replay of a log: what FoldLeft computes *)

\* Induction on the natural numbers, as a fact about sets.
LEMMA NatInductive ==
  ASSUME NEW T \in SUBSET Nat, 0 \in T, \A n \in T : n + 1 \in T
  PROVE  T = Nat
<1> SUFFICES ASSUME Nat \ T # {} PROVE FALSE
  OBVIOUS
<1>1. PICK rel : rel = OpToRel(<, Nat)
  BY Zenon
<1>2. IsWellFoundedOn(rel, Nat)
  BY <1>1, NatLessThanWellFounded, Zenon
<1>3. PICK x \in Nat \ T : \A y \in Nat \ T : ~ (<<y, x>> \in rel)
  BY <1>2, WFMin, Zenon
<1>4. x # 0 /\ x - 1 \in Nat \ T /\ x - 1 < x
  BY <1>3
<1>5. rel = {pair \in Nat \X Nat : pair[1] < pair[2]}
  BY <1>1, Zenon DEF OpToRel
<1>6. <<x - 1, x>> \in rel
  BY <1>4, <1>5
<1> QED
  BY <1>3, <1>4, <1>6

\* Positions up to n + 1 without n + 1 are positions up to n.
LEMMA WithoutLast ==
  ASSUME NEW n \in Nat, NEW S \in SUBSET (1 .. n + 1), n + 1 \notin S
  PROVE  S \in SUBSET (1 .. n)
<1>1. ASSUME NEW x \in S PROVE x \in 1 .. n
  <2>1. x \in 1 .. n + 1 /\ x # n + 1
    OBVIOUS
  <2> QED
    BY <2>1
<1> QED
  BY <1>1

LEMMA FirstPositions ==
  ASSUME NEW k \in Nat, NEW n \in Nat, k < n
  PROVE  /\ 1 .. k + 1 \in SUBSET (1 .. n) /\ k + 1 \in 1 .. k + 1
         /\ (1 .. k + 1) \ {k + 1} = 1 .. k
         /\ \A i \in 1 .. k + 1 : i <= k + 1
<1>1. ASSUME NEW i \in 1 .. k + 1 PROVE i \in 1 .. n
  OBVIOUS
<1> QED
  BY <1>1

\* A set of positions has a last one.
LEMMA LastPosition ==
  ASSUME NEW n \in Nat, NEW S \in SUBSET (1 .. n), S # {}
  PROVE  Max(S) \in S /\ \A x \in S : x <= Max(S)
<1> DEFINE HasLast(m) == \A P \in SUBSET (1 .. m) : P # {} => \E x \in P : \A y \in P : x >= y
<1>1. HasLast(0)
  <2>1. 1 .. 0 = {}
    OBVIOUS
  <2> QED
    BY <2>1
<1>2. ASSUME NEW m \in Nat, HasLast(m) PROVE HasLast(m + 1)
  <2> SUFFICES ASSUME NEW P \in SUBSET (1 .. m + 1), P # {}
               PROVE  \E x \in P : \A y \in P : x >= y
    OBVIOUS
  <2>1. CASE m + 1 \in P
    BY <2>1
  <2>2. CASE m + 1 \notin P
    <3>1. P \in SUBSET (1 .. m)
      BY <2>2, WithoutLast
    <3> QED
      BY <1>2, <3>1
  <2> QED
    BY <2>1, <2>2
<1> HIDE DEF HasLast
<1>3. PICK T : T = {m \in Nat : HasLast(m)}
  OBVIOUS
<1>4. T \in SUBSET Nat /\ 0 \in T /\ \A m \in T : m + 1 \in T
  BY <1>1, <1>2, <1>3
<1>5. T = Nat
  BY <1>4, NatInductive
<1>6. HasLast(n)
  BY <1>3, <1>5
<1>7. \E x \in S : \A y \in S : x >= y
  BY <1>6 DEF HasLast
<1>8. Max(S) \in S /\ \A y \in S : Max(S) >= y
  BY <1>7 DEF Max
<1> QED
  BY <1>8

NewReplay == [rows |-> EmptyReplay, broken |-> FALSE]

\* The function that FoldLeft defines by recursion over the sets of positions,
\* here over those up to n.
IsFold(log, n, fold) ==
  fold = [S \in SUBSET (1 .. n) |->
            IF S = {} THEN NewReplay
            ELSE ReplayEvent(fold[S \ {Max(S)}], log[Max(S)])]

FoldOf(log) == CHOOSE fold : IsFold(log, Len(log), fold)

ReplayOf(log) == FoldLeft(ReplayEvent, NewReplay, log)

LEMMA ReplayIsFold ==
  ASSUME NEW log \in Seq(AuditEvent)
  PROVE  ReplayOf(log) = FoldOf(log)[1 .. Len(log)]
<1>1. DOMAIN log = 1 .. Len(log)
  OBVIOUS
<1> QED
  BY <1>1, Zenon DEF ReplayOf, FoldLeft, MapThenFoldSet, FoldOf, IsFold

\* There is such a function.
LEMMA FoldExists == \A log : \A n \in Nat : \E fold : IsFold(log, n, fold)
<1> TAKE log
<1>1. \E fold : IsFold(log, 0, fold)
  <2>1. SUBSET (1 .. 0) = {{}}
    OBVIOUS
  <2>2. IsFold(log, 0, [S \in {{}} |-> NewReplay])
    BY <2>1 DEF IsFold
  <2> QED
    BY <2>2
<1>2. ASSUME NEW n \in Nat, NEW fold, IsFold(log, n, fold)
      PROVE  \E longer : IsFold(log, n + 1, longer)
  <2> DEFINE longer == [S \in SUBSET (1 .. n + 1) |->
                          IF n + 1 \in S THEN ReplayEvent(fold[S \ {n + 1}], log[n + 1])
                          ELSE fold[S]]
  <2>1. ASSUME NEW S \in SUBSET (1 .. n + 1), n + 1 \in S
        PROVE  longer[S] = ReplayEvent(longer[S \ {Max(S)}], log[Max(S)])
    <3>1. Max(S) = n + 1
      <4>1. Max(S) \in S /\ n + 1 <= Max(S) /\ Max(S) \in 1 .. n + 1
        <5>1. n + 1 \in Nat /\ S # {}
          BY <2>1
        <5> QED
          BY <2>1, <5>1, LastPosition
      <4> QED
        BY <4>1
    <3>2. S \ {n + 1} \in SUBSET (1 .. n + 1)
      OBVIOUS
    <3>3. longer[S \ {n + 1}] = fold[S \ {n + 1}]
      BY <3>2
    <3>4. longer[S] = ReplayEvent(fold[S \ {n + 1}], log[n + 1])
      BY <2>1
    <3> QED
      BY <3>1, <3>3, <3>4
  <2>2. ASSUME NEW S \in SUBSET (1 .. n + 1), n + 1 \notin S
        PROVE  longer[S] = IF S = {} THEN NewReplay
                           ELSE ReplayEvent(longer[S \ {Max(S)}], log[Max(S)])
    <3>1. S \in SUBSET (1 .. n)
      BY <2>2, WithoutLast
    <3>2. longer[S] = fold[S] /\ longer[S \ {Max(S)}] = fold[S \ {Max(S)}]
      BY <2>2
    <3>3. fold[S] = IF S = {} THEN NewReplay
                    ELSE ReplayEvent(fold[S \ {Max(S)}], log[Max(S)])
      BY <1>2, <3>1 DEF IsFold
    <3> QED
      BY <3>2, <3>3
  <2>3. longer = [S \in SUBSET (1 .. n + 1) |-> longer[S]]
    OBVIOUS
  <2> HIDE DEF longer
  <2>4. \A S \in SUBSET (1 .. n + 1) :
          longer[S] = IF S = {} THEN NewReplay
                      ELSE ReplayEvent(longer[S \ {Max(S)}], log[Max(S)])
    BY <2>1, <2>2
  <2>5. IsFold(log, n + 1, longer)
    BY <2>3, <2>4 DEF IsFold
  <2> QED
    BY <2>5
<1>3. PICK T : T = {n \in Nat : \E fold : IsFold(log, n, fold)}
  OBVIOUS
<1>4. T \in SUBSET Nat /\ 0 \in T /\ \A n \in T : n + 1 \in T
  BY <1>1, <1>2, <1>3
<1>5. T = Nat
  BY <1>4, NatInductive
<1> QED
  BY <1>3, <1>5

\* Along the log it applies one event after the other.
LEMMA FoldSteps ==
  ASSUME NEW log, NEW n \in Nat, NEW fold, IsFold(log, n, fold)
  PROVE  /\ fold[1 .. 0] = NewReplay
         /\ \A k \in Nat : k < n => fold[1 .. k + 1] = ReplayEvent(fold[1 .. k], log[k + 1])
<1>1. fold[1 .. 0] = NewReplay
  <2>1. 1 .. 0 = {} /\ {} \in SUBSET (1 .. n)
    OBVIOUS
  <2> QED
    BY <2>1 DEF IsFold
<1>2. ASSUME NEW k \in Nat, k < n
      PROVE  fold[1 .. k + 1] = ReplayEvent(fold[1 .. k], log[k + 1])
  <2>1. PICK S : S = 1 .. k + 1
    OBVIOUS
  <2>2. S \in SUBSET (1 .. n) /\ k + 1 \in S /\ S \ {k + 1} = 1 .. k /\ \A i \in S : i <= k + 1
    BY <1>2, <2>1, FirstPositions
  <2>3. Max(S) = k + 1
    <3>1. Max(S) \in S /\ k + 1 <= Max(S) /\ Max(S) <= k + 1 /\ Max(S) \in Nat
      BY <2>2, LastPosition
    <3> QED
      BY <3>1
  <2>4. fold[S] = ReplayEvent(fold[S \ {Max(S)}], log[Max(S)])
    BY <2>2 DEF IsFold
  <2> QED
    BY <2>1, <2>2, <2>3, <2>4
<1> QED
  BY <1>1, <1>2

SameUpTo(a, b, n) == \A i \in 1 .. n : a[i] = b[i]

\* The replay of a log is decided by its events, in order.
LEMMA FoldsAgree ==
  ASSUME NEW a, NEW b, NEW n \in Nat, SameUpTo(a, b, n),
         NEW f, IsFold(a, n, f), NEW g, IsFold(b, n + 1, g)
  PROVE  f[1 .. n] = g[1 .. n]
<1>0. n + 1 \in Nat
  OBVIOUS
<1> DEFINE Same(k) == k <= n => f[1 .. k] = g[1 .. k]
<1>1. Same(0)
  <2>1. f[1 .. 0] = NewReplay
    BY FoldSteps
  <2>2. g[1 .. 0] = NewReplay
    BY <1>0, FoldSteps, Zenon
  <2> QED
    BY <2>1, <2>2
<1>2. ASSUME NEW k \in Nat, Same(k) PROVE Same(k + 1)
  <2> SUFFICES ASSUME k + 1 <= n PROVE f[1 .. k + 1] = g[1 .. k + 1]
    OBVIOUS
  <2>1. k < n /\ k < n + 1 /\ k + 1 \in 1 .. n
    OBVIOUS
  <2>2. f[1 .. k] = g[1 .. k] /\ a[k + 1] = b[k + 1]
    BY <1>2, <2>1 DEF SameUpTo
  <2>3. f[1 .. k + 1] = ReplayEvent(f[1 .. k], a[k + 1])
    BY <2>1, FoldSteps
  <2>4. g[1 .. k + 1] = ReplayEvent(g[1 .. k], b[k + 1])
    BY <1>0, <2>1, FoldSteps, ZenonT(40)
  <2> QED
    BY <2>2, <2>3, <2>4
<1> HIDE DEF Same
<1>3. PICK T : T = {k \in Nat : Same(k)}
  OBVIOUS
<1>4. T \in SUBSET Nat /\ 0 \in T /\ \A k \in T : k + 1 \in T
  BY <1>1, <1>2, <1>3
<1>5. T = Nat
  BY <1>4, NatInductive
<1>6. Same(n)
  BY <1>3, <1>5
<1> QED
  BY <1>6 DEF Same

(***************************************************************************)
(* The replay of no event is a new one, and one more event changes the     *)
(* replay of the log before it as _replayed_slot_state says.               *)
(***************************************************************************)
LEMMA ReplayAppended ==
  /\ ReplayOf(<<>>) = NewReplay
  /\ \A log \in Seq(AuditEvent) : \A event \in AuditEvent :
       ReplayOf(Append(log, event)) = ReplayEvent(ReplayOf(log), event)
<1>1. ASSUME NEW log \in Seq(AuditEvent)
      PROVE  IsFold(log, Len(log), FoldOf(log))
  <2>1. Len(log) \in Nat
    OBVIOUS
  <2>2. \E fold : IsFold(log, Len(log), fold)
    BY <2>1, FoldExists
  <2> QED
    BY <2>2, Zenon DEF FoldOf
<1>2. ReplayOf(<<>>) = NewReplay
  <2>1. <<>> \in Seq(AuditEvent) /\ Len(<<>>) = 0
    OBVIOUS
  <2>2. ReplayOf(<<>>) = FoldOf(<<>>)[1 .. 0] /\ IsFold(<<>>, 0, FoldOf(<<>>))
    BY <1>1, <2>1, ReplayIsFold
  <2> QED
    BY <2>2, FoldSteps
<1>3. ASSUME NEW log \in Seq(AuditEvent), NEW event \in AuditEvent
      PROVE  ReplayOf(Append(log, event)) = ReplayEvent(ReplayOf(log), event)
  <2>0. PICK n, longer : n = Len(log) /\ longer = Append(log, event)
    OBVIOUS
  <2>1. /\ n \in Nat /\ n = Len(log)
        /\ longer \in Seq(AuditEvent) /\ longer = Append(log, event) /\ Len(longer) = n + 1
        /\ \A i \in 1 .. n : log[i] = longer[i]
        /\ longer[n + 1] = event
    BY <2>0
  <2>2. PICK f, g : f = FoldOf(log) /\ g = FoldOf(longer)
    OBVIOUS
  <2>3. IsFold(log, n, f) /\ IsFold(longer, n + 1, g)
    BY <1>1, <2>1, <2>2
  <2>4. ReplayOf(log) = f[1 .. n] /\ ReplayOf(longer) = g[1 .. n + 1]
    BY <2>1, <2>2, ReplayIsFold
  <2>5. f[1 .. n] = g[1 .. n]
    <3>1. n \in Nat /\ SameUpTo(log, longer, n)
      BY <2>1 DEF SameUpTo
    <3>2. IsFold(log, n, f)
      BY <2>3
    <3>3. IsFold(longer, n + 1, g)
      BY <2>3
    <3> QED
      BY <3>1, <3>2, <3>3, FoldsAgree, SMTT(20)
  <2>6. g[1 .. n + 1] = ReplayEvent(g[1 .. n], event)
    <3>1. n \in Nat /\ n + 1 \in Nat /\ n < n + 1
      BY <2>1
    <3>2. g[1 .. n + 1] = ReplayEvent(g[1 .. n], longer[n + 1])
      BY <2>3, <3>1, FoldSteps, Zenon
    <3> QED
      BY <2>1, <3>2
  <2> QED
    BY <2>1, <2>4, <2>5, <2>6
<1> QED
  BY <1>2, <1>3

-----------------------------------------------------------------------------
(* The replay and the rows *)

\* What the replay of the whole log leaves for a row.
ReplayedRow(row) ==
  IF row.state = "available" THEN Nothing ELSE Replayed(row.state, row.binding, row.outcome)

\* A replay that no event has broken, and the row it gives one slot.
Replay(told) == [rows |-> told, broken |-> FALSE]

LogTellsRows == ReplayOf(audit_events) = Replay([s \in SlotIds |-> ReplayedRow(rows[s])])

HashesTold ==
  \A i \in DOMAIN audit_events :
    audit_events[i].event_hash = EventHash(audit_events[i].sequence, audit_events[i].created_at)

\* What each kind of event does to such a replay.
LEMMA ReplayBurn ==
  ASSUME NEW told, NEW s, NEW event, event.slot_id = s, event.event_type = "burn",
         NEW row, row = Replayed(event.state, event.binding, event.outcome)
  PROVE  ReplayEvent(Replay(told), event) = Replay([told EXCEPT ![s] = row])
  BY DEF Replay, ReplayEvent

LEMMA ReplayExact ==
  ASSUME NEW replay, NEW event, event.event_type = "exact-replay"
  PROVE  ReplayEvent(replay, event) = replay
  BY DEF ReplayEvent

LEMMA ReplayConflict ==
  ASSUME NEW told, NEW s, NEW event, event.slot_id = s, event.event_type = "conflict-rejected",
         NEW current, current = told[s], current # Nothing,
         NEW row, row = Replayed(event.state, current.binding,
                          IF event.state = current.state THEN current.outcome
                          ELSE "retry-rejected")
  PROVE  ReplayEvent(Replay(told), event) = Replay([told EXCEPT ![s] = row])
  BY DEF Replay, ReplayEvent

LEMMA ReplayOther ==
  ASSUME NEW told, NEW s, NEW event, event.slot_id = s,
         event.event_type \notin {"burn", "exact-replay", "conflict-rejected"},
         NEW current, current = told[s], current # Nothing,
         NEW row, row = Replayed(event.state, current.binding, event.outcome)
  PROVE  ReplayEvent(Replay(told), event) = Replay([told EXCEPT ![s] = row])
  BY DEF Replay, ReplayEvent

LEMMA ReplayedIsSomething ==
  ASSUME NEW row \in LedgerRow
  PROVE  Replayed(row.state, row.binding, row.outcome) # Nothing
  BY NothingAssumption DEF LedgerRow, Replayed

\* One step of the replay, from what the log told of the rows before the event.
LEMMA EventTellsRow ==
  ASSUME Inv, Inv', LastTold, NEW s \in SlotIds, NEW event \in AuditEvent, Recorded(s, event),
         Burned(s, event) \/ Continued(s, event),
         NEW told, told[s] = ReplayedRow(rows[s]), told = [told EXCEPT ![s] = told[s]]
  PROVE  ReplayEvent(Replay(told), event) = Replay([told EXCEPT ![s] = ReplayedRow(rows'[s])])
<1>0. PICK row : row = ReplayedRow(rows'[s])
  OBVIOUS
<1>s. event.slot_id = s
  BY DEF Recorded
<1>1. told[s] = ReplayedRow(rows[s]) /\ told = [told EXCEPT ![s] = told[s]]
  OBVIOUS
<1>2. /\ rows'[s].state = event.state /\ rows'[s].state # "available"
      /\ OutcomeColumn(rows[s]) /\ OutcomeColumn(rows'[s])
      /\ rows[s] \in LedgerRow /\ rows'[s] \in LedgerRow
  <2>1. rows[s] \in LedgerRow /\ rows'[s] \in LedgerRow
    BY DEF Inv, TypeOK
  <2> QED
    BY <2>1 DEF Recorded, LastTold, OutcomeColumn
<1>3. row = Replayed(event.state, rows'[s].binding, rows'[s].outcome)
  BY <1>0, <1>2 DEF ReplayedRow
<1>4. ReplayEvent(Replay(told), event) = Replay([told EXCEPT ![s] = row])
  <2>1. CASE Burned(s, event)
    <3>1. row = Replayed(event.state, event.binding, event.outcome) /\ event.event_type = "burn"
      BY <1>3, <2>1 DEF Burned
    <3> QED
      BY <1>s, <3>1, ReplayBurn, SMTT(30)
  <2>2. CASE Continued(s, event)
    <3>1. PICK current : current = Replayed(rows[s].state, rows[s].binding, rows[s].outcome)
      OBVIOUS
    <3>2. /\ current = told[s] /\ current # Nothing
          /\ current.state = rows[s].state /\ current.binding = rows'[s].binding
          /\ current.outcome = rows[s].outcome
      BY <1>1, <1>2, <2>2, <3>1, ReplayedIsSomething DEF Continued, ReplayedRow, Replayed
    <3>3. rows'[s].state = rows[s].state => rows'[s].outcome = rows[s].outcome
      BY <1>2 DEF OutcomeColumn
    <3>4. CASE event.event_type = "exact-replay"
      <4>1. row = told[s]
        BY <1>2, <1>3, <2>2, <3>1, <3>2, <3>3, <3>4 DEF Continued
      <4>2. ReplayEvent(Replay(told), event) = Replay(told)
        BY <3>4, ReplayExact
      <4>3. told = [told EXCEPT ![s] = row]
        BY <1>1, <4>1
      <4> QED
        BY <4>2, <4>3
    <3>5. CASE event.event_type = "conflict-rejected"
      <4>1. IF event.state = current.state THEN current.outcome = rows'[s].outcome
            ELSE rows'[s].outcome = "retry-rejected"
        BY <1>2, <2>2, <3>2, <3>3, <3>5 DEF Continued, OutcomeColumn, Outcomes
      <4>2. row = Replayed(event.state, current.binding,
                           IF event.state = current.state THEN current.outcome
                           ELSE "retry-rejected")
        BY <1>3, <3>2, <4>1
      <4> QED
        BY <1>s, <3>2, <3>5, <4>2 DEF Replay, ReplayEvent
    <3>6. CASE event.event_type \notin {"exact-replay", "conflict-rejected"}
      <4>1. row = Replayed(event.state, current.binding, event.outcome)
        BY <1>3, <2>2, <3>2, <3>6 DEF Continued
      <4>2. event.event_type \notin {"burn", "exact-replay", "conflict-rejected"}
        BY <2>2, <3>6 DEF Continued
      <4> QED
        BY <1>s, <3>2, <4>1, <4>2, ReplayOther, SMTT(30)
    <3> QED
      BY <3>4, <3>5, <3>6
  <2> QED
    BY <2>1, <2>2
<1> QED
  BY <1>0, <1>4

LEMMA KeepsLogTellsRows ==
  ASSUME Inv, Inv', LastTold, LogTellsRows, NEW s \in SlotIds, NEW event, Recorded(s, event),
         Burned(s, event) \/ Continued(s, event)
  PROVE  LogTellsRows'
<1>1. /\ audit_events \in Seq(AuditEvent) /\ event \in AuditEvent
      /\ audit_events' = Append(audit_events, event)
  <2>1. audit_events \in Seq(AuditEvent) /\ audit_events' \in Seq(AuditEvent)
    BY DEF Inv, TypeOK
  <2>2. /\ Len(audit_events) + 1 \in DOMAIN audit_events'
        /\ audit_events'[Len(audit_events) + 1] = event
    BY LogAfter
  <2> QED
    BY <2>1, <2>2 DEF Recorded
<1>2. PICK told : told = [t \in SlotIds |-> ReplayedRow(rows[t])]
  OBVIOUS
<1>3. ReplayOf(audit_events') = ReplayEvent(Replay(told), event)
  BY <1>1, <1>2, ReplayAppended DEF LogTellsRows
<1>4. ReplayEvent(Replay(told), event) = Replay([told EXCEPT ![s] = ReplayedRow(rows'[s])])
  <2>1. told[s] = ReplayedRow(rows[s]) /\ told = [told EXCEPT ![s] = told[s]]
    BY <1>2
  <2> QED
    BY <1>1, <2>1, EventTellsRow
<1>5. [told EXCEPT ![s] = ReplayedRow(rows'[s])] = [t \in SlotIds |-> ReplayedRow(rows'[t])]
  <2>1. \A t \in SlotIds \ {s} : rows'[t] = rows[t]
    BY DEF Recorded
  <2> HIDE DEF ReplayedRow
  <2> QED
    BY <1>2, <2>1
<1> QED
  BY <1>3, <1>4, <1>5 DEF LogTellsRows

LEMMA KeepsHashes ==
  ASSUME Inv, HashesTold, NEW s \in SlotIds, NEW event, Recorded(s, event)
  PROVE  HashesTold'
<1>1. \A i \in DOMAIN audit_events' :
        (i \in DOMAIN audit_events /\ audit_events'[i] = audit_events[i])
        \/ audit_events'[i] = event
  BY LogAfter
<1> QED
  BY <1>1 DEF HashesTold, Recorded

LogTold == LogTellsRows /\ HashesTold

LEMMA InitLogTold == Init => LogTold
<1> SUFFICES ASSUME Init PROVE LogTold
  OBVIOUS
<1>1. audit_events = <<>> /\ \A s \in SlotIds : rows[s].state = "available"
  BY DEF Init
<1>2. [s \in SlotIds |-> ReplayedRow(rows[s])] = EmptyReplay
  BY <1>1 DEF ReplayedRow, EmptyReplay
<1> QED
  BY <1>1, <1>2, ReplayAppended DEF LogTold, LogTellsRows, HashesTold, NewReplay, Replay

LEMMA StepLogTold == Inv /\ Inv' /\ History /\ LogTold /\ [Next]_vars => LogTold'
<1> SUFFICES ASSUME Inv, Inv', History, LogTold, [Next]_vars PROVE LogTold'
  OBVIOUS
<1>1. CASE UNCHANGED <<rows, audit_events>>
  BY <1>1 DEF LogTold, LogTellsRows, HashesTold
<1>2. ASSUME NEW s \in SlotIds, NEW event, Recorded(s, event),
             Burned(s, event) \/ Continued(s, event)
      PROVE  LogTold'
  BY <1>2, KeepsLogTellsRows, KeepsHashes DEF LogTold, History
<1> QED
  BY <1>1, <1>2, StepRecords DEF History

\* Replaying the log of any history of calls gives back the live rows.
THEOREM ReplayTellsRows == Spec => []LogTold
  BY InitLogTold, StepLogTold, LedgerTypeCorrect, LogTellsHistory, PTL DEF Spec

-----------------------------------------------------------------------------
(* verify_audit_chain, beside the writers *)

\* The verifier only reads: beside it the ledger is the ledger.
LEMMA VerifierOnlyReads == VerifierSpec => Spec
<1>1. VerifierInit => Init
  BY DEF VerifierInit
<1>2. [VerifierNext]_allVars => [Next]_vars
  BY DEF VerifierNext, Verifier, ReadRows, ReplayLog, WalkLog, CompareHead, Writer, allVars, vars
<1> QED
  BY <1>1, <1>2, PTL DEF VerifierSpec, Spec

Told == Inv /\ History /\ ChainIntact /\ LogTold

LEMMA LedgerTold == VerifierSpec => []Told
<1>1. Spec => []Inv /\ []History /\ []ChainIntact /\ []LogTold
  BY LedgerTypeCorrect, LogTellsHistory, ChainStaysIntact, ReplayTellsRows
<1>2. Inv /\ History /\ ChainIntact /\ LogTold => Told
  BY DEF Told
<1> QED
  BY <1>1, <1>2, VerifierOnlyReads, PTL

LEMMA RowsExpected ==
  ASSUME Told
  PROVE  ReplayedSlotState(audit_events) = [s \in SlotIds |-> ReplayedRow(rows[s])]
<1>1. ReplayOf(audit_events) = Replay([s \in SlotIds |-> ReplayedRow(rows[s])])
  BY DEF Told, LogTold, LogTellsRows
<1> QED
  BY <1>1 DEF ReplayedSlotState, ReplayOf, NewReplay, Replay

LEMMA NothingExpected == ReplayedSlotState(<<>>) = EmptyReplay
  BY ReplayAppended DEF ReplayedSlotState, ReplayOf, NewReplay

LEMMA RowsMatchLog ==
  ASSUME Told
  PROVE  SlotStateMatchesAuditLog(rows, audit_events)
<1>1. ASSUME NEW s \in SlotIds, NEW expected, expected = ReplayedRow(rows[s])
      PROVE  Replayed(rows[s].state, rows[s].binding, rows[s].outcome) =
               IF expected = Nothing THEN Replayed("available", NoBinding, NoOutcome) ELSE expected
  <2>1. rows[s] \in LedgerRow /\ WellFormedRow(rows[s]) /\ OutcomeColumn(rows[s])
    BY DEF Told, Inv, TypeOK, RowsWellFormed, History, LastTold
  <2>2. CASE rows[s].state = "available"
    BY <1>1, <2>1, <2>2 DEF ReplayedRow, WellFormedRow, OutcomeColumn, Outcomes
  <2>3. CASE rows[s].state # "available"
    BY <1>1, <2>1, <2>3, ReplayedIsSomething DEF ReplayedRow
  <2> QED
    BY <2>2, <2>3
<1>2. \A s \in SlotIds : ReplayedSlotState(audit_events)[s] = ReplayedRow(rows[s])
  BY RowsExpected
<1> QED
  BY <1>1, <1>2 DEF SlotStateMatchesAuditLog

LEMMA LinksMatchHead ==
  ASSUME Told
  PROVE  LinksHold(audit_events) /\ chain_head = LastHash(audit_events)
<1>1. LinksHold(audit_events)
  BY DEF Told, ChainIntact, LogTold, HashesTold, LinksHold
<1>2. chain_head = LastHash(audit_events)
  BY DEF Told, ChainIntact, LastHash, Last
<1> QED
  BY <1>1, <1>2

\* Whatever calls were made, the live rows are what the log implies and the
\* chain verifies up to the head: _slot_state_matches_audit_log never refuses
\* a ledger that only its own operations wrote.
THEOREM RowsFollowFromLog == VerifierSpec => []LogImpliesRows
<1>1. Told => LogImpliesRows
  BY RowsMatchLog, LinksMatchHead DEF LogImpliesRows
<1> QED
  BY <1>1, LedgerTold, PTL

\* A consumed row put back to available, and a wiped log beside a consumed
\* row, are noticed from every ledger the operations can reach.
THEOREM RewritesAreNoticed == VerifierSpec => []RewriteIsNoticed
<1>1. Told => RewriteIsNoticed
  <2> SUFFICES ASSUME Told, NEW s \in SlotIds, rows[s].state # "available",
                      NEW live,
                      live = [rows EXCEPT ![s] = [@ EXCEPT !.state = "available",
                                                   !.binding = NoBinding, !.outcome = NoOutcome]]
               PROVE  /\ ~ SlotStateMatchesAuditLog(live, audit_events)
                      /\ ~ SlotStateMatchesAuditLog(rows, <<>>)
    BY DEF RewriteIsNoticed
  <2>1. rows[s] \in LedgerRow /\ rows \in [SlotIds -> LedgerRow]
    BY DEF Told, Inv, TypeOK
  <2>2. ~ SlotStateMatchesAuditLog(live, audit_events)
    <3>1. live[s].state = "available"
      BY <2>1 DEF LedgerRow
    <3>2. /\ ReplayedSlotState(audit_events)[s] = Replayed(rows[s].state, rows[s].binding, rows[s].outcome)
          /\ ReplayedSlotState(audit_events)[s] # Nothing
      BY <2>1, RowsExpected, ReplayedIsSomething DEF ReplayedRow
    <3> QED
      BY <3>1, <3>2 DEF SlotStateMatchesAuditLog, Replayed
  <2>3. ~ SlotStateMatchesAuditLog(rows, <<>>)
    <3>1. ReplayedSlotState(<<>>)[s] = Nothing
      BY NothingExpected DEF EmptyReplay
    <3> QED
      BY <3>1 DEF SlotStateMatchesAuditLog, Replayed
  <2> QED
    BY <2>2, <2>3
<1> QED
  BY <1>1, LedgerTold, PTL

\* What the verifier holds while nobody has written since it read the rows.
Quiet ==
  ~ disturbed =>
    /\ seen_rows = rows
    /\ step # "rejected"
    /\ step = "head" => walked = LastHash(audit_events)

\* A call that leaves the log alone leaves the rows alone.
LEMMA NoEventNoChange ==
  ASSUME Told, [Next]_vars, audit_events' = audit_events
  PROVE  rows' = rows
<1>1. ASSUME NEW event PROVE audit_events' # Append(audit_events, event)
  BY DEF Told, Inv, TypeOK
<1> QED
  BY <1>1, StepRecords DEF Told, History, Recorded

LEMMA StepQuiet == Told /\ Quiet /\ [VerifierNext]_allVars => Quiet'
<1> SUFFICES ASSUME Told, Quiet, [VerifierNext]_allVars PROVE Quiet'
  OBVIOUS
<1>1. CASE ReadRows
  BY <1>1 DEF ReadRows, Quiet, vars
<1>2. CASE ReplayLog
  BY <1>2, RowsMatchLog DEF ReplayLog, Quiet, vars
<1>3. CASE WalkLog
  BY <1>3, LinksMatchHead DEF WalkLog, Quiet, vars
<1>4. CASE CompareHead
  BY <1>4, LinksMatchHead DEF CompareHead, Quiet, vars
<1>5. CASE Writer
  <2>1. audit_events' = audit_events => rows' = rows
    BY <1>5, NoEventNoChange DEF Writer
  <2> QED
    BY <1>5, <2>1 DEF Writer, Quiet
<1>6. CASE UNCHANGED allVars
  BY <1>6 DEF allVars, vars, verifierVars, Quiet
<1> QED
  BY <1>1, <1>2, <1>3, <1>4, <1>5, <1>6 DEF VerifierNext, Verifier

\* A verification during which nobody writes accepts the ledger.
THEOREM QuietVerificationAccepts == VerifierSpec => []QuietVerifyAccepts
<1>1. VerifierInit => Quiet
  BY DEF VerifierInit, Quiet
<1>2. Quiet => QuietVerifyAccepts
  BY DEF Quiet, QuietVerifyAccepts
<1> QED
  BY <1>1, <1>2, StepQuiet, LedgerTold, PTL DEF VerifierSpec

=============================================================================
