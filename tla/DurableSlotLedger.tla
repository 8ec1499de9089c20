-------------------------- MODULE DurableSlotLedger --------------------------
(***************************************************************************)
(* src/ranklock/durable_slot_ledger.py: the SQLite ledger with its three   *)
(* tables.  Every public method runs one BEGIN IMMEDIATE transaction, so   *)
(* writers of any number of processes are serialised and an operation is   *)
(* one action; a transaction that raises rolls back and is a step that     *)
(* changes nothing.  The audit log is kept here in full; SlotLedger.tla is *)
(* what the rest of the system relies on.                                  *)
(***************************************************************************)
EXTENDS SlotStates, Sequences

CONSTANT MaxEvents   \* _u(sequence, 8): the largest sequence number, 2^64 - 1 in the code

ASSUME MaxEventsAssumption == MaxEvents \in Nat

VARIABLES
  rows,          \* table slots: state, binding, outcome, first and latest event hash
  audit_events,  \* table audit_events, in sequence order
  chain_head,    \* metadata row audit_chain_head
  now            \* what time.time_ns() returns

vars == <<rows, audit_events, chain_head, now>>

NoOutcome == "none"
EventTypes == {"burn", "exact-replay", "conflict-rejected", "finalize", "observation"}

LedgerRow ==
  [state : States, binding : Bindings \cup {NoBinding},
   outcome : Outcomes \cup {NoOutcome}, first : Hash, latest : Hash]

AuditEvent ==
  [sequence : Nat, slot_id : SlotIds, event_type : EventTypes, state : States,
   binding : Bindings, outcome : Outcomes \cup {NoOutcome}, created_at : Nat,
   previous_hash : Hash, event_hash : Hash]

TypeOK ==
  /\ rows \in [SlotIds -> LedgerRow]
  /\ audit_events \in Seq(AuditEvent)
  /\ chain_head \in Hash
  /\ now \in Nat

\* _initialize on a new database.
Init ==
  /\ rows = [s \in SlotIds |->
               [state |-> "available", binding |-> NoBinding, outcome |-> NoOutcome,
                first |-> ZeroHash, latest |-> ZeroHash]]
  /\ audit_events = <<>>
  /\ chain_head = ZeroHash
  /\ now = 0

-----------------------------------------------------------------------------
NextSequence == Len(audit_events) + 1

\* The hash the event appended next will have.
NextHash == EventHash(NextSequence, now)

\* Mutant: the head is not advanced, so two events get the same predecessor.
AppendWithoutHead(s, type, state, b, outcome) ==
  /\ NextSequence <= MaxEvents
  /\ audit_events' = Append(audit_events,
       [sequence |-> NextSequence, slot_id |-> s, event_type |-> type, state |-> state,
        binding |-> b, outcome |-> outcome, created_at |-> now,
        previous_hash |-> chain_head, event_hash |-> NextHash])
  /\ UNCHANGED <<chain_head, now>>

\* _append_event: the event that continues the chain, and the new head.
AppendEvent(s, type, state, b, outcome) ==
  /\ NextSequence <= MaxEvents
  /\ audit_events' = Append(audit_events,
       [sequence |-> NextSequence, slot_id |-> s, event_type |-> type, state |-> state,
        binding |-> b, outcome |-> outcome, created_at |-> now,
        previous_hash |-> chain_head, event_hash |-> NextHash])
  /\ chain_head' = NextHash
  /\ UNCHANGED now

RollBack == UNCHANGED vars

-----------------------------------------------------------------------------
(* begin *)

\* Mutant: the "state = 'available'" check of begin is lost, so a consumed slot burns again.
BurnAgain(s, b) ==
  /\ AppendEvent(s, "burn", "burned", b, NoOutcome)
  /\ rows' = [rows EXCEPT ![s] = [state |-> "burned", binding |-> b, outcome |-> NoOutcome,
                                  first |-> NextHash, latest |-> NextHash]]

Burn(s, b) ==
  /\ rows[s].state = "available"
  /\ AppendEvent(s, "burn", "burned", b, NoOutcome)
  /\ rows' = [rows EXCEPT ![s] = [state |-> "burned", binding |-> b, outcome |-> NoOutcome,
                                  first |-> NextHash, latest |-> NextHash]]

\* Mutant: the replay is logged but the row's latest hash is not moved.
ExactReplayUntracked(s, b) ==
  /\ rows[s].state \notin {"available", "retry-rejected"}
  /\ rows[s].binding = b
  /\ AppendEvent(s, "exact-replay", rows[s].state, b, rows[s].outcome)
  /\ UNCHANGED rows

ExactReplay(s, b) ==
  /\ rows[s].state \notin {"available", "retry-rejected"}
  /\ rows[s].binding = b
  /\ AppendEvent(s, "exact-replay", rows[s].state, b, rows[s].outcome)
  /\ rows' = [rows EXCEPT ![s].latest = NextHash]

PoisonedReplay(s, b) ==
  /\ rows[s].state = "retry-rejected"
  /\ rows[s].binding = b
  /\ RollBack

\* Mutant: a conflict is only audited, and the burned slot can still complete.
ConflictAuditOnly(s, b) ==
  /\ rows[s].state # "available"
  /\ rows[s].binding # b
  /\ AppendEvent(s, "conflict-rejected", rows[s].state, b, "retry-rejected")
  /\ rows' = [rows EXCEPT ![s].latest = NextHash]

\* Mutant: the terminal outcome of a completed slot is overwritten by the conflict.
ConflictAlwaysRejects(s, b) ==
  /\ rows[s].state # "available"
  /\ rows[s].binding # b
  /\ AppendEvent(s, "conflict-rejected", "retry-rejected", b, "retry-rejected")
  /\ rows' = [rows EXCEPT ![s].state = "retry-rejected",
                          ![s].outcome = "retry-rejected",
                          ![s].latest = NextHash]

\* The event carries the rejected request; the row keeps the binding it has.
Conflict(s, b) ==
  /\ rows[s].state # "available"
  /\ rows[s].binding # b
  /\ \/ /\ rows[s].state \in Outcomes
        /\ AppendEvent(s, "conflict-rejected", rows[s].state, b, "retry-rejected")
        /\ rows' = [rows EXCEPT ![s].latest = NextHash]
     \/ /\ rows[s].state = "burned"
        /\ AppendEvent(s, "conflict-rejected", "retry-rejected", b, "retry-rejected")
        /\ rows' = [rows EXCEPT ![s].state = "retry-rejected",
                                ![s].outcome = "retry-rejected",
                                ![s].latest = NextHash]

Begin(s, b) ==
  \/ Burn(s, b)
  \/ ExactReplay(s, b)
  \/ PoisonedReplay(s, b)
  \/ Conflict(s, b)

-----------------------------------------------------------------------------
(* finalize *)

FinalizeBurned(s, outcome) ==
  /\ rows[s].state = "burned"
  /\ AppendEvent(s, "finalize", outcome, rows[s].binding, outcome)
  /\ rows' = [rows EXCEPT ![s].state = outcome, ![s].outcome = outcome, ![s].latest = NextHash]

\* The same outcome again returns the row; another one, or an unused slot, raises.
FinalizeUnchanged(s, outcome) ==
  /\ rows[s].state # "burned"
  /\ RollBack

\* Mutant: finalize forgets that a terminal slot keeps its outcome.
FinalizeAnyConsumed(s, outcome) ==
  \/ /\ rows[s].state # "available"
     /\ AppendEvent(s, "finalize", outcome, rows[s].binding, outcome)
     /\ rows' = [rows EXCEPT ![s].state = outcome, ![s].outcome = outcome, ![s].latest = NextHash]
  \/ FinalizeUnchanged(s, outcome)

Finalize(s, outcome) ==
  \/ FinalizeBurned(s, outcome)
  \/ FinalizeUnchanged(s, outcome)

-----------------------------------------------------------------------------
(* record_chain_observation: confirmed, reorg-observed or fork-observed *)

\* Mutant: an observation of an unused slot is recorded.
ObserveUnused(s) ==
  /\ AppendEvent(s, "observation", rows[s].state, rows[s].binding, rows[s].outcome)
  /\ rows' = [rows EXCEPT ![s].latest = NextHash]

Observe(s) ==
  /\ rows[s].state # "available"
  /\ AppendEvent(s, "observation", rows[s].state, rows[s].binding, rows[s].outcome)
  /\ rows' = [rows EXCEPT ![s].latest = NextHash]

ObserveRefused(s) ==
  /\ rows[s].state = "available"
  /\ RollBack

\* A call that has to append when the sequence numbers are used up raises.
LogFull ==
  /\ NextSequence > MaxEvents
  /\ RollBack

\* The clock; the code never compares two readings.
Tick ==
  /\ now' = now + 1
  /\ UNCHANGED <<rows, audit_events, chain_head>>

Next ==
  \/ \E s \in SlotIds, b \in Bindings : Begin(s, b)
  \/ \E s \in SlotIds, outcome \in Outcomes : Finalize(s, outcome)
  \/ \E s \in SlotIds : Observe(s) \/ ObserveRefused(s)
  \/ LogFull
  \/ Tick

Spec == Init /\ [][Next]_vars

-----------------------------------------------------------------------------
(* What the ledger promises *)

EventsOf(s) == {i \in DOMAIN audit_events : audit_events[i].slot_id = s}

(***************************************************************************)
(* Every event carries the hash of the one before it and the metadata row  *)
(* is the hash of the last: the chain verify_audit_chain walks has no gap, *)
(* whatever the interleaving of operations on different slots.             *)
(***************************************************************************)
ChainIntact ==
  /\ \A i \in DOMAIN audit_events :
       /\ audit_events[i].sequence = i
       /\ audit_events[i].previous_hash =
            IF i = 1 THEN ZeroHash ELSE audit_events[i - 1].event_hash
  /\ chain_head = IF audit_events = <<>> THEN ZeroHash
                  ELSE audit_events[Len(audit_events)].event_hash

(***************************************************************************)
(* A one-shot slot is burned once: the log of a consumed slot has exactly  *)
(* one burn event, nothing about the slot precedes it, and the row still   *)
(* has the binding and the first hash that event recorded.  An available   *)
(* slot has no event at all.                                               *)
(***************************************************************************)
OneBurnPerSlot ==
  \A s \in SlotIds :
    IF rows[s].state = "available"
    THEN EventsOf(s) = {}
    ELSE \E i \in EventsOf(s) :
           /\ audit_events[i].event_type = "burn"
           /\ audit_events[i].binding = rows[s].binding
           /\ audit_events[i].event_hash = rows[s].first
           /\ \A j \in EventsOf(s) \ {i} :
                /\ j > i
                /\ audit_events[j].event_type # "burn"

(***************************************************************************)
(* The last event of a slot tells its row: same state, its hash is the     *)
(* latest hash, and the outcome column agrees with the state.              *)
(***************************************************************************)
LastEventTellsRow ==
  \A s \in SlotIds : \A i \in EventsOf(s) :
    (\A j \in EventsOf(s) : j <= i) =>
      /\ rows[s].state = audit_events[i].state
      /\ rows[s].latest = audit_events[i].event_hash
      /\ rows[s].outcome = IF rows[s].state \in Outcomes THEN rows[s].state ELSE NoOutcome

(***************************************************************************)
(* A request that conflicts with a slot not yet completed poisons it: once *)
(* the log shows the conflict before any terminal event, the slot is       *)
(* retry-rejected and no later call completes it (comment at line 531).    *)
(***************************************************************************)
ConflictPoisons ==
  \A s \in SlotIds : \A i \in EventsOf(s) :
    ( /\ audit_events[i].event_type = "conflict-rejected"
      /\ \A j \in EventsOf(s) : j < i => audit_events[j].state \notin Outcomes )
    => rows[s].state = "retry-rejected"

(***************************************************************************)
(* A step never changes the binding of a consumed slot, never reopens it,  *)
(* and never changes the state or the outcome of a terminal one.           *)
(***************************************************************************)
ConsumedForGood ==
  [][\A s \in SlotIds :
       /\ rows[s].state # "available" =>
            /\ rows'[s].state # "available"
            /\ rows'[s].binding = rows[s].binding
       /\ rows[s].state \in Outcomes =>
            /\ rows'[s].state = rows[s].state
            /\ rows'[s].outcome = rows[s].outcome]_vars

(***************************************************************************)
(* The ledger with its log implements the ledger its clients see: the      *)
(* checkpoint columns of the rows, the number of events and the head.      *)
(***************************************************************************)
Abstract == INSTANCE SlotLedger WITH
  slots <- [s \in SlotIds |-> [state |-> rows[s].state, binding |-> rows[s].binding]],
  count <- Len(audit_events),
  head <- chain_head

ImplementsSlotLedger == Abstract!LedgerSpec
=============================================================================
