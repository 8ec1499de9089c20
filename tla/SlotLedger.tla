----------------------------- MODULE SlotLedger -----------------------------
(***************************************************************************)
(* The one-shot slot ledger as its clients see it: the slot rows, the      *)
(* number of audit events and the head of the audit chain.  Every method   *)
(* of DurableSlotLedger is one BEGIN IMMEDIATE transaction, so every       *)
(* operation is one action.  DurableSlotLedger.tla keeps the audit log     *)
(* itself and is shown to implement this module.                           *)
(*                                                                         *)
(* An operation is the disjunction of its outcomes, one action each, so    *)
(* that a client module can attach to each outcome what the caller does    *)
(* next (continue, or handle the exception).                               *)
(***************************************************************************)
EXTENDS SlotStates

CONSTANT MaxEvents   \* _u(sequence, 8): the largest sequence number, 2^64 - 1 in the code

ASSUME MaxEventsAssumption == MaxEvents \in Nat

VARIABLES
  slots,   \* table slots, the columns a checkpoint exports
  count,   \* number of rows of table audit_events
  head,    \* metadata row audit_chain_head
  now      \* what time.time_ns() returns, advanced by the environment

ledgerVars == <<slots, count, head, now>>

LedgerTypeOK ==
  /\ slots \in [SlotIds -> SlotRow]
  /\ count \in Nat
  /\ head \in Hash
  /\ now \in Nat

LedgerInit ==
  /\ slots = [s \in SlotIds |-> FreshRow]
  /\ count = 0
  /\ head = ZeroHash
  /\ now = 0

-----------------------------------------------------------------------------
\* _append_event: next sequence number, new head; _u raises past the last number.
AppendEvent ==
  /\ count < MaxEvents
  /\ count' = count + 1
  /\ head' = EventHash(count + 1, now)
  /\ UNCHANGED now

\* A transaction that ends without appending an event or raises.
NoEvent == UNCHANGED ledgerVars

\* Any call that has to append when the numbers are used up raises and rolls back.
LogFull ==
  /\ count = MaxEvents
  /\ NoEvent

-----------------------------------------------------------------------------
(* begin(slot, binding) *)

\* The first request burns the slot and binds it for ever.
BeginBurn(s, b) ==
  /\ slots[s].state = "available"
  /\ slots' = [slots EXCEPT ![s] = [state |-> "burned", binding |-> b]]
  /\ AppendEvent

\* Mutant: a request for a consumed slot is not compared with the slot's binding.
BeginExactUncompared(s, b) ==
  /\ slots[s].state \notin {"available", "retry-rejected"}
  /\ UNCHANGED slots
  /\ AppendEvent

\* The same request again: audited, row unchanged, whatever the state.
BeginExact(s, b) ==
  /\ slots[s].state \notin {"available", "retry-rejected"}
  /\ slots[s].binding = b
  /\ UNCHANGED slots
  /\ AppendEvent

\* The original request on a poisoned slot: SlotConflictError, no event.
BeginPoisoned(s, b) ==
  /\ slots[s].state = "retry-rejected"
  /\ slots[s].binding = b
  /\ NoEvent

\* Another request: SlotConflictError; a burned slot is poisoned, a
\* terminal one keeps its outcome.
BeginConflict(s, b) ==
  /\ slots[s].state # "available"
  /\ slots[s].binding # b
  /\ slots' = [slots EXCEPT ![s].state = IF @ = "burned" THEN "retry-rejected" ELSE @]
  /\ AppendEvent

Begin(s, b) ==
  \/ BeginBurn(s, b)
  \/ BeginExact(s, b)
  \/ BeginPoisoned(s, b)
  \/ BeginConflict(s, b)

-----------------------------------------------------------------------------
(* finalize(slot, outcome) *)

FinalizeBurned(s, outcome) ==
  /\ slots[s].state = "burned"
  /\ slots' = [slots EXCEPT ![s].state = outcome]
  /\ AppendEvent

\* Already terminal with this outcome: returns the row, appends nothing.
FinalizeAgain(s, outcome) ==
  /\ slots[s].state = outcome
  /\ NoEvent

\* SlotTerminalError (another outcome) or "slot was not started".
FinalizeRefused(s, outcome) ==
  /\ slots[s].state \notin {"burned", outcome}
  /\ NoEvent

\* The event would need a sequence number that does not exist: raises.
FinalizeFull(s) ==
  /\ slots[s].state = "burned"
  /\ LogFull

Finalize(s, outcome) ==
  \/ FinalizeBurned(s, outcome)
  \/ FinalizeAgain(s, outcome)
  \/ FinalizeRefused(s, outcome)
  \/ FinalizeFull(s)

-----------------------------------------------------------------------------
(* record_chain_observation(slot, event_type, ...): audited, never reopens *)

Observe(s) ==
  /\ slots[s].state # "available"
  /\ UNCHANGED slots
  /\ AppendEvent

ObserveRefused(s) ==
  /\ slots[s].state = "available"
  /\ NoEvent

-----------------------------------------------------------------------------
Tick ==
  /\ now' = now + 1
  /\ UNCHANGED <<slots, count, head>>

LedgerNext ==
  \/ \E s \in SlotIds, b \in Bindings : Begin(s, b)
  \/ \E s \in SlotIds, o \in Outcomes : Finalize(s, o)
  \/ \E s \in SlotIds : Observe(s) \/ ObserveRefused(s)
  \/ LogFull
  \/ Tick

LedgerSpec == LedgerInit /\ [][LedgerNext]_ledgerVars
=============================================================================
