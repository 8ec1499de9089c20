---------------------------- MODULE AuditVerifier ----------------------------
(***************************************************************************)
(* DurableSlotLedger.verify_audit_chain, run beside the writers.  Each of  *)
(* its reads opens a connection of its own, so the slot rows, the log that *)
(* is replayed, the log whose links are walked and the head are read at    *)
(* four different moments and writers may commit in between.               *)
(***************************************************************************)
EXTENDS DurableSlotLedger, SequencesExt

CONSTANT Nothing   \* a slot the replay has not met

ASSUME NothingAssumption ==
  Nothing \notin [state : States, binding : Bindings \cup {NoBinding},
                  outcome : Outcomes \cup {NoOutcome}]

VARIABLES
  step,       \* where the verifier is, or its verdict
  seen_rows,  \* the slots table as the verifier read it
  walked,     \* the hash of the last event whose link was checked
  disturbed   \* history: a writer committed since the verifier read the rows

verifierVars == <<step, seen_rows, walked, disturbed>>
allVars == <<vars, verifierVars>>

-----------------------------------------------------------------------------
(* _replayed_slot_state *)

Replayed(state, b, outcome) == [state |-> state, binding |-> b, outcome |-> outcome]

\* What one event does to the replayed rows; an event about a slot that no
\* burn introduced makes the replay return an empty result.
ReplayEvent(replay, event) ==
  LET s == event.slot_id
      current == replay.rows[s]
      Known(row) == IF current = Nothing THEN [replay EXCEPT !.broken = TRUE]
                    ELSE [replay EXCEPT !.rows[s] = row]
  IN IF replay.broken \/ event.event_type = "exact-replay" THEN replay
     ELSE CASE event.event_type = "conflict-rejected" ->
                 Known(Replayed(event.state, current.binding,
                         IF event.state = current.state THEN current.outcome
                         ELSE "retry-rejected"))
            [] event.event_type = "burn" ->
                 [replay EXCEPT !.rows[s] = Replayed(event.state, event.binding, event.outcome)]
            [] OTHER -> Known(Replayed(event.state, current.binding, event.outcome))

EmptyReplay == [s \in SlotIds |-> Nothing]

\* Mutant: conflicts take the branch of the other events, so a conflict after
\* completion moves the expected outcome.
ReplayNaively(log) ==
  LET Plain(replay, event) ==
        ReplayEvent(replay, IF event.event_type = "conflict-rejected"
                            THEN [event EXCEPT !.event_type = "finalize"] ELSE event)
  IN FoldLeft(Plain, [rows |-> EmptyReplay, broken |-> FALSE], log).rows

ReplayedSlotState(log) ==
  LET replay == FoldLeft(ReplayEvent, [rows |-> EmptyReplay, broken |-> FALSE], log)
  IN IF replay.broken THEN EmptyReplay ELSE replay.rows

\* Mutant: a slot no event speaks of is skipped instead of compared with a fresh row.
MatchesKnownSlots(live, log) ==
  LET expected == ReplayedSlotState(log)
  IN \A s \in SlotIds :
       expected[s] # Nothing =>
         /\ live[s].state = expected[s].state
         /\ live[s].binding = expected[s].binding
         /\ live[s].outcome = expected[s].outcome

\* _slot_state_matches_audit_log, on rows and a log that may be of two moments.
SlotStateMatchesAuditLog(live, log) ==
  LET expected == ReplayedSlotState(log)
      fresh == Replayed("available", NoBinding, NoOutcome)
  IN \A s \in SlotIds :
       Replayed(live[s].state, live[s].binding, live[s].outcome) =
         IF expected[s] = Nothing THEN fresh ELSE expected[s]

\* The loop over the events: links and recomputed hashes.
LinksHold(log) ==
  \A i \in DOMAIN log :
    /\ log[i].previous_hash = IF i = 1 THEN ZeroHash ELSE log[i - 1].event_hash
    /\ log[i].event_hash = EventHash(log[i].sequence, log[i].created_at)

LastHash(log) == IF log = <<>> THEN ZeroHash ELSE Last(log).event_hash

-----------------------------------------------------------------------------
VerifierInit ==
  /\ Init
  /\ step = "idle"
  /\ seen_rows = rows
  /\ walked = ZeroHash
  /\ disturbed = FALSE

ReadRows ==
  /\ step = "idle"
  /\ step' = "replay"
  /\ seen_rows' = rows
  /\ disturbed' = FALSE
  /\ UNCHANGED <<vars, walked>>

ReplayLog ==
  /\ step = "replay"
  /\ step' = IF SlotStateMatchesAuditLog(seen_rows, audit_events) THEN "walk" ELSE "rejected"
  /\ UNCHANGED <<vars, seen_rows, walked, disturbed>>

WalkLog ==
  /\ step = "walk"
  /\ IF LinksHold(audit_events)
     THEN step' = "head" /\ walked' = LastHash(audit_events)
     ELSE step' = "rejected" /\ UNCHANGED walked
  /\ UNCHANGED <<vars, seen_rows, disturbed>>

CompareHead ==
  /\ step = "head"
  /\ step' = IF chain_head = walked THEN "accepted" ELSE "rejected"
  /\ UNCHANGED <<vars, seen_rows, walked, disturbed>>

Verifier == ReadRows \/ ReplayLog \/ WalkLog \/ CompareHead

\* A writer commits; the verifier holds no lock between its reads.
Writer ==
  /\ Next
  /\ disturbed' = (disturbed \/ audit_events' # audit_events)
  /\ UNCHANGED <<step, seen_rows, walked>>

VerifierNext == Verifier \/ Writer

VerifierSpec == VerifierInit /\ [][VerifierNext]_allVars

-----------------------------------------------------------------------------
(***************************************************************************)
(* At every moment the rows are what the log implies: replaying the log of *)
(* any history of calls, honest conflicts and replays included, gives back *)
(* the live rows, and the chain verifies up to the head.                   *)
(***************************************************************************)
LogImpliesRows ==
  /\ SlotStateMatchesAuditLog(rows, audit_events)
  /\ LinksHold(audit_events)
  /\ chain_head = LastHash(audit_events)

(***************************************************************************)
(* The two rewrites the docstring of verify_audit_chain names are noticed  *)
(* from every reachable ledger: a consumed row put back to available under *)
(* an untouched log, and a wiped log next to a consumed row.               *)
(***************************************************************************)
RewriteIsNoticed ==
  \A s \in SlotIds :
    rows[s].state # "available" =>
      /\ ~ SlotStateMatchesAuditLog(
             [rows EXCEPT ![s] = [@ EXCEPT !.state = "available", !.binding = NoBinding,
                                           !.outcome = NoOutcome]], audit_events)
      /\ ~ SlotStateMatchesAuditLog(rows, <<>>)

(***************************************************************************)
(* A verification during which nobody writes accepts: a rejection is never *)
(* the fault of the ledger's own operations when the ledger is quiet.      *)
(***************************************************************************)
QuietVerifyAccepts == step = "rejected" => disturbed

(***************************************************************************)
(* The docstring's reading: verify_audit_chain tells whether the live rows *)
(* are what the log implies, so an untouched ledger is never rejected,     *)
(* workers writing to it or not.                                           *)
(***************************************************************************)
UntouchedLedgerNeverRejected == step # "rejected"
=============================================================================
