---------------------------- MODULE OneShotRelease ----------------------------
(***************************************************************************)
(* What a participant promises to whoever holds its response files: every  *)
(* slot is bound at most once, ends at most once, and files follow the     *)
(* binding and the end, never the other way round.  It is the promise of   *)
(* docs/57 as the sidecar keeps it; TwoPhaseSidecar.tla is shown to        *)
(* implement it with the rows of a rollback witness as the slots.          *)
(***************************************************************************)
EXTENDS SlotStates

VARIABLES
  row,      \* per slot: its state and binding, as the rest of the world may rely on it
  labels,   \* label-share files that are visible: <<slot, binding>>
  seeds     \* seed-share files that are visible: <<slot, binding>>

releaseVars == <<row, labels, seeds>>

ReleaseInit ==
  /\ row = [s \in SlotIds |-> FreshRow]
  /\ labels = {}
  /\ seeds = {}

\* One slot: nothing happens, its first request binds it, or it ends with an outcome.
Bound(before, after) ==
  /\ before = FreshRow
  /\ after \in [state : {"burned"}, binding : Bindings]

Ended(before, after) ==
  /\ before.state = "burned"
  /\ \E outcome \in Outcomes : after = [before EXCEPT !.state = outcome]

\* Slots move independently; one checkpoint may report the moves of several.
SlotsMove ==
  /\ row' \in [SlotIds -> SlotRow]
  /\ \A s \in SlotIds :
       row'[s] = row[s] \/ Bound(row[s], row'[s]) \/ Ended(row[s], row'[s])
  /\ UNCHANGED <<labels, seeds>>

PublishLabels(s, b) ==
  /\ row[s].state # "available"
  /\ row[s].binding = b
  /\ labels' = labels \cup {<<s, b>>}
  /\ UNCHANGED <<row, seeds>>

PublishSeed(s, b) ==
  /\ row[s].state = "success"
  /\ row[s].binding = b
  /\ seeds' = seeds \cup {<<s, b>>}
  /\ UNCHANGED <<row, labels>>

ReleaseNext ==
  \/ SlotsMove
  \/ \E s \in SlotIds, b \in Bindings : PublishLabels(s, b) \/ PublishSeed(s, b)

ReleaseSpec == ReleaseInit /\ [][ReleaseNext]_releaseVars
=============================================================================
