---------------------------- MODULE ShareCollection ----------------------------
(***************************************************************************)
(* What a coordinator makes of the answers of many participants.  Three    *)
(* designs of the repository do this:                                      *)
(*                                                                         *)
(*   one-phase   committee_authorization.py: one response per participant, *)
(*               all N of them reconstruct labels and program seed;        *)
(*   two-phase   two_phase_authorization.py: all N label responses give    *)
(*               the witness that is broadcast, all N seed responses then  *)
(*               open the program;                                         *)
(*   threshold   v026/threshold_signature_release.py: a valid proof opens  *)
(*               the participants' locks, any t exact ACK signatures make  *)
(*               a capsule, and a first-writer-wins store adopts one.      *)
(*                                                                         *)
(* An item is a request for the one slot (committee designs) or an ACK     *)
(* alternative (threshold).  An answer that was sent stays obtainable; a   *)
(* coordinator that misses, loses or receives it late simply does not use  *)
(* it, so every call may use any set of answers.  An honest participant is *)
(* the one-shot release of OneShotRelease.tla: it answers for the request  *)
(* its slot is bound to.  A corrupt one answers anything it can produce.   *)
(***************************************************************************)
EXTENDS Integers, FiniteSets

CONSTANTS
  ParticipantCount,  \* participant_count, or the number of activation participants
  Threshold,         \* threshold t of the v0.26 policy
  MaxCorrupt,        \* max_corrupt f of the v0.26 policy
  Items,             \* requests for the slot, or ACK alternatives
  None,              \* nothing yet
  Coordinators,      \* processes that collect answers
  MaxCrashes         \* how many coordinators crash

\* ThresholdReleasePolicy.__post_init__.
ASSUME PolicyAssumption ==
  /\ ParticipantCount \in 2 .. 64
  /\ Threshold \in Nat /\ MaxCorrupt \in Nat
  /\ MaxCorrupt < Threshold
  /\ Threshold <= ParticipantCount - MaxCorrupt
ASSUME NoneAssumption == None \notin Items
ASSUME CrashAssumption == MaxCrashes \in Nat

VARIABLES
  design,     \* which of the three designs is deployed
  corrupt,    \* participants that do not follow the protocol
  row,        \* per participant: its slot (committee designs)
  sent,       \* answers of honest participants that left them
  confirmed,  \* the request the active chain confirms, or None
  proven,     \* alternatives for which a valid proof exists (threshold)
  broadcast,  \* requests whose witness labels were reconstructed (two-phase)
  executed,   \* requests whose program was opened and replayed
  capsule,    \* per coordinator: the capsule it has recovered, or None
  adopted,    \* per alternative: the capsule of the first-writer-wins store
  published,  \* capsules adopt has returned
  crashes     \* coordinators that crashed

vars == <<design, corrupt, row, sent, confirmed, proven, broadcast, executed,
          capsule, adopted, published, crashes>>

Participants == 0 .. (ParticipantCount - 1)
Designs == {"one-phase", "two-phase", "threshold"}
Committee == design # "threshold"

Parts ==
  CASE design = "one-phase" -> {"response"}
    [] design = "two-phase" -> {"labels", "seed"}
    [] design = "threshold" -> {"ack"}

\* "exact" passes every check.  "bad" fails one: a signature, a commitment, the
\* participant's key.  "forked" is a second valid signature of the same ACK,
\* which BIP340's auxiliary randomness allows; XOR shares have no second value.
Kinds == {"exact", "bad", "forked"}

Answer ==
  [by : Participants, item : Items, part : {"response", "labels", "seed", "ack"}, kind : Kinds]

SlotState == [state : {"available", "burned", "success", "abort"}, item : Items \cup {None}]

Capsules == [item : Items, answers : SUBSET Answer]

Exact(p, i, part) == [by |-> p, item |-> i, part |-> part, kind |-> "exact"]

Honest == Participants \ corrupt

TypeOK ==
  /\ design \in Designs
  /\ corrupt \subseteq Participants
  /\ row \in [Participants -> SlotState]
  /\ sent \subseteq Answer
  /\ confirmed \in Items \cup {None}
  /\ proven \subseteq Items /\ broadcast \subseteq Items /\ executed \subseteq Items
  /\ capsule \in [Coordinators -> Capsules \cup {None}]
  /\ adopted \in [Items -> Capsules \cup {None}]
  /\ published \subseteq Capsules
  /\ crashes \in 0 .. MaxCrashes

\* A committee release needs one honest member, the threshold policy at most f
\* corrupt ones.
Init ==
  /\ design \in Designs
  /\ corrupt \in SUBSET Participants
  /\ Cardinality(corrupt) <= IF Committee THEN ParticipantCount - 1 ELSE MaxCorrupt
  /\ row = [p \in Participants |-> [state |-> "available", item |-> None]]
  /\ sent = {}
  /\ confirmed = None
  /\ proven = {} /\ broadcast = {} /\ executed = {}
  /\ capsule = [c \in Coordinators |-> None]
  /\ adopted = [i \in Items |-> None]
  /\ published = {}
  /\ crashes = 0

-----------------------------------------------------------------------------
(* Honest participants of the committee designs *)

\* The slot is bound to the first request that reaches it.
Bind(p, i) ==
  /\ Committee
  /\ p \in Honest
  /\ row[p].state = "available"
  /\ row' = [row EXCEPT ![p] = [state |-> "burned", item |-> i]]
  /\ UNCHANGED <<design, corrupt, sent, confirmed, proven, broadcast, executed,
                 capsule, adopted, published, crashes>>

\* The slot ends: success only while Core confirms its request.
End(p) ==
  /\ p \in Honest
  /\ row[p].state = "burned"
  /\ \/ confirmed = row[p].item /\ row' = [row EXCEPT ![p].state = "success"]
     \/ row' = [row EXCEPT ![p].state = "abort"]
  /\ UNCHANGED <<design, corrupt, sent, confirmed, proven, broadcast, executed,
                 capsule, adopted, published, crashes>>

Send(p, i, part) ==
  /\ sent' = sent \cup {Exact(p, i, part)}
  /\ UNCHANGED <<design, corrupt, row, confirmed, proven, broadcast, executed,
                 capsule, adopted, published, crashes>>

\* Labels after the burn, also by a worker that has not seen that another one
\* ended the slot since; the seed share, or the whole one-phase response, only
\* after success.
Respond(p, part) ==
  /\ Committee
  /\ p \in Honest
  /\ part \in Parts
  /\ row[p].state \in IF part = "labels" THEN {"burned", "success", "abort"} ELSE {"success"}
  /\ Send(p, row[p].item, part)

-----------------------------------------------------------------------------
(* The chain and the prover *)

\* A two-phase witness transaction carries the reconstructed labels.
Confirm(i) ==
  /\ Committee
  /\ confirmed = None
  /\ design = "two-phase" => i \in broadcast
  /\ confirmed' = i
  /\ UNCHANGED <<design, corrupt, row, sent, proven, broadcast, executed,
                 capsule, adopted, published, crashes>>

Reorganise ==
  /\ confirmed # None
  /\ confirmed' = None
  /\ UNCHANGED <<design, corrupt, row, sent, proven, broadcast, executed,
                 capsule, adopted, published, crashes>>

Prove(i) ==
  /\ ~ Committee
  /\ proven' = proven \cup {i}
  /\ UNCHANGED <<design, corrupt, row, sent, confirmed, broadcast, executed,
                 capsule, adopted, published, crashes>>

\* unlock_participant on the row of an honest participant: the proof opens the
\* lock, and the signature in it is the exact one.
Unlock(p, i) ==
  /\ i \in proven
  /\ p \in Honest
  /\ Send(p, i, "ack")

-----------------------------------------------------------------------------
(* Coordinators *)

Forgeable(i, part) ==
  {a \in Answer : /\ a.by \in corrupt /\ a.item = i /\ a.part = part
                  /\ a.kind = "forked" => part = "ack"}

\* The signatures the honest rows of an alternative gave.
Unlocked(i) == {a \in sent : a.item = i /\ a.part = "ack"}

\* Answers somebody may pass to a call about this item.
Obtainable(i, part) ==
  {a \in sent : a.item = i /\ a.part = part} \cup Forgeable(i, part)

\* Mutant: the number of answers is not compared with the number of participants.
SomePresent(S) ==
  /\ \A a \in S : a.kind = "exact"
  /\ \A a, b \in S : a.by = b.by => a = b
  /\ S # {}

\* reconstruct_committee_release, reconstruct_witness_labels and
\* reconstruct_program_seed raise unless this holds: one answer of every
\* participant, each of them verified.
AllPresent(S) ==
  /\ \A a \in S : a.kind = "exact"
  /\ \A a, b \in S : a.by = b.by => a = b
  /\ {a.by : a \in S} = Participants

Reconstructs(i, part) == \E S \in SUBSET Obtainable(i, part) : AllPresent(S)

\* The program of the slot is opened and replayed.
Executed(i) ==
  /\ executed' = executed \cup {i}
  /\ UNCHANGED <<design, corrupt, row, sent, confirmed, proven, broadcast,
                 capsule, adopted, published, crashes>>

ReconstructLabels(i) ==
  /\ design = "two-phase"
  /\ Reconstructs(i, "labels")
  /\ broadcast' = broadcast \cup {i}
  /\ UNCHANGED <<design, corrupt, row, sent, confirmed, proven, executed,
                 capsule, adopted, published, crashes>>

\* execute_committee_authorized_fused_slot.
ExecuteCommittee(i) ==
  /\ design = "one-phase"
  /\ Reconstructs(i, "response")
  /\ Executed(i)

\* reconstruct_program_seed.
OpensProgram(i) == Reconstructs(i, "seed")

\* Mutant: the labels alone are taken to open the program.
ExecuteTwoPhaseEarly(i) ==
  /\ design = "two-phase"
  /\ Reconstructs(i, "labels")
  /\ Executed(i)

\* execute_two_phase_authorized_fused_slot.
ExecuteTwoPhase(i) ==
  /\ design = "two-phase"
  /\ Reconstructs(i, "labels") /\ OpensProgram(i)
  /\ Executed(i)

\* The lowest t indices of the supplied set.
LowestIndices(S) == {a \in S : Cardinality({b \in S : b.by < a.by}) < Threshold}

CapsuleOnly == UNCHANGED <<design, corrupt, row, sent, confirmed, proven, broadcast, executed>>

\* Mutant: every participant has to answer.
RecoverFromAll(c, i, answers) ==
  /\ ~ Committee
  /\ capsule[c] = None /\ adopted[i] = None
  /\ \E S \in SUBSET answers :
       /\ \A a \in S : a.kind # "bad"
       /\ \A a, b \in S : a.by = b.by => a = b
       /\ Cardinality(S) = ParticipantCount
       /\ capsule' = [capsule EXCEPT ![c] = [item |-> i, answers |-> LowestIndices(S)]]
  /\ CapsuleOnly
  /\ UNCHANGED <<adopted, published, crashes>>

\* recover_threshold_capsule over a set of answers, for an alternative nobody has
\* adopted yet as far as this coordinator knows: no duplicate, every signature
\* verified, at least t.
Recover(c, i, answers) ==
  /\ ~ Committee
  /\ capsule[c] = None /\ adopted[i] = None
  /\ \E S \in SUBSET answers :
       /\ \A a \in S : a.kind # "bad"
       /\ \A a, b \in S : a.by = b.by => a = b
       /\ Cardinality(S) >= Threshold
       /\ capsule' = [capsule EXCEPT ![c] = [item |-> i, answers |-> LowestIndices(S)]]
  /\ CapsuleOnly
  /\ UNCHANGED <<adopted, published, crashes>>

\* Mutant: the last writer wins.
AdoptLast(c) ==
  /\ capsule[c] # None
  /\ adopted' = [adopted EXCEPT ![capsule[c].item] = capsule[c]]
  /\ published' = published \cup {capsule[c]}
  /\ capsule' = [capsule EXCEPT ![c] = None]
  /\ CapsuleOnly
  /\ UNCHANGED crashes

\* FirstWriterWitnessSelectionModel.adopt: the first capsule, or the same bytes again.
Adopt(c) ==
  /\ capsule[c] # None
  /\ adopted[capsule[c].item] \in {None, capsule[c]}
  /\ adopted' = [adopted EXCEPT ![capsule[c].item] = capsule[c]]
  /\ published' = published \cup {capsule[c]}
  /\ capsule' = [capsule EXCEPT ![c] = None]
  /\ CapsuleOnly
  /\ UNCHANGED crashes

\* WitnessSelectionConflictError.
AdoptConflict(c) ==
  /\ capsule[c] # None
  /\ adopted[capsule[c].item] \notin {None, capsule[c]}
  /\ capsule' = [capsule EXCEPT ![c] = None]
  /\ CapsuleOnly
  /\ UNCHANGED <<adopted, published, crashes>>

\* The coordinator dies with the capsule; the store does not.
Crash(c) ==
  /\ capsule[c] # None
  /\ crashes < MaxCrashes
  /\ crashes' = crashes + 1
  /\ capsule' = [capsule EXCEPT ![c] = None]
  /\ CapsuleOnly
  /\ UNCHANGED <<adopted, published>>

-----------------------------------------------------------------------------
Next ==
  \/ \E p \in Participants, i \in Items : Bind(p, i) \/ Unlock(p, i)
  \/ \E p \in Participants : End(p)
  \/ \E p \in Participants, part \in Parts : Respond(p, part)
  \/ \E i \in Items : Confirm(i) \/ Prove(i) \/ ReconstructLabels(i)
  \/ \E i \in Items : ExecuteCommittee(i) \/ ExecuteTwoPhase(i)
  \/ Reorganise
  \/ \E c \in Coordinators, i \in Items : Recover(c, i, Obtainable(i, "ack"))
  \/ \E c \in Coordinators : Adopt(c) \/ AdoptConflict(c) \/ Crash(c)

(***************************************************************************)
(* Fairness: rows are public, so a proof is eventually tried on every row; *)
(* coordinators call recover on the signatures these rows gave, and adopt. *)
(* Nothing is assumed of corrupt participants, who may never answer, of    *)
(* the chain or of the provers.                                            *)
(***************************************************************************)
Fairness ==
  /\ \A p \in Participants, i \in Items : WF_vars(Unlock(p, i))
  /\ \A c \in Coordinators, i \in Items : WF_vars(Recover(c, i, Unlocked(i)))
  /\ \A c \in Coordinators : WF_vars(Adopt(c)) /\ WF_vars(AdoptConflict(c))

Spec == Init /\ [][Next]_vars /\ Fairness

-----------------------------------------------------------------------------
(***************************************************************************)
(* One request of a slot is ever executed, whatever all participants but   *)
(* one do: two requests that reach the participants in different orders    *)
(* may leave the slot useless, never used twice.                           *)
(***************************************************************************)
OneExecutionPerSlot == \A i, j \in executed : i = j

(***************************************************************************)
(* Results follow the honest participants.  A program is opened only after *)
(* every honest slot ended in success on that request (the docstring of    *)
(* execute_two_phase_authorized_fused_slot: phase one alone does not carry *)
(* enough); a capsule exists only after a valid proof of its alternative.  *)
(***************************************************************************)
ResultsFollowHonest ==
  /\ \A i \in executed : \A p \in Honest : row[p] = [state |-> "success", item |-> i]
  /\ \A x \in published : x.item \in proven

(***************************************************************************)
(* One capsule per alternative is ever published, although evaluators see  *)
(* different answers, corrupt signers sign twice and coordinators restart. *)
(***************************************************************************)
OneCapsulePerAlternative == \A x, y \in published : x.item = y.item => x = y

(***************************************************************************)
(* A proven alternative gets its ACK: f participants that withhold, fork   *)
(* or send garbage cannot prevent t exact signatures from being adopted.   *)
(***************************************************************************)
ProvenIsPublished ==
  \A i \in Items : i \in proven ~> \E x \in published : x.item = i
=============================================================================
