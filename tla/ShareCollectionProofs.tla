-------------------------- MODULE ShareCollectionProofs -------------------------
(***************************************************************************)
(* Proofs about ShareCollection, for any number of participants, requests, *)
(* alternatives and coordinators, any permitted policy and corrupt set.    *)
(***************************************************************************)
EXTENDS ShareCollection, FiniteSetTheorems, TLAPS

(***************************************************************************)
(* The argument.  A corrupt participant can produce any answer, so only    *)
(* the answers of honest ones mean something, and what they mean stays     *)
(* true: a row that is success is never changed, a proof is never taken    *)
(* back.  N answers contain one of every honest participant; t answers     *)
(* that are not all of corrupt participants contain one honest one.        *)
(***************************************************************************)

\* Somebody is honest, and the threshold design has at most f corrupt signers.
TrustOK ==
  /\ Honest # {}
  /\ ~ Committee => Cardinality(corrupt) <= MaxCorrupt

\* What an answer of an honest participant says about its sender.
AnswersOK ==
  \A a \in sent :
    /\ a.part \in {"response", "seed"} => row[a.by] = [state |-> "success", item |-> a.item]
    /\ a.part = "ack" => a.item \in proven

ExecutedOK == \A i \in executed : \A p \in Honest : row[p] = [state |-> "success", item |-> i]

CapsulesOK ==
  /\ \A c \in Coordinators : capsule[c] # None => capsule[c].item \in proven
  /\ \A x \in published : x # None /\ x.item \in proven /\ adopted[x.item] = x

\* A slot that left available is bound.
BoundRows == \A p \in Participants : row[p].state # "available" => row[p].item \in Items

Inv == TypeOK /\ TrustOK /\ BoundRows /\ AnswersOK /\ ExecutedOK /\ CapsulesOK

-----------------------------------------------------------------------------
(* Counting *)

\* Fewer corrupt participants than participants leave somebody honest.
LEMMA SomebodyHonest ==
  ASSUME NEW S \in SUBSET Participants, Cardinality(S) < ParticipantCount
  PROVE  Participants \ S # {}
<1>1. IsFiniteSet(Participants) /\ Cardinality(Participants) = ParticipantCount
  BY PolicyAssumption, FS_Interval DEF Participants
<1>2. S # Participants
  BY <1>1, PolicyAssumption
<1> QED
  BY <1>2

\* Participant sets are finite, so their sizes are numbers.
LEMMA CorruptCounted ==
  ASSUME NEW S \in SUBSET Participants
  PROVE  IsFiniteSet(S) /\ Cardinality(S) \in Nat
<1>1. IsFiniteSet(Participants)
  BY PolicyAssumption, FS_Interval DEF Participants
<1> QED
  BY <1>1, FS_Subset, FS_CardinalityType

\* More answers of different participants than there are corrupt ones: one of
\* them is of somebody else.
LEMMA SomeAnswerHonest ==
  ASSUME NEW S, NEW C \in SUBSET Participants,
         \A a, b \in S : a.by = b.by => a = b,
         Cardinality(C) < Threshold, Cardinality(S) >= Threshold
  PROVE  \E a \in S : a.by \notin C
<1> SUFFICES ASSUME \A a \in S : a.by \in C PROVE FALSE
  OBVIOUS
<1> DEFINE sender == [a \in S |-> a.by]
<1>1. sender \in Injection(S, C)
  BY DEF Injection, IsInjective
<1>2. IsFiniteSet(C) /\ Cardinality(C) \in Nat
  BY CorruptCounted
<1>3. IsFiniteSet(S) /\ Cardinality(S) <= Cardinality(C)
  <2> HIDE DEF sender
  <2> QED BY <1>1, <1>2, FS_Injection
<1>4. Cardinality(S) \in Nat
  BY <1>3, FS_CardinalityType
<1> QED
  BY <1>2, <1>3, <1>4, PolicyAssumption

\* One answer of every participant: every honest one has sent its own.
LEMMA HonestAnswered ==
  ASSUME NEW i, NEW part, Reconstructs(i, part), NEW p \in Honest
  PROVE  \E a \in sent : a.by = p /\ a.item = i /\ a.part = part
<1>1. PICK S \in SUBSET Obtainable(i, part) : AllPresent(S)
  BY DEF Reconstructs
<1>2. PICK a \in S : a.by = p
  BY <1>1 DEF AllPresent, Honest
<1>3. a \in sent /\ a.item = i /\ a.part = part
  BY <1>1, <1>2 DEF Obtainable, Forgeable, Honest
<1> QED
  BY <1>2, <1>3

-----------------------------------------------------------------------------
(* The invariant *)

LEMMA InitInv == Init => Inv
<1> SUFFICES ASSUME Init PROVE Inv
  OBVIOUS
<1>1. TypeOK
  BY CrashAssumption DEF Init, TypeOK, SlotState
<1>2. TrustOK
  <2>1. Cardinality(corrupt) \in Nat /\ corrupt \in SUBSET Participants
    BY CorruptCounted DEF Init
  <2>2. Cardinality(corrupt) < ParticipantCount
    BY <2>1, PolicyAssumption DEF Init
  <2> QED
    BY <2>1, <2>2, SomebodyHonest DEF Init, TrustOK, Honest
<1>3. BoundRows
  BY DEF Init, BoundRows
<1>4. AnswersOK /\ ExecutedOK /\ CapsulesOK
  BY DEF Init, AnswersOK, ExecutedOK, CapsulesOK
<1> QED
  BY <1>1, <1>2, <1>3, <1>4 DEF Inv

\* An answer is added; what it says of its sender is given.
LEMMA SendInv ==
  ASSUME Inv, NEW p \in Honest, NEW i \in Items, NEW part \in {"response", "labels", "seed", "ack"},
         part \in {"response", "seed"} => row[p] = [state |-> "success", item |-> i],
         part = "ack" => i \in proven,
         Send(p, i, part)
  PROVE  Inv'
<1>1. Exact(p, i, part) \in Answer
  BY DEF Exact, Answer, Honest, Kinds
<1>2. TypeOK'
  BY <1>1 DEF TypeOK, Inv, Send
<1>3. AnswersOK'
  <2> SUFFICES ASSUME NEW a \in sent'
               PROVE  /\ a.part \in {"response", "seed"} =>
                           row'[a.by] = [state |-> "success", item |-> a.item]
                      /\ a.part = "ack" => a.item \in proven'
    BY DEF AnswersOK
  <2>1. CASE a \in sent
    BY <2>1 DEF AnswersOK, Inv, Send
  <2>2. CASE a = Exact(p, i, part)
    BY <2>2 DEF Exact, Send
  <2> QED
    BY <2>1, <2>2 DEF Send
<1>4. TrustOK' /\ BoundRows'
  BY DEF Inv, Send, TrustOK, Honest, Committee, BoundRows
<1>5. ExecutedOK' /\ CapsulesOK'
  BY DEF Inv, Send, ExecutedOK, Honest, CapsulesOK
<1> QED
  BY <1>2, <1>3, <1>4, <1>5 DEF Inv

LEMMA BindInv ==
  ASSUME Inv, NEW p \in Participants, NEW i \in Items, Bind(p, i)
  PROVE  Inv'
<1>1. TypeOK'
  BY DEF TypeOK, SlotState, Inv, Bind
<1>2. AnswersOK' /\ ExecutedOK' /\ BoundRows'
  BY DEF TypeOK, SlotState, AnswersOK, ExecutedOK, BoundRows, Honest, Answer, Inv, Bind
<1>3. TrustOK' /\ CapsulesOK'
  BY DEF TrustOK, Honest, Committee, CapsulesOK, Inv, Bind
<1> QED
  BY <1>1, <1>2, <1>3 DEF Inv

LEMMA EndInv ==
  ASSUME Inv, NEW p \in Participants, End(p)
  PROVE  Inv'
<1>1. TypeOK'
  BY DEF TypeOK, SlotState, Inv, End
<1>2. AnswersOK' /\ ExecutedOK' /\ BoundRows'
  BY DEF TypeOK, SlotState, AnswersOK, ExecutedOK, BoundRows, Honest, Answer, Inv, End
<1>3. TrustOK' /\ CapsulesOK'
  BY DEF TrustOK, Honest, Committee, CapsulesOK, Inv, End
<1> QED
  BY <1>1, <1>2, <1>3 DEF Inv

LEMMA RespondInv ==
  ASSUME Inv, NEW p \in Participants, NEW part \in Parts, Respond(p, part)
  PROVE  Inv'
<1>1. p \in Honest /\ part \in {"response", "labels", "seed"}
  BY DEF Respond, Parts, Committee, Inv, TypeOK, Designs
<1>2. row[p] \in SlotState /\ row[p].state # "available"
  BY DEF Respond, Inv, TypeOK
<1>3. part \in {"response", "seed"} => row[p] = [state |-> "success", item |-> row[p].item]
  BY <1>2 DEF Respond, SlotState
<1>4. row[p].item \in Items
  BY <1>2 DEF Inv, BoundRows
<1> QED
  BY <1>1, <1>3, <1>4, SendInv DEF Respond

LEMMA UnlockInv ==
  ASSUME Inv, NEW p \in Participants, NEW i \in Items, Unlock(p, i)
  PROVE  Inv'
BY SendInv DEF Unlock

\* The chain, the prover and the broadcast change nothing the invariant reads,
\* but for one more proven alternative.
LEMMA WorldInv ==
  ASSUME Inv,
         Reorganise \/ \E i \in Items : Confirm(i) \/ Prove(i) \/ ReconstructLabels(i)
  PROVE  Inv'
<1>1. TypeOK'
  BY DEF TypeOK, Inv, Confirm, Reorganise, Prove, ReconstructLabels
<1>2. /\ UNCHANGED <<design, corrupt, row, sent, executed, capsule, adopted, published>>
      /\ proven \subseteq proven'
  BY DEF Confirm, Reorganise, Prove, ReconstructLabels
<1>3. TrustOK' /\ BoundRows' /\ AnswersOK' /\ ExecutedOK'
  BY <1>2 DEF TrustOK, Honest, Committee, BoundRows, AnswersOK, ExecutedOK, Inv
<1>4. CapsulesOK'
  BY <1>2 DEF CapsulesOK, Inv
<1> QED
  BY <1>1, <1>3, <1>4 DEF Inv

\* What is executed was released by every honest participant.
LEMMA ExecuteInv ==
  ASSUME Inv, NEW i \in Items, ExecuteCommittee(i) \/ ExecuteTwoPhase(i)
  PROVE  Inv'
<1>1. PICK part \in {"response", "seed"} : Reconstructs(i, part)
  BY DEF ExecuteCommittee, ExecuteTwoPhase, OpensProgram
<1>2. Executed(i)
  BY DEF ExecuteCommittee, ExecuteTwoPhase
<1>3. ASSUME NEW p \in Honest
      PROVE  row[p] = [state |-> "success", item |-> i]
  <2>1. PICK a \in sent : a.by = p /\ a.item = i /\ a.part = part
    BY <1>1, HonestAnswered
  <2> QED
    BY <2>1 DEF Inv, AnswersOK
<1>4. TypeOK'
  BY <1>2 DEF TypeOK, Inv, Executed
<1>5. ExecutedOK'
  BY <1>2, <1>3 DEF ExecutedOK, Honest, Inv, Executed
<1>6. TrustOK' /\ BoundRows' /\ AnswersOK' /\ CapsulesOK'
  BY <1>2 DEF TrustOK, Honest, Committee, BoundRows, AnswersOK, CapsulesOK, Inv, Executed
<1> QED
  BY <1>4, <1>5, <1>6 DEF Inv

\* A capsule is made of answers of which an honest signer gave one.
LEMMA RecoverInv ==
  ASSUME Inv, NEW c \in Coordinators, NEW i \in Items, Recover(c, i, Obtainable(i, "ack"))
  PROVE  Inv'
<1>1. PICK S \in SUBSET Obtainable(i, "ack") :
        /\ \A a, b \in S : a.by = b.by => a = b
        /\ Cardinality(S) >= Threshold
        /\ capsule' = [capsule EXCEPT ![c] = [item |-> i, answers |-> LowestIndices(S)]]
  BY DEF Recover
<1>2. Cardinality(corrupt) < Threshold /\ corrupt \in SUBSET Participants
  BY CorruptCounted, PolicyAssumption DEF Recover, Inv, TrustOK, TypeOK
<1>3. PICK a \in S : a.by \notin corrupt
  BY <1>1, <1>2, SomeAnswerHonest
<1>4. i \in proven
  BY <1>3 DEF Obtainable, Forgeable, Inv, AnswersOK
<1>5. LowestIndices(S) \subseteq Answer
  BY DEF LowestIndices, Obtainable, Forgeable, Inv, TypeOK
<1>6. TypeOK'
  BY <1>1, <1>5 DEF TypeOK, Inv, Recover, CapsuleOnly, Capsules
<1>7. CapsulesOK'
  BY <1>1, <1>4 DEF CapsulesOK, TypeOK, Inv, Recover, CapsuleOnly
<1>8. TrustOK' /\ BoundRows' /\ AnswersOK' /\ ExecutedOK'
  BY DEF TrustOK, Honest, Committee, BoundRows, AnswersOK, ExecutedOK, Inv, Recover, CapsuleOnly
<1> QED
  BY <1>6, <1>7, <1>8 DEF Inv

LEMMA AdoptInv ==
  ASSUME Inv, NEW c \in Coordinators, Adopt(c) \/ AdoptConflict(c) \/ Crash(c)
  PROVE  Inv'
<1>1. capsule[c] # None /\ capsule[c] \in Capsules /\ capsule[c].item \in Items
  <2>1. capsule[c] # None
    BY DEF Adopt, AdoptConflict, Crash
  <2>2. capsule[c] \in Capsules
    BY <2>1 DEF Inv, TypeOK
  <2> QED
    BY <2>1, <2>2 DEF Capsules
<1>2. TypeOK'
  <2>1. CASE Adopt(c)
    BY <1>1, <2>1 DEF TypeOK, Inv, Adopt, CapsuleOnly
  <2>2. CASE AdoptConflict(c)
    BY <2>2 DEF TypeOK, Inv, AdoptConflict, CapsuleOnly
  <2>3. CASE Crash(c)
    BY <2>3, CrashAssumption DEF TypeOK, Inv, Crash, CapsuleOnly
  <2> QED
    BY <2>1, <2>2, <2>3
<1>3. CapsulesOK'
  <2>1. CASE Adopt(c)
    BY <1>1, <2>1 DEF CapsulesOK, TypeOK, Inv, Adopt, CapsuleOnly
  <2>2. CASE AdoptConflict(c) \/ Crash(c)
    BY <2>2 DEF CapsulesOK, TypeOK, Inv, AdoptConflict, Crash, CapsuleOnly
  <2> QED
    BY <2>1, <2>2
<1>4. TrustOK' /\ BoundRows' /\ AnswersOK' /\ ExecutedOK'
  BY DEF TrustOK, Honest, Committee, BoundRows, AnswersOK, ExecutedOK, Inv,
         Adopt, AdoptConflict, Crash, CapsuleOnly
<1> QED
  BY <1>2, <1>3, <1>4 DEF Inv

LEMMA StutterInv ==
  ASSUME Inv, UNCHANGED vars
  PROVE  Inv'
BY DEF Inv, vars, TypeOK, TrustOK, Honest, Committee, BoundRows, AnswersOK, ExecutedOK, CapsulesOK

LEMMA NextInv ==
  ASSUME Inv, [Next]_vars
  PROVE  Inv'
<1>1. CASE \E p \in Participants, i \in Items : Bind(p, i) \/ Unlock(p, i)
  BY <1>1, BindInv, UnlockInv
<1>2. CASE \E p \in Participants : End(p)
  BY <1>2, EndInv
<1>3. CASE \E p \in Participants, part \in Parts : Respond(p, part)
  BY <1>3, RespondInv
<1>4. CASE \E i \in Items : Confirm(i) \/ Prove(i) \/ ReconstructLabels(i)
  BY <1>4, WorldInv
<1>5. CASE \E i \in Items : ExecuteCommittee(i) \/ ExecuteTwoPhase(i)
  BY <1>5, ExecuteInv
<1>6. CASE Reorganise
  BY <1>6, WorldInv
<1>7. CASE \E c \in Coordinators, i \in Items : Recover(c, i, Obtainable(i, "ack"))
  BY <1>7, RecoverInv
<1>8. CASE \E c \in Coordinators : Adopt(c) \/ AdoptConflict(c) \/ Crash(c)
  BY <1>8, AdoptInv
<1>9. CASE UNCHANGED vars
  BY <1>9, StutterInv
<1> QED
  BY <1>1, <1>2, <1>3, <1>4, <1>5, <1>6, <1>7, <1>8, <1>9 DEF Next

-----------------------------------------------------------------------------
(* Theorems *)

\* The inductive invariant holds in every reachable state.
THEOREM AnswersKeepMeaning == Spec => []Inv
BY InitInv, NextInv, PTL DEF Spec

\* However the participants and coordinators of a committee interleave, and
\* whatever all but one of them forge, two requests are never both executed.
THEOREM SlotExecutedOnce == Spec => []OneExecutionPerSlot
<1>1. Inv => OneExecutionPerSlot
  <2> SUFFICES ASSUME Inv, NEW i \in executed, NEW j \in executed PROVE i = j
    BY DEF OneExecutionPerSlot
  <2>1. PICK p \in Honest : TRUE
    BY DEF Inv, TrustOK
  <2>2. [state |-> "success", item |-> i] = [state |-> "success", item |-> j]
    BY <2>1 DEF Inv, ExecutedOK
  <2> QED
    BY <2>2
<1> QED
  BY <1>1, AnswersKeepMeaning, PTL

\* A program is opened only after every honest participant released it, and a
\* capsule is published only for a proven alternative.
THEOREM HonestDecide == Spec => []ResultsFollowHonest
<1>1. Inv => ResultsFollowHonest
  BY DEF Inv, ExecutedOK, CapsulesOK, ResultsFollowHonest
<1> QED
  BY <1>1, AnswersKeepMeaning, PTL

\* The first-writer-wins store publishes one capsule per alternative, for any
\* number of evaluators and crashes.
THEOREM CapsuleIsUnique == Spec => []OneCapsulePerAlternative
<1>1. Inv => OneCapsulePerAlternative
  BY DEF Inv, CapsulesOK, OneCapsulePerAlternative
<1> QED
  BY <1>1, AnswersKeepMeaning, PTL
=============================================================================
