------------------------ MODULE CeremonyEvidenceProofs ------------------------
(***************************************************************************)
(* Proofs about funding evidence, for any participants, keys, nonces,      *)
(* depths and lifetimes, however the chain moves between the reads: what   *)
(* an attestation says was true of one chain at one instant, the ceremony  *)
(* it names was signed before its beacon existed, and what a deployment    *)
(* accepts is fresh.                                                       *)
(***************************************************************************)
EXTENDS CeremonyEvidence, FiniteSetTheorems, TLAPS

(***************************************************************************)
(* The argument.  Core's chain is only ever replaced by a longer one.  A   *)
(* signer that finds at its last read the tip it read first has therefore  *)
(* read every height and depth off that one chain: what it collected is    *)
(* true of the tip for as long as the tip is the one it began with.  A set *)
(* of commitments can be carried only by blocks mined after it was signed, *)
(* and what had been mined when it was signed contains the ancestors of    *)
(* its blocks; so it contains no descendant of a block that carries it.    *)
(***************************************************************************)

Block == Seq(Payloads)
Closed(blocks) == \A b \in blocks : \A h \in 0 .. Len(b) : SubSeq(b, 1, h) \in blocks

Cert ==
  [set : CommitmentSets, anchor : Block, anchorHeight : Nat,
   beacon : Block, beaconHeight : Nat,
   receipts : SUBSET Participants, verifier : Approved \cup Participants]

\* The places after the first reading of the beacon's depth, and of the anchor's.
BeaconRead ==
  {"beacon-still", "anchor-again", "anchor-final", "anchor-end",
   "beacon-again", "beacon-final", "beacon-end", "tip-after"}

AnchorRead ==
  {"anchor-transaction", "anchor-still", "beacon-active", "beacon-depth"} \cup BeaconRead

Places == {"idle", "tip-before", "anchor-active", "anchor-depth"} \cup AnchorRead

Job ==
  [pc : Places, cert : Cert \cup {Nothing}, since : Nat, before : Block,
   anchorDepth : Int, beaconDepth : Int, anchorFinal : Int, beaconFinal : Int]

\* Core knows every block below one it knows; who signed knew some of them.
ChainOK ==
  /\ mined \subseteq Block /\ Closed(mined) /\ tip \in mined
  /\ knowing \in [CommitmentSets -> SUBSET mined]
  /\ \A set \in CommitmentSets : Closed(knowing[set])
  /\ now \in Nat

\* A set is carried only by blocks mined after it was signed.
SignedFirst ==
  \A set \in CommitmentSets : \A b \in mined :
    Carries(b, set) => knowing[set] # Unsigned /\ b \notin knowing[set]

\* What was read of a block holds of the tip.
ReadOff(block, height, depth) ==
  /\ IsPrefix(block, tip)
  /\ Len(block) = height
  /\ depth = Len(tip) - Len(block) + 1
  /\ depth >= MinDepth

\* A job carries a verified certificate about known blocks.
Certified(j) ==
  /\ j.cert \in Cert
  /\ j.cert.anchor \in mined /\ j.cert.beacon \in mined
  /\ Verified(j.cert)
  /\ j.since <= now

\* The tip is still the one the job began with, or has grown past it.
Outgrown(j) == Len(j.before) <= Len(tip) /\ (Len(j.before) = Len(tip) => j.before = tip)

JobOK(j) ==
  /\ j \in Job
  /\ j.pc # "idle" => Certified(j)
  /\ j.pc \notin {"idle", "tip-before"} => Outgrown(j)
  /\ j.pc \in AnchorRead /\ j.before = tip =>
       ReadOff(j.cert.anchor, j.cert.anchorHeight, j.anchorDepth)
  /\ j.pc \in BeaconRead /\ j.before = tip =>
       ReadOff(j.cert.beacon, j.cert.beaconHeight, j.beaconDepth)

JobsOK == job \in [Signers -> Job] /\ \A s \in Signers : JobOK(job[s])

AttestationOK(a) ==
  /\ a.set \in CommitmentSets
  /\ a.observation.anchor \in mined /\ a.observation.beacon \in mined
  /\ Carries(a.observation.anchor, a.set)
  /\ IsStrictPrefix(a.observation.anchor, a.observation.beacon)
  /\ a.issued \in Nat /\ a.saw \in Nat /\ a.expires \in Nat
  /\ a.issued <= a.saw /\ a.saw <= now
  /\ a.expires <= QualifiedUntil /\ a.expires <= a.issued + Ttl

AttestationsOK == \A a \in attestations : AttestationOK(a)

Inv == ChainOK /\ SignedFirst /\ JobsOK /\ AttestationsOK

-----------------------------------------------------------------------------
(* Blocks *)

\* A block is a prefix of another exactly when it is what the other begins with.
LEMMA PrefixIsBeginning ==
  ASSUME NEW a \in Block, NEW b \in Block
  PROVE  IsPrefix(a, b) <=> Len(a) <= Len(b) /\ a = SubSeq(b, 1, Len(a))
<1>1. SubSeq(a, 1, Len(a)) = a
  BY DEF Block
<1> QED
  BY <1>1 DEF IsPrefix

\* Of two prefixes of one block the shorter is a prefix of the longer.
LEMMA PrefixesNest ==
  ASSUME NEW a \in Block, NEW b \in Block, NEW c \in Block,
         IsPrefix(a, c), IsPrefix(b, c), Len(a) < Len(b)
  PROVE  IsStrictPrefix(a, b)
<1>1. a = SubSeq(c, 1, Len(a)) /\ b = SubSeq(c, 1, Len(b)) /\ Len(b) <= Len(c)
  BY PrefixIsBeginning
<1>2. SubSeq(b, 1, Len(a)) = SubSeq(c, 1, Len(a))
  BY <1>1 DEF Block
<1>3. IsPrefix(a, b)
  BY <1>1, <1>2, PrefixIsBeginning
<1> QED
  BY <1>3 DEF IsStrictPrefix

\* Known blocks with one known have its ancestors.
LEMMA AncestorsKnown ==
  ASSUME NEW known, Closed(known), NEW a \in Block, NEW b \in known, b \in Block, IsPrefix(a, b)
  PROVE  a \in known
<1>1. Len(a) \in 0 .. Len(b) /\ a = SubSeq(b, 1, Len(a))
  BY PrefixIsBeginning DEF Block
<1> QED
  BY <1>1 DEF Closed

-----------------------------------------------------------------------------
(* What the steps keep *)

\* A step of Core or of the clock: known blocks stay, the tip stays or grows.
ChainMoves ==
  /\ mined \subseteq mined'
  /\ tip' \in Block
  /\ tip' = tip \/ Len(tip') > Len(tip)
  /\ now' \in Nat /\ now <= now'
  /\ UNCHANGED <<job, attestations>>

LEMMA TipType == ASSUME ChainOK PROVE tip \in Block /\ Len(tip) \in Nat
  BY DEF ChainOK, Block

LEMMA JobSurvives ==
  ASSUME ChainOK, ChainMoves, NEW j, JobOK(j)
  PROVE  JobOK(j)'
<1>1. Certified(j) => Certified(j)'
  <2>1. ASSUME Certified(j) PROVE Certified(j)'
    <3>1. j.since \in Nat /\ now \in Nat
      BY DEF JobOK, Job, ChainOK
    <3> QED
      BY <2>1, <3>1 DEF Certified, ChainMoves
  <2> QED
    BY <2>1
<1>2. CASE tip' = tip
  BY <1>1, <1>2 DEF JobOK, Outgrown, ReadOff
<1>3. CASE Len(tip') > Len(tip)
  <2>1. tip \in Block /\ tip' \in Block /\ j.before \in Block
    BY TipType DEF ChainMoves, JobOK, Job
  <2>2. Outgrown(j) => Outgrown(j)' /\ j.before # tip'
    BY <1>3, <2>1 DEF Outgrown, Block
  <2>3. j.pc \in AnchorRead \cup BeaconRead => j.pc \notin {"idle", "tip-before"}
    BY DEF AnchorRead, BeaconRead
  <2>4. j.pc \in AnchorRead \cup BeaconRead => j.before # tip'
    BY <2>2, <2>3 DEF JobOK
  <2> QED
    BY <1>1, <2>2, <2>4 DEF JobOK
<1> QED
  BY <1>2, <1>3 DEF ChainMoves

LEMMA EvidenceSurvives ==
  ASSUME ChainOK, JobsOK, AttestationsOK, ChainMoves
  PROVE  JobsOK' /\ AttestationsOK'
<1>1. ASSUME NEW s \in Signers PROVE JobOK(job[s])'
  <2>1. PICK j : j = job[s]
    OBVIOUS
  <2>2. JobOK(j)'
    BY <2>1, JobSurvives DEF JobsOK
  <2>3. j = job'[s]
    BY <2>1 DEF ChainMoves
  <2> QED
    BY <2>2, <2>3
<1>2. ASSUME NEW a \in attestations PROVE AttestationOK(a)'
  <2>1. AttestationOK(a)
    BY DEF AttestationsOK
  <2>2. a.saw <= now'
    BY <2>1 DEF AttestationOK, ChainMoves, ChainOK
  <2> QED
    BY <2>1, <2>2 DEF AttestationOK, ChainMoves
<1> QED
  BY <1>1, <1>2 DEF JobsOK, AttestationsOK, ChainMoves

-----------------------------------------------------------------------------
(* Bitcoin *)

LEMMA CommitInv ==
  ASSUME Inv, NEW set \in CommitmentSets, Commit(set)
  PROVE  Inv'
<1>1. ChainMoves
  BY TipType DEF Inv, Commit, ChainMoves, ChainOK
<1>2. ChainOK'
  BY DEF Inv, Commit, ChainOK, Closed
<1>3. SignedFirst'
  <2> SUFFICES ASSUME NEW other \in CommitmentSets, NEW b \in mined, Carries(b, other)
               PROVE  knowing'[other] # Unsigned /\ b \notin knowing'[other]
    BY DEF SignedFirst, Commit, Carries
  <2>1. knowing[other] # Unsigned /\ b \notin knowing[other]
    BY DEF Inv, SignedFirst
  <2> QED
    BY <2>1 DEF Commit, Inv, ChainOK
<1> QED
  BY <1>1, <1>2, <1>3, EvidenceSurvives DEF Inv

\* The chain after a connection: its old part, and new blocks of published sets.
LEMMA NewChain ==
  ASSUME ChainOK, NEW fork \in 0 .. Len(tip), NEW n \in Nat, NEW blocks \in [1 .. n -> Payloads],
         Connect(fork, blocks)
  PROVE  /\ tip' \in Block /\ Len(tip') = fork + n /\ Len(tip') > Len(tip)
         /\ \A h \in 0 .. fork : SubSeq(tip', 1, h) = SubSeq(tip, 1, h)
         /\ \A h \in fork + 1 .. fork + n : Publishable(Last(SubSeq(tip', 1, h)))
         /\ mined' = mined \cup {SubSeq(tip', 1, h) : h \in 0 .. Len(tip')}
<1>1. blocks \in Seq(Payloads) /\ Len(blocks) = n /\ DOMAIN blocks = 1 .. n
  OBVIOUS
<1>2. BlockAt(fork) \in Block /\ Len(BlockAt(fork)) = fork
  BY TipType DEF BlockAt, Block
<1>3. tip' = BlockAt(fork) \o blocks
  BY DEF Connect
<1>4. tip' \in Block /\ Len(tip') = fork + n
  BY <1>1, <1>2, <1>3 DEF Block
<1>5. \A h \in 0 .. fork : SubSeq(tip', 1, h) = SubSeq(tip, 1, h)
  <2> TAKE h \in 0 .. fork
  <2>1. SubSeq(tip', 1, h) = SubSeq(BlockAt(fork), 1, h)
    BY <1>1, <1>2, <1>3 DEF Block
  <2>2. SubSeq(BlockAt(fork), 1, h) = SubSeq(tip, 1, h)
    BY TipType DEF BlockAt, Block
  <2> QED
    BY <2>1, <2>2
<1>6. \A h \in fork + 1 .. fork + n : Publishable(Last(SubSeq(tip', 1, h)))
  <2> TAKE h \in fork + 1 .. fork + n
  <2>1. h - fork \in DOMAIN blocks
    BY <1>1, TipType
  <2>2. Last(SubSeq(tip', 1, h)) = tip'[h]
    BY <1>4, TipType DEF Last, Block
  <2>3. tip'[h] = blocks[h - fork]
    BY <1>1, <1>2, <1>3, TipType DEF Block
  <2> QED
    BY <2>1, <2>2, <2>3 DEF Connect
<1>7. mined' = mined \cup {SubSeq(tip', 1, h) : h \in 0 .. Len(tip')}
  BY DEF Connect
<1>8. Len(tip') > Len(tip)
  BY <1>1, <1>4 DEF Connect
<1> QED
  BY <1>4, <1>5, <1>6, <1>7, <1>8

LEMMA ConnectInv ==
  ASSUME Inv, NEW fork \in 0 .. Len(tip), NEW n \in Nat, NEW blocks \in [1 .. n -> Payloads],
         Connect(fork, blocks)
  PROVE  Inv' /\ ChainMoves
<1> USE DEF Inv
<1>1. UNCHANGED <<knowing, now, job, attestations>>
  BY DEF Connect
<1>2. ChainMoves
  BY <1>1, NewChain DEF ChainMoves, ChainOK
<1>3. ChainOK'
  <2>1. mined' \subseteq Block
    <3>1. \A h \in 0 .. Len(tip') : SubSeq(tip', 1, h) \in Block
      BY NewChain DEF Block
    <3>2. mined \subseteq Block
      BY DEF ChainOK
    <3>3. mined' = mined \cup {SubSeq(tip', 1, h) : h \in 0 .. Len(tip')}
      BY NewChain
    <3> QED
      BY <3>1, <3>2, <3>3
  <2>2. Closed(mined')
    <3> SUFFICES ASSUME NEW b \in mined', NEW h \in 0 .. Len(b) PROVE SubSeq(b, 1, h) \in mined'
      BY DEF Closed
    <3>1. CASE b \in mined
      BY <3>1, NewChain DEF ChainOK, Closed
    <3>2. CASE b \notin mined
      <4>1. PICK k \in 0 .. Len(tip') : b = SubSeq(tip', 1, k)
        BY <3>2, NewChain
      <4>2. Len(b) = k /\ h \in 0 .. Len(tip') /\ SubSeq(b, 1, h) = SubSeq(tip', 1, h)
        BY <4>1, NewChain DEF Block
      <4> QED
        BY <4>2, NewChain
    <3> QED
      BY <3>1, <3>2
  <2>3. tip' \in mined'
    <3>1. tip' = SubSeq(tip', 1, Len(tip')) /\ Len(tip') \in 0 .. Len(tip')
      BY NewChain DEF Block
    <3> QED
      BY <3>1, NewChain
  <2> QED
    BY <1>1, <2>1, <2>2, <2>3, NewChain DEF ChainOK
<1>4. SignedFirst'
  <2> SUFFICES ASSUME NEW set \in CommitmentSets, NEW b \in mined', Carries(b, set)
               PROVE  knowing[set] # Unsigned /\ b \notin knowing[set]
    BY <1>1 DEF SignedFirst, Carries
  <2>1. CASE b \in mined
    BY <2>1 DEF SignedFirst
  <2>2. CASE b \notin mined
    <3>1. PICK h \in 0 .. Len(tip') : b = SubSeq(tip', 1, h)
      BY <2>2, NewChain
    <3>2. h \notin 0 .. fork
      <4> SUFFICES ASSUME h \in 0 .. fork PROVE b \in mined
        BY <2>2
      <4>1. b = SubSeq(tip, 1, h)
        BY <3>1, NewChain
      <4>2. h \in 0 .. Len(tip)
        BY TipType
      <4> QED
        BY <4>1, <4>2 DEF ChainOK, Closed
    <3>3. Publishable(Last(b))
      BY <3>1, <3>2, NewChain, TipType
    <3> QED
      BY <2>2, <3>3 DEF Publishable, Carries, ChainOK
  <2> QED
    BY <2>1, <2>2
<1> QED
  BY <1>2, <1>3, <1>4, EvidenceSurvives

LEMMA TickInv == ASSUME Inv, Tick PROVE Inv'
<1>1. ChainMoves
  BY TipType DEF Inv, Tick, ChainMoves, ChainOK
<1>2. ChainOK' /\ SignedFirst'
  BY DEF Inv, Tick, ChainOK, SignedFirst, Closed, Carries
<1> QED
  BY <1>1, <1>2, EvidenceSurvives DEF Inv

LEMMA ExtendConnects ==
  ASSUME Inv, Extend
  PROVE  \E fork \in 0 .. Len(tip), n \in Nat : \E blocks \in [1 .. n -> Payloads] : Connect(fork, blocks)
<1>1. PICK payload \in Payloads : Connect(Len(tip), <<payload>>)
  BY DEF Extend
<1>2. <<payload>> \in [1 .. 1 -> Payloads] /\ 1 \in Nat /\ Len(tip) \in 0 .. Len(tip)
  BY TipType DEF Inv
<1> QED
  BY <1>1, <1>2

LEMMA ReorganiseConnects ==
  ASSUME Inv, Reorganise
  PROVE  \E fork \in 0 .. Len(tip), n \in Nat : \E blocks \in [1 .. n -> Payloads] : Connect(fork, blocks)
<1>1. PICK fork \in 0 .. Len(tip) - 1 :
        \E n \in Len(tip) - fork + 1 .. MaxHeight - fork :
          \E blocks \in [1 .. n -> Payloads] : Connect(fork, blocks)
  BY DEF Reorganise
<1>2. fork \in 0 .. Len(tip) /\ \A n \in Len(tip) - fork + 1 .. MaxHeight - fork : n \in Nat
  BY TipType DEF Inv
<1> QED
  BY <1>1, <1>2

LEMMA ChainInv ==
  ASSUME Inv, Chain
  PROVE  Inv' /\ (tip' = tip \/ Len(tip') > Len(tip)) /\ UNCHANGED attestations
<1>1. ASSUME NEW set \in CommitmentSets, Commit(set)
      PROVE  Inv' /\ tip' = tip /\ UNCHANGED attestations
  BY <1>1, CommitInv DEF Commit
<1>2. CASE Extend \/ Reorganise
  BY <1>2, ExtendConnects, ReorganiseConnects, ConnectInv DEF ChainMoves
<1>3. CASE Tick
  BY <1>3, TickInv DEF Tick
<1> QED
  BY <1>1, <1>2, <1>3 DEF Chain

-----------------------------------------------------------------------------
(* The reads of a signer *)

\* A signer's job moves and Core stands still.
LEMMA SignerMoves ==
  ASSUME Inv, NEW s \in Signers, NEW j, JobOK(j), job' = [job EXCEPT ![s] = j],
         UNCHANGED <<tip, mined, knowing, now>>
  PROVE  /\ ChainOK' /\ SignedFirst' /\ JobsOK'
         /\ \A a : AttestationOK(a) => AttestationOK(a)'
<1>1. ChainOK' /\ SignedFirst'
  BY DEF Inv, ChainOK, SignedFirst, Closed, Carries
<1>2. JobsOK'
  <2>1. job' \in [Signers -> Job]
    BY DEF Inv, JobsOK, JobOK
  <2>2. JobOK(j)'
    BY DEF JobOK, Certified, Outgrown, ReadOff
  <2>3. ASSUME NEW t \in Signers PROVE JobOK(job[t])'
    <3>1. CASE t = s
      <4>1. job'[t] = j
        BY <3>1 DEF Inv, JobsOK
      <4> QED
        BY <4>1, <2>2
    <3>2. CASE t # s
      <4>1. PICK k : k = job[t]
        OBVIOUS
      <4>2. JobOK(k)
        BY <4>1 DEF Inv, JobsOK
      <4>3. JobOK(k)'
        BY <4>2 DEF JobOK, Certified, Outgrown, ReadOff
      <4>4. job'[t] = k
        BY <3>2, <4>1 DEF Inv, JobsOK
      <4> QED
        BY <4>3, <4>4
    <3> QED
      BY <3>1, <3>2
  <2> QED
    BY <2>1, <2>3 DEF JobsOK
<1>3. \A a : AttestationOK(a) => AttestationOK(a)'
  BY DEF AttestationOK
<1> QED
  BY <1>1, <1>2, <1>3

LEMMA JobMoves ==
  ASSUME Inv, NEW s \in Signers, NEW j, JobOK(j), job' = [job EXCEPT ![s] = j], JobOnly
  PROVE  Inv'
<1>1. ChainOK' /\ SignedFirst' /\ JobsOK' /\ \A a : AttestationOK(a) => AttestationOK(a)'
  BY SignerMoves DEF JobOnly
<1> QED
  BY <1>1 DEF Inv, AttestationsOK, JobOnly

\* A job with only its place changed.
LEMMA PlaceMoves ==
  ASSUME NEW j \in Job, NEW label \in Places
  PROVE  LET r == [j EXCEPT !.pc = label] IN
         /\ r \in Job /\ r.pc = label
         /\ r.cert = j.cert /\ r.since = j.since /\ r.before = j.before
         /\ r.anchorDepth = j.anchorDepth /\ r.beaconDepth = j.beaconDepth
  BY DEF Job

LEMMA IdleOK == ASSUME Inv PROVE JobOK(Idle)
<1>1. Idle \in Job /\ Idle.pc = "idle"
  BY DEF Idle, Job, Block, Nothing, Places
<1> QED
  BY <1>1 DEF JobOK, AnchorRead, BeaconRead

LEMMA RaiseInv ==
  ASSUME Inv, NEW s \in Signers, Raise(s), JobOnly
  PROVE  Inv'
  BY IdleOK, JobMoves DEF Raise

\* From this place to that one nothing is read that the invariant speaks of.
Onward(here, there) ==
  /\ there \in Places
  /\ here \notin {"idle", "tip-before"}
  /\ there \in AnchorRead => here \in AnchorRead
  /\ there \in BeaconRead => here \in BeaconRead

LEMMA OnwardOK ==
  ASSUME Inv, NEW j, JobOK(j), NEW there, Onward(j.pc, there)
  PROVE  JobOK([j EXCEPT !.pc = there])
<1>1. PICK r : r = [j EXCEPT !.pc = there]
  OBVIOUS
<1>2. /\ r \in Job /\ r.pc = there
      /\ r.cert = j.cert /\ r.since = j.since /\ r.before = j.before
      /\ r.anchorDepth = j.anchorDepth /\ r.beaconDepth = j.beaconDepth
  BY <1>1, PlaceMoves DEF JobOK, Onward
<1>3. JobOK(r)
  BY <1>2 DEF JobOK, Onward, Certified, Outgrown
<1> QED
  BY <1>1, <1>3

LEMMA JobAt == ASSUME Inv, NEW s \in Signers PROVE JobOK(job[s]) /\ job[s] \in Job
  BY DEF Inv, JobsOK

LEMMA ReadActiveInv ==
  ASSUME Inv, NEW s \in Signers, NEW pc, NEW block, NEW height, NEW then,
         ReadActive(s, pc, block, height, then), Onward(pc, then)
  PROVE  Inv'
<1>1. CASE Raise(s)
  BY <1>1, RaiseInv DEF ReadActive
<1>2. CASE job' = [job EXCEPT ![s].pc = then]
  <2>1. PICK j : j = job[s]
    OBVIOUS
  <2>2. job' = [job EXCEPT ![s] = [j EXCEPT !.pc = then]]
    BY <1>2, <2>1
  <2>3. JobOK([j EXCEPT !.pc = then])
    BY <2>1, JobAt, OnwardOK DEF ReadActive
  <2> QED
    BY <2>2, <2>3, JobMoves DEF ReadActive
<1> QED
  BY <1>1, <1>2 DEF ReadActive

LEMMA ReadTransactionInv ==
  ASSUME Inv, NEW s \in Signers, ReadTransaction(s)
  PROVE  Inv'
<1>1. CASE Raise(s)
  BY <1>1, RaiseInv DEF ReadTransaction
<1>2. CASE job' = [job EXCEPT ![s].pc = "anchor-still"]
  <2>1. PICK j : j = job[s]
    OBVIOUS
  <2>2. job' = [job EXCEPT ![s] = [j EXCEPT !.pc = "anchor-still"]]
    BY <1>2, <2>1
  <2>3. Onward(j.pc, "anchor-still")
    <3>1. j.pc = "anchor-transaction"
      BY <2>1 DEF ReadTransaction
    <3> QED
      BY <3>1 DEF Onward, Places, AnchorRead, BeaconRead
  <2>4. JobOK([j EXCEPT !.pc = "anchor-still"])
    BY <2>1, <2>3, JobAt, OnwardOK
  <2> QED
    BY <2>2, <2>4, JobMoves DEF ReadTransaction
<1> QED
  BY <1>1, <1>2 DEF ReadTransaction

\* A depth that passes the check is that of a block of the chain.
LEMMA DepthRead ==
  ASSUME Inv, NEW block \in Block, NEW height, Len(block) = height,
         Confirmations(block) >= MinDepth
  PROVE  ReadOff(block, height, Confirmations(block)) /\ Confirmations(block) \in Int
<1>1. Len(tip) \in Nat /\ Len(block) \in Nat /\ MinDepth \in Nat \ {0}
  BY TipType, EvidenceAssumption DEF Inv, Block
<1> QED
  BY <1>1 DEF ReadOff, Confirmations, Active

LEMMA AnchorDepthInv ==
  ASSUME Inv, NEW s \in Signers, NEW c, c = job[s].cert,
         ReadDepth(s, "anchor-depth", c.anchor, c.anchorHeight, "anchorDepth", "anchor-transaction")
  PROVE  Inv'
<1>1. CASE Raise(s)
  BY <1>1, RaiseInv DEF ReadDepth
<1>2. CASE ~ Raise(s)
  <2>1. PICK j : j = job[s]
    OBVIOUS
  <2>2. PICK r : r = [j EXCEPT !.anchorDepth = Confirmations(c.anchor), !.pc = "anchor-transaction"]
    OBVIOUS
  <2>3. job' = [job EXCEPT ![s] = r]
    BY <1>2, <2>1, <2>2 DEF ReadDepth
  <2>4. JobOK(j) /\ j \in Job /\ j.pc = "anchor-depth"
    BY <2>1, JobAt DEF ReadDepth
  <2>5. c = j.cert /\ c \in Cert /\ Certified(j) /\ Outgrown(j)
    BY <2>1, <2>4 DEF JobOK, Certified
  <2>6. ReadOff(c.anchor, c.anchorHeight, Confirmations(c.anchor)) /\ Confirmations(c.anchor) \in Int
    BY <1>2, <2>5, DepthRead DEF ReadDepth, Cert
  <2>7. /\ r \in Job /\ r.pc = "anchor-transaction"
        /\ r.cert = c /\ r.since = j.since /\ r.before = j.before
        /\ r.anchorDepth = Confirmations(c.anchor)
    BY <2>2, <2>4, <2>5, <2>6 DEF Job, Places, AnchorRead, BeaconRead
  <2>8. JobOK(r)
    BY <2>5, <2>6, <2>7 DEF JobOK, Certified, Outgrown, AnchorRead, BeaconRead
  <2> QED
    BY <2>3, <2>8, JobMoves DEF ReadDepth
<1> QED
  BY <1>1, <1>2

LEMMA BeaconDepthInv ==
  ASSUME Inv, NEW s \in Signers, NEW c, c = job[s].cert,
         ReadDepth(s, "beacon-depth", c.beacon, c.beaconHeight, "beaconDepth", "beacon-still")
  PROVE  Inv'
<1>1. CASE Raise(s)
  BY <1>1, RaiseInv DEF ReadDepth
<1>2. CASE ~ Raise(s)
  <2>1. PICK j : j = job[s]
    OBVIOUS
  <2>2. PICK r : r = [j EXCEPT !.beaconDepth = Confirmations(c.beacon), !.pc = "beacon-still"]
    OBVIOUS
  <2>3. job' = [job EXCEPT ![s] = r]
    BY <1>2, <2>1, <2>2 DEF ReadDepth
  <2>4. JobOK(j) /\ j \in Job /\ j.pc = "beacon-depth"
    BY <2>1, JobAt DEF ReadDepth
  <2>5. c = j.cert /\ c \in Cert /\ Certified(j) /\ Outgrown(j)
    BY <2>1, <2>4 DEF JobOK, Certified
  <2>6. ReadOff(c.beacon, c.beaconHeight, Confirmations(c.beacon)) /\ Confirmations(c.beacon) \in Int
    BY <1>2, <2>5, DepthRead DEF ReadDepth, Cert
  <2>7. /\ r \in Job /\ r.pc = "beacon-still"
        /\ r.cert = c /\ r.since = j.since /\ r.before = j.before
        /\ r.anchorDepth = j.anchorDepth /\ r.beaconDepth = Confirmations(c.beacon)
    BY <2>2, <2>4, <2>5, <2>6 DEF Job, Places, AnchorRead, BeaconRead
  <2>8. j.before = tip => ReadOff(c.anchor, c.anchorHeight, j.anchorDepth)
    BY <2>4, <2>5 DEF JobOK, AnchorRead
  <2>9. JobOK(r)
    BY <2>5, <2>6, <2>7, <2>8 DEF JobOK, Certified, Outgrown
  <2> QED
    BY <2>3, <2>9, JobMoves DEF ReadDepth
<1> QED
  BY <1>1, <1>2

\* The second reading of a depth, at either block.
LEMMA FinalDepthInv ==
  ASSUME Inv, NEW s \in Signers, NEW pc, NEW block \in Block, NEW height, NEW then,
         NEW field \in {"anchorFinal", "beaconFinal"},
         ReadDepth(s, pc, block, height, field, then), Onward(pc, then)
  PROVE  Inv'
<1>1. CASE Raise(s)
  BY <1>1, RaiseInv DEF ReadDepth
<1>2. CASE ~ Raise(s)
  <2>1. PICK j : j = job[s]
    OBVIOUS
  <2>2. PICK k : k = [j EXCEPT ![field] = Confirmations(block)]
    OBVIOUS
  <2>3. job' = [job EXCEPT ![s] = [k EXCEPT !.pc = then]]
    BY <1>2, <2>1, <2>2 DEF ReadDepth
  <2>4. JobOK(j) /\ j \in Job /\ j.pc = pc
    BY <2>1, JobAt DEF ReadDepth
  <2>5. Confirmations(block) \in Int
    BY <1>2, DepthRead DEF ReadDepth
  <2>6. /\ k \in Job /\ k.pc = j.pc /\ k.cert = j.cert /\ k.since = j.since /\ k.before = j.before
        /\ k.anchorDepth = j.anchorDepth /\ k.beaconDepth = j.beaconDepth
    <3>1. CASE field = "anchorFinal"
      BY <3>1, <2>2, <2>4, <2>5 DEF Job
    <3>2. CASE field = "beaconFinal"
      BY <3>2, <2>2, <2>4, <2>5 DEF Job
    <3> QED
      BY <3>1, <3>2
  <2>7. JobOK(k)
    BY <2>4, <2>6 DEF JobOK, Certified, Outgrown
  <2>8. JobOK([k EXCEPT !.pc = then])
    BY <2>4, <2>6, <2>7, OnwardOK
  <2> QED
    BY <2>3, <2>8, JobMoves DEF ReadDepth
<1> QED
  BY <1>1, <1>2

LEMMA StartInv ==
  ASSUME Inv, NEW s \in Signers, Start(s)
  PROVE  Inv'
<1>1. PICK set \in CommitmentSets, anchor \in mined, beacon \in mined, h \in {0, 1}, k \in {0, 1},
           receipts \in SUBSET Participants, verifier \in Approved \cup Participants :
        Begin(s, Certificate(set, anchor, Len(anchor) + h, beacon, Len(beacon) + k,
                             receipts, verifier))
  BY DEF Start
<1>2. PICK c : c = Certificate(set, anchor, Len(anchor) + h, beacon, Len(beacon) + k,
                               receipts, verifier)
  OBVIOUS
<1>3. c \in Cert /\ c.anchor \in mined /\ c.beacon \in mined
  <2>1. anchor \in Block /\ beacon \in Block /\ Len(anchor) + h \in Nat /\ Len(beacon) + k \in Nat
    BY DEF Inv, ChainOK, Block
  <2> QED
    BY <1>2, <2>1 DEF Certificate, Cert
<1>4. Begin(s, c)
  BY <1>1, <1>2
<1>5. PICK r : r = [Idle EXCEPT !.pc = "tip-before", !.cert = c, !.since = now]
  OBVIOUS
<1>6. r \in Job /\ r.pc = "tip-before" /\ r.cert = c /\ r.since = now
  <2>1. Idle \in Job /\ now \in Nat
    BY IdleOK DEF JobOK, Inv, ChainOK
  <2> QED
    BY <1>3, <1>5, <2>1 DEF Job, Places
<1>7. JobOK(r)
  <2>1. Verified(c)
    BY <1>4 DEF Begin, Qualified
  <2>2. now <= now
    BY DEF Inv, ChainOK
  <2> QED
    BY <1>3, <1>6, <2>1, <2>2 DEF JobOK, Certified, AnchorRead, BeaconRead
<1> QED
  BY <1>4, <1>5, <1>7, JobMoves DEF Begin

LEMMA TipBeforeInv ==
  ASSUME Inv, NEW s \in Signers, TipBefore(s)
  PROVE  Inv'
<1>1. PICK j : j = job[s]
  OBVIOUS
<1>2. JobOK(j) /\ j \in Job /\ j.pc = "tip-before"
  BY <1>1, JobAt DEF TipBefore
<1>3. PICK r : r = [j EXCEPT !.pc = "anchor-active", !.before = tip]
  OBVIOUS
<1>4. job' = [job EXCEPT ![s] = r]
  <2>1. job \in [Signers -> Job]
    BY DEF Inv, JobsOK
  <2> QED
    BY <1>1, <1>3, <2>1 DEF TipBefore
<1>5. r \in Job /\ r.pc = "anchor-active" /\ r.cert = j.cert /\ r.since = j.since /\ r.before = tip
  BY <1>2, <1>3, TipType DEF Job, Places, Inv
<1>6. JobOK(r)
  <2>1. Len(tip) <= Len(tip)
    BY TipType DEF Inv
  <2> QED
    BY <1>2, <1>5, <2>1 DEF JobOK, Certified, Outgrown, AnchorRead, BeaconRead
<1> QED
  BY <1>4, <1>6, JobMoves DEF TipBefore

\* The certificate a read takes its heights and hashes from.
LEMMA CertAt ==
  ASSUME Inv, NEW s \in Signers, job[s].pc # "idle"
  PROVE  Certified(job[s]) /\ job[s].cert.anchor \in Block /\ job[s].cert.beacon \in Block
  BY JobAt DEF JobOK, Certified, Cert

LEMMA ChecksInv ==
  ASSUME Inv, NEW s \in Signers, AnchorCheck(s) \/ BeaconCheck(s) \/ FinalChecks(s)
  PROVE  Inv'
<1>1. PICK c : c = job[s].cert
  OBVIOUS
<1>2. CASE AnchorCheck(s)
  <2>1. Onward("anchor-active", "anchor-depth") /\ Onward("anchor-still", "beacon-active")
    BY DEF Onward, Places, AnchorRead, BeaconRead
  <2> QED
    BY <1>1, <1>2, <2>1, ReadActiveInv, AnchorDepthInv, ReadTransactionInv DEF AnchorCheck
<1>3. CASE BeaconCheck(s)
  <2>1. Onward("beacon-active", "beacon-depth") /\ Onward("beacon-still", "anchor-again")
    BY DEF Onward, Places, AnchorRead, BeaconRead
  <2> QED
    BY <1>1, <1>3, <2>1, ReadActiveInv, BeaconDepthInv DEF BeaconCheck
<1>4. CASE FinalChecks(s)
  <2>1. /\ Onward("anchor-again", "anchor-final") /\ Onward("anchor-end", "beacon-again")
        /\ Onward("beacon-again", "beacon-final") /\ Onward("beacon-end", "tip-after")
        /\ Onward("anchor-final", "anchor-end") /\ Onward("beacon-final", "beacon-end")
    BY DEF Onward, Places, AnchorRead, BeaconRead
  <2>2. CASE ReadDepth(s, "anchor-final", c.anchor, c.anchorHeight, "anchorFinal", "anchor-end")
    <3>1. c.anchor \in Block
      BY <1>1, <2>2, CertAt DEF ReadDepth
    <3> QED
      BY <2>1, <2>2, <3>1, FinalDepthInv
  <2>3. CASE ReadDepth(s, "beacon-final", c.beacon, c.beaconHeight, "beaconFinal", "beacon-end")
    <3>1. c.beacon \in Block
      BY <1>1, <2>3, CertAt DEF ReadDepth
    <3> QED
      BY <2>1, <2>3, <3>1, FinalDepthInv
  <2> QED
    BY <1>1, <1>4, <2>1, <2>2, <2>3, ReadActiveInv DEF FinalChecks
<1> QED
  BY <1>2, <1>3, <1>4

-----------------------------------------------------------------------------
(* The signature *)

LEMMA ExpiryBound ==
  ASSUME NEW since \in Nat
  PROVE  Expiry(since) \in Nat /\ Expiry(since) <= QualifiedUntil /\ Expiry(since) <= since + Ttl
<1>1. PICK S : S = {QualifiedUntil, since + Ttl}
  OBVIOUS
<1>2. \E x \in S : \A y \in S : x <= y
  BY <1>1, EvidenceAssumption
<1>3. Min(S) \in S /\ \A y \in S : Min(S) <= y
  BY <1>2 DEF Min
<1> QED
  BY <1>1, <1>3, EvidenceAssumption DEF Expiry

\* What a settled job observed is true of the tip.
LEMMA SettledReads ==
  ASSUME Inv, NEW s \in Signers, job[s].pc = "tip-after", Settled(s)
  PROVE  LET c == job[s].cert IN
         /\ ReadOff(c.anchor, c.anchorHeight, job[s].anchorDepth)
         /\ ReadOff(c.beacon, c.beaconHeight, job[s].beaconDepth)
         /\ IsStrictPrefix(c.anchor, c.beacon)
<1>1. PICK j : j = job[s]
  OBVIOUS
<1>2. JobOK(j) /\ j.pc = "tip-after" /\ j.before = tip
  BY <1>1, JobAt DEF Settled
<1>3. /\ ReadOff(j.cert.anchor, j.cert.anchorHeight, j.anchorDepth)
      /\ ReadOff(j.cert.beacon, j.cert.beaconHeight, j.beaconDepth)
      /\ Certified(j)
  BY <1>2 DEF JobOK, AnchorRead, BeaconRead
<1>4. /\ j.cert.anchorHeight \in Nat /\ j.cert.beaconHeight \in Nat
      /\ j.cert.anchorHeight < j.cert.beaconHeight
  BY <1>3, EvidenceAssumption DEF Certified, Cert, Verified, Timely
<1>5. j.cert.anchor \in Block /\ j.cert.beacon \in Block
  BY <1>3 DEF Certified, Cert
<1>6. IsStrictPrefix(j.cert.anchor, j.cert.beacon)
  BY <1>3, <1>4, <1>5, TipType, PrefixesNest DEF ReadOff, Inv
<1> QED
  BY <1>1, <1>3, <1>6

LEMMA AttestInv ==
  ASSUME Inv, NEW s \in Signers, Attest(s)
  PROVE  Inv'
<1>1. ChainOK' /\ SignedFirst' /\ JobsOK' /\ \A a : AttestationOK(a) => AttestationOK(a)'
  BY SignerMoves, IdleOK DEF Attest, Raise
<1>2. CASE UNCHANGED attestations
  BY <1>1, <1>2 DEF Inv, AttestationsOK
<1>3. CASE Settled(s)
  <2>1. PICK j : j = job[s]
    OBVIOUS
  <2>2. PICK a : a = [signer |-> s, set |-> j.cert.set, observation |-> Observation(s),
                      issued |-> j.since, expires |-> Expiry(j.since), saw |-> now]
    OBVIOUS
  <2>3. attestations' = attestations \cup {a}
    BY <1>3, <2>1, <2>2 DEF Attest
  <2>4. j \in Job /\ Certified(j) /\ IsStrictPrefix(j.cert.anchor, j.cert.beacon)
    BY <1>3, <2>1, JobAt, CertAt, SettledReads DEF Attest
  <2>5. /\ j.since \in Nat /\ j.since <= now /\ now \in Nat
        /\ j.cert.set \in CommitmentSets
        /\ Carries(j.cert.anchor, j.cert.set)
        /\ j.cert.anchor \in mined /\ j.cert.beacon \in mined
    BY <2>4 DEF Job, Certified, Cert, Verified, Inv, ChainOK
  <2>6. AttestationOK(a)
    <3>1. a.observation.anchor = j.cert.anchor /\ a.observation.beacon = j.cert.beacon
      BY <2>1, <2>2 DEF Observation
    <3>2. /\ a.set = j.cert.set /\ a.issued = j.since /\ a.saw = now
          /\ a.expires = Expiry(j.since)
      BY <2>2
    <3>3. now <= now
      BY <2>5
    <3> QED
      BY <2>4, <2>5, <3>1, <3>2, <3>3, ExpiryBound DEF AttestationOK
  <2> QED
    BY <1>1, <2>3, <2>6 DEF Inv, AttestationsOK
<1> QED
  BY <1>2, <1>3 DEF Attest

-----------------------------------------------------------------------------
(* The invariant *)

LEMMA InitInv == Init => Inv
<1> SUFFICES ASSUME Init PROVE Inv
  OBVIOUS
<1>1. ChainOK
  <2>1. <<>> \in Block /\ \A h \in 0 .. Len(<<>>) : SubSeq(<<>>, 1, h) = <<>>
    BY DEF Block
  <2>2. knowing \in [CommitmentSets -> SUBSET mined] /\ \A set \in CommitmentSets : knowing[set] = {}
    BY DEF Init, Unsigned
  <2> QED
    BY <2>1, <2>2 DEF Init, ChainOK, Closed
<1>2. SignedFirst
  BY DEF Init, SignedFirst, Carries
<1>3. JobOK(Idle)
  <2>1. Idle \in Job /\ Idle.pc = "idle"
    BY DEF Idle, Job, Block, Nothing, Places
  <2> QED
    BY <2>1 DEF JobOK, AnchorRead, BeaconRead
<1>4. JobsOK
  BY <1>3 DEF Init, JobsOK, JobOK
<1>5. AttestationsOK
  BY DEF Init, AttestationsOK
<1> QED
  BY <1>1, <1>2, <1>4, <1>5 DEF Inv

LEMMA SignerInv ==
  ASSUME Inv, NEW s \in Signers, Signer(s)
  PROVE  Inv'
BY StartInv, TipBeforeInv, ChecksInv, AttestInv DEF Signer

LEMMA StepInv == Inv /\ [Next]_vars => Inv'
<1> SUFFICES ASSUME Inv, [Next]_vars PROVE Inv'
  OBVIOUS
<1>1. CASE Chain
  BY <1>1, ChainInv
<1>2. ASSUME NEW s \in Signers, Signer(s) PROVE Inv'
  BY <1>2, SignerInv
<1>3. CASE UNCHANGED vars
  <2>1. ChainMoves
    BY <1>3, TipType DEF vars, ChainMoves, Inv, ChainOK
  <2>2. ChainOK' /\ SignedFirst'
    BY <1>3 DEF vars, Inv, ChainOK, SignedFirst, Closed, Carries
  <2> QED
    BY <2>1, <2>2, EvidenceSurvives DEF Inv
<1> QED
  BY <1>1, <1>2, <1>3 DEF Next

(***************************************************************************)
(* The blocks Core knows, the sets signed, the observations under way and  *)
(* the attestations issued are what the argument says they are.            *)
(***************************************************************************)
THEOREM EvidenceStaysSound == Spec => []Inv
BY InitInv, StepInv, PTL DEF Spec

-----------------------------------------------------------------------------
(***************************************************************************)
(* The participants of an attested ceremony signed before its beacon was   *)
(* mined, and the beacon is on top of the block that publishes what they   *)
(* signed: setup_ceremony_evidence.py, CeremonyCertificate.verify.         *)
(***************************************************************************)
THEOREM CeremoniesAreBound == Spec => []BoundBeforeBeacon
<1>1. Inv => BoundBeforeBeacon
  <2> SUFFICES ASSUME Inv, NEW a \in attestations
               PROVE  /\ a.observation.beacon \notin knowing[a.set]
                      /\ IsStrictPrefix(a.observation.anchor, a.observation.beacon)
    BY DEF BoundBeforeBeacon
  <2>1. AttestationOK(a)
    BY DEF Inv, AttestationsOK
  <2>2. a.observation.anchor \notin knowing[a.set]
    BY <2>1 DEF Inv, SignedFirst, AttestationOK
  <2>3. a.observation.anchor \in Block /\ a.observation.beacon \in Block /\ Closed(knowing[a.set])
    BY <2>1 DEF Inv, ChainOK, AttestationOK
  <2>4. IsPrefix(a.observation.anchor, a.observation.beacon)
    BY <2>1 DEF AttestationOK, IsStrictPrefix
  <2> QED
    BY <2>1, <2>2, <2>3, <2>4, AncestorsKnown DEF AttestationOK
<1> QED
  BY <1>1, EvidenceStaysSound, PTL

-----------------------------------------------------------------------------
(* evaluate_deployment *)

\* A signer whose rows count showed one attestation, however often.
LEMMA CountedOnce ==
  ASSUME NEW shown, NEW a \in Valid(shown)
  PROVE  /\ a.signer \in ApprovedMpc
         /\ Cardinality({Digest(b) : b \in {c \in shown : c.signer = a.signer}}) = 1
<1>1. a \in shown /\ a.signer \in ApprovedMpc /\ ~ Equivocated(shown, a.signer)
  BY DEF Valid
<1>2. {Digest(b) : b \in {c \in shown : c.signer = a.signer}} = {Digest(a)}
  <2>1. \A b \in shown : b.signer = a.signer => Digest(b) = Digest(a)
    BY <1>1 DEF Equivocated
  <2> HIDE DEF Digest
  <2> QED
    BY <1>1, <2>1
<1> QED
  BY <1>1, <1>2, FS_Singleton

(***************************************************************************)
(* Whatever attestations a deployment is evaluated with, those it accepts  *)
(* were true of Bitcoin less than the lifetime of an attestation ago, and  *)
(* no threshold is met by a signer that showed two of them:                *)
(* deployment_policy.py, evaluate_deployment.                              *)
(***************************************************************************)
THEOREM EvidenceIsFresh == Spec => []AcceptedIsFresh
<1>1. Inv => AcceptedIsFresh
  <2> SUFFICES ASSUME Inv, NEW shown \in SUBSET attestations
               PROVE  /\ \A a \in Valid(shown) : now - a.saw < Ttl /\ now < QualifiedUntil
                      /\ "threshold" \notin Failures(shown) =>
                           MinSignatures <= Cardinality({s \in ApprovedMpc :
                             Cardinality({Digest(a) : a \in {b \in shown : b.signer = s}}) = 1})
    BY DEF AcceptedIsFresh, Decision
  <2>1. ASSUME NEW a \in Valid(shown) PROVE now - a.saw < Ttl /\ now < QualifiedUntil
    <3>1. AttestationOK(a) /\ now < a.expires /\ now \in Nat
      BY DEF Valid, Inv, AttestationsOK, ChainOK
    <3> QED
      BY <3>1, EvidenceAssumption DEF AttestationOK
  <2>2. ASSUME "threshold" \notin Failures(shown)
        PROVE  MinSignatures <= Cardinality({s \in ApprovedMpc :
                 Cardinality({Digest(a) : a \in {b \in shown : b.signer = s}}) = 1})
    <3>1. PICK counted : counted = {a.signer : a \in Valid(shown)}
      OBVIOUS
    <3>2. PICK once : once = {s \in ApprovedMpc :
                 Cardinality({Digest(a) : a \in {b \in shown : b.signer = s}}) = 1}
      OBVIOUS
    <3>3. ~ (Cardinality(counted) < MinSignatures)
      BY <2>2, <3>1 DEF Failures
    <3>4. counted \subseteq once /\ once \subseteq ApprovedMpc
      BY <3>1, <3>2, CountedOnce
    <3>5. IsFiniteSet(once) /\ Cardinality(once) \in Nat
      BY <3>4, EvidenceAssumption, FS_Subset, FS_CardinalityType
    <3>6. Cardinality(counted) \in Nat /\ Cardinality(counted) <= Cardinality(once)
      BY <3>4, <3>5, FS_Subset, FS_CardinalityType
    <3> QED
      BY <3>2, <3>3, <3>5, <3>6, EvidenceAssumption
  <2> QED
    BY <2>1, <2>2
<1> QED
  BY <1>1, EvidenceStaysSound, PTL

-----------------------------------------------------------------------------
(* The refinement of AtomicObservation *)

LEMMA AttestRefines ==
  ASSUME Inv, NEW s \in Signers, Attest(s)
  PROVE  \/ UNCHANGED Atomic!vars
         \/ Atomic!ObserveSomething
<1>1. CASE UNCHANGED attestations
  BY <1>1 DEF Attest, Atomic!vars
<1>2. CASE Settled(s)
  <2>1. PICK o : o = Observation(s)
    OBVIOUS
  <2>2. PICK a : a = [signer |-> s, set |-> job[s].cert.set, observation |-> o,
                      issued |-> job[s].since, expires |-> Expiry(job[s].since), saw |-> now]
    OBVIOUS
  <2>3. attestations' = attestations \cup {a} /\ a.observation = o
    BY <1>2, <2>1, <2>2 DEF Attest
  <2>4. {b.observation : b \in attestations'} = {b.observation : b \in attestations} \cup {o}
    BY <2>3
  <2>5. PICK anchor, beacon : anchor = job[s].cert.anchor /\ beacon = job[s].cert.beacon
    OBVIOUS
  <2>6. /\ ReadOff(anchor, job[s].cert.anchorHeight, job[s].anchorDepth)
        /\ ReadOff(beacon, job[s].cert.beaconHeight, job[s].beaconDepth)
        /\ anchor \in Block /\ beacon \in Block
    BY <1>2, <2>5, SettledReads, CertAt DEF Attest
  <2>7. /\ Atomic!Buried(anchor) /\ Atomic!Buried(beacon)
        /\ job[s].anchorDepth = Atomic!Confirmations(anchor)
        /\ job[s].beaconDepth = Atomic!Confirmations(beacon)
    BY <2>6 DEF ReadOff, Atomic!Buried, Atomic!Active, Atomic!Confirmations, Atomic!IsPrefix, IsPrefix
  <2>8. o = [anchor |-> anchor, anchorDepth |-> Atomic!Confirmations(anchor),
             beacon |-> beacon, beaconDepth |-> Atomic!Confirmations(beacon), best |-> tip]
    BY <2>1, <2>5, <2>7 DEF Observation
  <2>9. PICK h \in 0 .. Len(tip), k \in 0 .. Len(tip) :
          anchor = SubSeq(tip, 1, h) /\ beacon = SubSeq(tip, 1, k)
    BY <2>6, TipType, PrefixIsBeginning DEF ReadOff, Inv, Block
  <2>10. Atomic!Observe(SubSeq(tip, 1, h), SubSeq(tip, 1, k))
    BY <2>4, <2>7, <2>8, <2>9
       DEF Atomic!Observe, Atomic!Buried, Atomic!Active, Atomic!Confirmations, Attest
  <2> QED
    BY <2>10 DEF Atomic!ObserveSomething
<1> QED
  BY <1>1, <1>2 DEF Attest

LEMMA StepRefines == Inv /\ [Next]_vars => [Atomic!Next]_Atomic!vars
<1> SUFFICES ASSUME Inv, [Next]_vars PROVE [Atomic!Next]_Atomic!vars
  OBVIOUS
<1>1. CASE Chain
  BY <1>1, ChainInv DEF Atomic!Next, Atomic!Advance, Atomic!vars
<1>2. ASSUME NEW s \in Signers, Signer(s) PROVE [Atomic!Next]_Atomic!vars
  <2>1. CASE Attest(s)
    BY <2>1, AttestRefines DEF Atomic!Next
  <2>2. CASE ~ Attest(s)
    <3>1. ASSUME Start(s) PROVE UNCHANGED <<tip, attestations>>
      BY <3>1 DEF Start, Begin, JobOnly
    <3>2. ASSUME TipBefore(s) \/ AnchorCheck(s) \/ BeaconCheck(s) \/ FinalChecks(s)
          PROVE  UNCHANGED <<tip, attestations>>
      BY <3>2 DEF TipBefore, AnchorCheck, BeaconCheck, FinalChecks,
                  ReadActive, ReadDepth, ReadTransaction, JobOnly
    <3>3. UNCHANGED <<tip, attestations>>
      BY <1>2, <2>2, <3>1, <3>2 DEF Signer
    <3> QED
      BY <3>3 DEF Atomic!vars
  <2> QED
    BY <2>1, <2>2
<1>3. CASE UNCHANGED vars
  BY <1>3 DEF vars, Atomic!vars
<1> QED
  BY <1>1, <1>2, <1>3 DEF Next

(***************************************************************************)
(* However Core's chain moves between the fifteen reads of a signer, every *)
(* attestation is one observation of one chain (mpc_qualification.py,      *)
(* issue_funding_attestation and observe_with_core).                       *)
(***************************************************************************)
THEOREM AttestationsAreAtomic == Spec => ImplementsAtomicObservation
<1>1. Init => Atomic!Init
  BY DEF Init, Atomic!Init
<1> QED
  BY <1>1, StepRefines, EvidenceStaysSound, PTL DEF Spec, ImplementsAtomicObservation, Atomic!Spec
===============================================================================
