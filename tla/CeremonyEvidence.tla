--------------------------- MODULE CeremonyEvidence ----------------------------
(***************************************************************************)
(* How a setup ceremony becomes funding evidence.  The participants sign   *)
(* one commitment each and the set is published in a Bitcoin transaction   *)
(* (the anchor); a later block is the beacon; a certificate names both     *)
(* (src/ranklock/setup_ceremony_evidence.py).  An MPC verifier checks the  *)
(* certificate against its Bitcoin Core, one RPC at a time while the chain *)
(* moves (src/ranklock/bitcoin_spv.py), and signs a short-lived            *)
(* attestation of what it saw (src/ranklock/mpc_qualification.py), which   *)
(* evaluate_deployment accepts or not (src/ranklock/deployment_policy.py). *)
(*                                                                         *)
(* A block is the chain that ends in it, as its hash commits to its        *)
(* parents; genesis is the empty sequence.  Core replaces its chain only   *)
(* by one with more work, here a longer one.  Fields that are compared     *)
(* with constants of the deployment (context, genesis, artifact, reports)  *)
(* are left out.                                                           *)
(***************************************************************************)
EXTENDS Integers, Sequences, FiniteSets, FiniteSetsExt, SequencesExt, Functions

CONSTANTS
  Participants,       \* the ceremony's signing keys
  CommitmentSets,     \* what may be published: [Participants -> views or NoRow]
  NoRow,              \* a participant without a commitment
  NoSet,              \* a block that publishes nothing
  Nonces,             \* tell blocks with the same content apart
  Approved,           \* approved_independent_verifiers
  ApprovedMpc,        \* approved_mpc_verifiers, the role's authorized keys
  Signers,            \* keys that run issue_funding_attestation
  Cutoff,             \* commitment_cutoff_height
  MinDepth,           \* minimum_confirmations
  Ttl,                \* attestation_ttl_seconds
  QualifiedUntil,     \* expires_at_unix of the qualification certificate
  MinSignatures,      \* minimum_signatures of the role's authority
  MaxHeight, MaxBlocks, MaxTime, MaxAttestations   \* bounds of the instance

ASSUME EvidenceAssumption ==
  /\ MinDepth \in Nat \ {0} /\ Ttl \in Nat \ {0} /\ Cutoff \in Nat
  /\ QualifiedUntil \in Nat \ {0} /\ MinSignatures \in Nat \ {0}
  /\ IsFiniteSet(ApprovedMpc)

VARIABLES
  tip,            \* Core's active chain
  mined,          \* history: every block Core has connected
  knowing,        \* history: those that existed when a set was signed
  now,            \* the clock
  job,            \* per signer: the observation under way
  attestations    \* the attestations issued

vars == <<tip, mined, knowing, now, job, attestations>>

\* Nobody signed it: genesis always exists.
Unsigned == {}
Nothing == "nothing"

-----------------------------------------------------------------------------
(* Bitcoin *)

Payloads == {<<NoSet, n>> : n \in Nonces} \cup {<<set>> : set \in CommitmentSets}
Carries(block, set) == block # <<>> /\ Last(block)[1] = set
BlockAt(h) == SubSeq(tip, 1, h)
Active(block) == IsPrefix(block, tip)
Confirmations(block) == IF Active(block) THEN Len(tip) - Len(block) + 1 ELSE -1

\* The participants have signed their rows; what they knew when the last did.
Commit(set) ==
  /\ knowing[set] = Unsigned
  /\ knowing' = [knowing EXCEPT ![set] = mined]
  /\ UNCHANGED <<tip, mined, now, job, attestations>>

Publishable(payload) == payload[1] \in CommitmentSets => knowing[payload[1]] # Unsigned

\* Core connects these blocks above height fork, dropping its own from there:
\* none when the chain grows, and fewer than it connects when it is replaced.
Connect(fork, blocks) ==
  LET new == BlockAt(fork) \o blocks IN
  /\ fork + Len(blocks) > Len(tip)
  /\ \A i \in DOMAIN blocks : Publishable(blocks[i])
  /\ tip' = new
  /\ mined' = mined \cup {SubSeq(new, 1, h) : h \in 0 .. Len(new)}
  /\ Cardinality(mined') <= MaxBlocks
  /\ UNCHANGED <<knowing, now, job, attestations>>

Extend == \E payload \in Payloads : Len(tip) < MaxHeight /\ Connect(Len(tip), <<payload>>)

Reorganise ==
  \E fork \in 0 .. Len(tip) - 1 :
    \E blocks \in UNION {[1 .. n -> Payloads] : n \in Len(tip) - fork + 1 .. MaxHeight - fork} :
      BlockAt(fork + 1) # Append(BlockAt(fork), blocks[1]) /\ Connect(fork, blocks)

Tick ==
  /\ now < MaxTime
  /\ now' = now + 1
  /\ UNCHANGED <<tip, mined, knowing, job, attestations>>

-----------------------------------------------------------------------------
(* CeremonyCertificate.verify and MpcQualificationCertificate.verify *)

Certificate(set, anchor, anchorHeight, beacon, beaconHeight, receipts, verifier) ==
  [set |-> set, anchor |-> anchor, anchorHeight |-> anchorHeight,
   beacon |-> beacon, beaconHeight |-> beaconHeight,
   receipts |-> receipts, verifier |-> verifier]

\* Mutant: only the anchor is held against the cutoff.
TimelyAnchor(c) == c.anchorHeight <= Cutoff

Timely(c) == c.anchorHeight <= Cutoff /\ c.beaconHeight > Cutoff

\* One signed row of every participant, no two with the same private view.
Complete(set) == (\A p \in Participants : set[p] # NoRow) /\ IsInjective(set)

Verified(c) ==
  /\ Timely(c)
  /\ Carries(c.anchor, c.set)
  /\ Complete(c.set)
  /\ c.receipts = Participants
  /\ c.verifier \in Approved \ Participants

Qualified(s, c) ==
  /\ Verified(c)
  /\ s \in ApprovedMpc \ (Participants \cup {c.verifier})
  /\ now < QualifiedUntil

-----------------------------------------------------------------------------
(* issue_funding_attestation and observe_with_core, one RPC per step *)

Idle ==
  [pc |-> "idle", cert |-> Nothing, since |-> 0, before |-> <<>>,
   anchorDepth |-> 0, beaconDepth |-> 0, anchorFinal |-> 0, beaconFinal |-> 0]

JobOnly == UNCHANGED <<tip, mined, knowing, now, attestations>>

Begin(s, c) ==
  /\ Qualified(s, c)
  /\ job' = [job EXCEPT ![s] = [Idle EXCEPT !.pc = "tip-before", !.cert = c, !.since = now]]
  /\ JobOnly

TipBefore(s) ==
  /\ job[s].pc = "tip-before"
  /\ job' = [job EXCEPT ![s].pc = "anchor-active", ![s].before = tip]
  /\ JobOnly

Raise(s) == job' = [job EXCEPT ![s] = Idle]

\* getblockhash at the signed height, before or after the other reads of a check.
ReadActive(s, pc, block, height, then) ==
  /\ job[s].pc = pc
  /\ IF height <= Len(tip) /\ BlockAt(height) = block
     THEN job' = [job EXCEPT ![s].pc = then]
     ELSE Raise(s)
  /\ JobOnly

\* The verbose header: height and confirmations.
ReadDepth(s, pc, block, height, field, then) ==
  /\ job[s].pc = pc
  /\ IF Len(block) = height /\ Confirmations(block) >= MinDepth
     THEN job' = [job EXCEPT ![s] = [@ EXCEPT ![field] = Confirmations(block), !.pc = then]]
     ELSE Raise(s)
  /\ JobOnly

\* The publication transaction, whose confirmations are those of the header.
ReadTransaction(s) ==
  /\ job[s].pc = "anchor-transaction"
  /\ IF Confirmations(job[s].cert.anchor) = job[s].anchorDepth
     THEN job' = [job EXCEPT ![s].pc = "anchor-still"]
     ELSE Raise(s)
  /\ JobOnly

AnchorCheck(s) ==
  LET c == job[s].cert IN
  \/ ReadActive(s, "anchor-active", c.anchor, c.anchorHeight, "anchor-depth")
  \/ ReadDepth(s, "anchor-depth", c.anchor, c.anchorHeight, "anchorDepth", "anchor-transaction")
  \/ ReadTransaction(s)
  \/ ReadActive(s, "anchor-still", c.anchor, c.anchorHeight, "beacon-active")

BeaconCheck(s) ==
  LET c == job[s].cert IN
  \/ ReadActive(s, "beacon-active", c.beacon, c.beaconHeight, "beacon-depth")
  \/ ReadDepth(s, "beacon-depth", c.beacon, c.beaconHeight, "beaconDepth", "beacon-still")
  \/ ReadActive(s, "beacon-still", c.beacon, c.beaconHeight, "anchor-again")

FinalChecks(s) ==
  LET c == job[s].cert IN
  \/ ReadActive(s, "anchor-again", c.anchor, c.anchorHeight, "anchor-final")
  \/ ReadDepth(s, "anchor-final", c.anchor, c.anchorHeight, "anchorFinal", "anchor-end")
  \/ ReadActive(s, "anchor-end", c.anchor, c.anchorHeight, "beacon-again")
  \/ ReadActive(s, "beacon-again", c.beacon, c.beaconHeight, "beacon-final")
  \/ ReadDepth(s, "beacon-final", c.beacon, c.beaconHeight, "beaconFinal", "beacon-end")
  \/ ReadActive(s, "beacon-end", c.beacon, c.beaconHeight, "tip-after")

\* Mutant: the chain may have grown meanwhile.
SettledDepths(s) ==
  job[s].anchorFinal = job[s].anchorDepth /\ job[s].beaconFinal = job[s].beaconDepth

Settled(s) ==
  /\ tip = job[s].before
  /\ job[s].anchorFinal = job[s].anchorDepth
  /\ job[s].beaconFinal = job[s].beaconDepth

Observation(s) ==
  [anchor |-> job[s].cert.anchor, anchorDepth |-> job[s].anchorDepth,
   beacon |-> job[s].cert.beacon, beaconDepth |-> job[s].beaconDepth, best |-> tip]

\* Mutant: the attestation lives as long as the qualification.
QualificationExpiry(since) == QualifiedUntil

Expiry(since) == Min({QualifiedUntil, since + Ttl})

\* The last read, the comparison and the signature; saw is when it really was.
Attest(s) ==
  /\ job[s].pc = "tip-after"
  /\ IF Settled(s)
     THEN /\ Cardinality(attestations) < MaxAttestations
          /\ attestations' = attestations \cup
               {[signer |-> s, set |-> job[s].cert.set, observation |-> Observation(s),
                 issued |-> job[s].since, expires |-> Expiry(job[s].since), saw |-> now]}
     ELSE UNCHANGED attestations
  /\ Raise(s)
  /\ UNCHANGED <<tip, mined, knowing, now>>

-----------------------------------------------------------------------------
(* evaluate_deployment *)

\* What is signed: everything but when it really was.
Digest(a) == [a EXCEPT !.saw = 0]
Equivocated(shown, signer) ==
  \E a, b \in shown : a.signer = signer /\ b.signer = signer /\ Digest(a) # Digest(b)

\* The rows of a signer that presented two different ones count for nothing.
Valid(shown) ==
  {a \in shown : /\ a.signer \in ApprovedMpc
                 /\ ~ Equivocated(shown, a.signer)
                 /\ a.issued <= now /\ now < a.expires}

Failures(shown) ==
  {"legacy-protocol"}
    \cup (IF \E s \in ApprovedMpc : Equivocated(shown, s) THEN {"equivocated"} ELSE {})
    \cup (IF Cardinality({a.signer : a \in Valid(shown)}) < MinSignatures
          THEN {"threshold"} ELSE {})

Decision(shown) == [accepted |-> Valid(shown), failures |-> Failures(shown)]

-----------------------------------------------------------------------------
Init ==
  /\ tip = <<>>
  /\ mined = {<<>>}
  /\ knowing = [set \in CommitmentSets |-> Unsigned]
  /\ now = 0
  /\ job = [s \in Signers |-> Idle]
  /\ attestations = {}

Chain ==
  \/ \E set \in CommitmentSets : Commit(set)
  \/ Extend
  \/ Reorganise
  \/ Tick

\* One of the two signed heights may be one too high.
Start(s) ==
  /\ job[s].pc = "idle"
  /\ \E set \in CommitmentSets, anchor, beacon \in mined, h, k \in {0, 1},
        receipts \in SUBSET Participants, verifier \in Approved \cup Participants :
       /\ h = 0 \/ k = 0
       /\ Begin(s, Certificate(set, anchor, Len(anchor) + h, beacon, Len(beacon) + k,
                               receipts, verifier))

Signer(s) ==
  Start(s) \/ TipBefore(s) \/ AnchorCheck(s) \/ BeaconCheck(s) \/ FinalChecks(s) \/ Attest(s)

Next ==
  \/ Chain
  \/ \E s \in Signers : Signer(s)

Spec == Init /\ [][Next]_vars

-----------------------------------------------------------------------------
(***************************************************************************)
(* However the chain moves between the fifteen reads, what an attestation  *)
(* says of anchor, beacon, depths and best block was true of one chain at  *)
(* one instant.                                                            *)
(***************************************************************************)
Atomic == INSTANCE AtomicObservation WITH observed <- {a.observation : a \in attestations}
ImplementsAtomicObservation == Atomic!Spec

(***************************************************************************)
(* The participants of an attested ceremony were bound before the beacon   *)
(* existed: it was mined after the last of them signed, on top of the      *)
(* block that publishes what they signed.                                  *)
(***************************************************************************)
BoundBeforeBeacon ==
  \A a \in attestations :
    /\ a.observation.beacon \notin knowing[a.set]
    /\ IsStrictPrefix(a.observation.anchor, a.observation.beacon)

(***************************************************************************)
(* Evidence is fresh when it is used: whatever attestations a deployment   *)
(* is evaluated with, those it accepts were true of Bitcoin less than the  *)
(* lifetime of an attestation ago; and if it does not report the threshold *)
(* missed, that many signers each showed one attestation and no other.     *)
(***************************************************************************)
AcceptedIsFresh ==
  \A shown \in SUBSET attestations :
    LET d == Decision(shown) IN
    /\ \A a \in d.accepted : now - a.saw < Ttl /\ now < QualifiedUntil
    /\ "threshold" \notin d.failures =>
         MinSignatures <= Cardinality({s \in ApprovedMpc :
                            Cardinality({Digest(a) : a \in {b \in shown : b.signer = s}}) = 1})
=============================================================================
