# RankLock: one-shot release, its coordinator, its timeout graph and its evidence

A TLA+ development beside the Python package `src/ranklock`. RankLock lets a
committee release material (label shares, then a seed share) for a Bitcoin
counterproof exactly once per *slot*. The cryptography is algebra; what keeps a
participant honest with itself is a stateful core: a SQLite ledger with a
hash-chained audit log, independent *rollback witnesses* that remember what the
ledger said, and *sidecars* that release nothing before the witnesses have
agreed. Around it stand the coordinator that combines the participants'
answers, the graph of presigned transactions that pays out when they answer or
do not, and the evidence that the keys were made in a public ceremony. This
development models these parts, model-checks them, and proves the main promises
of the core for every number of slots, requests, workers, witnesses and crashes,
for every plan and policy, and for every order in which a chain moves.

## The system

| Component | State | Operations | Hard because |
|---|---|---|---|
| Durable slot ledger (`durable_slot_ledger.py`) | table `slots` (state, binding, outcome, first/latest event hash), table `audit_events`, metadata head | `begin`, `finalize`, `record_chain_observation`, `use`, `events` | any number of processes write; replays, conflicts and terminal states interact over long histories |
| Audit verification (`verify_audit_chain`) | none of its own; four separate reads | rows, replayed log, walked log, head | writers commit between the reads |
| Rollback witnesses (`rollback_witness.py`) | last accepted checkpoint per ledger | `anchor`, `latest` | lost answers, stale or torn checkpoints, restored disks, several witnesses that disagree |
| Two-phase sidecar (`two_phase_sidecar.py`, `two_phase_authorization.py`) | the ledger, the output files | bootstrap anchor, `issue_witness_shares`, `issue_seed_share` | a crash between any two calls, concurrent workers, reorganisations, failing recovery |
| Bitcoin Core reader (`release_sidecar.py`) | external | `verify_confirmed_bitcoin_binding` | the active chain moves during a call |
| One-phase sidecar (`release_sidecar.py`), split-scalar sidecar (`split_scalar_authorization.py`) | same ledger and witnesses, the output directory | bootstrap anchor, `issue`, `atomic_write_once` | each orders finalize, anchor and write its own way and fails its own way; two RPC calls per look at Core; others write into the directory |
| Coordinator (`reconstruct_*`, `execute_*` in `two_phase_authorization.py`, `committee_authorization.py`) | collected answers | N-of-N reconstruction, execution | silent, garbled or duplicated answers, conflicting requests |
| Threshold release v0.26 (`v026/threshold_signature_release.py`) | recovered capsules, first-writer-wins store | unlock, recover t-of-n, adopt | different evaluators recover different capsules; f signers withhold or sign twice |
| Timeout economics v0.26 (`v026/timeout_economics.py`) | none; the presigned graph it judges has the chain's unspent outputs | `assess`, `analyze_terminal_wealth_v2` | the checks are patterns over a graph; what they accept has to hold for every confirmation order |
| Setup evidence (`setup_ceremony_evidence.py`, `mpc_qualification.py`, `bitcoin_spv.py`, `deployment_policy.py`) | signed commitments, certificates, attestations | publish, observe Core, attest, evaluate | fifteen RPC reads while the chain moves, reorganisations across the cutoff, lifetimes |
| Validity-first graph, canary observer, setup transcript | small tables and logs | - | little: see "Not modelled" |
| Codecs, about ninety files of field, curve and proof-system algebra | none | pure functions | arithmetic, not interleaving |

They interact by calls. The sidecar writes the ledger, reads it back to build a
signed checkpoint (`UnsignedLedgerCheckpoint.from_ledger`), sends the checkpoint
to every witness (`anchor_ledger_at_all_witnesses`), asks Bitcoin Core, and
publishes a response with `atomic_write_once`. Processes share nothing but the
database file. `PROJECT.json` lists every component with its status, and under
`hazards` each place where something can go wrong that a test would hardly
reach, at its line.

What makes each component correct:

* ledger: the log tells the rows, a slot is burned once, a consumed slot is
  consumed for good, a conflict before completion poisons it;
* verification: it accepts what the ledger's own operations produce and notices
  the rewrites it is there for;
* witnesses: they never take back what they accepted and follow one log;
* sidecars: one request per slot ever gets material out, nothing comes out before
  every witness outside the rollback domain holds it, and what a signed request
  is entitled to comes out in the end or its slot is aborted; a file is never
  replaced, and `issue` returns only what really was published;
* coordinator: one request per slot is executed, and only after every honest
  participant released it; one capsule per alternative is published, and for
  every proven one;
* timeout graph: whatever confirms first, it ends in a branch that was planned,
  the depositor gets the deposit back, no value appears, and a policy that was
  called adequate pays what it promises;
* evidence: an attestation describes one chain at one instant, commitments
  precede the beacon, and what is accepted is fresh.

## The modules

```
SlotStates
  SlotLedger, RollbackWitness          extend SlotStates
    AnchoredLedger                     extends both
      AnchoredLedgerProofs             lemmas for the proofs about its clients
      TwoPhaseSidecar                  extends AnchoredLedger, implements OneShotRelease
        TwoPhaseProgress, TwoPhaseSidecarProofs
        WitnessLineage                 with WitnessLineageProofs
      ConfirmedRelease                 extends AnchoredLedger and ResponseFiles,
        ConfirmedReleaseProofs         implements OneShotRelease
  DurableSlotLedger                    extends SlotStates, implements SlotLedger
    AuditVerifier                      extends DurableSlotLedger
      DurableSlotLedgerProofs          the proofs about both
  OneShotRelease                       extends SlotStates
ResponseFiles                          the output directory
ShareCollection                        coordinators; participants are OneShotReleases
  ShareCollectionProofs
TimeoutGraph
  TerminalWealth                       extends TimeoutGraph
    TerminalWealthProofs
CeremonyEvidence                       implements AtomicObservation
  CeremonyEvidenceProofs
```

* **SlotStates**: slot ids, states, outcomes, the checkpointed part of a row,
  event hashes. A *binding* is the (input, authorization, chain) digest triple,
  always written and compared together. SHA-256 is taken to be collision-free, so
  a hash is a name of the event: sequence number and creation time.
* **SlotLedger**: the ledger as its clients see it. An operation is the
  disjunction of its outcomes (`BeginBurn`, `BeginExact`, `BeginPoisoned`,
  `BeginConflict`, ...), so the sidecar can attach to each outcome what its
  caller does next. One `BEGIN IMMEDIATE` transaction is one action; one that
  raises rolls back and changes nothing.
* **DurableSlotLedger**: the three tables with the full log. Same operations;
  `ImplementsSlotLedger` is the refinement to SlotLedger (rows projected to state
  and binding, `count` the length of the log, `head` the metadata row).
* **AuditVerifier**: `verify_audit_chain` beside the writers: `ReadRows`,
  `ReplayLog`, `WalkLog`, `CompareHead`.
* **RollbackWitness**: `_monotonic`, `_validate_transition` and `anchor` of
  `SqliteRollbackWitness`, and what `__post_init__` refuses to make a checkpoint.
* **AnchoredLedger**: an anchoring pass of a worker: `ReadEvents`, one `ReadRow`
  per slot (each on a connection of its own, so a checkpoint can be torn), then
  the witnesses one by one (`Accepted`, `ReplyLost`, `Refused`, `Unreachable`);
  and the disk that is snapshotted and put back together with the `Restorable`
  witnesses. Worker, restorable witness and snapshot are all parameters.
* **TwoPhaseSidecar**: the program. Each worker has a place (`pc`) in front of the
  next call that leaves the process; what the method computes in between is part
  of the step before. `Construct..ConstructionFailed` are `__post_init__`,
  `RequestLabels..WriteLabels` are `issue_witness_shares`,
  `RequestSeed..WriteSeed` are `issue_seed_share` with its `except` clause
  (`Abort`, `AbortRefused`, `AbortAnchored`). `Crash` is possible anywhere.
  `chain` is what Core would confirm, buried deep enough.
* **OneShotRelease**: the abstract promise, three actions: slots move (bound once,
  ended once), labels follow the binding, a seed follows success.
* **WitnessLineage**: a history variable with the live log's event hashes, to say
  that the witnesses follow one log.
* **TwoPhaseProgress**: the operator who repeats the command, a bounded number of
  faults, and fairness.
* **ResponseFiles**: `atomic_write_once` as the names it acts on: a name is absent,
  holds the bytes of a response, or foreign bytes. `link` creates or collides;
  other processes publish and collect. The temporary inode is invisible.
* **ConfirmedRelease**: `ParticipantReleaseSidecar.issue` and
  `SplitScalarParticipantReleaseSidecar.issue`. They make the same calls and
  differ in `Handler`: where an exception leads that is raised at a given place.
  `verify_confirmed_bitcoin_binding` is `ReadTransaction` and `ReadHeader`;
  `chain` has the block and its depth, so that a block in between makes the two
  depths differ. Publishing is `InspectOutput`, `PublishOutput`, `OutputExists`,
  `CompareOutput`. It is shown to implement OneShotRelease too, with the whole
  response in the place of the seed.
* **ShareCollection**: the three designs that combine answers (`design`). The
  participants are what the sidecar modules show them to be: a slot bound once,
  ended once, an answer only for its binding. Corrupt ones answer anything they
  can produce (`Forgeable`): garbage, or a second valid signature of one ACK.
  Every call of a coordinator takes any set of answers, which stands for loss,
  delay, duplication and reordering.
* **TimeoutGraph**: the plan of presigned templates, the structural checks of
  `assess` (one operator per role) and its enumeration of terminal traces, as
  operators and a recursive function.
* **TerminalWealth**: `analyze_terminal_wealth_v2` as the step `Analyse`, and then
  what the analysis speaks about: the accepted graph with its bond overlay
  confirms template by template (`Confirm`), in any order the outpoints allow.
  The analysis looks at traces of the plan, the properties at the bonded graph.
* **CeremonyEvidence**: commitments, a chain that grows and reorganises (a block is
  the sequence that ends in it), the certificate and its checks, the observation
  of Core as fifteen reads with a place (`pc`) before each, the attestation, and
  `evaluate_deployment` of one role over any subset of the attestations.
* **AtomicObservation**: the abstract promise of an observation: anchor, beacon,
  depths and best block are read off one chain at one instant.
* **MC\***: symmetry, clock bounds and the instances' data for TLC; MCTerminalWealth
  builds the reference plan of `v026/timeout_economics_reference.py` with small
  values and every plan and policy one or two edits away from it. **\*Proofs**: the TLAPS proofs.

Definitions whose comment starts with *Mutant* are plausible bugs of the code
next to them. They are used by no specification; `PROJECT.json` pairs each
property with one of them that breaks it.

## What TLC checks

| Run | Instance | Shows |
|---|---|---|
| durable_ledger | 2 slots, 2 requests, 5 events, 2 clock values; 203k states | the log and the rows agree (`ChainIntact`, `OneBurnPerSlot`, `LastEventTellsRow`), a conflict before completion poisons for good (`ConflictPoisons`), nothing is reopened (`ConsumedForGood`), the ledger implements SlotLedger |
| quiet_verifier | 2 slots, 2 requests, 4 events; 173k states | replaying the log gives the rows (`LogImpliesRows`), the two rewrites of the docstring are noticed from every reachable ledger (`RewriteIsNoticed`), a verification nobody disturbs accepts (`QuietVerifyAccepts`) |
| busy_verifier | same | **violation**: a writer between two reads makes verification reject an untouched ledger |
| two_phase_rollback | 1 slot, 2 requests, 1 worker, witnesses `w1` (outside) and `w2` (restored with the disk), 2 restores, 5 events; 519k states | `OneBindingReleased`, `ReleasedIsWitnessed` and the refinement to OneShotRelease, under crashes, lost answers and a disk put back twice; no forked log is ever accepted (`AcceptsOnlyExtensions`) |
| two_phase_workers | 1 slot, 2 requests, 2 workers, 1 witness, 6 events; 182k states | the same safety under races, a seed only while the live row is success (`SeedOnlyAfterSuccess`), and the only way witnesses come to refuse the live ledger (`OnlySkippedBurnsAreRefused`) |
| two_phase_reorg | 1 slot, 1 request, 1 worker | **violation**: a reorganisation after the second Core read does not stop the seed |
| two_phase_progress | 2 slots, 1 request, 1 worker, 2 faults, 14 events; 12k states | `LabelsServed`, `SeedServedOrAborted` under fairness |
| confirmed_release | both protocols; 1 slot, 2 requests, 2 workers, 1 witness, 1 file name, 5 events, depth 2; 583k states | `AnswersArePublished`, `PublishedNeverReplaced`, `EndsOnlyWitnessedBurns` and the refinement to OneShotRelease, under races for slot, chain and file name |
| share_collection | 3 participants, t = 2, f = 1 (committee designs: up to 2 corrupt), 2 items, 2 coordinators, 1 crash; 38k states | `OneExecutionPerSlot`, `ResultsFollowHonest`, `OneCapsulePerAlternative`, and `ProvenIsPublished` under fairness |
| terminal_wealth | plans with 1 and 2 alternatives, every single edit, every double rewiring of one template (1 alternative), 3 threshold kinds x 3 bond sizes and single edits of the policy; 8k states | `OnlyExpectedBranches`, `DepositRecovered`, `ValueConserved`, `CoverageHolds` for every confirmation order of whatever was accepted |
| bond_reuse | the policies of terminal_wealth without the restriction to fresh bonds | **violation**: a bond funded by an output of the plan is called adequate |
| ceremony_evidence | 2 participants, 1 verifier, chain of height 3 with 6 blocks, 1 tick, 2 attestations; 426k states | `BoundBeforeBeacon`, `AcceptedIsFresh`, the refinement to AtomicObservation |

Why the bounds are enough. Five events cover the longest chain of distinct
effects on one slot (burn, replay, finalize, conflict, observation) or of two with
their events interleaved; two requests are the original and a conflicting one.
Six events let a request be served to the end with one replay. In
two_phase_rollback the disk is put back twice, so that a second fork may start
from the first, and five events are enough to serve a request and for a fork to
overtake the count the witness holds (one restore with six events was checked
before, same properties, no error). Two slots with
two workers were also checked once (2.35 million states, same properties, no
error); the kept instance has one slot so that it stays quick, and torn
checkpoints over several slots are covered by the proofs. `MaxEvents` also is
the code's own bound: `_u(sequence, 8)` raises past it, and the model raises in
the same places. In two_phase_progress it is large enough never to be reached.

In confirmed_release five events allow burn, observation, success, and the
other worker's replay and conflict in between; two depths are what the two RPC
calls can disagree about; one file name makes workers and strangers collide. In
share_collection three participants with t = 2 and f = 1 are the smallest policy
where a capsule does not need everybody, and where two capsules of one
alternative differ in their signers. Two alternatives are the fewest for which
siblings (returned reserves, returned bonds) exist, and their edits include
every input and output of every template; chains of the graph are at most three
templates long. In ceremony_evidence six blocks of height up to three allow two
complete reorganisations of anchor and beacon or one below the cutoff, with a
third block on top while a certificate is read; TTL 1 and one tick let the clock
pass the lifetime during a read.

Symmetry (requests, workers, nonces) is used in runs without liveness only.
Deadlock is checked where the system never stops. It is off in
two_phase_progress (the operator stops when everything has been served), in
share_collection and ceremony_evidence (everything within the bounds has
happened), and in the two runs of TerminalWealth (nothing more can confirm:
there `Stuck` is the end the properties are about).

terminal_wealth leaves out of its policies those whose bond is an output of the
plan, which bond_reuse shows to be wrongly accepted: everything else the
analysis accepts is right.

**Fairness.** A process that is inside a call takes its next step: the code is
straight-line and every external call has a timeout. The operator repeats the
command while a response file is missing (the sidecar itself never retries), and
asks for a seed only while the chain confirms the transaction. Miners include
it, again after a reorganisation. All of it is weak fairness, and faults are
bounded by `MaxFaults`; no fairness is put on any fault. Conflicting requests
and malformed material are absent from this run: both end a slot on purpose.

In share_collection, rows of locked signatures are public, so a proof is
eventually tried on every row of an honest participant, and a coordinator calls
recover on the signatures it got and adopt on what it recovered. Nothing is
assumed of corrupt participants, of provers or of the chain, and crashes are
bounded.

## What TLAPS proves

Proved for every value of the constants, from the named assumptions on them
only: `SlotCount` positive, the special values distinct from the ordinary ones,
`Restorable` a *proper* subset of the witnesses (the requirement of
`docs/57_V025_DURABLE_AUTHORIZATION.md` that one witness is outside the
participant's rollback domain), at least one witness, the release policy
`f < t <= N - f` that `threshold_signature_release.py` enforces, at least one
confirmation (`minimum_confirmations`) and one destination name, finitely many
approved signers of MPC evidence, and of plans and policies what the constructors
of their dataclasses insist on (`PlansAssumption`: finite tuples, known roles,
amounts that are not negative).

Two kinds of theorem state a further hypothesis. Those about TerminalWealth assume
that no bond is funded by an output of the plan (`FreshBonds`), the restriction the
run has too and the subject of finding 3: the analysis does not check it, and
without it TLC finds each of the four properties violated on the policies of
bond_reuse. `OnlySkippedBurns` assumes `MaxRestores = 0`, as its run does;
`RefusalsNeedARestore` states it for any bound, of the states before the first
restore.

Every safety and action property of a passing run, and every refinement, is proved.

*DurableSlotLedgerProofs*, first part: `LedgerTypeCorrect`, `LedgerTyped`,
`ChainStaysIntact`, `SlotsAreConsumedForGood`, `LedgerImplementsSlotLedger`. The
invariant adds to the types that a row has a binding exactly when it is consumed;
without it a replay could append an event with no binding.

Second part: what the log tells, from `History`, which relates every slot's
row to its events: a slot without events is available; a consumed one was burned
exactly once, before anything else, with the binding its row still has
(`SlotBurnedOnce`); the outcome column repeats a terminal state, so the row can be
told from the last event (`RowFollowsLog`); a conflict recorded after a completion
has the completion before it, so one without has poisoned its slot
(`ConflictsPoison`). A step is taken apart once, into the event it appends
(`StepRecords`), and the three facts follow for any call and any length of the
log.

Third part: the verifier. `_replayed_slot_state` is a fold over the log.
`ReplayAppended` says what one more event does to its result, and with it
`LogTold` is inductive: the replay of the log gives the live rows
(`ReplayTellsRows`). With it goes `HashesTold`, every event has
the hash the walk recomputes for it. From both
`RowsFollowFromLog`; `RewritesAreNoticed`, since a rewritten row differs from the
replay and an empty log replays to no consumed row; and `QuietVerificationAccepts`,
whose invariant says that what an undisturbed verification has read is still what
the tables hold (an operation that appends nothing changes no row).

*AnchoredLedgerProofs*: lemmas the two sidecar proofs share, on what ledger
operations and witnesses keep, how a claim about a row travels in a pass
(`PassKeeps`), and what a witness's row can do (`OfferMoves`).

*TwoPhaseSidecarProofs*: `ReleasedIsWitnessed` is not inductive: it says nothing
of a worker that is about to write. The strengthening `Inv` gives every worker a
**claim**: the row of its slot carries its binding, and success once it is past
finalize. The claim holds in the live ledger while the worker serves the request;
while it anchors, in the checkpoint once the slot's row has been read
(`anchor.read > slot`) and at every witness that has answered; when it writes, at
all of them. Three facts carry it through other workers' steps:

* a ledger operation keeps what a consumed row says (`RowKept`),
* a witness keeps what it accepted (`MonotonicKept`), even when it takes another
  worker's torn or later checkpoint,
* a restore leaves no worker alive with a claim, and does not touch the witnesses
  outside the domain.

From `Inv`: `ReleaseFollowsWitnesses`; `OneBindingPerSlot` (a reliable witness has
one binding per slot); `SeedsFollowSuccess`; and `SidecarImplementsRelease`, the
refinement to OneShotRelease with the rows of one reliable witness as the
abstract slots. There a publishing step maps to `PublishLabels` or `PublishSeed`
by the worker's claim, an accepted checkpoint maps to `SlotsMove` because
`_monotonic` between well-formed rows allows one abstract move per slot, and
everything else, restores included, stutters.

*WitnessLineageProofs*: the two properties that need the past. `Lineage` relates
all parties to one history: the live log passes through the snapshot on disk and
through every checkpoint under way, and each reliable witness **follows** the live
log, or is **ahead** of it after a restore and refuses everything. Only workers past
their bootstrap anchor append, and those serve beside witnesses that follow: a
restored log never outgrows a witness it has forked from
(`WitnessedLogsNeverFork`). `WitnessesBehind` is the other
direction, before the first restore: every checkpoint, sent or stored, is the
**past** of the live ledger, with rows that have become the live ones by the
ledger's own operations. So a witness that refuses the live ledger holds an
available row where the live one is terminal (`RefusalsNeedARestore`,
`OnlySkippedBurns`), for torn checkpoints over any number of slots too.

*ConfirmedReleaseProofs*: the same claims for the two one-call sidecars, of any
number of processes and names. The live row is bound to a worker's request from
begin on and is success from the terminal anchor on. Each of the two passes that
precede a decision carries that row to the witnesses, so behind a pass they
**back** it (`BehindPass`): the second look at Core, finalize and the one-phase
abort are behind the first pass (`OnlyWitnessedBurnsEnd`), inspect, link and
compare behind the second (`ConfirmedImplementsRelease`). The split-scalar abort
is behind none, and that is exactly the case `EndsOnlyWitnessedBurns` leaves out.
`NamesAreWrittenOnce` and `AnswersPublished` need no claim: link is the only step
that writes a name, and a name holds what was published or somebody else's bytes.

*ShareCollectionProofs*: what is executed or published must rest on somebody
honest, but `OneExecutionPerSlot` says nothing about where the answers came from.
The invariant (`AnswersKeepMeaning`) says that an answer of an honest participant
**keeps its meaning**: a row that is success is never changed, a proof is never
taken back, so a response, once sent, speaks about its sender's row for ever. Two
counting facts turn a set of answers into a statement about honest rows: `N`
answers of different senders contain one of every honest participant, and `t`
answers cannot all come from the at most `f < t` corrupt ones (`SomeAnswerHonest`:
the senders would be an injection of the answers into the corrupt set). From it:
`SlotExecutedOnce`, `HonestDecide`, and `CapsuleIsUnique`, for any number of
coordinators, crashes and corrupt participants the policy permits.

*CeremonyEvidenceProofs*: the invariant (`EvidenceStaysSound`) has two parts.
About time: Core's chain is only replaced by a longer one, so a tip that is found
again is a tip that never left; a signer whose last read gives the tip of its first
read has taken every height and depth off that one chain, and its attestation can
be placed at that instant (`AttestationsAreAtomic`, the refinement of
AtomicObservation). About order: a set of commitments is carried only by blocks
mined after it was signed, and what had been mined by then is closed under
ancestors, so it contains no block above one that carries the set: no beacon
(`CeremoniesAreBound`). `EvidenceIsFresh` follows from the times an attestation
carries, and from counting the signers that did not equivocate.

*TerminalWealthProofs*: four properties of the bonded graph, in three layers.

* *Shape* (`GraphStaysChained`). The structural checks imply `Spending`: every
  template has its inputs from the funding or from one template that must come
  first, and the templates that exclude each other share an input. What is unspent
  then is determined by what has confirmed, and `EndsAsExpected` and
  `DepositIsRecovered` are statements about sets of confirmed templates.
* *Value* (`ValueIsConserved`). Sums over finite sets are `SumFunction` of a
  function; the lemmas give the sum of a union, a difference, an image. The
  per-template balance of `assess`, the single creator of every outpoint
  (`OutpointsUnique`) and the overlay, which carries each bond from one template to
  the next exactly once (`OverlayTotals`), make each confirmation conserve value.
* *Wealth* (`AdequateIsAdequate`). The analysis walks the plan without its overlay
  (a recursive function over sets of templates). `WalksAre` says what it computes,
  by induction on the number of templates; `WalkInv` says that the bonded
  graph never leaves those walks, so a graph that is stuck is one of the listed
  traces (`StuckIsTrace`). What a principal holds then is what the trace gives it
  and the bonds that come back or are forfeited to it (`WealthIs`), which is what
  `Covered` compared with the baseline.

*Induction.* The library's induction theorems take an operator, which the installed
provers cannot instantiate. The proofs use the same facts about *sets*:
`NatInductive` (a set of numbers with 0 and successors is `Nat`) and
`SubsetInductive` (a set of subsets of a finite set, closed under adding an element,
has all of them), both from `WFMin`, the existence of minimal elements of a
well-founded relation. Recursive definitions are functions, so that they can be
reasoned about.

Model-checked only: `LabelsServed`, `SeedServedOrAborted` and `ProvenIsPublished`,
which are liveness (fairness and ENABLED are out of the prover's reach), and the
three violations, which are counterexamples.

## What the models found

1. `verify_audit_chain` is four reads without a common transaction. With a
   concurrent worker it can return `False` for an untouched ledger
   (busy_verifier). The command prints that verdict. A verdict given while
   nobody writes is reliable (quiet_verifier).
2. `issue_seed_share` promises that a concurrent reorganisation does not expose
   the seed. It checks Core before and after the *first* anchoring pass, but
   success is finalized and anchored after the last check; a reorganisation in
   that pass goes unnoticed (two_phase_reorg).

3. `analyze_terminal_wealth_v2` compares the outpoints a bond's overlay creates
   with the outputs of the plan, but not the outpoint that funds the bond. A bond
   "funded" by the resolution of its own counterproof is called adequate although
   that counterproof can never confirm (bond_reuse).

And, as a limit of the design rather than a broken promise: when a slot ends
before its burn has been witnessed (a conflicting request between burn and
anchor, or malformed labels), `_monotonic` refuses the step from available to
terminal. The checkpoint covers all slots, so from then on the witnesses refuse
the whole ledger. `OnlySkippedBurnsAreRefused` shows that this is the only way a
two-phase ledger that was never restored gets there.

The two one-call sidecars differ here. When a witness is unreachable right after
the burn, the one-phase sidecar raises and leaves the slot burned; a retry
anchors it and goes on. The split-scalar sidecar's `except` clause aborts it,
available to abort is refused by `_monotonic`, and a passing outage costs the
ledger. `EndsOnlyWitnessedBurns` therefore demands a witnessed burn before an
abort of the one-phase sidecar only; before a success it holds in both.

Other observations, none of them against a promise: a block that arrives between
the two RPC calls of the second Core check aborts a slot nothing is wrong with;
two funding attestations a signer issues while the first is valid count as an
equivocation in `evaluate_deployment`, so a renewal has to wait; under Core's
most-work rule the last six reads of `observe_with_core` add nothing to the
comparison of the two tips.

Conversely, the claim of the documentation that a forked log is not accepted
holds, but not because of the witness alone: the witness sees counts and heads,
not the log. It holds because a restored ledger serves nothing before its
bootstrap anchor (`AcceptsOnlyExtensions`; swallowing the bootstrap error breaks
it).

## Not modelled, and why

Signatures, receipts' generations, transport encryption and canonical encodings
(stateless, and nothing in the modelled code reads a receipt's generation); file
modes and owners; request authentication before the ledger is touched (it leaves
no trace); the depth of burial (`chain` is "confirmed deep enough or not").
In TwoPhaseSidecar
`atomic_write_once` is one step and the two RPC calls of one Core check are one
step; both are taken apart in ConfirmedRelease. ConfirmedRelease has no restored
disk: it uses ledger and witnesses as TwoPhaseSidecar does, where it is examined.

*Validity-first graph, canary observer, setup transcript.* `validity_first_graph.py`
maps an outcome to a branch without any interleaving, and TimeoutGraph models
its successor. `canary_observer.py` is a hash chain with one transaction per call,
a simpler case of DurableSlotLedger. `setup_ceremony.py` assembles a
commit-and-reveal transcript from values it is handed; its order in time is what
CeremonyEvidence is about. *Security game* (`v026/threshold_release_security_game.py`):
arithmetic on the policy, which is `PolicyAssumption` and what share_collection
checks from it. *Timeout economics V1* (declared-policy evaluation) was superseded
by the V2 analysis; codecs, authorities and the 64-bit money range are left out.

*Documents.* What `deployment_policy.py`, `release_qualification.py`,
`proof_suite_registry.py` and the acceptance matrices compare with constants of a
deployment has no state and no order.

*Algebra.* Most of the repository, about ninety files (fields, curves, pairings,
garbling, witness encryption, constraint systems) with their generators, and the
patch set against another repository: functions over large fields, where a
small instance shows nothing about the real one. Two Bitcoin assumptions are
made where the chain is modelled: Core replaces its chain by more work only (no
`invalidateblock`), and the digests are collision-free.

## Plan

Every safety property is proved. What is left:

1. More of the boundary as theorems: `ConfirmedRelease` and `TwoPhaseSidecar`
   compose ledger and witnesses through SlotLedger, and `DurableSlotLedger`
   implements SlotLedger; a theorem that the sidecar over the durable ledger
   implements the sidecar over SlotLedger would join the two proofs.
2. The safety half of the liveness arguments: that a step a fair process owes is
   possible wherever the properties need it, as invariants instead of ENABLED.
3. `TerminalWealth` with a check on the funding outpoint of a bond in the place of
   the hypothesis `FreshBonds`, once the analysis has one.
