----------------------------- MODULE TimeoutGraph ------------------------------
(***************************************************************************)
(* The presigned transaction graph of v0.26 and the two questions          *)
(* v026/timeout_economics.py asks about it: is the plan structurally safe  *)
(* (SharedSelectionTimeoutPlanV1.assess), and which maximal sequences of   *)
(* its templates can confirm (_enumerate_terminal_traces).                 *)
(*                                                                         *)
(* An outpoint is an identifier; plan.of gives its role, value, alternative*)
(* and beneficiary.  A beneficiary descriptor (principal, script, control  *)
(* domains) is its principal, and tuples whose order the code fixes are    *)
(* sets: neither decides what can be spent or who is paid.                 *)
(***************************************************************************)
EXTENDS Integers, FiniteSets, FiniteSetsExt

CONSTANTS
  NoAlt,   \* alternative_id = None
  NoOne    \* beneficiary_id = None

FundingRoles ==
  {"deposit", "claim-payout", "contest-payout", "contest-slash", "stake", "counterproof-input"}
SingletonRoles == FundingRoles \ {"counterproof-input"}
AlternativeRoles == {"counterproof", "ack", "timeout", "slash"}
TransactionRoles == {"owner-payout"} \cup AlternativeRoles

Alternatives(p) == DOMAIN p.cpfp

Outpoint(role, value, alt, to) == [role |-> role, value |-> value, alt |-> alt, to |-> to]

Funded(p, role) == {i \in p.funding : p.of[i].role = role}
The(p, role) == CHOOSE i \in Funded(p, role) : TRUE
Counterproofs(p) == Funded(p, "counterproof-input")

Templates(p, role, a) == {t \in p.txs : t.role = role /\ t.alt = a}
Template(p, role, a) == CHOOSE t \in Templates(p, role, a) : TRUE
OutputOf(p, t, role) == CHOOSE i \in t.outputs : p.of[i].role = role

ValueOf(p, ids) == SumFunction([i \in ids |-> p.of[i].value])

\* Mutant: an outpoint may be created twice.
OutpointsIgnored(p) == \A t \in p.txs : t.inputs \subseteq DOMAIN p.of

\* UNKNOWN_OR_DUPLICATE_OUTPOINT does not occur.
OutpointsUnique(p) ==
  /\ \A t \in p.txs : t.outputs \cap p.funding = {} /\ t.inputs \subseteq DOMAIN p.of
  /\ \A t, u \in p.txs : t # u => t.outputs \cap u.outputs = {}

\* VALUE_NOT_CONSERVED does not occur.
TemplatesConserve(p) ==
  \A t \in p.txs : ValueOf(p, t.inputs) = ValueOf(p, t.outputs) + t.fee

\* MALFORMED_RESOURCE_ROSTER does not occur.
ResourceRoster(p) ==
  /\ \A i \in p.funding : p.of[i].role \in FundingRoles
  /\ \A role \in SingletonRoles : Cardinality(Funded(p, role)) = 1
  /\ Alternatives(p) # {}
  /\ {p.of[i].alt : i \in Counterproofs(p)} = Alternatives(p)
  /\ Cardinality(Counterproofs(p)) = Cardinality(Alternatives(p))

\* MALFORMED_TRANSACTION_ROSTER does not occur: one owner payout, and one
\* template of every other role for every alternative.
TransactionRoster(p) ==
  /\ Cardinality({t \in p.txs : t.role = "owner-payout"}) = 1
  /\ \A role \in AlternativeRoles :
       /\ {t.alt : t \in {u \in p.txs : u.role = role}} = Alternatives(p)
       /\ \A a \in Alternatives(p) : Cardinality(Templates(p, role, a)) = 1

\* The outputs are these, each once.
Exactly(p, outputs, expected) ==
  /\ {p.of[i] : i \in outputs} = expected
  /\ Cardinality(outputs) = Cardinality(expected)

\* The reserves of these alternatives go back to who funded them.
ReserveReturns(p, alts) ==
  {Outpoint("counterproof-reserve-return", p.of[i].value, p.of[i].alt, p.reserve[p.of[i].alt]) :
     i \in {j \in Counterproofs(p) : p.of[j].alt \in alts}}

Anchor(p, a) == Outpoint("cpfp-anchor", p.cpfpValue, a, p.cpfp[a])

OwnerPayout(p) ==
  \A t \in p.txs : t.role = "owner-payout" =>
    /\ t.inputs = Counterproofs(p) \cup
         {The(p, role) : role \in {"deposit", "claim-payout", "contest-payout", "contest-slash"}}
    /\ \E i \in t.outputs :
         Exactly(p, t.outputs, {Outpoint("beneficiary", p.of[i].value, NoAlt, p.owner)}
                                 \cup ReserveReturns(p, Alternatives(p)))

\* Mutant: some protected recovery output is enough.
CounterproofAnyRecovery(p, a) ==
  LET t == Template(p, "counterproof", a) IN
  /\ t.inputs = Counterproofs(p) \cup {The(p, "contest-payout"), The(p, "deposit")}
  /\ \E i \in t.outputs :
       Exactly(p, t.outputs,
               {Outpoint("protected-recovery", p.of[i].value, a, p.of[i].to),
                Outpoint("resolution", p.resolutionValue, a, NoOne), Anchor(p, a)}
               \cup ReserveReturns(p, Alternatives(p) \ {a}))

Counterproof(p, a) ==
  LET t == Template(p, "counterproof", a) IN
  /\ t.inputs = Counterproofs(p) \cup {The(p, "contest-payout"), The(p, "deposit")}
  /\ Exactly(p, t.outputs,
             {Outpoint("protected-recovery", p.of[The(p, "deposit")].value, a, p.recovery),
              Outpoint("resolution", p.resolutionValue, a, NoOne), Anchor(p, a)}
             \cup ReserveReturns(p, Alternatives(p) \ {a}))

Resolution(p, a) == OutputOf(p, Template(p, "counterproof", a), "resolution")

\* Mutant: the inputs of the ACK are not compared.
AckFromAnywhere(p, a) ==
  Exactly(p, Template(p, "ack", a).outputs,
          {Outpoint("slash-authorization", p.authorizationValue, a, NoOne), Anchor(p, a)})

Ack(p, a) ==
  LET t == Template(p, "ack", a) IN
  /\ t.inputs = {Resolution(p, a)}
  /\ Exactly(p, t.outputs,
             {Outpoint("slash-authorization", p.authorizationValue, a, NoOne), Anchor(p, a)})

\* The anchor, and at most one change output to the recovery beneficiary.
Timeout(p, a) ==
  LET t == Template(p, "timeout", a)
      anchor == Outpoint("cpfp-anchor", p.timeoutCpfpValue, a, p.timeoutCpfp) IN
  /\ t.inputs = {Resolution(p, a), The(p, "contest-slash")}
  /\ \/ Exactly(p, t.outputs, {anchor})
     \/ \E i \in t.outputs :
          Exactly(p, t.outputs,
                  {anchor, Outpoint("protected-recovery", p.of[i].value, a, p.recovery)})

Slash(p, a) ==
  LET t == Template(p, "slash", a) IN
  /\ t.inputs = {OutputOf(p, Template(p, "ack", a), "slash-authorization"),
                 The(p, "contest-slash"), The(p, "stake")}
  /\ Exactly(p, t.outputs,
             {Outpoint("protocol-header", 0, a, NoOne)} \cup
             {Outpoint("beneficiary", x.value, a, x.to) : x \in p.slashPays[a]})

\* assess() reports no structural blocker.  The reserve blocker can only come
\* with one of these: a graph that returns every reserve abandons nothing.
NoStructuralBlocker(p) ==
  /\ OutpointsUnique(p)
  /\ TemplatesConserve(p)
  /\ ResourceRoster(p)
  /\ TransactionRoster(p)
  /\ p.of[The(p, "deposit")].to = p.recovery
  /\ OwnerPayout(p)
  /\ \A a \in Alternatives(p) : Counterproof(p, a) /\ Ack(p, a) /\ Timeout(p, a) /\ Slash(p, a)

-----------------------------------------------------------------------------
(* Confirming templates *)

After(unspent, t) == (unspent \ t.inputs) \cup t.outputs
Enabled(t, done, unspent) == t \notin done /\ t.inputs \subseteq unspent

Roles(done) == {t.role : t \in done}

\* _enumerate_terminal_traces: the walks of n confirmations, then those that
\* cannot be continued.
Walks(p, n) ==
  LET walk[k \in 0 .. n] ==
        IF k = 0 THEN {[done |-> {}, live |-> p.funding]}
        ELSE UNION {{[done |-> s.done \cup {t}, live |-> After(s.live, t)] :
                       t \in {u \in p.txs : Enabled(u, s.done, s.live)}} : s \in walk[k - 1]}
  IN UNION {walk[k] : k \in 0 .. n}

Traces(p) ==
  {s \in Walks(p, Cardinality(p.txs)) : \A t \in p.txs : ~ Enabled(t, s.done, s.live)}

\* _terminal_trace_from_state: the branch a set of confirmed templates stands for.
Branch(done) ==
  LET alts == {t.alt : t \in done} IN
  CASE Cardinality(done) = 1 /\ Roles(done) = {"owner-payout"} -> "owner-payout"
    [] /\ Cardinality(done) = 2 /\ Roles(done) = {"counterproof", "timeout"}
       /\ Cardinality(alts) = 1 -> "timeout"
    [] /\ Cardinality(done) = 3 /\ Roles(done) = {"counterproof", "ack", "slash"}
       /\ Cardinality(alts) = 1 -> "ack-slash"
    [] OTHER -> "unexpected"

Selected(done) == {t.alt : t \in {u \in done : u.role \in AlternativeRoles}}

\* _terminal_branch_for_world.
BranchForWorld(w) ==
  CASE w = "no-counterproof" -> "owner-payout"
    [] w = "valid-released" -> "ack-slash"
    [] OTHER -> "timeout"

Worlds(p) ==
  {<<"no-counterproof", NoAlt>>} \cup
  ({"valid-released", "valid-release-withheld", "invalid-release-absent"} \X Alternatives(p))

\* The worlds a maximal trace with this branch and selection stands for.
WorldsOf(p, done) ==
  {w \in Worlds(p) : /\ BranchForWorld(w[1]) = Branch(done)
                     /\ w[2] \in IF Selected(done) = {} THEN {NoAlt} ELSE Selected(done)}

=============================================================================
