---------------------------- MODULE TerminalWealth -----------------------------
(***************************************************************************)
(* analyze_terminal_wealth_v2 of v026/timeout_economics.py and the graph   *)
(* it speaks about.  A policy declares who funds what, what every          *)
(* principal is owed in every semantic world, and one bond per alternative *)
(* that an overlay adds to the presigned templates.  The analysis accepts  *)
(* the policy from the plan's traces alone; here the templates with their  *)
(* overlay then confirm one by one, in any order the outpoints allow, and  *)
(* what every principal holds at the end is compared with the promise.     *)
(*                                                                         *)
(* A world is the pair of its name and the selected alternative.  Digests, *)
(* authorities and the aggregate money range are left out.                 *)
(***************************************************************************)
EXTENDS TimeoutGraph

CONSTANTS
  Cases   \* what may be analysed: records [plan, policy]

\* What the constructors of PlannedOutpointV1, TransactionTemplateV1 and
\* CoverageReserveV2 insist on: tuples are finite, a role is one of
\* TransactionRoleV1, an output is an outpoint, amounts are not negative.
ASSUME PlansAssumption ==
  \A c \in Cases :
    /\ IsFiniteSet(c.plan.funding)
    /\ IsFiniteSet(c.plan.txs)
    /\ \A t \in c.plan.txs : /\ t.role \in TransactionRoles /\ t.fee \in Nat
                            /\ IsFiniteSet(t.inputs) /\ IsFiniteSet(t.outputs)
                            /\ t.outputs \subseteq DOMAIN c.plan.of
    /\ c.plan.funding \subseteq DOMAIN c.plan.of
    /\ \A i \in DOMAIN c.plan.of : c.plan.of[i].value \in Nat
    /\ IsFiniteSet(c.policy.reserves)
    /\ \A r \in c.policy.reserves : r.amount \in Nat

VARIABLES
  case,       \* the case under analysis
  verdict,    \* "unknown", then what the analysis returned
  confirmed,  \* templates confirmed so far
  live        \* unspent outpoints

vars == <<case, verdict, confirmed, live>>

Plan == case.plan
Policy == case.policy

-----------------------------------------------------------------------------
(* What the analysis expects of a policy *)

Principals(p) == {p.owner, p.recovery, p.timeoutCpfp} \cup {p.reserve[a] : a \in Alternatives(p)}

PrincipalRoles(p) ==
  [u \in Principals(p) |->
     CASE u = p.owner -> "fronting-operator"
       [] u = p.recovery -> "recovery-depositor"
       [] u = p.timeoutCpfp -> "timeout-broadcaster"
       [] OTHER -> "counterprover"]

FundingOwner(p, i) ==
  CASE p.of[i].role = "deposit" -> p.recovery
    [] p.of[i].role = "counterproof-input" -> p.reserve[p.of[i].alt]
    [] OTHER -> p.owner

BondIds(q) == {r.bond : r \in q.reserves}
ReserveOf(q, a) == CHOOSE r \in q.reserves : r.alt = a
BondReserve(q, i) == CHOOSE r \in q.reserves : r.bond = i

Endowments(p, q) ==
  [i \in p.funding \cup BondIds(q) |->
     IF i \in BondIds(q)
     THEN [who |-> BondReserve(q, i).provider, value |-> BondReserve(q, i).amount,
           bondOf |-> BondReserve(q, i).alt]
     ELSE [who |-> FundingOwner(p, i), value |-> p.of[i].value, bondOf |-> NoAlt]]

DepositValue(p) == p.of[The(p, "deposit")].value

\* The deposit is owed to the operator: by the depositor when nobody contests,
\* by the counterprover when the counterproof was invalid.
Liabilities(p) ==
  {[world |-> <<"no-counterproof", NoAlt>>, debtor |-> p.recovery,
    creditor |-> p.owner, value |-> DepositValue(p)]} \cup
  {[world |-> <<"invalid-release-absent", a>>, debtor |-> p.reserve[a],
    creditor |-> p.owner, value |-> DepositValue(p)] : a \in Alternatives(p)}

Total(S) == SumFunction([x \in S |-> x.value])
Amount(reserves) == SumFunction([r \in reserves |-> r.amount])

Endowed(p, q, u) ==
  LET endowments == Endowments(p, q) IN
  SumFunction([i \in {j \in DOMAIN endowments : endowments[j].who = u} |-> endowments[i].value])

Baseline(p, q, w, u) ==
  Max({0, Endowed(p, q, u)
            + Total({l \in q.liabilities : l.world = w /\ l.creditor = u})
            - Total({l \in q.liabilities : l.world = w /\ l.debtor = u})})

ThresholdQualified(q) == q.threshold = "qualified"

Status(p, q, w, u) ==
  CASE w[1] = "valid-release-withheld" /\ ThresholdQualified(q) -> "assumption-failure-world"
    [] \/ w[1] = "valid-released" /\ u = p.owner
       \/ w[1] = "invalid-release-absent" /\ u = p.reserve[w[2]] -> "adversarial-by-world-premise"
    [] OTHER -> "protected"

Statuses(p, q) ==
  [k \in Worlds(p) \X Principals(p) |->
     [status |-> Status(p, q, k[1], k[2]), baseline |-> Baseline(p, q, k[1], k[2])]]

OwnerTemplate(p) == Template(p, "owner-payout", NoAlt)
FrontingCost(p) == p.of[The(p, "contest-payout")].value + p.of[The(p, "contest-slash")].value

\* What a principal may lose without being short: the fee of the uncontested
\* payout, and the fronting cost of an invalid counterproof.
Allowances(p) ==
  [k \in {<<<<"no-counterproof", NoAlt>>, p.owner>>} \cup
         {<<<<"invalid-release-absent", a>>, p.owner>> : a \in Alternatives(p)} |->
     IF k[1][1] = "no-counterproof" THEN OwnerTemplate(p).fee ELSE FrontingCost(p)]

AuthorizedCost(p, w, u) ==
  IF <<w, u>> \in DOMAIN Allowances(p) THEN Allowances(p)[<<w, u>>] ELSE 0

RostersMatch(p, q) ==
  /\ q.principals = PrincipalRoles(p)
  /\ q.endowments = Endowments(p, q)
  /\ q.liabilities = Liabilities(p)
  /\ q.statuses = Statuses(p, q)
  /\ q.allowances = Allowances(p)
  /\ q.threshold # "mismatched"

-----------------------------------------------------------------------------
(* The bond overlay *)

\* The outpoints a reserve's overlay creates, as the list transition_ids.
Transitions(r) ==
  {r.ownerReturn, r.ackRefund, r.compensation} \cup
  {r.siblingReturn[b] : b \in DOMAIN r.siblingReturn}

\* The list transition_ids has no duplicates.
TransitionsDistinct(q) ==
  /\ \A r \in q.reserves :
       /\ r.ownerReturn # r.ackRefund /\ r.ownerReturn # r.compensation
       /\ r.ackRefund # r.compensation
       /\ IsInjective(r.siblingReturn)
       /\ Range(r.siblingReturn) \cap {r.ownerReturn, r.ackRefund, r.compensation} = {}
  /\ \A r, s \in q.reserves : r # s => Transitions(r) \cap Transitions(s) = {}

PlanOutputs(p) == UNION {t.outputs : t \in p.txs}

\* Every alternative has its reserve, tied to its own templates; bonds are not
\* shared; no overlay outpoint collides with another, a bond, or the plan.
ReservesFit(p, q) ==
  /\ {r.alt : r \in q.reserves} = Alternatives(p)
  /\ \A r, s \in q.reserves : r.alt = s.alt \/ r.bond = s.bond => r = s
  /\ \A r \in q.reserves :
       /\ r.bond \notin p.funding /\ Templates(p, "owner-payout", NoAlt) # {}
       /\ r.provider = p.reserve[r.alt] /\ r.binds = r.alt /\ r.to = p.owner
       /\ DOMAIN r.siblingReturn = Alternatives(p) \ {r.alt}
       /\ Transitions(r) \cap (p.funding \cup BondIds(q) \cup PlanOutputs(p)) = {}
  /\ TransitionsDistinct(q)

\* What the analysis credits to a principal at the end of a trace.
TraceWealth(p, q, s, w, u) ==
  LET endowments == Endowments(p, q)
      paid(i) == IF i \in DOMAIN endowments THEN endowments[i].who ELSE p.of[i].to
      returned(r) == w[2] # r.alt \/ w[1] \in {"no-counterproof", "valid-released"}
  IN ValueOf(p, {i \in s.live : paid(i) = u})
     + Amount({r \in q.reserves : u = IF returned(r) THEN r.provider ELSE r.to})

TraceFor(p, w) ==
  CHOOSE s \in Traces(p) : w \in WorldsOf(p, s.done)

\* Mutant: the size of the reserves is checked, and nobody's wealth.
CoveredByReserveOnly(p, q) ==
  \A a \in Alternatives(p) : ReserveOf(q, a).amount >= DepositValue(p) + FrontingCost(p)

\* No protected principal is short in its world, and every reserve covers the
\* deposit and the fronting cost.
Covered(p, q) ==
  /\ \A w \in Worlds(p) :
       LET s == TraceFor(p, w) IN
       \A u \in Principals(p) :
         Status(p, q, w, u) = "protected" =>
           Baseline(p, q, w, u) <= TraceWealth(p, q, s, w, u) + AuthorizedCost(p, w, u)
  /\ \A a \in Alternatives(p) : ReserveOf(q, a).amount >= DepositValue(p) + FrontingCost(p)

\* analyze_terminal_wealth_v2.
Verdict(p, q) ==
  CASE ~ NoStructuralBlocker(p) -> "structure"
    [] NoStructuralBlocker(p) /\ ~ (RostersMatch(p, q) /\ ReservesFit(p, q) /\ Covered(p, q))
         -> "infeasible"
    [] OTHER -> "adequate"

-----------------------------------------------------------------------------
(* The graph with the overlay *)

BondedInputs(q, t) ==
  t.inputs \cup IF t.role \in {"owner-payout", "counterproof"} THEN BondIds(q) ELSE {}

BondedOutputs(q, t) ==
  t.outputs \cup
  CASE t.role = "owner-payout" -> {r.ownerReturn : r \in q.reserves}
    [] t.role = "counterproof" ->
         {r.siblingReturn[t.alt] : r \in {s \in q.reserves : t.alt \in DOMAIN s.siblingReturn}}
    [] t.role = "ack" -> {r.ackRefund : r \in {s \in q.reserves : s.binds = t.alt}}
    [] t.role = "timeout" -> {r.compensation : r \in {s \in q.reserves : s.binds = t.alt}}
    [] OTHER -> {}

\* Every bond is an outpoint of its own: no template of the plan creates it.
FreshBonds(c) == BondIds(c.policy) \cap PlanOutputs(c.plan) = {}

Overlay(q) == UNION {Transitions(r) : r \in q.reserves}
OverlayReserve(q, i) == CHOOSE r \in q.reserves : i \in Transitions(r)

\* The bonded resolution carries the selected bond.
BondedValue(p, q, i) ==
  IF i \in BondIds(q) THEN BondReserve(q, i).amount
  ELSE IF i \in Overlay(q) THEN OverlayReserve(q, i).amount
  ELSE p.of[i].value +
       IF p.of[i].role = "resolution"
       THEN Amount({r \in q.reserves : r.binds = p.of[i].alt})
       ELSE 0

Payee(p, q, i) ==
  IF i \in BondIds(q) THEN BondReserve(q, i).provider
  ELSE IF i \in Overlay(q)
  THEN LET r == OverlayReserve(q, i) IN IF i = r.compensation THEN r.to ELSE r.provider
  ELSE IF i \in p.funding THEN FundingOwner(p, i) ELSE p.of[i].to

TotalValue(p, q, ids) == SumFunction([i \in ids |-> BondedValue(p, q, i)])
Fees(txs) == SumFunction([t \in txs |-> t.fee])
Holds(p, q, u, ids) == TotalValue(p, q, {i \in ids : Payee(p, q, i) = u})

-----------------------------------------------------------------------------
Init ==
  /\ case \in Cases
  /\ verdict = "unknown"
  /\ confirmed = {}
  /\ live = {}

Analyse ==
  /\ verdict = "unknown"
  /\ verdict' = Verdict(Plan, Policy)
  /\ live' = Plan.funding \cup BondIds(Policy)
  /\ UNCHANGED <<case, confirmed>>

\* A graph is built from a plan without structural blockers: bare, or with an
\* overlay the analysis accepted.
Built ==
  \/ verdict = "adequate"
  \/ verdict = "infeasible" /\ Policy.reserves = {}

\* Any template whose inputs are unspent confirms.
Confirm(t) ==
  /\ Built
  /\ t \notin confirmed
  /\ BondedInputs(Policy, t) \subseteq live
  /\ live' = (live \ BondedInputs(Policy, t)) \cup BondedOutputs(Policy, t)
  /\ confirmed' = confirmed \cup {t}
  /\ UNCHANGED <<case, verdict>>

Next == Analyse \/ \E t \in Plan.txs : Confirm(t)

Spec == Init /\ [][Next]_vars

-----------------------------------------------------------------------------
Stuck == \A t \in Plan.txs : t \notin confirmed => ~ BondedInputs(Policy, t) \subseteq live

(***************************************************************************)
(* The structural checks are enough: whatever order the templates of an    *)
(* accepted graph confirm in, the graph ends in the owner payout, or in the *)
(* timeout or the slash of one alternative, and never anywhere else.       *)
(***************************************************************************)
OnlyExpectedBranches ==
  Built /\ Stuck => Branch(confirmed) # "unexpected"

(***************************************************************************)
(* A counterproof hands the exact deposit to the recovery beneficiary and  *)
(* nothing later takes it; the slash comes after its ACK and never with a  *)
(* timeout.                                                                *)
(***************************************************************************)
DepositRecovered ==
  Built =>
    /\ "counterproof" \in Roles(confirmed) =>
         \E i \in live : /\ i \in DOMAIN Plan.of
                         /\ Plan.of[i].value = DepositValue(Plan)
                         /\ Plan.of[i].to = Plan.recovery
    /\ "slash" \in Roles(confirmed) =>
         "ack" \in Roles(confirmed) /\ "timeout" \notin Roles(confirmed)

(***************************************************************************)
(* Nothing is lost or created: what is unspent and the fees paid are what  *)
(* was funded, the bonds of an adequate overlay included.                  *)
(***************************************************************************)
ValueConserved ==
  Built =>
    TotalValue(Plan, Policy, live) + Fees(confirmed)
      = TotalValue(Plan, Policy, Plan.funding \cup BondIds(Policy))

(***************************************************************************)
(* Adequate means adequate: at the end of every run of the bonded graph,   *)
(* in every world that ends there (a withheld and an absent release look   *)
(* the same), each protected principal holds what it is owed, up to the    *)
(* cost it was told.                                                       *)
(***************************************************************************)
CoverageHolds ==
  verdict = "adequate" /\ Stuck =>
    /\ WorldsOf(Plan, confirmed) # {}
    /\ \A w \in WorldsOf(Plan, confirmed), u \in Principals(Plan) :
         Policy.statuses[<<w, u>>].status = "protected" =>
           Policy.statuses[<<w, u>>].baseline
             <= Holds(Plan, Policy, u, live) + AuthorizedCost(Plan, w, u)

(***************************************************************************)
(* The overlay of an adequate policy can be built: no outpoint it spends   *)
(* is one that a template of the plan itself creates.                      *)
(***************************************************************************)
BondsAreFunded ==
  verdict = "adequate" => \A t \in Plan.txs : BondIds(Policy) \cap t.outputs = {}
=============================================================================
