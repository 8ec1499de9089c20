--------------------------- MODULE MCTerminalWealth ----------------------------
(***************************************************************************)
(* Small plans and policies for TLC: the reference plan of                 *)
(* v026/timeout_economics_reference.py with small values, and everything   *)
(* one or two edits away from it.                                          *)
(***************************************************************************)
EXTENDS TerminalWealth, TLC

Id(name, a, b) == <<name, a, b>>
Tower(a) == <<"watchtower", a>>
Owner == <<"owner", 0>>
Recovery == <<"recovery", 0>>
Broadcaster == <<"broadcaster", 0>>
Stranger == <<"stranger", 0>>

Alts(k) == 0 .. (k - 1)
C(a) == Id("counterproof-input", a, 0)
F(role) == Id(role, 0, 0)

\* Values that leave every fee room for a dropped or an added input.
Out(i) ==
  CASE i[1] = "deposit" -> Outpoint("deposit", 5, NoAlt, Recovery)
    [] i[1] \in {"claim-payout", "contest-payout", "contest-slash"} -> Outpoint(i[1], 2, NoAlt, NoOne)
    [] i[1] = "stake" -> Outpoint("stake", 12, NoAlt, NoOne)
    [] i[1] = "counterproof-input" -> Outpoint("counterproof-input", 7, i[2], NoOne)
    [] i[1] = "owner-payout" -> Outpoint("beneficiary", 8, NoAlt, Owner)
    [] i[1] = "reserve-return" -> Outpoint("counterproof-reserve-return", 7, i[3], Tower(i[3]))
    [] i[1] = "recovery" -> Outpoint("protected-recovery", 5, i[2], Recovery)
    [] i[1] = "resolution" -> Outpoint("resolution", 3, i[2], NoOne)
    [] i[1] \in {"counterproof-anchor", "ack-anchor"} -> Outpoint("cpfp-anchor", 1, i[2], Tower(i[2]))
    [] i[1] = "slash-authorization" -> Outpoint("slash-authorization", 1, i[2], NoOne)
    [] i[1] = "timeout-anchor" -> Outpoint("cpfp-anchor", 1, i[2], Broadcaster)
    [] i[1] = "slash-header" -> Outpoint("protocol-header", 0, i[2], NoOne)
    [] i[1] = "slash-output" -> Outpoint("beneficiary", 5, i[2], Tower(i[3]))

FundingIds(k) == {F(role) : role \in SingletonRoles} \cup {C(a) : a \in Alts(k)}

Inputs(k, role, a) ==
  CASE role = "owner-payout" -> FundingIds(k) \ {F("stake")}
    [] role = "counterproof" -> {C(b) : b \in Alts(k)} \cup {F("contest-payout"), F("deposit")}
    [] role = "ack" -> {Id("resolution", a, 0)}
    [] role = "timeout" -> {Id("resolution", a, 0), F("contest-slash")}
    [] role = "slash" -> {Id("slash-authorization", a, 0), F("contest-slash"), F("stake")}

Outputs(k, role, a) ==
  CASE role = "owner-payout" ->
         {Id("owner-payout", 0, 0)} \cup {Id("reserve-return", k, b) : b \in Alts(k)}
    [] role = "counterproof" ->
         {Id("recovery", a, 0), Id("resolution", a, 0), Id("counterproof-anchor", a, 0)}
           \cup {Id("reserve-return", a, b) : b \in Alts(k) \ {a}}
    [] role = "ack" -> {Id("slash-authorization", a, 0), Id("ack-anchor", a, 0)}
    [] role = "timeout" -> {Id("timeout-anchor", a, 0)}
    [] role = "slash" -> {Id("slash-header", a, 0)} \cup {Id("slash-output", a, b) : b \in Alts(k)}

Sum(of, ids) == ValueOf([of |-> of], ids)

Fee(of, t) ==
  LET fee == Sum(of, t.inputs) - Sum(of, t.outputs) IN IF fee < 0 THEN t.fee ELSE fee

Balanced(p) == [p EXCEPT !.txs = {[t EXCEPT !.fee = Fee(p.of, t)] : t \in p.txs}]

Bare(k, role, a) ==
  [role |-> role, alt |-> IF role = "owner-payout" THEN NoAlt ELSE a, fee |-> 0,
   inputs |-> Inputs(k, role, a), outputs |-> Outputs(k, role, a)]

ReferencePlan(k) ==
  LET txs == {Bare(k, "owner-payout", 0)} \cup
               {Bare(k, role, a) : role \in AlternativeRoles, a \in Alts(k)}
      ids == FundingIds(k) \cup UNION {t.outputs : t \in txs}
  IN Balanced(
       [funding |-> FundingIds(k), of |-> [i \in ids |-> Out(i)], txs |-> txs,
        owner |-> Owner, recovery |-> Recovery, timeoutCpfp |-> Broadcaster,
        cpfp |-> [a \in Alts(k) |-> Tower(a)], reserve |-> [a \in Alts(k) |-> Tower(a)],
        resolutionValue |-> 3, authorizationValue |-> 1, cpfpValue |-> 1, timeoutCpfpValue |-> 1,
        slashPays |-> [a \in Alts(k) |-> {[to |-> Tower(b), value |-> 5] : b \in Alts(k)}]])

-----------------------------------------------------------------------------
(* Edits of a plan *)

Toggle(S, x) == IF x \in S THEN S \ {x} ELSE S \cup {x}

Swap(p, t, u) == [p EXCEPT !.txs = (@ \ {t}) \cup {u}]

Rewirings(p) ==
  {Swap(p, t, [t EXCEPT !.inputs = Toggle(@, i)]) : t \in p.txs, i \in DOMAIN p.of} \cup
  {Swap(p, t, [t EXCEPT !.outputs = Toggle(@, i)]) : t \in p.txs, i \in DOMAIN p.of}

Edits(p) ==
  Rewirings(p) \cup
  {[p EXCEPT !.of[i].value = @ + d] : i \in DOMAIN p.of, d \in {-1, 1}} \cup
  {[p EXCEPT !.of[i].to = u] : i \in DOMAIN p.of, u \in {Owner, Stranger, NoOne}} \cup
  {[p EXCEPT !.funding = Toggle(@, i)] : i \in DOMAIN p.of} \cup
  {[p EXCEPT !.txs = @ \ {t}] : t \in p.txs}

\* TransactionTemplateV1 and PlannedOutpointV1 refuse empty sides and negative amounts.
Representable(p) ==
  /\ \A t \in p.txs : t.inputs # {} /\ t.outputs # {} /\ t.fee >= 0
  /\ \A i \in DOMAIN p.of : p.of[i].value >= IF p.of[i].role = "protocol-header" THEN 0 ELSE 1

\* An edit that keeps the fees, and the same edit with the fees of the templates
\* it touches recomputed.
Variants(p) ==
  {q \in Edits(p) \cup {Balanced(r) : r \in Edits(p)} : Representable(q)}

\* Two inputs, two outputs, or an input and an output of one template toggled.
RewiredTwice(p) ==
  LET Twice(t) ==
        UNION {{[t EXCEPT !.inputs = Toggle(Toggle(@, i), j)],
                [t EXCEPT !.outputs = Toggle(Toggle(@, i), j)],
                [t EXCEPT !.inputs = Toggle(@, i), !.outputs = Toggle(@, j)]} :
               i \in DOMAIN p.of, j \in DOMAIN p.of}
      Of(t) == {Swap(p, t, [u EXCEPT !.fee = Fee(p.of, u)]) : u \in Twice(t)}
  IN {q \in UNION {Of(t) : t \in p.txs} : Representable(q)}

Plans(k) == {ReferencePlan(k)} \cup Variants(ReferencePlan(k))

-----------------------------------------------------------------------------
(* Policies *)

BondName(a) == Id("bond", a, 0)

Reserve(k, amount, a) ==
  [alt |-> a, bond |-> BondName(a), provider |-> Tower(a), amount |-> amount, binds |-> a,
   to |-> Owner, ownerReturn |-> Id("bond-owner-return", a, 0),
   siblingReturn |-> [b \in Alts(k) \ {a} |-> Id("bond-sibling-return", a, b)],
   ackRefund |-> Id("bond-refund", a, 0), compensation |-> Id("bond-compensation", a, 0)]

Declared(p, threshold, reserves) ==
  LET blank == [reserves |-> reserves, threshold |-> threshold, liabilities |-> Liabilities(p)]
  IN [principals |-> PrincipalRoles(p), endowments |-> Endowments(p, blank),
      liabilities |-> Liabilities(p), statuses |-> Statuses(p, blank),
      allowances |-> Allowances(p), reserves |-> reserves, threshold |-> threshold]

BondPolicy(k) == Declared(ReferencePlan(k), "qualified", {Reserve(k, 9, a) : a \in Alts(k)})
NoBondPolicy(k) == Declared(ReferencePlan(k), "qualified", {})

EditedReserve(k, r, ids) ==
  {[r EXCEPT !.amount = @ + d] : d \in {-1, 1}} \cup
  {[r EXCEPT !.provider = u] : u \in {Owner, Stranger}} \cup
  {[r EXCEPT !.to = u] : u \in {r.provider, Stranger}} \cup
  {[r EXCEPT !.binds = a] : a \in Alts(k)} \cup
  {[r EXCEPT !.siblingReturn = <<>>]} \cup
  {[r EXCEPT !.bond = i] : i \in ids} \cup
  {[r EXCEPT !.ownerReturn = i] : i \in ids} \cup
  {[r EXCEPT !.ackRefund = i] : i \in ids} \cup
  {[r EXCEPT !.compensation = i] : i \in ids}

EditedReserves(k) ==
  LET R == {Reserve(k, 9, a) : a \in Alts(k)}
      ids == DOMAIN ReferencePlan(k).of \cup BondIds([reserves |-> R])
               \cup UNION {Transitions(r) : r \in R}
  IN UNION {{(R \ {r}) \cup {s} : s \in EditedReserve(k, r, ids)} : r \in R}

EditedPolicies(k) ==
  LET p == ReferencePlan(k) IN
  {Declared(p, threshold, {Reserve(k, amount, a) : a \in Alts(k)}) :
     threshold \in {"none", "qualified", "mismatched"}, amount \in {8, 9, 10}} \cup
  {Declared(p, "qualified", R) : R \in EditedReserves(k)} \cup
  {[BondPolicy(k) EXCEPT !.statuses[w].status = s] :
     w \in Worlds(p) \X Principals(p),
     s \in {"protected", "adversarial-by-world-premise", "assumption-failure-world"}} \cup
  {[BondPolicy(k) EXCEPT !.statuses[w].baseline = 0] : w \in Worlds(p) \X Principals(p)} \cup
  {[BondPolicy(k) EXCEPT !.liabilities = @ \ {l}] : l \in Liabilities(p)} \cup
  {[BondPolicy(k) EXCEPT !.allowances[w] = @ + 1] : w \in DOMAIN Allowances(p)}

PlanCases ==
  {[plan |-> p, policy |-> NoBondPolicy(2)] : p \in Plans(2)} \cup
  {[plan |-> p, policy |-> NoBondPolicy(1)] : p \in RewiredTwice(ReferencePlan(1))}

PolicyCases ==
  UNION {{[plan |-> ReferencePlan(k), policy |-> q] : q \in EditedPolicies(k)} : k \in {1, 2}}

FreshCases == PlanCases \cup {c \in PolicyCases : FreshBonds(c)}
=============================================================================
