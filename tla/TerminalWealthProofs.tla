------------------------- MODULE TerminalWealthProofs -------------------------
(***************************************************************************)
(* Proofs about the timeout graph and its terminal wealth analysis, for    *)
(* every roster of plans and reserves: the confirmed templates form one of *)
(* the listed traces, value is conserved, the deposit is recovered, and an *)
(* adequate plan with adequate reserves covers its threshold on chain.     *)
(***************************************************************************)
EXTENDS TerminalWealth, FiniteSetTheorems, WellFoundedInduction, TLAPS

(***************************************************************************)
(* Sums over finite sets                                                   *)
(***************************************************************************)

\* Induction on the natural numbers, as a fact about sets.
LEMMA NatInductive ==
  ASSUME NEW T \in SUBSET Nat, 0 \in T, \A n \in T : n + 1 \in T
  PROVE  T = Nat
<1> SUFFICES ASSUME Nat \ T # {} PROVE FALSE
  OBVIOUS
<1>1. PICK rel : rel = OpToRel(<, Nat)
  BY Zenon
<1>2. IsWellFoundedOn(rel, Nat)
  BY <1>1, NatLessThanWellFounded, Zenon
<1>3. PICK x \in Nat \ T : \A y \in Nat \ T : ~ (<<y, x>> \in rel)
  BY <1>2, WFMin, Zenon
<1>4. x # 0 /\ x - 1 \in Nat \ T /\ x - 1 < x
  BY <1>3
<1>5. rel = {pair \in Nat \X Nat : pair[1] < pair[2]}
  BY <1>1, Zenon DEF OpToRel
<1>6. <<x - 1, x>> \in rel
  BY <1>4, <1>5
<1> QED
  BY <1>3, <1>4, <1>6

\* Induction on the subsets of a finite set.
LEMMA SubsetInductive ==
  ASSUME NEW U, IsFiniteSet(U), NEW T \in SUBSET (SUBSET U), {} \in T,
         \A S \in T : \A x \in U \ S : S \cup {x} \in T
  PROVE  T = SUBSET U
<1> DEFINE Small(n) == \A S \in SUBSET U : Cardinality(S) = n => S \in T
<1>0. \A S \in SUBSET U : IsFiniteSet(S) /\ Cardinality(S) \in Nat
  BY FS_Subset, FS_CardinalityType
<1>1. PICK N : N = {n \in Nat : Small(n)}
  OBVIOUS
<1>2. 0 \in N
  BY <1>0, <1>1, FS_EmptySet
<1>3. ASSUME NEW n \in N PROVE n + 1 \in N
  <2>1. n \in Nat /\ Small(n)
    BY <1>1, <1>3
  <2>2. ASSUME NEW S \in SUBSET U, Cardinality(S) = n + 1 PROVE S \in T
    <3>1. IsFiniteSet(S)
      BY <1>0
    <3>2. S # {}
      BY <2>1, <2>2, FS_EmptySet
    <3>3. PICK x : x \in S
      BY <3>2
    <3>4. Cardinality(S \ {x}) = n
      <4>1. Cardinality(S \ {x}) = IF x \in S THEN Cardinality(S) - 1 ELSE Cardinality(S)
        BY <3>1, FS_RemoveElement
      <4> QED
        BY <2>1, <2>2, <3>3, <4>1
    <3>5. S \ {x} \in T
      BY <2>1, <3>4
    <3>6. S = (S \ {x}) \cup {x} /\ x \in U \ (S \ {x})
      BY <3>3
    <3> QED
      BY <3>5, <3>6
  <2> QED
    BY <1>1, <2>1, <2>2
<1>4. N = Nat
  <2>1. N \in SUBSET Nat
    BY <1>1
  <2> HIDE DEF Small
  <2> QED
    BY <1>2, <1>3, <2>1, NatInductive
<1> QED
  BY <1>0, <1>1, <1>4

\* g sums the values of f over the subsets of U.
Sums(f, U, g) ==
  /\ g \in [SUBSET U -> Int]
  /\ g[{}] = 0
  /\ \A S \in SUBSET U : \A x \in S : g[S] = f[x] + g[S \ {x}]

LEMMA SumsExist ==
  ASSUME NEW U, IsFiniteSet(U), NEW f, \A x \in U : f[x] \in Int
  PROVE  \E g : Sums(f, U, g)
<1>1. PICK T : T = {S \in SUBSET U : \E g : Sums(f, S, g)}
  OBVIOUS
<1>2. {} \in T
  <2>1. PICK g : g = [S \in SUBSET {} |-> 0]
    OBVIOUS
  <2>2. Sums(f, {}, g)
    BY <2>1 DEF Sums
  <2> QED
    BY <1>1, <2>2
<1>3. ASSUME NEW V \in T, NEW y \in U \ V PROVE V \cup {y} \in T
  <2>1. PICK g : Sums(f, V, g)
    BY <1>1, <1>3
  <2>2. PICK h : h = [S \in SUBSET (V \cup {y}) |-> IF y \in S THEN f[y] + g[S \ {y}] ELSE g[S]]
    OBVIOUS
  <2>3. ASSUME NEW S \in SUBSET (V \cup {y})
        PROVE  S \ {y} \in SUBSET V /\ (y \notin S => S \in SUBSET V)
    OBVIOUS
  <2>4. h \in [SUBSET (V \cup {y}) -> Int] /\ h[{}] = 0
    BY <1>3, <2>1, <2>2, <2>3 DEF Sums
  <2>5. ASSUME NEW S \in SUBSET (V \cup {y}), NEW x \in S PROVE h[S] = f[x] + h[S \ {x}]
    <3>1. S \ {x} \in SUBSET (V \cup {y})
      OBVIOUS
    <3>2. CASE x = y
      BY <2>2, <3>1, <3>2
    <3>3. CASE x # y /\ y \notin S
      <4>1. S \in SUBSET V /\ h[S] = g[S] /\ h[S \ {x}] = g[S \ {x}]
        BY <2>2, <3>1, <3>3
      <4> QED
        BY <2>1, <4>1 DEF Sums
    <3>4. CASE x # y /\ y \in S
      <4>1. h[S] = f[y] + g[S \ {y}] /\ h[S \ {x}] = f[y] + g[(S \ {x}) \ {y}]
        BY <2>2, <3>1, <3>4
      <4>2. (S \ {x}) \ {y} = (S \ {y}) \ {x}
        OBVIOUS
      <4>3. PICK R \in SUBSET V : R = S \ {y} /\ x \in R
        BY <3>4
      <4>6. h[S] = f[y] + g[R] /\ h[S \ {x}] = f[y] + g[R \ {x}]
        BY <4>1, <4>2, <4>3
      <4>4. g[R] = f[x] + g[R \ {x}]
        BY <2>1, <4>3 DEF Sums
      <4>5. f[x] \in Int /\ f[y] \in Int /\ R \ {x} \in SUBSET V /\ g[R \ {x}] \in Int
        BY <1>1, <1>3, <2>1, <4>3 DEF Sums
      <4> QED
        BY <4>4, <4>5, <4>6
    <3> QED
      BY <3>2, <3>3, <3>4
  <2>6. Sums(f, V \cup {y}, h)
    BY <2>4, <2>5 DEF Sums
  <2> QED
    BY <1>1, <1>3, <2>6
<1>4. T = SUBSET U
  <2>1. T \in SUBSET (SUBSET U)
    BY <1>1
  <2> QED
    BY <1>2, <1>3, <2>1, SubsetInductive
<1> QED
  BY <1>1, <1>4

\* SumFunctionOnSet is what the recursion in its definition says.
LEMMA SumIs ==
  ASSUME NEW U, IsFiniteSet(U), NEW f, NEW g, Sums(f, U, g)
  PROVE  SumFunctionOnSet(f, U) = g[U]
<1> DEFINE Step(it) == [s \in SUBSET U |->
              IF s = {} THEN 0
              ELSE f[CHOOSE x \in s : TRUE] + it[s \ {CHOOSE x \in s : TRUE}]]
           Iter(it) == it = Step(it)
<1>1. Iter(g)
  <2>1. ASSUME NEW s \in SUBSET U
        PROVE  g[s] = IF s = {} THEN 0
                      ELSE f[CHOOSE x \in s : TRUE] + g[s \ {CHOOSE x \in s : TRUE}]
    <3>1. CASE s = {}
      BY <3>1 DEF Sums
    <3>2. CASE s # {}
      <4>1. (CHOOSE x \in s : TRUE) \in s
        BY <3>2
      <4>2. PICK c : c = CHOOSE x \in s : TRUE
        OBVIOUS
      <4>3. g[s] = f[c] + g[s \ {c}]
        BY <4>1, <4>2 DEF Sums
      <4> QED
        BY <3>2, <4>2, <4>3
    <3> QED
      BY <3>1, <3>2
  <2> QED
    BY <2>1 DEF Sums
<1>2. PICK it : it = CHOOSE i : Iter(i)
  OBVIOUS
<1>3. Iter(it)
  <2> HIDE DEF Iter
  <2> QED
    BY <1>1, <1>2
<1>4. SumFunctionOnSet(f, U) = it[U]
  BY <1>2 DEF SumFunctionOnSet, FoldFunctionOnSet, MapThenFoldSet
<1> DEFINE Agree(n) == \A s \in SUBSET U : Cardinality(s) = n => it[s] = g[s]
<1>0. \A s \in SUBSET U : IsFiniteSet(s) /\ Cardinality(s) \in Nat
  BY FS_Subset, FS_CardinalityType
<1>5. PICK N : N = {n \in Nat : Agree(n)}
  OBVIOUS
<1>6. 0 \in N
  <2>1. ASSUME NEW s \in SUBSET U, Cardinality(s) = 0 PROVE it[s] = g[s]
    <3>1. s = {}
      BY <1>0, <2>1, FS_EmptySet
    <3> QED
      BY <1>1, <1>3, <3>1
  <2> QED
    BY <1>5, <2>1
<1>7. ASSUME NEW n \in N PROVE n + 1 \in N
  <2>1. n \in Nat /\ Agree(n)
    BY <1>5, <1>7
  <2>2. ASSUME NEW s \in SUBSET U, Cardinality(s) = n + 1 PROVE it[s] = g[s]
    <3>1. s # {}
      BY <2>1, <2>2, FS_EmptySet
    <3>2. PICK c : c = CHOOSE x \in s : TRUE
      OBVIOUS
    <3>3. c \in s
      BY <3>1, <3>2
    <3>4. Cardinality(s \ {c}) = n
      <4>1. Cardinality(s \ {c}) = IF c \in s THEN Cardinality(s) - 1 ELSE Cardinality(s)
        BY <1>0, FS_RemoveElement
      <4> QED
        BY <2>1, <2>2, <3>3, <4>1
    <3>5. it[s \ {c}] = g[s \ {c}]
      BY <2>1, <3>4
    <3>6. it[s] = f[c] + it[s \ {c}] /\ g[s] = f[c] + g[s \ {c}]
      BY <1>1, <1>3, <3>1, <3>2
    <3> QED
      BY <3>5, <3>6
  <2> QED
    BY <1>5, <2>1, <2>2
<1>8. N = Nat
  <2>1. N \in SUBSET Nat
    BY <1>5
  <2> HIDE DEF Agree
  <2> QED
    BY <1>6, <1>7, <2>1, NatInductive
<1>9. Agree(Cardinality(U)) /\ U \in SUBSET U
  BY <1>0, <1>5, <1>8
<1> QED
  BY <1>4, <1>9

LEMMA SumsOf ==
  ASSUME NEW U, IsFiniteSet(U), NEW f, \A x \in U : f[x] \in Int
  PROVE  \E g : Sums(f, U, g) /\ \A S \in SUBSET U : SumFunctionOnSet(f, S) = g[S]
<1>1. PICK g : Sums(f, U, g)
  BY SumsExist
<1>2. ASSUME NEW S \in SUBSET U PROVE SumFunctionOnSet(f, S) = g[S]
  <2>1. PICK h : h = [R \in SUBSET S |-> g[R]]
    OBVIOUS
  <2>2. \A R \in SUBSET S : R \in SUBSET U /\ h[R] = g[R] /\ \A x \in R : h[R \ {x}] = g[R \ {x}]
    BY <2>1
  <2>3. Sums(f, S, h)
    BY <1>1, <2>1, <2>2 DEF Sums
  <2>4. IsFiniteSet(S)
    BY FS_Subset
  <2> QED
    BY <2>2, <2>3, <2>4, SumIs
<1> QED
  BY <1>1, <1>2

LEMMA SumType ==
  ASSUME NEW S, IsFiniteSet(S), NEW f, \A x \in S : f[x] \in Int
  PROVE  SumFunctionOnSet(f, S) \in Int /\ SumFunctionOnSet(f, {}) = 0
<1>1. PICK g : Sums(f, S, g) /\ \A R \in SUBSET S : SumFunctionOnSet(f, R) = g[R]
  BY SumsOf
<1> QED
  BY <1>1 DEF Sums

\* Only the values on the set count.
LEMMA SumAgree ==
  ASSUME NEW S, IsFiniteSet(S), NEW f, NEW h, \A x \in S : f[x] \in Int /\ h[x] = f[x]
  PROVE  SumFunctionOnSet(h, S) = SumFunctionOnSet(f, S)
<1>1. PICK g : Sums(f, S, g) /\ \A R \in SUBSET S : SumFunctionOnSet(f, R) = g[R]
  BY SumsOf
<1>2. Sums(h, S, g)
  BY <1>1 DEF Sums
<1>3. SumFunctionOnSet(h, S) = g[S]
  BY <1>2, SumIs
<1> QED
  BY <1>1, <1>3

LEMMA SumOfFunction ==
  ASSUME NEW h, NEW S, DOMAIN h = S, IsFiniteSet(S), NEW f, \A x \in S : f[x] \in Int /\ h[x] = f[x]
  PROVE  SumFunction(h) = SumFunctionOnSet(f, S)
BY SumAgree DEF SumFunction

LEMMA SumSingle ==
  ASSUME NEW x, NEW f, f[x] \in Int
  PROVE  SumFunctionOnSet(f, {x}) = f[x]
<1>1. IsFiniteSet({x})
  BY FS_Singleton
<1>2. PICK g : Sums(f, {x}, g) /\ \A R \in SUBSET {x} : SumFunctionOnSet(f, R) = g[R]
  BY <1>1, SumsOf
<1>3. PICK S : S = {x}
  OBVIOUS
<1>4. S \in SUBSET {x} /\ x \in S /\ S \ {x} = {}
  BY <1>3
<1>5. g[S] = f[x] + g[{}] /\ g[{}] = 0
  BY <1>2, <1>4 DEF Sums
<1>6. SumFunctionOnSet(f, S) = g[S]
  BY <1>2, <1>4
<1> QED
  BY <1>3, <1>5, <1>6

LEMMA SumUnion ==
  ASSUME NEW S, NEW T, IsFiniteSet(S), IsFiniteSet(T), S \cap T = {},
         NEW f, \A x \in S \cup T : f[x] \in Int
  PROVE  SumFunctionOnSet(f, S \cup T) = SumFunctionOnSet(f, S) + SumFunctionOnSet(f, T)
<1>1. PICK U : U = S \cup T
  OBVIOUS
<1>2. IsFiniteSet(U)
  BY <1>1, FS_Union
<1>3. PICK g : Sums(f, U, g) /\ \A R \in SUBSET U : SumFunctionOnSet(f, R) = g[R]
  BY <1>1, <1>2, SumsOf
<1>4. PICK N : N = {R \in SUBSET T : g[S \cup R] = g[S] + g[R]}
  OBVIOUS
<1>5. {} \in N
  BY <1>1, <1>3, <1>4 DEF Sums
<1>6. ASSUME NEW R \in N, NEW x \in T \ R PROVE R \cup {x} \in N
  <2>1. PICK A \in SUBSET U : A = S \cup R /\ x \notin A
    BY <1>1, <1>4, <1>6
  <2>2. PICK B \in SUBSET U : B = A \cup {x} /\ B = S \cup (R \cup {x})
    BY <1>1, <2>1
  <2>3. PICK C \in SUBSET U : C = R \cup {x} /\ R \in SUBSET U
    <3>1. R \in SUBSET U /\ R \cup {x} \in SUBSET U
      BY <1>1, <1>4, <1>6
    <3> QED
      BY <3>1
  <2>4. B \ {x} = A /\ x \in B /\ C \ {x} = R /\ x \in C
    BY <1>6, <2>1, <2>2, <2>3
  <2>5. g[B] = f[x] + g[A] /\ g[C] = f[x] + g[R]
    BY <1>3, <2>4 DEF Sums
  <2>6. g[A] = g[S] + g[R]
    BY <1>4, <2>1
  <2>7. f[x] \in Int /\ g[S] \in Int /\ g[R] \in Int
    BY <1>1, <1>3, <1>4 DEF Sums
  <2>8. g[B] = g[S] + g[C]
    BY <2>5, <2>6, <2>7
  <2> QED
    BY <1>4, <2>2, <2>3, <2>8
<1>7. N = SUBSET T
  <2>1. N \in SUBSET (SUBSET T)
    BY <1>4
  <2> QED
    BY <1>5, <1>6, <2>1, SubsetInductive
<1>8. g[U] = g[S] + g[T]
  BY <1>1, <1>4, <1>7
<1> QED
  BY <1>1, <1>3, <1>8

LEMMA SumDifference ==
  ASSUME NEW S, IsFiniteSet(S), NEW T \in SUBSET S, NEW f, \A x \in S : f[x] \in Int
  PROVE  SumFunctionOnSet(f, S) = SumFunctionOnSet(f, S \ T) + SumFunctionOnSet(f, T)
<1>1. IsFiniteSet(S \ T) /\ IsFiniteSet(T) /\ (S \ T) \cap T = {} /\ (S \ T) \cup T = S
  BY FS_Subset
<1>2. PICK R : R = S \ T
  OBVIOUS
<1> QED
  BY <1>1, <1>2, SumUnion

\* b moves the values that f has on S to the set I, where h has them.
Moves(S, f, b, I, h) ==
  /\ \A x \in S : f[x] \in Int /\ h[b[x]] = f[x]
  /\ \A x, y \in S : b[x] = b[y] => x = y
  /\ I = {b[x] : x \in S}

LEMMA SumImage ==
  ASSUME NEW S, NEW f, NEW b, NEW I, NEW h, IsFiniteSet(S), Moves(S, f, b, I, h)
  PROVE  IsFiniteSet(I) /\ SumFunctionOnSet(h, I) = SumFunctionOnSet(f, S)
<1> USE DEF Moves
<1>1. PICK g : Sums(f, S, g) /\ \A R \in SUBSET S : SumFunctionOnSet(f, R) = g[R]
  BY SumsOf
<1> DEFINE Image(R) == {b[x] : x \in R}
<1>2. PICK N : N = {R \in SUBSET S : /\ IsFiniteSet(Image(R))
                                      /\ SumFunctionOnSet(h, Image(R)) = g[R]}
  OBVIOUS
<1>3. {} \in N
  <2>1. Image({}) = {} /\ IsFiniteSet({})
    BY FS_EmptySet
  <2>2. SumFunctionOnSet(h, {}) = 0
    BY <2>1, SumType
  <2> QED
    BY <1>1, <1>2, <2>1, <2>2 DEF Sums
<1>4. ASSUME NEW R \in N, NEW x \in S \ R PROVE R \cup {x} \in N
  <2>1. R \in SUBSET S /\ IsFiniteSet(Image(R)) /\ SumFunctionOnSet(h, Image(R)) = g[R]
    BY <1>2, <1>4
  <2>2. PICK V : V = Image(R)
    OBVIOUS
  <2>3. /\ Image(R \cup {x}) = V \cup {b[x]}
        /\ V \cap {b[x]} = {}
        /\ \A y \in V \cup {b[x]} : h[y] \in Int
    BY <1>4, <2>1, <2>2
  <2>4. IsFiniteSet(V) /\ IsFiniteSet({b[x]}) /\ IsFiniteSet(V \cup {b[x]})
    BY <2>1, <2>2, FS_Singleton, FS_AddElement
  <2>5. SumFunctionOnSet(h, V \cup {b[x]}) = SumFunctionOnSet(h, V) + SumFunctionOnSet(h, {b[x]})
    <3>1. PICK J : J = {b[x]}
      OBVIOUS
    <3> QED
      BY <2>3, <2>4, <3>1, SumUnion
  <2>6. SumFunctionOnSet(h, {b[x]}) = f[x]
    BY <2>3, SumSingle
  <2>7. g[R \cup {x}] = f[x] + g[R]
    <3>1. PICK C : C = R \cup {x}
      OBVIOUS
    <3>2. C \in SUBSET S /\ C \ {x} = R /\ x \in C
      BY <1>4, <2>1, <3>1
    <3>3. g[C] = f[x] + g[R]
      BY <1>1, <3>2 DEF Sums
    <3> QED
      BY <3>1, <3>3
  <2>8. f[x] \in Int /\ g[R] \in Int
    BY <1>1, <2>1 DEF Sums
  <2>9. SumFunctionOnSet(h, V \cup {b[x]}) = g[R \cup {x}]
    BY <2>1, <2>2, <2>5, <2>6, <2>7, <2>8
  <2> HIDE DEF Image
  <2> QED
    BY <1>2, <2>1, <2>3, <2>4, <2>9
<1>5. N = SUBSET S
  <2>1. N \in SUBSET (SUBSET S)
    BY <1>2
  <2> HIDE DEF Image
  <2> QED
    BY <1>3, <1>4, <2>1, SubsetInductive
<1>6. S \in N
  BY <1>5
<1> QED
  BY <1>1, <1>2, <1>6

-----------------------------------------------------------------------------
(***************************************************************************)
(* The shape of a plan without structural blockers                         *)
(***************************************************************************)

\* What a plan's tuples give (PlansAssumption, for the plan of one case).
PlanTyped(p) ==
  /\ IsFiniteSet(p.funding)
  /\ IsFiniteSet(p.txs)
  /\ \A t \in p.txs : /\ t.role \in TransactionRoles /\ t.fee \in Nat
                      /\ IsFiniteSet(t.inputs) /\ IsFiniteSet(t.outputs)
                      /\ t.outputs \subseteq DOMAIN p.of
  /\ p.funding \subseteq DOMAIN p.of
  /\ \A i \in DOMAIN p.of : p.of[i].value \in Nat

Authorization(p, a) == OutputOf(p, Template(p, "ack", a), "slash-authorization")

\* The funding outpoint of a singleton role is the only one of its role.
LEMMA FundedOnce ==
  ASSUME NEW p, PlanTyped(p), ResourceRoster(p), NEW role \in SingletonRoles
  PROVE  The(p, role) \in p.funding /\ p.of[The(p, role)].role = role
<1>1. IsFiniteSet(Funded(p, role)) /\ Cardinality(Funded(p, role)) = 1
  BY FS_Subset DEF Funded, PlanTyped, ResourceRoster
<1>2. \E x : Funded(p, role) = {x}
  BY <1>1, FS_Singleton
<1>3. The(p, role) \in Funded(p, role)
  BY <1>2 DEF The
<1> QED
  BY <1>3 DEF Funded

\* Every alternative has exactly one template of each role.
LEMMA TemplateOnce ==
  ASSUME NEW p, PlanTyped(p), TransactionRoster(p), NEW role \in AlternativeRoles,
         NEW a \in Alternatives(p)
  PROVE  /\ Template(p, role, a) \in p.txs
         /\ Template(p, role, a).role = role /\ Template(p, role, a).alt = a
         /\ \A t \in p.txs : t.role = role /\ t.alt = a => t = Template(p, role, a)
<1>1. IsFiniteSet(Templates(p, role, a)) /\ Cardinality(Templates(p, role, a)) = 1
  BY FS_Subset DEF Templates, PlanTyped, TransactionRoster
<1>2. PICK x : Templates(p, role, a) = {x}
  BY <1>1, FS_Singleton
<1>3. Template(p, role, a) = x
  BY <1>2 DEF Template
<1> QED
  BY <1>2, <1>3 DEF Templates

LEMMA OwnerOnce ==
  ASSUME NEW p, PlanTyped(p), TransactionRoster(p)
  PROVE  \E o \in p.txs : /\ o.role = "owner-payout"
                          /\ \A t \in p.txs : t.role = "owner-payout" => t = o
<1> DEFINE Owners == {t \in p.txs : t.role = "owner-payout"}
<1>1. IsFiniteSet(Owners) /\ Cardinality(Owners) = 1
  BY FS_Subset DEF PlanTyped, TransactionRoster
<1>2. \E x : Owners = {x}
  BY <1>1, FS_Singleton
<1> QED
  BY <1>2

LEMMA AlternativeKnown ==
  ASSUME NEW p, TransactionRoster(p), NEW t \in p.txs, t.role \in AlternativeRoles
  PROVE  t.alt \in Alternatives(p)
  BY DEF TransactionRoster

\* The outputs that other templates spend.
LEMMA Connectors ==
  ASSUME NEW p, NEW a, Counterproof(p, a), Ack(p, a)
  PROVE  /\ Resolution(p, a) \in Template(p, "counterproof", a).outputs
         /\ p.of[Resolution(p, a)].role = "resolution"
         /\ Authorization(p, a) \in Template(p, "ack", a).outputs
         /\ p.of[Authorization(p, a)].role = "slash-authorization"
<1>1. \E i \in Template(p, "counterproof", a).outputs : p.of[i].role = "resolution"
  <2>1. Outpoint("resolution", p.resolutionValue, a, NoOne)
          \in {p.of[i] : i \in Template(p, "counterproof", a).outputs}
    BY DEF Counterproof, Exactly
  <2> QED
    BY <2>1 DEF Outpoint
<1>2. \E i \in Template(p, "ack", a).outputs : p.of[i].role = "slash-authorization"
  <2>1. Outpoint("slash-authorization", p.authorizationValue, a, NoOne)
          \in {p.of[i] : i \in Template(p, "ack", a).outputs}
    BY DEF Ack, Exactly
  <2> QED
    BY <2>1 DEF Outpoint
<1> QED
  BY <1>1, <1>2 DEF Resolution, Authorization, OutputOf

LEMMA RecoveryCreated ==
  ASSUME NEW p, NEW a, Counterproof(p, a)
  PROVE  \E i \in Template(p, "counterproof", a).outputs :
           p.of[i] = Outpoint("protected-recovery", DepositValue(p), a, p.recovery)
<1>1. Outpoint("protected-recovery", p.of[The(p, "deposit")].value, a, p.recovery)
        \in {p.of[i] : i \in Template(p, "counterproof", a).outputs}
  BY DEF Counterproof, Exactly
<1> QED
  BY <1>1 DEF DepositValue

\* What the confirmation order depends on: who spends which output of whom.
Spending(p) ==
  /\ \A t \in p.txs : \A i \in t.outputs : i \notin p.funding
  /\ \A t, u \in p.txs : t # u => t.outputs \cap u.outputs = {}
  /\ \A t \in p.txs : t.role \in {"owner-payout", "counterproof"} =>
       t.inputs \subseteq p.funding /\ The(p, "deposit") \in t.inputs
  /\ \A t \in p.txs : t.role = "owner-payout" => The(p, "contest-slash") \in t.inputs
  /\ \A t \in p.txs : t.role = "counterproof" =>
       The(p, "contest-slash") \notin t.inputs /\ The(p, "stake") \notin t.inputs
  /\ \A t \in p.txs : t.role \in AlternativeRoles =>
       LET a == t.alt IN
       /\ a \in Alternatives(p)
       /\ \A role \in AlternativeRoles :
            /\ Template(p, role, a) \in p.txs
            /\ Template(p, role, a).role = role /\ Template(p, role, a).alt = a
            /\ t.role = role => t = Template(p, role, a)
       /\ Resolution(p, a) \in Template(p, "counterproof", a).outputs
       /\ Authorization(p, a) \in Template(p, "ack", a).outputs
       /\ t.role = "ack" => t.inputs = {Resolution(p, a)}
       /\ t.role = "timeout" => t.inputs = {Resolution(p, a), The(p, "contest-slash")}
       /\ t.role = "slash" =>
            t.inputs = {Authorization(p, a), The(p, "contest-slash"), The(p, "stake")}
  /\ \E o \in p.txs : /\ o.role = "owner-payout"
                      /\ \A t \in p.txs : t.role = "owner-payout" => t = o
  /\ {The(p, "deposit"), The(p, "contest-slash"), The(p, "stake")} \subseteq p.funding
  /\ The(p, "contest-slash") # The(p, "stake")
  /\ \A t \in p.txs : t.role \in TransactionRoles

LEMMA ShapeSpending ==
  ASSUME NEW p, PlanTyped(p), NoStructuralBlocker(p)
  PROVE  Spending(p)
<1>0. /\ OutpointsUnique(p) /\ ResourceRoster(p) /\ TransactionRoster(p) /\ OwnerPayout(p)
      /\ \A a \in Alternatives(p) : Counterproof(p, a) /\ Ack(p, a) /\ Timeout(p, a) /\ Slash(p, a)
  BY DEF NoStructuralBlocker
<1>f. \A role \in SingletonRoles : The(p, role) \in p.funding /\ p.of[The(p, role)].role = role
  BY <1>0, FundedOnce
<1>c. Counterproofs(p) \subseteq p.funding
      /\ \A i \in Counterproofs(p) : p.of[i].role = "counterproof-input"
  BY DEF Counterproofs, Funded
<1>r. \A role \in {"deposit", "claim-payout", "contest-payout", "contest-slash", "stake"} :
        role \in SingletonRoles
  BY DEF SingletonRoles, FundingRoles
<1>t. ASSUME NEW t \in p.txs, t.role \in AlternativeRoles
      PROVE  /\ t.alt \in Alternatives(p)
             /\ \A role \in AlternativeRoles :
                  /\ Template(p, role, t.alt) \in p.txs
                  /\ Template(p, role, t.alt).role = role /\ Template(p, role, t.alt).alt = t.alt
                  /\ t.role = role => t = Template(p, role, t.alt)
  <2>1. t.alt \in Alternatives(p)
    BY <1>0, <1>t, AlternativeKnown
  <2>2. ASSUME NEW role \in AlternativeRoles
        PROVE  /\ Template(p, role, t.alt) \in p.txs
               /\ Template(p, role, t.alt).role = role /\ Template(p, role, t.alt).alt = t.alt
               /\ t.role = role => t = Template(p, role, t.alt)
    BY <1>0, <2>1, TemplateOnce
  <2> QED
    BY <2>1, <2>2
<1>i. ASSUME NEW t \in p.txs, t.role = "counterproof"
      PROVE  t.inputs = Counterproofs(p) \cup {The(p, "contest-payout"), The(p, "deposit")}
  <2>1. t.alt \in Alternatives(p) /\ t = Template(p, "counterproof", t.alt)
    BY <1>t, <1>i DEF AlternativeRoles
  <2> QED
    BY <1>0, <2>1 DEF Counterproof
<1>o. ASSUME NEW t \in p.txs, t.role = "owner-payout"
      PROVE  t.inputs = Counterproofs(p) \cup
               {The(p, role) : role \in {"deposit", "claim-payout", "contest-payout", "contest-slash"}}
  BY <1>0, <1>o DEF OwnerPayout
<1>1. /\ \A t \in p.txs : \A i \in t.outputs : i \notin p.funding
      /\ \A t, u \in p.txs : t # u => t.outputs \cap u.outputs = {}
  BY <1>0 DEF OutpointsUnique
<1>2. \A t \in p.txs : t.role \in {"owner-payout", "counterproof"} =>
        t.inputs \subseteq p.funding /\ The(p, "deposit") \in t.inputs
  BY <1>f, <1>c, <1>r, <1>i, <1>o
<1>3. \A t \in p.txs : t.role = "owner-payout" => The(p, "contest-slash") \in t.inputs
  BY <1>o
<1>4. \A t \in p.txs : t.role = "counterproof" =>
       The(p, "contest-slash") \notin t.inputs /\ The(p, "stake") \notin t.inputs
  BY <1>f, <1>c, <1>r, <1>i
<1>5. ASSUME NEW t \in p.txs, t.role \in AlternativeRoles
      PROVE  /\ Resolution(p, t.alt) \in Template(p, "counterproof", t.alt).outputs
             /\ Authorization(p, t.alt) \in Template(p, "ack", t.alt).outputs
             /\ t.role = "ack" => t.inputs = {Resolution(p, t.alt)}
             /\ t.role = "timeout" => t.inputs = {Resolution(p, t.alt), The(p, "contest-slash")}
             /\ t.role = "slash" =>
                  t.inputs = {Authorization(p, t.alt), The(p, "contest-slash"), The(p, "stake")}
  <2>1. /\ t.alt \in Alternatives(p)
        /\ t.role = "ack" => t = Template(p, "ack", t.alt)
        /\ t.role = "timeout" => t = Template(p, "timeout", t.alt)
        /\ t.role = "slash" => t = Template(p, "slash", t.alt)
    BY <1>t, <1>5 DEF AlternativeRoles
  <2>2. Counterproof(p, t.alt) /\ Ack(p, t.alt) /\ Timeout(p, t.alt) /\ Slash(p, t.alt)
    BY <1>0, <2>1
  <2>3. /\ Resolution(p, t.alt) \in Template(p, "counterproof", t.alt).outputs
        /\ Authorization(p, t.alt) \in Template(p, "ack", t.alt).outputs
    BY <2>2, Connectors
  <2> QED
    BY <2>1, <2>2, <2>3 DEF Ack, Timeout, Slash, Authorization
<1>6. /\ {The(p, "deposit"), The(p, "contest-slash"), The(p, "stake")} \subseteq p.funding
      /\ The(p, "contest-slash") # The(p, "stake")
  BY <1>f, <1>r
<1>7. \E o \in p.txs : /\ o.role = "owner-payout"
                       /\ \A t \in p.txs : t.role = "owner-payout" => t = o
  BY <1>0, OwnerOnce
<1> QED
  BY <1>1, <1>2, <1>3, <1>4, <1>5, <1>6, <1>7, <1>t DEF Spending, PlanTyped

-----------------------------------------------------------------------------
(* The invariant: what is unspent follows from what has confirmed *)

Known(p) == p.funding \cup PlanOutputs(p)

\* An outpoint of the plan exists: it was funded, or its creator confirmed.
Exists(i) == i \in Plan.funding \/ \E t \in confirmed : i \in t.outputs

Chained ==
  /\ confirmed \subseteq Plan.txs
  /\ \A t \in confirmed : \A i \in t.inputs : i \in Known(Plan) /\ Exists(i)
  /\ \A t, u \in confirmed : t # u => t.inputs \cap u.inputs = {}
  /\ \A i \in Known(Plan) : i \in live <=> Exists(i) /\ \A t \in confirmed : i \notin t.inputs
  /\ confirmed = {} => BondIds(Policy) \subseteq live

\* The overlay of a built graph stays apart from the outpoints of the plan.
Apart(p, q) ==
  /\ BondIds(q) \cap Known(p) = {}
  /\ Overlay(q) \cap Known(p) = {}
  /\ \A t \in p.txs : BondedOutputs(q, t) \subseteq t.outputs \cup Overlay(q)

GraphInv ==
  /\ case \in Cases
  /\ verdict = "unknown" => confirmed = {}
  /\ Built => /\ PlanTyped(Plan) /\ NoStructuralBlocker(Plan)
              /\ Apart(Plan, Policy)
              /\ Chained

LEMMA VerdictMeans ==
  ASSUME NEW p, NEW q
  PROVE  /\ Verdict(p, q) \in {"structure", "infeasible", "adequate"}
         /\ Verdict(p, q) \in {"infeasible", "adequate"} => NoStructuralBlocker(p)
         /\ Verdict(p, q) = "adequate" => RostersMatch(p, q) /\ ReservesFit(p, q) /\ Covered(p, q)
<1>1. CASE ~ NoStructuralBlocker(p)
  BY <1>1 DEF Verdict
<1>2. CASE NoStructuralBlocker(p) /\ ~ (RostersMatch(p, q) /\ ReservesFit(p, q) /\ Covered(p, q))
  BY <1>2 DEF Verdict
<1>3. CASE NoStructuralBlocker(p) /\ RostersMatch(p, q) /\ ReservesFit(p, q) /\ Covered(p, q)
  BY <1>3 DEF Verdict
<1> QED
  BY <1>1, <1>2, <1>3

LEMMA ReservesApart ==
  ASSUME NEW p, NEW q, ReservesFit(p, q) \/ q.reserves = {}, BondIds(q) \cap PlanOutputs(p) = {}
  PROVE  Apart(p, q)
<1>1. BondIds(q) \cap Known(p) = {}
  BY DEF ReservesFit, BondIds, Known
<1>2. Overlay(q) \cap Known(p) = {}
  BY DEF ReservesFit, Overlay, Known
<1>3. ASSUME NEW r \in q.reserves
      PROVE  /\ {r.ownerReturn, r.ackRefund, r.compensation} \subseteq Overlay(q)
             /\ \A b \in DOMAIN r.siblingReturn : r.siblingReturn[b] \in Overlay(q)
  BY DEF Overlay, Transitions
<1>4. ASSUME NEW t \in p.txs PROVE BondedOutputs(q, t) \subseteq t.outputs \cup Overlay(q)
  BY <1>3 DEF BondedOutputs
<1> QED
  BY <1>1, <1>2, <1>4 DEF Apart

\* Plan inputs are outpoints of the plan.
LEMMA InputsKnown ==
  ASSUME NEW p, Spending(p), NEW t \in p.txs
  PROVE  t.inputs \subseteq Known(p)
<1>1. CASE t.role \in {"owner-payout", "counterproof"}
  BY <1>1 DEF Spending, Known
<1>2. CASE t.role \in {"ack", "timeout", "slash"}
  <2>1. /\ Template(p, "counterproof", t.alt) \in p.txs /\ Template(p, "ack", t.alt) \in p.txs
        /\ Resolution(p, t.alt) \in Template(p, "counterproof", t.alt).outputs
        /\ Authorization(p, t.alt) \in Template(p, "ack", t.alt).outputs
    BY <1>2 DEF Spending, AlternativeRoles
  <2>2. {Resolution(p, t.alt), Authorization(p, t.alt)} \subseteq PlanOutputs(p)
    BY <2>1 DEF PlanOutputs
  <2> QED
    BY <1>2, <2>2 DEF Spending, Known, AlternativeRoles
<1> QED
  BY <1>1, <1>2 DEF Spending, TransactionRoles, AlternativeRoles

LEMMA ConfirmChains ==
  ASSUME GraphInv, Built, NEW u \in Plan.txs, Confirm(u)
  PROVE  Chained'
<1>0. /\ Spending(Plan) /\ Chained /\ Apart(Plan, Policy)
      /\ u \notin confirmed
      /\ confirmed' = confirmed \cup {u} /\ case' = case
      /\ BondedInputs(Policy, u) \subseteq live
      /\ live' = (live \ BondedInputs(Policy, u)) \cup BondedOutputs(Policy, u)
  BY ShapeSpending DEF GraphInv, Confirm
<1>p. Plan' = Plan /\ Policy' = Policy
  BY <1>0 DEF Plan, Policy
<1>1. u.inputs \subseteq Known(Plan)
  BY <1>0, InputsKnown
<1>2. /\ u.inputs \subseteq live
      /\ \A i \in Known(Plan) : i \in BondedInputs(Policy, u) <=> i \in u.inputs
  BY <1>0, <1>1 DEF BondedInputs, Apart
<1>3. \A i \in Known(Plan) : i \in BondedOutputs(Policy, u) <=> i \in u.outputs
  <2>1. u.outputs \subseteq BondedOutputs(Policy, u)
    BY DEF BondedOutputs
  <2> QED
    BY <1>0, <2>1 DEF Apart
<1>4. \A i \in u.inputs : Exists(i) /\ \A t \in confirmed : i \notin t.inputs
  BY <1>0, <1>1, <1>2 DEF Chained
<1>5. \A i \in u.outputs : ~ Exists(i)
  BY <1>0 DEF Exists, Spending, Chained
<1>6. \A i : Exists(i)' <=> Exists(i) \/ i \in u.outputs
  BY <1>0, <1>p DEF Exists
<1>7. \A t \in confirmed' : \A i \in t.inputs : i \in Known(Plan) /\ Exists(i)'
  BY <1>0, <1>1, <1>4, <1>6 DEF Chained
<1>8. \A t, v \in confirmed' : t # v => t.inputs \cap v.inputs = {}
  BY <1>0, <1>4 DEF Chained
<1>9. ASSUME NEW i \in Known(Plan)
      PROVE  i \in live' <=> Exists(i)' /\ \A t \in confirmed' : i \notin t.inputs
  <2>1. i \in live' <=> (i \in live /\ i \notin u.inputs) \/ i \in u.outputs
    BY <1>0, <1>2, <1>3
  <2>2. CASE i \in u.outputs
    BY <1>0, <1>4, <1>5, <1>6, <2>1, <2>2 DEF Chained
  <2>3. CASE i \notin u.outputs
    BY <1>0, <1>6, <2>1, <2>3 DEF Chained
  <2> QED
    BY <2>2, <2>3
<1>10. confirmed' \subseteq Plan.txs /\ confirmed' # {}
  BY <1>0 DEF Chained
<1> QED
  BY <1>p, <1>7, <1>8, <1>9, <1>10 DEF Chained

LEMMA StepChains ==
  ASSUME \A c \in Cases : FreshBonds(c), GraphInv, [Next]_vars
  PROVE  GraphInv'
<1>1. CASE Analyse
  <2>0. /\ case' = case /\ case \in Cases /\ confirmed = {} /\ confirmed' = {}
        /\ verdict' = Verdict(Plan, Policy) /\ live' = Plan.funding \cup BondIds(Policy)
    BY <1>1 DEF Analyse, GraphInv
  <2>p. Plan' = Plan /\ Policy' = Policy
    BY <2>0 DEF Plan, Policy
  <2>1. PlanTyped(Plan) /\ BondIds(Policy) \cap PlanOutputs(Plan) = {}
    BY <2>0, PlansAssumption DEF PlanTyped, Plan, Policy, FreshBonds
  <2>2. verdict' # "unknown"
    BY <2>0, VerdictMeans
  <2>3. ASSUME Built' PROVE NoStructuralBlocker(Plan) /\ Apart(Plan, Policy) /\ Chained'
    <3>1. NoStructuralBlocker(Plan) /\ (ReservesFit(Plan, Policy) \/ Policy.reserves = {})
      BY <2>0, <2>p, <2>3, VerdictMeans DEF Built
    <3>2. Apart(Plan, Policy)
      BY <2>1, <3>1, ReservesApart
    <3>3. \A i \in Known(Plan) : i \in live' <=> Exists(i)' /\ \A t \in confirmed' : i \notin t.inputs
      BY <2>0, <2>p, <3>2 DEF Exists, Apart
    <3> QED
      BY <2>0, <2>p, <3>1, <3>2, <3>3 DEF Chained
  <2> QED
    BY <2>0, <2>p, <2>1, <2>2, <2>3 DEF GraphInv
<1>2. ASSUME NEW u \in Plan.txs, Confirm(u) PROVE GraphInv'
  <2>1. Built /\ case' = case /\ verdict' = verdict
    BY <1>2 DEF Confirm
  <2>2. Chained'
    BY <1>2, <2>1, ConfirmChains
  <2>3. Plan' = Plan /\ Policy' = Policy /\ verdict # "unknown"
    BY <2>1 DEF Plan, Policy, Built
  <2> QED
    BY <2>1, <2>2, <2>3 DEF GraphInv
<1>3. CASE UNCHANGED vars
  BY <1>3 DEF vars, GraphInv, Chained, Exists, Built, Plan, Policy
<1> QED
  BY <1>1, <1>2, <1>3 DEF Next

\* After any confirmations the unspent outpoints are those that were funded or
\* created and that no confirmed template spends, and what a confirmed template
\* spends was there before it.
THEOREM GraphStaysChained ==
  ASSUME \A c \in Cases : FreshBonds(c)
  PROVE  Spec => []GraphInv
<1>1. Init => GraphInv
  BY DEF Init, GraphInv, Built
<1>2. GraphInv /\ [Next]_vars => GraphInv'
  BY StepChains
<1> QED
  BY <1>1, <1>2, PTL DEF Spec

-----------------------------------------------------------------------------
(* What confirms with what *)

\* Who confirmed needs its creditor confirmed, and nobody it conflicts with.
LEMMA WhoConfirms ==
  ASSUME Spending(Plan), Chained, NEW t \in confirmed, t.role \in AlternativeRoles
  PROVE  /\ \A u \in confirmed : u.role # "owner-payout"
         /\ Template(Plan, "counterproof", t.alt) \in confirmed
         /\ t.role = "slash" => Template(Plan, "ack", t.alt) \in confirmed
<1>0. t \in Plan.txs /\ confirmed \subseteq Plan.txs
  BY DEF Chained
<1> DEFINE counterproof == Template(Plan, "counterproof", t.alt)
           ack == Template(Plan, "ack", t.alt)
<1>1. /\ counterproof \in Plan.txs /\ counterproof.role = "counterproof"
      /\ ack \in Plan.txs /\ ack.role = "ack" /\ ack.alt = t.alt
      /\ Resolution(Plan, t.alt) \in counterproof.outputs
      /\ Authorization(Plan, t.alt) \in ack.outputs
      /\ t.role = "counterproof" => t = counterproof
      /\ t.role = "ack" => Resolution(Plan, t.alt) \in t.inputs
      /\ t.role = "timeout" => Resolution(Plan, t.alt) \in t.inputs
      /\ t.role = "slash" => Authorization(Plan, t.alt) \in t.inputs
  BY <1>0 DEF Spending, AlternativeRoles
<1>c. ASSUME NEW u \in Plan.txs, NEW i \in u.outputs, NEW v \in confirmed, i \in v.inputs
      PROVE  u \in confirmed
  BY <1>0, <1>c DEF Chained, Exists, Spending
<1>2. t.role = "slash" => ack \in confirmed
  BY <1>1, <1>c
<1>3. ack \in confirmed => counterproof \in confirmed
  <2>1. Resolution(Plan, t.alt) \in ack.inputs
    BY <1>0, <1>1 DEF Spending, AlternativeRoles
  <2> QED
    BY <1>1, <1>c, <2>1
<1>4. counterproof \in confirmed
  BY <1>1, <1>2, <1>3, <1>c DEF AlternativeRoles
<1>5. ASSUME NEW u \in confirmed, u.role = "owner-payout" PROVE FALSE
  <2>1. The(Plan, "deposit") \in u.inputs /\ The(Plan, "deposit") \in counterproof.inputs
    BY <1>0, <1>1, <1>5 DEF Spending
  <2> QED
    BY <1>1, <1>4, <1>5, <2>1 DEF Chained
<1> QED
  BY <1>2, <1>4, <1>5

\* All that confirms is of one alternative.
LEMMA OneAlternative ==
  ASSUME Spending(Plan), Chained, NEW t \in confirmed, NEW u \in confirmed,
         t.role \in AlternativeRoles, u.role \in AlternativeRoles
  PROVE  t.alt = u.alt
<1>0. t \in Plan.txs /\ u \in Plan.txs
  BY DEF Chained
<1> DEFINE C(x) == Template(Plan, "counterproof", x.alt)
<1>1. C(t) \in confirmed /\ C(u) \in confirmed
  BY WhoConfirms
<1>2. /\ C(t).role = "counterproof" /\ C(t).alt = t.alt /\ C(t) \in Plan.txs
      /\ C(u).role = "counterproof" /\ C(u).alt = u.alt /\ C(u) \in Plan.txs
  BY <1>0 DEF Spending, AlternativeRoles
<1>3. The(Plan, "deposit") \in C(t).inputs /\ The(Plan, "deposit") \in C(u).inputs
  BY <1>2 DEF Spending
<1>4. C(t) = C(u)
  BY <1>1, <1>3 DEF Chained
<1> QED
  BY <1>2, <1>4

\* A timeout conflicts with ACK and slash.
LEMMA NoSlashWithTimeout ==
  ASSUME Spending(Plan), Chained, NEW t \in confirmed, NEW u \in confirmed, t.role = "timeout"
  PROVE  u.role \notin {"ack", "slash"}
<1>0. t \in Plan.txs /\ u \in Plan.txs
  BY DEF Chained
<1>1. CASE u.role = "slash"
  <2>1. The(Plan, "contest-slash") \in t.inputs /\ The(Plan, "contest-slash") \in u.inputs
    BY <1>0, <1>1 DEF Spending, AlternativeRoles
  <2> QED
    BY <1>1, <2>1 DEF Chained
<1>2. CASE u.role = "ack"
  <2>1. t.alt = u.alt
    BY <1>2, OneAlternative DEF AlternativeRoles
  <2>2. Resolution(Plan, t.alt) \in t.inputs /\ Resolution(Plan, t.alt) \in u.inputs
    BY <1>0, <1>2, <2>1 DEF Spending, AlternativeRoles
  <2> QED
    BY <1>2, <2>2 DEF Chained
<1> QED
  BY <1>1, <1>2

\* The output that got the deposit has a role no template spends.
LEMMA DepositStays ==
  ASSUME GraphInv
  PROVE  DepositRecovered
<1> SUFFICES ASSUME Built PROVE DepositRecovered
  BY DEF DepositRecovered
<1>0. Chained /\ Spending(Plan) /\ PlanTyped(Plan) /\ NoStructuralBlocker(Plan)
  BY ShapeSpending DEF GraphInv
<1>1. ASSUME NEW t \in confirmed, t.role = "counterproof"
      PROVE  \E i \in live : /\ i \in DOMAIN Plan.of
                             /\ Plan.of[i].value = DepositValue(Plan)
                             /\ Plan.of[i].to = Plan.recovery
  <2>1. /\ t \in Plan.txs /\ t.alt \in Alternatives(Plan)
        /\ t = Template(Plan, "counterproof", t.alt)
    BY <1>0, <1>1 DEF Chained, Spending, AlternativeRoles
  <2>2. PICK i \in t.outputs :
          Plan.of[i] = Outpoint("protected-recovery", DepositValue(Plan), t.alt, Plan.recovery)
    BY <1>0, <2>1, RecoveryCreated DEF NoStructuralBlocker
  <2>3. /\ i \in DOMAIN Plan.of /\ i \in Known(Plan) /\ Exists(i) /\ i \notin Plan.funding
        /\ Plan.of[i].role = "protected-recovery"
        /\ Plan.of[i].value = DepositValue(Plan) /\ Plan.of[i].to = Plan.recovery
    BY <1>0, <2>1, <2>2 DEF PlanTyped, Known, PlanOutputs, Exists, Outpoint, Spending
  <2>4. ASSUME NEW u \in confirmed, i \in u.inputs PROVE FALSE
    <3>1. u \in Plan.txs
      BY <1>0 DEF Chained
    <3>2. u.role \in {"ack", "timeout", "slash"}
      BY <1>0, <2>3, <2>4, <3>1 DEF Spending, TransactionRoles, AlternativeRoles
    <3>3. i = Resolution(Plan, u.alt) \/ i = Authorization(Plan, u.alt)
      BY <1>0, <2>3, <2>4, <3>1, <3>2 DEF Spending, AlternativeRoles
    <3>4. u.alt \in Alternatives(Plan)
      BY <1>0, <3>1, <3>2 DEF Spending, AlternativeRoles
    <3> QED
      BY <1>0, <2>3, <3>3, <3>4, Connectors DEF NoStructuralBlocker
  <2>5. i \in live
    BY <1>0, <2>3, <2>4 DEF Chained
  <2> QED
    BY <2>3, <2>5
<1>2. ASSUME NEW t \in confirmed, t.role = "slash"
      PROVE  "ack" \in Roles(confirmed) /\ "timeout" \notin Roles(confirmed)
  <2>1. Template(Plan, "ack", t.alt) \in confirmed
    BY <1>0, <1>2, WhoConfirms DEF AlternativeRoles
  <2>2. Template(Plan, "ack", t.alt).role = "ack"
    BY <1>0, <1>2 DEF Chained, Spending, AlternativeRoles
  <2>3. \A u \in confirmed : u.role # "timeout"
    BY <1>0, <1>2, NoSlashWithTimeout
  <2> QED
    BY <2>1, <2>2, <2>3 DEF Roles
<1> QED
  BY <1>1, <1>2 DEF DepositRecovered, Roles

\* In a graph that is not in one of the expected branches something can confirm.
LEMMA StuckInBranch ==
  ASSUME GraphInv
  PROVE  OnlyExpectedBranches
<1> SUFFICES ASSUME Built, Stuck PROVE Branch(confirmed) # "unexpected"
  BY DEF OnlyExpectedBranches
<1>0. Chained /\ Spending(Plan) /\ Apart(Plan, Policy) /\ confirmed \subseteq Plan.txs
  BY ShapeSpending DEF GraphInv, Chained
<1>s. ASSUME NEW t \in Plan.txs, t.role \in {"ack", "timeout", "slash"}, t \notin confirmed
      PROVE  \E i \in t.inputs : i \notin live
  BY <1>s DEF Stuck, BondedInputs
<1>1. confirmed # {}
  <2> SUFFICES ASSUME confirmed = {} PROVE FALSE
    OBVIOUS
  <2>1. PICK o \in Plan.txs : o.role = "owner-payout"
    BY <1>0 DEF Spending
  <2>2. o.inputs \subseteq live
    BY <1>0, <2>1 DEF Spending, Chained, Known, Exists
  <2>3. BondedInputs(Policy, o) \subseteq live
    BY <1>0, <2>2 DEF Chained, BondedInputs
  <2> QED
    BY <2>3 DEF Stuck
<1>2. CASE \E t \in confirmed : t.role = "owner-payout"
  <2>1. PICK o \in confirmed : o.role = "owner-payout"
    BY <1>2
  <2>2. ASSUME NEW t \in confirmed PROVE t = o
    <3>1. t.role \notin AlternativeRoles
      BY <1>0, <2>1, WhoConfirms
    <3> QED
      BY <1>0, <2>1, <3>1 DEF Spending, TransactionRoles
  <2>3. confirmed = {o}
    BY <2>2
  <2>4. Cardinality(confirmed) = 1 /\ Roles(confirmed) = {"owner-payout"}
    BY <2>1, <2>3, FS_Singleton DEF Roles
  <2> QED
    BY <2>4 DEF Branch
<1>3. CASE \A t \in confirmed : t.role # "owner-payout"
  <2>0. \A t \in confirmed : t.role \in AlternativeRoles
    BY <1>0, <1>3 DEF Spending, TransactionRoles
  <2>1. PICK t \in confirmed : TRUE
    BY <1>1
  <2>2. PICK a : a = t.alt
    OBVIOUS
  <2> DEFINE T(role) == Template(Plan, role, a)
  <2>3. \A role \in AlternativeRoles : T(role) \in Plan.txs /\ T(role).role = role /\ T(role).alt = a
    BY <1>0, <2>0, <2>1, <2>2 DEF Spending
  <2>4. ASSUME NEW u \in confirmed PROVE u.alt = a /\ u = T(u.role)
    BY <1>0, <2>0, <2>2, OneAlternative DEF Spending
  <2>5. T("counterproof") \in confirmed
    BY <1>0, <2>0, <2>1, <2>2, WhoConfirms
  <2>6. {u.alt : u \in confirmed} = {a} /\ Cardinality({a}) = 1
    <3>1. {u.alt : u \in confirmed} = {a}
      BY <2>1, <2>4
    <3>2. Cardinality({a}) = 1
      BY FS_Singleton
    <3> QED
      BY <3>1, <3>2
  <2>7. /\ T("ack").inputs = {Resolution(Plan, a)}
        /\ T("timeout").inputs = {Resolution(Plan, a), The(Plan, "contest-slash")}
        /\ T("slash").inputs = {Authorization(Plan, a), The(Plan, "contest-slash"), The(Plan, "stake")}
        /\ Resolution(Plan, a) \in T("counterproof").outputs
        /\ Authorization(Plan, a) \in T("ack").outputs
    BY <1>0, <2>3 DEF Spending, AlternativeRoles
  <2>8. \A u \in confirmed : u.role \in {"counterproof", "ack", "timeout", "slash"}
    BY <2>0 DEF AlternativeRoles
  <2>9. CASE T("timeout") \in confirmed
    <3>1. \A u \in confirmed : u.role \in {"counterproof", "timeout"}
      BY <1>0, <2>3, <2>8, <2>9, NoSlashWithTimeout DEF AlternativeRoles
    <3>2. confirmed = {T("counterproof"), T("timeout")}
      BY <2>4, <2>5, <2>9, <3>1
    <3>3. T("counterproof") # T("timeout")
      BY <2>3 DEF AlternativeRoles
    <3>4. Roles(confirmed) = {"counterproof", "timeout"}
      BY <2>3, <3>2 DEF Roles, AlternativeRoles
    <3>5. Cardinality(confirmed) = 2
      <4>1. /\ IsFiniteSet({T("counterproof")}) /\ Cardinality({T("counterproof")}) = 1
        BY FS_Singleton
      <4>2. Cardinality({T("counterproof")} \cup {T("timeout")}) = 2
        BY <3>3, <4>1, FS_AddElement
      <4>3. confirmed = {T("counterproof")} \cup {T("timeout")}
        BY <3>2
      <4> QED
        BY <4>2, <4>3
    <3> QED
      BY <2>6, <3>4, <3>5 DEF Branch
  <2>10. CASE T("timeout") \notin confirmed
    <3>1. T("ack") \in confirmed
      <4> SUFFICES ASSUME T("ack") \notin confirmed PROVE FALSE
        OBVIOUS
      <4>1. Resolution(Plan, a) \notin live
        BY <1>s, <2>3, <2>7 DEF AlternativeRoles
      <4>2. Resolution(Plan, a) \in Known(Plan) /\ Exists(Resolution(Plan, a))
        BY <1>0, <2>5, <2>7 DEF Known, PlanOutputs, Exists
      <4>3. PICK u \in confirmed : Resolution(Plan, a) \in u.inputs
        BY <1>0, <4>1, <4>2 DEF Chained
      <4>4. u.role \in {"counterproof", "slash"}
        BY <2>4, <2>8, <2>10, <4>3
      <4>5. u.role # "slash"
        BY <1>0, <2>4, WhoConfirms DEF AlternativeRoles
      <4>6. u.inputs \subseteq Plan.funding
        BY <1>0, <4>4, <4>5 DEF Spending
      <4> QED
        BY <1>0, <2>3, <2>7, <4>3, <4>6 DEF Spending, AlternativeRoles
    <3>2. \A u \in confirmed : u.role \in {"counterproof", "ack", "slash"}
      BY <2>4, <2>8, <2>10
    <3>3. T("slash") \in confirmed
      <4> SUFFICES ASSUME T("slash") \notin confirmed PROVE FALSE
        OBVIOUS
      <4>1. PICK i \in T("slash").inputs : i \notin live
        BY <1>s, <2>3 DEF AlternativeRoles
      <4>2. /\ i \in Known(Plan) /\ Exists(i)
            /\ i \in {The(Plan, "contest-slash"), The(Plan, "stake")} \/ i = Authorization(Plan, a)
        BY <1>0, <2>7, <3>1, <4>1 DEF Known, PlanOutputs, Exists, Spending
      <4>3. PICK u \in confirmed : i \in u.inputs
        BY <1>0, <4>1, <4>2 DEF Chained
      <4>4. CASE u.role = "counterproof"
        <5>1. /\ u.inputs \subseteq Plan.funding
              /\ The(Plan, "contest-slash") \notin u.inputs /\ The(Plan, "stake") \notin u.inputs
          BY <1>0, <4>4 DEF Spending
        <5>2. Authorization(Plan, a) \notin Plan.funding
          BY <1>0, <2>3, <2>7 DEF Spending, AlternativeRoles
        <5> QED
          BY <4>2, <4>3, <5>1, <5>2
      <4>5. CASE u.role = "ack"
        <5>1. i = Resolution(Plan, a)
          BY <2>4, <2>7, <4>3, <4>5
        <5>2. Resolution(Plan, a) \notin Plan.funding
          BY <1>0, <2>3, <2>7 DEF Spending, AlternativeRoles
        <5>3. T("ack") # T("counterproof")
          BY <2>3 DEF AlternativeRoles
        <5>4. T("ack").outputs \cap T("counterproof").outputs = {}
          BY <1>0, <2>3, <5>3 DEF Spending, AlternativeRoles
        <5> QED
          BY <1>0, <2>7, <4>2, <5>1, <5>2, <5>4 DEF Spending
      <4>6. u.role # "slash"
        BY <2>4
      <4> QED
        BY <3>2, <4>4, <4>5, <4>6
    <3>4. confirmed = {T("counterproof"), T("ack"), T("slash")}
      BY <2>4, <2>5, <3>1, <3>2, <3>3
    <3>5. /\ T("counterproof") # T("ack") /\ T("counterproof") # T("slash")
          /\ T("ack") # T("slash")
      BY <2>3 DEF AlternativeRoles
    <3>6. Roles(confirmed) = {"counterproof", "ack", "slash"}
      BY <2>3, <3>4 DEF Roles, AlternativeRoles
    <3>7. Cardinality(confirmed) = 3
      <4>1. /\ IsFiniteSet({T("counterproof")}) /\ Cardinality({T("counterproof")}) = 1
        BY FS_Singleton
      <4>2. /\ IsFiniteSet({T("counterproof")} \cup {T("ack")})
            /\ Cardinality({T("counterproof")} \cup {T("ack")}) = 2
        BY <3>5, <4>1, FS_AddElement
      <4>3. Cardinality(({T("counterproof")} \cup {T("ack")}) \cup {T("slash")}) = 3
        BY <3>5, <4>2, FS_AddElement
      <4>4. confirmed = ({T("counterproof")} \cup {T("ack")}) \cup {T("slash")}
        BY <3>4
      <4> QED
        BY <4>3, <4>4
    <3> QED
      BY <2>6, <3>6, <3>7 DEF Branch
  <2> QED
    BY <2>9, <2>10
<1> QED
  BY <1>2, <1>3

(***************************************************************************)
(* The structural checks are enough for any number of alternatives: a      *)
(* graph they accept ends in the owner payout, or in the timeout or the    *)
(* slash of one alternative, whatever order its templates confirm in.      *)
(***************************************************************************)
THEOREM EndsAsExpected ==
  ASSUME \A c \in Cases : FreshBonds(c)
  PROVE  Spec => []OnlyExpectedBranches
<1> QED
  BY GraphStaysChained, StuckInBranch, PTL

(***************************************************************************)
(* The deposit goes to the recovery beneficiary with the counterproof and  *)
(* stays there; the slash follows its ACK and no timeout, for any number   *)
(* of alternatives and any order of confirmation (timeout_economics.py,    *)
(* SharedSelectionTimeoutPlanV1.assess).                                   *)
(***************************************************************************)
THEOREM DepositIsRecovered ==
  ASSUME \A c \in Cases : FreshBonds(c)
  PROVE  Spec => []DepositRecovered
<1> QED
  BY GraphStaysChained, DepositStays, PTL

(***************************************************************************)
(* What an outpoint of the bonded graph carries                            *)
(***************************************************************************)

PolicyTyped(q) == IsFiniteSet(q.reserves) /\ \A r \in q.reserves : r.amount \in Nat

\* What the overlay of a built graph has of ReservesFit.
OverlayFits(p, q) ==
  /\ \A r, s \in q.reserves : r.bond = s.bond => r = s
  /\ \A r \in q.reserves : /\ r.binds = r.alt
                           /\ DOMAIN r.siblingReturn = Alternatives(p) \ {r.alt}
  /\ TransitionsDistinct(q)
  /\ Overlay(q) \cap BondIds(q) = {}

Buildable(p, q) ==
  /\ PlanTyped(p) /\ NoStructuralBlocker(p) /\ PolicyTyped(q)
  /\ Apart(p, q) /\ OverlayFits(p, q)

Everything(p, q) == Known(p) \cup BondIds(q) \cup Overlay(q)
BoundTo(q, a) == {r \in q.reserves : r.binds = a}

LEMMA OverlayFitsPolicy ==
  ASSUME NEW p, NEW q, ReservesFit(p, q) \/ q.reserves = {}
  PROVE  OverlayFits(p, q)
<1>1. CASE ReservesFit(p, q)
  <2>1. Overlay(q) \cap BondIds(q) = {}
    BY <1>1 DEF ReservesFit, Overlay
  <2> QED
    BY <1>1, <2>1 DEF ReservesFit, OverlayFits
<1>2. CASE q.reserves = {}
  BY <1>2 DEF OverlayFits, TransitionsDistinct, Overlay
<1> QED
  BY <1>1, <1>2

\* Every bond and every overlay outpoint belongs to one reserve.
LEMMA OverlayOnce ==
  ASSUME NEW p, NEW q, OverlayFits(p, q), NEW r \in q.reserves
  PROVE  /\ r.bond \in BondIds(q) /\ BondReserve(q, r.bond) = r
         /\ \A i \in Transitions(r) :
              i \in Overlay(q) /\ i \notin BondIds(q) /\ OverlayReserve(q, i) = r
<1>1. r.bond \in BondIds(q) /\ BondReserve(q, r.bond) = r
  BY DEF OverlayFits, BondIds, BondReserve
<1>2. ASSUME NEW i \in Transitions(r)
      PROVE  i \in Overlay(q) /\ i \notin BondIds(q) /\ OverlayReserve(q, i) = r
  <2>1. i \in Overlay(q)
    BY <1>2 DEF Overlay
  <2>2. \A s \in q.reserves : i \in Transitions(s) => s = r
    BY <1>2 DEF OverlayFits, TransitionsDistinct
  <2>3. OverlayReserve(q, i) = r
    BY <1>2, <2>2 DEF OverlayReserve
  <2> QED
    BY <2>1, <2>3 DEF OverlayFits
<1> QED
  BY <1>1, <1>2

LEMMA KnownTyped ==
  ASSUME NEW p, PlanTyped(p)
  PROVE  \A i \in Known(p) : p.of[i].value \in Nat
BY DEF PlanTyped, Known, PlanOutputs

LEMMA AmountIs ==
  ASSUME NEW q, PolicyTyped(q), NEW R \in SUBSET q.reserves
  PROVE  /\ IsFiniteSet(R) /\ Amount(R) \in Int
         /\ \A f : (\A r \in q.reserves : f[r] = r.amount) => SumFunctionOnSet(f, R) = Amount(R)
<1>1. IsFiniteSet(R)
  BY FS_Subset DEF PolicyTyped
<1>2. PICK h : h = [r \in R |-> r.amount]
  OBVIOUS
<1>3. DOMAIN h = R /\ \A r \in R : h[r] = r.amount /\ h[r] \in Int
  BY <1>2 DEF PolicyTyped
<1>4. Amount(R) = SumFunctionOnSet(h, R)
  BY <1>2, <1>3 DEF Amount, SumFunction
<1>5. Amount(R) \in Int
  BY <1>1, <1>3, <1>4, SumType
<1>6. ASSUME NEW f, \A r \in q.reserves : f[r] = r.amount
      PROVE  SumFunctionOnSet(f, R) = Amount(R)
  <2>1. \A r \in R : h[r] \in Int /\ f[r] = h[r]
    BY <1>3, <1>6
  <2> QED
    BY <1>1, <1>4, <2>1, SumAgree
<1> QED
  BY <1>1, <1>5, <1>6

\* What every outpoint carries.
LEMMA Carries ==
  ASSUME NEW p, NEW q, PlanTyped(p), PolicyTyped(q), Apart(p, q), OverlayFits(p, q)
  PROVE  /\ \A i \in Known(p) :
              BondedValue(p, q, i) = p.of[i].value +
                (IF p.of[i].role = "resolution" THEN Amount(BoundTo(q, p.of[i].alt)) ELSE 0)
         /\ \A r \in q.reserves : /\ BondedValue(p, q, r.bond) = r.amount
                                  /\ \A i \in Transitions(r) : BondedValue(p, q, i) = r.amount
         /\ \A i \in Everything(p, q) : BondedValue(p, q, i) \in Int
<1>1. ASSUME NEW i \in Known(p)
      PROVE  /\ BondedValue(p, q, i) = p.of[i].value +
                  (IF p.of[i].role = "resolution" THEN Amount(BoundTo(q, p.of[i].alt)) ELSE 0)
             /\ BondedValue(p, q, i) \in Int
  <2>1. i \notin BondIds(q) /\ i \notin Overlay(q)
    BY DEF Apart
  <2>2. BondedValue(p, q, i) = p.of[i].value +
          (IF p.of[i].role = "resolution" THEN Amount(BoundTo(q, p.of[i].alt)) ELSE 0)
    BY <2>1 DEF BondedValue, BoundTo
  <2>3. Amount(BoundTo(q, p.of[i].alt)) \in Int
    BY AmountIs DEF BoundTo
  <2>4. p.of[i].value \in Int
    BY KnownTyped
  <2> QED
    BY <2>2, <2>3, <2>4
<1>2. ASSUME NEW r \in q.reserves
      PROVE  /\ BondedValue(p, q, r.bond) = r.amount
             /\ \A i \in Transitions(r) : BondedValue(p, q, i) = r.amount
  BY OverlayOnce DEF BondedValue
<1>3. ASSUME NEW i \in BondIds(q) \cup Overlay(q) PROVE BondedValue(p, q, i) \in Int
  <2>1. \E r \in q.reserves : i = r.bond \/ i \in Transitions(r)
    BY DEF BondIds, Overlay
  <2> QED
    BY <1>2, <2>1 DEF PolicyTyped
<1> QED
  BY <1>1, <1>2, <1>3 DEF Everything

Carried(p, q) == [i \in Everything(p, q) |-> BondedValue(p, q, i)]

LEMMA TotalIs ==
  ASSUME NEW p, NEW q, Buildable(p, q), NEW S \in SUBSET Everything(p, q), IsFiniteSet(S)
  PROVE  /\ TotalValue(p, q, S) = SumFunctionOnSet(Carried(p, q), S)
         /\ \A i \in S : Carried(p, q)[i] = BondedValue(p, q, i) /\ Carried(p, q)[i] \in Int
         /\ TotalValue(p, q, S) \in Int
<1>1. \A i \in S : Carried(p, q)[i] = BondedValue(p, q, i) /\ Carried(p, q)[i] \in Int
  BY Carries DEF Carried, Buildable
<1>2. PICK h : h = [i \in S |-> BondedValue(p, q, i)]
  OBVIOUS
<1>3. DOMAIN h = S /\ \A i \in S : Carried(p, q)[i] \in Int /\ h[i] = Carried(p, q)[i]
  BY <1>1, <1>2
<1>4. SumFunction(h) = SumFunctionOnSet(Carried(p, q), S)
  BY <1>3, SumOfFunction
<1>5. TotalValue(p, q, S) = SumFunction(h)
  BY <1>2 DEF TotalValue
<1>6. SumFunctionOnSet(Carried(p, q), S) \in Int
  BY <1>1, SumType
<1> QED
  BY <1>1, <1>4, <1>5, <1>6

LEMMA TotalUnion ==
  ASSUME NEW p, NEW q, Buildable(p, q),
         NEW S \in SUBSET Everything(p, q), NEW T \in SUBSET Everything(p, q),
         IsFiniteSet(S), IsFiniteSet(T), S \cap T = {}
  PROVE  /\ TotalValue(p, q, S \cup T) = TotalValue(p, q, S) + TotalValue(p, q, T)
         /\ TotalValue(p, q, S) \in Int /\ TotalValue(p, q, T) \in Int
<1>1. PICK U \in SUBSET Everything(p, q) : U = S \cup T
  OBVIOUS
<1>2. IsFiniteSet(U)
  BY <1>1, FS_Union
<1>3. \A x \in S \cup T : Carried(p, q)[x] \in Int
  BY <1>1, <1>2, TotalIs
<1>4. SumFunctionOnSet(Carried(p, q), S \cup T)
        = SumFunctionOnSet(Carried(p, q), S) + SumFunctionOnSet(Carried(p, q), T)
  BY <1>3, SumUnion
<1>5. /\ TotalValue(p, q, U) = SumFunctionOnSet(Carried(p, q), U)
      /\ TotalValue(p, q, S) = SumFunctionOnSet(Carried(p, q), S) /\ TotalValue(p, q, S) \in Int
      /\ TotalValue(p, q, T) = SumFunctionOnSet(Carried(p, q), T) /\ TotalValue(p, q, T) \in Int
  BY <1>2, TotalIs
<1> QED
  BY <1>1, <1>2, <1>4, <1>5

LEMMA TotalEmpty ==
  ASSUME NEW p, NEW q, Buildable(p, q)
  PROVE  TotalValue(p, q, {}) = 0
<1>1. TotalValue(p, q, {}) = SumFunctionOnSet(Carried(p, q), {})
  BY FS_EmptySet, TotalIs
<1>2. SumFunctionOnSet(Carried(p, q), {}) = 0
  BY FS_EmptySet, SumType
<1> QED
  BY <1>1, <1>2

\* S has one outpoint, b[r], of every reserve of R.
Picked(q, R, b, S) ==
  /\ S = {b[r] : r \in R}
  /\ \A r, s \in R : b[r] = b[s] => r = s
  /\ \A r \in R : b[r] = r.bond \/ b[r] \in Transitions(r)

\* S carries what the reserves of R amount to.
CarriesFor(p, q, S, R) ==
  /\ IsFiniteSet(S) /\ S \subseteq Everything(p, q)
  /\ TotalValue(p, q, S) = Amount(R)

LEMMA TotalReserves ==
  ASSUME NEW p, NEW q, Buildable(p, q), NEW R \in SUBSET q.reserves, NEW b, NEW S, Picked(q, R, b, S)
  PROVE  CarriesFor(p, q, S, R)
<1>1. PICK f : f = [r \in q.reserves |-> r.amount]
  OBVIOUS
<1>2. IsFiniteSet(R) /\ SumFunctionOnSet(f, R) = Amount(R) /\ \A r \in R : f[r] \in Int
  BY <1>1, AmountIs DEF Buildable, PolicyTyped
<1>3. \A r \in R : b[r] \in Everything(p, q) /\ BondedValue(p, q, b[r]) = f[r]
  BY <1>1, OverlayOnce, Carries DEF Buildable, Everything, Picked
<1>4. S \in SUBSET Everything(p, q)
  BY <1>3 DEF Picked
<1>5. PICK h : h = Carried(p, q)
  OBVIOUS
<1>6. \A r \in R : h[b[r]] = f[r]
  BY <1>3, <1>5 DEF Carried
<1>7. IsFiniteSet(S) /\ SumFunctionOnSet(h, S) = SumFunctionOnSet(f, R)
  <2>1. Moves(R, f, b, S, h)
    BY <1>2, <1>6 DEF Moves, Picked
  <2> QED
    BY <1>2, <2>1, SumImage
<1>8. TotalValue(p, q, S) = SumFunctionOnSet(Carried(p, q), S)
  BY <1>4, <1>7, TotalIs
<1> QED
  BY <1>2, <1>4, <1>5, <1>7, <1>8 DEF CarriesFor

LEMMA ValueIs ==
  ASSUME NEW p, PlanTyped(p), NEW S \in SUBSET Known(p), IsFiniteSet(S)
  PROVE  /\ ValueOf(p, S) \in Int
         /\ \A f : (\A i \in S : f[i] = p.of[i].value) => SumFunctionOnSet(f, S) = ValueOf(p, S)
<1>1. PICK h : h = [i \in S |-> p.of[i].value]
  OBVIOUS
<1>2. DOMAIN h = S /\ \A i \in S : h[i] = p.of[i].value /\ h[i] \in Int
  BY <1>1, KnownTyped
<1>3. ValueOf(p, S) = SumFunctionOnSet(h, S)
  BY <1>1, <1>2 DEF ValueOf, SumFunction
<1>4. SumFunctionOnSet(h, S) \in Int
  BY <1>2, SumType
<1>5. ASSUME NEW f, \A i \in S : f[i] = p.of[i].value
      PROVE  SumFunctionOnSet(f, S) = ValueOf(p, S)
  <2>1. \A i \in S : h[i] \in Int /\ f[i] = h[i]
    BY <1>2, <1>5
  <2> QED
    BY <1>3, <2>1, SumAgree
<1> QED
  BY <1>3, <1>4, <1>5

\* Outpoints of the plan other than a resolution carry their planned value.
LEMMA TotalPlain ==
  ASSUME NEW p, NEW q, Buildable(p, q), NEW S \in SUBSET Known(p), IsFiniteSet(S),
         \A i \in S : p.of[i].role # "resolution"
  PROVE  TotalValue(p, q, S) = ValueOf(p, S) /\ S \in SUBSET Everything(p, q)
<1>1. S \in SUBSET Everything(p, q)
  BY DEF Everything
<1>2. PICK f : f = Carried(p, q)
  OBVIOUS
<1>3. TotalValue(p, q, S) = SumFunctionOnSet(f, S) /\ \A i \in S : f[i] = BondedValue(p, q, i)
  BY <1>1, <1>2, TotalIs
<1>4. \A i \in S : f[i] = p.of[i].value
  <2>1. \A i \in S : p.of[i].value \in Int
    BY KnownTyped DEF Buildable
  <2> QED
    BY <1>3, <2>1, Carries DEF Buildable
<1>5. SumFunctionOnSet(f, S) = ValueOf(p, S)
  BY <1>4, ValueIs DEF Buildable
<1> QED
  BY <1>1, <1>3, <1>5

\* The resolution of an alternative carries the bond as well.
LEMMA TotalResolution ==
  ASSUME NEW p, NEW q, Buildable(p, q), NEW S \in SUBSET Known(p), IsFiniteSet(S),
         NEW i \in S, p.of[i].role = "resolution",
         \A j \in S : p.of[j].role = "resolution" => j = i
  PROVE  /\ TotalValue(p, q, S) = ValueOf(p, S) + Amount(BoundTo(q, p.of[i].alt))
         /\ S \in SUBSET Everything(p, q)
<1>1. PICK T \in SUBSET Known(p) : T = S \ {i}
  OBVIOUS
<1>2. PICK R \in SUBSET Known(p) : R = {i}
  OBVIOUS
<1>3. IsFiniteSet(T) /\ IsFiniteSet(R) /\ T \cup R = S /\ T \cap R = {}
  <2>1. IsFiniteSet(T)
    BY <1>1, FS_Subset
  <2>2. IsFiniteSet(R)
    BY <1>2, FS_Singleton
  <2> QED
    BY <1>1, <1>2, <2>1, <2>2
<1>4. TotalValue(p, q, T) = ValueOf(p, T) /\ T \in SUBSET Everything(p, q)
  BY <1>1, <1>3, TotalPlain
<1>5. R \in SUBSET Everything(p, q) /\ S \in SUBSET Everything(p, q)
  BY DEF Everything
<1>6. TotalValue(p, q, S) = TotalValue(p, q, T) + TotalValue(p, q, R)
  BY <1>3, <1>4, <1>5, TotalUnion
<1>7. TotalValue(p, q, R) = BondedValue(p, q, i)
  <2>1. PICK f : f = Carried(p, q)
    OBVIOUS
  <2>2. TotalValue(p, q, R) = SumFunctionOnSet(f, R) /\ f[i] = BondedValue(p, q, i) /\ f[i] \in Int
    BY <1>2, <1>3, <1>5, <2>1, TotalIs
  <2>3. SumFunctionOnSet(f, {i}) = f[i]
    BY <2>2, SumSingle
  <2> QED
    BY <1>2, <2>2, <2>3
<1>8. BondedValue(p, q, i) = p.of[i].value + Amount(BoundTo(q, p.of[i].alt))
  BY Carries DEF Buildable
<1>9. ValueOf(p, S) = ValueOf(p, T) + p.of[i].value
  <2>1. PICK f : f = [j \in S |-> p.of[j].value]
    OBVIOUS
  <2>2. \A j \in S : f[j] = p.of[j].value /\ f[j] \in Int
    BY <2>1, KnownTyped DEF Buildable
  <2>3. \A j \in T \cup R : f[j] \in Int
    BY <1>3, <2>2
  <2>4. SumFunctionOnSet(f, T \cup R) = SumFunctionOnSet(f, T) + SumFunctionOnSet(f, R)
    BY <1>3, <2>3, SumUnion
  <2>5. SumFunctionOnSet(f, S) = ValueOf(p, S)
    BY <2>2, ValueIs DEF Buildable
  <2>6. SumFunctionOnSet(f, T) = ValueOf(p, T)
    BY <1>1, <1>3, <2>2, ValueIs DEF Buildable
  <2>7. SumFunctionOnSet(f, {i}) = f[i]
    BY <2>2, SumSingle
  <2> QED
    BY <1>2, <1>3, <2>2, <2>4, <2>5, <2>6, <2>7
<1>10. ValueOf(p, T) \in Int /\ p.of[i].value \in Int
  BY <1>1, <1>3, ValueIs, KnownTyped DEF Buildable
<1>11. Amount(BoundTo(q, p.of[i].alt)) \in Int
  BY AmountIs DEF Buildable, BoundTo
<1> QED
  BY <1>4, <1>5, <1>6, <1>7, <1>8, <1>9, <1>10, <1>11

-----------------------------------------------------------------------------
(* A template of the bonded graph conserves value *)

\* Outputs that are exactly the expected ones are told apart by what they are.
LEMMA ExactlyOnce ==
  ASSUME NEW p, NEW outputs, NEW expected, IsFiniteSet(outputs), Exactly(p, outputs, expected),
         NEW i \in outputs, NEW j \in outputs, p.of[i] = p.of[j]
  PROVE  i = j
<1>1. PICK f : f = [k \in outputs |-> p.of[k]]
  OBVIOUS
<1>2. f \in Surjection(outputs, expected) /\ Cardinality(outputs) = Cardinality(expected)
  BY <1>1 DEF Surjection, Exactly
<1>3. f \in Injection(outputs, expected)
  BY <1>2, FS_SurjSameCardinalityImpliesInj
<1> QED
  BY <1>1, <1>3 DEF Injection, IsInjective

\* Only a counterproof creates a resolution, and only one.
LEMMA ResolutionOnce ==
  ASSUME NEW p, PlanTyped(p), NoStructuralBlocker(p), NEW t \in p.txs, NEW i \in t.outputs,
         p.of[i].role = "resolution"
  PROVE  t.role = "counterproof" /\ i = Resolution(p, t.alt)
<1>0. /\ Spending(p) /\ OwnerPayout(p)
      /\ \A a \in Alternatives(p) : Counterproof(p, a) /\ Ack(p, a) /\ Timeout(p, a) /\ Slash(p, a)
  BY ShapeSpending DEF NoStructuralBlocker
<1>1. CASE t.role = "owner-payout"
  <2>1. PICK k \in t.outputs :
          Exactly(p, t.outputs, {Outpoint("beneficiary", p.of[k].value, NoAlt, p.owner)}
                                 \cup ReserveReturns(p, Alternatives(p)))
    BY <1>0, <1>1 DEF OwnerPayout
  <2>2. p.of[i] \in {Outpoint("beneficiary", p.of[k].value, NoAlt, p.owner)}
                      \cup ReserveReturns(p, Alternatives(p))
    BY <2>1 DEF Exactly
  <2> QED
    BY <2>2 DEF Outpoint, ReserveReturns
<1>2. CASE t.role \in AlternativeRoles
  <2> DEFINE a == t.alt
  <2>1. /\ Counterproof(p, a) /\ Ack(p, a) /\ Timeout(p, a) /\ Slash(p, a)
        /\ \A role \in AlternativeRoles : t.role = role => t = Template(p, role, a)
    BY <1>0, <1>2 DEF Spending
  <2>2. CASE t.role = "counterproof"
    <3>1. t = Template(p, "counterproof", a)
      BY <2>1, <2>2 DEF AlternativeRoles
    <3> DEFINE expected ==
          {Outpoint("protected-recovery", p.of[The(p, "deposit")].value, a, p.recovery),
           Outpoint("resolution", p.resolutionValue, a, NoOne), Anchor(p, a)}
          \cup ReserveReturns(p, Alternatives(p) \ {a})
    <3>2. Exactly(p, t.outputs, expected)
      BY <2>1, <3>1 DEF Counterproof
    <3>3. \A x \in expected : x.role = "resolution" => x = Outpoint("resolution", p.resolutionValue, a, NoOne)
      BY DEF Outpoint, Anchor, ReserveReturns
    <3> HIDE DEF expected
    <3>4. \A j \in t.outputs : p.of[j].role = "resolution" =>
            p.of[j] = Outpoint("resolution", p.resolutionValue, a, NoOne)
      BY <3>2, <3>3 DEF Exactly
    <3>5. Resolution(p, a) \in t.outputs /\ p.of[Resolution(p, a)].role = "resolution"
      BY <2>1, <3>1, Connectors
    <3>6. p.of[i] = p.of[Resolution(p, a)]
      BY <3>4, <3>5
    <3>7. i = Resolution(p, a)
      BY <3>2, <3>5, <3>6, ExactlyOnce DEF PlanTyped
    <3> QED
      BY <2>2, <3>7
  <2>3. CASE t.role = "ack"
    <3>1. t = Template(p, "ack", a)
      BY <2>1, <2>3 DEF AlternativeRoles
    <3>2. p.of[i] \in {Outpoint("slash-authorization", p.authorizationValue, a, NoOne), Anchor(p, a)}
      BY <2>1, <3>1 DEF Ack, Exactly
    <3>3. p.of[i].role \in {"slash-authorization", "cpfp-anchor"}
      BY <3>2 DEF Outpoint, Anchor
    <3> QED
      BY <3>3
  <2>4. CASE t.role = "timeout"
    <3>1. t = Template(p, "timeout", a)
      BY <2>1, <2>4 DEF AlternativeRoles
    <3>2. \/ p.of[i] = Outpoint("cpfp-anchor", p.timeoutCpfpValue, a, p.timeoutCpfp)
          \/ \E j \in t.outputs : p.of[i] = Outpoint("protected-recovery", p.of[j].value, a, p.recovery)
      BY <2>1, <3>1 DEF Timeout, Exactly
    <3>3. \A v, to : /\ Outpoint("cpfp-anchor", v, a, to).role = "cpfp-anchor"
                     /\ Outpoint("protected-recovery", v, a, to).role = "protected-recovery"
      BY DEF Outpoint
    <3>4. p.of[i].role \in {"protected-recovery", "cpfp-anchor"}
      BY <3>2, <3>3
    <3> QED
      BY <3>4
  <2>5. CASE t.role = "slash"
    <3>1. t = Template(p, "slash", a)
      BY <2>1, <2>5 DEF AlternativeRoles
    <3>2. p.of[i] \in {Outpoint("protocol-header", 0, a, NoOne)} \cup
             {Outpoint("beneficiary", x.value, a, x.to) : x \in p.slashPays[a]}
      BY <2>1, <3>1 DEF Slash, Exactly
    <3>3. p.of[i].role \in {"protocol-header", "beneficiary"}
      BY <3>2 DEF Outpoint
    <3> QED
      BY <3>3
  <2> QED
    BY <1>2, <2>2, <2>3, <2>4, <2>5 DEF AlternativeRoles
<1> QED
  BY <1>0, <1>1, <1>2 DEF Spending, TransactionRoles

LEMMA ResolutionFacts ==
  ASSUME NEW p, NEW a, Counterproof(p, a)
  PROVE  p.of[Resolution(p, a)].role = "resolution" /\ p.of[Resolution(p, a)].alt = a
<1> DEFINE t == Template(p, "counterproof", a)
           expected ==
             {Outpoint("protected-recovery", p.of[The(p, "deposit")].value, a, p.recovery),
              Outpoint("resolution", p.resolutionValue, a, NoOne), Anchor(p, a)}
             \cup ReserveReturns(p, Alternatives(p) \ {a})
<1>1. {p.of[i] : i \in t.outputs} = expected
  BY DEF Counterproof, Exactly
<1>2. \A x \in expected : x.role = "resolution" => x.alt = a
  BY DEF Outpoint, Anchor, ReserveReturns
<1>3. Outpoint("resolution", p.resolutionValue, a, NoOne) \in expected
  OBVIOUS
<1> HIDE DEF expected
<1>6. \E i \in t.outputs : p.of[i] = Outpoint("resolution", p.resolutionValue, a, NoOne)
  BY <1>1, <1>3
<1>4. \E i \in t.outputs : p.of[i].role = "resolution"
  BY <1>6 DEF Outpoint
<1>5. Resolution(p, a) \in t.outputs /\ p.of[Resolution(p, a)].role = "resolution"
  BY <1>4 DEF Resolution, OutputOf
<1> QED
  BY <1>1, <1>2, <1>5

SiblingsOf(q, a) == {s \in q.reserves : a \in DOMAIN s.siblingReturn}

\* What the bonds and the overlay outpoints of one template carry together.
LEMMA OverlayTotals ==
  ASSUME NEW p, NEW q, Buildable(p, q)
  PROVE  /\ CarriesFor(p, q, BondIds(q), q.reserves)
         /\ CarriesFor(p, q, {r.ownerReturn : r \in q.reserves}, q.reserves)
         /\ \A a :
            /\ CarriesFor(p, q, {r.siblingReturn[a] : r \in SiblingsOf(q, a)}, SiblingsOf(q, a))
            /\ CarriesFor(p, q, {r.ackRefund : r \in BoundTo(q, a)}, BoundTo(q, a))
            /\ CarriesFor(p, q, {r.compensation : r \in BoundTo(q, a)}, BoundTo(q, a))
<1>0. /\ \A r, s \in q.reserves : r.bond = s.bond => r = s
      /\ \A r \in q.reserves : \A i \in Transitions(r) : i \in Overlay(q) /\ OverlayReserve(q, i) = r
  BY OverlayOnce DEF Buildable, OverlayFits
<1>a. ASSUME NEW R \in SUBSET q.reserves, NEW b, NEW S, S = {b[r] : r \in R},
             \A r \in R : b[r] \in Transitions(r)
      PROVE  CarriesFor(p, q, S, R)
  <2>1. \A r, s \in R : b[r] = b[s] => r = s
    BY <1>0, <1>a
  <2>2. Picked(q, R, b, S)
    BY <1>a, <2>1 DEF Picked
  <2> QED
    BY <2>2, TotalReserves
<1>1. CarriesFor(p, q, BondIds(q), q.reserves)
  <2>1. PICK b : b = [r \in q.reserves |-> r.bond]
    OBVIOUS
  <2>2. PICK R \in SUBSET q.reserves : R = q.reserves
    OBVIOUS
  <2>3. Picked(q, R, b, BondIds(q))
    BY <1>0, <2>1, <2>2 DEF Picked, BondIds
  <2> QED
    BY <2>2, <2>3, TotalReserves
<1>2. CarriesFor(p, q, {r.ownerReturn : r \in q.reserves}, q.reserves)
  <2>1. PICK b : b = [r \in q.reserves |-> r.ownerReturn]
    OBVIOUS
  <2>2. PICK R \in SUBSET q.reserves : R = q.reserves
    OBVIOUS
  <2>3. \A r \in R : b[r] \in Transitions(r)
    BY <2>1, <2>2 DEF Transitions
  <2>4. {b[r] : r \in R} = {r.ownerReturn : r \in q.reserves}
    BY <2>1, <2>2
  <2>5. CarriesFor(p, q, {b[r] : r \in R}, R)
    BY <1>a, <2>3
  <2> QED
    BY <2>2, <2>4, <2>5
<1>3. ASSUME NEW a
      PROVE  CarriesFor(p, q, {r.siblingReturn[a] : r \in SiblingsOf(q, a)}, SiblingsOf(q, a))
  <2>1. PICK b : b = [r \in q.reserves |-> r.siblingReturn[a]]
    OBVIOUS
  <2>2. PICK R \in SUBSET q.reserves : R = SiblingsOf(q, a)
    BY DEF SiblingsOf
  <2>3. \A r \in R : b[r] \in Transitions(r)
    BY <2>1, <2>2 DEF Transitions, SiblingsOf
  <2>4. {b[r] : r \in R} = {r.siblingReturn[a] : r \in SiblingsOf(q, a)}
    BY <2>1, <2>2
  <2>5. CarriesFor(p, q, {b[r] : r \in R}, R)
    BY <1>a, <2>3
  <2> QED
    BY <2>2, <2>4, <2>5
<1>4. ASSUME NEW a
      PROVE  /\ CarriesFor(p, q, {r.ackRefund : r \in BoundTo(q, a)}, BoundTo(q, a))
             /\ CarriesFor(p, q, {r.compensation : r \in BoundTo(q, a)}, BoundTo(q, a))
  <2>1. PICK R \in SUBSET q.reserves : R = BoundTo(q, a)
    BY DEF BoundTo
  <2>2. PICK b : b = [r \in q.reserves |-> r.ackRefund]
    OBVIOUS
  <2>3. PICK c : c = [r \in q.reserves |-> r.compensation]
    OBVIOUS
  <2>4. \A r \in R : b[r] \in Transitions(r) /\ c[r] \in Transitions(r)
    BY <2>1, <2>2, <2>3 DEF Transitions
  <2>5. /\ {b[r] : r \in R} = {r.ackRefund : r \in BoundTo(q, a)}
        /\ {c[r] : r \in R} = {r.compensation : r \in BoundTo(q, a)}
    BY <2>1, <2>2, <2>3
  <2>6. CarriesFor(p, q, {b[r] : r \in R}, R) /\ CarriesFor(p, q, {c[r] : r \in R}, R)
    BY <1>a, <2>4
  <2> QED
    BY <2>1, <2>5, <2>6
<1> QED
  BY <1>1, <1>2, <1>3, <1>4

LEMMA AmountSplits ==
  ASSUME NEW p, NEW q, Buildable(p, q), NEW a \in Alternatives(p)
  PROVE  Amount(q.reserves) = Amount(SiblingsOf(q, a)) + Amount(BoundTo(q, a))
<1>1. PICK R : R = q.reserves
  OBVIOUS
<1>2. PICK T \in SUBSET R : T = BoundTo(q, a)
  BY <1>1 DEF BoundTo
<1>3. R \ T = SiblingsOf(q, a)
  BY <1>1, <1>2 DEF BoundTo, SiblingsOf, Buildable, OverlayFits
<1>4. PICK f : f = [r \in R |-> r.amount]
  OBVIOUS
<1>5. IsFiniteSet(R) /\ \A r \in R : f[r] \in Int /\ f[r] = r.amount
  BY <1>1, <1>4 DEF Buildable, PolicyTyped
<1>6. SumFunctionOnSet(f, R) = SumFunctionOnSet(f, R \ T) + SumFunctionOnSet(f, T)
  BY <1>5, SumDifference
<1>7. /\ SumFunctionOnSet(f, R) = Amount(R)
      /\ SumFunctionOnSet(f, R \ T) = Amount(R \ T)
      /\ SumFunctionOnSet(f, T) = Amount(T)
  <2>1. R \ T \in SUBSET q.reserves /\ R \in SUBSET q.reserves /\ T \in SUBSET q.reserves
    BY <1>1
  <2>2. \A r \in q.reserves : f[r] = r.amount
    BY <1>1, <1>5
  <2> QED
    BY <2>1, <2>2, AmountIs DEF Buildable
<1> QED
  BY <1>1, <1>2, <1>3, <1>6, <1>7

LEMMA AddedTotal ==
  ASSUME NEW p, NEW q, Buildable(p, q), NEW S, NEW R, CarriesFor(p, q, S, R), S \cap Known(p) = {},
         NEW T \in SUBSET Known(p), IsFiniteSet(T)
  PROVE  /\ IsFiniteSet(T \cup S) /\ T \cup S \subseteq Everything(p, q)
         /\ TotalValue(p, q, T \cup S) = TotalValue(p, q, T) + Amount(R)
<1>1. T \in SUBSET Everything(p, q) /\ S \in SUBSET Everything(p, q) /\ T \cap S = {}
  BY DEF Everything, CarriesFor
<1>2. IsFiniteSet(S) /\ TotalValue(p, q, S) = Amount(R)
  BY DEF CarriesFor
<1>3. TotalValue(p, q, T \cup S) = TotalValue(p, q, T) + TotalValue(p, q, S)
  BY <1>1, <1>2, TotalUnion
<1>4. IsFiniteSet(T \cup S)
  BY <1>2, FS_Union
<1> QED
  BY <1>1, <1>2, <1>3, <1>4

LEMMA OverlayOutputs ==
  ASSUME NEW p, NEW q, Buildable(p, q), NEW S, NEW R, CarriesFor(p, q, S, R), S \subseteq Overlay(q),
         NEW T \in SUBSET Known(p), IsFiniteSet(T)
  PROVE  /\ IsFiniteSet(T \cup S) /\ T \cup S \subseteq Everything(p, q)
         /\ TotalValue(p, q, T \cup S) = TotalValue(p, q, T) + Amount(R)
<1>1. S \cap Known(p) = {}
  BY DEF Buildable, Apart
<1> QED
  BY <1>1, AddedTotal

LEMMA BondInputs ==
  ASSUME NEW p, NEW q, Buildable(p, q), NEW T \in SUBSET Known(p), IsFiniteSet(T)
  PROVE  /\ IsFiniteSet(T \cup BondIds(q)) /\ T \cup BondIds(q) \subseteq Everything(p, q)
         /\ TotalValue(p, q, T \cup BondIds(q)) = TotalValue(p, q, T) + Amount(q.reserves)
<1>1. CarriesFor(p, q, BondIds(q), q.reserves)
  BY OverlayTotals
<1>2. BondIds(q) \cap Known(p) = {}
  BY DEF Buildable, Apart
<1> QED
  BY <1>1, <1>2, AddedTotal

\* With its bonds and its overlay outputs a template conserves value.
LEMMA TemplateBalances ==
  ASSUME NEW p, NEW q, Buildable(p, q), NEW t \in p.txs
  PROVE  /\ IsFiniteSet(BondedInputs(q, t)) /\ BondedInputs(q, t) \subseteq Everything(p, q)
         /\ IsFiniteSet(BondedOutputs(q, t)) /\ BondedOutputs(q, t) \subseteq Everything(p, q)
         /\ TotalValue(p, q, BondedInputs(q, t)) = TotalValue(p, q, BondedOutputs(q, t)) + t.fee
<1>0. /\ PlanTyped(p) /\ Spending(p) /\ NoStructuralBlocker(p) /\ TemplatesConserve(p)
      /\ ResourceRoster(p)
      /\ \A a \in Alternatives(p) : Counterproof(p, a) /\ Ack(p, a)
  BY ShapeSpending DEF Buildable, NoStructuralBlocker
<1>1. /\ t.inputs \in SUBSET Known(p) /\ IsFiniteSet(t.inputs)
      /\ t.outputs \in SUBSET Known(p) /\ IsFiniteSet(t.outputs)
  BY <1>0, InputsKnown DEF PlanTyped, Known, PlanOutputs
<1>2. ValueOf(p, t.inputs) = ValueOf(p, t.outputs) + t.fee
  BY <1>0 DEF TemplatesConserve
<1>3. ValueOf(p, t.inputs) \in Int /\ ValueOf(p, t.outputs) \in Int /\ t.fee \in Int
  BY <1>0, <1>1, ValueIs DEF PlanTyped
<1>4. \A i \in p.funding : p.of[i].role # "resolution"
  BY <1>0 DEF ResourceRoster, FundingRoles
<1>5. \A R \in SUBSET q.reserves : Amount(R) \in Int
  BY AmountIs DEF Buildable
<1>6. \A a : SiblingsOf(q, a) \in SUBSET q.reserves /\ BoundTo(q, a) \in SUBSET q.reserves
  BY DEF SiblingsOf, BoundTo
<1>7. CASE t.role = "owner-payout"
  <2>1. PICK S : S = {r.ownerReturn : r \in q.reserves}
    OBVIOUS
  <2>2. CarriesFor(p, q, S, q.reserves) /\ S \subseteq Overlay(q)
    <3>1. CarriesFor(p, q, S, q.reserves)
      BY <2>1, OverlayTotals
    <3>2. S \subseteq Overlay(q)
      BY <2>1 DEF Overlay, Transitions
    <3> QED
      BY <3>1, <3>2
  <2>3. BondedInputs(q, t) = t.inputs \cup BondIds(q) /\ BondedOutputs(q, t) = t.outputs \cup S
    BY <1>7, <2>1 DEF BondedInputs, BondedOutputs
  <2>4. TotalValue(p, q, t.inputs) = ValueOf(p, t.inputs)
    BY <1>0, <1>1, <1>4, <1>7, TotalPlain DEF Spending
  <2>5. TotalValue(p, q, t.outputs) = ValueOf(p, t.outputs)
    <3>1. \A i \in t.outputs : p.of[i].role # "resolution"
      BY <1>0, <1>7, ResolutionOnce
    <3> QED
      BY <1>1, <3>1, TotalPlain
  <2>6. /\ IsFiniteSet(t.inputs \cup BondIds(q)) /\ t.inputs \cup BondIds(q) \subseteq Everything(p, q)
        /\ TotalValue(p, q, t.inputs \cup BondIds(q))
             = TotalValue(p, q, t.inputs) + Amount(q.reserves)
    BY <1>1, BondInputs
  <2>7. /\ IsFiniteSet(t.outputs \cup S) /\ t.outputs \cup S \subseteq Everything(p, q)
        /\ TotalValue(p, q, t.outputs \cup S) = TotalValue(p, q, t.outputs) + Amount(q.reserves)
    BY <1>1, <2>2, OverlayOutputs
  <2>8. Amount(q.reserves) \in Int
    BY <1>5
  <2> QED
    BY <1>2, <1>3, <2>3, <2>4, <2>5, <2>6, <2>7, <2>8
<1>8. CASE t.role \in AlternativeRoles
  <2>1. PICK a : a = t.alt
    OBVIOUS
  <2>2. /\ a \in Alternatives(p) /\ Counterproof(p, a) /\ Ack(p, a)
        /\ t.role = "counterproof" => t = Template(p, "counterproof", a)
    BY <1>0, <1>8, <2>1 DEF Spending, AlternativeRoles
  <2>3. p.of[Resolution(p, a)].role = "resolution" /\ p.of[Resolution(p, a)].alt = a
    BY <2>2, ResolutionFacts
  <2>4. Amount(SiblingsOf(q, a)) \in Int /\ Amount(BoundTo(q, a)) \in Int
    BY <1>5, <1>6
  <2>5. t.role # "counterproof" => TotalValue(p, q, t.outputs) = ValueOf(p, t.outputs)
    <3>1. t.role # "counterproof" => \A i \in t.outputs : p.of[i].role # "resolution"
      BY <1>0, ResolutionOnce
    <3> QED
      BY <1>1, <3>1, TotalPlain
  <2>6. t.role \in {"ack", "timeout"} =>
          TotalValue(p, q, t.inputs) = ValueOf(p, t.inputs) + Amount(BoundTo(q, a))
    <3>1. t.role \in {"ack", "timeout"} =>
            /\ Resolution(p, a) \in t.inputs
            /\ \A j \in t.inputs : j = Resolution(p, a) \/ j \in p.funding
      BY <1>0, <1>8, <2>1 DEF Spending
    <3> QED
      BY <1>1, <1>4, <2>3, <3>1, TotalResolution
  <2>7. CASE t.role = "counterproof"
    <3>1. PICK S : S = {r.siblingReturn[a] : r \in SiblingsOf(q, a)}
      OBVIOUS
    <3>2. CarriesFor(p, q, S, SiblingsOf(q, a)) /\ S \subseteq Overlay(q)
      <4>1. CarriesFor(p, q, S, SiblingsOf(q, a))
        BY <3>1, OverlayTotals
      <4>2. S \subseteq Overlay(q)
        BY <3>1 DEF Overlay, Transitions, SiblingsOf
      <4> QED
        BY <4>1, <4>2
    <3>3. BondedInputs(q, t) = t.inputs \cup BondIds(q) /\ BondedOutputs(q, t) = t.outputs \cup S
      BY <2>1, <2>7, <3>1 DEF BondedInputs, BondedOutputs, SiblingsOf
    <3>4. TotalValue(p, q, t.inputs) = ValueOf(p, t.inputs)
      BY <1>0, <1>1, <1>4, <2>7, TotalPlain DEF Spending
    <3>5. TotalValue(p, q, t.outputs) = ValueOf(p, t.outputs) + Amount(BoundTo(q, a))
      <4>1. Resolution(p, a) \in t.outputs
        BY <2>2, <2>7, Connectors
      <4>2. \A j \in t.outputs : p.of[j].role = "resolution" => j = Resolution(p, a)
        BY <1>0, <2>1, ResolutionOnce
      <4> QED
        BY <1>1, <2>3, <4>1, <4>2, TotalResolution
    <3>6. /\ IsFiniteSet(t.inputs \cup BondIds(q)) /\ t.inputs \cup BondIds(q) \subseteq Everything(p, q)
          /\ TotalValue(p, q, t.inputs \cup BondIds(q))
               = TotalValue(p, q, t.inputs) + Amount(q.reserves)
      BY <1>1, BondInputs
    <3>7. /\ IsFiniteSet(t.outputs \cup S) /\ t.outputs \cup S \subseteq Everything(p, q)
          /\ TotalValue(p, q, t.outputs \cup S)
               = TotalValue(p, q, t.outputs) + Amount(SiblingsOf(q, a))
      BY <1>1, <3>2, OverlayOutputs
    <3>8. Amount(q.reserves) = Amount(SiblingsOf(q, a)) + Amount(BoundTo(q, a))
      BY <2>2, AmountSplits
    <3> QED
      BY <1>2, <1>3, <2>4, <3>3, <3>4, <3>5, <3>6, <3>7, <3>8
  <2>8. CASE t.role \in {"ack", "timeout"}
    <3>1. PICK S : S = IF t.role = "ack" THEN {r.ackRefund : r \in BoundTo(q, a)}
                       ELSE {r.compensation : r \in BoundTo(q, a)}
      OBVIOUS
    <3>2. CarriesFor(p, q, S, BoundTo(q, a)) /\ S \subseteq Overlay(q)
      <4>1. CarriesFor(p, q, S, BoundTo(q, a))
        BY <3>1, OverlayTotals
      <4>2. S \subseteq Overlay(q)
        BY <3>1 DEF Overlay, Transitions, BoundTo
      <4> QED
        BY <4>1, <4>2
    <3>3. BondedInputs(q, t) = t.inputs /\ BondedOutputs(q, t) = t.outputs \cup S
      BY <2>1, <2>8, <3>1 DEF BondedInputs, BondedOutputs, BoundTo
    <3>4. /\ IsFiniteSet(t.outputs \cup S) /\ t.outputs \cup S \subseteq Everything(p, q)
          /\ TotalValue(p, q, t.outputs \cup S) = TotalValue(p, q, t.outputs) + Amount(BoundTo(q, a))
      BY <1>1, <3>2, OverlayOutputs, SMTT(30)
    <3>5. t.inputs \subseteq Everything(p, q)
      BY <1>1 DEF Everything
    <3> QED
      BY <1>1, <1>2, <1>3, <2>4, <2>5, <2>6, <2>8, <3>3, <3>4, <3>5
  <2>9. CASE t.role = "slash"
    <3>1. BondedInputs(q, t) = t.inputs /\ BondedOutputs(q, t) = t.outputs
      BY <2>9 DEF BondedInputs, BondedOutputs
    <3>2. \A i \in t.inputs : p.of[i].role # "resolution"
      <4>1. p.of[Authorization(p, a)].role = "slash-authorization"
        BY <2>2, Connectors
      <4> QED
        BY <1>0, <1>4, <1>8, <2>1, <2>9, <4>1 DEF Spending
    <3>3. TotalValue(p, q, t.inputs) = ValueOf(p, t.inputs)
      BY <1>1, <3>2, TotalPlain
    <3>4. t.inputs \subseteq Everything(p, q) /\ t.outputs \subseteq Everything(p, q)
      BY <1>1 DEF Everything
    <3> QED
      BY <1>1, <1>2, <2>5, <2>9, <3>1, <3>3, <3>4
  <2> QED
    BY <1>8, <2>7, <2>8, <2>9 DEF AlternativeRoles
<1> QED
  BY <1>0, <1>7, <1>8 DEF Spending, TransactionRoles

-----------------------------------------------------------------------------
(* Value through a whole run *)

\* The overlay outpoint i of the reserve r comes with the template t.
MintedBy(t, r, i) ==
  \/ t.role = "owner-payout" /\ i = r.ownerReturn
  \/ t.role = "counterproof" /\ t.alt \in DOMAIN r.siblingReturn /\ i = r.siblingReturn[t.alt]
  \/ t.role = "ack" /\ r.binds = t.alt /\ i = r.ackRefund
  \/ t.role = "timeout" /\ r.binds = t.alt /\ i = r.compensation

LEMMA OverlayMinted ==
  ASSUME NEW p, NEW q, Apart(p, q), NEW t \in p.txs, NEW i \in Overlay(q)
  PROVE  i \in BondedOutputs(q, t) <=> \E r \in q.reserves : MintedBy(t, r, i)
<1>1. i \notin t.outputs
  BY DEF Apart, Known, PlanOutputs
<1> QED
  BY <1>1 DEF BondedOutputs, MintedBy

\* No two templates create the same overlay outpoint.
LEMMA MintedOnce ==
  ASSUME NEW p, NEW q, Buildable(p, q), NEW t \in p.txs, NEW u \in p.txs, NEW i \in Overlay(q),
         i \in BondedOutputs(q, t), i \in BondedOutputs(q, u)
  PROVE  t = u
<1>0. Spending(p) /\ Apart(p, q)
  BY ShapeSpending DEF Buildable
<1>2. PICK r \in q.reserves : MintedBy(t, r, i)
  BY <1>0, OverlayMinted
<1>3. PICK s \in q.reserves : MintedBy(u, s, i)
  BY <1>0, OverlayMinted
<1>4. i \in Transitions(r) /\ i \in Transitions(s)
  BY <1>2, <1>3 DEF Transitions, MintedBy
<1>5. r = s
  BY <1>4, OverlayOnce DEF Buildable
<1>6. /\ r.ownerReturn # r.ackRefund /\ r.ownerReturn # r.compensation
      /\ r.ackRefund # r.compensation
      /\ \A a \in DOMAIN r.siblingReturn :
           r.siblingReturn[a] \notin {r.ownerReturn, r.ackRefund, r.compensation}
      /\ \A a, b \in DOMAIN r.siblingReturn : r.siblingReturn[a] = r.siblingReturn[b] => a = b
  BY DEF Buildable, OverlayFits, TransitionsDistinct, IsInjective, Range
<1>7. t.role = u.role
  BY <1>2, <1>3, <1>5, <1>6 DEF MintedBy
<1>8. t.role = "owner-payout" \/ (t.role \in AlternativeRoles /\ t.alt = u.alt)
  BY <1>2, <1>3, <1>5, <1>6, <1>7 DEF AlternativeRoles, MintedBy
<1> QED
  BY <1>0, <1>7, <1>8 DEF Spending

\* The bonds until the first template spends them, and the overlay outpoints
\* of the templates confirmed.
Minted ==
  /\ live \subseteq Everything(Plan, Policy)
  /\ \A i \in Overlay(Policy) : i \in live <=> \E t \in confirmed : i \in BondedOutputs(Policy, t)
  /\ \A i \in BondIds(Policy) :
       i \in live <=> \A t \in confirmed : t.role \notin {"owner-payout", "counterproof"}

ValueInv ==
  /\ verdict = "adequate" =>
       RostersMatch(Plan, Policy) /\ ReservesFit(Plan, Policy) /\ Covered(Plan, Policy)
  /\ Built => /\ Buildable(Plan, Policy)
              /\ Minted
              /\ IsFiniteSet(live) /\ IsFiniteSet(confirmed)
              /\ ValueConserved

LEMMA FeesAdd ==
  ASSUME NEW S, NEW T \in SUBSET S, IsFiniteSet(T), \A t \in S : t.fee \in Nat, NEW u \in S, u \notin T
  PROVE  Fees(T \cup {u}) = Fees(T) + u.fee /\ Fees(T) \in Int
<1>1. PICK f : f = [t \in S |-> t.fee]
  OBVIOUS
<1>2. \A t \in S : f[t] = t.fee /\ f[t] \in Int
  BY <1>1
<1>3. ASSUME NEW R \in SUBSET S, IsFiniteSet(R) PROVE Fees(R) = SumFunctionOnSet(f, R)
  <2>1. PICK h : h = [t \in R |-> t.fee]
    OBVIOUS
  <2>2. DOMAIN h = R /\ \A t \in R : f[t] \in Int /\ h[t] = f[t]
    BY <1>2, <2>1
  <2>3. SumFunction(h) = SumFunctionOnSet(f, R)
    BY <1>3, <2>2, SumOfFunction
  <2> QED
    BY <2>1, <2>3 DEF Fees
<1>4. PICK R \in SUBSET S : R = T \cup {u}
  OBVIOUS
<1>5. PICK U \in SUBSET S : U = {u}
  OBVIOUS
<1>6. IsFiniteSet(R) /\ IsFiniteSet(U) /\ T \cap U = {} /\ R = T \cup U
  <2>1. IsFiniteSet(R)
    BY <1>4, FS_AddElement
  <2>2. IsFiniteSet(U)
    BY <1>5, FS_Singleton
  <2> QED
    BY <1>4, <1>5, <2>1, <2>2
<1>7. SumFunctionOnSet(f, R) = SumFunctionOnSet(f, T) + SumFunctionOnSet(f, U)
  <2>1. \A x \in T \cup U : f[x] \in Int
    BY <1>2
  <2> QED
    BY <1>6, <2>1, SumUnion
<1>8. SumFunctionOnSet(f, {u}) = u.fee
  BY <1>2, SumSingle
<1>9. SumFunctionOnSet(f, T) \in Int
  BY <1>2, SumType
<1>10. Fees(T) = SumFunctionOnSet(f, T) /\ Fees(R) = SumFunctionOnSet(f, R)
  BY <1>3, <1>6
<1> QED
  BY <1>4, <1>5, <1>7, <1>8, <1>9, <1>10

LEMMA FeesNone == Fees({}) = 0
<1>1. PICK h : h = [t \in {} |-> t.fee]
  OBVIOUS
<1>2. SumFunctionOnSet(h, {}) = 0
  BY FS_EmptySet, SumType
<1> QED
  BY <1>1, <1>2 DEF Fees, SumFunction

\* The unspent outpoints stay those of the plan, the bonds and the overlay.
LEMMA ConfirmMints ==
  ASSUME GraphInv, ValueInv, Built, NEW u \in Plan.txs, Confirm(u)
  PROVE  /\ Minted' /\ IsFiniteSet(live') /\ IsFiniteSet(confirmed')
         /\ BondedOutputs(Policy, u) \cap (live \ BondedInputs(Policy, u)) = {}
<1>0. /\ Buildable(Plan, Policy) /\ Minted /\ IsFiniteSet(live) /\ IsFiniteSet(confirmed)
      /\ Chained /\ Spending(Plan) /\ Apart(Plan, Policy) /\ OverlayFits(Plan, Policy)
      /\ u \notin confirmed /\ confirmed \subseteq Plan.txs
      /\ confirmed' = confirmed \cup {u} /\ case' = case
      /\ BondedInputs(Policy, u) \subseteq live
      /\ live' = (live \ BondedInputs(Policy, u)) \cup BondedOutputs(Policy, u)
  BY ShapeSpending DEF GraphInv, ValueInv, Confirm, Chained, Buildable
<1>p. Plan' = Plan /\ Policy' = Policy
  BY <1>0 DEF Plan, Policy
<1>1. /\ IsFiniteSet(BondedOutputs(Policy, u)) /\ BondedOutputs(Policy, u) \subseteq Everything(Plan, Policy)
  BY <1>0, TemplateBalances
<1>2. IsFiniteSet(live') /\ IsFiniteSet(confirmed')
  <2>1. IsFiniteSet(live \ BondedInputs(Policy, u))
    BY <1>0, FS_Subset
  <2>2. IsFiniteSet(live')
    BY <1>0, <1>1, <2>1, FS_Union
  <2>3. IsFiniteSet(confirmed')
    BY <1>0, FS_AddElement
  <2> QED
    BY <2>2, <2>3
<1>3. u.inputs \subseteq Known(Plan) /\ u.outputs \subseteq Known(Plan)
  BY <1>0, InputsKnown DEF Known, PlanOutputs
<1>4. /\ BondedOutputs(Policy, u) \subseteq u.outputs \cup Overlay(Policy)
      /\ Overlay(Policy) \cap BondIds(Policy) = {} /\ Overlay(Policy) \cap Known(Plan) = {}
      /\ BondIds(Policy) \cap Known(Plan) = {}
  BY <1>0 DEF Apart, OverlayFits
<1>5. \A i \in BondedInputs(Policy, u) : i \notin Overlay(Policy)
  BY <1>3, <1>4 DEF BondedInputs
<1>6. \A i \in u.outputs : i \notin live
  <2>1. \A i \in u.outputs : ~ Exists(i)
    BY <1>0 DEF Exists, Spending
  <2> QED
    BY <1>0, <1>3, <2>1 DEF Chained
<1>7. ASSUME NEW i \in Overlay(Policy), i \in BondedOutputs(Policy, u) PROVE i \notin live
  BY <1>0, <1>7, MintedOnce DEF Minted
<1>8. BondedOutputs(Policy, u) \cap (live \ BondedInputs(Policy, u)) = {}
  BY <1>4, <1>6, <1>7
<1>9. live' \subseteq Everything(Plan, Policy)
  BY <1>0, <1>1 DEF Minted
<1>10. ASSUME NEW i \in Overlay(Policy)
       PROVE  i \in live' <=> \E t \in confirmed' : i \in BondedOutputs(Policy, t)
  <2>1. i \in live' <=> i \in live \/ i \in BondedOutputs(Policy, u)
    BY <1>0, <1>5
  <2> QED
    BY <1>0, <2>1 DEF Minted
<1>11. ASSUME NEW i \in BondIds(Policy)
       PROVE  i \in live' <=> \A t \in confirmed' : t.role \notin {"owner-payout", "counterproof"}
  <2>1. i \notin BondedOutputs(Policy, u)
    BY <1>3, <1>4
  <2>2. i \in BondedInputs(Policy, u) <=> u.role \in {"owner-payout", "counterproof"}
    BY <1>3, <1>4 DEF BondedInputs
  <2> QED
    BY <1>0, <2>1, <2>2 DEF Minted
<1>12. Minted'
  BY <1>p, <1>9, <1>10, <1>11 DEF Minted
<1> QED
  BY <1>2, <1>8, <1>12

LEMMA ConfirmConserves ==
  ASSUME GraphInv, ValueInv, Built, NEW u \in Plan.txs, Confirm(u)
  PROVE  TotalValue(Plan, Policy, live') + Fees(confirmed')
           = TotalValue(Plan, Policy, live) + Fees(confirmed)
<1>0. /\ Buildable(Plan, Policy) /\ Minted /\ IsFiniteSet(live) /\ IsFiniteSet(confirmed)
      /\ u \notin confirmed /\ confirmed \subseteq Plan.txs
      /\ confirmed' = confirmed \cup {u}
      /\ BondedInputs(Policy, u) \subseteq live
      /\ live' = (live \ BondedInputs(Policy, u)) \cup BondedOutputs(Policy, u)
      /\ live \subseteq Everything(Plan, Policy)
  BY DEF GraphInv, ValueInv, Confirm, Chained, Minted
<1>1. PICK I \in SUBSET Everything(Plan, Policy) : I = BondedInputs(Policy, u)
  BY <1>0
<1>2. PICK O \in SUBSET Everything(Plan, Policy) : O = BondedOutputs(Policy, u)
  BY <1>0, TemplateBalances
<1>3. PICK R \in SUBSET Everything(Plan, Policy) : R = live \ I
  BY <1>0
<1>4. /\ IsFiniteSet(I) /\ IsFiniteSet(O)
      /\ TotalValue(Plan, Policy, I) = TotalValue(Plan, Policy, O) + u.fee
  BY <1>0, <1>1, <1>2, TemplateBalances
<1>5. R \cap O = {} /\ R \cap I = {} /\ live = R \cup I /\ live' = R \cup O
  BY <1>0, <1>1, <1>2, <1>3, ConfirmMints
<1>6. IsFiniteSet(R)
  BY <1>0, <1>3, FS_Subset
<1>7. TotalValue(Plan, Policy, live) = TotalValue(Plan, Policy, R) + TotalValue(Plan, Policy, I)
  BY <1>0, <1>4, <1>5, <1>6, TotalUnion
<1>8. TotalValue(Plan, Policy, R \cup O) = TotalValue(Plan, Policy, R) + TotalValue(Plan, Policy, O)
  <2>1. Buildable(Plan, Policy) /\ IsFiniteSet(R) /\ IsFiniteSet(O) /\ R \cap O = {}
    BY <1>0, <1>4, <1>5, <1>6
  <2> QED
    BY <2>1, TotalUnion, Zenon
<1>9. /\ TotalValue(Plan, Policy, R) \in Int /\ TotalValue(Plan, Policy, I) \in Int
      /\ TotalValue(Plan, Policy, O) \in Int
  BY <1>0, <1>4, <1>6, TotalIs
<1>10. Fees(confirmed') = Fees(confirmed) + u.fee /\ Fees(confirmed) \in Int /\ u.fee \in Int
  <2>1. \A t \in Plan.txs : t.fee \in Nat
    BY <1>0 DEF Buildable, PlanTyped
  <2>2. Fees(confirmed \cup {u}) = Fees(confirmed) + u.fee /\ Fees(confirmed) \in Int
    BY <1>0, <2>1, FeesAdd
  <2> QED
    BY <1>0, <2>1, <2>2
<1>11. TotalValue(Plan, Policy, live')
         = TotalValue(Plan, Policy, R) + TotalValue(Plan, Policy, O)
  BY <1>5, <1>8
<1> QED
  BY <1>4, <1>7, <1>9, <1>10, <1>11

LEMMA StepConserves ==
  ASSUME \A c \in Cases : FreshBonds(c), GraphInv, ValueInv, [Next]_vars
  PROVE  ValueInv'
<1>1. CASE Analyse
  <2>0. /\ case' = case /\ case \in Cases /\ confirmed = {} /\ confirmed' = {}
        /\ verdict' = Verdict(Plan, Policy) /\ live' = Plan.funding \cup BondIds(Policy)
    BY <1>1 DEF Analyse, GraphInv
  <2>p. Plan' = Plan /\ Policy' = Policy
    BY <2>0 DEF Plan, Policy
  <2>1. PlanTyped(Plan) /\ PolicyTyped(Policy) /\ BondIds(Policy) \cap PlanOutputs(Plan) = {}
    BY <2>0, PlansAssumption DEF PlanTyped, PolicyTyped, Plan, Policy, FreshBonds
  <2>2. verdict' = "adequate" =>
          RostersMatch(Plan, Policy) /\ ReservesFit(Plan, Policy) /\ Covered(Plan, Policy)
    BY <2>0, VerdictMeans
  <2>3. ASSUME Built'
        PROVE  /\ Buildable(Plan, Policy) /\ Minted' /\ IsFiniteSet(live') /\ IsFiniteSet(confirmed')
               /\ ValueConserved'
    <3>1. NoStructuralBlocker(Plan) /\ (ReservesFit(Plan, Policy) \/ Policy.reserves = {})
      BY <2>0, <2>p, <2>3, VerdictMeans DEF Built
    <3>2. Apart(Plan, Policy) /\ OverlayFits(Plan, Policy)
      BY <2>1, <3>1, ReservesApart, OverlayFitsPolicy
    <3>3. Buildable(Plan, Policy)
      BY <2>1, <3>1, <3>2 DEF Buildable
    <3>4. Minted'
      <4>1. \A i \in Overlay(Policy) : i \notin live'
        BY <2>0, <3>2 DEF Apart, OverlayFits, Known
      <4> QED
        BY <2>0, <2>p, <4>1 DEF Minted, Everything, Known
    <3>5. IsFiniteSet(live') /\ IsFiniteSet(confirmed')
      <4>1. IsFiniteSet(BondIds(Policy)) /\ IsFiniteSet(Plan.funding)
        BY <2>1, <3>3, OverlayTotals DEF CarriesFor, PlanTyped
      <4>2. IsFiniteSet(live')
        BY <2>0, <4>1, FS_Union
      <4> QED
        BY <2>0, <4>2, FS_EmptySet
    <3>6. ValueConserved'
      <4>1. live' \in SUBSET Everything(Plan, Policy)
        BY <2>0 DEF Everything, Known
      <4>2. TotalValue(Plan, Policy, live') \in Int
        BY <3>3, <3>5, <4>1, TotalIs
      <4>3. TotalValue(Plan, Policy, live') + Fees(confirmed')
              = TotalValue(Plan, Policy, Plan.funding \cup BondIds(Policy))
        BY <2>0, <4>2, FeesNone
      <4> QED
        BY <2>p, <4>3 DEF ValueConserved
    <3> QED
      BY <3>3, <3>4, <3>5, <3>6
  <2> QED
    BY <2>p, <2>2, <2>3 DEF ValueInv
<1>2. ASSUME NEW u \in Plan.txs, Confirm(u) PROVE ValueInv'
  <2>1. Built /\ case' = case /\ verdict' = verdict
    BY <1>2 DEF Confirm
  <2>2. Plan' = Plan /\ Policy' = Policy
    BY <2>1 DEF Plan, Policy
  <2>3. Minted' /\ IsFiniteSet(live') /\ IsFiniteSet(confirmed')
    BY <1>2, <2>1, ConfirmMints
  <2>4. ValueConserved'
    <3>1. ValueConserved
      BY <2>1 DEF ValueInv
    <3>2. TotalValue(Plan, Policy, live') + Fees(confirmed')
            = TotalValue(Plan, Policy, Plan.funding \cup BondIds(Policy))
      BY <1>2, <2>1, <3>1, ConfirmConserves DEF ValueConserved
    <3> QED
      BY <2>2, <3>2 DEF ValueConserved
  <2> QED
    BY <2>1, <2>2, <2>3, <2>4 DEF ValueInv
<1>3. CASE UNCHANGED vars
  BY <1>3 DEF vars, ValueInv, Minted, Built, Plan, Policy, ValueConserved
<1> QED
  BY <1>1, <1>2, <1>3 DEF Next

(***************************************************************************)
(* Nothing is lost or created in a graph the checks let through, for any   *)
(* number of alternatives, templates and bonds: the per-template balances, *)
(* the single creator of every outpoint and the overlay of analyze_        *)
(* terminal_wealth_v2 together keep unspent value and fees equal to what   *)
(* was funded (v026/timeout_economics.py).                                 *)
(***************************************************************************)
THEOREM ValueIsConserved ==
  ASSUME \A c \in Cases : FreshBonds(c)
  PROVE  Spec => []ValueConserved
<1>1. Init => GraphInv /\ ValueInv
  BY DEF Init, GraphInv, ValueInv, Built
<1>2. GraphInv /\ ValueInv /\ [Next]_vars => (GraphInv /\ ValueInv)'
  BY StepChains, StepConserves
<1>3. ValueInv => ValueConserved
  BY DEF ValueInv, ValueConserved
<1> QED
  BY <1>1, <1>2, <1>3, PTL DEF Spec

-----------------------------------------------------------------------------
(* The traces of the analysis are the runs of the graph *)

Created(p, done, i) == i \in p.funding \/ \E t \in done : i \in t.outputs
Unspent(p, done) == {i \in Known(p) : Created(p, done, i) /\ \A t \in done : i \notin t.inputs}

\* What a template spends was there before.
Ordered(p, done) ==
  /\ done \subseteq p.txs
  /\ \A t \in done : \A i \in t.inputs : Created(p, done, i)

LEMMA AfterUnspent ==
  ASSUME NEW p, Spending(p), NEW done, Ordered(p, done), NEW t \in p.txs, t \notin done,
         t.inputs \subseteq Unspent(p, done)
  PROVE  /\ Ordered(p, done \cup {t})
         /\ After(Unspent(p, done), t) = Unspent(p, done \cup {t})
<1>1. t.outputs \subseteq Known(p)
  BY DEF Known, PlanOutputs
<1>2. \A i \in t.outputs : ~ Created(p, done, i)
  BY DEF Created, Ordered, Spending
<1>3. \A i \in t.outputs : \A u \in done \cup {t} : i \notin u.inputs
  BY <1>2 DEF Ordered, Unspent
<1>4. \A i : Created(p, done \cup {t}, i) <=> Created(p, done, i) \/ i \in t.outputs
  BY DEF Created
<1>5. Ordered(p, done \cup {t})
  BY <1>4 DEF Ordered, Unspent
<1>6. ASSUME NEW i PROVE i \in After(Unspent(p, done), t) <=> i \in Unspent(p, done \cup {t})
  <2>1. CASE i \in t.outputs
    BY <1>1, <1>3, <1>4, <2>1 DEF After, Unspent
  <2>2. CASE i \notin t.outputs
    BY <1>4, <2>2 DEF After, Unspent
  <2> QED
    BY <2>1, <2>2
<1> QED
  BY <1>5, <1>6

Longer(p, S) ==
  UNION {{[done |-> s.done \cup {t}, live |-> After(s.live, t)] :
            t \in {u \in p.txs : Enabled(u, s.done, s.live)}} : s \in S}

\* g is the function walk of Walks(p, n).
WalkFunction(p, n, g) ==
  g = [k \in 0 .. n |-> IF k = 0 THEN {[done |-> {}, live |-> p.funding]} ELSE Longer(p, g[k - 1])]

LEMMA WalkExists ==
  ASSUME NEW p, NEW n \in Nat
  PROVE  \E g : WalkFunction(p, n, g)
<1>1. PICK N : N = {m \in Nat : \E g : WalkFunction(p, m, g)}
  OBVIOUS
<1>2. 0 \in N
  <2>1. PICK g : g = [k \in 0 .. 0 |-> {[done |-> {}, live |-> p.funding]}]
    OBVIOUS
  <2>2. g = [k \in 0 .. 0 |-> IF k = 0 THEN {[done |-> {}, live |-> p.funding]} ELSE Longer(p, g[k - 1])]
    BY <2>1
  <2> QED
    BY <1>1, <2>2 DEF WalkFunction
<1>3. ASSUME NEW m \in N PROVE m + 1 \in N
  <2>0. m \in Nat
    BY <1>1
  <2>1. PICK g : WalkFunction(p, m, g)
    BY <1>1
  <2>2. PICK h : h = [k \in 0 .. m + 1 |-> IF k = m + 1 THEN Longer(p, g[m]) ELSE g[k]]
    OBVIOUS
  <2>3. \A k \in 0 .. m : h[k] = g[k]
    BY <2>0, <2>2
  <2>4. ASSUME NEW k \in 0 .. m + 1
        PROVE  h[k] = IF k = 0 THEN {[done |-> {}, live |-> p.funding]} ELSE Longer(p, h[k - 1])
    <3>1. CASE k = m + 1
      BY <2>0, <2>2, <2>3, <3>1
    <3>2. CASE k # m + 1
      <4>1. k \in 0 .. m /\ (k # 0 => k - 1 \in 0 .. m)
        BY <2>0, <3>2
      <4>2. g[k] = IF k = 0 THEN {[done |-> {}, live |-> p.funding]} ELSE Longer(p, g[k - 1])
        BY <2>1, <4>1 DEF WalkFunction
      <4> QED
        BY <2>3, <4>1, <4>2
    <3> QED
      BY <3>1, <3>2
  <2>5. WalkFunction(p, m + 1, h)
    <3>1. PICK e : e = [k \in 0 .. m + 1 |->
                          IF k = 0 THEN {[done |-> {}, live |-> p.funding]} ELSE Longer(p, h[k - 1])]
      OBVIOUS
    <3>2. h = e
      BY <2>2, <2>4, <3>1
    <3> QED
      BY <3>1, <3>2 DEF WalkFunction
  <2> QED
    BY <1>1, <2>0, <2>5
<1>4. N = Nat
  <2>1. N \in SUBSET Nat
    BY <1>1
  <2> QED
    BY <1>2, <1>3, <2>1, NatInductive
<1> QED
  BY <1>1, <1>4

LEMMA WalksAre ==
  ASSUME NEW p, NEW n \in Nat
  PROVE  \E g : /\ Walks(p, n) = UNION {g[k] : k \in 0 .. n}
                /\ g[0] = {[done |-> {}, live |-> p.funding]}
                /\ \A k \in 0 .. n : k # 0 => g[k] = Longer(p, g[k - 1])
<1>1. \E g : WalkFunction(p, n, g)
  BY WalkExists
<1>2. PICK g : g = CHOOSE f : WalkFunction(p, n, f)
  OBVIOUS
<1>3. WalkFunction(p, n, g)
  BY <1>1, <1>2
<1>4. Walks(p, n) = UNION {g[k] : k \in 0 .. n}
  BY <1>2 DEF Walks, WalkFunction, Longer
<1>5. /\ g[0] = {[done |-> {}, live |-> p.funding]}
      /\ \A k \in 0 .. n : k # 0 => g[k] = Longer(p, g[k - 1])
  <2>1. PICK h : h = g
    OBVIOUS
  <2>2. h = [k \in 0 .. n |-> IF k = 0 THEN {[done |-> {}, live |-> p.funding]} ELSE Longer(p, g[k - 1])]
    BY <1>3, <2>1 DEF WalkFunction
  <2>3. \A k \in 0 .. n : h[k] = IF k = 0 THEN {[done |-> {}, live |-> p.funding]} ELSE Longer(p, g[k - 1])
    BY <2>2
  <2> QED
    BY <2>1, <2>3
<1> QED
  BY <1>4, <1>5

\* A walk of k confirmations leaves unspent what its templates do.
Walked(p, s, k) ==
  /\ s.live = Unspent(p, s.done)
  /\ Ordered(p, s.done) /\ IsFiniteSet(s.done) /\ Cardinality(s.done) = k

LEMMA StartWalked ==
  ASSUME NEW p, Spending(p)
  PROVE  Unspent(p, {}) = p.funding /\ Walked(p, [done |-> {}, live |-> p.funding], 0)
<1>1. Unspent(p, {}) = p.funding /\ Ordered(p, {})
  BY DEF Unspent, Ordered, Known, Created
<1>2. IsFiniteSet({}) /\ Cardinality({}) = 0
  BY FS_EmptySet
<1> QED
  BY <1>1, <1>2 DEF Walked

LEMMA LongerWalked ==
  ASSUME NEW p, Spending(p), NEW k \in Nat, NEW s, Walked(p, s, k), NEW t \in p.txs,
         Enabled(t, s.done, s.live)
  PROVE  /\ Walked(p, [done |-> s.done \cup {t}, live |-> After(s.live, t)], k + 1)
         /\ After(s.live, t) = Unspent(p, s.done \cup {t})
<1>1. Ordered(p, s.done \cup {t}) /\ After(s.live, t) = Unspent(p, s.done \cup {t})
  BY AfterUnspent DEF Walked, Enabled
<1>2. IsFiniteSet(s.done \cup {t}) /\ Cardinality(s.done \cup {t}) = k + 1
  BY FS_AddElement DEF Walked, Enabled
<1> QED
  BY <1>1, <1>2 DEF Walked

LEMMA WalkShape ==
  ASSUME NEW p, Spending(p), NEW n \in Nat, NEW g,
         g[0] = {[done |-> {}, live |-> p.funding]},
         \A k \in 0 .. n : k # 0 => g[k] = Longer(p, g[k - 1])
  PROVE  \A k \in 0 .. n : \A s \in g[k] : Walked(p, s, k)
<1>1. PICK N : N = {m \in Nat : m <= n => \A x \in g[m] : Walked(p, x, m)}
  OBVIOUS
<1>2. 0 \in N
  BY <1>1, StartWalked
<1>3. ASSUME NEW m \in N PROVE m + 1 \in N
  <2>1. m \in Nat
    BY <1>1
  <2>2. ASSUME m + 1 <= n, NEW x \in g[m + 1] PROVE Walked(p, x, m + 1)
    <3>1. g[m + 1] = Longer(p, g[m])
      <4>1. m + 1 \in 0 .. n /\ m + 1 # 0 /\ (m + 1) - 1 = m
        BY <2>1, <2>2
      <4> QED
        BY <4>1
    <3>2. PICK y \in g[m] : \E t \in {u \in p.txs : Enabled(u, y.done, y.live)} :
                              x = [done |-> y.done \cup {t}, live |-> After(y.live, t)]
      BY <2>2, <3>1 DEF Longer
    <3>3. PICK t \in p.txs : /\ Enabled(t, y.done, y.live)
                             /\ x = [done |-> y.done \cup {t}, live |-> After(y.live, t)]
      BY <3>2
    <3>4. Walked(p, y, m)
      BY <1>1, <2>1, <2>2
    <3> QED
      BY <2>1, <3>3, <3>4, LongerWalked
  <2> QED
    BY <1>1, <2>1, <2>2
<1>4. N = Nat
  <2>1. N \in SUBSET Nat
    BY <1>1
  <2> QED
    BY <1>2, <1>3, <2>1, NatInductive
<1> QED
  BY <1>1, <1>4

Bound(p) == Cardinality(p.txs)
Reached(p, done) == [done |-> done, live |-> Unspent(p, done)]

\* The walks are closed under confirming another template.
LEMMA WalksGrow ==
  ASSUME NEW p, PlanTyped(p), Spending(p)
  PROVE  /\ Reached(p, {}) \in Walks(p, Bound(p))
         /\ \A s \in Walks(p, Bound(p)) : s.live = Unspent(p, s.done) /\ Ordered(p, s.done)
         /\ \A done : \A t \in p.txs :
              /\ Reached(p, done) \in Walks(p, Bound(p))
              /\ Enabled(t, done, Unspent(p, done))
              => Reached(p, done \cup {t}) \in Walks(p, Bound(p))
<1>0. Bound(p) \in Nat
  BY FS_CardinalityType DEF Bound, PlanTyped
<1>n. PICK n \in Nat : n = Bound(p)
  BY <1>0
<1>1. PICK g : /\ Walks(p, n) = UNION {g[k] : k \in 0 .. n}
               /\ g[0] = {[done |-> {}, live |-> p.funding]}
               /\ \A k \in 0 .. n : k # 0 => g[k] = Longer(p, g[k - 1])
  BY WalksAre
<1>2. \A k \in 0 .. n : \A s \in g[k] : Walked(p, s, k)
  BY <1>1, WalkShape
<1>3. Reached(p, {}) \in Walks(p, n)
  <2>1. Reached(p, {}) \in g[0]
    BY <1>1, StartWalked DEF Reached
  <2>2. 0 \in 0 .. n
    OBVIOUS
  <2> QED
    BY <1>1, <2>1, <2>2
<1>4. \A s \in Walks(p, n) : s.live = Unspent(p, s.done) /\ Ordered(p, s.done)
  BY <1>1, <1>2 DEF Walked
<1>5. ASSUME NEW done, NEW t \in p.txs, Reached(p, done) \in Walks(p, n),
             Enabled(t, done, Unspent(p, done))
      PROVE  Reached(p, done \cup {t}) \in Walks(p, n)
  <2>1. PICK k \in 0 .. n : Reached(p, done) \in g[k]
    BY <1>1, <1>5
  <2>2. PICK s : s = Reached(p, done)
    OBVIOUS
  <2>3. s.done = done /\ s.live = Unspent(p, done)
    BY <2>2 DEF Reached
  <2>4. Walked(p, s, k) /\ Enabled(t, s.done, s.live) /\ k \in Nat
    BY <1>2, <1>5, <2>1, <2>2, <2>3
  <2>5. PICK x : x = [done |-> s.done \cup {t}, live |-> After(s.live, t)]
    OBVIOUS
  <2>6. Walked(p, x, k + 1) /\ After(s.live, t) = Unspent(p, s.done \cup {t})
    BY <2>4, <2>5, LongerWalked
  <2>7. x = Reached(p, done \cup {t})
    BY <2>3, <2>5, <2>6 DEF Reached
  <2>8. k + 1 <= n
    <3>1. x.done \in SUBSET p.txs /\ Cardinality(x.done) = k + 1
      BY <2>6 DEF Walked, Ordered
    <3>2. Cardinality(x.done) <= Cardinality(p.txs)
      BY <3>1, FS_Subset DEF PlanTyped
    <3> QED
      BY <1>n, <3>1, <3>2 DEF Bound
  <2>9. g[k + 1] = Longer(p, g[k])
    <3>1. k + 1 \in 0 .. n /\ k + 1 # 0 /\ (k + 1) - 1 = k
      BY <2>4, <2>8
    <3> QED
      BY <1>1, <3>1
  <2>10. x \in g[k + 1]
    <3>1. s \in g[k] /\ t \in {u \in p.txs : Enabled(u, s.done, s.live)}
      BY <2>1, <2>2, <2>4
    <3>2. x \in {[done |-> s.done \cup {v}, live |-> After(s.live, v)] :
                  v \in {u \in p.txs : Enabled(u, s.done, s.live)}}
      BY <2>5, <3>1
    <3>3. x \in Longer(p, g[k])
      BY <3>1, <3>2 DEF Longer
    <3> QED
      BY <2>9, <3>3
  <2> QED
    BY <1>1, <2>4, <2>7, <2>8, <2>10
<1> QED
  BY <1>n, <1>3, <1>4, <1>5

-----------------------------------------------------------------------------
(* How a run ends *)

\* What is unspent of the plan, and that the analysis walked there too.
WalkInv ==
  Built => /\ live \cap Known(Plan) = Unspent(Plan, confirmed)
           /\ Reached(Plan, confirmed) \in Walks(Plan, Bound(Plan))

LEMMA ChainedUnspent ==
  ASSUME Chained
  PROVE  live \cap Known(Plan) = Unspent(Plan, confirmed) /\ Ordered(Plan, confirmed)
BY DEF Chained, Unspent, Created, Exists, Ordered

LEMMA StepWalks ==
  ASSUME \A c \in Cases : FreshBonds(c), GraphInv, WalkInv, [Next]_vars
  PROVE  WalkInv'
<1>0. GraphInv'
  BY StepChains
<1>1. SUFFICES ASSUME Built' PROVE Reached(Plan, confirmed)' \in Walks(Plan, Bound(Plan))'
  <2>1. Built' => Chained'
    BY <1>0 DEF GraphInv
  <2>2. Chained' => (live \cap Known(Plan) = Unspent(Plan, confirmed))'
    BY DEF Chained, Unspent, Created, Exists
  <2> QED
    BY <2>1, <2>2 DEF WalkInv
<1>2. CASE Analyse
  <2>1. Plan' = Plan /\ confirmed' = {}
    BY <1>2 DEF Analyse, Plan, GraphInv
  <2>2. PlanTyped(Plan) /\ NoStructuralBlocker(Plan)
    BY <1>0, <1>1, <2>1 DEF GraphInv
  <2>3. Spending(Plan)
    BY <2>2, ShapeSpending
  <2>4. Reached(Plan, {}) \in Walks(Plan, Bound(Plan))
    BY <2>2, <2>3, WalksGrow
  <2> QED
    BY <2>1, <2>4
<1>3. ASSUME NEW u \in Plan.txs, Confirm(u)
      PROVE  Reached(Plan, confirmed)' \in Walks(Plan, Bound(Plan))'
  <2>1. /\ Built /\ Plan' = Plan /\ confirmed' = confirmed \cup {u} /\ u \notin confirmed
        /\ BondedInputs(Policy, u) \subseteq live
    BY <1>3 DEF Confirm, Plan
  <2>2. PlanTyped(Plan) /\ Spending(Plan) /\ Chained
    BY <2>1, ShapeSpending DEF GraphInv
  <2>3. u.inputs \subseteq live \cap Known(Plan)
    BY <2>1, <2>2, InputsKnown DEF BondedInputs
  <2>4. Enabled(u, confirmed, Unspent(Plan, confirmed))
    BY <2>1, <2>2, <2>3, ChainedUnspent DEF Enabled
  <2>5. Reached(Plan, confirmed \cup {u}) \in Walks(Plan, Bound(Plan))
    BY <2>1, <2>2, <2>4, WalksGrow DEF WalkInv
  <2> QED
    BY <2>1, <2>5
<1>4. CASE UNCHANGED vars
  <2>1. Plan' = Plan /\ confirmed' = confirmed /\ Built
    BY <1>1, <1>4 DEF vars, Built, Plan, Policy
  <2> QED
    BY <2>1 DEF WalkInv
<1> QED
  BY <1>2, <1>3, <1>4 DEF Next

\* When nothing can confirm the analysis has a trace with these templates.
LEMMA StuckIsTrace ==
  ASSUME GraphInv, ValueInv, WalkInv, Built, Stuck
  PROVE  Reached(Plan, confirmed) \in Traces(Plan)
<1>0. /\ PlanTyped(Plan) /\ Spending(Plan) /\ Chained /\ Minted
      /\ Reached(Plan, confirmed) \in Walks(Plan, Bound(Plan))
  BY ShapeSpending DEF GraphInv, ValueInv, WalkInv
<1>1. PICK s : s = Reached(Plan, confirmed)
  OBVIOUS
<1>2. s.done = confirmed /\ s.live = Unspent(Plan, confirmed)
  BY <1>1 DEF Reached
<1>3. ASSUME NEW t \in Plan.txs, Enabled(t, confirmed, Unspent(Plan, confirmed)) PROVE FALSE
  <2>1. t \notin confirmed /\ t.inputs \subseteq live
    BY <1>0, <1>3, ChainedUnspent DEF Enabled
  <2>2. t.role \in {"owner-payout", "counterproof"} /\ \E i \in BondIds(Policy) : i \notin live
    BY <2>1 DEF Stuck, BondedInputs
  <2>3. PICK u \in confirmed : u.role \in {"owner-payout", "counterproof"}
    BY <1>0, <2>2 DEF Minted
  <2>4. The(Plan, "deposit") \in u.inputs /\ The(Plan, "deposit") \in t.inputs
    BY <1>0, <2>2, <2>3 DEF Spending, Chained
  <2>5. The(Plan, "deposit") \notin live
    BY <1>0, <2>4 DEF Chained
  <2> QED
    BY <2>1, <2>4, <2>5
<1> QED
  BY <1>0, <1>1, <1>2, <1>3 DEF Traces, Bound

Reveals(p, a, roles) == {Template(p, role, a) : role \in roles}

\* The templates of an end are those of its branch and its alternative.
LEMMA EndIs ==
  ASSUME NEW p, PlanTyped(p), Spending(p), NEW done \in SUBSET p.txs, NEW w \in WorldsOf(p, done)
  PROVE  /\ w[1] = "no-counterproof" =>
              \A t \in p.txs : t \in done <=> t.role = "owner-payout"
         /\ w[1] \in {"valid-release-withheld", "invalid-release-absent"} =>
              done = Reveals(p, w[2], {"counterproof", "timeout"})
         /\ w[1] = "valid-released" =>
              done = Reveals(p, w[2], {"counterproof", "ack", "slash"})
<1> DEFINE alts == {t.alt : t \in done}
<1>0. /\ w \in Worlds(p) /\ BranchForWorld(w[1]) = Branch(done)
      /\ w[2] \in IF Selected(done) = {} THEN {NoAlt} ELSE Selected(done)
  BY DEF WorldsOf
<1>1. IsFiniteSet(alts)
  <2>1. PICK f : f = [t \in done |-> t.alt]
    OBVIOUS
  <2>2. f \in Surjection(done, alts)
    BY <2>1 DEF Surjection
  <2>3. IsFiniteSet(done)
    BY FS_Subset DEF PlanTyped
  <2> QED
    BY <2>2, <2>3, FS_Surjection
<1>2. CASE w[1] = "no-counterproof"
  <2>1. Branch(done) = "owner-payout"
    BY <1>0, <1>2 DEF BranchForWorld
  <2>2. Roles(done) = {"owner-payout"}
    BY <2>1 DEF Branch
  <2>3. \A t \in done : t.role = "owner-payout"
    BY <2>2 DEF Roles
  <2>4. \E t \in done : t.role = "owner-payout"
    BY <2>2 DEF Roles
  <2>5. \A t \in p.txs : t \in done <=> t.role = "owner-payout"
    BY <2>3, <2>4 DEF Spending
  <2> QED
    BY <1>2, <2>5
<1>3. ASSUME NEW roles \in SUBSET AlternativeRoles, Roles(done) = roles, Cardinality(alts) = 1
      PROVE  done = Reveals(p, w[2], roles)
  <2>1. PICK a : alts = {a}
    BY <1>1, <1>3, FS_Singleton
  <2>2. \A t \in done : t.alt = a /\ t.role \in AlternativeRoles
    BY <1>3, <2>1 DEF Roles
  <2>3. done # {}
    BY <2>1
  <2>4. w[2] = a
    <3>1. Selected(done) = {a}
      BY <2>2, <2>3 DEF Selected
    <3> QED
      BY <1>0, <3>1
  <2>5. \A t \in done : t = Template(p, t.role, a) /\ t.role \in roles
    BY <1>3, <2>2 DEF Spending, Roles
  <2>6. ASSUME NEW role \in roles PROVE Template(p, role, a) \in done
    <3>1. PICK t \in done : t.role = role
      BY <1>3, <2>6 DEF Roles
    <3> QED
      BY <2>5, <3>1
  <2> QED
    BY <2>4, <2>5, <2>6 DEF Reveals
<1>4. CASE w[1] \in {"valid-release-withheld", "invalid-release-absent"}
  <2>1. Branch(done) = "timeout"
    BY <1>0, <1>4 DEF BranchForWorld
  <2>2. Roles(done) = {"counterproof", "timeout"} /\ Cardinality(alts) = 1
    BY <2>1 DEF Branch
  <2>3. done = Reveals(p, w[2], {"counterproof", "timeout"})
    BY <1>3, <2>2 DEF AlternativeRoles
  <2> QED
    BY <1>4, <2>3
<1>5. CASE w[1] = "valid-released"
  <2>1. Branch(done) = "ack-slash"
    BY <1>0, <1>5 DEF BranchForWorld
  <2>2. Roles(done) = {"counterproof", "ack", "slash"} /\ Cardinality(alts) = 1
    BY <2>1 DEF Branch
  <2>3. done = Reveals(p, w[2], {"counterproof", "ack", "slash"})
    BY <1>3, <2>2 DEF AlternativeRoles
  <2> QED
    BY <1>5, <2>3
<1>6. w[1] \in {"no-counterproof", "valid-released", "valid-release-withheld", "invalid-release-absent"}
  BY <1>0 DEF Worlds
<1> QED
  BY <1>2, <1>4, <1>5, <1>6

LEMMA EndHasWorld ==
  ASSUME NEW p, Spending(p), NEW done \in SUBSET p.txs, Branch(done) # "unexpected"
  PROVE  WorldsOf(p, done) # {}
<1>1. CASE Branch(done) = "owner-payout"
  <2>1. Roles(done) = {"owner-payout"}
    BY <1>1 DEF Branch
  <2>2. Selected(done) = {}
    BY <2>1 DEF Roles, Selected, AlternativeRoles
  <2>3. PICK w : w = <<"no-counterproof", NoAlt>>
    OBVIOUS
  <2>4. w \in Worlds(p) /\ BranchForWorld(w[1]) = "owner-payout" /\ w[2] = NoAlt
    BY <2>3 DEF Worlds, BranchForWorld
  <2> QED
    BY <1>1, <2>2, <2>4 DEF WorldsOf
<1>2. ASSUME NEW t \in done, t.role \in AlternativeRoles
      PROVE  t.alt \in Selected(done) /\ t.alt \in Alternatives(p)
  BY <1>2 DEF Selected, Spending
<1>3. CASE Branch(done) = "timeout"
  <2>1. "counterproof" \in Roles(done)
    BY <1>3 DEF Branch
  <2>2. PICK t \in done : t.role = "counterproof"
    BY <2>1 DEF Roles
  <2>3. t.alt \in Selected(done) /\ t.alt \in Alternatives(p)
    BY <1>2, <2>2 DEF AlternativeRoles
  <2>4. PICK w : w = <<"valid-release-withheld", t.alt>>
    OBVIOUS
  <2>5. w \in Worlds(p) /\ BranchForWorld(w[1]) = "timeout" /\ w[2] = t.alt
    BY <2>3, <2>4 DEF Worlds, BranchForWorld
  <2> QED
    BY <1>3, <2>3, <2>5 DEF WorldsOf
<1>4. CASE Branch(done) = "ack-slash"
  <2>1. "counterproof" \in Roles(done)
    BY <1>4 DEF Branch
  <2>2. PICK t \in done : t.role = "counterproof"
    BY <2>1 DEF Roles
  <2>3. t.alt \in Selected(done) /\ t.alt \in Alternatives(p)
    BY <1>2, <2>2 DEF AlternativeRoles
  <2>4. PICK w : w = <<"valid-released", t.alt>>
    OBVIOUS
  <2>5. w \in Worlds(p) /\ BranchForWorld(w[1]) = "ack-slash" /\ w[2] = t.alt
    BY <2>3, <2>4 DEF Worlds, BranchForWorld
  <2> QED
    BY <1>4, <2>3, <2>5 DEF WorldsOf
<1> QED
  BY <1>1, <1>3, <1>4 DEF Branch

\* The trace the analysis looked at for a world ends where the run ended.
LEMMA TraceIs ==
  ASSUME NEW p, PlanTyped(p), Spending(p), NEW done, Reached(p, done) \in Traces(p),
         NEW w \in WorldsOf(p, done)
  PROVE  TraceFor(p, w).live = Unspent(p, done)
<1>1. PICK s : s = TraceFor(p, w)
  OBVIOUS
<1>2. PICK e : e = Reached(p, done)
  OBVIOUS
<1>3. e \in Traces(p) /\ w \in WorldsOf(p, e.done) /\ e.done = done
  BY <1>2 DEF Reached
<1>4. s \in Traces(p) /\ w \in WorldsOf(p, s.done)
  BY <1>1, <1>3 DEF TraceFor
<1>5. s \in Walks(p, Bound(p)) /\ e \in Walks(p, Bound(p))
  BY <1>3, <1>4 DEF Traces, Bound
<1>6. s.live = Unspent(p, s.done) /\ s.done \in SUBSET p.txs /\ e.done \in SUBSET p.txs
  BY <1>5, WalksGrow DEF Ordered
<1>7. s.done = done
  <2>1. w[1] \in {"no-counterproof", "valid-released", "valid-release-withheld", "invalid-release-absent"}
    BY <1>4 DEF WorldsOf, Worlds
  <2>2. CASE w[1] = "no-counterproof"
    <3>1. \A t \in p.txs : t \in s.done <=> t \in done
      BY <1>3, <1>4, <1>6, <2>2, EndIs
    <3> QED
      BY <1>3, <1>6, <3>1
  <2>3. CASE w[1] # "no-counterproof"
    BY <1>3, <1>4, <1>6, <2>1, <2>3, EndIs
  <2> QED
    BY <2>2, <2>3
<1> QED
  BY <1>1, <1>6, <1>7

-----------------------------------------------------------------------------
(* Who holds what at the end *)

\* The one overlay outpoint a reserve has at the end, and who gets it.
EndOutpoint(w, r) ==
  CASE w[1] = "no-counterproof" -> r.ownerReturn
    [] w[1] # "no-counterproof" /\ r.binds # w[2] -> r.siblingReturn[w[2]]
    [] w[1] = "valid-released" /\ r.binds = w[2] -> r.ackRefund
    [] OTHER -> r.compensation

Receiver(w, r) ==
  IF w[2] # r.alt \/ w[1] \in {"no-counterproof", "valid-released"} THEN r.provider ELSE r.to

Roster(p, done, w) ==
  /\ w[1] # "no-counterproof" => w[2] \in Alternatives(p)
  /\ \A t \in p.txs :
       t \in done <=>
         \/ w[1] = "no-counterproof" /\ t.role = "owner-payout"
         \/ /\ w[1] \in {"valid-release-withheld", "invalid-release-absent"}
            /\ t.role \in {"counterproof", "timeout"} /\ t.alt = w[2]
         \/ /\ w[1] = "valid-released"
            /\ t.role \in {"counterproof", "ack", "slash"} /\ t.alt = w[2]

LEMMA EndRoster ==
  ASSUME NEW p, PlanTyped(p), NoStructuralBlocker(p), NEW done \in SUBSET p.txs,
         NEW w \in WorldsOf(p, done)
  PROVE  /\ Roster(p, done, w)
         /\ w[1] \in {"no-counterproof", "valid-released", "valid-release-withheld",
                      "invalid-release-absent"}
<1>0. Spending(p) /\ TransactionRoster(p)
  BY ShapeSpending DEF NoStructuralBlocker
<1>1. /\ w[1] \in {"no-counterproof", "valid-released", "valid-release-withheld",
                   "invalid-release-absent"}
      /\ w[1] # "no-counterproof" => w[2] \in Alternatives(p)
  BY DEF WorldsOf, Worlds
<1>2. ASSUME NEW roles \in SUBSET AlternativeRoles, w[2] \in Alternatives(p),
             NEW t \in p.txs
      PROVE  t \in Reveals(p, w[2], roles) <=> t.role \in roles /\ t.alt = w[2]
  <2>1. \A role \in roles : Template(p, role, w[2]).role = role /\ Template(p, role, w[2]).alt = w[2]
    BY <1>0, <1>2, TemplateOnce
  <2>2. t.role \in roles /\ t.alt = w[2] => t = Template(p, t.role, w[2])
    BY <1>0, <1>2, TemplateOnce
  <2> QED
    BY <2>1, <2>2 DEF Reveals
<1>3. CASE w[1] = "no-counterproof"
  BY <1>0, <1>1, <1>3, EndIs DEF Roster
<1>4. CASE w[1] \in {"valid-release-withheld", "invalid-release-absent"}
  <2>1. done = Reveals(p, w[2], {"counterproof", "timeout"})
    BY <1>0, <1>4, EndIs
  <2>2. \A t \in p.txs : t \in done <=> t.role \in {"counterproof", "timeout"} /\ t.alt = w[2]
    BY <1>1, <1>2, <1>4, <2>1 DEF AlternativeRoles
  <2> QED
    BY <1>1, <1>4, <2>2 DEF Roster
<1>5. CASE w[1] = "valid-released"
  <2>1. done = Reveals(p, w[2], {"counterproof", "ack", "slash"})
    BY <1>0, <1>5, EndIs
  <2>2. \A t \in p.txs : t \in done <=> t.role \in {"counterproof", "ack", "slash"} /\ t.alt = w[2]
    BY <1>1, <1>2, <1>5, <2>1 DEF AlternativeRoles
  <2> QED
    BY <1>1, <1>5, <2>2 DEF Roster
<1> QED
  BY <1>1, <1>3, <1>4, <1>5

\* No resolution is left at the end.
LEMMA ResolutionsSpent ==
  ASSUME NEW p, PlanTyped(p), NoStructuralBlocker(p), NEW done \in SUBSET p.txs,
         NEW w \in WorldsOf(p, done), NEW i \in Unspent(p, done)
  PROVE  p.of[i].role # "resolution"
<1> SUFFICES ASSUME p.of[i].role = "resolution" PROVE FALSE
  OBVIOUS
<1>0. Spending(p) /\ TransactionRoster(p) /\ ResourceRoster(p)
  BY ShapeSpending DEF NoStructuralBlocker
<1>1. /\ Roster(p, done, w)
      /\ w[1] \in {"no-counterproof", "valid-released", "valid-release-withheld",
                   "invalid-release-absent"}
  BY EndRoster
<1>2. i \notin p.funding
  BY <1>0 DEF ResourceRoster, FundingRoles
<1>3. PICK t \in done : i \in t.outputs
  BY <1>2 DEF Unspent, Created
<1>4. t \in p.txs /\ t.role = "counterproof" /\ i = Resolution(p, t.alt)
  BY <1>3, ResolutionOnce
<1>5. w[1] # "no-counterproof" /\ t.alt = w[2] /\ w[2] \in Alternatives(p)
  BY <1>1, <1>3, <1>4 DEF Roster
<1> DEFINE role == IF w[1] = "valid-released" THEN "ack" ELSE "timeout"
           u == Template(p, role, w[2])
<1>6. u \in p.txs /\ u.role = role /\ u.alt = w[2]
  BY <1>0, <1>5, TemplateOnce DEF AlternativeRoles
<1>7. u \in done
  BY <1>1, <1>5, <1>6 DEF Roster
<1>8. Resolution(p, w[2]) \in u.inputs
  BY <1>0, <1>6 DEF Spending, AlternativeRoles
<1> QED
  BY <1>4, <1>5, <1>7, <1>8 DEF Unspent

\* Every reserve has one overlay outpoint left, and the world says whose it is.
LEMMA OverlayEnds ==
  ASSUME NEW p, NEW q, Buildable(p, q), NEW done \in SUBSET p.txs, NEW w \in WorldsOf(p, done)
  PROVE  /\ \A r \in q.reserves : /\ EndOutpoint(w, r) \in Transitions(r)
                                  /\ Payee(p, q, EndOutpoint(w, r)) = Receiver(w, r)
         /\ \A i \in Overlay(q) :
              (\E t \in done : i \in BondedOutputs(q, t)) <=> \E r \in q.reserves : i = EndOutpoint(w, r)
<1>0. /\ PlanTyped(p) /\ NoStructuralBlocker(p) /\ Spending(p) /\ TransactionRoster(p)
      /\ Apart(p, q) /\ OverlayFits(p, q)
  BY ShapeSpending DEF Buildable, NoStructuralBlocker
<1>1. /\ Roster(p, done, w)
      /\ w[1] \in {"no-counterproof", "valid-released", "valid-release-withheld",
                   "invalid-release-absent"}
  BY <1>0, EndRoster
<1>2. ASSUME NEW r \in q.reserves
      PROVE  /\ r.binds = r.alt
             /\ w[1] # "no-counterproof" /\ r.binds # w[2] => w[2] \in DOMAIN r.siblingReturn
             /\ r.ownerReturn # r.compensation /\ r.ackRefund # r.compensation
             /\ \A a \in DOMAIN r.siblingReturn : r.siblingReturn[a] # r.compensation
  BY <1>0, <1>1 DEF Roster, OverlayFits, TransitionsDistinct, Range
<1>3. ASSUME NEW r \in q.reserves
      PROVE  /\ EndOutpoint(w, r) \in Transitions(r)
             /\ Payee(p, q, EndOutpoint(w, r)) = Receiver(w, r)
  <2>1. PICK i : i = EndOutpoint(w, r)
    OBVIOUS
  <2>2. i \in Transitions(r)
    BY <1>1, <1>2, <2>1 DEF EndOutpoint, Transitions
  <2>3. i \in Overlay(q) /\ i \notin BondIds(q) /\ OverlayReserve(q, i) = r
    BY <1>0, <2>2, OverlayOnce
  <2>4. Payee(p, q, i) = IF i = r.compensation THEN r.to ELSE r.provider
    BY <2>3 DEF Payee
  <2>5. (IF i = r.compensation THEN r.to ELSE r.provider) = Receiver(w, r)
    BY <1>1, <1>2, <2>1 DEF EndOutpoint, Receiver
  <2> QED
    BY <2>1, <2>2, <2>4, <2>5
<1>4. ASSUME NEW i \in Overlay(q), NEW t \in done, i \in BondedOutputs(q, t)
      PROVE  \E r \in q.reserves : i = EndOutpoint(w, r)
  <2>1. PICK r \in q.reserves : MintedBy(t, r, i)
    BY <1>0, <1>4, OverlayMinted
  <2>2. i = EndOutpoint(w, r)
    BY <1>0, <1>1, <1>4, <2>1 DEF MintedBy, EndOutpoint, Roster, OverlayFits
  <2> QED
    BY <2>2
<1>5. ASSUME NEW i \in Overlay(q), NEW r \in q.reserves, i = EndOutpoint(w, r)
      PROVE  \E t \in done : i \in BondedOutputs(q, t)
  <2>1. CASE w[1] = "no-counterproof"
    <3>1. PICK t \in p.txs : t.role = "owner-payout"
      BY <1>0 DEF Spending
    <3>2. t \in done /\ MintedBy(t, r, i)
      BY <1>1, <1>5, <2>1, <3>1 DEF Roster, MintedBy, EndOutpoint
    <3> QED
      BY <1>0, <3>2, OverlayMinted
  <2>2. CASE w[1] # "no-counterproof"
    <3> DEFINE role == IF r.binds # w[2] THEN "counterproof"
                       ELSE IF w[1] = "valid-released" THEN "ack" ELSE "timeout"
               t == Template(p, role, w[2])
    <3>1. t \in p.txs /\ t.role = role /\ t.alt = w[2]
      BY <1>0, <1>1, <2>2, TemplateOnce DEF Roster, AlternativeRoles
    <3>2. t \in done
      BY <1>1, <2>2, <3>1 DEF Roster
    <3>3. MintedBy(t, r, i)
      BY <1>1, <1>2, <1>5, <2>2, <3>1 DEF MintedBy, EndOutpoint
    <3> QED
      BY <1>0, <3>1, <3>2, <3>3, OverlayMinted
  <2> QED
    BY <2>1, <2>2
<1> QED
  BY <1>3, <1>4, <1>5

\* The analysis credits everybody with what the unspent outpoints pay.
LEMMA WealthIs ==
  ASSUME NEW p, NEW q, Buildable(p, q), NEW done \in SUBSET p.txs, NEW w \in WorldsOf(p, done),
         NEW s, s.live = Unspent(p, done), NEW L, L \subseteq Everything(p, q), IsFiniteSet(L),
         L \cap Known(p) = Unspent(p, done), L \cap BondIds(q) = {},
         \A i \in Overlay(q) : i \in L <=> \E t \in done : i \in BondedOutputs(q, t),
         NEW u
  PROVE  TraceWealth(p, q, s, w, u) = Holds(p, q, u, L)
<1>0. PlanTyped(p) /\ NoStructuralBlocker(p) /\ Apart(p, q)
  BY DEF Buildable
<1>1. /\ \A r \in q.reserves : /\ EndOutpoint(w, r) \in Transitions(r)
                               /\ Payee(p, q, EndOutpoint(w, r)) = Receiver(w, r)
      /\ \A i \in Overlay(q) :
           (\E t \in done : i \in BondedOutputs(q, t)) <=> \E r \in q.reserves : i = EndOutpoint(w, r)
  BY OverlayEnds
<1>2. PICK T \in SUBSET Known(p) : T = {i \in Unspent(p, done) : Payee(p, q, i) = u}
  BY DEF Unspent
<1>3. PICK V : V = {i \in L \cap Overlay(q) : Payee(p, q, i) = u}
  OBVIOUS
<1>4. PICK R \in SUBSET q.reserves : R = {r \in q.reserves : u = Receiver(w, r)}
  OBVIOUS
<1>5. {i \in L : Payee(p, q, i) = u} = T \cup V
  BY <1>2, <1>3 DEF Everything
<1>6. IsFiniteSet(T)
  <2>1. T \in SUBSET L
    BY <1>2
  <2> QED
    BY <2>1, FS_Subset
<1>7. CarriesFor(p, q, V, R)
  <2>1. PICK b : b = [r \in q.reserves |-> EndOutpoint(w, r)]
    OBVIOUS
  <2>2. \A r \in R : /\ b[r] = EndOutpoint(w, r) /\ b[r] \in Transitions(r) /\ b[r] \in Overlay(q)
                     /\ OverlayReserve(q, b[r]) = r
    BY <1>1, <1>4, <2>1, OverlayOnce DEF Buildable
  <2>3. \A r \in R : b[r] \in V
    BY <1>1, <1>3, <1>4, <2>2
  <2>4. ASSUME NEW i \in V PROVE \E r \in R : i = b[r]
    BY <1>1, <1>3, <1>4, <2>1, <2>4
  <2>5. V = {b[r] : r \in R}
    BY <2>3, <2>4
  <2>6. Picked(q, R, b, V)
    BY <2>2, <2>5 DEF Picked
  <2> QED
    BY <2>6, TotalReserves
<1>8. TotalValue(p, q, T) = ValueOf(p, T)
  <2>1. \A i \in T : p.of[i].role # "resolution"
    BY <1>0, <1>2, ResolutionsSpent
  <2> QED
    BY <1>6, <2>1, TotalPlain
<1>9. TotalValue(p, q, T \cup V) = TotalValue(p, q, T) + Amount(R)
  <2>1. V \cap Known(p) = {}
    BY <1>0, <1>3 DEF Apart
  <2> QED
    BY <1>6, <1>7, <2>1, AddedTotal
<1>10. Holds(p, q, u, L) = ValueOf(p, T) + Amount(R)
  BY <1>5, <1>8, <1>9 DEF Holds
<1>11. ASSUME NEW i \in Known(p)
       PROVE  Payee(p, q, i) =
                IF i \in DOMAIN Endowments(p, q) THEN Endowments(p, q)[i].who ELSE p.of[i].to
  <2>1. i \notin BondIds(q) /\ i \notin Overlay(q)
    BY <1>0 DEF Apart
  <2> QED
    BY <2>1 DEF Payee, Endowments
<1>12. T = {i \in s.live : (IF i \in DOMAIN Endowments(p, q) THEN Endowments(p, q)[i].who
                            ELSE p.of[i].to) = u}
  BY <1>2, <1>11 DEF Unspent
<1>13. R = {r \in q.reserves :
              u = IF w[2] # r.alt \/ w[1] \in {"no-counterproof", "valid-released"}
                  THEN r.provider ELSE r.to}
  BY <1>4 DEF Receiver
<1> QED
  BY <1>10, <1>12, <1>13 DEF TraceWealth

CoverageInv == GraphInv /\ ValueInv /\ WalkInv

LEMMA EndCovers ==
  ASSUME CoverageInv
  PROVE  CoverageHolds
<1> SUFFICES ASSUME verdict = "adequate", Stuck PROVE CoverageHolds
  BY DEF CoverageHolds
<1>0. /\ Built /\ GraphInv /\ ValueInv /\ WalkInv
  BY DEF CoverageInv, Built
<1>1. /\ RostersMatch(Plan, Policy) /\ ReservesFit(Plan, Policy) /\ Covered(Plan, Policy)
      /\ Buildable(Plan, Policy) /\ Minted /\ IsFiniteSet(live)
      /\ PlanTyped(Plan) /\ NoStructuralBlocker(Plan) /\ Spending(Plan) /\ Chained
      /\ live \cap Known(Plan) = Unspent(Plan, confirmed)
  BY <1>0, ShapeSpending DEF GraphInv, ValueInv, WalkInv
<1>2. confirmed \in SUBSET Plan.txs
  BY <1>1 DEF Chained
<1>3. Branch(confirmed) # "unexpected"
  BY <1>0, StuckInBranch DEF OnlyExpectedBranches
<1>4. WorldsOf(Plan, confirmed) # {}
  BY <1>1, <1>2, <1>3, EndHasWorld
<1>5. Reached(Plan, confirmed) \in Traces(Plan)
  BY <1>0, StuckIsTrace
<1>6. ASSUME NEW w \in WorldsOf(Plan, confirmed), NEW u \in Principals(Plan),
             Policy.statuses[<<w, u>>].status = "protected"
      PROVE  Policy.statuses[<<w, u>>].baseline
               <= Holds(Plan, Policy, u, live) + AuthorizedCost(Plan, w, u)
  <2>1. w \in Worlds(Plan)
    BY DEF WorldsOf
  <2>2. /\ Policy.statuses[<<w, u>>].status = Status(Plan, Policy, w, u)
        /\ Policy.statuses[<<w, u>>].baseline = Baseline(Plan, Policy, w, u)
    <3>1. Policy.statuses = Statuses(Plan, Policy)
      BY <1>1 DEF RostersMatch
    <3>2. PICK k : k = <<w, u>>
      OBVIOUS
    <3>3. k \in Worlds(Plan) \X Principals(Plan) /\ k[1] = w /\ k[2] = u
      BY <2>1, <3>2
    <3>4. Statuses(Plan, Policy)[k] = [status |-> Status(Plan, Policy, k[1], k[2]),
                                       baseline |-> Baseline(Plan, Policy, k[1], k[2])]
      BY <3>3 DEF Statuses
    <3> QED
      BY <3>1, <3>2, <3>3, <3>4
  <2>3. PICK s : s = TraceFor(Plan, w)
    OBVIOUS
  <2>4. Baseline(Plan, Policy, w, u)
          <= TraceWealth(Plan, Policy, s, w, u) + AuthorizedCost(Plan, w, u)
    BY <1>1, <1>6, <2>1, <2>2, <2>3 DEF Covered
  <2>5. s.live = Unspent(Plan, confirmed)
    BY <1>1, <1>5, <2>3, TraceIs
  <2>6. live \cap BondIds(Policy) = {}
    <3>1. \E t \in confirmed : t.role \in {"owner-payout", "counterproof"}
      <4>1. Roster(Plan, confirmed, w)
            /\ w[1] \in {"no-counterproof", "valid-released", "valid-release-withheld",
                         "invalid-release-absent"}
        BY <1>1, <1>2, EndRoster
      <4>2. CASE w[1] = "no-counterproof"
        BY <1>1, <4>1, <4>2 DEF Spending, Roster
      <4>3. CASE w[1] # "no-counterproof"
        <5>1. w[2] \in Alternatives(Plan) /\ TransactionRoster(Plan)
          BY <1>1, <4>1, <4>3 DEF Roster, NoStructuralBlocker
        <5>2. PICK t \in Plan.txs : t.role = "counterproof" /\ t.alt = w[2]
          BY <1>1, <5>1, TemplateOnce DEF AlternativeRoles
        <5> QED
          BY <4>1, <4>3, <5>2 DEF Roster
      <4> QED
        BY <4>2, <4>3
    <3> QED
      BY <1>1, <3>1 DEF Minted
  <2>7. /\ live \subseteq Everything(Plan, Policy)
        /\ \A i \in Overlay(Policy) : i \in live <=> \E t \in confirmed : i \in BondedOutputs(Policy, t)
    BY <1>1 DEF Minted
  <2>8. TraceWealth(Plan, Policy, s, w, u) = Holds(Plan, Policy, u, live)
    BY <1>1, <1>2, <2>5, <2>6, <2>7, WealthIs
  <2> QED
    BY <2>2, <2>4, <2>8
<1> QED
  BY <1>4, <1>6 DEF CoverageHolds

(***************************************************************************)
(* analyze_terminal_wealth_v2 adds up the traces of the plan and never     *)
(* builds the bonded graph.  Whenever it answers adequate, the bonded      *)
(* graph, its templates confirming in any order the outpoints allow, ends  *)
(* with every protected principal holding its baseline up to the costs it  *)
(* was told, in every world that ends there, for any plan and policy.      *)
(***************************************************************************)
THEOREM AdequateIsAdequate ==
  ASSUME \A c \in Cases : FreshBonds(c)
  PROVE  Spec => []CoverageHolds
<1>1. Init => CoverageInv
  BY DEF Init, CoverageInv, GraphInv, ValueInv, WalkInv, Built
<1>2. CoverageInv /\ [Next]_vars => CoverageInv'
  BY StepChains, StepConserves, StepWalks DEF CoverageInv
<1>3. CoverageInv => CoverageHolds
  BY EndCovers
<1> QED
  BY <1>1, <1>2, <1>3, PTL DEF Spec

===============================================================================
