---------------------------- MODULE VerdictProofs ----------------------------
(***************************************************************************)
(* Theorems about the verdict, and the induction they need.  Induction is  *)
(* a fact about sets here: a property of numbers or of subsets is the set  *)
(* of those that have it, so no lemma takes an operator.  By it, a fold    *)
(* over a finite set exists and adds its terms in any order: a total rises *)
(* with its terms, and is a hundred times what all factors agree on.       *)
(***************************************************************************)
EXTENDS Insights, FiniteSetTheorems, WellFoundedInduction, TLAPS

\* A set of naturals that is not empty has a least one.
LEMMA LeastNatural ==
  ASSUME NEW S \in SUBSET Nat, S # {}
  PROVE  \E n \in S : \A m \in S : n <= m
PROOF
<1>1. PICK n \in S : \A m \in S : ~ (<<m, n>> \in OpToRel(<, Nat))
  BY NatLessThanWellFounded, WFMin, Zenon
<1>2. ASSUME NEW m \in S PROVE n <= m
  <2>1. CASE m < n
    <3>1. m \in Nat /\ n \in Nat
      OBVIOUS
    <3>2. <<m, n>> \in OpToRel(<, Nat)
      BY <2>1, <3>1, Zenon DEF OpToRel
    <3> QED BY <1>1, <3>2, Zenon
  <2> QED BY <2>1, SMT
<1> QED BY <1>2

\* A set of subsets of a finite set has them all, if it has each one whose
\* proper subsets it has.
LEMMA SubsetInduction ==
  ASSUME NEW D, IsFiniteSet(D), NEW Q,
         \A s \in SUBSET D : (\A t \in SUBSET s : t # s => t \in Q) => s \in Q
  PROVE  \A s \in SUBSET D : s \in Q
PROOF
<1> SUFFICES ASSUME \E s \in SUBSET D : s \notin Q PROVE FALSE
  OBVIOUS
<1> DEFINE Bad == {Cardinality(s) : s \in {t \in SUBSET D : t \notin Q}}
<1>1. \A s \in SUBSET D : IsFiniteSet(s) /\ Cardinality(s) \in Nat
  BY FS_Subset, FS_CardinalityType, Zenon
<1>2. Bad \in SUBSET Nat /\ Bad # {}
  <2>1. Bad \subseteq Nat
    BY <1>1
  <2>2. PICK s \in SUBSET D : s \notin Q
    OBVIOUS
  <2>3. Cardinality(s) \in Bad
    BY <2>2
  <2> HIDE DEF Bad
  <2> QED BY <2>1, <2>3
<1>3. PICK n \in Bad : \A m \in Bad : n <= m
  <2> HIDE DEF Bad
  <2> QED BY <1>2, LeastNatural, Zenon
<1>4. PICK s \in SUBSET D : s \notin Q /\ n = Cardinality(s)
  OBVIOUS
<1>5. ASSUME NEW t \in SUBSET s, t # s PROVE t \in Q
  <2>1. Cardinality(t) < Cardinality(s)
    <3>1. IsFiniteSet(s) /\ Cardinality(s) \in Nat
      BY <1>1
    <3>2. Cardinality(t) <= Cardinality(s) /\ Cardinality(s) # Cardinality(t)
      BY <1>5, <3>1, FS_Subset, Zenon
    <3>3. Cardinality(t) \in Nat
      BY <1>1
    <3> QED BY <3>1, <3>2, <3>3, SMT
  <2>2. t \in SUBSET D
    OBVIOUS
  <2>3. t \notin Q => Cardinality(t) \in Bad
    BY <2>2
  <2> HIDE DEF Bad
  <2>4. t \notin Q => Cardinality(s) <= Cardinality(t)
    BY <1>3, <1>4, <2>3, Zenon
  <2> QED BY <1>1, <2>1, <2>2, <2>4, SMT
<1> QED BY <1>4, <1>5

\* Recursion on the subsets of a finite set, one element less each time, defines
\* a function.
Recurs(it, D, base, pick, step) ==
  \A s \in SUBSET D : it[s] = IF s = {} THEN base ELSE step[<<pick[s], it[s \ {pick[s]}]>>]

LEMMA SubsetRecursion ==
  ASSUME NEW D, IsFiniteSet(D), NEW V, NEW base \in V,
         NEW pick, \A s \in SUBSET D : s # {} => pick[s] \in s,
         NEW step, \A x \in D, v \in V : step[<<x, v>>] \in V
  PROVE  \E it \in [SUBSET D -> V] : Recurs(it, D, base, pick, step)
PROOF
<1> DEFINE Rest(s) == s \ {pick[s]}
           Upto(n) == {s \in SUBSET D : Cardinality(s) <= n}
           Solves(it, n) == \A s \in Upto(n) : it[s] = IF s = {} THEN base ELSE step[<<pick[s], it[Rest(s)]>>]
           Solved == {n \in Nat : \E it \in [Upto(n) -> V] : Solves(it, n)}
<1>1. \A s \in SUBSET D : IsFiniteSet(s) /\ Cardinality(s) \in Nat
  BY FS_Subset, FS_CardinalityType, Zenon
<1>2. ASSUME NEW s \in SUBSET D, s # {}
      PROVE  pick[s] \in D /\ Rest(s) \in SUBSET D /\ Cardinality(Rest(s)) = Cardinality(s) - 1
  <2>1. pick[s] \in s
    BY <1>2
  <2>2. Cardinality(Rest(s)) = Cardinality(s) - 1
    BY <1>1, <2>1, FS_RemoveElement
  <2> QED BY <2>1, <2>2
<1>3. 0 \in Solved
  <2>1. \A s \in Upto(0) : s = {}
    <3>1. ASSUME NEW s \in Upto(0) PROVE s = {}
      <4>1. s \in SUBSET D /\ Cardinality(s) <= 0
        OBVIOUS
      <4>2. Cardinality(s) = 0
        BY <1>1, <4>1, SMT
      <4> QED BY <1>1, <4>1, <4>2, FS_EmptySet
    <3> QED BY <3>1
  <2> DEFINE it == [s \in Upto(0) |-> base]
  <2>2. it \in [Upto(0) -> V] /\ Solves(it, 0)
    BY <2>1
  <2> QED BY <2>2
<1>4. ASSUME NEW n \in Solved PROVE n + 1 \in Solved
  <2>1. PICK it \in [Upto(n) -> V] : Solves(it, n)
    OBVIOUS
  <2> DEFINE jt == [s \in Upto(n + 1) |-> IF s = {} THEN base ELSE step[<<pick[s], it[Rest(s)]>>]]
  <2>2. n \in Nat /\ n + 1 \in Nat
    OBVIOUS
  <2>3. ASSUME NEW s \in Upto(n + 1), s # {} PROVE pick[s] \in D /\ Rest(s) \in Upto(n) /\ Rest(s) \in Upto(n + 1)
    <3>1. s \in SUBSET D /\ Cardinality(s) <= n + 1
      OBVIOUS
    <3>2. pick[s] \in D /\ Rest(s) \in SUBSET D /\ Cardinality(Rest(s)) = Cardinality(s) - 1
      BY <1>2, <2>3, <3>1, Zenon
    <3>3. Cardinality(Rest(s)) <= n /\ Cardinality(Rest(s)) <= n + 1
      BY <1>1, <2>2, <3>1, <3>2, SMT
    <3> QED BY <3>2, <3>3
  <2>4. jt \in [Upto(n + 1) -> V]
    <3>1. ASSUME NEW s \in Upto(n + 1) PROVE (IF s = {} THEN base ELSE step[<<pick[s], it[Rest(s)]>>]) \in V
      <4>1. CASE s = {}
        BY <4>1
      <4>2. CASE s # {}
        <5>1. pick[s] \in D /\ Rest(s) \in Upto(n)
          BY <2>3, <4>2
        <5> HIDE DEF Rest, Upto
        <5>2. it[Rest(s)] \in V
          BY <2>1, <5>1, Zenon
        <5> QED BY <4>2, <5>1, <5>2, Zenon
      <4> QED BY <4>1, <4>2
    <3> HIDE DEF Rest, Upto
    <3> QED BY <3>1
  <2>5. ASSUME NEW s \in Upto(n) PROVE s \in Upto(n + 1) /\ jt[s] = it[s]
    <3>1. s \in Upto(n + 1)
      BY <1>1, <2>2, SMT
    <3>2. it[s] = IF s = {} THEN base ELSE step[<<pick[s], it[Rest(s)]>>]
      BY <2>1
    <3> HIDE DEF Rest, Upto
    <3> QED BY <3>1, <3>2
  <2>6. Solves(jt, n + 1)
    <3>1. ASSUME NEW s \in Upto(n + 1)
          PROVE  jt[s] = IF s = {} THEN base ELSE step[<<pick[s], jt[Rest(s)]>>]
      <4>1. CASE s = {}
        <5> HIDE DEF Upto, Rest
        <5> QED BY <4>1
      <4>2. CASE s # {}
        <5>1. Rest(s) \in Upto(n)
          BY <2>3, <4>2
        <5>2. jt[Rest(s)] = it[Rest(s)]
          <6> HIDE DEF Rest, Upto, jt
          <6> QED BY <2>5, <5>1
        <5> HIDE DEF Rest, Upto
        <5> QED BY <4>2, <5>2
      <4> QED BY <4>1, <4>2
    <3> HIDE DEF Rest, Upto, jt
    <3> QED BY <3>1
  <2> HIDE DEF jt, Solves, Upto
  <2> QED BY <2>2, <2>4, <2>6
<1>5. Cardinality(D) \in Solved
  <2> DEFINE Bad == Nat \ Solved
  <2> HIDE DEF Solved
  <2>1. CASE Bad = {}
    BY <1>1, <2>1
  <2>2. CASE Bad # {}
    <3>1. PICK n \in Bad : \A m \in Bad : n <= m
      <4>1. Bad \in SUBSET Nat
        OBVIOUS
      <4> HIDE DEF Bad
      <4> QED BY <2>2, <4>1, LeastNatural, Zenon
    <3>2. n \in Nat /\ n # 0
      BY <1>3
    <3>3. n - 1 \in Nat /\ ~(n <= n - 1) /\ (n - 1) + 1 = n
      BY <3>2, SMT
    <3>4. n - 1 \in Solved
      BY <3>1, <3>3
    <3> QED BY <1>4, <3>3, <3>4
  <2> QED BY <2>1, <2>2
<1>6. Upto(Cardinality(D)) = SUBSET D
  <2>1. \A s \in SUBSET D : Cardinality(s) <= Cardinality(D)
    BY FS_Subset, Zenon
  <2> QED BY <2>1
<1>7. PICK it \in [Upto(Cardinality(D)) -> V] : Solves(it, Cardinality(D))
  <2> HIDE DEF Upto, Solves
  <2> QED BY <1>5
<1> HIDE DEF Upto
<1> QED BY <1>6, <1>7 DEF Recurs

-----------------------------------------------------------------------------
(***************************************************************************)
(* Sums.                                                                   *)
(***************************************************************************)
Total(f) == FoldFunction(+, 0, f)

Numbers(f) == IsFiniteSet(DOMAIN f) /\ \A x \in DOMAIN f : f[x] \in Int

\* part gives the sum over each subset, whichever element is added last.
Partial(f, part) ==
  /\ part \in [SUBSET DOMAIN f -> Int]
  /\ part[{}] = 0
  /\ \A s \in SUBSET DOMAIN f : \A x \in s : part[s] = f[x] + part[s \ {x}]

LEMMA TotalParts ==
  ASSUME NEW f, Numbers(f)
  PROVE  \E part : Partial(f, part) /\ Total(f) = part[DOMAIN f]
PROOF
<1> DEFINE D == DOMAIN f
           Some(s) == CHOOSE x \in s : TRUE
           Equation(it) == it = [s \in SUBSET D |-> IF s = {} THEN 0 ELSE f[Some(s)] + it[s \ {Some(s)}]]
           part == CHOOSE it : Equation(it)
<1>1. IsFiniteSet(D) /\ \A x \in D : f[x] \in Int
  BY DEF Numbers
<1>2. Total(f) = part[D]
  BY DEF Total, FoldFunction, FoldFunctionOnSet, MapThenFoldSet
<1>3. \A s : s # {} => Some(s) \in s
  OBVIOUS
<1>4. \E it \in [SUBSET D -> Int] : Equation(it)
  <2> DEFINE pick == [s \in SUBSET D |-> Some(s)]
             step == [p \in D \X Int |-> f[p[1]] + p[2]]
  <2>1. \A s \in SUBSET D : s # {} => pick[s] \in s
    BY <1>3
  <2>2. \A x \in D, v \in Int : step[<<x, v>>] = f[x] + v /\ step[<<x, v>>] \in Int
    BY <1>1
  <2>3. \A s \in SUBSET D : pick[s] = Some(s)
    OBVIOUS
  <2> HIDE DEF pick, step, Some, D
  <2>4. \E it \in [SUBSET D -> Int] : Recurs(it, D, 0, pick, step)
    <3>1. 0 \in Int
      OBVIOUS
    <3>2. \A x \in D, v \in Int : step[<<x, v>>] \in Int
      BY <2>2
    <3> QED BY <1>1, <2>1, <3>1, <3>2, SubsetRecursion, Zenon
  <2>5. PICK it \in [SUBSET D -> Int] :
           \A s \in SUBSET D : it[s] = IF s = {} THEN 0 ELSE step[<<pick[s], it[s \ {pick[s]}]>>]
    BY <2>4 DEF Recurs
  <2>6. ASSUME NEW s \in SUBSET D
        PROVE  it[s] = IF s = {} THEN 0 ELSE f[Some(s)] + it[s \ {Some(s)}]
    <3>1. CASE s = {}
      BY <2>5, <3>1
    <3>2. CASE s # {}
      <4>1. Some(s) \in D /\ s \ {Some(s)} \in SUBSET D /\ pick[s] = Some(s)
        BY <1>3, <2>3, <3>2
      <4>2. it[s \ {Some(s)}] \in Int
        BY <2>5, <4>1
      <4> QED BY <2>2, <2>5, <3>2, <4>1, <4>2
    <3> QED BY <3>1, <3>2
  <2>7. Equation(it)
    BY <2>5, <2>6
  <2> QED BY <2>5, <2>7
<1>5. Equation(part)
  <2> HIDE DEF Equation
  <2> QED BY <1>4, Zenon
<1> HIDE DEF part
<1>6. \A s \in SUBSET D : part[s] = IF s = {} THEN 0 ELSE f[Some(s)] + part[s \ {Some(s)}]
  <2> HIDE DEF Some
  <2>1. ASSUME NEW it, NEW jt, it = [s \in SUBSET D |-> IF s = {} THEN 0 ELSE f[Some(s)] + jt[s \ {Some(s)}]]
        PROVE  \A s \in SUBSET D : it[s] = IF s = {} THEN 0 ELSE f[Some(s)] + jt[s \ {Some(s)}]
    BY <2>1
  <2> QED BY <1>5, <2>1, Zenon
<1>7. part \in [SUBSET D -> Int]
  <2>1. \A s \in SUBSET D : part[s] \in Int
    <3> DEFINE Q == {s \in SUBSET D : part[s] \in Int}
    <3>1. ASSUME NEW s \in SUBSET D, \A t \in SUBSET s : t # s => t \in Q
          PROVE  s \in Q
      <4>1. CASE s = {}
        <5>1. part[s] = 0
          BY <1>6, <4>1, Zenon
        <5> QED BY <5>1
      <4>2. CASE s # {}
        <5>1. Some(s) \in s
          BY <1>3, <4>2
        <5> HIDE DEF Some
        <5>2. s \ {Some(s)} \in Q
          BY <3>1, <5>1
        <5>3. part[s] = f[Some(s)] + part[s \ {Some(s)}] /\ f[Some(s)] \in Int /\ part[s \ {Some(s)}] \in Int
          BY <1>1, <1>6, <4>2, <5>1, <5>2
        <5>4. part[s] \in Int
          BY <5>3
        <5> QED BY <5>4
      <4> QED BY <4>1, <4>2
    <3> HIDE DEF Q
    <3>2. \A s \in SUBSET D : s \in Q
      BY <1>1, <3>1, SubsetInduction, Zenon
    <3> QED BY <3>2 DEF Q
  <2>2. part = [s \in SUBSET D |-> part[s]]
    <3> HIDE DEF Some
    <3>1. ASSUME NEW it, NEW jt, it = [s \in SUBSET D |-> IF s = {} THEN 0 ELSE f[Some(s)] + jt[s \ {Some(s)}]]
          PROVE  it = [s \in SUBSET D |-> it[s]]
      BY <3>1
    <3> QED BY <1>5, <3>1, Zenon
  <2> QED BY <2>1, <2>2
<1>8. \A s \in SUBSET D : \A x \in s : part[s] = f[x] + part[s \ {x}]
  <2> DEFINE Q == {s \in SUBSET D : \A x \in s : part[s] = f[x] + part[s \ {x}]}
  <2>1. ASSUME NEW s \in SUBSET D, \A t \in SUBSET s : t # s => t \in Q
        PROVE  s \in Q
    <3>1. SUFFICES ASSUME NEW x \in s PROVE part[s] = f[x] + part[s \ {x}]
      OBVIOUS
    <3> DEFINE c == Some(s)
    <3>2. c \in s /\ part[s] = f[c] + part[s \ {c}]
      BY <1>3, <1>6
    <3> HIDE DEF c, Some
    <3>3. CASE x = c
      BY <3>2, <3>3
    <3>4. CASE x # c
      <4> DEFINE both == s \ {c, x}
      <4>1. s \ {c} \in Q /\ x \in s \ {c} /\ (s \ {c}) \ {x} = both
        BY <2>1, <3>2, <3>4
      <4>2. s \ {x} \in Q /\ c \in s \ {x} /\ (s \ {x}) \ {c} = both
        BY <2>1, <3>2, <3>4
      <4>3. part[s \ {c}] = f[x] + part[both] /\ part[s \ {x}] = f[c] + part[both]
        BY <4>1, <4>2
      <4>4. f[x] \in Int /\ f[c] \in Int /\ part[both] \in Int
        BY <1>1, <1>7, <3>2
      <4> HIDE DEF both
      <4> QED BY <3>2, <4>3, <4>4, SMT
    <3> QED BY <3>3, <3>4
  <2> HIDE DEF Q
  <2>2. \A s \in SUBSET D : s \in Q
    BY <1>1, <2>1, SubsetInduction, Zenon
  <2> QED BY <2>2 DEF Q
<1>9. part[{}] = 0
  BY <1>6
<1> QED BY <1>2, <1>7, <1>8, <1>9 DEF Partial

LEMMA TotalType ==
  ASSUME NEW f, Numbers(f)
  PROVE  Total(f) \in Int
PROOF
<1>1. PICK part : Partial(f, part) /\ Total(f) = part[DOMAIN f]
  BY TotalParts, Zenon
<1> QED BY <1>1 DEF Partial

\* The sum of nothing.
LEMMA TotalEmpty ==
  ASSUME NEW f, DOMAIN f = {}
  PROVE  Total(f) = 0
PROOF
<1>1. Numbers(f)
  BY FS_EmptySet DEF Numbers
<1>2. PICK part : Partial(f, part) /\ Total(f) = part[DOMAIN f]
  BY <1>1, TotalParts, Zenon
<1> QED BY <1>2 DEF Partial

\* Smaller terms make a smaller sum.
LEMMA TotalOrder ==
  ASSUME NEW f, NEW g, Numbers(f), Numbers(g), DOMAIN g = DOMAIN f,
         \A x \in DOMAIN f : f[x] <= g[x]
  PROVE  Total(f) <= Total(g)
PROOF
<1> DEFINE D == DOMAIN f
<1>1. PICK p : Partial(f, p) /\ Total(f) = p[D]
  BY TotalParts, Zenon
<1>2. PICK q : Partial(g, q) /\ Total(g) = q[DOMAIN g]
  BY TotalParts, Zenon
<1>3. IsFiniteSet(D)
  BY DEF Numbers
<1> DEFINE Q == {s \in SUBSET D : p[s] <= q[s]}
<1>4. ASSUME NEW s \in SUBSET D, \A t \in SUBSET s : t # s => t \in Q
      PROVE  s \in Q
  <2>1. CASE s = {}
    <3>1. p[s] = 0 /\ q[s] = 0
      BY <1>1, <1>2, <2>1 DEF Partial
    <3> QED BY <3>1
  <2>2. CASE s # {}
    <3>1. PICK x \in s : TRUE
      BY <2>2
    <3> DEFINE t == s \ {x}
    <3>2. p[s] = f[x] + p[t] /\ q[s] = g[x] + q[t]
      BY <1>1, <1>2 DEF Partial
    <3>3. t \in Q
      BY <1>4, <3>1
    <3>4. f[x] \in Int /\ g[x] \in Int /\ f[x] <= g[x]
      BY DEF Numbers
    <3>5. p[t] \in Int /\ q[t] \in Int
      BY <1>1, <1>2 DEF Partial
    <3> HIDE DEF t
    <3>6. p[s] <= q[s]
      BY <3>2, <3>3, <3>4, <3>5
    <3> QED BY <3>6
  <2> QED BY <2>1, <2>2
<1> HIDE DEF Q
<1>5. \A s \in SUBSET D : s \in Q
  BY <1>3, <1>4, SubsetInduction, Zenon
<1> QED BY <1>1, <1>2, <1>5 DEF Q

\* A constant adds up to its multiple.
LEMMA TotalConstant ==
  ASSUME NEW f, IsFiniteSet(DOMAIN f), NEW c \in Int, \A x \in DOMAIN f : f[x] = c
  PROVE  Total(f) = Cardinality(DOMAIN f) * c
PROOF
<1> DEFINE D == DOMAIN f
<1>1. PICK p : Partial(f, p) /\ Total(f) = p[D]
  BY TotalParts, Zenon DEF Numbers
<1> DEFINE Q == {s \in SUBSET D : p[s] = Cardinality(s) * c}
<1>2. ASSUME NEW s \in SUBSET D, \A t \in SUBSET s : t # s => t \in Q
      PROVE  s \in Q
  <2>1. CASE s = {}
    <3>1. p[s] = 0 /\ Cardinality(s) = 0
      BY <1>1, <2>1, FS_EmptySet DEF Partial
    <3> QED BY <3>1
  <2>2. CASE s # {}
    <3>1. PICK x \in s : TRUE
      BY <2>2
    <3> DEFINE t == s \ {x}
    <3>2. p[s] = c + p[t]
      BY <1>1 DEF Partial
    <3>3. t \in Q
      BY <1>2, <3>1
    <3>4. IsFiniteSet(s) /\ Cardinality(s) \in Nat /\ Cardinality(t) = Cardinality(s) - 1
      BY <3>1, FS_Subset, FS_CardinalityType, FS_RemoveElement
    <3>5. (Cardinality(s) - 1) * c = Cardinality(s) * c - c
      BY <3>4, SMT
    <3> HIDE DEF t
    <3>6. p[s] = Cardinality(s) * c
      BY <3>2, <3>3, <3>4, <3>5
    <3> QED BY <3>6
  <2> QED BY <2>1, <2>2
<1> HIDE DEF Q
<1>3. \A s \in SUBSET D : s \in Q
  BY <1>2, SubsetInduction, ZenonT(30)
<1> QED BY <1>1, <1>3 DEF Q

\* Any term can be taken out of a sum.
LEMMA TotalSplit ==
  ASSUME NEW f, Numbers(f), NEW x \in DOMAIN f,
         NEW g, DOMAIN g = DOMAIN f \ {x}, \A y \in DOMAIN g : g[y] = f[y]
  PROVE  Numbers(g) /\ Total(f) = f[x] + Total(g)
PROOF
<1> DEFINE D == DOMAIN g
<1>1. Numbers(g)
  BY FS_RemoveElement DEF Numbers
<1>2. PICK p : Partial(f, p) /\ Total(f) = p[DOMAIN f]
  BY TotalParts, Zenon
<1>3. PICK q : Partial(g, q) /\ Total(g) = q[D]
  BY <1>1, TotalParts, Zenon
<1> DEFINE Q == {s \in SUBSET D : p[s] = q[s]}
<1>4. ASSUME NEW s \in SUBSET D, \A t \in SUBSET s : t # s => t \in Q
      PROVE  s \in Q
  <2>1. CASE s = {}
    <3>1. p[s] = 0 /\ q[s] = 0
      BY <1>2, <1>3, <2>1 DEF Partial
    <3> QED BY <3>1
  <2>2. CASE s # {}
    <3>1. PICK y \in s : TRUE
      BY <2>2
    <3> DEFINE t == s \ {y}
    <3>2. p[s] = f[y] + p[t] /\ q[s] = g[y] + q[t] /\ g[y] = f[y]
      BY <1>2, <1>3 DEF Partial
    <3>3. t \in Q
      BY <1>4, <3>1
    <3> HIDE DEF t
    <3>4. p[s] = q[s]
      BY <3>2, <3>3
    <3> QED BY <3>4
  <2> QED BY <2>1, <2>2
<1> HIDE DEF Q
<1>5. \A s \in SUBSET D : s \in Q
  <2>1. IsFiniteSet(D)
    BY <1>1 DEF Numbers
  <2> QED BY <1>4, <2>1, SubsetInduction, ZenonT(30)
<1>6. p[DOMAIN f] = f[x] + p[D]
  BY <1>2 DEF Partial
<1> QED BY <1>1, <1>2, <1>3, <1>5, <1>6 DEF Q

-----------------------------------------------------------------------------
\* Among finitely many elements one has the least key.
LEMMA LeastOfFinite ==
  ASSUME NEW S, IsFiniteSet(S), S # {}, NEW key, \A x \in S : key[x] \in Int
  PROVE  \E x \in S : \A y \in S : key[x] <= key[y]
PROOF
<1> DEFINE Q == {s \in SUBSET S : s = {} \/ \E x \in s : \A y \in s : key[x] <= key[y]}
<1>1. ASSUME NEW s \in SUBSET S, \A t \in SUBSET s : t # s => t \in Q
      PROVE  s \in Q
  <2>1. SUFFICES ASSUME s # {} PROVE \E x \in s : \A y \in s : key[x] <= key[y]
    OBVIOUS
  <2>2. PICK e \in s : TRUE
    BY <2>1
  <2> DEFINE t == s \ {e}
  <2>3. t = {} \/ \E x \in t : \A y \in t : key[x] <= key[y]
    <3>1. t \in SUBSET s /\ t # s
      BY <2>2
    <3>2. t \in Q
      <4> HIDE DEF Q, t
      <4> QED BY <1>1, <3>1, Zenon
    <3> HIDE DEF t
    <3> QED BY <3>2
  <2>4. CASE t = {}
    BY <2>4
  <2>5. CASE t # {}
    <3>1. PICK x \in t : \A y \in t : key[x] <= key[y]
      BY <2>3, <2>5
    <3>2. CASE key[e] <= key[x]
      BY <3>1, <3>2
    <3>3. CASE ~(key[e] <= key[x])
      BY <3>1, <3>3
    <3> QED BY <3>2, <3>3
  <2> QED BY <2>4, <2>5
<1> HIDE DEF Q
<1>2. \A s \in SUBSET S : s \in Q
  BY <1>1, SubsetInduction, Zenon
<1> QED BY <1>2 DEF Q

-----------------------------------------------------------------------------
LEMMA TheFactors ==
  Factors = {"valuation_gap", "price_momentum", "jeonse_ratio_trend", "interest_rate_cycle",
             "liquidity_trend", "supply_demand_gap", "unsold_risk", "migration_momentum",
             "transport_access", "development_upside", "regulation_impact", "tax_burden",
             "cycle_position", "sentiment_composite"}
BY DEF Factors, FACTOR_WEIGHTS

LEMMA WeightsType == \A f \in Factors : FACTOR_WEIGHTS[f] \in 5..10
PROOF
<1>1. ASSUME NEW f \in Factors PROVE FACTOR_WEIGHTS[f] \in 5..10
  BY TheFactors, SMTT(30) DEF FACTOR_WEIGHTS
<1> QED BY <1>1

\* The range of every factor that has one.
RangedFactors == Factors \ {"cycle_position", "sentiment_composite"}

LEMMA RangesType ==
  ASSUME NEW f \in RangedFactors
  PROVE  /\ FACTOR_RANGES[f][1] \in Int /\ FACTOR_RANGES[f][2] \in Int /\ FACTOR_RANGES[f][3] \in BOOLEAN
         /\ FACTOR_RANGES[f][1] < FACTOR_RANGES[f][2]
PROOF
<1>1. f \in {"valuation_gap", "price_momentum", "jeonse_ratio_trend", "interest_rate_cycle", "liquidity_trend", "supply_demand_gap", "unsold_risk", "migration_momentum", "transport_access", "development_upside", "regulation_impact", "tax_burden"}
  BY TheFactors DEF RangedFactors
<1>2. /\ FACTOR_RANGES["valuation_gap"] = <<-30, 30, FALSE>>
      /\ FACTOR_RANGES["price_momentum"] = <<-10, 15, FALSE>>
      /\ FACTOR_RANGES["jeonse_ratio_trend"] = <<-10, 10, FALSE>>
      /\ FACTOR_RANGES["interest_rate_cycle"] = <<-100, 100, TRUE>>
      /\ FACTOR_RANGES["liquidity_trend"] = <<-50, 50, FALSE>>
      /\ FACTOR_RANGES["supply_demand_gap"] = <<-50, 50, FALSE>>
      /\ FACTOR_RANGES["unsold_risk"] = <<0, 10, TRUE>>
      /\ FACTOR_RANGES["migration_momentum"] = <<-1, 1, FALSE>>
      /\ FACTOR_RANGES["transport_access"] = <<300, 1500, TRUE>>
      /\ FACTOR_RANGES["development_upside"] = <<0, 3, FALSE>>
      /\ FACTOR_RANGES["regulation_impact"] = <<0, 6, TRUE>>
      /\ FACTOR_RANGES["tax_burden"] = <<0, 15, TRUE>>
  BY DEF FACTOR_RANGES
<1> DEFINE Proper(r) == r[1] \in Int /\ r[2] \in Int /\ r[3] \in BOOLEAN /\ r[1] < r[2]
<1>3. /\ Proper(FACTOR_RANGES["valuation_gap"])
      /\ Proper(FACTOR_RANGES["price_momentum"])
      /\ Proper(FACTOR_RANGES["jeonse_ratio_trend"])
      /\ Proper(FACTOR_RANGES["interest_rate_cycle"])
      /\ Proper(FACTOR_RANGES["liquidity_trend"])
      /\ Proper(FACTOR_RANGES["supply_demand_gap"])
      /\ Proper(FACTOR_RANGES["unsold_risk"])
      /\ Proper(FACTOR_RANGES["migration_momentum"])
      /\ Proper(FACTOR_RANGES["transport_access"])
      /\ Proper(FACTOR_RANGES["development_upside"])
      /\ Proper(FACTOR_RANGES["regulation_impact"])
      /\ Proper(FACTOR_RANGES["tax_burden"])
  BY <1>2, SMT
<1> HIDE DEF Proper
<1>4. Proper(FACTOR_RANGES[f])
  BY <1>1, <1>3, Zenon
<1> QED BY <1>4 DEF Proper

LEMMA DivOrder ==
  ASSUME NEW d \in Nat \ {0}, NEW m \in Int, NEW n \in Int, m <= n
  PROVE  m \div d \in Int /\ n \div d \in Int /\ m \div d <= n \div d
PROOF
<1> DEFINE p == m \div d  q == n \div d  r == m % d  s == n % d
<1>1. /\ p \in Int /\ q \in Int /\ r \in 0..d - 1 /\ s \in 0..d - 1
      /\ m = d * p + r /\ n = d * q + s
  BY SMT
<1> HIDE DEF p, q, r, s
<1>2. p <= q
  <2>1. SUFFICES ASSUME p >= q + 1 PROVE FALSE
    BY <1>1, SMT
  <2>2. d * p >= d * q + d
    <3>1. d * (p - (q + 1)) >= 0
      BY <1>1, <2>1, SMT
    <3> QED BY <1>1, <3>1, SMT
  <2> QED BY <1>1, <2>2, SMT
<1> QED BY <1>1, <1>2 DEF p, q

\* A normalised value lies between zero and Full, and follows its raw value, or
\* runs against it if the range is inverted.
LEMMA MinMaxOrder ==
  ASSUME NEW lo \in Int, NEW hi \in Int, lo < hi, NEW v \in Int, NEW w \in Int, v <= w
  PROVE  /\ minmax(v, lo, hi, FALSE) \in 0..Full /\ minmax(w, lo, hi, TRUE) \in 0..Full
         /\ minmax(v, lo, hi, FALSE) <= minmax(w, lo, hi, FALSE)
         /\ minmax(w, lo, hi, TRUE) <= minmax(v, lo, hi, TRUE)
PROOF
<1> DEFINE a == ((v - lo) * Full) \div (hi - lo)  b == ((w - lo) * Full) \div (hi - lo)
<1>1. a \in Int /\ b \in Int /\ a <= b
  <2>1. /\ hi - lo \in Nat \ {0} /\ (v - lo) * Full \in Int /\ (w - lo) * Full \in Int
        /\ (v - lo) * Full <= (w - lo) * Full
    BY SMT DEF Full
  <2> QED BY <2>1, DivOrder, Zenon
<1>2. hi # lo
  BY SMT
<1>3. /\ minmax(v, lo, hi, FALSE) = Clamp(a, 0, Full) /\ minmax(w, lo, hi, FALSE) = Clamp(b, 0, Full)
      /\ minmax(v, lo, hi, TRUE) = Full - Clamp(a, 0, Full) /\ minmax(w, lo, hi, TRUE) = Full - Clamp(b, 0, Full)
  BY <1>2 DEF minmax
<1> HIDE DEF a, b
<1> DEFINE ca == Clamp(a, 0, Full)  cb == Clamp(b, 0, Full)
<1>4. Full = 1200
  BY DEF Full
<1>5. ca \in 0..1200 /\ cb \in 0..1200 /\ ca <= cb
  BY <1>1, <1>4, SMT DEF Clamp
<1> HIDE DEF ca, cb
<1>6. /\ minmax(v, lo, hi, FALSE) = ca /\ minmax(w, lo, hi, FALSE) = cb
      /\ minmax(v, lo, hi, TRUE) = Full - ca /\ minmax(w, lo, hi, TRUE) = Full - cb
  BY <1>3, Zenon DEF ca, cb
<1> DEFINE n1 == minmax(v, lo, hi, FALSE)  n2 == minmax(w, lo, hi, FALSE)
           n3 == minmax(v, lo, hi, TRUE)  n4 == minmax(w, lo, hi, TRUE)
<1> HIDE DEF n1, n2, n3, n4
<1>7. n1 = ca /\ n2 = cb /\ n3 = Full - ca /\ n4 = Full - cb
  BY <1>6, Zenon DEF n1, n2, n3, n4
<1>8. n1 \in 0..Full /\ n4 \in 0..Full /\ n1 <= n2 /\ n4 <= n3
  BY <1>4, <1>5, <1>7, SMT
<1> QED BY <1>8, Zenon DEF n1, n2, n3, n4

LEMMA NormalizedType ==
  ASSUME NEW f \in RangedFactors, NEW v \in Int
  PROVE  Normalized(f, v) \in 0..Full
PROOF
<1>1. v <= v
  BY SMT
<1>2. /\ FACTOR_RANGES[f][1] \in Int /\ FACTOR_RANGES[f][2] \in Int /\ FACTOR_RANGES[f][3] \in BOOLEAN
      /\ FACTOR_RANGES[f][1] < FACTOR_RANGES[f][2]
  BY RangesType
<1>3. CASE FACTOR_RANGES[f][3] = TRUE
  BY <1>1, <1>2, <1>3, MinMaxOrder, Zenon DEF Normalized
<1>4. CASE FACTOR_RANGES[f][3] = FALSE
  BY <1>1, <1>2, <1>4, MinMaxOrder, Zenon DEF Normalized
<1> QED BY <1>2, <1>3, <1>4

\* A step in favour of a factor never lowers what it counts.
LEMMA NormalizedOrder ==
  ASSUME NEW f \in RangedFactors, NEW v \in Int, NEW w \in Int,
         FAVORABLE_SIGN(f) * v <= FAVORABLE_SIGN(f) * w
  PROVE  Normalized(f, v) <= Normalized(f, w)
PROOF
<1>1. /\ FACTOR_RANGES[f][1] \in Int /\ FACTOR_RANGES[f][2] \in Int /\ FACTOR_RANGES[f][3] \in BOOLEAN
      /\ FACTOR_RANGES[f][1] < FACTOR_RANGES[f][2]
  BY RangesType
<1>2. CASE FACTOR_RANGES[f][3] = TRUE
  <2>1. w <= v
    BY <1>2, SMT DEF FAVORABLE_SIGN
  <2> QED BY <1>1, <1>2, <2>1, MinMaxOrder, Zenon DEF Normalized
<1>3. CASE FACTOR_RANGES[f][3] = FALSE
  <2>1. v <= w
    BY <1>3, SMT DEF FAVORABLE_SIGN
  <2> QED BY <1>1, <1>3, <2>1, MinMaxOrder, Zenon DEF Normalized
<1> QED BY <1>1, <1>2, <1>3

-----------------------------------------------------------------------------
LEMMA SumsAreTotals == \A f : SumOf(f) = Total(f)
BY DEF SumOf, Total

\* What a factor contributes is typed, and neutral if it has no data.
Sound(s) == s \in FactorScores /\ (s.missing => s.norm = NEUTRAL)

LEMMA SoundType ==
  ASSUME NEW s, Sound(s)
  PROVE  s.norm \in 0..1200 /\ s.norm \in Int /\ s.raw \in Int /\ s.missing \in BOOLEAN
PROOF
<1>1. s.norm \in 0..Full /\ s.raw \in Int /\ s.missing \in BOOLEAN
  BY DEF Sound, FactorScores
<1>2. s.norm \in 0..1200
  BY <1>1 DEF Full
<1>3. \A x \in 0..1200 : x \in Int
  BY SMT
<1> QED BY <1>1, <1>2, <1>3, ZenonT(30)

LEMMA PointsOf == Points(100) = 120000 /\ Points(65) = 78000 /\ Full = 1200 /\ NEUTRAL = 600
BY SMT DEF Points, Full, NEUTRAL

LEMMA NoDataSound == Sound(NoData)
BY SMT DEF Sound, NoData, FactorScores, NEUTRAL, Full

LEMMA MadeSound ==
  ASSUME NEW raw \in Int, NEW norm \in Int
  PROVE  Sound(Made(raw, norm))
BY SMT DEF Sound, Made, FactorScores, Clamp, Full

LEMMA RangedSound ==
  ASSUME NEW f \in RangedFactors, NEW raw \in Int
  PROVE  Sound(Ranged(f, raw))
PROOF
<1>1. Normalized(f, raw) \in Int
  <2>1. Normalized(f, raw) \in 0..Full
    BY NormalizedType
  <2> QED BY <2>1, SMT DEF Full
<1> QED BY <1>1, MadeSound, Zenon DEF Ranged

\* The sum of the known numbers of a list.
LEMMA KnownSum ==
  ASSUME NEW list \in Seq(Number)
  PROVE  SumOf([i \in Known(list) |-> list[i]]) \in Int
PROOF
<1> DEFINE f == [i \in Known(list) |-> list[i]]
<1>1. Known(list) \in SUBSET (1..Len(list)) /\ \A i \in Known(list) : list[i] \in Int
  BY DEF Known, Number
<1>2. IsFiniteSet(1..Len(list))
  BY FS_Interval, SMT
<1>3. IsFiniteSet(Known(list))
  BY <1>1, <1>2, FS_Subset, Zenon
<1>4. Numbers(f)
  BY <1>1, <1>3 DEF Numbers
<1> HIDE DEF f
<1>5. SumOf(f) \in Int
  BY <1>4, SumsAreTotals, TotalType
<1> QED BY <1>5 DEF f

LEMMA DivType ==
  ASSUME NEW d \in Nat \ {0}, NEW n \in Int
  PROVE  n \div d \in Int
PROOF
<1>1. n <= n
  BY SMT
<1> QED BY <1>1, DivOrder, Zenon

LEMMA SentimentSound ==
  ASSUME NEW r \in [DOMAIN SENTIMENT_PARTS -> Number]
  PROVE  Sound(calc_sentiment_composite(r))
PROOF
<1> DEFINE parts == {p \in DOMAIN SENTIMENT_PARTS : r[p] # Missing}
           w(p) == SENTIMENT_PARTS[p][1]
           norm(p) == minmax(r[p], SENTIMENT_PARTS[p][2], SENTIMENT_PARTS[p][3], FALSE)
           weights == [p \in parts |-> w(p)]
           raws == [p \in parts |-> w(p) * r[p]]
           norms == [p \in parts |-> w(p) * norm(p)]
           ones == [p \in parts |-> 1]
<1>1. DOMAIN SENTIMENT_PARTS = {"divergence", "fear_greed", "search"}
  BY DEF SENTIMENT_PARTS
<1>2. IsFiniteSet(parts)
  <2>1. IsFiniteSet({}) /\ IsFiniteSet({"divergence"})
    BY FS_EmptySet, FS_Singleton
  <2>2. IsFiniteSet({"divergence"} \cup {"fear_greed"})
    BY <2>1, FS_AddElement
  <2>3. IsFiniteSet(({"divergence"} \cup {"fear_greed"}) \cup {"search"})
    BY <2>2, FS_AddElement
  <2>4. DOMAIN SENTIMENT_PARTS = ({"divergence"} \cup {"fear_greed"}) \cup {"search"}
    BY <1>1
  <2> QED BY <2>3, <2>4, FS_Subset
<1>3. ASSUME NEW p \in parts
      PROVE  w(p) \in 1..5 /\ r[p] \in Int /\ norm(p) \in Int
  <2>1. /\ w(p) \in 1..5
        /\ SENTIMENT_PARTS[p][2] \in Int /\ SENTIMENT_PARTS[p][3] \in Int /\ SENTIMENT_PARTS[p][2] < SENTIMENT_PARTS[p][3]
    <3>1. /\ SENTIMENT_PARTS["divergence"] = <<5, -1, 1>> /\ SENTIMENT_PARTS["fear_greed"] = <<3, 0, 100>>
          /\ SENTIMENT_PARTS["search"] = <<2, -50, 50>>
      BY DEF SENTIMENT_PARTS
    <3>2. p \in {"divergence", "fear_greed", "search"}
      BY <1>1
    <3> QED BY <3>1, <3>2, SMT
  <2>2. r[p] \in Int /\ r[p] <= r[p]
    <3>1. r[p] \in Number /\ r[p] # Missing
      OBVIOUS
    <3> QED BY <3>1, SMT DEF Number
  <2>3. norm(p) \in 0..Full
    BY <2>1, <2>2, MinMaxOrder, Zenon
  <2>4. norm(p) \in Int
    <3> HIDE DEF norm
    <3> QED BY <2>3, SMT DEF Full
  <2> QED BY <2>1, <2>2, <2>4
<1> HIDE DEF parts, w, norm
<1>4. /\ Numbers(weights) /\ Numbers(raws) /\ Numbers(norms) /\ Numbers(ones)
      /\ DOMAIN weights = parts /\ DOMAIN raws = parts /\ DOMAIN norms = parts /\ DOMAIN ones = parts
  <2>1. \A p \in parts : w(p) \in Int /\ w(p) * r[p] \in Int /\ w(p) * norm(p) \in Int /\ 1 \in Int
    BY <1>3, SMT
  <2> QED BY <1>2, <2>1 DEF Numbers
<1>5. SumOf(raws) \in Int /\ SumOf(norms) \in Int
  BY <1>4, SumsAreTotals, TotalType
<1>6. CASE parts = {}
  <2>1. calc_sentiment_composite(r) = NoData
    BY <1>6 DEF calc_sentiment_composite, parts
  <2> QED BY <2>1, NoDataSound
<1>7. CASE parts # {}
  <2>1. SumOf(weights) \in Nat \ {0}
    <3>1. \A p \in DOMAIN ones : ones[p] <= weights[p] /\ ones[p] = 1
      BY <1>3, SMT
    <3>2. Total(ones) <= Total(weights)
      BY <1>4, <3>1, TotalOrder
    <3>3. Total(ones) = Cardinality(parts) * 1
      BY <1>2, <1>4, <3>1, TotalConstant
    <3>4. Cardinality(parts) \in Nat /\ Cardinality(parts) # 0
      BY <1>2, <1>7, FS_EmptySet, FS_CardinalityType
    <3>5. Total(weights) \in Int
      BY <1>4, TotalType
    <3>6. SumOf(weights) = Total(weights)
      BY SumsAreTotals
    <3> HIDE DEF weights, ones
    <3> QED BY <3>2, <3>3, <3>4, <3>5, <3>6, SMT
  <2>2. SumOf(raws) \div SumOf(weights) \in Int /\ SumOf(norms) \div SumOf(weights) \in Int
    <3> HIDE DEF raws, norms, weights
    <3> QED BY <1>5, <2>1, DivType, Zenon
  <2>3. calc_sentiment_composite(r) = Made(SumOf(raws) \div SumOf(weights), SumOf(norms) \div SumOf(weights))
    BY <1>7, Zenon DEF calc_sentiment_composite, parts, w, norm
  <2> HIDE DEF raws, norms, weights
  <2> QED BY <2>2, <2>3, MadeSound, Zenon
<1> QED BY <1>6, <1>7

\* Every factor is sound, whatever its row.
LEMMA CalcSound ==
  ASSUME NEW f \in Factors, NEW r \in RowOf(f)
  PROVE  Sound(Calc(f, r))
PROOF
<1>1. CASE f = "valuation_gap"
  <2>1. r.price \in Number /\ r.avg \in Nat \cup {Missing}
    BY <1>1, SMT DEF RowOf
  <2>2. Calc(f, r) = calc_valuation_gap(r)
    BY <1>1 DEF Calc
  <2>3. CASE Falsy(r.price) \/ Falsy(r.avg)
    BY <2>2, <2>3, NoDataSound DEF calc_valuation_gap
  <2>4. CASE ~(Falsy(r.price) \/ Falsy(r.avg))
    <3>1. r.price \in Int /\ r.avg \in Nat \ {0}
      BY <2>1, <2>4 DEF Falsy, Number
    <3>2. (r.avg - r.price) * 100 \in Int
      BY <3>1, SMT
    <3>3. ((r.avg - r.price) * 100) \div r.avg \in Int
      BY <3>1, <3>2, DivType, Zenon
    <3>4. "valuation_gap" \in RangedFactors
      BY <1>1 DEF RangedFactors
    <3>5. Calc(f, r) = Ranged("valuation_gap", ((r.avg - r.price) * 100) \div r.avg)
      BY <2>2, <2>4, Zenon DEF calc_valuation_gap
    <3> QED BY <3>3, <3>4, <3>5, RangedSound, Zenon
  <2> QED BY <2>3, <2>4
<1>2. CASE f = "supply_demand_gap"
  <2>1. r.demand \in Number /\ r.supply \in Number
    BY <1>2, SMT DEF RowOf
  <2>2. Calc(f, r) = calc_supply_demand_gap(r)
    BY <1>2 DEF Calc
  <2>3. CASE r.demand = Missing \/ r.supply = Missing
    BY <2>2, <2>3, NoDataSound DEF calc_supply_demand_gap
  <2>4. CASE r.demand # Missing /\ r.supply # Missing
    <3>1. r.demand \in Int /\ r.supply \in Int
      BY <2>1, <2>4 DEF Number
    <3>2. CASE r.demand <= 0
      BY <2>2, <2>4, <3>2, NoDataSound DEF calc_supply_demand_gap
    <3>3. CASE ~(r.demand <= 0)
      <4>1. r.demand \in Nat \ {0} /\ (r.demand - r.supply) * 100 \in Int
        BY <3>1, <3>3, SMT
      <4>2. ((r.demand - r.supply) * 100) \div r.demand \in Int
        BY <4>1, DivType, Zenon
      <4>3. "supply_demand_gap" \in RangedFactors
        BY <1>2 DEF RangedFactors
      <4>4. Calc(f, r) = Ranged("supply_demand_gap", ((r.demand - r.supply) * 100) \div r.demand)
        BY <2>2, <2>4, <3>3, Zenon DEF calc_supply_demand_gap
      <4> QED BY <4>2, <4>3, <4>4, RangedSound, Zenon
    <3> QED BY <3>2, <3>3
  <2> QED BY <2>3, <2>4
<1>3. CASE f \in {"development_upside", "regulation_impact"}
  <2>1. r \in Seq(Number)
    BY <1>3, SMT DEF RowOf
  <2>2. Calc(f, r) = IF Known(r) = {} THEN NoData ELSE Ranged(f, SumOf([i \in Known(r) |-> r[i]]))
    BY <1>3 DEF Calc, calc_development_upside, calc_regulation_impact
  <2>3. SumOf([i \in Known(r) |-> r[i]]) \in Int
    BY <2>1, KnownSum
  <2>4. f \in RangedFactors
    BY <1>3 DEF RangedFactors
  <2>5. Sound(Ranged(f, SumOf([i \in Known(r) |-> r[i]])))
    BY <2>3, <2>4, RangedSound
  <2> QED BY <2>2, <2>5, NoDataSound
<1>4. CASE f = "cycle_position"
  <2>1. Calc(f, r) = calc_cycle_position(r)
    BY <1>4 DEF Calc
  <2>2. CASE r \notin DOMAIN CYCLE_PHASE_SCORES
    BY <2>1, <2>2, NoDataSound DEF calc_cycle_position
  <2>3. CASE r \in DOMAIN CYCLE_PHASE_SCORES
    <3>1. CYCLE_PHASE_SCORES[r] \in Int
      BY <2>3 DEF CYCLE_PHASE_SCORES
    <3>2. 12 * CYCLE_PHASE_SCORES[r] \in Int
      BY <3>1, SMT
    <3>3. Calc(f, r) = Made(CYCLE_PHASE_SCORES[r], 12 * CYCLE_PHASE_SCORES[r])
      BY <2>1, <2>3, Zenon DEF calc_cycle_position
    <3> QED BY <3>1, <3>2, <3>3, MadeSound, Zenon
  <2> QED BY <2>2, <2>3
<1>5. CASE f = "sentiment_composite"
  <2>1. r \in [DOMAIN SENTIMENT_PARTS -> Number]
    BY <1>5, Zenon DEF RowOf
  <2>2. Calc(f, r) = calc_sentiment_composite(r)
    BY <1>5 DEF Calc
  <2> QED BY <2>1, <2>2, SentimentSound, Zenon
<1>6. CASE f \notin {"valuation_gap", "supply_demand_gap", "development_upside", "regulation_impact",
                     "cycle_position", "sentiment_composite"}
  <2>1. r \in Number
    BY <1>6 DEF RowOf
  <2>2. Calc(f, r) = calc_number(f, r)
    BY <1>6 DEF Calc, calc_transport_access, calc_unsold_or_migration
  <2>3. f \in RangedFactors
    BY <1>6 DEF RangedFactors
  <2>4. CASE r = Missing
    BY <2>2, <2>4, NoDataSound DEF calc_number
  <2>5. CASE r # Missing
    <3>1. r \in Int
      BY <2>1, <2>5 DEF Number
    <3> QED BY <2>2, <2>3, <2>5, <3>1, RangedSound DEF calc_number
  <2> QED BY <2>4, <2>5
<1> QED BY <1>1, <1>2, <1>3, <1>4, <1>5, <1>6

-----------------------------------------------------------------------------
LEMMA FactorsCount == IsFiniteSet(Factors) /\ Cardinality(Factors) = 14
PROOF
<1> DEFINE s0 == {}
           s1 == s0 \cup {"valuation_gap"}
           s2 == s1 \cup {"price_momentum"}
           s3 == s2 \cup {"jeonse_ratio_trend"}
           s4 == s3 \cup {"interest_rate_cycle"}
           s5 == s4 \cup {"liquidity_trend"}
           s6 == s5 \cup {"supply_demand_gap"}
           s7 == s6 \cup {"unsold_risk"}
           s8 == s7 \cup {"migration_momentum"}
           s9 == s8 \cup {"transport_access"}
           s10 == s9 \cup {"development_upside"}
           s11 == s10 \cup {"regulation_impact"}
           s12 == s11 \cup {"tax_burden"}
           s13 == s12 \cup {"cycle_position"}
           s14 == s13 \cup {"sentiment_composite"}
<1>1. IsFiniteSet(s0) /\ Cardinality(s0) = 0
  BY FS_EmptySet
<1>2. IsFiniteSet(s1) /\ Cardinality(s1) = 1
  <2>1. "valuation_gap" \notin s0
    OBVIOUS
  <2> HIDE DEF s0
  <2> QED BY <1>1, <2>1, FS_AddElement
<1>3. IsFiniteSet(s2) /\ Cardinality(s2) = 2
  <2>1. "price_momentum" \notin s1
    OBVIOUS
  <2> HIDE DEF s1
  <2> QED BY <1>2, <2>1, FS_AddElement
<1>4. IsFiniteSet(s3) /\ Cardinality(s3) = 3
  <2>1. "jeonse_ratio_trend" \notin s2
    OBVIOUS
  <2> HIDE DEF s2
  <2> QED BY <1>3, <2>1, FS_AddElement
<1>5. IsFiniteSet(s4) /\ Cardinality(s4) = 4
  <2>1. "interest_rate_cycle" \notin s3
    OBVIOUS
  <2> HIDE DEF s3
  <2> QED BY <1>4, <2>1, FS_AddElement
<1>6. IsFiniteSet(s5) /\ Cardinality(s5) = 5
  <2>1. "liquidity_trend" \notin s4
    OBVIOUS
  <2> HIDE DEF s4
  <2> QED BY <1>5, <2>1, FS_AddElement
<1>7. IsFiniteSet(s6) /\ Cardinality(s6) = 6
  <2>1. "supply_demand_gap" \notin s5
    OBVIOUS
  <2> HIDE DEF s5
  <2> QED BY <1>6, <2>1, FS_AddElement
<1>8. IsFiniteSet(s7) /\ Cardinality(s7) = 7
  <2>1. "unsold_risk" \notin s6
    OBVIOUS
  <2> HIDE DEF s6
  <2> QED BY <1>7, <2>1, FS_AddElement
<1>9. IsFiniteSet(s8) /\ Cardinality(s8) = 8
  <2>1. "migration_momentum" \notin s7
    OBVIOUS
  <2> HIDE DEF s7
  <2> QED BY <1>8, <2>1, FS_AddElement
<1>10. IsFiniteSet(s9) /\ Cardinality(s9) = 9
  <2>1. "transport_access" \notin s8
    OBVIOUS
  <2> HIDE DEF s8
  <2> QED BY <1>9, <2>1, FS_AddElement
<1>11. IsFiniteSet(s10) /\ Cardinality(s10) = 10
  <2>1. "development_upside" \notin s9
    OBVIOUS
  <2> HIDE DEF s9
  <2> QED BY <1>10, <2>1, FS_AddElement
<1>12. IsFiniteSet(s11) /\ Cardinality(s11) = 11
  <2>1. "regulation_impact" \notin s10
    OBVIOUS
  <2> HIDE DEF s10
  <2> QED BY <1>11, <2>1, FS_AddElement
<1>13. IsFiniteSet(s12) /\ Cardinality(s12) = 12
  <2>1. "tax_burden" \notin s11
    OBVIOUS
  <2> HIDE DEF s11
  <2> QED BY <1>12, <2>1, FS_AddElement
<1>14. IsFiniteSet(s13) /\ Cardinality(s13) = 13
  <2>1. "cycle_position" \notin s12
    OBVIOUS
  <2> HIDE DEF s12
  <2> QED BY <1>13, <2>1, FS_AddElement
<1>15. IsFiniteSet(s14) /\ Cardinality(s14) = 14
  <2>1. "sentiment_composite" \notin s13
    OBVIOUS
  <2> HIDE DEF s13
  <2> QED BY <1>14, <2>1, FS_AddElement
<1>16. Factors = s14
  BY TheFactors
<1> HIDE DEF s14
<1> QED BY <1>15, <1>16

\* The weights add up to a hundred per cent.
LEMMA WeightedTotal ==
  ASSUME NEW c \in Int
  PROVE  Total([x \in Factors |-> FACTOR_WEIGHTS[x] * c]) = 100 * c
PROOF
<1> DEFINE f == [x \in Factors |-> FACTOR_WEIGHTS[x] * c]
           s0 == {}
           s1 == s0 \cup {"valuation_gap"}
           s2 == s1 \cup {"price_momentum"}
           s3 == s2 \cup {"jeonse_ratio_trend"}
           s4 == s3 \cup {"interest_rate_cycle"}
           s5 == s4 \cup {"liquidity_trend"}
           s6 == s5 \cup {"supply_demand_gap"}
           s7 == s6 \cup {"unsold_risk"}
           s8 == s7 \cup {"migration_momentum"}
           s9 == s8 \cup {"transport_access"}
           s10 == s9 \cup {"development_upside"}
           s11 == s10 \cup {"regulation_impact"}
           s12 == s11 \cup {"tax_burden"}
           s13 == s12 \cup {"cycle_position"}
           s14 == s13 \cup {"sentiment_composite"}
<1>1. Numbers(f)
  <2>1. \A x \in Factors : FACTOR_WEIGHTS[x] * c \in Int
    BY WeightsType, SMT
  <2> QED BY <2>1, FactorsCount DEF Numbers
<1>2. DOMAIN f = Factors
  OBVIOUS
<1>3. PICK part : Partial(f, part) /\ Total(f) = part[DOMAIN f]
  <2> HIDE DEF f
  <2> QED BY <1>1, TotalParts, Zenon
<1>4. part[s0] = 0 * c
  BY <1>3, SMT DEF Partial
<1>5. part[s1] = 10 * c
  <2>1. "valuation_gap" \in s1 /\ s1 \ {"valuation_gap"} = s0 /\ s1 \in SUBSET Factors
    BY TheFactors
  <2>2. f["valuation_gap"] = 10 * c
    BY TheFactors DEF FACTOR_WEIGHTS
  <2> HIDE DEF s0, s1, f
  <2>3. part[s1] = f["valuation_gap"] + part[s0]
    BY <1>2, <1>3, <2>1 DEF Partial
  <2> QED BY <1>4, <2>2, <2>3, SMT
<1>6. part[s2] = 18 * c
  <2>1. "price_momentum" \in s2 /\ s2 \ {"price_momentum"} = s1 /\ s2 \in SUBSET Factors
    BY TheFactors
  <2>2. f["price_momentum"] = 8 * c
    BY TheFactors DEF FACTOR_WEIGHTS
  <2> HIDE DEF s1, s2, f
  <2>3. part[s2] = f["price_momentum"] + part[s1]
    BY <1>2, <1>3, <2>1 DEF Partial
  <2> QED BY <1>5, <2>2, <2>3, SMT
<1>7. part[s3] = 25 * c
  <2>1. "jeonse_ratio_trend" \in s3 /\ s3 \ {"jeonse_ratio_trend"} = s2 /\ s3 \in SUBSET Factors
    BY TheFactors
  <2>2. f["jeonse_ratio_trend"] = 7 * c
    BY TheFactors DEF FACTOR_WEIGHTS
  <2> HIDE DEF s2, s3, f
  <2>3. part[s3] = f["jeonse_ratio_trend"] + part[s2]
    BY <1>2, <1>3, <2>1 DEF Partial
  <2> QED BY <1>6, <2>2, <2>3, SMT
<1>8. part[s4] = 33 * c
  <2>1. "interest_rate_cycle" \in s4 /\ s4 \ {"interest_rate_cycle"} = s3 /\ s4 \in SUBSET Factors
    BY TheFactors
  <2>2. f["interest_rate_cycle"] = 8 * c
    BY TheFactors DEF FACTOR_WEIGHTS
  <2> HIDE DEF s3, s4, f
  <2>3. part[s4] = f["interest_rate_cycle"] + part[s3]
    BY <1>2, <1>3, <2>1 DEF Partial
  <2> QED BY <1>7, <2>2, <2>3, SMT
<1>9. part[s5] = 40 * c
  <2>1. "liquidity_trend" \in s5 /\ s5 \ {"liquidity_trend"} = s4 /\ s5 \in SUBSET Factors
    BY TheFactors
  <2>2. f["liquidity_trend"] = 7 * c
    BY TheFactors DEF FACTOR_WEIGHTS
  <2> HIDE DEF s4, s5, f
  <2>3. part[s5] = f["liquidity_trend"] + part[s4]
    BY <1>2, <1>3, <2>1 DEF Partial
  <2> QED BY <1>8, <2>2, <2>3, SMT
<1>10. part[s6] = 50 * c
  <2>1. "supply_demand_gap" \in s6 /\ s6 \ {"supply_demand_gap"} = s5 /\ s6 \in SUBSET Factors
    BY TheFactors
  <2>2. f["supply_demand_gap"] = 10 * c
    BY TheFactors DEF FACTOR_WEIGHTS
  <2> HIDE DEF s5, s6, f
  <2>3. part[s6] = f["supply_demand_gap"] + part[s5]
    BY <1>2, <1>3, <2>1 DEF Partial
  <2> QED BY <1>9, <2>2, <2>3, SMT
<1>11. part[s7] = 55 * c
  <2>1. "unsold_risk" \in s7 /\ s7 \ {"unsold_risk"} = s6 /\ s7 \in SUBSET Factors
    BY TheFactors
  <2>2. f["unsold_risk"] = 5 * c
    BY TheFactors DEF FACTOR_WEIGHTS
  <2> HIDE DEF s6, s7, f
  <2>3. part[s7] = f["unsold_risk"] + part[s6]
    BY <1>2, <1>3, <2>1 DEF Partial
  <2> QED BY <1>10, <2>2, <2>3, SMT
<1>12. part[s8] = 60 * c
  <2>1. "migration_momentum" \in s8 /\ s8 \ {"migration_momentum"} = s7 /\ s8 \in SUBSET Factors
    BY TheFactors
  <2>2. f["migration_momentum"] = 5 * c
    BY TheFactors DEF FACTOR_WEIGHTS
  <2> HIDE DEF s7, s8, f
  <2>3. part[s8] = f["migration_momentum"] + part[s7]
    BY <1>2, <1>3, <2>1 DEF Partial
  <2> QED BY <1>11, <2>2, <2>3, SMT
<1>13. part[s9] = 68 * c
  <2>1. "transport_access" \in s9 /\ s9 \ {"transport_access"} = s8 /\ s9 \in SUBSET Factors
    BY TheFactors
  <2>2. f["transport_access"] = 8 * c
    BY TheFactors DEF FACTOR_WEIGHTS
  <2> HIDE DEF s8, s9, f
  <2>3. part[s9] = f["transport_access"] + part[s8]
    BY <1>2, <1>3, <2>1 DEF Partial
  <2> QED BY <1>12, <2>2, <2>3, SMT
<1>14. part[s10] = 75 * c
  <2>1. "development_upside" \in s10 /\ s10 \ {"development_upside"} = s9 /\ s10 \in SUBSET Factors
    BY TheFactors
  <2>2. f["development_upside"] = 7 * c
    BY TheFactors DEF FACTOR_WEIGHTS
  <2> HIDE DEF s9, s10, f
  <2>3. part[s10] = f["development_upside"] + part[s9]
    BY <1>2, <1>3, <2>1 DEF Partial
  <2> QED BY <1>13, <2>2, <2>3, SMT
<1>15. part[s11] = 80 * c
  <2>1. "regulation_impact" \in s11 /\ s11 \ {"regulation_impact"} = s10 /\ s11 \in SUBSET Factors
    BY TheFactors
  <2>2. f["regulation_impact"] = 5 * c
    BY TheFactors DEF FACTOR_WEIGHTS
  <2> HIDE DEF s10, s11, f
  <2>3. part[s11] = f["regulation_impact"] + part[s10]
    BY <1>2, <1>3, <2>1 DEF Partial
  <2> QED BY <1>14, <2>2, <2>3, SMT
<1>16. part[s12] = 85 * c
  <2>1. "tax_burden" \in s12 /\ s12 \ {"tax_burden"} = s11 /\ s12 \in SUBSET Factors
    BY TheFactors
  <2>2. f["tax_burden"] = 5 * c
    BY TheFactors DEF FACTOR_WEIGHTS
  <2> HIDE DEF s11, s12, f
  <2>3. part[s12] = f["tax_burden"] + part[s11]
    BY <1>2, <1>3, <2>1 DEF Partial
  <2> QED BY <1>15, <2>2, <2>3, SMT
<1>17. part[s13] = 90 * c
  <2>1. "cycle_position" \in s13 /\ s13 \ {"cycle_position"} = s12 /\ s13 \in SUBSET Factors
    BY TheFactors
  <2>2. f["cycle_position"] = 5 * c
    BY TheFactors DEF FACTOR_WEIGHTS
  <2> HIDE DEF s12, s13, f
  <2>3. part[s13] = f["cycle_position"] + part[s12]
    BY <1>2, <1>3, <2>1 DEF Partial
  <2> QED BY <1>16, <2>2, <2>3, SMT
<1>18. part[s14] = 100 * c
  <2>1. "sentiment_composite" \in s14 /\ s14 \ {"sentiment_composite"} = s13 /\ s14 \in SUBSET Factors
    BY TheFactors
  <2>2. f["sentiment_composite"] = 10 * c
    BY TheFactors DEF FACTOR_WEIGHTS
  <2> HIDE DEF s13, s14, f
  <2>3. part[s14] = f["sentiment_composite"] + part[s13]
    BY <1>2, <1>3, <2>1 DEF Partial
  <2> QED BY <1>17, <2>2, <2>3, SMT
<1>19. Factors = s14
  BY TheFactors
<1> HIDE DEF s14, f
<1>20. Total(f) = 100 * c
  BY <1>2, <1>3, <1>18, <1>19
<1> QED BY <1>20 DEF f

LEMMA TermsAreNumbers ==
  ASSUME NEW fs, \A f \in Factors : fs[f].norm \in Int
  PROVE  Numbers([f \in Factors |-> FACTOR_WEIGHTS[f] * fs[f].norm])
PROOF
<1>1. ASSUME NEW f \in Factors PROVE FACTOR_WEIGHTS[f] * fs[f].norm \in Int
  <2>1. FACTOR_WEIGHTS[f] \in Int
    BY WeightsType, SMT
  <2>2. fs[f].norm \in Int
    OBVIOUS
  <2> QED BY <2>1, <2>2, SMT
<1> QED BY <1>1, FactorsCount DEF Numbers

\* A total rises with the factors it is made of.
LEMMA TotalOfOrder ==
  ASSUME NEW fs, NEW gs,
         \A f \in Factors : fs[f].norm \in Int /\ gs[f].norm \in Int /\ fs[f].norm <= gs[f].norm
  PROVE  TotalOf(fs) \in Int /\ TotalOf(gs) \in Int /\ TotalOf(fs) <= TotalOf(gs)
PROOF
<1> DEFINE a == [f \in Factors |-> FACTOR_WEIGHTS[f] * fs[f].norm]
           b == [f \in Factors |-> FACTOR_WEIGHTS[f] * gs[f].norm]
<1>1. Numbers(a) /\ Numbers(b) /\ DOMAIN a = Factors /\ DOMAIN b = Factors
  BY TermsAreNumbers
<1>2. \A f \in Factors : a[f] <= b[f]
  <2>1. ASSUME NEW f \in Factors PROVE FACTOR_WEIGHTS[f] * fs[f].norm <= FACTOR_WEIGHTS[f] * gs[f].norm
    <3>1. FACTOR_WEIGHTS[f] \in Nat
      BY WeightsType, SMT
    <3>2. fs[f].norm \in Int /\ gs[f].norm \in Int /\ fs[f].norm <= gs[f].norm
      OBVIOUS
    <3>3. \A w \in Nat, x \in Int, y \in Int : x <= y => w * x <= w * y
      <4>1. ASSUME NEW w \in Nat, NEW x \in Int, NEW y \in Int, x <= y PROVE w * x <= w * y
        <5>1. w * (y - x) >= 0
          BY <4>1, SMT
        <5> QED BY <5>1, SMT
      <4> QED BY <4>1
    <3> QED BY <3>1, <3>2, <3>3, Zenon
  <2> QED BY <2>1
<1>3. TotalOf(fs) = Total(a) /\ TotalOf(gs) = Total(b)
  BY SumsAreTotals, Zenon DEF TotalOf
<1> HIDE DEF a, b
<1> QED BY <1>1, <1>2, <1>3, TotalOrder, TotalType

LEMMA TotalOfConstant ==
  ASSUME NEW fs, NEW c \in Int, \A f \in Factors : fs[f].norm = c
  PROVE  TotalOf(fs) = 100 * c
PROOF
<1>1. [f \in Factors |-> FACTOR_WEIGHTS[f] * fs[f].norm] = [f \in Factors |-> FACTOR_WEIGHTS[f] * c]
  OBVIOUS
<1>2. TotalOf(fs) = Total([f \in Factors |-> FACTOR_WEIGHTS[f] * c])
  BY <1>1, SumsAreTotals DEF TotalOf
<1> QED BY <1>2, WeightedTotal

LEMMA TotalOfBounds ==
  ASSUME NEW fs, \A f \in Factors : Sound(fs[f])
  PROVE  TotalOf(fs) \in Int /\ 0 <= TotalOf(fs) /\ TotalOf(fs) <= Points(100)
PROOF
<1> DEFINE zeros == [f \in Factors |-> Made(0, 0)]
           fulls == [f \in Factors |-> Made(0, Full)]
<1>1. 0 \in Int /\ Full \in Int
  BY SMT DEF Full
<1>2. \A f \in Factors : Sound(zeros[f]) /\ Sound(fulls[f])
  BY <1>1, MadeSound
<1>3. \A f \in Factors : zeros[f].norm = 0 /\ fulls[f].norm = Full
  BY SMT DEF Made, Clamp, Full
<1>4. TotalOf(zeros) = 100 * 0 /\ TotalOf(fulls) = 100 * Full
  <2> HIDE DEF zeros, fulls
  <2> QED BY <1>1, <1>3, TotalOfConstant
<1>5. \A f \in Factors : zeros[f].norm <= fs[f].norm /\ fs[f].norm <= fulls[f].norm
  <2> HIDE DEF zeros, fulls
  <2>1. ASSUME NEW f \in Factors PROVE 0 <= fs[f].norm /\ fs[f].norm <= Full
    <3>1. fs[f].norm \in 0..1200
      BY SoundType
    <3>2. \A x \in 0..1200 : 0 <= x /\ x <= Full
      BY SMT DEF Full
    <3> QED BY <3>1, <3>2, ZenonT(30)
  <2> QED BY <1>3, <2>1
<1> HIDE DEF zeros, fulls
<1>6. TotalOf(zeros) <= TotalOf(fs) /\ TotalOf(fs) \in Int /\ TotalOf(fs) <= TotalOf(fulls)
  <2>0. \A f \in Factors : zeros[f].norm \in Int /\ fs[f].norm \in Int /\ fulls[f].norm \in Int
    BY <1>2, SoundType
  <2>1. TotalOf(zeros) <= TotalOf(fs) /\ TotalOf(fs) \in Int
    BY <2>0, <1>5, TotalOfOrder, Zenon
  <2>2. TotalOf(fs) <= TotalOf(fulls)
    BY <2>0, <1>5, TotalOfOrder, Zenon
  <2> QED BY <2>1, <2>2
<1> QED BY <1>4, <1>6, PointsOf, SMT

LEMMA GradeType ==
  ASSUME NEW total \in Int
  PROVE  grade_for(total) \in Grades
PROOF
<1> DEFINE met == {i \in DOMAIN GRADE_BOUNDARIES : total >= Points(GRADE_BOUNDARIES[i][1])}
<1>1. DOMAIN GRADE_BOUNDARIES = 1..4 /\ \A i \in 1..4 : GRADE_BOUNDARIES[i][2] \in Grades
  BY SMT DEF GRADE_BOUNDARIES, Grades
<1>2. CASE met = {}
  BY <1>2 DEF grade_for, Grades
<1>3. CASE met # {}
  <2>1. met \in SUBSET (1..4) /\ met \in SUBSET Nat
    BY <1>1, SMT
  <2>2. grade_for(total) = GRADE_BOUNDARIES[Min(met)][2]
    BY <1>3 DEF grade_for
  <2> HIDE DEF met
  <2>3. \E n \in met : \A m \in met : n <= m
    BY <1>3, <2>1, LeastNatural, Zenon
  <2>4. Min(met) \in met
    BY <2>3, Zenon DEF Min
  <2> QED BY <1>1, <2>1, <2>2, <2>4
<1> QED BY <1>2, <1>3

\* What the scorer returns.
SoundScore(sc) ==
  /\ sc.factors \in [Factors -> FactorScores]
  /\ \A f \in Factors : Sound(sc.factors[f])
  /\ sc.total = TotalOf(sc.factors) /\ sc.total \in Int /\ 0 <= sc.total /\ sc.total <= Points(100)
  /\ sc.grade \in Grades

LEMMA ScoredSound ==
  ASSUME NEW fs \in [Factors -> FactorScores], \A f \in Factors : Sound(fs[f])
  PROVE  SoundScore(Scored(fs))
PROOF
<1>1. TotalOf(fs) \in Int /\ 0 <= TotalOf(fs) /\ TotalOf(fs) <= Points(100)
  BY TotalOfBounds
<1>3. grade_for(TotalOf(fs)) \in Grades
  BY <1>1, GradeType
<1> QED BY <1>1, <1>3 DEF Scored, SoundScore

\* The rows of the database.
TypedRows(rs) == DOMAIN rs = Factors /\ \A f \in Factors : rs[f] \in RowOf(f)

LEMMA ScoreIsSound ==
  ASSUME NEW rs, TypedRows(rs)
  PROVE  SoundScore(Score(rs))
PROOF
<1> DEFINE fs == [f \in Factors |-> Calc(f, rs[f])]
<1>1. \A f \in Factors : Sound(fs[f])
  BY CalcSound DEF TypedRows
<1>2. fs \in [Factors -> FactorScores]
  <2>1. \A f \in Factors : Calc(f, rs[f]) \in FactorScores
    BY <1>1 DEF Sound
  <2> QED BY <2>1
<1>3. Score(rs) = Scored(fs)
  BY DEF Score
<1> HIDE DEF fs
<1> QED BY <1>1, <1>2, <1>3, ScoredSound

-----------------------------------------------------------------------------
LEMMA SigmaPositive ==
  ASSUME NEW v \in DEFAULT_VARIABLES, NEW row \in Number
  PROVE  Sigma(v, row) \in Nat \ {0}
PROOF
<1>1. DEFAULT_SIGMAS[v] \in Nat \ {0}
  BY SMT DEF DEFAULT_SIGMAS, DEFAULT_VARIABLES
<1>2. CASE row = Missing
  BY <1>1, <1>2 DEF Sigma
<1>3. CASE row # Missing
  <2>1. row \in Int
    BY <1>3 DEF Number
  <2>2. CASE row <= 0
    BY <1>1, <1>3, <2>2 DEF Sigma
  <2>3. CASE ~(row <= 0)
    <3>1. Sigma(v, row) = row
      BY <1>3, <2>3 DEF Sigma
    <3> QED BY <2>1, <2>3, <3>1, SMT
  <2> QED BY <2>2, <2>3
<1> QED BY <1>2, <1>3

LEMMA SignType == \A v : FAVORABLE_SIGN(v) \in {1, -1}
BY SMT DEF FAVORABLE_SIGN

LEMMA VariablesAreRanged == DEFAULT_VARIABLES \subseteq RangedFactors /\ RangedFactors \subseteq Factors
BY TheFactors DEF DEFAULT_VARIABLES, RangedFactors

\* A score rises with shifts that favour its factors.
LEMMA ShiftOrder ==
  ASSUME NEW base, SoundScore(base), NEW D \in SUBSET DEFAULT_VARIABLES,
         NEW s \in [D -> Int], NEW t \in [D -> Int],
         \A v \in D : FAVORABLE_SIGN(v) * s[v] <= FAVORABLE_SIGN(v) * t[v]
  PROVE  /\ ApplyShift(base, s).total \in Int /\ ApplyShift(base, t).total \in Int
         /\ ApplyShift(base, s).total <= ApplyShift(base, t).total
PROOF
<1> DEFINE Shifted(u) == [f \in Factors |->
             IF f \notin DOMAIN u THEN base.factors[f]
             ELSE [base.factors[f] EXCEPT !.raw = @ + u[f], !.norm = Normalized(f, base.factors[f].raw + u[f])]]
<1>1. ApplyShift(base, s) = Scored(Shifted(s)) /\ ApplyShift(base, t) = Scored(Shifted(t))
  BY DEF ApplyShift
<1>2. ApplyShift(base, s).total = TotalOf(Shifted(s)) /\ ApplyShift(base, t).total = TotalOf(Shifted(t))
  <2> HIDE DEF Shifted
  <2> QED BY <1>1 DEF Scored
<1>3. ASSUME NEW f \in Factors
      PROVE  /\ Shifted(s)[f].norm \in Int /\ Shifted(t)[f].norm \in Int
             /\ Shifted(s)[f].norm <= Shifted(t)[f].norm
  <2> DEFINE b == base.factors[f]
  <2>1. b \in FactorScores /\ b.norm \in Int /\ b.raw \in Int
    BY SoundType DEF SoundScore, Sound
  <2>2. CASE f \notin D
    <3>1. Shifted(s)[f] = b /\ Shifted(t)[f] = b
      BY <2>2
    <3> HIDE DEF Shifted, b
    <3>2. b.norm <= b.norm
      BY <2>1, SMT
    <3> QED BY <2>1, <3>1, <3>2
  <2>3. CASE f \in D
    <3>1. f \in RangedFactors
      BY <2>3, VariablesAreRanged
    <3>2. /\ s[f] \in Int /\ t[f] \in Int /\ FAVORABLE_SIGN(f) \in {1, -1}
          /\ FAVORABLE_SIGN(f) * s[f] <= FAVORABLE_SIGN(f) * t[f]
      BY <2>3, SignType
    <3>3. Shifted(s)[f].norm = Normalized(f, b.raw + s[f]) /\ Shifted(t)[f].norm = Normalized(f, b.raw + t[f])
      BY <2>1, <2>3 DEF FactorScores
    <3> HIDE DEF Shifted, b
    <3>4. b.raw + s[f] \in Int /\ b.raw + t[f] \in Int
      BY <2>1, <3>2, SMT
    <3>5. FAVORABLE_SIGN(f) * (b.raw + s[f]) <= FAVORABLE_SIGN(f) * (b.raw + t[f])
      <4>1. \A sign \in {1, -1}, x \in Int, y \in Int, z \in Int :
              sign * y <= sign * z => sign * (x + y) <= sign * (x + z)
        BY SMT
      <4> QED BY <2>1, <3>2, <4>1, Zenon
    <3>6. Normalized(f, b.raw + s[f]) <= Normalized(f, b.raw + t[f])
      BY <3>1, <3>4, <3>5, NormalizedOrder, Zenon
    <3>7. Normalized(f, b.raw + s[f]) \in 0..Full /\ Normalized(f, b.raw + t[f]) \in 0..Full
      BY <3>1, <3>4, NormalizedType, Zenon
    <3>8. \A x \in 0..Full : x \in Int
      BY SMT DEF Full
    <3> QED BY <3>3, <3>6, <3>7, <3>8, Zenon
  <2> QED BY <2>2, <2>3
<1> HIDE DEF Shifted
<1>4. /\ TotalOf(Shifted(s)) \in Int /\ TotalOf(Shifted(t)) \in Int
      /\ TotalOf(Shifted(s)) <= TotalOf(Shifted(t))
  BY <1>3, TotalOfOrder, Zenon
<1> QED BY <1>2, <1>4

\* The three scenarios of a simulation, and what each variable moves.
Bracketed(sim) ==
  /\ sim.scenarios.bear.total <= sim.scenarios.base.total
  /\ sim.scenarios.base.total <= sim.scenarios.bull.total
  /\ \A v \in DEFAULT_VARIABLES, j, k \in PERTURBATION_SIGMAS :
       FAVORABLE_SIGN(v) * j <= FAVORABLE_SIGN(v) * k =>
         sim.sensitivity[v][j] <= sim.sensitivity[v][k]

LEMMA SimulationBracketed ==
  ASSUME NEW rs, TypedRows(rs), NEW sigmaRows, \A v \in DEFAULT_VARIABLES : sigmaRows[v] \in Number
  PROVE  Bracketed(Simulate(rs, sigmaRows))
PROOF
<1> DEFINE base == Score(rs)
           sigmas == [v \in DEFAULT_VARIABLES |-> Sigma(v, sigmaRows[v])]
           Along(d) == [v \in DEFAULT_VARIABLES |-> d * FAVORABLE_SIGN(v) * sigmas[v]]
           Moved(v, k) == [u \in {v} |-> k * sigmas[v]]
<1>1. SoundScore(base)
  BY ScoreIsSound
<1>2. \A v \in DEFAULT_VARIABLES : sigmas[v] \in Nat \ {0}
  BY SigmaPositive
<1>3. DOMAIN sigmas = DEFAULT_VARIABLES
  OBVIOUS
<1>4. Simulate(rs, sigmaRows) = [base |-> base.total, scenarios |-> BuildScenarios(base, sigmas),
                                 sensitivity |-> Sensitivity(base, sigmas)]
  BY DEF Simulate
<1> HIDE DEF base, sigmas
<1> DEFINE sim == Simulate(rs, sigmaRows)
<1>5. /\ sim.scenarios.bear.total = ApplyShift(base, Along(-1)).total
      /\ sim.scenarios.base.total = ApplyShift(base, Along(0)).total
      /\ sim.scenarios.bull.total = ApplyShift(base, Along(1)).total
  BY <1>3, <1>4 DEF BuildScenarios, Directions
<1>6. \A v \in DEFAULT_VARIABLES, k \in PERTURBATION_SIGMAS :
        sim.sensitivity[v][k] = ApplyShift(base, Moved(v, k)).total - base.total
  BY <1>3, <1>4 DEF Sensitivity
<1> HIDE DEF sim
<1>7. ASSUME NEW d \in {-1, 0}
      PROVE  ApplyShift(base, Along(d)).total <= ApplyShift(base, Along(d + 1)).total
  <2>1. ASSUME NEW v \in DEFAULT_VARIABLES
        PROVE  /\ Along(d)[v] \in Int /\ Along(d + 1)[v] \in Int
               /\ FAVORABLE_SIGN(v) * Along(d)[v] <= FAVORABLE_SIGN(v) * Along(d + 1)[v]
    <3>1. \A sign \in {1, -1}, x \in Nat \ {0} :
            /\ d * sign * x \in Int /\ (d + 1) * sign * x \in Int
            /\ sign * (d * sign * x) <= sign * ((d + 1) * sign * x)
      BY SMT
    <3>2. Along(d)[v] = d * FAVORABLE_SIGN(v) * sigmas[v] /\ Along(d + 1)[v] = (d + 1) * FAVORABLE_SIGN(v) * sigmas[v]
      OBVIOUS
    <3> HIDE DEF Along
    <3>3. FAVORABLE_SIGN(v) \in {1, -1} /\ sigmas[v] \in Nat \ {0}
      BY <1>2, SignType
    <3> QED BY <3>1, <3>2, <3>3, Zenon
  <2>2. Along(d) \in [DEFAULT_VARIABLES -> Int] /\ Along(d + 1) \in [DEFAULT_VARIABLES -> Int]
    BY <2>1
  <2> HIDE DEF Along
  <2> QED BY <1>1, <2>1, <2>2, ShiftOrder
<1>8. ASSUME NEW v \in DEFAULT_VARIABLES, NEW j \in PERTURBATION_SIGMAS, NEW k \in PERTURBATION_SIGMAS,
             FAVORABLE_SIGN(v) * j <= FAVORABLE_SIGN(v) * k
      PROVE  /\ ApplyShift(base, Moved(v, j)).total \in Int /\ ApplyShift(base, Moved(v, k)).total \in Int
             /\ ApplyShift(base, Moved(v, j)).total <= ApplyShift(base, Moved(v, k)).total
  <2>1. Moved(v, j) = [u \in {v} |-> j * sigmas[v]] /\ Moved(v, k) = [u \in {v} |-> k * sigmas[v]]
    OBVIOUS
  <2>2. sigmas[v] \in Nat \ {0} /\ j \in Int /\ k \in Int /\ FAVORABLE_SIGN(v) \in {1, -1}
    BY <1>2, SignType, SMT DEF PERTURBATION_SIGMAS
  <2>3. /\ j * sigmas[v] \in Int /\ k * sigmas[v] \in Int
        /\ FAVORABLE_SIGN(v) * (j * sigmas[v]) <= FAVORABLE_SIGN(v) * (k * sigmas[v])
    <3>1. ASSUME NEW sign \in {1, -1}, NEW x \in Nat \ {0}, NEW m \in Int, NEW n \in Int, sign * m <= sign * n
          PROVE  m * x \in Int /\ n * x \in Int /\ sign * (m * x) <= sign * (n * x)
      <4>1. CASE sign = 1
        <5>1. (n - m) * x >= 0
          BY <3>1, <4>1, SMT
        <5> QED BY <4>1, <5>1, SMT
      <4>2. CASE sign = -1
        <5>1. (m - n) * x >= 0
          BY <3>1, <4>2, SMT
        <5> QED BY <4>2, <5>1, SMT
      <4> QED BY <4>1, <4>2
    <3> QED BY <1>8, <2>2, <3>1, Zenon
  <2> HIDE DEF Moved
  <2>4. Moved(v, j) \in [{v} -> Int] /\ Moved(v, k) \in [{v} -> Int]
    BY <2>1, <2>3
  <2>5. \A u \in {v} : FAVORABLE_SIGN(u) * Moved(v, j)[u] <= FAVORABLE_SIGN(u) * Moved(v, k)[u]
    BY <2>1, <2>3
  <2>6. {v} \in SUBSET DEFAULT_VARIABLES
    OBVIOUS
  <2> QED BY <1>1, <2>4, <2>5, <2>6, ShiftOrder, Zenon
<1>9. base.total \in Int
  BY <1>1 DEF SoundScore
<1> HIDE DEF Along, Moved
<1>10. sim.scenarios.bear.total <= sim.scenarios.base.total /\ sim.scenarios.base.total <= sim.scenarios.bull.total
  <2>1. -1 + 1 = 0 /\ 0 + 1 = 1
    BY SMT
  <2> QED BY <1>5, <1>7, <2>1
<1>11. ASSUME NEW v \in DEFAULT_VARIABLES, NEW j \in PERTURBATION_SIGMAS, NEW k \in PERTURBATION_SIGMAS,
              FAVORABLE_SIGN(v) * j <= FAVORABLE_SIGN(v) * k
       PROVE  sim.sensitivity[v][j] <= sim.sensitivity[v][k]
  <2>1. /\ sim.sensitivity[v][j] = ApplyShift(base, Moved(v, j)).total - base.total
        /\ sim.sensitivity[v][k] = ApplyShift(base, Moved(v, k)).total - base.total
    BY <1>6
  <2> DEFINE a == ApplyShift(base, Moved(v, j)).total  b == ApplyShift(base, Moved(v, k)).total
  <2>2. a \in Int /\ b \in Int /\ a <= b
    BY <1>8, <1>11
  <2> HIDE DEF a, b
  <2>3. a - base.total <= b - base.total
    BY <1>9, <2>2, SMT
  <2> QED BY <2>1, <2>3 DEF a, b
<1> QED BY <1>10, <1>11 DEF Bracketed, sim

-----------------------------------------------------------------------------
\* No two factors share a place in the dictionary.
LEMMA PositionsDiffer ==
  /\ \A f \in Factors : Position(f) \in 1..14
  /\ \A f \in Factors, g \in Factors : Position(f) = Position(g) => f = g
PROOF
<1> DEFINE order == <<
      "valuation_gap", "price_momentum", "jeonse_ratio_trend", "interest_rate_cycle",
      "liquidity_trend", "supply_demand_gap", "unsold_risk", "migration_momentum",
      "transport_access", "development_upside", "regulation_impact", "tax_burden",
      "cycle_position", "sentiment_composite">>
<1>1. \A f : Position(f) = CHOOSE i \in 1..14 : f = order[i]
  BY DEF Position
<1>2. \A f \in Factors : \E i \in 1..14 : f = order[i]
  <2>1. /\ order[1] = "valuation_gap" /\ order[2] = "price_momentum" /\ order[3] = "jeonse_ratio_trend"
        /\ order[4] = "interest_rate_cycle" /\ order[5] = "liquidity_trend" /\ order[6] = "supply_demand_gap"
        /\ order[7] = "unsold_risk" /\ order[8] = "migration_momentum" /\ order[9] = "transport_access"
        /\ order[10] = "development_upside" /\ order[11] = "regulation_impact" /\ order[12] = "tax_burden"
        /\ order[13] = "cycle_position" /\ order[14] = "sentiment_composite"
    OBVIOUS
  <2> HIDE DEF order
  <2>2. /\ 1 \in 1..14 /\ 2 \in 1..14 /\ 3 \in 1..14 /\ 4 \in 1..14 /\ 5 \in 1..14 /\ 6 \in 1..14 /\ 7 \in 1..14
        /\ 8 \in 1..14 /\ 9 \in 1..14 /\ 10 \in 1..14 /\ 11 \in 1..14 /\ 12 \in 1..14 /\ 13 \in 1..14 /\ 14 \in 1..14
    BY SMT
  <2> QED BY <2>1, <2>2, TheFactors, ZenonT(30)
<1> HIDE DEF order
<1>3. \A f \in Factors : Position(f) \in 1..14 /\ f = order[Position(f)]
  BY <1>1, <1>2
<1> QED BY <1>3

\* The factor that drags most is one of those considered, and none drags more.
LEMMA LastMinIsLeast ==
  ASSUME NEW fs \in SUBSET Factors, fs # {}, NEW key, \A f \in fs : key[f] \in Int
  PROVE  LastMin(fs, key) \in fs /\ \A f \in fs : key[LastMin(fs, key)] <= key[f]
PROOF
<1> DEFINE Lowest(f) == \A g \in fs \ {f} : key[f] < key[g] \/ (key[f] = key[g] /\ Position(f) > Position(g))
           least == {f \in fs : \A g \in fs : key[f] <= key[g]}
           back == [f \in Factors |-> -Position(f)]
<1>1. IsFiniteSet(fs) /\ IsFiniteSet(least)
  BY FactorsCount, FS_Subset
<1>2. least # {}
  BY <1>1, LeastOfFinite
<1>3. \A f \in Factors : back[f] = -Position(f) /\ back[f] \in Int /\ Position(f) \in Int
  <2>1. \A i \in 1..14 : i \in Int /\ -i \in Int
    BY SMT
  <2> QED BY <2>1, PositionsDiffer
<1> HIDE DEF back
<1>4. PICK d \in least : \A g \in least : back[d] <= back[g]
  <2>1. \A g \in least : back[g] \in Int
    BY <1>3
  <2> HIDE DEF least
  <2> QED BY <1>1, <1>2, <2>1, LeastOfFinite, Zenon
<1>5. ASSUME NEW g \in fs \ {d} PROVE key[d] < key[g] \/ (key[d] = key[g] /\ Position(d) > Position(g))
  <2>1. key[d] <= key[g] /\ key[d] \in Int /\ key[g] \in Int
    OBVIOUS
  <2>2. CASE key[d] = key[g]
    <3>1. g \in least
      BY <2>2
    <3>2. back[d] <= back[g]
      BY <1>4, <3>1
    <3>3. Position(d) # Position(g)
      BY PositionsDiffer
    <3>4. Position(d) \in Int /\ Position(g) \in Int /\ back[d] = -Position(d) /\ back[g] = -Position(g)
      BY <1>3
    <3>5. Position(d) > Position(g)
      BY <3>2, <3>3, <3>4, SMT
    <3> QED BY <2>2, <3>5
  <2>3. CASE key[d] # key[g]
    BY <2>1, <2>3, SMT
  <2> QED BY <2>2, <2>3
<1>6. LastMin(fs, key) = CHOOSE f \in fs : Lowest(f)
  BY DEF LastMin
<1>7. Lowest(d)
  BY <1>5
<1> HIDE DEF Lowest
<1>8. LastMin(fs, key) \in fs /\ Lowest(LastMin(fs, key))
  BY <1>6, <1>7
<1>9. ASSUME NEW f \in fs PROVE key[LastMin(fs, key)] <= key[f]
  <2>1. f # LastMin(fs, key) => key[LastMin(fs, key)] < key[f] \/ key[LastMin(fs, key)] = key[f]
    BY <1>8 DEF Lowest
  <2>2. key[f] \in Int /\ key[LastMin(fs, key)] \in Int
    BY <1>8
  <2> HIDE DEF least
  <2>3. CASE f = LastMin(fs, key)
    <3>1. \A x \in Int : x <= x
      BY SMT
    <3> QED BY <2>2, <2>3, <3>1, Zenon
  <2>4. CASE f # LastMin(fs, key)
    <3>1. \A x \in Int, y \in Int : x < y \/ x = y => x <= y
      BY SMT
    <3> QED BY <2>1, <2>2, <2>4, <3>1, Zenon
  <2> QED BY <2>3, <2>4
<1> QED BY <1>8, <1>9

\* What build() reads off a score.
Unknowns(sc) == {f \in Factors : sc.factors[f].missing}
Considered(sc) == IF Unknowns(sc) = Factors THEN Factors ELSE Factors \ Unknowns(sc)
Contributions(sc) == [f \in Factors |-> Contribution(sc.factors, f)]
Worst(sc) == LastMin(Considered(sc), Contributions(sc))

\* Without a factor that speaks against it a complex is either praised by all,
\* which is a high bias, or scored fifty by all.
LEMMA SomethingDrags ==
  ASSUME NEW sc, SoundScore(sc), sc.total >= Points(65), check_confirmation(sc) # "high"
  PROVE  \E f \in Factors : sc.factors[f].norm < NEUTRAL
PROOF
<1> DEFINE above == {f \in Factors : sc.factors[f].norm > NEUTRAL}
           below == {f \in Factors : sc.factors[f].norm < NEUTRAL}
<1>1. SUFFICES ASSUME below = {} PROVE FALSE
  OBVIOUS
<1>2. IsFiniteSet(above) /\ Cardinality(above) \in Nat /\ Cardinality(below) = 0
  BY <1>1, FactorsCount, FS_Subset, FS_EmptySet, FS_CardinalityType
<1>3. Cardinality(above) = 0
  <2>1. SUFFICES ASSUME Cardinality(above) # 0 PROVE FALSE
    OBVIOUS
  <2>2. ~(Cardinality(above) < CONFIRMATION_RATIO * Cardinality(below))
    BY <1>2, SMT DEF CONFIRMATION_RATIO
  <2>3. check_confirmation(sc) = ConfirmationSeverity(Cardinality(above), Cardinality(below))
    BY <2>1, <2>2, Zenon DEF check_confirmation
  <2> HIDE DEF above, below
  <2> QED BY <1>2, <2>3 DEF ConfirmationSeverity
<1>4. above = {}
  BY <1>2, <1>3, FS_EmptySet
<1>5. \A f \in Factors : sc.factors[f].norm = NEUTRAL
  <2>1. ASSUME NEW f \in Factors PROVE sc.factors[f].norm = NEUTRAL
    <3>1. ~(sc.factors[f].norm > NEUTRAL) /\ ~(sc.factors[f].norm < NEUTRAL)
      BY <1>1, <1>4
    <3>2. sc.factors[f].norm \in Int
      BY SoundType DEF SoundScore
    <3> HIDE DEF above, below
    <3> QED BY <3>1, <3>2, PointsOf, SMT
  <2> QED BY <2>1
<1>6. TotalOf(sc.factors) = 100 * NEUTRAL
  <2>1. NEUTRAL \in Int
    BY PointsOf, SMT
  <2> QED BY <1>5, <2>1, TotalOfConstant
<1>7. sc.total = 100 * NEUTRAL
  BY <1>6 DEF SoundScore
<1> HIDE DEF above, below
<1> QED BY <1>7, PointsOf, SMT

LEMMA DragNamed ==
  ASSUME NEW sc, SoundScore(sc), sc.total >= Points(65), check_confirmation(sc) # "high",
         Confidence(Unknowns(sc)) # "Low"
  PROVE  /\ Contribution(sc.factors, Worst(sc)) < 0
         /\ ~sc.factors[Worst(sc)].missing
         /\ Cardinality({f \in Factors : ~sc.factors[f].missing}) >= 10
PROOF
<1>1. PICK d \in Factors : sc.factors[d].norm < NEUTRAL
  BY SomethingDrags
<1>2. \A f \in Factors : sc.factors[f].norm \in Int /\ FACTOR_WEIGHTS[f] \in 5..10
  BY SoundType, WeightsType DEF SoundScore
<1>3. NEUTRAL = 600
  BY PointsOf
<1>4. ~sc.factors[d].missing
  <2>1. sc.factors[d].norm # NEUTRAL
    BY <1>1, <1>2, <1>3, SMT
  <2> QED BY <2>1 DEF SoundScore, Sound
<1>5. Considered(sc) = Factors \ Unknowns(sc) /\ d \in Considered(sc) /\ Considered(sc) \in SUBSET Factors
  BY <1>4 DEF Considered, Unknowns
<1>6. \A f \in Factors : Contributions(sc)[f] = Contribution(sc.factors, f) /\ Contributions(sc)[f] \in Int
  <2>1. ASSUME NEW f \in Factors PROVE Contribution(sc.factors, f) \in Int
    BY <1>2, <1>3, SMT DEF Contribution
  <2> QED BY <2>1 DEF Contributions
<1>7. Contribution(sc.factors, d) < 0
  <2>1. \A x \in Int, w \in 5..10 : x < 600 => (x - 600) * w < 0
    BY SMT
  <2> QED BY <1>1, <1>2, <1>3, <2>1 DEF Contribution
<1>8. Worst(sc) \in Considered(sc) /\ Contributions(sc)[Worst(sc)] <= Contributions(sc)[d]
  BY <1>5, <1>6, LastMinIsLeast DEF Worst
<1>9. Contribution(sc.factors, Worst(sc)) < 0 /\ ~sc.factors[Worst(sc)].missing
  <2>1. Worst(sc) \in Factors /\ ~sc.factors[Worst(sc)].missing
    BY <1>5, <1>8 DEF Unknowns
  <2>2. /\ Contribution(sc.factors, Worst(sc)) \in Int /\ Contribution(sc.factors, d) \in Int
        /\ Contribution(sc.factors, Worst(sc)) <= Contribution(sc.factors, d)
    BY <1>6, <1>8, <2>1
  <2>3. \A x \in Int, y \in Int : x <= y /\ y < 0 => x < 0
    BY SMT
  <2> QED BY <1>7, <2>1, <2>2, <2>3, Zenon
<1>10. Cardinality({f \in Factors : ~sc.factors[f].missing}) >= 10
  <2>1. {f \in Factors : ~sc.factors[f].missing} = Factors \ Unknowns(sc) /\ Factors \cap Unknowns(sc) = Unknowns(sc)
    BY DEF Unknowns
  <2>2. Cardinality(Factors \ Unknowns(sc)) = 14 - Cardinality(Unknowns(sc))
    <3>1. Cardinality(Factors \ Unknowns(sc)) = Cardinality(Factors) - Cardinality(Factors \cap Unknowns(sc))
      BY FactorsCount, FS_Difference, Zenon
    <3> QED BY <2>1, <3>1, FactorsCount, Zenon
  <2>3. Cardinality(Unknowns(sc)) \in Nat
    BY FactorsCount, FS_Subset, FS_CardinalityType DEF Unknowns
  <2>4. ~(Cardinality(Unknowns(sc)) >= 5)
    BY DEF Confidence
  <2>5. \A n \in Nat : ~(n >= 5) => 14 - n >= 10
    BY SMT
  <2>6. Cardinality(Factors \ Unknowns(sc)) >= 10
    BY <2>2, <2>3, <2>4, <2>5, Zenon
  <2> QED BY <2>1, <2>6, Zenon
<1> QED BY <1>9, <1>10

Drag(sc, v) ==
  v.verdict = BUY =>
    /\ Contribution(sc.factors, v.worst) < 0
    /\ ~sc.factors[v.worst].missing
    /\ Cardinality({f \in Factors : ~sc.factors[f].missing}) >= 10

LEMMA BiasType ==
  ASSUME NEW sc, NEW ctx, NEW row
  PROVE  \A b \in DOMAIN Detect(sc, ctx, row) : Detect(sc, ctx, row)[b] \in {None, "low", "medium", "high"}
PROOF
<1> DEFINE Shades == {None, "low", "medium", "high"}
<1>1. /\ check_confirmation(sc) \in Shades /\ check_anchoring(ctx, row) \in Shades
      /\ check_recency(row) \in Shades /\ check_survivorship(row) \in Shades
      /\ check_availability(row) \in Shades /\ check_loss_aversion(ctx) \in Shades
      /\ check_overconfidence(ctx) \in Shades /\ check_base_rate_neglect(ctx, row) \in Shades
      /\ check_sunk_cost(ctx) \in Shades
  <2>1. check_confirmation(sc) \in Shades
    BY Zenon DEF check_confirmation, ConfirmationSeverity
  <2>2. check_anchoring(ctx, row) \in Shades
    BY Zenon DEF check_anchoring
  <2>3. check_recency(row) \in Shades /\ check_survivorship(row) \in Shades
    BY Zenon DEF check_recency, check_survivorship
  <2>4. check_availability(row) \in Shades /\ check_loss_aversion(ctx) \in Shades
    BY Zenon DEF check_availability, check_loss_aversion
  <2>5. check_overconfidence(ctx) \in Shades /\ check_base_rate_neglect(ctx, row) \in Shades
    BY Zenon DEF check_overconfidence, check_base_rate_neglect
  <2>6. check_sunk_cost(ctx) \in Shades
    BY Zenon DEF check_sunk_cost
  <2> QED BY <2>1, <2>2, <2>3, <2>4, <2>5, <2>6
<1> HIDE DEF Shades
<1> DEFINE bs == Detect(sc, ctx, row)
<1>2. /\ bs["confirmation_bias"] = check_confirmation(sc) /\ bs["anchoring"] = check_anchoring(ctx, row)
      /\ bs["recency_bias"] = check_recency(row) /\ bs["survivorship_bias"] = check_survivorship(row)
      /\ bs["availability_heuristic"] = check_availability(row) /\ bs["loss_aversion"] = check_loss_aversion(ctx)
      /\ bs["overconfidence"] = check_overconfidence(ctx) /\ bs["base_rate_neglect"] = check_base_rate_neglect(ctx, row)
      /\ bs["sunk_cost"] = check_sunk_cost(ctx)
  BY DEF Detect
<1>3. DOMAIN bs = {"confirmation_bias", "anchoring", "recency_bias", "survivorship_bias",
                   "availability_heuristic", "loss_aversion", "overconfidence", "base_rate_neglect", "sunk_cost"}
  BY DEF Detect
<1> HIDE DEF bs
<1>4. \A b \in DOMAIN bs : bs[b] \in Shades
  BY <1>1, <1>2, <1>3
<1> QED BY <1>4 DEF bs, Shades

LEMMA DecisionType ==
  ASSUME NEW total \in Int, NEW bs, NEW confidence
  PROVE  /\ Decision(total, bs, confidence) \in {BUY, HOLD, SELL, DEFER}
         /\ Decision(total, bs, confidence) = BUY =>
              total >= Points(65) /\ ~HighBias(bs) /\ confidence # "Low"
PROOF
<1>1. Points(65) = 78000 /\ Points(35) = 42000
  BY SMT DEF Points
<1>2. CASE total >= Points(65) /\ ~HighBias(bs) /\ confidence # "Low"
  <2>1. ~(total < Points(35))
    BY <1>1, <1>2, SMT
  <2> QED BY <1>2, <2>1 DEF Decision
<1>3. CASE ~(total >= Points(65) /\ ~HighBias(bs) /\ confidence # "Low")
  <2>1. CASE total < Points(35)
    <3>1. ~(total >= Points(35))
      BY <1>1, <2>1, SMT
    <3> QED BY <1>3, <2>1, <3>1 DEF Decision, BUY, SELL
  <2>2. CASE ~(total < Points(35)) /\ total >= Points(35) /\ (HighBias(bs) \/ confidence = "Low")
    BY <1>3, <2>2 DEF Decision, BUY, DEFER
  <2>3. CASE ~(total < Points(35)) /\ ~(total >= Points(35) /\ (HighBias(bs) \/ confidence = "Low"))
    BY <1>3, <2>3 DEF Decision, BUY, HOLD
  <2> QED BY <2>1, <2>2, <2>3
<1> QED BY <1>2, <1>3

-----------------------------------------------------------------------------
\* The rows stay typed; what was read of them stays as it was computed, and the
\* warnings are those of the score that the verdict is built from.
VerdictInv ==
  /\ TypedRows(rows) /\ loads \in 0..MaxLoads
  /\ score # Missing => SoundScore(score)
  /\ scenarios # Missing => Bracketed(scenarios)
  /\ biases # Missing => /\ score # Missing
                         /\ \E ctx \in UserContexts, row \in BiasRows : biases = Detect(score, ctx, row)
  /\ verdict \notin {Missing, Raised} => verdict.verdict \in {BUY, HOLD, SELL, DEFER} /\ Drag(score, verdict)

LEMMA VerdictKept == (Init => VerdictInv) /\ (VerdictInv /\ [Next]_vars => VerdictInv')
PROOF
<1>1. Init => VerdictInv
  BY RowsAssumption, SMT DEF Init, VerdictInit, VerdictInv, TypedRows
<1>2. ASSUME VerdictInv, NEW f \in Factors, LoadRow(f) PROVE VerdictInv'
  <2>1. PICK r \in NewRows(f) : rows' = [rows EXCEPT ![f] = r]
    BY <1>2 DEF LoadRow
  <2>2. TypedRows(rows')
    <3>1. r \in RowOf(f)
      BY RowsAssumption
    <3> QED BY <1>2, <2>1, <3>1 DEF VerdictInv, TypedRows
  <2>3. loads' \in 0..MaxLoads
    BY <1>2, RowsAssumption, SMT DEF LoadRow, VerdictInv
  <2> QED BY <1>2, <2>2, <2>3 DEF LoadRow, VerdictInv, request
<1>3. ASSUME VerdictInv, ReadScore PROVE VerdictInv'
  <2>1. SoundScore(Score(rows))
    BY <1>3, ScoreIsSound DEF VerdictInv
  <2>2. biases = Missing /\ verdict = Missing
    BY <1>3 DEF VerdictInv, ReadScore
  <2> QED BY <1>3, <2>1, <2>2 DEF ReadScore, VerdictInv
<1>4. ASSUME VerdictInv, ReadScenarios PROVE VerdictInv'
  <2>1. PICK sigmas \in SigmaRows : scenarios' = Simulate(rows, sigmas)
    BY <1>4 DEF ReadScenarios
  <2>2. Bracketed(scenarios')
    <3>1. \A v \in DEFAULT_VARIABLES : sigmas[v] \in Number
      BY RowsAssumption
    <3> QED BY <1>4, <2>1, <3>1, SimulationBracketed DEF VerdictInv
  <2> QED BY <1>4, <2>2 DEF ReadScenarios, VerdictInv
<1>5. ASSUME VerdictInv, ReadFails PROVE VerdictInv'
  BY <1>5 DEF ReadFails, VerdictInv
<1>6. ASSUME VerdictInv, DetectBiases PROVE VerdictInv'
  BY <1>6 DEF DetectBiases, VerdictInv
<1>7. ASSUME VerdictInv, Build PROVE VerdictInv'
  <2> DEFINE sc == score
  <2>1. PICK ctx \in UserContexts, row \in BiasRows : biases = Detect(score, ctx, row)
    BY <1>7 DEF Build, VerdictInv
  <2>2. SoundScore(score)
    BY <1>7 DEF Build, VerdictInv
  <2>3. /\ Built.verdict = Decision(score.total, biases, Confidence(Unknowns(score)))
        /\ Built.worst = Worst(score)
    BY DEF Built, Unknowns, Worst, Considered, Contributions
  <2>4. score.total \in Int
    BY <2>2 DEF SoundScore
  <2>5. Built.verdict \in {BUY, HOLD, SELL, DEFER}
    BY <2>3, <2>4, DecisionType
  <2>6. Drag(score, Built)
    <3>1. SUFFICES ASSUME Built.verdict = BUY
                   PROVE  /\ Contribution(score.factors, Worst(score)) < 0
                          /\ ~score.factors[Worst(score)].missing
                          /\ Cardinality({f \in Factors : ~score.factors[f].missing}) >= 10
      BY <2>3, Zenon DEF Drag
    <3>2. score.total >= Points(65) /\ ~HighBias(biases) /\ Confidence(Unknowns(score)) # "Low"
      BY <2>3, <2>4, <3>1, DecisionType
    <3>3. check_confirmation(score) # "high"
      <4>1. "confirmation_bias" \in DOMAIN biases /\ biases["confirmation_bias"] = check_confirmation(score)
        BY <2>1 DEF Detect
      <4> QED BY <3>2, <4>1 DEF HighBias
    <3> QED BY <2>2, <3>2, <3>3, DragNamed
  <2> QED BY <1>7, <2>5, <2>6 DEF Build, VerdictInv
<1>8. VerdictInv /\ UNCHANGED verdictVars => VerdictInv'
  BY DEF VerdictInv, verdictVars
<1>9. [Next]_vars => UNCHANGED verdictVars \/ VerdictNext
  BY DEF Next, vars, Judge, Watch, Notify, LookBack, Answer, Prepare
<1>10. VerdictInv /\ VerdictNext => VerdictInv'
  BY <1>2, <1>3, <1>4, <1>5, <1>6, <1>7 DEF VerdictNext
<1> QED BY <1>1, <1>8, <1>9, <1>10

\* Whatever the rows and the deviations, bear is at most base and base at most
\* bull, and moving a variable in its favour never lowers the score, although
\* each is clamped to its range and some ranges run the other way
\* (simulator.py, _build_scenarios and _sensitivity).
THEOREM ScenariosHold == Spec => []ScenariosBracket
PROOF
<1>1. VerdictInv => ScenariosBracket
  BY DEF VerdictInv, ScenariosBracket, Bracketed
<1> QED BY <1>1, VerdictKept, PTL DEF Spec

\* A "buy" names a factor with data that drags the score down and rests on ten
\* factors at least, whatever loads come between the score and the verdict: a
\* score of 65 has a factor above neutral, and if none is below, the
\* confirmation check forbids the verdict (verdict.py, _decide and build).
THEOREM BuysHaveADrag == Spec => []BuyNamesADrag
PROOF
<1>1. VerdictInv => BuyNamesADrag
  BY DEF VerdictInv, BuyNamesADrag, Drag
<1> QED BY <1>1, VerdictKept, PTL DEF Spec

LEMMA VerdictTyped == VerdictInv => VerdictTypeOK
PROOF
<1> SUFFICES ASSUME VerdictInv PROVE VerdictTypeOK
  OBVIOUS
<1>1. loads \in 0..MaxLoads
  BY DEF VerdictInv
<1>2. score # Missing => score.factors \in [Factors -> FactorScores] /\ score.grade \in Grades
  BY DEF VerdictInv, SoundScore
<1>3. score # Missing => score.total \in 0..Points(100)
  <2>1. \A n \in Int, m \in Int : 0 <= n /\ n <= m => n \in 0..m
    BY SMT
  <2>2. Points(100) \in Int
    BY SMT DEF Points
  <2> QED BY <2>1, <2>2, Zenon DEF VerdictInv, SoundScore
<1>4. biases # Missing => \A b \in DOMAIN biases : biases[b] \in {None, "low", "medium", "high"}
  BY BiasType DEF VerdictInv
<1>5. verdict \notin {Missing, Raised} => verdict.verdict \in {BUY, HOLD, SELL, DEFER}
  BY DEF VerdictInv
<1> QED BY <1>1, <1>2, <1>3, <1>4, <1>5, Zenon DEF VerdictTypeOK
=============================================================================
