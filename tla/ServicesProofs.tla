-------------------------- MODULE ServicesProofs --------------------------
(***************************************************************************)
(* Proofs about the services: the allocation, whose rounds come to         *)
(* nothing and which costs least when it is returned, the ring of the mesh *)
(* emulation, which is a broadcast while it is not full, the message       *)
(* consumer and the earlier persist queue, for any matrices and any number *)
(* of readers, slots, messages and entries.                                *)
(***************************************************************************)
EXTENDS MCServices, FiniteSetTheorems, SequenceTheorems, TLAPS

-----------------------------------------------------------------------------
(* Each one alone *)

LEMMA EachAlone ==
  AllSpec =>
    Spec /\ Scheduler!Spec /\ Ring!Spec /\ Mesh!Spec /\ Consumer!Spec /\ Legacy!Spec
<1>1. AllInit =>
        /\ Init /\ Scheduler!Init /\ Ring!Init /\ Mesh!Init /\ Consumer!Init
        /\ Legacy!Init
  BY DEF AllInit
<1>2. [AllNext]_allVars =>
        /\ [Next]_vars /\ [Scheduler!Next]_(Scheduler!vars)
        /\ [Ring!Next]_(Ring!vars) /\ [Mesh!Next]_(Mesh!vars)
        /\ [Consumer!Next]_(Consumer!vars) /\ [Legacy!Next]_(Legacy!vars)
  <2> SUFFICES ASSUME [AllNext]_allVars
               PROVE  /\ Next \/ UNCHANGED vars
                      /\ Scheduler!Next \/ UNCHANGED schedulerVars
                      /\ Ring!Next \/ UNCHANGED ringVars
                      /\ Mesh!Next \/ UNCHANGED meshVars
                      /\ Consumer!Next \/ UNCHANGED consumerVars
                      /\ Legacy!Next \/ UNCHANGED legacyVars
    BY DEF Scheduler!vars, Ring!vars, Mesh!vars, Consumer!vars, Legacy!vars,
           schedulerVars, ringVars, meshVars, consumerVars, legacyVars
  <2> QED
    BY DEF AllNext, Moves, allVars
<1> QED
  BY <1>1, <1>2, PTL DEF AllSpec, Spec, Scheduler!Spec, Ring!Spec, Mesh!Spec, Consumer!Spec, Legacy!Spec

-----------------------------------------------------------------------------
(* Induction over finite sets and up to a number, by a least counterexample *)

LEMMA LeastSet ==
  ASSUME NEW S, IsFiniteSet(S)
  PROVE  \A F \in SUBSET (SUBSET S) :
            F # {} => \E s \in F : \A t \in F : t \subseteq s => t = s
<1> SUFFICES ASSUME NEW F \in SUBSET (SUBSET S), F # {}
             PROVE  \E s \in F : \A t \in F : t \subseteq s => t = s
  OBVIOUS
<1>1. FiniteSubsetsOf(S) = SUBSET S
  BY FS_FiniteSubsetsOfFinite
<1>2. IsWellFoundedOn(StrictSubsetOrdering(S), SUBSET S)
  BY <1>1, FS_StrictSubsetOrderingWellFounded
<1>3. PICK s \in F : \A t \in F : ~ (<<t, s>> \in StrictSubsetOrdering(S))
  BY <1>2, WFMin
<1>4. ASSUME NEW t \in F, t \subseteq s, t # s PROVE FALSE
  <2>1. <<t, s>> \in StrictSubsetOrdering(S)
    BY <1>4 DEF StrictSubsetOrdering
  <2> QED
    BY <1>3, <2>1
<1> QED
  BY <1>4

LEMMA UpTo ==
  ASSUME NEW n \in Nat, NEW S, 0 \in S, \A k \in 0..(n - 1) : k \in S => k + 1 \in S
  PROVE  \A k \in 0..n : k \in S
<1> SUFFICES ASSUME NEW j \in 0..n, j \notin S PROVE FALSE
  OBVIOUS
<1> DEFINE I == 0..n
           T == {0..k : k \in {l \in 0..n : l \notin S}}
<1>1. IsFiniteSet(I)
  BY FS_Interval
<1>2. T \in SUBSET (SUBSET I) /\ T # {}
  OBVIOUS
<1>3. PICK s \in T : \A t \in T : t \subseteq s => t = s
  <2> HIDE DEF I, T
  <2> QED
    BY <1>1, <1>2, LeastSet
<1>4. PICK k \in 0..n : k \notin S /\ s = 0..k
  BY <1>3
<1>5. k # 0 /\ k - 1 \in 0..(n - 1) /\ (k - 1) + 1 = k
  BY <1>4
<1>6. k - 1 \notin S
  BY <1>4, <1>5
<1>7. 0..(k - 1) \in T /\ 0..(k - 1) \subseteq s
  BY <1>4, <1>5, <1>6
<1>8. 0..(k - 1) = 0..k
  BY <1>3, <1>4, <1>7
<1> QED
  BY <1>5, <1>8

LEMMA MinIsLeast ==
  ASSUME NEW S, IsFiniteSet(S), S # {}
  PROVE  S \subseteq Int => Min(S) \in S /\ \A y \in S : Min(S) <= y
<1> DEFINE Below(x) == {y \in S : y <= x}
           T == {Below(x) : x \in S}
<1>1. T \in SUBSET (SUBSET S) /\ T # {}
  OBVIOUS
<1>2. PICK s \in T : \A t \in T : t \subseteq s => t = s
  <2> HIDE DEF T
  <2> QED
    BY <1>1, LeastSet
<1> SUFFICES ASSUME S \subseteq Int PROVE \E x \in S : \A y \in S : x <= y
  BY DEF Min
<1>3. PICK x \in S : s = Below(x)
  BY <1>2
<1>4. ASSUME NEW y \in S PROVE x <= y
  <2> SUFFICES ASSUME y < x PROVE FALSE
    OBVIOUS
  <2>1. x \in Int /\ y \in Int /\ \A z \in S : z \in Int
    OBVIOUS
  <2>2. \A z \in S : z <= y => z <= x
    BY <2>1
  <2>3. x <= x /\ ~ (x <= y)
    BY <2>1
  <2>4. Below(y) \subseteq Below(x) /\ x \in Below(x) /\ x \notin Below(y)
    BY <2>2, <2>3
  <2>5. Below(y) \in T
    OBVIOUS
  <2> QED
    BY <1>2, <1>3, <2>4, <2>5
<1> QED
  BY <1>4

-----------------------------------------------------------------------------
(* Sums *)

Total(g) == FoldFunction(+, 0, g)

\* The sums over all subsets of the domain of g, as the fold computes them.
OneOf(s) == CHOOSE x \in s : TRUE
Sums(g, S) ==
  CHOOSE sum : sum = [s \in SUBSET S |-> IF s = {} THEN 0
                                         ELSE g[OneOf(s)] + sum[s \ {OneOf(s)}]]

LEMMA TotalIsSum == ASSUME NEW g PROVE Total(g) = Sums(g, DOMAIN g)[DOMAIN g]
BY DEF Total, FoldFunction, FoldFunctionOnSet, MapThenFoldSet, Sums, OneOf

LEMMA OneOfIs == ASSUME NEW s, s # {} PROVE OneOf(s) \in s
BY DEF OneOf

LEMMA SumsExist ==
  ASSUME NEW S, IsFiniteSet(S), NEW g
  PROVE  Sums(g, S) = [s \in SUBSET S |-> IF s = {} THEN 0
                                          ELSE g[OneOf(s)] + Sums(g, S)[s \ {OneOf(s)}]]
<1> DEFINE Small(k) == {s \in SUBSET S : Cardinality(s) <= k}
           Step(sum, s) == IF s = {} THEN 0 ELSE g[OneOf(s)] + sum[s \ {OneOf(s)}]
           K == {k \in Nat : \E sum : sum = [s \in Small(k) |-> Step(sum, s)]}
<1>1. \A s \in SUBSET S : IsFiniteSet(s) /\ Cardinality(s) \in Nat /\ Cardinality(s) <= Cardinality(S)
  BY FS_Subset, FS_CardinalityType
<1>2. Cardinality(S) \in Nat
  BY FS_CardinalityType
<1>3. 0 \in K
  <2>1. \A s \in Small(0) : s = {}
    BY <1>1, FS_EmptySet
  <2>2. \A sum : [s \in Small(0) |-> Step(sum, s)] = [s \in Small(0) |-> 0]
    BY <2>1
  <2> QED
    BY <2>2
<1>4. ASSUME NEW k \in Nat, k \in K PROVE k + 1 \in K
  <2>1. PICK sum : sum = [s \in Small(k) |-> Step(sum, s)]
    BY <1>4
  <2> DEFINE more == [s \in Small(k + 1) |-> Step(sum, s)]
  <2>2. ASSUME NEW s \in Small(k + 1) PROVE Step(more, s) = Step(sum, s)
    <3>1. CASE s = {}
      BY <3>1
    <3>2. CASE s # {}
      <4> DEFINE t == s \ {OneOf(s)}
      <4>1. OneOf(s) \in s
        BY <3>2, OneOfIs
      <4>2. t \in SUBSET S /\ Cardinality(t) = Cardinality(s) - 1
        BY <1>1, <4>1, FS_RemoveElement
      <4>3. t \in Small(k) /\ t \in Small(k + 1)
        BY <1>1, <4>2
      <4> HIDE DEF t
      <4>4. more[t] = Step(sum, t) /\ sum[t] = Step(sum, t)
        BY <2>1, <4>3
      <4> QED
        BY <3>2, <4>4 DEF t
    <3> QED
      BY <3>1, <3>2
  <2>3. more = [s \in Small(k + 1) |-> Step(more, s)]
    BY <2>2
  <2>4. \E all : all = [s \in Small(k + 1) |-> Step(all, s)]
    <3> HIDE DEF more, Step, Small
    <3> QED
      BY <2>3
  <2> QED
    <3> HIDE DEF Step, Small
    <3> QED
      BY <2>4
<1>5. Cardinality(S) \in K
  <2> DEFINE n == Cardinality(S)
  <2>1. \A k \in 0..(n - 1) : k \in K => k + 1 \in K
    BY <1>2, <1>4
  <2>2. n \in Nat /\ n \in 0..n
    BY <1>2
  <2> HIDE DEF K, n
  <2>3. \A k \in 0..n : k \in K
    BY <1>3, <2>1, <2>2, UpTo
  <2> QED
    BY <2>2, <2>3 DEF n
<1>6. Small(Cardinality(S)) = SUBSET S
  BY <1>1
<1>7. \E sum : sum = [s \in SUBSET S |-> Step(sum, s)]
  BY <1>5, <1>6
<1> QED
  BY <1>7 DEF Sums

\* What holds of a set whenever it holds of the set without each element holds
\* of every subset of a finite set.
LEMMA BySubsets ==
  ASSUME NEW S, IsFiniteSet(S), NEW P,
         \A s \in SUBSET S : (\A x \in s : s \ {x} \in P) => s \in P
  PROVE  \A s \in SUBSET S : s \in P
<1> DEFINE F == {s \in SUBSET S : s \notin P}
<1> SUFFICES ASSUME F # {} PROVE FALSE
  OBVIOUS
<1>1. F \in SUBSET (SUBSET S)
  OBVIOUS
<1>2. PICK s \in F : \A t \in F : t \subseteq s => t = s
  <2> HIDE DEF F
  <2> QED
    BY <1>1, LeastSet
<1>3. \A x \in s : s \ {x} \in P
  <2> SUFFICES ASSUME NEW x \in s PROVE s \ {x} \in P
    OBVIOUS
  <2>1. s \ {x} \subseteq s /\ s \ {x} # s /\ s \ {x} \in SUBSET S
    OBVIOUS
  <2> QED
    BY <1>2, <2>1
<1> QED
  BY <1>2, <1>3

LEMMA SumsOf ==
  ASSUME NEW S, IsFiniteSet(S), NEW g \in [S -> Int]
  PROVE  /\ Sums(g, S)[{}] = 0
         /\ \A s \in SUBSET S : Sums(g, S)[s] \in Int
         /\ \A s \in SUBSET S : \A y \in s :
               Sums(g, S)[s] = g[y] + Sums(g, S)[s \ {y}]
<1> DEFINE sum == Sums(g, S)
<1>1. sum = [s \in SUBSET S |-> IF s = {} THEN 0 ELSE g[OneOf(s)] + sum[s \ {OneOf(s)}]]
  BY SumsExist
<1> HIDE DEF sum
<1>2. sum[{}] = 0
  BY <1>1
<1>3. \A s \in SUBSET S : s # {} => /\ OneOf(s) \in s
                                    /\ sum[s] = g[OneOf(s)] + sum[s \ {OneOf(s)}]
  BY <1>1, OneOfIs
<1>4. \A s \in SUBSET S : sum[s] \in Int
  <2> DEFINE P == {s \in SUBSET S : sum[s] \in Int}
  <2>1. ASSUME NEW s \in SUBSET S, \A x \in s : s \ {x} \in P PROVE s \in P
    <3>1. CASE s = {}
      BY <1>2, <3>1
    <3>2. CASE s # {}
      <4>1. OneOf(s) \in s /\ sum[s] = g[OneOf(s)] + sum[s \ {OneOf(s)}]
        BY <1>3, <3>2
      <4>2. sum[s \ {OneOf(s)}] \in Int /\ g[OneOf(s)] \in Int
        BY <2>1, <4>1
      <4> QED
        BY <4>1, <4>2
    <3> QED
      BY <3>1, <3>2
  <2> HIDE DEF P
  <2>2. \A s \in SUBSET S : s \in P
    BY <2>1, BySubsets
  <2> QED
    BY <2>2 DEF P
<1>5. \A s \in SUBSET S : \A y \in s : sum[s] = g[y] + sum[s \ {y}]
  <2> DEFINE P == {s \in SUBSET S : \A y \in s : sum[s] = g[y] + sum[s \ {y}]}
  <2>1. ASSUME NEW s \in SUBSET S, \A x \in s : s \ {x} \in P PROVE s \in P
    <3> SUFFICES ASSUME NEW y \in s PROVE sum[s] = g[y] + sum[s \ {y}]
      OBVIOUS
    <3> DEFINE o == OneOf(s)
    <3>1. o \in s /\ sum[s] = g[o] + sum[s \ {o}]
      BY <1>3
    <3> HIDE DEF o
    <3>2. CASE y = o
      BY <3>1, <3>2
    <3>3. CASE y # o
      <4> DEFINE rest == (s \ {o}) \ {y}
      <4>1. sum[s \ {o}] = g[y] + sum[rest]
        BY <2>1, <3>1, <3>3
      <4>2. sum[s \ {y}] = g[o] + sum[rest]
        <5>1. rest = (s \ {y}) \ {o}
          OBVIOUS
        <5> QED
          BY <2>1, <3>1, <3>3, <5>1
      <4>3. rest \in SUBSET S /\ s \ {y} \in SUBSET S /\ s \ {o} \in SUBSET S
        OBVIOUS
      <4>4. /\ sum[rest] \in Int /\ sum[s \ {y}] \in Int /\ sum[s \ {o}] \in Int
            /\ g[y] \in Int /\ g[o] \in Int
        <5> HIDE DEF rest
        <5> QED
          BY <1>4, <3>1, <4>3
      <4> HIDE DEF rest
      <4> QED
        BY <3>1, <4>1, <4>2, <4>4
    <3> QED
      BY <3>2, <3>3
  <2> HIDE DEF P
  <2>2. \A s \in SUBSET S : s \in P
    BY <2>1, BySubsets
  <2> QED
    BY <2>2 DEF P
<1> QED
  BY <1>2, <1>4, <1>5 DEF sum

\* Where each cost is at least what its row and its column contribute, so is the
\* sum over a permutation; and it is that much where each cost is.
LEMMA SumsCompare ==
  ASSUME NEW S, IsFiniteSet(S),
         NEW c \in [S -> Int], NEW u \in [S -> Int], NEW v \in [S -> Int],
         NEW f \in [S -> S], \A i, k \in S : f[i] = f[k] => i = k,
         \A i \in S : c[i] >= u[i] + v[f[i]]
  PROVE  /\ Total(c) >= Total(u) + Total(v)
         /\ (\A i \in S : c[i] = u[i] + v[f[i]]) => Total(c) = Total(u) + Total(v)
<1> DEFINE C == Sums(c, S)
           U == Sums(u, S)
           V == Sums(v, S)
           Image(s) == {f[i] : i \in s}
           Exact(s) == \A i \in s : c[i] = u[i] + v[f[i]]
           P == {s \in SUBSET S : /\ C[s] >= U[s] + V[Image(s)]
                                  /\ Exact(s) => C[s] = U[s] + V[Image(s)]}
<1>1. /\ C[{}] = 0 /\ \A s \in SUBSET S : C[s] \in Int
      /\ \A s \in SUBSET S : \A y \in s : C[s] = c[y] + C[s \ {y}]
  BY SumsOf
<1>2. /\ U[{}] = 0 /\ \A s \in SUBSET S : U[s] \in Int
      /\ \A s \in SUBSET S : \A y \in s : U[s] = u[y] + U[s \ {y}]
  BY SumsOf
<1>3. /\ V[{}] = 0 /\ \A s \in SUBSET S : V[s] \in Int
      /\ \A s \in SUBSET S : \A y \in s : V[s] = v[y] + V[s \ {y}]
  BY SumsOf
<1> HIDE DEF C, U, V
<1>4. ASSUME NEW s \in SUBSET S, \A x \in s : s \ {x} \in P PROVE s \in P
  <2>1. CASE s = {}
    <3>1. Image(s) = {}
      BY <2>1
    <3>2. C[s] = 0 /\ U[s] = 0 /\ V[Image(s)] = 0
      BY <1>1, <1>2, <1>3, <2>1, <3>1
    <3> QED
      BY <3>2
  <2>2. CASE s # {}
    <3>1. PICK x \in s : TRUE
      BY <2>2
    <3> DEFINE t == s \ {x}
    <3>2. C[s] = c[x] + C[t] /\ U[s] = u[x] + U[t]
      BY <1>1, <1>2
    <3>3. V[Image(s)] = v[f[x]] + V[Image(t)]
      <4>1. Image(s) \in SUBSET S /\ f[x] \in Image(s)
        OBVIOUS
      <4>2. Image(t) = Image(s) \ {f[x]}
        OBVIOUS
      <4>3. V[Image(s)] = v[f[x]] + V[Image(s) \ {f[x]}]
        <5> DEFINE W == Image(s)  y == f[x]
        <5>1. W \in SUBSET S /\ y \in W
          BY <4>1
        <5> HIDE DEF W, y
        <5>2. V[W] = v[y] + V[W \ {y}]
          BY <1>3, <5>1
        <5> QED
          BY <5>2 DEF W, y
      <4> HIDE DEF Image, t
      <4> QED
        BY <4>2, <4>3
    <3>4. t \in P /\ t \in SUBSET S /\ Image(t) \in SUBSET S
      <4>1. t \in P
        <5> HIDE DEF P
        <5> QED
          BY <1>4
      <4> QED
        BY <4>1
    <3>5. /\ C[t] \in Int /\ U[t] \in Int /\ V[Image(t)] \in Int
          /\ c[x] \in Int /\ u[x] \in Int /\ v[f[x]] \in Int
      <4> HIDE DEF t, Image
      <4> QED
        BY <1>1, <1>2, <1>3, <3>4
    <3>6. C[t] >= U[t] + V[Image(t)] /\ (Exact(t) => C[t] = U[t] + V[Image(t)])
      BY <3>4
    <3>7. Exact(s) => Exact(t) /\ c[x] = u[x] + v[f[x]]
      OBVIOUS
    <3>8. c[x] >= u[x] + v[f[x]]
      OBVIOUS
    <3>9. C[s] >= U[s] + V[Image(s)] /\ (Exact(s) => C[s] = U[s] + V[Image(s)])
      <4> HIDE DEF t, Image, Exact
      <4> QED
        BY <3>2, <3>3, <3>5, <3>6, <3>7, <3>8
    <3> QED
      BY <3>9
  <2> QED
    BY <2>1, <2>2
<1>5. S \in P
  <2> HIDE DEF P
  <2>1. \A s \in SUBSET S : s \in P
    BY <1>4, BySubsets
  <2> QED
    BY <2>1
<1>6. Image(S) = S
  <2>1. f \in Injection(S, S)
    BY DEF Injection, IsInjective
  <2>2. f \in Surjection(S, S)
    BY <2>1, FS_Injection
  <2> QED
    BY <2>2 DEF Surjection
<1>7. Total(c) = C[S] /\ Total(u) = U[S] /\ Total(v) = V[S]
  BY TotalIsSum DEF C, U, V
<1> QED
  BY <1>5, <1>6, <1>7

-----------------------------------------------------------------------------
(* The reductions *)

Below(n) == 0..(n - 1)
Squares(n) == [Below(n) -> [Below(n) -> Int]]
NonNegativeOn(n, m) == \A i, j \in Below(n) : m[i][j] >= 0

LEMMA ImageIsFinite ==
  ASSUME NEW S, IsFiniteSet(S), NEW f, DOMAIN f = S, f = [x \in S |-> f[x]]
  PROVE  IsFiniteSet({f[x] : x \in S})
<1> DEFINE T == {f[x] : x \in S}
<1>1. f \in Surjection(S, T)
  BY DEF Surjection
<1> HIDE DEF T
<1> QED
  BY <1>1, FS_Surjection DEF T

LEMMA BelowIsFinite == ASSUME NEW n \in Nat PROVE IsFiniteSet(Below(n)) /\ Below(n) \subseteq Int
BY FS_Interval DEF Below

LEMMA RowsAreReduced ==
  ASSUME NEW n \in Nat, NEW m \in Squares(n)
  PROVE  /\ RowsReduced(m) \in Squares(n) /\ NonNegativeOn(n, RowsReduced(m))
         /\ \E u \in [Below(n) -> Int] :
               \A i, j \in Below(n) : RowsReduced(m)[i][j] = m[i][j] - u[i]
<1> DEFINE Row(i) == {m[i][k] : k \in Below(n)}
           u == [i \in Below(n) |-> Min(Row(i))]
<1>1. DOMAIN m = Below(n) /\ \A i, j \in Below(n) : m[i][j] \in Int
  BY DEF Squares
<1>2. \A i, j \in Below(n) : RowsReduced(m)[i][j] = m[i][j] - u[i]
  BY <1>1 DEF RowsReduced
<1>3. \A i \in Below(n) : u[i] \in Int /\ \A j \in Below(n) : u[i] <= m[i][j]
  <2> SUFFICES ASSUME NEW i \in Below(n)
               PROVE  Min(Row(i)) \in Int /\ \A j \in Below(n) : Min(Row(i)) <= m[i][j]
    OBVIOUS
  <2>1. IsFiniteSet(Row(i))
    <3> DEFINE f == [k \in Below(n) |-> m[i][k]]
    <3>1. IsFiniteSet(Below(n))
      BY BelowIsFinite
    <3>2. {f[k] : k \in Below(n)} = Row(i)
      OBVIOUS
    <3>3. IsFiniteSet({f[k] : k \in Below(n)})
      BY <3>1, ImageIsFinite
    <3> QED
      BY <3>2, <3>3
  <2>2. Row(i) \subseteq Int /\ Row(i) # {} /\ \A j \in Below(n) : m[i][j] \in Row(i)
    BY <1>1
  <2> HIDE DEF Row
  <2>3. Min(Row(i)) \in Row(i) /\ \A y \in Row(i) : Min(Row(i)) <= y
    BY <2>1, <2>2, MinIsLeast
  <2> QED
    BY <2>2, <2>3
<1>4. u \in [Below(n) -> Int]
  BY <1>3
<1> HIDE DEF u
<1>5. RowsReduced(m) \in Squares(n)
  <2>1. \A i, j \in Below(n) : m[i][j] - u[i] \in Int
    BY <1>1, <1>3
  <2>2. RowsReduced(m) = [i \in Below(n) |-> [j \in Below(n) |-> m[i][j] - u[i]]]
    BY <1>1 DEF RowsReduced, u
  <2> QED
    BY <2>1, <2>2 DEF Squares
<1>6. NonNegativeOn(n, RowsReduced(m))
  <2> SUFFICES ASSUME NEW i \in Below(n), NEW j \in Below(n)
               PROVE  RowsReduced(m)[i][j] >= 0
    BY DEF NonNegativeOn
  <2>1. m[i][j] \in Int /\ u[i] \in Int /\ u[i] <= m[i][j]
    BY <1>1, <1>3
  <2>2. m[i][j] - u[i] >= 0
    BY <2>1
  <2> QED
    BY <1>2, <2>2
<1> QED
  BY <1>2, <1>4, <1>5, <1>6

LEMMA ColumnsAreReduced ==
  ASSUME NEW n \in Nat, NEW m \in Squares(n)
  PROVE  /\ ColumnsReduced(m) \in Squares(n) /\ NonNegativeOn(n, ColumnsReduced(m))
         /\ \E v \in [Below(n) -> Int] :
               \A i, j \in Below(n) : ColumnsReduced(m)[i][j] = m[i][j] - v[j]
<1> DEFINE Column(j) == {m[k][j] : k \in Below(n)}
           v == [j \in Below(n) |-> Min(Column(j))]
<1>1. DOMAIN m = Below(n) /\ \A i, j \in Below(n) : m[i][j] \in Int
  BY DEF Squares
<1>2. \A i, j \in Below(n) : ColumnsReduced(m)[i][j] = m[i][j] - v[j]
  BY <1>1 DEF ColumnsReduced
<1>3. \A j \in Below(n) : v[j] \in Int /\ \A i \in Below(n) : v[j] <= m[i][j]
  <2> SUFFICES ASSUME NEW j \in Below(n)
               PROVE  Min(Column(j)) \in Int /\ \A i \in Below(n) : Min(Column(j)) <= m[i][j]
    OBVIOUS
  <2>1. IsFiniteSet(Column(j))
    <3> DEFINE f == [k \in Below(n) |-> m[k][j]]
    <3>1. IsFiniteSet(Below(n))
      BY BelowIsFinite
    <3>2. {f[k] : k \in Below(n)} = Column(j)
      OBVIOUS
    <3>3. IsFiniteSet({f[k] : k \in Below(n)})
      BY <3>1, ImageIsFinite
    <3> QED
      BY <3>2, <3>3
  <2>2. Column(j) \subseteq Int /\ Column(j) # {} /\ \A i \in Below(n) : m[i][j] \in Column(j)
    BY <1>1
  <2> HIDE DEF Column
  <2>3. Min(Column(j)) \in Column(j) /\ \A y \in Column(j) : Min(Column(j)) <= y
    BY <2>1, <2>2, MinIsLeast
  <2> QED
    BY <2>2, <2>3
<1>4. v \in [Below(n) -> Int]
  BY <1>3
<1> HIDE DEF v
<1>5. ColumnsReduced(m) \in Squares(n)
  <2>1. \A i, j \in Below(n) : m[i][j] - v[j] \in Int
    BY <1>1, <1>3
  <2>2. ColumnsReduced(m) = [i \in Below(n) |-> [j \in Below(n) |-> m[i][j] - v[j]]]
    BY <1>1 DEF ColumnsReduced, v
  <2> QED
    BY <2>1, <2>2 DEF Squares
<1>6. NonNegativeOn(n, ColumnsReduced(m))
  <2> SUFFICES ASSUME NEW i \in Below(n), NEW j \in Below(n)
               PROVE  ColumnsReduced(m)[i][j] >= 0
    BY DEF NonNegativeOn
  <2>1. m[i][j] \in Int /\ v[j] \in Int /\ v[j] <= m[i][j]
    BY <1>1, <1>3
  <2>2. m[i][j] - v[j] >= 0
    BY <2>1
  <2> QED
    BY <1>2, <2>2
<1> QED
  BY <1>2, <1>4, <1>5, <1>6

Permuting(n, f) == f \in [Below(n) -> Below(n)] /\ \A i, k \in Below(n) : f[i] = f[k] => i = k
CostIn(n, m, f) == Total([i \in Below(n) |-> m[i][f[i]]])

\* What the reductions take off a row and a column is paid by every allocation,
\* so one at zeros of the reduced matrix pays the least.
LEMMA ZerosCostLeast ==
  ASSUME NEW n \in Nat, NEW m \in Squares(n), NEW g, Permuting(n, g),
         \A i \in Below(n) : ColumnsReduced(RowsReduced(m))[i][g[i]] = 0,
         NEW f, Permuting(n, f)
  PROVE  CostIn(n, m, g) <= CostIn(n, m, f)
<1> DEFINE r == RowsReduced(m)
           d == ColumnsReduced(r)
<1>1. r \in Squares(n)
  BY RowsAreReduced
<1>2. PICK u \in [Below(n) -> Int] : \A i, j \in Below(n) : r[i][j] = m[i][j] - u[i]
  BY RowsAreReduced
<1> HIDE DEF r
<1>3. d \in Squares(n) /\ NonNegativeOn(n, d)
  BY <1>1, ColumnsAreReduced
<1>4. PICK v \in [Below(n) -> Int] : \A i, j \in Below(n) : d[i][j] = r[i][j] - v[j]
  BY <1>1, ColumnsAreReduced
<1>5. \A i \in Below(n) : d[i][g[i]] = 0
  BY DEF r
<1> HIDE DEF d
<1>6. \A i, j \in Below(n) : /\ m[i][j] \in Int /\ r[i][j] \in Int /\ d[i][j] \in Int
                             /\ u[i] \in Int /\ v[j] \in Int
  BY <1>1, <1>3 DEF Squares
<1>7. \A i, j \in Below(n) : /\ m[i][j] >= u[i] + v[j]
                             /\ d[i][j] = 0 => m[i][j] = u[i] + v[j]
  <2> SUFFICES ASSUME NEW i \in Below(n), NEW j \in Below(n)
               PROVE  m[i][j] >= u[i] + v[j] /\ (d[i][j] = 0 => m[i][j] = u[i] + v[j])
    OBVIOUS
  <2>1. d[i][j] >= 0 /\ d[i][j] = r[i][j] - v[j] /\ r[i][j] = m[i][j] - u[i]
    BY <1>2, <1>3, <1>4 DEF NonNegativeOn
  <2>2. /\ m[i][j] \in Int /\ r[i][j] \in Int /\ d[i][j] \in Int
        /\ u[i] \in Int /\ v[j] \in Int
    BY <1>6
  <2> QED
    BY <2>1, <2>2
<1>8. IsFiniteSet(Below(n))
  BY BelowIsFinite
<1>9. ASSUME NEW h, Permuting(n, h)
      PROVE  /\ CostIn(n, m, h) >= Total(u) + Total(v)
             /\ (\A i \in Below(n) : d[i][h[i]] = 0) => CostIn(n, m, h) = Total(u) + Total(v)
  <2> DEFINE S == Below(n)
             c == [i \in S |-> m[i][h[i]]]
  <2>1. h \in [S -> S] /\ \A i, k \in S : h[i] = h[k] => i = k
    BY <1>9 DEF Permuting
  <2>2. c \in [S -> Int]
    BY <1>6, <2>1
  <2>3. \A i \in S : c[i] >= u[i] + v[h[i]]
    BY <1>7, <2>1
  <2>4. (\A i \in S : d[i][h[i]] = 0) => \A i \in S : c[i] = u[i] + v[h[i]]
    BY <1>7, <2>1
  <2>5. u \in [S -> Int] /\ v \in [S -> Int] /\ IsFiniteSet(S)
    BY <1>8
  <2>6. Total(c) = CostIn(n, m, h)
    BY DEF CostIn
  <2> HIDE DEF S, c
  <2>7. /\ Total(c) >= Total(u) + Total(v)
        /\ (\A i \in S : c[i] = u[i] + v[h[i]]) => Total(c) = Total(u) + Total(v)
    BY <2>1, <2>2, <2>3, <2>5, SumsCompare
  <2> QED
    BY <2>4, <2>6, <2>7 DEF S
<1>10. ASSUME NEW h \in [Below(n) -> Int] PROVE Total(h) \in Int
  BY <1>8, TotalIsSum, SumsOf
<1>11. Total(u) \in Int /\ Total(v) \in Int
  BY <1>10
<1>12. CostIn(n, m, g) = Total(u) + Total(v) /\ CostIn(n, m, f) >= Total(u) + Total(v)
  BY <1>5, <1>9
<1>13. CostIn(n, m, f) \in Int
  <2> DEFINE c == [i \in Below(n) |-> m[i][f[i]]]
  <2>1. c \in [Below(n) -> Int]
    BY <1>6 DEF Permuting
  <2> HIDE DEF c
  <2>2. Total(c) \in Int
    BY <1>10, <2>1
  <2> QED
    BY <2>2 DEF c, CostIn
<1> QED
  BY <1>11, <1>12, <1>13

-----------------------------------------------------------------------------
(* The marking *)

\* The zero a row is assigned when the rows above it hold the columns p.
FirstZero(n, m, p, i) ==
  LET zeros == {j \in Below(n) : m[i][j] = 0 /\ \A k \in 0..(i - 1) : p[k] # j}
  IN  IF zeros = {} THEN -1 ELSE Min(zeros)

LEMMA RowsAreAssigned ==
  ASSUME NEW n \in Nat, NEW m \in Squares(n)
  PROVE  AssignedRow(m) = [i \in Below(n) |-> FirstZero(n, m, AssignedRow(m), i)]
<1> DEFINE K == {k \in Nat : \E p : p = [i \in Below(k) |-> FirstZero(n, m, p, i)]}
<1>1. 0 \in K
  <2>1. Below(0) = {}
    BY DEF Below
  <2>2. \A p : [i \in {} |-> FirstZero(n, m, p, i)] = [i \in {} |-> 0]
    OBVIOUS
  <2>3. \E p : p = [i \in {} |-> FirstZero(n, m, p, i)]
    BY <2>2
  <2> QED
    BY <2>1, <2>3
<1>2. ASSUME NEW k \in Nat, k \in K PROVE k + 1 \in K
  <2>1. PICK p : p = [i \in Below(k) |-> FirstZero(n, m, p, i)]
    BY <1>2
  <2> DEFINE q == [i \in Below(k + 1) |-> FirstZero(n, m, p, i)]
  <2>2. \A i \in Below(k) : p[i] = FirstZero(n, m, p, i)
    BY <2>1
  <2>3. \A i \in Below(k + 1) : \A l \in 0..(i - 1) : l \in Below(k) /\ l \in Below(k + 1)
    BY DEF Below
  <2>4. \A i \in Below(k + 1) : \A l \in 0..(i - 1) : q[l] = p[l]
    BY <2>2, <2>3
  <2> HIDE DEF q
  <2>5. \A i \in Below(k + 1) : FirstZero(n, m, q, i) = FirstZero(n, m, p, i)
    BY <2>4 DEF FirstZero
  <2>6. q = [i \in Below(k + 1) |-> FirstZero(n, m, q, i)]
    BY <2>5 DEF q
  <2>7. \E r : r = [i \in Below(k + 1) |-> FirstZero(n, m, r, i)]
    BY <2>6
  <2> QED
    BY <2>7
<1>3. n \in K
  <2>1. \A k \in 0..(n - 1) : k \in K => k + 1 \in K
    BY <1>2
  <2> HIDE DEF K
  <2>2. \A k \in 0..n : k \in K
    BY <1>1, <2>1, UpTo
  <2> QED
    BY <2>2
<1>4. DOMAIN m = Below(n)
  BY DEF Squares
<1>5. AssignedRow(m) = CHOOSE p : p = [i \in Below(n) |-> FirstZero(n, m, p, i)]
  BY <1>4 DEF AssignedRow, FirstZero
<1> QED
  BY <1>3, <1>5

FreeZero(m, a, i, j) == m[i][j] = 0 /\ \A k \in 0..(i - 1) : a[k] # j

LEMMA AssignedAre ==
  ASSUME NEW n \in Nat, NEW m \in Squares(n), NEW i \in Below(n)
  PROVE  \/ AssignedRow(m)[i] = -1 /\ \A j \in Below(n) : ~ FreeZero(m, AssignedRow(m), i, j)
         \/ /\ AssignedRow(m)[i] \in Below(n)
            /\ FreeZero(m, AssignedRow(m), i, AssignedRow(m)[i])
            /\ \A j \in Below(n) : FreeZero(m, AssignedRow(m), i, j) => AssignedRow(m)[i] <= j
<1> DEFINE a == AssignedRow(m)
           zeros == {j \in Below(n) : FreeZero(m, a, i, j)}
<1>1. a[i] = IF zeros = {} THEN -1 ELSE Min(zeros)
  BY RowsAreAssigned DEF FirstZero, FreeZero
<1>2. zeros \subseteq Int /\ IsFiniteSet(zeros)
  <2>1. zeros \subseteq Below(n)
    OBVIOUS
  <2> QED
    BY <2>1, BelowIsFinite, FS_Subset
<1>3. CASE zeros = {}
  BY <1>1, <1>3
<1>4. CASE zeros # {}
  <2> HIDE DEF zeros
  <2>1. Min(zeros) \in zeros /\ \A j \in zeros : Min(zeros) <= j
    BY <1>2, <1>4, MinIsLeast
  <2> QED
    BY <1>1, <1>4, <2>1 DEF zeros
<1> QED
  BY <1>3, <1>4

LEMMA MarkingIsLeast ==
  ASSUME NEW n \in Nat, NEW m \in Squares(n)
  PROVE  /\ MarkedRows(m) \subseteq Below(n)
         /\ ClosedMarking(m, MarkedRows(m))
         /\ \A other \in SUBSET Below(n) :
               ClosedMarking(m, other) => MarkedRows(m) \subseteq other
<1> DEFINE D == DOMAIN m
           least == {i \in D : \A rows \in SUBSET D : ClosedMarking(m, rows) => i \in rows}
<1>1. D = Below(n)
  BY DEF Squares
<1>2. least \in SUBSET D
  OBVIOUS
<1>3. \A other \in SUBSET D : ClosedMarking(m, other) => least \subseteq other
  OBVIOUS
<1>4. ClosedMarking(m, least)
  <2> SUFFICES ASSUME NEW i \in D, NEW rows \in SUBSET D, ClosedMarking(m, rows),
                      AssignedRow(m)[i] = -1
                        \/ AssignedRow(m)[i] \in ColumnsWithZero(m, least)
               PROVE  i \in rows
    BY DEF ClosedMarking
  <2>1. least \subseteq rows
    BY <1>3
  <2>2. ColumnsWithZero(m, least) \subseteq ColumnsWithZero(m, rows)
    BY <2>1 DEF ColumnsWithZero
  <2> QED
    BY <2>2 DEF ClosedMarking
<1>5. \E rows \in SUBSET D :
         /\ ClosedMarking(m, rows)
         /\ \A other \in SUBSET D : ClosedMarking(m, other) => rows \subseteq other
  <2> HIDE DEF least, D
  <2> QED
    BY <1>2, <1>3, <1>4
<1>6. /\ MarkedRows(m) \in SUBSET D
      /\ ClosedMarking(m, MarkedRows(m))
      /\ \A other \in SUBSET D : ClosedMarking(m, other) => MarkedRows(m) \subseteq other
  BY <1>5 DEF MarkedRows
<1> QED
  BY <1>1, <1>6

\* What a round makes of a matrix.
Adjusted(n, m, marked, columns, min) ==
  [i \in Below(n) |-> [j \in Below(n) |->
     IF j \notin columns THEN m[i][j]
     ELSE IF i \in marked THEN m[i][j] + min ELSE m[i][j] - min]]

\* After a round that left some row unmarked the same rows are closed again: a
\* marked row has no zero left, an unmarked one still finds a column.
LEMMA SomeRowStaysUnmarked ==
  ASSUME NEW n \in Nat, NEW m \in Squares(n), NonNegativeOn(n, m), NEW min \in Int,
         MarkedRows(m) # Below(n), min > 0,
         \A i \in Below(n) \ MarkedRows(m), j \in ColumnsWithZero(m, MarkedRows(m)) :
            min <= m[i][j],
         NEW d \in Squares(n),
         d = Adjusted(n, m, MarkedRows(m), ColumnsWithZero(m, MarkedRows(m)), min)
  PROVE  MarkedRows(d) # Below(n)
<1> DEFINE M == MarkedRows(m)
           C == ColumnsWithZero(m, M)
           a == AssignedRow(m)
           b == AssignedRow(d)
<1>1. M \subseteq Below(n) /\ ClosedMarking(m, M)
  BY MarkingIsLeast
<1>2. DOMAIN m = Below(n) /\ DOMAIN d = Below(n)
  BY DEF Squares
<1>3. \A i, j \in Below(n) : /\ m[i][j] \in Int /\ m[i][j] >= 0
                             /\ j \notin C => d[i][j] = m[i][j]
                             /\ j \in C /\ i \in M => d[i][j] = m[i][j] + min
                             /\ j \in C /\ i \notin M => min <= m[i][j]
  BY DEF Squares, NonNegativeOn, Adjusted
<1>4. \A i \in M : \A j \in Below(n) : m[i][j] = 0 => j \in C
  BY <1>1, <1>2 DEF ColumnsWithZero
<1>5. \A i \in Below(n) \ M : a[i] # -1 /\ a[i] \notin C
  BY <1>1, <1>2 DEF ClosedMarking
<1> HIDE DEF M, C, a, b
<1>6. \A i \in M : \A j \in Below(n) : d[i][j] # 0
  <2> SUFFICES ASSUME NEW i \in M, NEW j \in Below(n) PROVE d[i][j] # 0
    OBVIOUS
  <2>1. i \in Below(n)
    BY <1>1
  <2>2. CASE j \in C
    <3>1. m[i][j] \in Int /\ m[i][j] >= 0 /\ d[i][j] = m[i][j] + min
      BY <1>3, <2>1, <2>2
    <3> QED
      BY <3>1
  <2>3. CASE j \notin C
    BY <1>3, <1>4, <2>1, <2>3
  <2> QED
    BY <2>2, <2>3
<1>7. \A i \in M : b[i] = -1
  BY <1>1, <1>6, AssignedAre DEF b, FreeZero
<1>8. \A i \in Below(n) \ M : /\ a[i] \in Below(n) \ C /\ FreeZero(m, a, i, a[i])
                              /\ \A j \in Below(n) : FreeZero(m, a, i, j) => a[i] <= j
  BY <1>5, AssignedAre DEF a
\* Outside the marked columns a row holds none that no row above held before.
<1> DEFINE Held(f, k) == {f[l] : l \in 0..(k - 1)}
           K == {k \in Nat : k <= n => \A l \in 0..(k - 1) : b[l] \in Below(n) \ C => b[l] \in Held(a, k)}
<1>9. 0 \in K
  OBVIOUS
<1>10. ASSUME NEW k \in 0..(n - 1), k \in K PROVE k + 1 \in K
  <2>1. k \in Below(n) /\ \A l \in 0..k : l \in 0..(k - 1) \/ l = k
    BY DEF Below
  <2>2. Held(a, k) \subseteq Held(a, k + 1) /\ a[k] \in Held(a, k + 1)
    OBVIOUS
  <2>3. \A l \in 0..(k - 1) : b[l] \in Below(n) \ C => b[l] \in Held(a, k)
    BY <1>10
  <2>4. ASSUME b[k] \in Below(n) \ C PROVE b[k] \in Held(a, k + 1)
    <3>1. k \notin M /\ b[k] # -1
      BY <1>7, <2>4 DEF Below
    <3>2. /\ FreeZero(d, b, k, b[k])
          /\ \A j \in Below(n) : FreeZero(d, b, k, j) => b[k] <= j
      BY <2>1, <3>1, AssignedAre DEF b
    <3>3. m[k][b[k]] = 0
      BY <1>3, <2>1, <2>4, <3>2 DEF FreeZero
    <3>4. CASE b[k] \in Held(a, k)
      BY <2>2, <3>4
    <3>5. CASE b[k] \notin Held(a, k)
      <4>1. FreeZero(m, a, k, b[k])
        BY <3>3, <3>5 DEF FreeZero
      <4>2. a[k] <= b[k]
        BY <1>8, <2>1, <2>4, <3>1, <4>1
      <4>3. a[k] \in Below(n) \ C /\ FreeZero(m, a, k, a[k])
        BY <1>8, <2>1, <3>1
      <4>4. d[k][a[k]] = 0
        BY <1>3, <2>1, <4>3 DEF FreeZero
      <4>5. \A l \in 0..(k - 1) : b[l] # a[k]
        <5>1. a[k] \notin Held(a, k)
          BY <4>3 DEF FreeZero
        <5> QED
          BY <2>3, <4>3, <5>1
      <4>6. b[k] <= a[k]
        BY <3>2, <4>3, <4>4, <4>5 DEF FreeZero
      <4>7. a[k] \in Int /\ b[k] \in Int
        BY <2>4, <4>3 DEF Below
      <4>8. a[k] = b[k]
        BY <4>2, <4>6, <4>7
      <4> QED
        BY <2>2, <4>8
    <3> QED
      BY <3>4, <3>5
  <2>5. \A l \in 0..k : b[l] \in Below(n) \ C => b[l] \in Held(a, k + 1)
    BY <2>1, <2>2, <2>3, <2>4
  <2>6. (k + 1) - 1 = k /\ k + 1 \in Nat
    OBVIOUS
  <2> QED
    <3> HIDE DEF Held
    <3> QED
      BY <2>5, <2>6
<1>11. \A k \in 0..n : k \in K
  <2> HIDE DEF K
  <2> QED
    BY <1>9, <1>10, UpTo
<1>12. \A i \in Below(n) \ M : b[i] # -1
  <2> SUFFICES ASSUME NEW i \in Below(n) \ M PROVE b[i] # -1
    OBVIOUS
  <2>1. a[i] \in Below(n) \ C /\ FreeZero(m, a, i, a[i])
    BY <1>8
  <2>2. d[i][a[i]] = 0
    BY <1>3, <2>1 DEF FreeZero
  <2>3. \A l \in 0..(i - 1) : b[l] # a[i]
    <3>1. i \in 0..n /\ i \in Nat /\ i <= n
      BY DEF Below
    <3>2. i \in K
      BY <1>11, <3>1
    <3>3. \A l \in 0..(i - 1) : b[l] \in Below(n) \ C => b[l] \in Held(a, i)
      BY <3>1, <3>2
    <3>4. a[i] \notin Held(a, i)
      BY <2>1 DEF FreeZero
    <3> QED
      BY <2>1, <3>3, <3>4
  <2>4. FreeZero(d, b, i, a[i])
    BY <2>2, <2>3 DEF FreeZero
  <2>5. \/ b[i] = -1 /\ \A j \in Below(n) : ~ FreeZero(d, b, i, j)
        \/ b[i] \in Below(n)
    BY AssignedAre DEF b
  <2> QED
    BY <2>1, <2>4, <2>5 DEF Below
<1>13. ClosedMarking(d, M)
  <2>1. ColumnsWithZero(d, M) = {}
    BY <1>2, <1>6 DEF ColumnsWithZero
  <2> QED
    BY <1>2, <1>12, <2>1 DEF ClosedMarking, b
<1>14. MarkedRows(d) \subseteq M
  BY <1>1, <1>13, MarkingIsLeast
<1> QED
  BY <1>1, <1>14 DEF M

-----------------------------------------------------------------------------
(* The invariant *)

Reduced == ColumnsReduced(RowsReduced(costs))

\* Until the search the matrix is the reduced one or stays hopeless.
Hopeless ==
  /\ pc = "reduce" => matrix = costs
  /\ pc = "rounds" => matrix = Reduced \/ MarkedRows(matrix) # Rows
  /\ pc \in {"rounds", "search", "broken"} => Size > 0

\* A row has a zero in a column none of the rows above it holds.
Apart(i) ==
  /\ result[i] \in Rows
  /\ matrix[i][result[i]] = 0
  /\ \A k \in 0..(i - 1) : result[k] # result[i]

\* During the search the columns of the rows above pos are given out, row pos may
\* still hold the column it comes back for, and the rows below hold none.
Placed ==
  pc = "search" =>
    /\ \A i \in 0..(pos - 1) : Apart(i) /\ result[i] \in allocated
    /\ pos \in Rows => \A k \in 0..(pos - 1) : result[k] # result[pos]
    /\ \A i \in Rows : i > pos => result[i] = -1

Complete == pc = "returned" => \A i \in Rows : Apart(i)

AllocInv ==
  TypeOK /\ NonNegative /\ RoundsComeToNothing /\ Hopeless /\ Placed /\ Complete

LEMMA CostsAreSquare ==
  ASSUME costs \in Matrices
  PROVE  Size \in Nat /\ Rows = Below(Size) /\ costs \in Squares(Size)
<1>1. /\ IsFiniteSet(DOMAIN costs)
      /\ costs \in [0..(Size - 1) -> [0..(Size - 1) -> Int]]
  BY AllocationAssumption DEF Size, Rows
<1>2. Size \in Nat
  BY <1>1, FS_CardinalityType DEF Size, Rows
<1> QED
  BY <1>1, <1>2 DEF Rows, Below, Squares

LEMMA AllocationStarts == Init => AllocInv
<1> SUFFICES ASSUME Init PROVE AllocInv
  OBVIOUS
<1>1. Size \in Nat /\ Rows = Below(Size) /\ costs \in Squares(Size)
  BY CostsAreSquare DEF Init
<1>2. TypeOK
  <2>1. matrix \in [Rows -> [Rows -> Int]]
    BY <1>1 DEF Init, Squares
  <2>2. \A i \in Rows : 0 \in -1..(Size - 1)
    BY <1>1 DEF Below
  <2>3. result \in [Rows -> -1..(Size - 1)]
    BY <2>2 DEF Init
  <2>4. pos \in -1..Size
    BY <1>1 DEF Init
  <2> QED
    BY <2>1, <2>3, <2>4 DEF TypeOK, Init
<1> QED
  BY <1>2 DEF Init, AllocInv, NonNegative, RoundsComeToNothing, Hopeless, Placed, Complete

LEMMA ReduceKeeps == AllocInv /\ Reduce => AllocInv'
<1> SUFFICES ASSUME AllocInv, Reduce PROVE AllocInv'
  OBVIOUS
<1>1. /\ matrix = costs /\ matrix' = Reduced /\ costs' = costs /\ result' = result
      /\ allocated' = allocated /\ pos' = pos
      /\ pc' = IF Size = 0 THEN "returned" ELSE "rounds"
  BY DEF Reduce, AllocInv, Hopeless, Reduced
<1>2. Size \in Nat /\ Rows = Below(Size) /\ costs \in Squares(Size)
  BY CostsAreSquare DEF AllocInv, TypeOK
<1>3. Rows' = Rows /\ Size' = Size /\ Reduced' = Reduced
  BY <1>1 DEF Rows, Size, Reduced
<1>4. Reduced \in Squares(Size) /\ NonNegativeOn(Size, Reduced)
  BY <1>2, RowsAreReduced, ColumnsAreReduced DEF Reduced
<1>5. TypeOK'
  BY <1>1, <1>2, <1>3, <1>4 DEF TypeOK, AllocInv, Squares
<1>6. NonNegative'
  BY <1>1, <1>2, <1>3, <1>4 DEF NonNegative, NonNegativeOn
<1>7. RoundsComeToNothing'
  BY <1>1, <1>3 DEF RoundsComeToNothing, Reduced
<1>8. Hopeless'
  BY <1>1, <1>2, <1>3 DEF Hopeless
<1>9. Placed' /\ Complete'
  <2>1. Size = 0 => Rows = {}
    BY <1>2 DEF Below
  <2> QED
    BY <1>1, <1>3, <2>1 DEF Placed, Complete
<1> QED
  BY <1>5, <1>6, <1>7, <1>8, <1>9 DEF AllocInv

LEMMA RoundKeeps == AllocInv /\ Round => AllocInv'
<1> SUFFICES ASSUME AllocInv, Round PROVE AllocInv'
  OBVIOUS
<1> DEFINE M == MarkedRows(matrix)
           C == ColumnsWithZero(matrix, M)
           min == LeastOf(M, C)
<1>1. Size \in Nat /\ Rows = Below(Size) /\ matrix \in Squares(Size)
  BY CostsAreSquare DEF AllocInv, TypeOK, Squares
<1>2. /\ pc = "rounds" /\ M # Rows /\ costs' = costs /\ pc' = pc /\ result' = result
      /\ allocated' = allocated /\ pos' = pos
      /\ matrix' = Adjusted(Size, matrix, M, C, min)
  BY <1>1 DEF Round, Adjusted
<1>3. NonNegativeOn(Size, matrix) /\ Size > 0
  BY <1>1, <1>2 DEF AllocInv, NonNegative, NonNegativeOn, Hopeless
<1>4. Rows' = Rows /\ Size' = Size
  BY <1>2 DEF Rows, Size
<1>5. M \subseteq Rows /\ C \subseteq Rows
  BY <1>1, MarkingIsLeast DEF ColumnsWithZero, Squares
<1>6. /\ min \in Int /\ min >= 0
      /\ \A i \in Rows \ M, j \in C : min <= matrix[i][j]
  <2> DEFINE Values == {matrix[0][0]} \cup {matrix[i][j] : i \in Rows \ M, j \in C}
  <2>1. \A i, j \in Rows : matrix[i][j] \in Int /\ matrix[i][j] >= 0
    BY <1>1, <1>3 DEF Squares, NonNegativeOn
  <2>2. 0 \in Rows
    BY <1>1, <1>3 DEF Below
  <2>3. Values \subseteq Int /\ Values # {} /\ \A y \in Values : y >= 0
    BY <1>5, <2>1, <2>2
  <2>4. IsFiniteSet(Values)
    <3> DEFINE S == Rows \X Rows
               f == [x \in S |-> matrix[x[1]][x[2]]]
    <3>1. IsFiniteSet(S)
      BY <1>1, BelowIsFinite, FS_Product
    <3>2. IsFiniteSet({f[x] : x \in S})
      <4> HIDE DEF S
      <4> QED
        BY <3>1, ImageIsFinite
    <3>3. Values \subseteq {f[x] : x \in S}
      <4>1. \A i, j \in Rows : <<i, j>> \in S /\ f[<<i, j>>] = matrix[i][j]
        OBVIOUS
      <4> HIDE DEF f, S
      <4>2. \A i, j \in Rows : matrix[i][j] \in {f[x] : x \in S}
        BY <4>1
      <4> QED
        BY <1>5, <2>2, <4>2
    <3> QED
      BY <3>2, <3>3, FS_Subset
  <2>5. \A i \in Rows \ M, j \in C : matrix[i][j] \in Values
    OBVIOUS
  <2>6. min = Min(Values)
    BY DEF LeastOf
  <2> HIDE DEF Values, min
  <2>7. min \in Values /\ \A y \in Values : min <= y
    BY <2>3, <2>4, <2>6, MinIsLeast
  <2> QED
    BY <2>3, <2>5, <2>7
<1> HIDE DEF min
<1>7. matrix' \in Squares(Size)
  <2>1. \A i, j \in Below(Size) : matrix[i][j] \in Int
    BY <1>1 DEF Squares
  <2>2. \A i, j \in Below(Size) : (IF j \notin C THEN matrix[i][j]
                                   ELSE IF i \in M THEN matrix[i][j] + min
                                   ELSE matrix[i][j] - min) \in Int
    BY <1>6, <2>1
  <2> QED
    BY <1>2, <2>2 DEF Adjusted, Squares
<1>8. NonNegativeOn(Size, matrix')
  <2> SUFFICES ASSUME NEW i \in Below(Size), NEW j \in Below(Size)
               PROVE  matrix'[i][j] >= 0
    BY DEF NonNegativeOn
  <2>1. matrix[i][j] \in Int /\ matrix[i][j] >= 0
    BY <1>1, <1>3 DEF Squares, NonNegativeOn
  <2>2. matrix'[i][j] = IF j \notin C THEN matrix[i][j]
                        ELSE IF i \in M THEN matrix[i][j] + min ELSE matrix[i][j] - min
    BY <1>2 DEF Adjusted
  <2>3. j \in C /\ i \notin M => min <= matrix[i][j]
    BY <1>1, <1>6
  <2> HIDE DEF M, C
  <2> QED
    BY <1>6, <2>1, <2>2, <2>3
<1>9. MarkedRows(matrix') # Rows
  <2>1. CASE min = 0
    <3>1. \A i, j \in Below(Size) : (IF j \notin C THEN matrix[i][j]
                                     ELSE IF i \in M THEN matrix[i][j] + min
                                     ELSE matrix[i][j] - min) = matrix[i][j]
      BY <1>1, <2>1 DEF Squares
    <3>2. matrix' = [i \in Below(Size) |-> [j \in Below(Size) |-> matrix[i][j]]]
      BY <1>2, <3>1 DEF Adjusted
    <3>3. matrix' = matrix
      BY <1>1, <3>2 DEF Squares
    <3> QED
      BY <1>2, <3>3
  <2>2. CASE min # 0
    <3>1. min > 0
      BY <1>6, <2>2
    <3> QED
      BY <1>1, <1>2, <1>3, <1>6, <1>7, <3>1, SomeRowStaysUnmarked
  <2> QED
    BY <2>1, <2>2
<1>10. TypeOK'
  BY <1>1, <1>2, <1>4, <1>7 DEF AllocInv, TypeOK, Squares
<1>11. NonNegative'
  BY <1>1, <1>4, <1>8 DEF NonNegative, NonNegativeOn
<1>12. Hopeless'
  BY <1>2, <1>3, <1>4, <1>9 DEF Hopeless
<1>13. RoundsComeToNothing' /\ Placed' /\ Complete'
  BY <1>2 DEF RoundsComeToNothing, Placed, Complete
<1> QED
  BY <1>10, <1>11, <1>12, <1>13 DEF AllocInv

LEMMA RoundsEnd == AllocInv /\ EndRounds => AllocInv'
<1> SUFFICES ASSUME AllocInv, EndRounds PROVE AllocInv'
  OBVIOUS
<1>1. /\ pc = "rounds" /\ MarkedRows(matrix) = Rows /\ result' = [i \in Rows |-> -1]
      /\ allocated' = {} /\ pos' = 0 /\ pc' = "search" /\ costs' = costs
      /\ matrix' = matrix
  BY DEF EndRounds
<1>2. Size \in Nat /\ Rows = Below(Size)
  BY CostsAreSquare DEF AllocInv, TypeOK
<1>3. Rows' = Rows /\ Size' = Size
  BY <1>1 DEF Rows, Size
<1>4. TypeOK'
  <2>1. -1 \in -1..(Size - 1) /\ 0 \in -1..Size
    BY <1>2
  <2>2. result' \in [Rows -> -1..(Size - 1)]
    BY <1>1, <2>1
  <2> QED
    BY <1>1, <1>3, <2>1, <2>2 DEF AllocInv, TypeOK
<1>5. NonNegative' /\ RoundsComeToNothing' /\ Hopeless'
  BY <1>1, <1>3 DEF AllocInv, NonNegative, RoundsComeToNothing, Hopeless, Reduced
<1>6. Placed'
  <2>1. \A k : k \notin 0..(0 - 1)
    OBVIOUS
  <2> QED
    BY <1>1, <1>3, <2>1 DEF Placed
<1>7. Complete'
  BY <1>1 DEF Complete
<1> QED
  BY <1>4, <1>5, <1>6, <1>7 DEF AllocInv

\* What the search leaves alone.
LEMMA SearchLeaves ==
  ASSUME AllocInv, pc = "search", costs' = costs, matrix' = matrix, pc' = pc
  PROVE  NonNegative' /\ RoundsComeToNothing' /\ Hopeless' /\ Complete'
<1>1. Rows' = Rows /\ Size' = Size
  BY DEF Rows, Size
<1> QED
  BY <1>1 DEF AllocInv, NonNegative, RoundsComeToNothing, Hopeless, Complete, Reduced

LEMMA SearchAt ==
  ASSUME AllocInv, pc = "search", pos \in Rows
  PROVE  /\ Size \in Nat /\ Rows = 0..(Size - 1) /\ pos \in Nat /\ pos < Size
         /\ result \in [Rows -> -1..(Size - 1)]
         /\ \A i \in 0..(pos - 1) : i \in Rows /\ i # pos
         /\ GivenBack \subseteq Rows
         /\ \A i \in 0..(pos - 1) : Apart(i) /\ result[i] \in GivenBack
<1>1. Size \in Nat /\ Rows = 0..(Size - 1)
  BY CostsAreSquare DEF AllocInv, TypeOK, Below
<1>2. pos \in Nat /\ pos < Size /\ \A i \in 0..(pos - 1) : i \in Rows /\ i # pos
  BY <1>1
<1>3. GivenBack \subseteq Rows
  BY DEF AllocInv, TypeOK, GivenBack
<1>4. \A i \in 0..(pos - 1) : Apart(i) /\ result[i] \in allocated /\ result[i] # result[pos]
  BY DEF AllocInv, Placed
<1>5. \A i \in 0..(pos - 1) : result[i] \in GivenBack
  BY <1>4 DEF GivenBack
<1> QED
  BY <1>1, <1>2, <1>3, <1>4, <1>5 DEF AllocInv, TypeOK

LEMMA PlaceKeeps == AllocInv /\ Place => AllocInv'
<1> SUFFICES ASSUME AllocInv, Place PROVE AllocInv'
  OBVIOUS
<1> DEFINE c == Min(ColumnsToTry)
<1>1. /\ pc = "search" /\ pos \in Rows /\ ColumnsToTry # {} /\ costs' = costs
      /\ matrix' = matrix /\ pc' = pc /\ result' = [result EXCEPT ![pos] = c]
      /\ allocated' = GivenBack \cup {c} /\ pos' = pos + 1
  BY DEF Place
<1>2. /\ Size \in Nat /\ Rows = 0..(Size - 1) /\ pos \in Nat /\ pos < Size
      /\ result \in [Rows -> -1..(Size - 1)]
      /\ \A i \in 0..(pos - 1) : i \in Rows /\ i # pos
      /\ GivenBack \subseteq Rows
      /\ \A i \in 0..(pos - 1) : Apart(i) /\ result[i] \in GivenBack
  BY <1>1, SearchAt
<1>3. c \in Rows /\ matrix[pos][c] = 0 /\ c \notin GivenBack
  <2>1. ColumnsToTry \subseteq Rows
    BY DEF ColumnsToTry, Further
  <2>2. IsFiniteSet(ColumnsToTry) /\ ColumnsToTry \subseteq Int
    <3>1. IsFiniteSet(Rows) /\ Rows \subseteq Int
      BY <1>2, FS_Interval
    <3> QED
      BY <2>1, <3>1, FS_Subset
  <2>3. c \in ColumnsToTry
    BY <1>1, <2>2, MinIsLeast
  <2> QED
    BY <2>3 DEF ColumnsToTry, Further, Candidates
<1> HIDE DEF c
<1>4. Rows' = Rows /\ Size' = Size
  BY <1>1 DEF Rows, Size
<1>5. /\ result'[pos] = c /\ \A i \in Rows : i # pos => result'[i] = result[i]
      /\ result' \in [Rows -> -1..(Size - 1)]
  BY <1>1, <1>2, <1>3
<1>6. pos' \in -1..Size
  BY <1>1, <1>2
<1>7. TypeOK'
  BY <1>1, <1>2, <1>3, <1>4, <1>5, <1>6 DEF AllocInv, TypeOK
<1>8. ASSUME NEW i \in 0..(pos - 1) PROVE Apart(i)' /\ result'[i] \in allocated'
  <2>1. i \in Rows /\ i # pos /\ Apart(i) /\ result[i] \in GivenBack
    BY <1>2
  <2>2. \A k \in 0..(i - 1) : k \in Rows /\ k # pos
    BY <1>2
  <2> QED
    BY <1>1, <1>4, <1>5, <2>1, <2>2 DEF Apart
<1>9. ASSUME NEW i, i = pos PROVE Apart(i)' /\ result'[i] \in allocated'
  <2>1. \A k \in 0..(pos - 1) : result'[k] # c
    BY <1>2, <1>3, <1>5
  <2> QED
    BY <1>1, <1>3, <1>4, <1>5, <1>9, <2>1 DEF Apart
<1>10. \A i \in 0..(pos' - 1) : Apart(i)' /\ result'[i] \in allocated'
  <2>1. \A i \in 0..(pos' - 1) : i \in 0..(pos - 1) \/ i = pos
    BY <1>1, <1>2
  <2> QED
    BY <1>8, <1>9, <2>1
<1>11. \A i \in Rows : i > pos' => result'[i] = -1
  <2>1. \A i \in Rows : i > pos' => i > pos /\ i # pos
    BY <1>1, <1>2
  <2> QED
    BY <1>1, <1>5, <2>1 DEF AllocInv, Placed
<1>12. pos' \in Rows => \A k \in 0..(pos' - 1) : result'[k] # result'[pos']
  <2> SUFFICES ASSUME pos' \in Rows, NEW k \in 0..(pos' - 1)
               PROVE  result'[k] # result'[pos']
    OBVIOUS
  <2>1. pos' > pos /\ pos' # pos
    BY <1>1, <1>2
  <2>2. result'[pos'] = -1
    BY <1>1, <1>5, <2>1 DEF AllocInv, Placed
  <2>3. result'[k] \in Rows
    BY <1>4, <1>10 DEF Apart
  <2>4. -1 \notin Rows
    BY <1>2
  <2> QED
    BY <2>2, <2>3, <2>4
<1>13. Placed'
  BY <1>4, <1>10, <1>11, <1>12 DEF Placed
<1> QED
  BY <1>1, <1>7, <1>13, SearchLeaves DEF AllocInv

LEMMA BacktrackKeeps == AllocInv /\ Backtrack => AllocInv'
<1> SUFFICES ASSUME AllocInv, Backtrack PROVE AllocInv'
  OBVIOUS
<1>1. /\ pc = "search" /\ pos \in Rows /\ costs' = costs
      /\ matrix' = matrix /\ pc' = pc /\ result' = [result EXCEPT ![pos] = -1]
      /\ allocated' = GivenBack /\ pos' = pos - 1
  BY DEF Backtrack, Unplaced
<1>2. /\ Size \in Nat /\ Rows = 0..(Size - 1) /\ pos \in Nat /\ pos < Size
      /\ result \in [Rows -> -1..(Size - 1)]
      /\ \A i \in 0..(pos - 1) : i \in Rows /\ i # pos
      /\ GivenBack \subseteq Rows
      /\ \A i \in 0..(pos - 1) : Apart(i) /\ result[i] \in GivenBack
  BY <1>1, SearchAt
<1>3. Rows' = Rows /\ Size' = Size
  BY <1>1 DEF Rows, Size
<1>4. /\ result'[pos] = -1 /\ \A i \in Rows : i # pos => result'[i] = result[i]
      /\ result' \in [Rows -> -1..(Size - 1)]
  <2>1. -1 \in -1..(Size - 1)
    BY <1>2
  <2> QED
    BY <1>1, <1>2, <2>1
<1>5. pos' \in -1..Size
  BY <1>1, <1>2
<1>6. TypeOK'
  BY <1>1, <1>2, <1>3, <1>4, <1>5 DEF AllocInv, TypeOK
<1>7. ASSUME NEW i \in 0..(pos - 1) PROVE Apart(i)' /\ result'[i] \in allocated'
  <2>1. i \in Rows /\ i # pos /\ Apart(i) /\ result[i] \in GivenBack
    BY <1>2
  <2>2. \A k \in 0..(i - 1) : k \in Rows /\ k # pos
    BY <1>2
  <2> QED
    BY <1>1, <1>3, <1>4, <2>1, <2>2 DEF Apart
<1>8. \A i \in 0..(pos' - 1) : i \in 0..(pos - 1)
  BY <1>1, <1>2
<1>9. \A i \in Rows : i > pos' => result'[i] = -1
  <2>1. \A i \in Rows : i > pos' => i > pos \/ i = pos
    BY <1>1, <1>2
  <2>2. \A i \in Rows : i > pos => result[i] = -1
    BY <1>1 DEF AllocInv, Placed
  <2> QED
    BY <1>4, <2>1, <2>2
<1>10. pos' \in Rows => \A k \in 0..(pos' - 1) : result'[k] # result'[pos']
  <2>1. pos' \in Rows => pos' \in 0..(pos - 1)
    BY <1>1, <1>2
  <2> QED
    BY <1>7, <2>1 DEF Apart
<1>11. Placed'
  BY <1>3, <1>7, <1>8, <1>9, <1>10 DEF Placed
<1> QED
  BY <1>1, <1>6, <1>11, SearchLeaves DEF AllocInv

LEMMA EndKeeps == AllocInv /\ (ThrowIndex \/ Return) => AllocInv'
<1> SUFFICES ASSUME AllocInv, ThrowIndex \/ Return PROVE AllocInv'
  OBVIOUS
<1>1. /\ pc = "search" /\ pc' \in {"broken", "returned"} /\ costs' = costs
      /\ matrix' = matrix /\ result' = result /\ allocated' = allocated /\ pos' = pos
      /\ pc' = "returned" => pos = Size
  BY DEF ThrowIndex, Return
<1>2. Rows' = Rows /\ Size' = Size
  BY <1>1 DEF Rows, Size
<1>3. TypeOK' /\ NonNegative' /\ RoundsComeToNothing' /\ Hopeless'
  BY <1>1, <1>2
     DEF AllocInv, TypeOK, NonNegative, RoundsComeToNothing, Hopeless, Reduced
<1>4. Placed'
  BY <1>1 DEF Placed
<1>5. Complete'
  <2>1. Rows = 0..(Size - 1)
    BY CostsAreSquare DEF AllocInv, TypeOK, Below
  <2>2. pos = Size => \A i \in Rows : Apart(i)
    BY <1>1, <2>1 DEF AllocInv, Placed
  <2>3. \A i : Apart(i)' <=> Apart(i)
    BY <1>1, <1>2 DEF Apart
  <2> QED
    BY <1>1, <1>2, <2>2, <2>3 DEF Complete
<1> QED
  BY <1>3, <1>4, <1>5 DEF AllocInv

LEMMA AllocationSteps == AllocInv /\ [Next]_vars => AllocInv'
<1> SUFFICES ASSUME AllocInv, [Next]_vars PROVE AllocInv'
  OBVIOUS
<1>1. CASE Next
  BY <1>1, ReduceKeeps, RoundKeeps, RoundsEnd, PlaceKeeps, BacktrackKeeps, EndKeeps
     DEF Next, SearchStep
<1>2. CASE UNCHANGED vars
  <2>1. /\ costs' = costs /\ matrix' = matrix /\ pc' = pc /\ result' = result
        /\ allocated' = allocated /\ pos' = pos
    BY <1>2 DEF vars
  <2>2. Rows' = Rows /\ Size' = Size /\ Reduced' = Reduced
    BY <2>1 DEF Rows, Size, Reduced
  <2>3. \A i : Apart(i)' <=> Apart(i)
    BY <2>1, <2>2 DEF Apart
  <2>4. TypeOK' /\ NonNegative' /\ RoundsComeToNothing' /\ Hopeless'
    BY <2>1, <2>2
       DEF AllocInv, TypeOK, NonNegative, RoundsComeToNothing, Hopeless, Reduced
  <2>5. Placed' /\ Complete'
    BY <2>1, <2>2, <2>3 DEF AllocInv, Placed, Complete
  <2> QED
    BY <2>4, <2>5 DEF AllocInv
<1> QED
  BY <1>1, <1>2

\* What the invariant says of the search and of what is returned.
LEMMA AllocationSound == AllocInv => PartialAllocation /\ Optimal
<1> SUFFICES ASSUME AllocInv PROVE PartialAllocation /\ Optimal
  OBVIOUS
<1>1. PartialAllocation
  BY DEF AllocInv, Placed, Apart, PartialAllocation
<1>2. ASSUME pc = "returned" PROVE result \in Permutations
  <2>1. Size \in Nat /\ Rows = 0..(Size - 1) /\ result \in [Rows -> -1..(Size - 1)]
    BY CostsAreSquare DEF AllocInv, TypeOK, Below
  <2>2. \A i \in Rows : Apart(i)
    BY <1>2 DEF AllocInv, Complete
  <2>3. \A i \in Rows : result[i] \in Rows
    BY <2>2 DEF Apart
  <2>4. ASSUME NEW i \in Rows, NEW k \in Rows, result[i] = result[k], i # k PROVE FALSE
    <3>1. k \in 0..(i - 1) \/ i \in 0..(k - 1)
      BY <2>1, <2>4
    <3> QED
      BY <2>2, <2>4, <3>1 DEF Apart
  <2>5. result \in [Rows -> Rows]
    BY <2>1, <2>3
  <2> QED
    BY <2>4, <2>5 DEF Permutations
<1>3. ASSUME pc = "returned", NEW f \in Permutations PROVE Cost(result) <= Cost(f)
  <2> DEFINE n == Size
  <2>1. n \in Nat /\ Rows = Below(n) /\ costs \in Squares(n)
    BY CostsAreSquare DEF AllocInv, TypeOK
  <2>2. \A h \in Permutations : Permuting(n, h) /\ Cost(h) = CostIn(n, costs, h)
    BY <2>1 DEF Permutations, Permuting, Cost, CostIn, Total
  <2>3. \A i \in Below(n) : ColumnsReduced(RowsReduced(costs))[i][result[i]] = 0
    BY <1>3, <2>1 DEF AllocInv, Complete, Apart, RoundsComeToNothing
  <2> HIDE DEF n
  <2>4. CostIn(n, costs, result) <= CostIn(n, costs, f)
    BY <1>2, <1>3, <2>1, <2>2, <2>3, ZerosCostLeast
  <2> QED
    BY <1>2, <1>3, <2>2, <2>4
<1> QED
  BY <1>1, <1>2, <1>3 DEF Optimal

-----------------------------------------------------------------------------
(* Sequences *)

LEMMA LastOfSequence ==
  ASSUME NEW S, NEW s \in Seq(S), s # <<>>
  PROVE  Len(s) \in Nat \ {0} /\ s[Len(s)] \in S
<1>1. Len(s) \in Nat \ {0}
  OBVIOUS
<1> QED
  BY <1>1

LEMMA StaysIncreasing ==
  ASSUME NEW S, S \subseteq Nat, NEW s \in Seq(S), NEW e \in S,
         \A i, j \in 1..Len(s) : i < j => s[i] < s[j],
         s # <<>> => s[Len(s)] < e
  PROVE  \A i, j \in 1..Len(Append(s, e)) : i < j => Append(s, e)[i] < Append(s, e)[j]
<1> DEFINE t == Append(s, e)
<1>1. /\ Len(t) = Len(s) + 1 /\ t[Len(s) + 1] = e
      /\ \A i \in 1..Len(s) : t[i] = s[i]
  BY AppendProperties
<1>2. Len(s) \in Nat /\ e \in Nat /\ \A i \in 1..Len(s) : s[i] \in Nat
  <2>1. Len(s) \in Nat /\ \A i \in 1..Len(s) : s[i] \in S
    OBVIOUS
  <2>2. \A x \in S : x \in Nat
    OBVIOUS
  <2> QED
    BY <2>1, <2>2
<1> HIDE DEF t
<1> SUFFICES ASSUME NEW i \in 1..Len(t), NEW j \in 1..Len(t), i < j
             PROVE  t[i] < t[j]
  BY DEF t
<1>3. CASE j \in 1..Len(s)
  BY <1>1, <1>2, <1>3
<1>4. CASE j = Len(s) + 1
  <2>1. i \in 1..Len(s) /\ Len(s) \in 1..Len(s) /\ s # <<>>
    BY <1>1, <1>2, <1>4
  <2>2. s[i] = s[Len(s)] \/ s[i] < s[Len(s)]
    BY <1>2, <2>1
  <2> QED
    BY <1>1, <1>2, <1>4, <2>1, <2>2
<1> QED
  BY <1>1, <1>2, <1>3, <1>4

-----------------------------------------------------------------------------
(* The ring, with any number of messages *)

\* Puts of the rounds before this one.
Earlier == slotPuts - slotPut

\* The slots before putptr hold the messages of this round, the others those of
\* the last round, or nothing in the first one.
SlotsFilled ==
  /\ Earlier = 0 \/ Earlier >= RingSlots
  /\ \A k \in 0..(RingSlots - 1) :
       slots[k] = IF k < slotPut THEN Earlier + k + 1
                  ELSE IF Earlier = 0 THEN 0 ELSE Earlier - RingSlots + k + 1

\* In the first round nobody is past putptr.
NobodyAhead ==
  Earlier = 0 => /\ slotTake <= slotPut
                 /\ \A r \in RingReaders : slotLocal[r] # NoPosition => slotLocal[r] <= slotPut

\* A reader has taken one message from each slot before its position at most,
\* and what is in the last of them now is not older.
TakenBehind ==
  \A r \in RingReaders : slotTaken[r] # <<>> =>
    /\ slotLocal[r] # NoPosition /\ slotLocal[r] >= Len(slotTaken[r])
    /\ slotTaken[r][Len(slotTaken[r])] <= slots[slotLocal[r] - 1]

RingInv ==
  /\ Ring!TypeOK /\ SlotsFilled /\ NobodyAhead /\ TakenBehind /\ Ring!NeverOlder
  /\ DOMAIN slotTaken = RingReaders

LEMMA RingStarts == Ring!Init => RingInv
<1> SUFFICES ASSUME Ring!Init PROVE RingInv
  OBVIOUS
<1>1. RingSlots \in Nat /\ RingSlots > 1 /\ RingPuts \in Nat /\ NoPosition \notin Nat
  BY ServicesAssumption DEF Ring!MeshAssumption
<1>2. \A r \in RingReaders : slotTaken[r] = <<>> /\ slotLocal[r] = NoPosition
  BY DEF Ring!Init
<1>3. Ring!TypeOK
  BY <1>1, <1>2 DEF Ring!Init, Ring!TypeOK
<1>4. SlotsFilled /\ NobodyAhead
  BY <1>1, <1>2 DEF Ring!Init, SlotsFilled, NobodyAhead, Earlier
<1>5. TakenBehind /\ Ring!NeverOlder /\ DOMAIN slotTaken = RingReaders
  BY <1>2 DEF TakenBehind, Ring!NeverOlder, Ring!Init
<1> QED
  BY <1>3, <1>4, <1>5 DEF RingInv

LEMMA RingPut ==
  ASSUME RingInv, NEW w \in Writers, Ring!Put(w)
  PROVE  RingInv'
<1>1. RingSlots \in Nat /\ RingSlots > 1 /\ RingPuts \in Nat /\ NoPosition \notin Nat
  BY ServicesAssumption DEF Ring!MeshAssumption
<1>2. /\ slots \in [0..(RingSlots - 1) -> 0..RingPuts] /\ slotPut \in 0..(RingSlots - 1)
      /\ slotTake \in 0..(RingSlots - 1)
      /\ slotLocal \in [RingReaders -> 0..RingSlots \cup {NoPosition}]
      /\ slotPuts \in 0..RingPuts
      /\ \A r \in RingReaders : slotTaken[r] \in Seq(1..RingPuts)
  BY DEF RingInv, Ring!TypeOK
<1>3. /\ slotPuts < RingPuts /\ slotPuts' = slotPuts + 1
      /\ slots' = [slots EXCEPT ![slotPut] = slotPuts + 1]
      /\ slotPut' = IF slotPut + 1 = RingSlots THEN 0 ELSE slotPut + 1
      /\ slotTake' = slotTake /\ slotLocal' = slotLocal /\ slotTaken' = slotTaken
  BY DEF Ring!Put, Ring!NextPut
<1>4. slotPc' \in [RingReaders -> {"out", "await", "woken", "dead"}]
  BY DEF Ring!Put, Ring!SignalAll, RingInv, Ring!TypeOK
<1>5. Ring!TypeOK'
  BY <1>1, <1>2, <1>3, <1>4 DEF Ring!TypeOK
<1>6. \A k \in 0..(RingSlots - 1) :
         slots'[k] = IF k = slotPut THEN slotPuts + 1 ELSE slots[k]
  BY <1>2, <1>3
<1>11. /\ Earlier \in Int /\ (Earlier = 0 \/ Earlier >= RingSlots)
       /\ slotPuts = Earlier + slotPut
       /\ \A k \in 0..(RingSlots - 1) :
            slots[k] = IF k < slotPut THEN Earlier + k + 1
                       ELSE IF Earlier = 0 THEN 0 ELSE Earlier - RingSlots + k + 1
  BY <1>2 DEF RingInv, SlotsFilled, Earlier
<1>12. SlotsFilled'
  <2>1. /\ Earlier' \in Int /\ (Earlier' = 0 \/ Earlier' >= RingSlots)
        /\ IF slotPut + 1 = RingSlots
           THEN Earlier' = Earlier + RingSlots /\ slotPut' = 0
           ELSE Earlier' = Earlier /\ slotPut' = slotPut + 1
    BY <1>1, <1>2, <1>3, <1>11 DEF Earlier
  <2>2. \A k \in 0..(RingSlots - 1) :
           slots'[k] = IF k < slotPut' THEN Earlier' + k + 1
                       ELSE IF Earlier' = 0 THEN 0 ELSE Earlier' - RingSlots + k + 1
    <3> DEFINE e == Earlier  f == Earlier'
    <3>1. /\ e \in Int /\ f \in Int /\ slotPuts = e + slotPut /\ (e = 0 \/ e >= RingSlots)
          /\ IF slotPut + 1 = RingSlots THEN f = e + RingSlots /\ slotPut' = 0
             ELSE f = e /\ slotPut' = slotPut + 1
      BY <1>11, <2>1
    <3>2. \A k \in 0..(RingSlots - 1) :
             slots[k] = IF k < slotPut THEN e + k + 1
                        ELSE IF e = 0 THEN 0 ELSE e - RingSlots + k + 1
      BY <1>11
    <3> HIDE DEF e, f
    <3>3. ASSUME NEW k \in 0..(RingSlots - 1)
          PROVE  slots'[k] = IF k < slotPut' THEN f + k + 1
                             ELSE IF f = 0 THEN 0 ELSE f - RingSlots + k + 1
      <4>1. CASE k = slotPut
        <5>1. slots'[k] = e + k + 1
          BY <1>2, <1>6, <3>1, <4>1
        <5>2. CASE slotPut + 1 = RingSlots
          BY <1>1, <3>1, <4>1, <5>1, <5>2
        <5>3. CASE slotPut + 1 # RingSlots
          BY <1>2, <3>1, <4>1, <5>1, <5>3
        <5> QED
          BY <5>2, <5>3
      <4>2. CASE k # slotPut /\ slotPut + 1 = RingSlots
        <5>1. k < slotPut /\ f = e + RingSlots /\ slotPut' = 0 /\ f # 0
          BY <1>1, <1>2, <3>1, <4>2
        <5>2. slots'[k] = e + k + 1
          BY <1>6, <3>2, <4>2, <5>1
        <5> QED
          BY <1>1, <3>1, <5>1, <5>2
      <4>3. CASE k # slotPut /\ slotPut + 1 # RingSlots
        <5>1. f = e /\ slotPut' = slotPut + 1
          BY <3>1, <4>3
        <5>2. slots'[k] = IF k < slotPut THEN e + k + 1
                          ELSE IF e = 0 THEN 0 ELSE e - RingSlots + k + 1
          BY <1>6, <3>2, <4>3
        <5>3. (k < slotPut) <=> (k < slotPut')
          BY <1>2, <4>3, <5>1
        <5> QED
          BY <5>1, <5>2, <5>3
      <4> QED
        BY <4>1, <4>2, <4>3
    <3> QED
      BY <3>3 DEF e, f
  <2> QED
    BY <2>1, <2>2 DEF SlotsFilled
<1>7. NobodyAhead'
  BY <1>1, <1>2, <1>3 DEF RingInv, NobodyAhead, SlotsFilled, Earlier
<1>8. \A k \in 0..(RingSlots - 1) : slots[k] <= slots'[k]
  <2> SUFFICES ASSUME NEW k \in 0..(RingSlots - 1), k = slotPut
               PROVE  slots[k] <= slotPuts + 1
    BY <1>2, <1>6
  <2> HIDE DEF Earlier
  <2> QED
    BY <1>1, <1>2, <1>11
<1>9. TakenBehind'
  <2> SUFFICES ASSUME NEW r \in RingReaders, slotTaken[r] # <<>>
               PROVE  /\ slotLocal[r] # NoPosition /\ slotLocal[r] >= Len(slotTaken[r])
                      /\ slotTaken[r][Len(slotTaken[r])] <= slots'[slotLocal[r] - 1]
    BY <1>3 DEF TakenBehind
  <2>1. /\ slotLocal[r] # NoPosition /\ slotLocal[r] >= Len(slotTaken[r])
        /\ slotTaken[r][Len(slotTaken[r])] <= slots[slotLocal[r] - 1]
    BY DEF RingInv, TakenBehind
  <2>2. Len(slotTaken[r]) \in Nat \ {0} /\ slotTaken[r][Len(slotTaken[r])] \in 1..RingPuts
    BY <1>2, LastOfSequence
  <2>3. slotLocal[r] \in 0..RingSlots
    BY <1>2, <2>1
  <2>4. slotLocal[r] - 1 \in 0..(RingSlots - 1)
    BY <1>1, <2>1, <2>2, <2>3
  <2>5. slots[slotLocal[r] - 1] \in Nat /\ slots'[slotLocal[r] - 1] \in Nat
    BY <1>1, <1>2, <1>3, <2>4
  <2> QED
    BY <1>8, <2>1, <2>2, <2>4, <2>5
<1>10. Ring!NeverOlder' /\ DOMAIN slotTaken' = RingReaders
  BY <1>3 DEF RingInv, Ring!NeverOlder
<1> QED
  BY <1>5, <1>7, <1>9, <1>10, <1>12 DEF RingInv

LEMMA RingTake ==
  ASSUME RingInv, NEW r \in RingReaders, Ring!Take(r)
  PROVE  RingInv'
<1>1. RingSlots \in Nat /\ RingSlots > 1 /\ RingPuts \in Nat /\ NoPosition \notin Nat
  BY ServicesAssumption DEF Ring!MeshAssumption
<1>2. /\ slots \in [0..(RingSlots - 1) -> 0..RingPuts] /\ slotPut \in 0..(RingSlots - 1)
      /\ slotTake \in 0..(RingSlots - 1)
      /\ slotLocal \in [RingReaders -> 0..RingSlots \cup {NoPosition}]
      /\ slotPuts \in 0..RingPuts
      /\ \A q \in RingReaders : slotTaken[q] \in Seq(1..RingPuts)
      /\ slotPc \in [RingReaders -> {"out", "await", "woken", "dead"}]
      /\ DOMAIN slotTaken = RingReaders
  BY DEF RingInv, Ring!TypeOK
<1>3. slots' = slots /\ slotPut' = slotPut /\ slotPuts' = slotPuts
  BY DEF Ring!Take
<1>4. SlotsFilled'
  BY <1>3 DEF RingInv, SlotsFilled, Earlier
<1> DEFINE p == Ring!PositionOf(r)
<1>5. p \in 0..RingSlots
  BY <1>1, <1>2 DEF Ring!PositionOf
<1>6. Earlier = 0 => p <= slotPut
  BY DEF Ring!PositionOf, RingInv, NobodyAhead
<1>7. slotTaken[r] # <<>> => p = slotLocal[r] /\ p >= Len(slotTaken[r]) /\ p # 0
                             /\ slotTaken[r][Len(slotTaken[r])] <= slots[p - 1]
  <2> SUFFICES ASSUME slotTaken[r] # <<>>
               PROVE  p = slotLocal[r] /\ p >= Len(slotTaken[r]) /\ p # 0
                      /\ slotTaken[r][Len(slotTaken[r])] <= slots[p - 1]
    OBVIOUS
  <2>1. p = slotLocal[r] /\ p >= Len(slotTaken[r])
        /\ slotTaken[r][Len(slotTaken[r])] <= slots[p - 1]
    BY DEF RingInv, TakenBehind, Ring!PositionOf
  <2>2. Len(slotTaken[r]) \in Nat \ {0}
    BY <1>2, LastOfSequence
  <2> QED
    BY <1>5, <2>1, <2>2
<1> HIDE DEF p
<1>8. CASE p = slotPut
  <2>1. /\ slotLocal' = [slotLocal EXCEPT ![r] = p] /\ slotPc' = [slotPc EXCEPT ![r] = "await"]
        /\ slotTake' = slotTake /\ slotTaken' = slotTaken
    BY <1>8 DEF Ring!Take, Ring!Await, Ring!Empty, p
  <2>2. Ring!TypeOK'
    BY <1>1, <1>2, <1>3, <1>5, <2>1 DEF Ring!TypeOK
  <2>3. NobodyAhead'
    BY <1>2, <1>3, <1>6, <2>1 DEF NobodyAhead, RingInv, Earlier
  <2>4. TakenBehind'
    BY <1>1, <1>2, <1>3, <1>5, <1>7, <2>1 DEF TakenBehind, RingInv
  <2>5. Ring!NeverOlder' /\ DOMAIN slotTaken' = RingReaders
    BY <2>1 DEF Ring!NeverOlder, RingInv
  <2> QED
    BY <1>4, <2>2, <2>3, <2>4, <2>5 DEF RingInv
<1>9. CASE p # slotPut /\ p \notin DOMAIN slots
  <2>1. /\ slotLocal' = slotLocal /\ slotPc' = [slotPc EXCEPT ![r] = "dead"]
        /\ slotTake' = slotTake /\ slotTaken' = slotTaken
    BY <1>9 DEF Ring!Take, Ring!Throw, Ring!Empty, p
  <2>2. Ring!TypeOK'
    BY <1>1, <1>2, <1>3, <2>1 DEF Ring!TypeOK
  <2>3. NobodyAhead' /\ TakenBehind' /\ Ring!NeverOlder' /\ DOMAIN slotTaken' = RingReaders
    BY <1>3, <2>1 DEF NobodyAhead, RingInv, Earlier, TakenBehind, Ring!NeverOlder
  <2> QED
    BY <1>4, <2>2, <2>3 DEF RingInv
<1>10. CASE p # slotPut /\ p \in DOMAIN slots
  <2>1. /\ slotTaken' = [slotTaken EXCEPT ![r] = Append(@, slots[p])]
        /\ slotTake' = Ring!TakeptrAfter(p, p + 1)
        /\ slotLocal' = [slotLocal EXCEPT ![r] = p + 1]
        /\ slotPc' = [slotPc EXCEPT ![r] = "out"]
    BY <1>10 DEF Ring!Take, Ring!TakeItem, Ring!Empty, Ring!ItemAt, p
  <2>2. p \in 0..(RingSlots - 1)
    BY <1>2, <1>10
  <2>3. /\ Earlier \in Int /\ (Earlier = 0 \/ Earlier >= RingSlots)
        /\ slotPuts = Earlier + slotPut
        /\ \A k \in 0..(RingSlots - 1) :
              slots[k] = IF k < slotPut THEN Earlier + k + 1
                         ELSE IF Earlier = 0 THEN 0 ELSE Earlier - RingSlots + k + 1
    BY <1>2 DEF RingInv, SlotsFilled, Earlier
  <2>4. /\ p < slotPut => slots[p] = Earlier + p + 1
        /\ p > slotPut => Earlier # 0 /\ slots[p] = Earlier - RingSlots + p + 1
    BY <1>1, <1>2, <1>6, <2>2, <2>3
  <2>5. slots[p] \in 1..RingPuts
    <3>1. slots[p] \in 0..RingPuts
      BY <1>2, <2>2
    <3> QED
      BY <1>1, <1>2, <1>10, <2>2, <2>3, <2>4, <3>1
  <2>6. p # 0 => slots[p] = slots[p - 1] + 1
    <3> SUFFICES ASSUME p # 0 PROVE slots[p] = slots[p - 1] + 1
      OBVIOUS
    <3>1. p - 1 \in 0..(RingSlots - 1)
      BY <1>1, <2>2
    <3>2. /\ p - 1 < slotPut => slots[p - 1] = Earlier + (p - 1) + 1
          /\ ~(p - 1 < slotPut) /\ Earlier # 0
                => slots[p - 1] = Earlier - RingSlots + (p - 1) + 1
      BY <2>3, <3>1
    <3>3. CASE p < slotPut
      BY <1>1, <1>2, <2>2, <2>3, <2>4, <3>2, <3>3
    <3>4. CASE p > slotPut
      BY <1>1, <1>2, <2>2, <2>3, <2>4, <3>2, <3>4
    <3> QED
      BY <1>2, <1>10, <2>2, <3>3, <3>4
  <2>7. slotTake' \in 0..(RingSlots - 1) /\ (Earlier = 0 => slotTake' <= slotPut)
    BY <1>1, <1>2, <1>6, <1>10, <2>1, <2>2 DEF Ring!TakeptrAfter, RingInv, NobodyAhead
  <2>8. /\ slotTaken'[r] \in Seq(1..RingPuts) /\ slotTaken'[r] = Append(slotTaken[r], slots[p])
        /\ Len(slotTaken'[r]) = Len(slotTaken[r]) + 1
        /\ slotTaken'[r][Len(slotTaken'[r])] = slots[p]
    <3>1. slotTaken'[r] = Append(slotTaken[r], slots[p])
      BY <1>2, <2>1
    <3>2. slotTaken[r] \in Seq(1..RingPuts)
      BY <1>2
    <3> QED
      BY <2>5, <3>1, <3>2, AppendProperties
  <2>9. \A q \in RingReaders : q # r => slotTaken'[q] = slotTaken[q] /\ slotLocal'[q] = slotLocal[q]
    BY <1>2, <2>1
  <2>10. slotLocal'[r] = p + 1 /\ DOMAIN slotTaken' = RingReaders
    BY <1>2, <2>1
  <2>11. Ring!TypeOK'
    <3>1. slotLocal' \in [RingReaders -> 0..RingSlots \cup {NoPosition}]
      BY <1>1, <1>2, <2>1, <2>2
    <3>2. slotPc' \in [RingReaders -> {"out", "await", "woken", "dead"}]
      BY <1>2, <2>1
    <3>3. \A q \in RingReaders : slotTaken'[q] \in Seq(1..RingPuts)
      BY <1>2, <2>8, <2>9
    <3> QED
      BY <1>2, <1>3, <2>7, <3>1, <3>2, <3>3 DEF Ring!TypeOK
  <2>12. NobodyAhead'
    <3> SUFFICES ASSUME Earlier = 0
                 PROVE  \A q \in RingReaders : slotLocal'[q] # NoPosition
                                                 => slotLocal'[q] <= slotPut
      BY <1>3, <2>7 DEF NobodyAhead, Earlier
    <3>1. p + 1 <= slotPut
      BY <1>2, <1>6, <1>10, <2>2
    <3> QED
      BY <2>9, <2>10, <3>1 DEF RingInv, NobodyAhead
  <2>13. TakenBehind'
    <3> SUFFICES ASSUME NEW q \in RingReaders, slotTaken'[q] # <<>>
                 PROVE  /\ slotLocal'[q] # NoPosition /\ slotLocal'[q] >= Len(slotTaken'[q])
                        /\ slotTaken'[q][Len(slotTaken'[q])] <= slots[slotLocal'[q] - 1]
      BY <1>3 DEF TakenBehind
    <3>1. CASE q = r
      <4>1. p + 1 # NoPosition /\ p + 1 >= Len(slotTaken[r]) + 1
        <5>1. slotTaken[r] = <<>> => Len(slotTaken[r]) = 0
          OBVIOUS
        <5>2. Len(slotTaken[r]) \in Nat
          BY <1>2
        <5> QED
          BY <1>1, <1>7, <2>2, <5>1, <5>2
      <4>2. slots[p] <= slots[(p + 1) - 1]
        BY <2>2, <2>5
      <4> QED
        BY <2>8, <2>10, <3>1, <4>1, <4>2
    <3>2. CASE q # r
      BY <2>9, <3>2 DEF RingInv, TakenBehind
    <3> QED
      BY <3>1, <3>2
  <2>14. Ring!NeverOlder'
    <3> SUFFICES ASSUME NEW q \in RingReaders
                 PROVE  \A i, j \in 1..Len(slotTaken'[q]) :
                           i < j => slotTaken'[q][i] < slotTaken'[q][j]
      BY DEF Ring!NeverOlder
    <3>1. CASE q = r
      <4>1. slotTaken[r] # <<>> => slotTaken[r][Len(slotTaken[r])] < slots[p]
        <5> SUFFICES ASSUME slotTaken[r] # <<>>
                     PROVE  slotTaken[r][Len(slotTaken[r])] < slots[p]
          OBVIOUS
        <5>1. slotTaken[r][Len(slotTaken[r])] \in 1..RingPuts
          BY <1>2, LastOfSequence
        <5>2. slots[p - 1] \in 0..RingPuts
          <6>1. p # 0 /\ p \in 0..(RingSlots - 1)
            BY <1>7, <2>2
          <6>2. p - 1 \in 0..(RingSlots - 1)
            BY <1>1, <6>1
          <6> QED
            BY <1>2, <6>2
        <5>3. p # 0 /\ slotTaken[r][Len(slotTaken[r])] <= slots[p - 1]
          BY <1>7
        <5>4. slots[p] = slots[p - 1] + 1
          BY <2>6, <5>3
        <5>5. slotTaken[r][Len(slotTaken[r])] \in Int /\ slots[p - 1] \in Int
          <6>1. \A m : m \in 0..RingPuts \/ m \in 1..RingPuts => m \in Int
            OBVIOUS
          <6> QED
            BY <5>1, <5>2, <6>1
        <5> DEFINE last == slotTaken[r][Len(slotTaken[r])]  below == slots[p - 1]
        <5>6. last \in Int /\ below \in Int /\ last <= below /\ slots[p] = below + 1
          BY <5>3, <5>4, <5>5
        <5> HIDE DEF last, below
        <5>7. last < slots[p]
          BY <5>6
        <5> QED
          BY <5>7 DEF last
      <4>2. 1..RingPuts \subseteq Nat /\ slotTaken[r] \in Seq(1..RingPuts)
        BY <1>2
      <4>3. \A i, j \in 1..Len(slotTaken[r]) : i < j => slotTaken[r][i] < slotTaken[r][j]
        BY DEF RingInv, Ring!NeverOlder
      <4> QED
        BY <2>5, <2>8, <3>1, <4>1, <4>2, <4>3, StaysIncreasing
    <3>2. CASE q # r
      BY <2>9, <3>2 DEF RingInv, Ring!NeverOlder
    <3> QED
      BY <3>1, <3>2
  <2> QED
    BY <1>4, <2>10, <2>11, <2>12, <2>13, <2>14 DEF RingInv
<1> QED
  BY <1>8, <1>9, <1>10

LEMMA RingSound ==
  Ring!Spec => [](Ring!TypeOK /\ Ring!NeverOlder /\ Ring!OneRound)
<1>1. RingInv /\ [Ring!Next]_(Ring!vars) => RingInv'
  <2> SUFFICES ASSUME RingInv, [Ring!Next]_(Ring!vars) PROVE RingInv'
    OBVIOUS
  <2>1. ASSUME NEW r \in RingReaders, Ring!Timeout(r) PROVE RingInv'
    BY <2>1 DEF Ring!Timeout, RingInv, Ring!TypeOK, SlotsFilled, Earlier, NobodyAhead,
                TakenBehind, Ring!NeverOlder
  <2>2. CASE UNCHANGED Ring!vars
    BY <2>2 DEF Ring!vars, RingInv, Ring!TypeOK, SlotsFilled, Earlier, NobodyAhead,
                TakenBehind, Ring!NeverOlder
  <2> QED
    BY <2>1, <2>2, RingPut, RingTake DEF Ring!Next
<1>2. RingInv => Ring!TypeOK /\ Ring!NeverOlder /\ Ring!OneRound
  <2> SUFFICES ASSUME RingInv, NEW r \in RingReaders PROVE Len(slotTaken[r]) <= RingSlots
    BY DEF RingInv, Ring!OneRound
  <2>1. RingSlots \in Nat /\ NoPosition \notin Nat
    BY ServicesAssumption DEF Ring!MeshAssumption
  <2>2. slotLocal \in [RingReaders -> 0..RingSlots \cup {NoPosition}]
        /\ slotTaken[r] \in Seq(1..RingPuts)
    BY DEF RingInv, Ring!TypeOK
  <2>3. CASE slotTaken[r] = <<>>
    BY <2>1, <2>3
  <2>4. CASE slotTaken[r] # <<>>
    <3>1. slotLocal[r] # NoPosition /\ slotLocal[r] >= Len(slotTaken[r])
      BY <2>4 DEF RingInv, TakenBehind
    <3>2. Len(slotTaken[r]) \in Nat
      BY <2>2
    <3> QED
      BY <2>1, <2>2, <3>1, <3>2
  <2> QED
    BY <2>3, <2>4
<1> QED
  BY <1>1, <1>2, RingStarts, PTL DEF Ring!Spec

-----------------------------------------------------------------------------
(* The ring that is never full *)

Walkers == {r \in MeshReaders : local[r] # NoPosition}

\* Nothing wraps, and takeptr is where the most advanced reader stands.
MeshInv ==
  /\ Mesh!TypeOK /\ putptr = puts
  /\ \A k \in 0..(MeshSlots - 1) : items[k] = IF k < puts THEN k + 1 ELSE 0
  /\ takeptr <= puts
  /\ \A r \in Walkers : local[r] <= takeptr
  /\ Walkers = {} => takeptr = 0
  /\ Walkers # {} => \E r \in Walkers : local[r] = takeptr
  /\ Mesh!ReadsWhatWasSent /\ DOMAIN taken = MeshReaders

LEMMA MeshConstants ==
  /\ MeshSlots \in Nat /\ MeshSlots > 1 /\ MeshPuts \in Nat /\ MeshPuts < MeshSlots
  /\ NoPosition \notin Nat
BY ServicesAssumption DEF Mesh!MeshAssumption

LEMMA MeshTypes ==
  ASSUME MeshInv
  PROVE  /\ items \in [0..(MeshSlots - 1) -> 0..MeshPuts] /\ putptr = puts
         /\ takeptr \in 0..puts /\ puts \in 0..MeshPuts
         /\ local \in [MeshReaders -> 0..MeshSlots \cup {NoPosition}]
         /\ readerPc \in [MeshReaders -> {"out", "await", "woken", "dead"}]
         /\ \A r \in MeshReaders : taken[r] \in Seq(1..MeshPuts)
         /\ DOMAIN taken = MeshReaders
BY MeshConstants DEF MeshInv, Mesh!TypeOK

LEMMA MeshStarts == Mesh!Init => MeshInv
<1> SUFFICES ASSUME Mesh!Init PROVE MeshInv
  OBVIOUS
<1>1. \A r \in MeshReaders : taken[r] = <<>> /\ local[r] = NoPosition
  BY DEF Mesh!Init
<1>2. Mesh!TypeOK
  BY <1>1, MeshConstants DEF Mesh!Init, Mesh!TypeOK
<1>3. Walkers = {}
  BY <1>1 DEF Walkers
<1>4. Mesh!ReadsWhatWasSent
  BY <1>1 DEF Mesh!ReadsWhatWasSent
<1> QED
  BY <1>2, <1>3, <1>4, MeshConstants DEF Mesh!Init, MeshInv

LEMMA MeshPut ==
  ASSUME MeshInv, NEW w \in Writers, Mesh!Put(w)
  PROVE  MeshInv'
<1>1. /\ puts < MeshPuts /\ puts' = puts + 1
      /\ items' = [items EXCEPT ![putptr] = puts + 1]
      /\ putptr' = IF putptr + 1 = MeshSlots THEN 0 ELSE putptr + 1
      /\ takeptr' = takeptr /\ local' = local /\ taken' = taken
  BY DEF Mesh!Put, Mesh!NextPut
<1>2. readerPc' \in [MeshReaders -> {"out", "await", "woken", "dead"}]
  BY MeshTypes DEF Mesh!Put, Mesh!SignalAll
<1>3. putptr' = puts'
  BY <1>1, MeshTypes, MeshConstants
<1>4. Mesh!TypeOK'
  BY <1>1, <1>2, <1>3, MeshTypes, MeshConstants DEF Mesh!TypeOK
<1>5. \A k \in 0..(MeshSlots - 1) : items'[k] = IF k < puts' THEN k + 1 ELSE 0
  <2> SUFFICES ASSUME NEW k \in 0..(MeshSlots - 1)
               PROVE  items'[k] = IF k < puts' THEN k + 1 ELSE 0
    OBVIOUS
  <2>1. putptr = puts /\ puts \in Nat /\ k \in Int /\ puts' = puts + 1
    BY <1>1, MeshTypes, MeshConstants
  <2>2. items[k] = IF k < puts THEN k + 1 ELSE 0
    BY DEF MeshInv
  <2>3. items'[k] = IF k = puts THEN puts + 1 ELSE items[k]
    <3>1. items \in [0..(MeshSlots - 1) -> 0..MeshPuts]
      BY MeshTypes
    <3> QED
      BY <1>1, <2>1, <3>1
  <2> QED
    BY <2>1, <2>2, <2>3
<1>6. takeptr' <= puts'
  BY <1>1, MeshTypes, MeshConstants
<1>7. Walkers' = Walkers
  BY <1>1 DEF Walkers
<1>8. Mesh!ReadsWhatWasSent'
  BY <1>1 DEF MeshInv, Mesh!ReadsWhatWasSent
<1> QED
  BY <1>1, <1>3, <1>4, <1>5, <1>6, <1>7, <1>8 DEF MeshInv

\* Where a reader takes, a message is, which has the number of the next.
LEMMA MeshPosition ==
  ASSUME MeshInv, NEW r \in MeshReaders
  PROVE  /\ Mesh!PositionOf(r) \in 0..takeptr
         /\ ~Mesh!Empty(Mesh!PositionOf(r)) =>
              /\ Mesh!PositionOf(r) < puts /\ Mesh!PositionOf(r) \in DOMAIN items
              /\ items[Mesh!PositionOf(r)] = Mesh!PositionOf(r) + 1
              /\ Mesh!TakeptrAfter(Mesh!PositionOf(r), Mesh!PositionOf(r) + 1)
                   = IF Mesh!PositionOf(r) = takeptr THEN takeptr + 1 ELSE takeptr
<1> DEFINE p == Mesh!PositionOf(r)
<1>1. p \in 0..takeptr
  BY MeshTypes, MeshConstants DEF Mesh!PositionOf, MeshInv, Walkers
<1> HIDE DEF p
<1>2. ASSUME p # putptr
      PROVE  p < puts /\ p \in 0..(MeshSlots - 1) /\ p + 1 # MeshSlots
  BY <1>1, <1>2, MeshTypes, MeshConstants
<1>3. p # putptr => items[p] = p + 1
  BY <1>2 DEF MeshInv
<1>4. p # putptr => Mesh!TakeptrAfter(p, p + 1) = IF p = takeptr THEN takeptr + 1 ELSE takeptr
  BY <1>2 DEF Mesh!TakeptrAfter
<1>5. DOMAIN items = 0..(MeshSlots - 1)
  BY MeshTypes
<1> QED
  BY <1>1, <1>2, <1>3, <1>4, <1>5 DEF p, Mesh!Empty

LEMMA MeshTake ==
  ASSUME MeshInv, NEW r \in MeshReaders, Mesh!Take(r)
  PROVE  /\ MeshInv'
         /\ \/ /\ Mesh!PositionOf(r) < puts
               /\ local' = [local EXCEPT ![r] = Mesh!PositionOf(r) + 1]
            \/ local' = [local EXCEPT ![r] = Mesh!PositionOf(r)]
<1> DEFINE p == Mesh!PositionOf(r)
<1>1. items' = items /\ putptr' = putptr /\ puts' = puts
  BY DEF Mesh!Take
<1>2. p \in 0..takeptr
  BY MeshPosition
<1>3. CASE Mesh!Empty(p)
  <2>1. /\ local' = [local EXCEPT ![r] = p] /\ readerPc' = [readerPc EXCEPT ![r] = "await"]
        /\ takeptr' = takeptr /\ taken' = taken
    BY <1>3 DEF Mesh!Take, Mesh!Await
  <2>2. \A q \in MeshReaders : local'[q] = IF q = r THEN p ELSE local[q]
    BY <2>1, MeshTypes
  <2>3. local[r] # NoPosition => p = local[r]
    BY DEF Mesh!PositionOf
  <2>4. local[r] = NoPosition => p = takeptr
    BY DEF Mesh!PositionOf
  <2> HIDE DEF p
  <2>5. Mesh!TypeOK'
    <3>1. local' \in [MeshReaders -> 0..MeshSlots \cup {NoPosition}]
      BY <1>2, <2>1, MeshTypes, MeshConstants
    <3> QED
      BY <1>1, <2>1, <3>1, MeshTypes DEF Mesh!TypeOK, MeshInv
  <2>6. Walkers' = Walkers \cup {r} /\ p # NoPosition
    BY <1>2, <2>2, MeshTypes, MeshConstants DEF Walkers
  <2>7. \A q \in Walkers' : local'[q] <= takeptr'
    BY <1>2, <2>1, <2>2, MeshTypes DEF MeshInv, Walkers
  <2>8. \E q \in Walkers' : local'[q] = takeptr'
    BY <2>1, <2>2, <2>3, <2>4, <2>6 DEF MeshInv, Walkers
  <2>9. Mesh!ReadsWhatWasSent'
    <3>1. ASSUME NEW q \in MeshReaders, taken[q] # <<>> PROVE local'[q] = local[q]
      <4>1. taken[q][Len(taken[q])] = local[q]
        BY <3>1 DEF MeshInv, Mesh!ReadsWhatWasSent
      <4>2. taken[q] \in Seq(1..MeshPuts)
        BY MeshTypes
      <4>3. local[q] \in 1..MeshPuts
        BY <3>1, <4>1, <4>2, LastOfSequence
      <4> QED
        BY <2>2, <2>3, <4>3, MeshConstants
    <3> QED
      BY <2>1, <3>1 DEF MeshInv, Mesh!ReadsWhatWasSent
  <2>10. MeshInv'
    BY <1>1, <2>1, <2>5, <2>6, <2>7, <2>8, <2>9 DEF MeshInv
  <2> QED
    BY <2>1, <2>10 DEF p
<1>4. CASE ~Mesh!Empty(p)
  <2>1. /\ p < puts /\ items[p] = p + 1
        /\ Mesh!TakeptrAfter(p, p + 1) = IF p = takeptr THEN takeptr + 1 ELSE takeptr
    BY <1>4, MeshPosition
  <2>2. /\ taken' = [taken EXCEPT ![r] = Append(@, p + 1)]
        /\ takeptr' = IF p = takeptr THEN takeptr + 1 ELSE takeptr
        /\ local' = [local EXCEPT ![r] = p + 1]
        /\ readerPc' = [readerPc EXCEPT ![r] = "out"]
    BY <1>4, <2>1, MeshPosition DEF Mesh!Take, Mesh!TakeItem, Mesh!ItemAt
  <2>3. local[r] # NoPosition => p = local[r]
    BY DEF Mesh!PositionOf
  <2> HIDE DEF p
  <2>4. /\ \A q \in MeshReaders : local'[q] = IF q = r THEN p + 1 ELSE local[q]
        /\ \A q \in MeshReaders : q # r => taken'[q] = taken[q]
        /\ taken'[r] = Append(taken[r], p + 1) /\ DOMAIN taken' = MeshReaders
    BY <2>2, MeshTypes
  <2>5. p + 1 \in 1..MeshPuts /\ taken[r] \in Seq(1..MeshPuts)
    BY <1>2, <2>1, MeshTypes, MeshConstants
  <2>6. /\ taken'[r] \in Seq(1..MeshPuts) /\ Len(taken'[r]) = Len(taken[r]) + 1
        /\ taken'[r][Len(taken[r]) + 1] = p + 1
        /\ \A i \in 1..Len(taken[r]) : taken'[r][i] = taken[r][i]
    BY <2>4, <2>5, AppendProperties
  <2>7. Mesh!TypeOK'
    <3>1. local' \in [MeshReaders -> 0..MeshSlots \cup {NoPosition}]
      BY <2>2, <2>5, MeshTypes, MeshConstants
    <3>2. takeptr' \in 0..(MeshSlots - 1)
      BY <1>2, <2>1, <2>2, MeshTypes, MeshConstants
    <3>3. readerPc' \in [MeshReaders -> {"out", "await", "woken", "dead"}]
      BY <2>2, MeshTypes
    <3>4. \A q \in MeshReaders : taken'[q] \in Seq(1..MeshPuts)
      BY <2>4, <2>6, MeshTypes
    <3> QED
      BY <1>1, <3>1, <3>2, <3>3, <3>4 DEF Mesh!TypeOK, MeshInv
  <2>8. Walkers' = Walkers \cup {r} /\ takeptr' \in Nat /\ takeptr' <= puts
    BY <1>2, <2>1, <2>2, <2>4, <2>5, MeshTypes, MeshConstants DEF Walkers
  <2>9. \A q \in Walkers' : local'[q] <= takeptr'
    <3>1. takeptr <= takeptr' /\ p + 1 <= takeptr'
      BY <1>2, <2>2, MeshTypes, MeshConstants
    <3>2. ASSUME NEW q \in Walkers, q # r PROVE local'[q] <= takeptr'
      <4>1. local[q] <= takeptr /\ local[q] \in Nat /\ q \in MeshReaders
        BY MeshTypes, MeshConstants DEF MeshInv, Walkers
      <4> QED
        BY <2>4, <2>8, <3>1, <3>2, <4>1, MeshTypes, MeshConstants
    <3> QED
      BY <2>4, <2>8, <3>1, <3>2
  <2>10. \E q \in Walkers' : local'[q] = takeptr'
    <3>1. CASE p = takeptr
      BY <2>2, <2>4, <2>8, <3>1
    <3>2. CASE p # takeptr
      <4>1. PICK q \in Walkers : local[q] = takeptr
        BY <1>2, <3>2, MeshTypes DEF MeshInv
      <4>2. q # r
        BY <2>3, <3>2, <4>1 DEF Walkers
      <4> QED
        BY <2>2, <2>4, <2>8, <3>2, <4>1, <4>2 DEF Walkers
    <3> QED
      BY <3>1, <3>2
  <2>11. Mesh!ReadsWhatWasSent'
    <3> SUFFICES ASSUME NEW q \in MeshReaders, taken'[q] # <<>>
                 PROVE  /\ taken'[q][Len(taken'[q])] = local'[q]
                        /\ \A i \in 2..Len(taken'[q]) : taken'[q][i] = taken'[q][i - 1] + 1
      BY DEF Mesh!ReadsWhatWasSent
    <3>1. CASE q # r
      BY <2>4, <3>1 DEF MeshInv, Mesh!ReadsWhatWasSent
    <3>2. CASE q = r
      <4>1. taken'[r][Len(taken'[r])] = local'[r]
        BY <2>4, <2>6
      <4>2. ASSUME NEW i \in 2..Len(taken'[r])
            PROVE  taken'[r][i] = taken'[r][i - 1] + 1
        <5>1. Len(taken[r]) \in Nat /\ taken[r] # <<>>
          BY <2>5, <2>6, <4>2
        <5>2. /\ taken[r][Len(taken[r])] = local[r]
              /\ \A k \in 2..Len(taken[r]) : taken[r][k] = taken[r][k - 1] + 1
          BY <5>1 DEF MeshInv, Mesh!ReadsWhatWasSent
        <5>3. CASE i = Len(taken[r]) + 1
          <6>1. local[r] \in 1..MeshPuts
            BY <2>5, <5>1, <5>2, LastOfSequence
          <6>2. taken[r][Len(taken[r])] = p
            BY <2>3, <5>2, <6>1, MeshConstants
          <6>3. i - 1 = Len(taken[r]) /\ i - 1 \in 1..Len(taken[r])
            BY <4>2, <5>1, <5>3
          <6>4. taken'[r][i - 1] = p
            BY <2>6, <6>2, <6>3
          <6> QED
            BY <2>6, <5>3, <6>4
        <5>4. CASE i # Len(taken[r]) + 1
          <6>1. i \in 2..Len(taken[r]) /\ i \in 1..Len(taken[r]) /\ i - 1 \in 1..Len(taken[r])
            BY <2>6, <4>2, <5>1, <5>4
          <6> QED
            BY <2>6, <5>2, <6>1
        <5> QED
          BY <5>3, <5>4
      <4> QED
        BY <3>2, <4>1, <4>2
    <3> QED
      BY <3>1, <3>2
  <2>12. MeshInv'
    BY <1>1, <2>4, <2>7, <2>8, <2>9, <2>10, <2>11 DEF MeshInv
  <2> QED
    BY <2>1, <2>2, <2>12 DEF p
<1> QED
  BY <1>3, <1>4

LEMMA MeshKept == MeshInv /\ [Mesh!Next]_(Mesh!vars) => MeshInv'
<1> SUFFICES ASSUME MeshInv, [Mesh!Next]_(Mesh!vars) PROVE MeshInv'
  OBVIOUS
<1>1. ASSUME NEW r \in MeshReaders, Mesh!Timeout(r) PROVE MeshInv'
  BY <1>1 DEF Mesh!Timeout, MeshInv, Mesh!TypeOK, Walkers, Mesh!ReadsWhatWasSent
<1>2. CASE UNCHANGED Mesh!vars
  BY <1>2 DEF Mesh!vars, MeshInv, Mesh!TypeOK, Walkers, Mesh!ReadsWhatWasSent
<1> QED
  BY <1>1, <1>2, MeshPut, MeshTake DEF Mesh!Next

LEMMA FrontIsTakeptr == MeshInv => Mesh!Network!Front = takeptr
<1> SUFFICES ASSUME MeshInv PROVE Mesh!Network!Front = takeptr
  OBVIOUS
<1>1. Mesh!Network!Started = Walkers
  BY DEF Mesh!Network!Started, Walkers
<1>2. CASE Walkers = {}
  BY <1>1, <1>2 DEF Mesh!Network!Front, MeshInv
<1>3. CASE Walkers # {}
  <2> DEFINE P == {local[r] : r \in Walkers}
             Leads(n) == \A r \in Walkers : local[r] <= n
  <2>1. takeptr \in P /\ Leads(takeptr)
    BY <1>3 DEF MeshInv
  <2>2. \A n \in P : n \in Nat
    BY MeshTypes, MeshConstants DEF Walkers
  <2>3. \A n \in P : Leads(n) => n = takeptr
    BY <2>1, <2>2
  <2>4. Mesh!Network!Front = CHOOSE n \in P : Leads(n)
    BY <1>1, <1>3 DEF Mesh!Network!Front
  <2> HIDE DEF P, Leads
  <2> QED
    BY <2>1, <2>3, <2>4
<1> QED
  BY <1>2, <1>3

LEMMA MeshRefines ==
  Mesh!Spec => /\ [](Mesh!TypeOK /\ Mesh!ReadsWhatWasSent)
               /\ Mesh!BroadcastImplemented
<1> DEFINE Steps == \/ Mesh!Network!Send
                    \/ \E r \in MeshReaders : Mesh!Network!Start(r) \/ Mesh!Network!Receive(r)
<1>1. Mesh!Init => Mesh!Network!BroadcastInit
  BY DEF Mesh!Init, Mesh!Network!BroadcastInit
<1>2. MeshInv /\ [Mesh!Next]_(Mesh!vars) => [Steps]_(Mesh!Network!broadcastVars)
  <2> SUFFICES ASSUME MeshInv, [Mesh!Next]_(Mesh!vars)
               PROVE  Steps \/ (puts' = puts /\ local' = local)
    BY DEF Mesh!Network!broadcastVars
  <2>1. ASSUME NEW w \in Writers, Mesh!Put(w) PROVE Mesh!Network!Send
    BY <2>1 DEF Mesh!Put, Mesh!Network!Send
  <2>2. ASSUME NEW r \in MeshReaders, Mesh!Take(r)
        PROVE  Steps \/ (puts' = puts /\ local' = local)
    <3>1. puts' = puts
      BY <2>2 DEF Mesh!Take
    <3>2. Mesh!Network!Front = takeptr
      BY FrontIsTakeptr
    <3>3. Mesh!PositionOf(r) = Mesh!Network!Position(r)
      BY <3>2 DEF Mesh!PositionOf, Mesh!Network!Position, Mesh!Network!Started
    <3>4. CASE Mesh!PositionOf(r) < puts /\ local' = [local EXCEPT ![r] = Mesh!PositionOf(r) + 1]
      BY <3>1, <3>3, <3>4 DEF Mesh!Network!Receive
    <3>5. CASE local' = [local EXCEPT ![r] = Mesh!PositionOf(r)] /\ local[r] = NoPosition
      BY <3>1, <3>2, <3>5 DEF Mesh!Network!Start, Mesh!Network!Started, Mesh!PositionOf
    <3>6. CASE local' = [local EXCEPT ![r] = Mesh!PositionOf(r)] /\ local[r] # NoPosition
      <4>1. local' = [local EXCEPT ![r] = local[r]]
        BY <3>6 DEF Mesh!PositionOf
      <4> QED
        BY <3>1, <4>1, MeshTypes
    <3> QED
      BY <2>2, <3>4, <3>5, <3>6, MeshTake
  <2>3. ASSUME NEW r \in MeshReaders, Mesh!Timeout(r) PROVE puts' = puts /\ local' = local
    BY <2>3 DEF Mesh!Timeout
  <2>4. CASE UNCHANGED Mesh!vars
    BY <2>4 DEF Mesh!vars
  <2> QED
    BY <2>1, <2>2, <2>3, <2>4 DEF Mesh!Next
<1>3. MeshInv => Mesh!TypeOK /\ Mesh!ReadsWhatWasSent
  BY DEF MeshInv
<1> QED
  BY <1>1, <1>2, <1>3, MeshStarts, MeshKept, PTL
     DEF Mesh!Spec, Mesh!BroadcastImplemented, Mesh!Network!BroadcastSpec

-----------------------------------------------------------------------------
(* The message consumer *)

Occurrences(s, m) == {i \in 1..Len(s) : s[i] = m}

LEMMA OccurrencesOfAppended ==
  ASSUME NEW s \in Seq(1..NumMessages), NEW e \in 1..NumMessages, NEW m
  PROVE  /\ Cardinality(Occurrences(s, m)) \in Nat
         /\ Cardinality(Occurrences(Append(s, e), m))
              = Cardinality(Occurrences(s, m)) + (IF e = m THEN 1 ELSE 0)
<1>1. Len(s) \in Nat /\ Occurrences(s, m) \subseteq 1..Len(s)
  BY DEF Occurrences
<1>2. IsFiniteSet(Occurrences(s, m))
  <2>1. IsFiniteSet(1..Len(s))
    BY <1>1, FS_Interval
  <2> QED
    BY <1>1, <2>1, FS_Subset
<1>3. Cardinality(Occurrences(s, m)) \in Nat
  BY <1>2, FS_CardinalityType
<1>4. /\ Len(Append(s, e)) = Len(s) + 1 /\ Append(s, e)[Len(s) + 1] = e
      /\ \A i \in 1..Len(s) : Append(s, e)[i] = s[i]
  BY AppendProperties
<1>5. CASE e = m
  <2>1. Occurrences(Append(s, e), m) = Occurrences(s, m) \cup {Len(s) + 1}
    BY <1>1, <1>4, <1>5 DEF Occurrences
  <2>2. Len(s) + 1 \notin Occurrences(s, m)
    BY <1>1
  <2> QED
    BY <1>2, <1>3, <1>5, <2>1, <2>2, FS_AddElement
<1>6. CASE e # m
  <2>1. Occurrences(Append(s, e), m) = Occurrences(s, m)
    BY <1>1, <1>4, <1>6 DEF Occurrences
  <2> QED
    BY <1>3, <1>6, <2>1
<1> QED
  BY <1>3, <1>5, <1>6

LEMMA SameCardinality == \A S : Consumer!Cardinality(S) = Cardinality(S)
BY Zenon DEF Consumer!Cardinality, Cardinality

LEMMA TimesIsOccurrences ==
  ASSUME NEW m
  PROVE  Consumer!Times(m) = Cardinality(Occurrences(Consumer!Received, m))
BY SameCardinality DEF Consumer!Times, Occurrences

ConsumerInv ==
  /\ Consumer!TypeOK /\ Consumer!OncePerSession /\ Consumer!NothingSkipped
  /\ next = 1 \/ /\ Consumer!Received # <<>>
                 /\ next = Consumer!Received[Len(Consumer!Received)] + 1
  /\ ~started => next = 1
  /\ started => \A m \in next..NumMessages : Consumer!Times(m) + 1 <= sessions

LEMMA ConsumerTypes ==
  ASSUME ConsumerInv
  PROVE  /\ NumMessages \in Nat /\ MaxSessions \in Nat
         /\ started \in BOOLEAN /\ sessions \in 0..MaxSessions /\ next \in 1..(NumMessages + 1)
         /\ messages \in Seq(1..NumMessages) /\ flushed \in Seq(1..NumMessages)
         /\ Consumer!Received \in Seq(1..NumMessages)
         /\ \A m \in 1..NumMessages : Consumer!Times(m) \in Nat
<1>1. NumMessages \in Nat /\ MaxSessions \in Nat
  BY ServicesAssumption DEF Consumer!ConsumerAssumption
<1>2. /\ started \in BOOLEAN /\ sessions \in 0..MaxSessions /\ next \in 1..(NumMessages + 1)
      /\ messages \in Seq(1..NumMessages) /\ flushed \in Seq(1..NumMessages)
  BY DEF ConsumerInv, Consumer!TypeOK
<1>3. Consumer!Received \in Seq(1..NumMessages)
  BY <1>2 DEF Consumer!Received
<1>4. \A m \in 1..NumMessages : Consumer!Times(m) \in Nat
  BY <1>3, OccurrencesOfAppended, TimesIsOccurrences
<1> QED
  BY <1>1, <1>2, <1>3, <1>4

LEMMA ConsumerStarts == Consumer!Init => ConsumerInv
<1> SUFFICES ASSUME Consumer!Init PROVE ConsumerInv
  OBVIOUS
<1>1. NumMessages \in Nat /\ MaxSessions \in Nat
  BY ServicesAssumption DEF Consumer!ConsumerAssumption
<1>2. Consumer!TypeOK
  <2>1. (wait = "none") = (waiterPc = "out")
    BY DEF Consumer!Init
  <2>2. started \in BOOLEAN /\ expired \in BOOLEAN
    BY DEF Consumer!Init
  <2>3. /\ sessions \in 0..MaxSessions /\ next \in 1..(NumMessages + 1)
        /\ messages \in Seq(1..NumMessages) /\ flushed \in Seq(1..NumMessages)
        /\ waiterPc \in {"out", "entering", "waiting", "woken", "again"}
        /\ wait \in {"none", "one", "many"}
    BY <1>1 DEF Consumer!Init
  <2> QED
    BY <2>1, <2>2, <2>3 DEF Consumer!TypeOK
<1>3. Consumer!Received = <<>>
  BY DEF Consumer!Init, Consumer!Received
<1>4. ASSUME NEW m PROVE Consumer!Times(m) = 0
  <2>1. Occurrences(<<>>, m) = {}
    BY DEF Occurrences
  <2> QED
    BY <1>3, <2>1, TimesIsOccurrences, FS_EmptySet
<1>5. Consumer!NothingSkipped
  BY <1>3 DEF Consumer!NothingSkipped
<1> QED
  BY <1>2, <1>4, <1>5 DEF Consumer!Init, ConsumerInv, Consumer!OncePerSession

\* A step that receives nothing.
LEMMA NothingReceived ==
  ASSUME ConsumerInv, Consumer!Received' = Consumer!Received
  PROVE  /\ \A m \in 1..NumMessages : Consumer!Times(m)' = Consumer!Times(m)
         /\ Consumer!NothingSkipped'
<1>1. \A m \in 1..NumMessages : Consumer!Times(m)' = Consumer!Times(m)
  BY DEF Consumer!Times
<1> QED
  BY <1>1 DEF ConsumerInv, Consumer!NothingSkipped

LEMMA ConsumerReceives == ConsumerInv /\ Consumer!OnMessage => ConsumerInv'
<1> SUFFICES ASSUME ConsumerInv, Consumer!OnMessage PROVE ConsumerInv'
  OBVIOUS
<1> DEFINE R == Consumer!Received
<1>1. /\ started /\ next <= NumMessages /\ messages' = Append(messages, next)
      /\ next' = next + 1 /\ started' = started /\ sessions' = sessions
      /\ flushed' = flushed /\ wait' = wait /\ expired' = expired
  BY DEF Consumer!OnMessage, Consumer!BufferWith, Consumer!AfterDelivery
<1>2. next \in 1..NumMessages /\ next' \in 1..(NumMessages + 1) /\ R \in Seq(1..NumMessages)
  BY <1>1, ConsumerTypes
<1>3. messages' \in Seq(1..NumMessages)
  BY <1>1, <1>2, ConsumerTypes, AppendProperties
<1>4. Consumer!TypeOK'
  <2>1. /\ waiterPc' \in {"out", "entering", "waiting", "woken", "again"}
        /\ (wait = "none") = (waiterPc' = "out")
    BY DEF Consumer!OnMessage, Consumer!Notified, ConsumerInv, Consumer!TypeOK
  <2>2. /\ started' \in BOOLEAN /\ sessions' \in 0..MaxSessions
        /\ flushed' \in Seq(1..NumMessages)
    BY <1>1, ConsumerTypes
  <2>3. wait' \in {"none", "one", "many"} /\ expired' \in BOOLEAN
    BY <1>1 DEF ConsumerInv, Consumer!TypeOK
  <2> QED
    BY <1>1, <1>2, <1>3, <2>1, <2>2, <2>3 DEF Consumer!TypeOK
<1>5. Consumer!Received' = Append(R, next)
  BY <1>1, <1>2, ConsumerTypes DEF Consumer!Received
<1> HIDE DEF R
<1>6. /\ Len(Append(R, next)) = Len(R) + 1 /\ Append(R, next)[Len(R) + 1] = next
      /\ \A i \in 1..Len(R) : Append(R, next)[i] = R[i]
  BY <1>2, AppendProperties
<1>7. \A m : /\ Consumer!Times(m) = Cardinality(Occurrences(R, m))
             /\ Consumer!Times(m)' = Cardinality(Occurrences(Append(R, next), m))
  BY <1>5, SameCardinality DEF R, Consumer!Times, Occurrences
<1>8. ASSUME NEW m \in 1..NumMessages
      PROVE  Consumer!Times(m)' = Consumer!Times(m) + (IF next = m THEN 1 ELSE 0)
  <2>1. Cardinality(Occurrences(Append(R, next), m))
          = Cardinality(Occurrences(R, m)) + (IF next = m THEN 1 ELSE 0)
    <3> DEFINE s == R
    <3>1. s \in Seq(1..NumMessages) /\ next \in 1..NumMessages
      BY <1>2
    <3> HIDE DEF s
    <3>2. Cardinality(Occurrences(Append(s, next), m))
            = Cardinality(Occurrences(s, m)) + (IF next = m THEN 1 ELSE 0)
      BY <3>1, OccurrencesOfAppended
    <3> QED
      BY <3>2 DEF s
  <2> QED
    BY <1>7, <2>1
<1>9. \A m \in next..NumMessages : Consumer!Times(m) + 1 <= sessions
  BY <1>1 DEF ConsumerInv
<1>10. \A m \in 1..NumMessages : Consumer!Times(m) \in Nat /\ Consumer!Times(m) <= sessions
  BY ConsumerTypes DEF ConsumerInv, Consumer!OncePerSession
<1>11. Consumer!OncePerSession'
  <2> SUFFICES ASSUME NEW m \in 1..NumMessages PROVE Consumer!Times(m)' <= sessions
    BY <1>1 DEF Consumer!OncePerSession
  <2>1. CASE m = next
    BY <1>2, <1>8, <1>9, <2>1, ConsumerTypes
  <2>2. CASE m # next
    BY <1>8, <1>10, <2>2
  <2> QED
    BY <2>1, <2>2
<1>12. \A m \in (next')..NumMessages : Consumer!Times(m)' + 1 <= sessions
  <2> SUFFICES ASSUME NEW m \in (next + 1)..NumMessages PROVE Consumer!Times(m)' + 1 <= sessions
    BY <1>1
  <2>1. m \in 1..NumMessages /\ m \in next..NumMessages /\ m # next
    BY <1>2
  <2> QED
    BY <1>8, <1>9, <1>10, <2>1
<1>13. Consumer!NothingSkipped'
  <2> SUFFICES ASSUME NEW i \in 2..(Len(R) + 1)
               PROVE  Append(R, next)[i] \in {1, Append(R, next)[i - 1] + 1}
    BY <1>5, <1>6 DEF Consumer!NothingSkipped
  <2>1. Len(R) \in Nat
    BY <1>2
  <2>2. CASE i = Len(R) + 1
    <3>1. i - 1 \in 1..Len(R) /\ i - 1 = Len(R)
      BY <2>1, <2>2
    <3>2. next = 1 \/ next = R[Len(R)] + 1
      BY DEF ConsumerInv, R
    <3> QED
      BY <1>6, <2>2, <3>1, <3>2
  <2>3. CASE i # Len(R) + 1
    <3>1. i \in 2..Len(R) /\ i \in 1..Len(R) /\ i - 1 \in 1..Len(R)
      BY <2>1, <2>3
    <3>2. R[i] \in {1, R[i - 1] + 1}
      BY <3>1 DEF ConsumerInv, Consumer!NothingSkipped, R
    <3> QED
      BY <1>6, <3>1, <3>2
  <2> QED
    BY <2>2, <2>3
<1>14. /\ Consumer!Received' # <<>>
       /\ next' = Consumer!Received'[Len(Consumer!Received')] + 1
  <2>1. Append(R, next) # <<>>
    BY <1>2, AppendProperties
  <2> QED
    BY <1>1, <1>5, <1>6, <2>1
<1> QED
  BY <1>1, <1>4, <1>11, <1>12, <1>13, <1>14 DEF ConsumerInv

LEMMA ConsumerKept == ConsumerInv /\ [Consumer!Next]_(Consumer!vars) => ConsumerInv'
<1> SUFFICES ASSUME ConsumerInv, [Consumer!Next]_(Consumer!vars) PROVE ConsumerInv'
  OBVIOUS
<1>1. CASE Consumer!Start
  <2>1. /\ ~started /\ sessions < MaxSessions /\ started' = TRUE /\ sessions' = sessions + 1
        /\ next' = next /\ messages' = messages /\ flushed' = flushed
        /\ waiterPc' = waiterPc /\ wait' = wait /\ expired' = expired
    BY <1>1 DEF Consumer!Start, Consumer!waiterVars
  <2>2. Consumer!Received' = Consumer!Received
    BY <2>1 DEF Consumer!Received
  <2>3. sessions' \in 0..MaxSessions
    BY <2>1, ConsumerTypes
  <2>4. Consumer!TypeOK'
    BY <2>1, <2>3 DEF ConsumerInv, Consumer!TypeOK
  <2>5. \A m \in 1..NumMessages : Consumer!Times(m)' + 1 <= sessions'
    <3>1. \A m \in 1..NumMessages : Consumer!Times(m) \in Nat /\ Consumer!Times(m) <= sessions
      BY ConsumerTypes DEF ConsumerInv, Consumer!OncePerSession
    <3> QED
      BY <2>1, <2>2, <3>1, NothingReceived, ConsumerTypes
  <2>6. Consumer!OncePerSession'
    BY <2>1, <2>2, <2>3, <2>5, NothingReceived, ConsumerTypes DEF Consumer!OncePerSession
  <2>7. \A m \in (next')..NumMessages : m \in 1..NumMessages
    BY <2>1, ConsumerTypes
  <2> QED
    BY <2>1, <2>2, <2>4, <2>5, <2>6, <2>7, NothingReceived DEF ConsumerInv
<1>2. CASE Consumer!Stop
  <2>1. /\ started' = FALSE /\ next' = 1 /\ sessions' = sessions
        /\ messages' = messages /\ flushed' = flushed
        /\ waiterPc' = waiterPc /\ wait' = wait /\ expired' = expired
    BY <1>2 DEF Consumer!Stop, Consumer!FirstUncommitted, Consumer!waiterVars
  <2>2. Consumer!Received' = Consumer!Received
    BY <2>1 DEF Consumer!Received
  <2>3. next' \in 1..(NumMessages + 1)
    BY <2>1, ConsumerTypes
  <2>4. Consumer!TypeOK'
    BY <2>1, <2>3 DEF ConsumerInv, Consumer!TypeOK
  <2>5. Consumer!OncePerSession'
    BY <2>1, <2>2, NothingReceived DEF ConsumerInv, Consumer!OncePerSession
  <2> QED
    BY <2>1, <2>2, <2>4, <2>5, NothingReceived DEF ConsumerInv
<1>3. CASE Consumer!FlushMessages
  <2>1. /\ flushed' = flushed \o messages /\ messages' = <<>>
        /\ started' = started /\ next' = next /\ sessions' = sessions
        /\ waiterPc' = waiterPc /\ wait' = wait /\ expired' = expired
    BY <1>3 DEF Consumer!FlushMessages, Consumer!AfterFlush, Consumer!waiterVars
  <2>2. /\ Consumer!Received' = Consumer!Received
        /\ flushed' \in Seq(1..NumMessages) /\ messages' \in Seq(1..NumMessages)
    BY <2>1, ConsumerTypes DEF Consumer!Received
  <2>3. Consumer!TypeOK'
    BY <2>1, <2>2 DEF ConsumerInv, Consumer!TypeOK
  <2> QED
    BY <2>1, <2>2, <2>3, NothingReceived, ConsumerTypes DEF ConsumerInv, Consumer!OncePerSession
<1>4. ASSUME UNCHANGED Consumer!consumerVars, Consumer!TypeOK' PROVE ConsumerInv'
  <2>1. /\ started' = started /\ next' = next /\ sessions' = sessions
        /\ messages' = messages /\ flushed' = flushed
    BY <1>4 DEF Consumer!consumerVars
  <2>2. Consumer!Received' = Consumer!Received
    BY <2>1 DEF Consumer!Received
  <2> QED
    BY <1>4, <2>1, <2>2, NothingReceived, ConsumerTypes DEF ConsumerInv, Consumer!OncePerSession
<1>5. CASE \/ Consumer!WaitForMessage \/ Consumer!WaitForMessages \/ Consumer!WaiterStep
           \/ Consumer!Interrupted \/ Consumer!Expire
  <2>1. UNCHANGED Consumer!consumerVars
    BY <1>5 DEF Consumer!WaitForMessage, Consumer!WaitForMessages, Consumer!WaiterStep,
                Consumer!Interrupted, Consumer!Expire, Consumer!EnterWait, Consumer!WaitEnds,
                Consumer!ReturnFromOne, Consumer!TestMany, Consumer!TestLoop
  <2>2. /\ waiterPc' \in {"out", "entering", "waiting", "woken", "again"}
        /\ wait' \in {"none", "one", "many"} /\ expired' \in BOOLEAN
        /\ (wait' = "none") <=> (waiterPc' = "out")
    BY <1>5 DEF Consumer!WaitForMessage, Consumer!WaitForMessages, Consumer!WaiterStep,
                Consumer!Interrupted, Consumer!Expire, Consumer!EnterWait, Consumer!WaitEnds,
                Consumer!ReturnFromOne, Consumer!TestMany, Consumer!TestLoop, Consumer!Return,
                ConsumerInv, Consumer!TypeOK
  <2>3. Consumer!TypeOK'
    BY <2>1, <2>2 DEF ConsumerInv, Consumer!TypeOK, Consumer!consumerVars
  <2> QED
    BY <1>4, <2>1, <2>3
<1>6. CASE UNCHANGED Consumer!vars
  <2>1. UNCHANGED Consumer!consumerVars /\ UNCHANGED Consumer!waiterVars
    BY <1>6 DEF Consumer!vars, Consumer!consumerVars, Consumer!waiterVars
  <2>2. Consumer!TypeOK'
    BY <2>1 DEF Consumer!consumerVars, Consumer!waiterVars, ConsumerInv, Consumer!TypeOK
  <2> QED
    BY <1>4, <2>1, <2>2
<1> QED
  BY <1>1, <1>2, <1>3, <1>5, <1>6, ConsumerReceives DEF Consumer!Next

LEMMA ConsumerSound ==
  Consumer!Spec => [](Consumer!TypeOK /\ Consumer!OncePerSession /\ Consumer!NothingSkipped)
<1>1. ConsumerInv => Consumer!TypeOK /\ Consumer!OncePerSession /\ Consumer!NothingSkipped
  BY DEF ConsumerInv
<1> QED
  BY <1>1, ConsumerStarts, ConsumerKept, PTL DEF Consumer!Spec

-----------------------------------------------------------------------------
(* The earlier persist queue *)

\* The entries that have left the queue are 1..Gone: it holds the others in order.
Gone == accepted - Len(dataQueue)

QueueInOrder ==
  /\ accepted \in Nat /\ Len(dataQueue) <= accepted
  /\ \A j \in 1..Len(dataQueue) : dataQueue[j] = Gone + j

\* While flush fills its batch, all it copies is the head ...
Peeking ==
  flushPc = "peek" =>
    /\ saved \subseteq 1..Gone
    /\ copied = 0 => size = 0 /\ batch = {}
    /\ copied > 0 => batch = {Gone + 1} /\ size = copied - 1 /\ dataQueue # <<>>

\* ... and while it polls, the head it saved is the first to leave.
Polling ==
  flushPc = "poll" =>
    /\ copied <= size
    /\ size = 0 => saved \subseteq 1..Gone
    /\ size > 0 => \E h \in saved :
          /\ saved \subseteq 1..h /\ h <= Gone + 1 /\ Gone + 1 <= h + copied
          /\ copied > 0 => h <= Gone
          /\ copied = 0 => dataQueue # <<>>

LegacyInv == Legacy!TypeOK /\ Legacy!LossIsBounded /\ QueueInOrder /\ Peeking /\ Polling

LEMMA LegacyTypes ==
  ASSUME LegacyInv
  PROVE  /\ PushSize \in Nat /\ BatchSize \in Nat /\ BatchSize > 1
         /\ dataQueue \in Seq(1..accepted) /\ controlQueue \in 0..1
         /\ pushes \in [Fillers -> 0..(2 * PushSize)]
         /\ flushPc \in {"peek", "poll"} /\ copied \in 0..BatchSize
         /\ size \in 0..(BatchSize - 1)
         /\ batch \subseteq 1..accepted /\ saved \subseteq 1..accepted
         /\ Gone \in Nat /\ Len(dataQueue) \in Nat /\ accepted \in Nat
         /\ accepted = Gone + Len(dataQueue)
<1>1. dataQueue \in Seq(1..accepted) /\ accepted \in Nat /\ Len(dataQueue) <= accepted
  BY DEF LegacyInv, Legacy!TypeOK, QueueInOrder
<1>2. Len(dataQueue) \in Nat
  BY <1>1
<1>3. Gone \in Nat /\ accepted = Gone + Len(dataQueue)
  BY <1>1, <1>2 DEF Gone
<1> QED
  BY <1>1, <1>2, <1>3, ServicesAssumption
     DEF LegacyInv, Legacy!TypeOK, Legacy!LegacyPersistAssumption

\* The numbers alone.
LEMMA LegacyNumbers ==
  ASSUME LegacyInv
  PROVE  /\ PushSize \in Nat /\ BatchSize \in Nat /\ BatchSize > 1
         /\ copied \in 0..BatchSize /\ size \in 0..(BatchSize - 1)
         /\ Gone \in Nat /\ Len(dataQueue) \in Nat /\ accepted \in Nat
         /\ accepted = Gone + Len(dataQueue)
BY LegacyTypes

LEMMA LegacyStarts == Legacy!Init => LegacyInv
<1> SUFFICES ASSUME Legacy!Init PROVE LegacyInv
  OBVIOUS
<1>1. PushSize \in Nat /\ BatchSize \in Nat /\ BatchSize > 1
  BY ServicesAssumption DEF Legacy!LegacyPersistAssumption
<1>2. Legacy!TypeOK
  BY <1>1 DEF Legacy!Init, Legacy!TypeOK
<1>3. QueueInOrder /\ Peeking /\ Polling
  BY DEF Legacy!Init, QueueInOrder, Peeking, Polling, Gone
<1>4. Legacy!LossIsBounded
  BY DEF Legacy!Init, Legacy!LossIsBounded, Legacy!Polled
<1> QED
  BY <1>2, <1>3, <1>4 DEF LegacyInv

\* A step that takes nothing from the queue and saves nothing.
LEMMA LossKept ==
  ASSUME LegacyInv, Gone' = Gone, saved \subseteq saved'
  PROVE  Legacy!LossIsBounded'
<1>1. Legacy!Polled = 1..Gone /\ Legacy!Polled' = 1..(Gone')
  BY DEF Legacy!Polled, Gone
<1> QED
  BY <1>1 DEF LegacyInv, Legacy!LossIsBounded

LEMMA LegacyOffersData ==
  ASSUME LegacyInv, NEW f \in Fillers, Legacy!OfferData(f)
  PROVE  LegacyInv'
<1>1. /\ pushes[f] > 0 /\ pushes' = [pushes EXCEPT ![f] = @ - 1]
      /\ accepted' = accepted + 1 /\ dataQueue' = Append(dataQueue, accepted + 1)
      /\ controlQueue' = controlQueue /\ flushPc' = flushPc /\ copied' = copied
      /\ size' = size /\ batch' = batch /\ saved' = saved
  BY DEF Legacy!OfferData
<1>2. 1..accepted \subseteq 1..(accepted + 1) /\ accepted + 1 \in 1..(accepted + 1)
  BY LegacyTypes
<1>3. dataQueue \in Seq(1..(accepted + 1))
  BY <1>2, LegacyTypes
<1>4. /\ dataQueue' \in Seq(1..(accepted + 1)) /\ dataQueue' # <<>>
      /\ Len(dataQueue') = Len(dataQueue) + 1
      /\ dataQueue'[Len(dataQueue) + 1] = accepted + 1
      /\ \A j \in 1..Len(dataQueue) : dataQueue'[j] = dataQueue[j]
  BY <1>1, <1>2, <1>3, AppendProperties
<1>5. Gone' = Gone
  <2>1. accepted' = accepted + 1 /\ Len(dataQueue') = Len(dataQueue) + 1
    BY <1>1, <1>4
  <2>2. accepted \in Nat /\ Len(dataQueue) \in Nat
    BY LegacyNumbers
  <2> QED
    BY <2>1, <2>2 DEF Gone
<1>6. QueueInOrder'
  <2>1. ASSUME NEW j \in 1..(Len(dataQueue) + 1) PROVE dataQueue'[j] = Gone + j
    <3>1. CASE j = Len(dataQueue) + 1
      BY <1>4, <3>1, LegacyTypes
    <3>2. CASE j # Len(dataQueue) + 1
      <4>1. j \in 1..Len(dataQueue)
        BY <3>2, LegacyTypes
      <4> QED
        BY <1>4, <4>1 DEF LegacyInv, QueueInOrder
    <3> QED
      BY <3>1, <3>2
  <2>2. accepted' = accepted + 1 /\ Len(dataQueue') = Len(dataQueue) + 1
    BY <1>1, <1>4
  <2>3. accepted' \in Nat /\ Len(dataQueue') <= accepted'
    <3>1. accepted \in Nat /\ Len(dataQueue) \in Nat /\ Len(dataQueue) <= accepted
      BY LegacyTypes DEF LegacyInv, QueueInOrder
    <3> QED
      BY <2>2, <3>1
  <2>4. \A j \in 1..Len(dataQueue') : dataQueue'[j] = Gone' + j
    BY <1>5, <2>1, <2>2
  <2> QED
    BY <2>3, <2>4 DEF QueueInOrder
<1>7. pushes' \in [Fillers -> 0..(2 * PushSize)]
  <2>1. pushes \in [Fillers -> 0..(2 * PushSize)] /\ PushSize \in Nat
    BY LegacyTypes
  <2>2. pushes[f] - 1 \in 0..(2 * PushSize)
    BY <1>1, <2>1
  <2> QED
    BY <1>1, <2>1, <2>2
<1>8. Legacy!TypeOK'
  BY <1>1, <1>2, <1>4, <1>7, LegacyTypes DEF Legacy!TypeOK
<1>9. Peeking' /\ Polling'
  BY <1>1, <1>4, <1>5 DEF LegacyInv, Peeking, Polling
<1> QED
  BY <1>1, <1>5, <1>6, <1>8, <1>9, LossKept DEF LegacyInv

LEMMA LegacyOffersControl ==
  ASSUME LegacyInv, NEW f \in Fillers, Legacy!OfferControl(f)
  PROVE  LegacyInv'
<1>1. /\ pushes[f] % 2 = 1 /\ pushes' = [pushes EXCEPT ![f] = @ - 1] /\ controlQueue' = 1
      /\ accepted' = accepted /\ dataQueue' = dataQueue /\ flushPc' = flushPc
      /\ copied' = copied /\ size' = size /\ batch' = batch /\ saved' = saved
  BY DEF Legacy!OfferControl, Legacy!Token
<1>2. pushes' \in [Fillers -> 0..(2 * PushSize)]
  <2>1. pushes[f] \in 0..(2 * PushSize) /\ 0 % 2 = 0
    BY LegacyTypes
  <2>2. pushes[f] - 1 \in 0..(2 * PushSize)
    BY <1>1, <2>1, LegacyNumbers
  <2> QED
    BY <1>1, <2>2, LegacyTypes
<1>3. Legacy!TypeOK'
  BY <1>1, <1>2, LegacyTypes DEF Legacy!TypeOK
<1>4. Gone' = Gone
  BY <1>1 DEF Gone
<1>5. QueueInOrder' /\ Peeking' /\ Polling'
  BY <1>1, <1>4 DEF LegacyInv, QueueInOrder, Peeking, Polling
<1> QED
  BY <1>1, <1>3, <1>4, <1>5, LossKept DEF LegacyInv

LEMMA LegacyPeeks == LegacyInv /\ Legacy!PeekEntry => LegacyInv'
<1> SUFFICES ASSUME LegacyInv, Legacy!PeekEntry PROVE LegacyInv'
  OBVIOUS
<1>1. /\ flushPc = "peek" /\ copied < BatchSize /\ dataQueue # <<>>
      /\ batch' = batch \cup {Head(dataQueue)} /\ size' = copied /\ copied' = copied + 1
      /\ dataQueue' = dataQueue /\ controlQueue' = controlQueue /\ pushes' = pushes
      /\ flushPc' = flushPc /\ accepted' = accepted /\ saved' = saved
  BY DEF Legacy!PeekEntry, Legacy!Copied
<1>2. Len(dataQueue) \in Nat \ {0} /\ Head(dataQueue) = dataQueue[1]
  BY <1>1, LegacyTypes, LastOfSequence
<1>3. Head(dataQueue) = Gone + 1 /\ Head(dataQueue) \in 1..accepted
  BY <1>2, LegacyTypes DEF LegacyInv, QueueInOrder
<1>4. batch' = {Gone + 1}
  <2>1. CASE copied = 0
    BY <1>1, <1>3, <2>1 DEF LegacyInv, Peeking
  <2>2. CASE copied # 0
    <3>1. copied > 0
      <4>1. copied \in Nat
        BY LegacyTypes
      <4> QED
        BY <2>2, <4>1
    <3>2. batch = {Gone + 1}
      BY <1>1, <3>1 DEF LegacyInv, Peeking
    <3> QED
      BY <1>1, <1>3, <3>2
  <2> QED
    BY <2>1, <2>2
<1>5. Gone' = Gone
  BY <1>1 DEF Gone
<1>6. Legacy!TypeOK'
  <2>1. /\ dataQueue' \in Seq(1..accepted) /\ controlQueue' \in 0..1
        /\ pushes' \in [Fillers -> 0..(2 * PushSize)] /\ flushPc' \in {"peek", "poll"}
        /\ batch' \subseteq 1..accepted /\ saved' \subseteq 1..accepted
    BY <1>1, <1>3, LegacyTypes
  <2>2. copied' \in 0..BatchSize /\ size' \in 0..(BatchSize - 1)
    BY <1>1, LegacyNumbers
  <2> QED
    BY <1>1, <2>1, <2>2 DEF Legacy!TypeOK
<1>7. QueueInOrder' /\ Peeking' /\ Polling'
  <2>1. QueueInOrder'
    BY <1>1, <1>5 DEF LegacyInv, QueueInOrder
  <2>2. size' = copied /\ copied' = copied + 1 /\ copied \in Nat
    BY <1>1, LegacyNumbers
  <2>3. Peeking'
    BY <1>1, <1>4, <1>5, <2>2 DEF LegacyInv, Peeking
  <2>4. Polling'
    BY <1>1 DEF Polling
  <2> QED
    BY <2>1, <2>3, <2>4
<1> QED
  BY <1>1, <1>5, <1>6, <1>7, LossKept DEF LegacyInv

LEMMA LegacySaves == LegacyInv /\ Legacy!Save => LegacyInv'
<1> SUFFICES ASSUME LegacyInv, Legacy!Save PROVE LegacyInv'
  OBVIOUS
<1>1. /\ flushPc = "peek" /\ flushPc' = "poll" /\ copied' = 0
      /\ saved' = IF size > 0 THEN saved \cup batch ELSE saved
      /\ dataQueue' = dataQueue /\ controlQueue' = controlQueue /\ pushes' = pushes
      /\ size' = size /\ batch' = batch /\ accepted' = accepted
  BY DEF Legacy!Save
<1>2. saved \subseteq saved' /\ saved' \subseteq 1..accepted
  BY <1>1, LegacyTypes
<1>3. Gone' = Gone
  BY <1>1 DEF Gone
<1>4. Legacy!TypeOK'
  BY <1>1, <1>2, LegacyTypes DEF Legacy!TypeOK
<1>5. QueueInOrder' /\ Peeking'
  BY <1>1, <1>3 DEF LegacyInv, QueueInOrder, Peeking
<1>6. saved \subseteq 1..Gone
  BY <1>1 DEF LegacyInv, Peeking
<1>7. Polling'
  <2>1. CASE size = 0
    BY <1>1, <1>3, <1>6, <2>1 DEF Polling
  <2>2. CASE size > 0
    <3>1. copied > 0
      BY <1>1, <2>2, LegacyTypes DEF LegacyInv, Peeking
    <3>2. batch = {Gone + 1} /\ dataQueue # <<>>
      BY <1>1, <3>1 DEF LegacyInv, Peeking
    <3>3. Gone + 1 \in saved' /\ saved' \subseteq 1..(Gone + 1)
      <4>1. saved' = saved \cup {Gone + 1}
        BY <1>1, <2>2, <3>2
      <4>2. 1..Gone \subseteq 1..(Gone + 1) /\ Gone + 1 \in 1..(Gone + 1)
        BY LegacyNumbers
      <4> QED
        BY <1>6, <4>1, <4>2
    <3>4. Gone + 1 <= (Gone + 1) + copied' /\ Gone + 1 <= Gone + 1 /\ copied' <= size
      BY <1>1, <2>2, LegacyNumbers
    <3> QED
      BY <1>1, <1>3, <2>2, <3>2, <3>3, <3>4 DEF Polling
  <2> QED
    BY <2>1, <2>2, LegacyTypes
<1> QED
  BY <1>2, <1>3, <1>4, <1>5, <1>7, LossKept DEF LegacyInv

LEMMA LegacyPolls == LegacyInv /\ Legacy!PollEntry => LegacyInv'
<1> SUFFICES ASSUME LegacyInv, Legacy!PollEntry PROVE LegacyInv'
  OBVIOUS
<1>1. /\ flushPc = "poll" /\ copied < size /\ copied' = copied + 1
      /\ dataQueue' = IF dataQueue = <<>> THEN <<>> ELSE Tail(dataQueue)
      /\ controlQueue' = controlQueue /\ pushes' = pushes /\ flushPc' = flushPc
      /\ size' = size /\ batch' = batch /\ accepted' = accepted /\ saved' = saved
  BY DEF Legacy!PollEntry, Legacy!Polls, Legacy!WithoutHead
<1>2. copied' \in 0..BatchSize /\ copied' <= size /\ size > 0
  BY <1>1, LegacyTypes
<1>3. PICK h \in saved : /\ saved \subseteq 1..h /\ h <= Gone + 1 /\ Gone + 1 <= h + copied
                         /\ copied > 0 => h <= Gone
                         /\ copied = 0 => dataQueue # <<>>
  BY <1>1, <1>2 DEF LegacyInv, Polling
<1>4. h \in Nat
  BY LegacyTypes
<1>7. /\ copied < size /\ copied' = copied + 1 /\ h \in Nat
      /\ h <= Gone + 1 /\ Gone + 1 <= h + copied /\ (copied > 0 => h <= Gone)
  BY <1>1, <1>3, <1>4
<1>5. CASE dataQueue = <<>>
  <2>1. dataQueue' = dataQueue /\ Gone' = Gone
    BY <1>1, <1>5 DEF Gone
  <2>2. Legacy!TypeOK'
    BY <1>1, <1>2, <2>1, LegacyTypes DEF Legacy!TypeOK
  <2>3. QueueInOrder' /\ Peeking'
    BY <1>1, <2>1 DEF LegacyInv, QueueInOrder, Peeking
  <2>4. Gone + 1 <= h + copied' /\ h <= Gone
    <3>1. copied # 0
      BY <1>3, <1>5
    <3> QED
      BY <1>7, <3>1, LegacyNumbers
  <2>5. copied' > 0 /\ copied' # 0
    BY <1>7, LegacyNumbers
  <2>6. Polling'
    BY <1>1, <1>2, <1>3, <2>1, <2>4, <2>5 DEF Polling
  <2> QED
    BY <1>1, <2>1, <2>2, <2>3, <2>6, LossKept DEF LegacyInv
<1>6. CASE dataQueue # <<>>
  <2>1. Len(dataQueue) \in Nat \ {0}
    BY <1>6, LegacyTypes, LastOfSequence
  <2>2. /\ dataQueue' \in Seq(1..accepted) /\ Len(dataQueue') = Len(dataQueue) - 1
        /\ \A j \in 1..(Len(dataQueue) - 1) : dataQueue'[j] = dataQueue[j + 1]
    BY <1>1, <1>6, LegacyTypes
  <2>3. Gone' = Gone + 1
    BY <1>1, <2>1, <2>2, LegacyTypes DEF Gone
  <2>4. Legacy!TypeOK'
    BY <1>1, <1>2, <2>2, LegacyTypes DEF Legacy!TypeOK
  <2>5. QueueInOrder'
    <3>1. ASSUME NEW j \in 1..(Len(dataQueue) - 1) PROVE dataQueue'[j] = (Gone + 1) + j
      <4>1. j + 1 \in 1..Len(dataQueue)
        BY <2>1
      <4>2. dataQueue[j + 1] = Gone + (j + 1)
        BY <4>1 DEF LegacyInv, QueueInOrder
      <4> QED
        BY <2>2, <4>2, LegacyTypes
    <3> QED
      BY <1>1, <2>1, <2>2, <2>3, <3>1, LegacyTypes DEF QueueInOrder
  <2>10. Gone \in Int /\ h \in Int /\ copied \in Nat
    BY <1>4, LegacyNumbers
  <2>6. h <= Gone' /\ Gone' + 1 <= h + copied'
    BY <1>7, <2>3, <2>10
  <2>9. h <= Gone' + 1 /\ copied' > 0 /\ copied' # 0
    BY <1>7, <2>3, <2>10
  <2>7. Peeking' /\ Polling'
    BY <1>1, <1>2, <1>3, <2>6, <2>9 DEF Peeking, Polling
  <2>8. Legacy!LossIsBounded'
    <3>1. Legacy!Polled = 1..Gone /\ Legacy!Polled' = 1..(Gone + 1)
      BY <1>1, <2>3 DEF Legacy!Polled, Gone
    <3>2. (Gone + 1) - h \in 0..(BatchSize - 2) /\ (Gone + 1) - ((Gone + 1) - h) = h
      <4>1. size <= BatchSize - 1 /\ size \in Nat /\ BatchSize \in Nat
        BY LegacyNumbers
      <4> QED
        BY <1>7, <2>10, <4>1
    <3>3. \E k \in 0..(BatchSize - 2) : (Gone + 1) - k \in saved
      BY <1>3, <3>2
    <3>4. ASSUME NEW n \in 1..(Gone + 1) PROVE \E k \in 0..(BatchSize - 2) : n - k \in saved
      <4>1. CASE n = Gone + 1
        BY <3>3, <4>1
      <4>2. CASE n # Gone + 1
        <5>1. n \in 1..Gone
          BY <4>2, LegacyNumbers
        <5> QED
          BY <3>1, <5>1 DEF LegacyInv, Legacy!LossIsBounded
      <4> QED
        BY <4>1, <4>2
    <3> QED
      BY <1>1, <3>1, <3>4 DEF Legacy!LossIsBounded
  <2> QED
    BY <2>4, <2>5, <2>7, <2>8 DEF LegacyInv
<1> QED
  BY <1>5, <1>6

LEMMA LegacyEndsRound == LegacyInv /\ Legacy!EndRound => LegacyInv'
<1> SUFFICES ASSUME LegacyInv, Legacy!EndRound PROVE LegacyInv'
  OBVIOUS
<1>1. /\ flushPc = "poll" /\ copied >= size /\ controlQueue' \in {0, controlQueue}
      /\ flushPc' = "peek" /\ copied' = 0 /\ size' = 0 /\ batch' = {}
      /\ dataQueue' = dataQueue /\ pushes' = pushes /\ accepted' = accepted /\ saved' = saved
  BY DEF Legacy!EndRound, Legacy!Polls
<1>2. Gone' = Gone
  BY <1>1 DEF Gone
<1>3. Legacy!TypeOK'
  BY <1>1, LegacyTypes DEF Legacy!TypeOK
<1>4. saved \subseteq 1..Gone
  <2>1. CASE size = 0
    BY <1>1, <2>1 DEF LegacyInv, Polling
  <2>2. CASE size > 0
    <3>1. PICK h \in saved : saved \subseteq 1..h /\ h <= Gone
      BY <1>1, <2>2, LegacyTypes DEF LegacyInv, Polling
    <3> QED
      BY <3>1, LegacyTypes
  <2> QED
    BY <2>1, <2>2, LegacyTypes
<1>5. QueueInOrder' /\ Peeking' /\ Polling'
  BY <1>1, <1>2, <1>4 DEF LegacyInv, QueueInOrder, Peeking, Polling
<1> QED
  BY <1>1, <1>2, <1>3, <1>5, LossKept DEF LegacyInv

LEMMA LegacySound ==
  Legacy!Spec => [](Legacy!TypeOK /\ Legacy!LossIsBounded /\ Legacy!HeadLeaves)
<1>1. LegacyInv /\ [Legacy!Next]_(Legacy!vars) => LegacyInv'
  <2> SUFFICES ASSUME LegacyInv, [Legacy!Next]_(Legacy!vars) PROVE LegacyInv'
    OBVIOUS
  <2>1. CASE UNCHANGED Legacy!vars
    <3>1. /\ dataQueue' = dataQueue /\ controlQueue' = controlQueue /\ pushes' = pushes
          /\ flushPc' = flushPc /\ copied' = copied /\ size' = size /\ batch' = batch
          /\ accepted' = accepted /\ saved' = saved
      BY <2>1 DEF Legacy!vars
    <3>2. Gone' = Gone
      BY <3>1 DEF Gone
    <3> QED
      BY <3>1, <3>2, LossKept DEF LegacyInv, QueueInOrder, Peeking, Polling, Legacy!TypeOK
  <2> QED
    BY <2>1, LegacyOffersData, LegacyOffersControl, LegacyPeeks, LegacySaves, LegacyPolls,
       LegacyEndsRound DEF Legacy!Next, Legacy!Flush
<1>2. LegacyInv => Legacy!TypeOK /\ Legacy!LossIsBounded /\ Legacy!HeadLeaves
  <2> SUFFICES ASSUME LegacyInv, flushPc = "peek" PROVE saved \cap Legacy!ToSet(dataQueue) = {}
    BY DEF LegacyInv, Legacy!HeadLeaves
  <2>1. saved \subseteq 1..Gone
    BY DEF LegacyInv, Peeking
  <2>2. Legacy!ToSet(dataQueue) = {dataQueue[j] : j \in 1..Len(dataQueue)}
    BY LegacyTypes DEF Legacy!ToSet
  <2>3. \A j \in 1..Len(dataQueue) : dataQueue[j] > Gone
    BY LegacyTypes DEF LegacyInv, QueueInOrder
  <2> QED
    BY <2>1, <2>2, <2>3, LegacyTypes
<1> QED
  BY <1>1, <1>2, LegacyStarts, PTL DEF Legacy!Spec

-----------------------------------------------------------------------------
(* The scheduler *)

\* Every option is made from the first snapshot, whichever run asks for it; a read
\* goes along the row of the first job, until it leaves it.
FirstSnapshot ==
  /\ \A p \in Scheduler!Pairs : /\ cached[p] = (IF runs = 0 THEN 0 ELSE 1)
                                /\ option[p] \in {0, 2}
                                /\ distances[p] \in {0, 2}
  /\ tasks # <<>> \/ schedulerPc # "idle" => runs > 0

Reading ==
  /\ allocations <= runs
  /\ schedulerPc \in {"submit", "read"} => allocations < runs
  /\ schedulerPc = "read" => job_j = cell /\ (cell < NumWorkers => job_i = 0)

PointBack == \A a \in Scheduler!Jobs : worker[a] # 0 => job[worker[a]] = a

SchedulerInv == Scheduler!TypeOK /\ FirstSnapshot /\ Reading /\ PointBack

LEMMA SchedulerTypes ==
  ASSUME SchedulerInv
  PROVE  /\ NumJobs \in Nat /\ NumWorkers \in Nat /\ MaxRuns \in Nat
         /\ Scheduler!NumPairs \in Nat
         /\ schedulerPc \in {"idle", "submit", "read", "thrown"}
         /\ runs \in 0..MaxRuns /\ allocations \in 0..MaxRuns
         /\ cached \in [Scheduler!Pairs -> 0..MaxRuns]
         /\ option \in [Scheduler!Pairs -> 0..(MaxRuns + 1)]
         /\ tasks \in Seq(Scheduler!Pairs)
         /\ submitted \in 0..Scheduler!NumPairs /\ cell \in 0..Scheduler!NumPairs
         /\ job_i \in 0..NumJobs /\ job_j \in 0..NumWorkers
         /\ distances \in [Scheduler!Pairs -> 0..(MaxRuns + 1)]
         /\ worker \in [Scheduler!Jobs -> Scheduler!Workers \cup {0}]
         /\ job \in [Scheduler!Workers -> Scheduler!Jobs \cup {0}]
<1>1. NumJobs \in Nat /\ NumWorkers \in Nat /\ MaxRuns \in Nat
  BY ServicesAssumption DEF Scheduler!SchedulerAssumption
<1>2. Scheduler!NumPairs \in Nat
  BY <1>1 DEF Scheduler!NumPairs
<1> QED
  BY <1>1, <1>2 DEF SchedulerInv, Scheduler!TypeOK, Scheduler!None

LEMMA SchedulerStarts == Scheduler!Init => SchedulerInv
<1> SUFFICES ASSUME Scheduler!Init PROVE SchedulerInv
  OBVIOUS
<1>1. NumJobs \in Nat /\ NumWorkers \in Nat /\ MaxRuns \in Nat
  BY ServicesAssumption DEF Scheduler!SchedulerAssumption
<1>2. Scheduler!NumPairs \in Nat
  BY <1>1 DEF Scheduler!NumPairs
<1>3. 0 \in 0..MaxRuns /\ 0 \in 0..(MaxRuns + 1) /\ 0 \in 0..NumJobs /\ 0 \in 0..NumWorkers
      /\ 0 \in 0..Scheduler!NumPairs
  BY <1>1, <1>2
<1>4. Scheduler!TypeOK
  BY <1>3 DEF Scheduler!Init, Scheduler!TypeOK, Scheduler!None
<1>5. FirstSnapshot /\ Reading /\ PointBack
  BY DEF Scheduler!Init, FirstSnapshot, Reading, PointBack, Scheduler!None
<1> QED
  BY <1>4, <1>5 DEF SchedulerInv

LEMMA PairsInRange ==
  ASSUME NumJobs \in Nat, NumWorkers \in Nat, NEW n \in Nat, n < Scheduler!NumPairs
  PROVE  NumWorkers > 0 /\ NumJobs > 0 /\ Scheduler!PairAt(n) \in Scheduler!Pairs
<1>1. NumWorkers > 0 /\ NumJobs > 0
  BY DEF Scheduler!NumPairs
<1>2. n \div NumWorkers \in Nat /\ n % NumWorkers \in 0..(NumWorkers - 1)
      /\ n = NumWorkers * (n \div NumWorkers) + (n % NumWorkers)
  BY <1>1
<1>3. n \div NumWorkers < NumJobs
  <2> DEFINE q == n \div NumWorkers
  <2> SUFFICES ASSUME q >= NumJobs PROVE FALSE
    BY <1>2
  <2>1. PICK e \in Nat : q = NumJobs + e
    BY <1>2
  <2>2. NumWorkers * q = NumJobs * NumWorkers + NumWorkers * e /\ NumWorkers * e >= 0
    BY <2>1
  <2> QED
    BY <1>2, <2>2 DEF Scheduler!NumPairs
<1> QED
  BY <1>1, <1>2, <1>3 DEF Scheduler!PairAt, Scheduler!Pairs, Scheduler!Jobs, Scheduler!Workers

LEMMA SchedulerRuns == SchedulerInv /\ Scheduler!Run => SchedulerInv'
<1> SUFFICES ASSUME SchedulerInv, Scheduler!Run PROVE SchedulerInv'
  OBVIOUS
<1>1. /\ schedulerPc = "idle" /\ runs < MaxRuns /\ runs' = runs + 1
      /\ cached' = [p \in Scheduler!Pairs |-> Scheduler!GetOption(p, runs + 1)]
      /\ schedulerPc' = "submit" /\ submitted' = 0 /\ option' = option /\ tasks' = tasks
      /\ job_i' = job_i /\ job_j' = job_j /\ cell' = cell /\ distances' = distances
      /\ worker' = worker /\ job' = job /\ allocations' = allocations
  BY DEF Scheduler!Run
<1>2. runs' \in 0..MaxRuns /\ runs' # 0 /\ runs' > 0 /\ allocations < runs'
      /\ 0 \in 0..Scheduler!NumPairs
  BY <1>1, SchedulerTypes DEF SchedulerInv, Reading
<1>3. ASSUME NEW p \in Scheduler!Pairs PROVE cached'[p] = 1
  <2>1. cached[p] = (IF runs = 0 THEN 0 ELSE 1)
    BY DEF SchedulerInv, FirstSnapshot
  <2>2. cached'[p] = IF cached[p] # 0 THEN cached[p] ELSE runs + 1
    BY <1>1 DEF Scheduler!GetOption, Scheduler!None
  <2> QED
    BY <2>1, <2>2
<1>4. cached' \in [Scheduler!Pairs -> 0..MaxRuns]
  <2>1. 1 \in 0..MaxRuns
    BY <1>1, SchedulerTypes
  <2> QED
    BY <1>1, <1>3, <2>1
<1>5. Scheduler!TypeOK'
  BY <1>1, <1>2, <1>4 DEF SchedulerInv, Scheduler!TypeOK
<1>6. FirstSnapshot'
  BY <1>1, <1>2, <1>3 DEF SchedulerInv, FirstSnapshot
<1>7. Reading' /\ PointBack'
  BY <1>1, <1>2, SchedulerTypes DEF SchedulerInv, Reading, PointBack
<1> QED
  BY <1>5, <1>6, <1>7 DEF SchedulerInv

LEMMA SchedulerSubmits == SchedulerInv /\ Scheduler!Submit => SchedulerInv'
<1> SUFFICES ASSUME SchedulerInv, Scheduler!Submit PROVE SchedulerInv'
  OBVIOUS
<1>1. /\ schedulerPc = "submit" /\ submitted < Scheduler!NumPairs
      /\ tasks' = Append(tasks, Scheduler!PairAt(submitted)) /\ submitted' = submitted + 1
      /\ schedulerPc' = schedulerPc /\ runs' = runs /\ cached' = cached /\ option' = option
      /\ job_i' = job_i /\ job_j' = job_j /\ cell' = cell /\ distances' = distances
      /\ worker' = worker /\ job' = job /\ allocations' = allocations
  BY DEF Scheduler!Submit
<1>2. submitted \in Nat /\ submitted' \in 0..Scheduler!NumPairs
  BY <1>1, SchedulerTypes
<1>3. Scheduler!PairAt(submitted) \in Scheduler!Pairs
  BY <1>1, <1>2, SchedulerTypes, PairsInRange
<1>4. tasks' \in Seq(Scheduler!Pairs)
  <2> DEFINE s == tasks
             e == Scheduler!PairAt(submitted)
             S == Scheduler!Pairs
  <2>1. s \in Seq(S) /\ e \in S
    BY <1>3, SchedulerTypes
  <2>2. tasks' = Append(s, e)
    BY <1>1
  <2> HIDE DEF s, e, S
  <2>3. Append(s, e) \in Seq(S)
    BY <2>1, AppendProperties
  <2> QED
    BY <2>2, <2>3 DEF S
<1>5. Scheduler!TypeOK'
  BY <1>1, <1>2, <1>4 DEF SchedulerInv, Scheduler!TypeOK
<1>6. FirstSnapshot' /\ Reading' /\ PointBack'
  BY <1>1 DEF SchedulerInv, FirstSnapshot, Reading, PointBack
<1> QED
  BY <1>5, <1>6 DEF SchedulerInv

LEMMA SchedulerBeginsRead == SchedulerInv /\ Scheduler!BeginRead => SchedulerInv'
<1> SUFFICES ASSUME SchedulerInv, Scheduler!BeginRead PROVE SchedulerInv'
  OBVIOUS
<1>1. /\ schedulerPc = "submit" /\ schedulerPc' = "read"
      /\ job_i' = 0 /\ job_j' = 0 /\ cell' = 0 /\ tasks' = tasks /\ submitted' = submitted
      /\ runs' = runs /\ cached' = cached /\ option' = option /\ distances' = distances
      /\ worker' = worker /\ job' = job /\ allocations' = allocations
  BY DEF Scheduler!BeginRead
<1>2. 0 \in 0..NumJobs /\ 0 \in 0..NumWorkers /\ 0 \in 0..Scheduler!NumPairs
  BY SchedulerTypes
<1>3. Scheduler!TypeOK'
  BY <1>1, <1>2 DEF SchedulerInv, Scheduler!TypeOK
<1>4. FirstSnapshot' /\ Reading' /\ PointBack'
  BY <1>1 DEF SchedulerInv, FirstSnapshot, Reading, PointBack
<1> QED
  BY <1>3, <1>4 DEF SchedulerInv

LEMMA SchedulerCalculates == SchedulerInv /\ Scheduler!Calculate => SchedulerInv'
<1> SUFFICES ASSUME SchedulerInv, Scheduler!Calculate PROVE SchedulerInv'
  OBVIOUS
<1> DEFINE h == Head(tasks)
<1>1. /\ tasks # <<>> /\ option' = [option EXCEPT ![h] = Scheduler!Calculated(h)]
      /\ tasks' = Tail(tasks) /\ schedulerPc' = schedulerPc /\ submitted' = submitted
      /\ job_i' = job_i /\ job_j' = job_j /\ cell' = cell
      /\ runs' = runs /\ cached' = cached /\ distances' = distances
      /\ worker' = worker /\ job' = job /\ allocations' = allocations
  BY DEF Scheduler!Calculate, Scheduler!TasksLeft
<1>2. h \in Scheduler!Pairs /\ tasks' \in Seq(Scheduler!Pairs)
  <2> DEFINE s == tasks
             S == Scheduler!Pairs
  <2>1. s \in Seq(S) /\ s # <<>>
    BY <1>1, SchedulerTypes
  <2>2. tasks' = Tail(s) /\ h = Head(s)
    BY <1>1
  <2> HIDE DEF s, S, h
  <2>3. Head(s) \in S /\ Tail(s) \in Seq(S)
    BY <2>1, HeadTailProperties
  <2> QED
    BY <2>2, <2>3 DEF S
<1> HIDE DEF h
<1>3. Scheduler!Calculated(h) = 2
  <2>1. runs > 0 /\ runs # 0
    BY <1>1, SchedulerTypes DEF SchedulerInv, FirstSnapshot
  <2>2. cached[h] = 1
    BY <1>2, <2>1 DEF SchedulerInv, FirstSnapshot
  <2> QED
    BY <2>2 DEF Scheduler!Calculated, Scheduler!Distance
<1>4. 2 \in 0..(MaxRuns + 1) /\ runs > 0
  BY <1>1, SchedulerTypes DEF SchedulerInv, FirstSnapshot
<1>5. /\ option' \in [Scheduler!Pairs -> 0..(MaxRuns + 1)]
      /\ \A p \in Scheduler!Pairs : option'[p] \in {0, 2}
  BY <1>1, <1>2, <1>3, <1>4, SchedulerTypes DEF SchedulerInv, FirstSnapshot
<1>6. Scheduler!TypeOK'
  BY <1>1, <1>2, <1>5 DEF SchedulerInv, Scheduler!TypeOK
<1>7. FirstSnapshot' /\ Reading' /\ PointBack'
  BY <1>1, <1>4, <1>5 DEF SchedulerInv, FirstSnapshot, Reading, PointBack
<1> QED
  BY <1>6, <1>7 DEF SchedulerInv

LEMMA SchedulerReads == SchedulerInv /\ Scheduler!ReadResult => SchedulerInv'
<1> SUFFICES ASSUME SchedulerInv, Scheduler!ReadResult PROVE SchedulerInv'
  OBVIOUS
<1> DEFINE p == Scheduler!PairAt(cell)
<1>1. /\ schedulerPc = "read" /\ cell < Scheduler!NumPairs
      /\ runs' = runs /\ cached' = cached /\ option' = option /\ tasks' = tasks
      /\ submitted' = submitted /\ worker' = worker /\ job' = job
      /\ allocations' = allocations
      /\ IF job_j + 1 \in Scheduler!Workers
         THEN /\ distances' = [distances EXCEPT ![<<job_i + 1, job_j + 1>>] = option[p]]
              /\ job_j' = job_j + 1
              /\ job_i' = IF p[2] = NumWorkers THEN job_i + 1 ELSE job_i
              /\ cell' = cell + 1 /\ schedulerPc' = schedulerPc
         ELSE /\ schedulerPc' = "thrown" /\ distances' = distances
              /\ job_i' = job_i /\ job_j' = job_j /\ cell' = cell
  BY DEF Scheduler!ReadResult, Scheduler!Column
<1>2. CASE job_j + 1 \notin Scheduler!Workers
  <2>1. Scheduler!TypeOK'
    BY <1>1, <1>2 DEF SchedulerInv, Scheduler!TypeOK
  <2>2. FirstSnapshot'
    BY <1>1, <1>2 DEF SchedulerInv, FirstSnapshot
  <2>3. Reading' /\ PointBack'
    BY <1>1, <1>2 DEF SchedulerInv, Reading, PointBack
  <2> QED
    BY <2>1, <2>2, <2>3 DEF SchedulerInv
<1>3. CASE job_j + 1 \in Scheduler!Workers
  <2>1. NumWorkers \in Nat /\ NumJobs \in Nat /\ cell \in Nat /\ job_j = cell
    BY <1>1, SchedulerTypes DEF SchedulerInv, Reading
  <2>2. cell + 1 \in 1..NumWorkers /\ cell < NumWorkers /\ job_i = 0
    <3>1. cell + 1 \in 1..NumWorkers /\ cell < NumWorkers
      BY <1>3, <2>1 DEF Scheduler!Workers
    <3> QED
      BY <1>1, <3>1 DEF SchedulerInv, Reading
  <2>3. p \in Scheduler!Pairs /\ NumJobs > 0
    BY <1>1, <2>1, PairsInRange
  <2>4. p[2] = cell + 1
    <3>1. cell % NumWorkers = cell
      BY <2>1, <2>2
    <3> QED
      BY <3>1, <2>1 DEF Scheduler!PairAt
  <2> HIDE DEF p
  <2>5. /\ job_j' = cell + 1 /\ cell' = cell + 1 /\ schedulerPc' = schedulerPc
        /\ distances' = [distances EXCEPT ![<<1, cell + 1>>] = option[p]]
        /\ job_i' = IF cell + 1 = NumWorkers THEN 1 ELSE 0
    BY <1>1, <1>3, <2>1, <2>2, <2>4
  <2>6. /\ job_j' \in 0..NumWorkers /\ cell' \in 0..Scheduler!NumPairs
        /\ job_i' \in 0..NumJobs /\ (cell' < NumWorkers => job_i' = 0)
    <3>1. Scheduler!NumPairs \in Nat /\ NumJobs > 0
      BY <2>3, SchedulerTypes
    <3> QED
      BY <1>1, <2>1, <2>2, <2>5, <3>1
  <2>7. <<1, cell + 1>> \in Scheduler!Pairs
    BY <2>1, <2>2, <2>3 DEF Scheduler!Pairs, Scheduler!Jobs, Scheduler!Workers
  <2>8. /\ distances' \in [Scheduler!Pairs -> 0..(MaxRuns + 1)]
        /\ \A q \in Scheduler!Pairs : distances'[q] \in {0, 2}
    <3>1. option[p] \in 0..(MaxRuns + 1) /\ option[p] \in {0, 2}
      BY <2>3, SchedulerTypes DEF SchedulerInv, FirstSnapshot
    <3>2. /\ distances \in [Scheduler!Pairs -> 0..(MaxRuns + 1)]
          /\ \A q \in Scheduler!Pairs : distances[q] \in {0, 2}
      BY SchedulerTypes DEF SchedulerInv, FirstSnapshot
    <3> QED
      BY <2>5, <2>7, <3>1, <3>2
  <2>9. Scheduler!TypeOK'
    BY <1>1, <2>5, <2>6, <2>8 DEF SchedulerInv, Scheduler!TypeOK
  <2>10. FirstSnapshot'
    BY <1>1, <2>5, <2>8 DEF SchedulerInv, FirstSnapshot
  <2>11. Reading' /\ PointBack'
    BY <1>1, <2>5, <2>6 DEF SchedulerInv, Reading, PointBack
  <2> QED
    BY <2>9, <2>10, <2>11 DEF SchedulerInv
<1> QED
  BY <1>2, <1>3

LEMMA SchedulerAllocates == SchedulerInv /\ Scheduler!Allocate => SchedulerInv'
<1> SUFFICES ASSUME SchedulerInv, Scheduler!Allocate PROVE SchedulerInv'
  OBVIOUS
<1>1. PICK a \in Scheduler!Allocations : worker' = a /\ job' = Scheduler!JobsAfter(a)
  BY DEF Scheduler!Allocate
<1>2. /\ schedulerPc = "read" /\ schedulerPc' = "idle" /\ allocations' = allocations + 1
      /\ runs' = runs /\ cached' = cached /\ option' = option /\ tasks' = tasks
      /\ submitted' = submitted /\ job_i' = job_i /\ job_j' = job_j /\ cell' = cell
      /\ distances' = distances
  BY DEF Scheduler!Allocate
<1>3. /\ a \in [Scheduler!Jobs -> Scheduler!Workers]
      /\ \A b, c \in Scheduler!Jobs : a[b] = a[c] => b = c
  BY DEF Scheduler!Allocations, Scheduler!IsInjective
<1>4. ASSUME NEW b \in Scheduler!Jobs PROVE job'[worker'[b]] = b
  <2>1. a[b] \in Scheduler!Workers
    BY <1>3
  <2>2. (CHOOSE c \in Scheduler!Jobs : a[c] = a[b]) = b
    BY <1>3
  <2> QED
    BY <1>1, <2>1, <2>2 DEF Scheduler!JobsAfter
<1>5. /\ worker' \in [Scheduler!Jobs -> Scheduler!Workers \cup {0}]
      /\ job' \in [Scheduler!Workers -> Scheduler!Jobs \cup {0}]
  <2>1. ASSUME NEW w \in Scheduler!Workers
        PROVE  (IF \E b \in Scheduler!Jobs : a[b] = w
                THEN CHOOSE b \in Scheduler!Jobs : a[b] = w ELSE job[w])
                 \in Scheduler!Jobs \cup {0}
    BY SchedulerTypes
  <2> QED
    BY <1>1, <1>3, <2>1 DEF Scheduler!JobsAfter
<1>6. allocations' \in 0..MaxRuns /\ allocations' <= runs
  BY <1>2, SchedulerTypes DEF SchedulerInv, Reading
<1>7. Scheduler!TypeOK'
  BY <1>2, <1>5, <1>6 DEF SchedulerInv, Scheduler!TypeOK, Scheduler!None
<1>8. FirstSnapshot' /\ Reading' /\ PointBack'
  BY <1>2, <1>4, <1>6 DEF SchedulerInv, FirstSnapshot, Reading, PointBack
<1> QED
  BY <1>7, <1>8 DEF SchedulerInv

LEMMA SchedulerSound ==
  Scheduler!Spec =>
    [](Scheduler!TypeOK /\ Scheduler!ZeroOrFirstDistance /\ Scheduler!WorkerHasJob)
<1>1. SchedulerInv /\ [Scheduler!Next]_(Scheduler!vars) => SchedulerInv'
  <2> SUFFICES ASSUME SchedulerInv, [Scheduler!Next]_(Scheduler!vars) PROVE SchedulerInv'
    OBVIOUS
  <2>1. CASE UNCHANGED Scheduler!vars
    BY <2>1 DEF Scheduler!vars, SchedulerInv, Scheduler!TypeOK, FirstSnapshot, Reading,
                PointBack
  <2> QED
    BY <2>1, SchedulerRuns, SchedulerSubmits, SchedulerBeginsRead, SchedulerCalculates,
       SchedulerReads, SchedulerAllocates DEF Scheduler!Next
<1>2. SchedulerInv =>
        Scheduler!TypeOK /\ Scheduler!ZeroOrFirstDistance /\ Scheduler!WorkerHasJob
  BY DEF SchedulerInv, FirstSnapshot, PointBack, Scheduler!ZeroOrFirstDistance,
         Scheduler!WorkerHasJob, Scheduler!Distance, Scheduler!None
<1> QED
  BY <1>1, <1>2, SchedulerStarts, PTL DEF Scheduler!Spec

-----------------------------------------------------------------------------
(* What the run checks *)

\* Whatever the matrix: the rounds come to nothing, the search keeps the columns
\* apart, and what is returned costs least.  And however many jobs and workers:
\* the distances are those of the first snapshot, or none yet, and a job's worker
\* has that job.
THEOREM AllocationsAreSound == AllSpec => []AllocationsSound
<1>1. Spec => []AllocInv
  BY AllocationStarts, AllocationSteps, PTL DEF Spec
<1>2. AllocInv => /\ TypeOK /\ NonNegative /\ RoundsComeToNothing
                  /\ PartialAllocation /\ Optimal
  BY AllocationSound DEF AllocInv
<1> QED
  BY <1>1, <1>2, EachAlone, SchedulerSound, PTL DEF AllocationsSound

\* Whatever the number of readers, slots, messages, sessions, fillers and entries:
\* messages are read and buffered in their order, and the earlier persist queue
\* loses a bounded number in a row.
THEOREM MessagesAreInOrder == AllSpec => []MessagesInOrder
BY EachAlone, RingSound, MeshRefines, ConsumerSound, LegacySound, PTL DEF MessagesInOrder

\* While there are fewer messages than slots the ring implements the broadcast:
\* every step of it is one of the broadcast's, or changes nothing there.
THEOREM RingIsBroadcast == AllSpec => BroadcastImplemented
BY EachAlone, MeshRefines DEF BroadcastImplemented
=============================================================================
