---------------------------- MODULE ScriptsProofs ----------------------------
(***************************************************************************)
(* For any document tree, handlers, event names and tests: the browser has *)
(* the responders of the registry, an event serves what stays on its way,  *)
(* the tests are isolated and the result agrees with the log.              *)
(***************************************************************************)
EXTENDS MCScripts, FiniteSetTheorems, SequenceTheorems, TLAPS

-----------------------------------------------------------------------------
(* Filtered sequences *)

Responders == [uid : Nat, name : Registry!Names, handler : Handlers, id : Nat]

\* Later responders are later in a sequence.
Ordered(s) == \A i, j \in 1..Len(s) : i < j => s[i].id < s[j].id

\* Induction up to a number, by a least counterexample.
LEMMA LeastSet ==
  ASSUME NEW S, IsFiniteSet(S)
  PROVE  \A F \in SUBSET (SUBSET S) :
            F # {} => \E s \in F : \A t \in F : t \subseteq s => t = s
<1> SUFFICES ASSUME NEW F \in SUBSET (SUBSET S), F # {}
             PROVE  \E s \in F : \A t \in F : t \subseteq s => t = s
  OBVIOUS
<1>1. FiniteSubsetsOf(S) = SUBSET S
  BY FS_FiniteSubsetsOfFinite
<1>2. IsWellFoundedOn(StrictSubsetOrdering(S), SUBSET S)
  BY <1>1, FS_StrictSubsetOrderingWellFounded
<1>3. PICK s \in F : \A t \in F : ~ (<<t, s>> \in StrictSubsetOrdering(S))
  BY <1>2, WFMin
<1>4. ASSUME NEW t \in F, t \subseteq s, t # s PROVE FALSE
  <2>1. <<t, s>> \in StrictSubsetOrdering(S)
    BY <1>4 DEF StrictSubsetOrdering
  <2> QED
    BY <1>3, <2>1
<1> QED
  BY <1>4

LEMMA UpTo ==
  ASSUME NEW n \in Nat, NEW S, 0 \in S, \A k \in 0..(n - 1) : k \in S => k + 1 \in S
  PROVE  \A k \in 0..n : k \in S
<1> SUFFICES ASSUME NEW j \in 0..n, j \notin S PROVE FALSE
  OBVIOUS
<1> DEFINE I == 0..n
           T == {0..k : k \in {l \in 0..n : l \notin S}}
<1>1. IsFiniteSet(I)
  BY FS_Interval
<1>2. T \in SUBSET (SUBSET I) /\ T # {}
  OBVIOUS
<1>3. PICK s \in T : \A t \in T : t \subseteq s => t = s
  <2> HIDE DEF I, T
  <2> QED
    BY <1>1, <1>2, LeastSet
<1>4. PICK k \in 0..n : k \notin S /\ s = 0..k
  BY <1>3
<1>5. k # 0 /\ k - 1 \in 0..(n - 1) /\ (k - 1) + 1 = k
  BY <1>4
<1>6. k - 1 \notin S
  BY <1>4, <1>5
<1>7. 0..(k - 1) \in T /\ 0..(k - 1) \subseteq s
  BY <1>4, <1>5, <1>6
<1>8. 0..(k - 1) = 0..k
  BY <1>3, <1>4, <1>7
<1> QED
  BY <1>5, <1>8

LEMMA InSequence ==
  ASSUME NEW T, NEW s \in Seq(T)
  PROVE  /\ Len(s) \in Nat
         /\ \A x : x \in Registry!ToSet(s) <=> \E i \in 1..Len(s) : s[i] = x
         /\ Registry!ToSet(s) \subseteq T
         /\ s = <<>> <=> Registry!ToSet(s) = {}
BY DEF Registry!ToSet

Kept(s, chosen) ==
  CHOOSE kept : kept = [n \in 0..Len(s) |->
        IF n = 0 THEN <<>>
        ELSE IF s[n] \in chosen THEN Append(kept[n - 1], s[n]) ELSE kept[n - 1]]

LEMMA KeptExists ==
  ASSUME NEW s, Len(s) \in Nat, NEW chosen
  PROVE  /\ Kept(s, chosen)[0] = <<>>
         /\ \A n \in 1..Len(s) :
              Kept(s, chosen)[n] = IF s[n] \in chosen THEN Append(Kept(s, chosen)[n - 1], s[n])
                                   ELSE Kept(s, chosen)[n - 1]
<1> DEFINE Step(f, n) == IF n = 0 THEN <<>>
                         ELSE IF s[n] \in chosen THEN Append(f[n - 1], s[n]) ELSE f[n - 1]
           K == {k \in Nat : \E f : f = [n \in 0..k |-> Step(f, n)]}
<1>1. 0 \in K
  <2>1. \A f : [n \in 0..0 |-> Step(f, n)] = [n \in 0..0 |-> <<>>]
    OBVIOUS
  <2> QED
    BY <2>1
<1>2. ASSUME NEW k \in Nat, k \in K PROVE k + 1 \in K
  <2>1. PICK f : f = [n \in 0..k |-> Step(f, n)]
    BY <1>2
  <2> DEFINE g == [n \in 0..(k + 1) |-> Step(f, n)]
  <2>2. ASSUME NEW n \in 0..(k + 1) PROVE Step(g, n) = Step(f, n)
    <3>1. CASE n = 0
      BY <3>1
    <3>2. CASE n # 0
      <4>1. n - 1 \in 0..k /\ n - 1 \in 0..(k + 1)
        BY <3>2
      <4> HIDE DEF Step
      <4>2. g[n - 1] = f[n - 1]
        BY <2>1, <4>1
      <4> HIDE DEF g
      <4> QED
        BY <4>2, <3>2 DEF Step
    <3> QED
      BY <3>1, <3>2
  <2>3. g = [n \in 0..(k + 1) |-> Step(g, n)]
    BY <2>2
  <2>4. \E all : all = [n \in 0..(k + 1) |-> Step(all, n)]
    <3> HIDE DEF g, Step
    <3> QED
      BY <2>3
  <2> QED
    <3> HIDE DEF Step
    <3> QED
      BY <2>4
<1>3. Len(s) \in K
  <2> DEFINE n == Len(s)
  <2>1. \A k \in 0..(n - 1) : k \in K => k + 1 \in K
    BY <1>2
  <2>2. n \in Nat /\ n \in 0..n
    OBVIOUS
  <2> HIDE DEF K, n
  <2>3. \A k \in 0..n : k \in K
    BY <1>1, <2>1, <2>2, UpTo
  <2> QED
    BY <2>2, <2>3 DEF n
<1>4. \E f : f = [n \in 0..Len(s) |-> Step(f, n)]
  <2> HIDE DEF Step
  <2> QED
    BY <1>3
<1>5. Kept(s, chosen) = [n \in 0..Len(s) |-> Step(Kept(s, chosen), n)]
  BY <1>4 DEF Kept
<1> DEFINE kept == Kept(s, chosen)
<1>6. \A n \in 0..Len(s) : kept[n] = Step(kept, n)
  BY <1>5
<1> HIDE DEF kept
<1>7. kept[0] = <<>>
  BY <1>6
<1>8. \A n \in 1..Len(s) : kept[n] = IF s[n] \in chosen THEN Append(kept[n - 1], s[n]) ELSE kept[n - 1]
  <2> SUFFICES ASSUME NEW n \in 1..Len(s)
               PROVE  kept[n] = IF s[n] \in chosen THEN Append(kept[n - 1], s[n]) ELSE kept[n - 1]
    OBVIOUS
  <2>1. n \in 0..Len(s) /\ n # 0
    OBVIOUS
  <2> QED
    BY <1>6, <2>1
<1> QED
  BY <1>7, <1>8 DEF kept

LEMMA OnlyIsKept == \A s, chosen : Registry!Only(s, chosen) = Kept(s, chosen)[Len(s)]
BY DEF Registry!Only, Kept

\* What a filter keeps: the chosen ones, in order.
LEMMA OnlyFacts ==
  ASSUME NEW s \in Seq(Responders), NEW chosen
  PROVE  /\ Registry!Only(s, chosen) \in Seq(Responders)
         /\ \A x : x \in Registry!ToSet(Registry!Only(s, chosen))
                     <=> x \in Registry!ToSet(s) /\ x \in chosen
         /\ Ordered(s) => Ordered(Registry!Only(s, chosen))
<1> DEFINE kept == Kept(s, chosen)
           From(n) == \A j \in 1..Len(kept[n]) : \E i \in 1..n : kept[n][j] = s[i] /\ s[i] \in chosen
           All(n) == \A i \in 1..n : s[i] \in chosen => \E j \in 1..Len(kept[n]) : kept[n][j] = s[i]
           K == {n \in 0..Len(s) : /\ kept[n] \in Seq(Responders) /\ From(n) /\ All(n)
                                   /\ Ordered(s) => Ordered(kept[n])}
<1>1. /\ Len(s) \in Nat /\ \A i \in 1..Len(s) : s[i] \in Responders
      /\ Registry!Only(s, chosen) = kept[Len(s)]
      /\ kept[0] = <<>>
      /\ \A n \in 1..Len(s) :
           kept[n] = IF s[n] \in chosen THEN Append(kept[n - 1], s[n]) ELSE kept[n - 1]
  <2>1. Len(s) \in Nat /\ \A i \in 1..Len(s) : s[i] \in Responders
    OBVIOUS
  <2> QED
    BY <2>1, KeptExists, OnlyIsKept
<1> HIDE DEF kept
<1>2. 0 \in K
  <2>1. kept[0] = <<>> /\ Len(kept[0]) = 0 /\ 0 \in 0..Len(s)
    BY <1>1
  <2>2. From(0) /\ All(0) /\ Ordered(kept[0])
    BY <2>1 DEF Ordered
  <2>3. kept[0] \in Seq(Responders)
    BY <2>1
  <2> HIDE DEF From, All
  <2> QED
    BY <2>1, <2>2, <2>3
<1>3. ASSUME NEW n \in 0..(Len(s) - 1), n \in K PROVE n + 1 \in K
  <2>1. /\ kept[n] \in Seq(Responders) /\ Len(kept[n]) \in Nat /\ From(n) /\ All(n)
        /\ Ordered(s) => Ordered(kept[n])
    BY <1>3
  <2>2. n + 1 \in 1..Len(s) /\ (n + 1) - 1 = n /\ s[n + 1] \in Responders /\ n \in Nat
    BY <1>1
  <2>3. CASE s[n + 1] \in chosen
    <3>1. kept[n + 1] = Append(kept[n], s[n + 1])
      BY <1>1, <2>2, <2>3
    <3>2. /\ kept[n + 1] \in Seq(Responders) /\ Len(kept[n + 1]) = Len(kept[n]) + 1
          /\ kept[n + 1][Len(kept[n]) + 1] = s[n + 1]
          /\ \A j \in 1..Len(kept[n]) : kept[n + 1][j] = kept[n][j]
      BY <2>1, <2>2, <3>1, AppendProperties
    <3>3. From(n + 1)
      <4> SUFFICES ASSUME NEW j \in 1..(Len(kept[n]) + 1)
                   PROVE  \E i \in 1..(n + 1) : kept[n + 1][j] = s[i] /\ s[i] \in chosen
        BY <3>2
      <4>1. CASE j = Len(kept[n]) + 1
        BY <2>2, <2>3, <3>2, <4>1
      <4>2. CASE j # Len(kept[n]) + 1
        <5>1. j \in 1..Len(kept[n])
          BY <2>1, <4>2
        <5>2. PICK i \in 1..n : kept[n][j] = s[i] /\ s[i] \in chosen
          BY <2>1, <5>1
        <5> QED
          BY <2>2, <3>2, <5>1, <5>2
      <4> QED
        BY <4>1, <4>2
    <3>4. All(n + 1)
      <4> SUFFICES ASSUME NEW i \in 1..(n + 1), s[i] \in chosen
                   PROVE  \E j \in 1..(Len(kept[n]) + 1) : kept[n + 1][j] = s[i]
        BY <3>2
      <4>1. CASE i = n + 1
        <5>1. Len(kept[n]) + 1 \in 1..(Len(kept[n]) + 1)
          BY <2>1
        <5>2. kept[n + 1][Len(kept[n]) + 1] = s[i]
          BY <3>2, <4>1
        <5> QED
          BY <5>1, <5>2
      <4>2. CASE i # n + 1
        <5>1. i \in 1..n
          BY <2>2, <4>2
        <5>2. PICK j \in 1..Len(kept[n]) : kept[n][j] = s[i]
          BY <2>1, <5>1
        <5> QED
          BY <2>1, <3>2, <5>2
      <4> QED
        BY <4>1, <4>2
    <3>5. ASSUME Ordered(s) PROVE Ordered(kept[n + 1])
      <4> SUFFICES ASSUME NEW i \in 1..(Len(kept[n]) + 1), NEW j \in 1..(Len(kept[n]) + 1), i < j
                   PROVE  kept[n + 1][i].id < kept[n + 1][j].id
        BY <3>2 DEF Ordered
      <4>1. i \in 1..Len(kept[n])
        BY <2>1
      <4>2. CASE j = Len(kept[n]) + 1
        <5>1. PICK k \in 1..n : kept[n][i] = s[k]
          BY <2>1, <4>1
        <5>2. k \in 1..Len(s) /\ k < n + 1
          BY <2>2
        <5>3. s[k].id < s[n + 1].id
          BY <2>2, <3>5, <5>2 DEF Ordered
        <5> QED
          BY <3>2, <4>1, <4>2, <5>1, <5>3
      <4>3. CASE j # Len(kept[n]) + 1
        <5>1. j \in 1..Len(kept[n])
          BY <2>1, <4>3
        <5> QED
          BY <2>1, <3>2, <3>5, <4>1, <5>1 DEF Ordered
      <4> QED
        BY <4>2, <4>3
    <3> QED
      BY <2>2, <3>2, <3>3, <3>4, <3>5
  <2>4. CASE s[n + 1] \notin chosen
    <3>1. kept[n + 1] = kept[n]
      BY <1>1, <2>2, <2>4
    <3>2. From(n + 1)
      <4> SUFFICES ASSUME NEW j \in 1..Len(kept[n])
                   PROVE  \E i \in 1..(n + 1) : kept[n][j] = s[i] /\ s[i] \in chosen
        BY <3>1
      <4>1. PICK i \in 1..n : kept[n][j] = s[i] /\ s[i] \in chosen
        BY <2>1
      <4> QED
        BY <2>2, <4>1
    <3>3. All(n + 1)
      <4> SUFFICES ASSUME NEW i \in 1..(n + 1), s[i] \in chosen
                   PROVE  \E j \in 1..Len(kept[n]) : kept[n][j] = s[i]
        BY <3>1
      <4>1. i \in 1..n
        BY <2>2, <2>4
      <4> QED
        BY <2>1, <4>1
    <3>4. n + 1 \in 0..Len(s) /\ kept[n + 1] \in Seq(Responders)
          /\ (Ordered(s) => Ordered(kept[n + 1]))
      BY <2>1, <2>2, <3>1
    <3> HIDE DEF From, All
    <3> QED
      BY <3>2, <3>3, <3>4
  <2> QED
    BY <2>3, <2>4
<1>4. Len(s) \in K
  <2> DEFINE n == Len(s)
  <2>1. \A k \in 0..(n - 1) : k \in K => k + 1 \in K
    BY <1>3
  <2>2. n \in Nat /\ n \in 0..n
    BY <1>1
  <2> HIDE DEF K, n
  <2>3. \A k \in 0..n : k \in K
    BY <1>2, <2>1, <2>2, UpTo
  <2> QED
    BY <2>2, <2>3 DEF n
<1> DEFINE only == kept[Len(s)]
<1>5. only \in Seq(Responders) /\ (Ordered(s) => Ordered(only))
  BY <1>4
<1>6. \A x : x \in Registry!ToSet(only) <=> \E j \in 1..Len(only) : only[j] = x
  BY <1>5, InSequence
<1>7. \A x : x \in Registry!ToSet(s) <=> \E i \in 1..Len(s) : s[i] = x
  BY InSequence
<1>8. From(Len(s)) /\ All(Len(s))
  BY <1>4
<1>9. ASSUME NEW x PROVE x \in Registry!ToSet(only) <=> x \in Registry!ToSet(s) /\ x \in chosen
  <2>1. ASSUME x \in Registry!ToSet(only) PROVE x \in Registry!ToSet(s) /\ x \in chosen
    <3>1. PICK j \in 1..Len(only) : only[j] = x
      BY <1>6, <2>1
    <3>2. PICK i \in 1..Len(s) : only[j] = s[i] /\ s[i] \in chosen
      BY <1>8
    <3> QED
      BY <1>7, <3>1, <3>2
  <2>2. ASSUME x \in Registry!ToSet(s), x \in chosen PROVE x \in Registry!ToSet(only)
    <3>1. PICK i \in 1..Len(s) : s[i] = x
      BY <1>7, <2>2
    <3>2. PICK j \in 1..Len(only) : only[j] = s[i]
      BY <1>8, <2>2, <3>1
    <3> QED
      BY <1>6, <3>1, <3>2
  <2> QED
    BY <2>1, <2>2
<1> QED
  BY <1>1, <1>5, <1>9

\* Two ordered sequences of the same responders are the same.
LEMMA OrderedIsUnique ==
  ASSUME NEW s \in Seq(Responders), NEW t \in Seq(Responders), Ordered(s), Ordered(t),
         Registry!ToSet(s) = Registry!ToSet(t)
  PROVE  s = t
<1>1. /\ Len(s) \in Nat /\ Len(t) \in Nat
      /\ \A i \in 1..Len(s) : s[i] \in Responders /\ s[i].id \in Nat
      /\ \A i \in 1..Len(t) : t[i] \in Responders /\ t[i].id \in Nat
  <2>1. \A r \in Responders : r.id \in Nat
    BY DEF Responders
  <2>2. /\ Len(s) \in Nat /\ Len(t) \in Nat
        /\ \A i \in 1..Len(s) : s[i] \in Responders
        /\ \A i \in 1..Len(t) : t[i] \in Responders
    OBVIOUS
  <2> QED
    BY <2>1, <2>2
<1>2. /\ \A i \in 1..Len(s) : \E j \in 1..Len(t) : s[i] = t[j]
      /\ \A j \in 1..Len(t) : \E i \in 1..Len(s) : s[i] = t[j]
  <2>1. \A x : x \in Registry!ToSet(s) <=> \E i \in 1..Len(s) : s[i] = x
    BY InSequence
  <2>2. \A x : x \in Registry!ToSet(t) <=> \E i \in 1..Len(t) : t[i] = x
    BY InSequence
  <2> QED
    BY <2>1, <2>2
<1> DEFINE Same(n) == \A i \in 1..n : i <= Len(s) \/ i <= Len(t) => i <= Len(s) /\ i <= Len(t) /\ s[i] = t[i]
           N == Len(s) + Len(t)
           K == {n \in 0..N : Same(n)}
<1>3. 0 \in K
  BY <1>1
<1>4. ASSUME NEW n \in 0..(N - 1), n \in K PROVE n + 1 \in K
  <2>1. Same(n) /\ n \in Nat /\ n + 1 \in 0..N
    BY <1>1, <1>4
  <2>2. ASSUME n + 1 <= Len(s) PROVE n + 1 <= Len(t) /\ s[n + 1].id >= t[n + 1].id
    <3>1. PICK j \in 1..Len(t) : s[n + 1] = t[j]
      BY <1>1, <1>2, <2>1, <2>2
    <3>2. ~(j <= n)
      <4> SUFFICES ASSUME j <= n PROVE FALSE
        OBVIOUS
      <4>1. j \in 1..n /\ j < n + 1 /\ j \in 1..Len(s) /\ s[j] = t[j] /\ n + 1 \in 1..Len(s)
        BY <1>1, <2>1, <2>2
      <4>2. s[j].id < s[n + 1].id
        BY <4>1 DEF Ordered
      <4> QED
        BY <1>1, <3>1, <4>1, <4>2
    <3>3. n + 1 <= j /\ n + 1 \in 1..Len(t)
      BY <1>1, <2>1, <3>2
    <3>4. CASE j = n + 1
      BY <1>1, <3>1, <3>3, <3>4
    <3>5. CASE j # n + 1
      <4>1. n + 1 < j
        BY <2>1, <3>3, <3>5
      <4>2. t[n + 1].id < t[j].id
        BY <3>3, <4>1 DEF Ordered
      <4> QED
        BY <1>1, <3>1, <3>3, <4>2
    <3> QED
      BY <3>4, <3>5
  <2>3. ASSUME n + 1 <= Len(t) PROVE n + 1 <= Len(s) /\ t[n + 1].id >= s[n + 1].id
    <3>1. PICK j \in 1..Len(s) : t[n + 1] = s[j]
      BY <1>1, <1>2, <2>1, <2>3
    <3>2. ~(j <= n)
      <4> SUFFICES ASSUME j <= n PROVE FALSE
        OBVIOUS
      <4>1. j \in 1..n /\ j < n + 1 /\ j \in 1..Len(t) /\ s[j] = t[j] /\ n + 1 \in 1..Len(t)
        BY <1>1, <2>1, <2>3
      <4>2. t[j].id < t[n + 1].id
        BY <4>1 DEF Ordered
      <4> QED
        BY <1>1, <3>1, <4>1, <4>2
    <3>3. n + 1 <= j /\ n + 1 \in 1..Len(s)
      BY <1>1, <2>1, <3>2
    <3>4. CASE j = n + 1
      BY <1>1, <3>1, <3>3, <3>4
    <3>5. CASE j # n + 1
      <4>1. n + 1 < j
        BY <2>1, <3>3, <3>5
      <4>2. s[n + 1].id < s[j].id
        BY <3>3, <4>1 DEF Ordered
      <4> QED
        BY <1>1, <3>1, <3>3, <4>2
    <3> QED
      BY <3>4, <3>5
  <2>4. ASSUME n + 1 <= Len(s) \/ n + 1 <= Len(t)
        PROVE  n + 1 <= Len(s) /\ n + 1 <= Len(t) /\ s[n + 1] = t[n + 1]
    <3>1. n + 1 <= Len(s) /\ n + 1 <= Len(t) /\ s[n + 1].id >= t[n + 1].id /\ t[n + 1].id >= s[n + 1].id
      BY <2>2, <2>3, <2>4
    <3>2. n + 1 \in 1..Len(s) /\ n + 1 \in 1..Len(t)
      BY <1>1, <2>1, <3>1
    <3>3. s[n + 1].id = t[n + 1].id
      BY <1>1, <3>1, <3>2
    <3>4. PICK j \in 1..Len(t) : s[n + 1] = t[j]
      BY <1>2, <3>2
    <3>5. j = n + 1
      <4>1. ~(j < n + 1) /\ ~(n + 1 < j)
        BY <1>1, <3>2, <3>3, <3>4 DEF Ordered
      <4> QED
        BY <1>1, <2>1, <4>1
    <3> QED
      BY <3>1, <3>4, <3>5
  <2>5. Same(n + 1)
    <3> SUFFICES ASSUME NEW i \in 1..(n + 1), i <= Len(s) \/ i <= Len(t)
                 PROVE  i <= Len(s) /\ i <= Len(t) /\ s[i] = t[i]
      OBVIOUS
    <3>1. CASE i = n + 1
      BY <2>4, <3>1
    <3>2. CASE i # n + 1
      BY <2>1, <3>2
    <3> QED
      BY <3>1, <3>2
  <2> QED
    BY <2>1, <2>5
<1>5. Same(N)
  <2>1. \A k \in 0..(N - 1) : k \in K => k + 1 \in K
    BY <1>4
  <2>2. N \in Nat /\ N \in 0..N
    BY <1>1
  <2>3. N \in K
    <3> HIDE DEF K, N
    <3> QED
      BY <1>3, <2>1, <2>2, UpTo
  <2> QED
    BY <2>3
<1>6. Len(s) = Len(t)
  <2>1. Len(s) \in 1..N \/ Len(s) = 0
    BY <1>1
  <2>2. Len(t) \in 1..N \/ Len(t) = 0
    BY <1>1
  <2>3. Len(s) <= Len(t)
    BY <1>1, <1>5, <2>1
  <2>4. Len(t) <= Len(s)
    BY <1>1, <1>5, <2>2
  <2> QED
    BY <1>1, <2>3, <2>4
<1>7. \A i \in 1..Len(s) : s[i] = t[i]
  BY <1>1, <1>5
<1> QED
  BY <1>6, <1>7

-----------------------------------------------------------------------------
(* The registry: what holds of every element *)

Registries == [element : Elements, entries : [Registry!Names -> Seq(Responders)]]

\* What the registry has for an element, by event name.
Entered(e) == [n \in Registry!Names |-> Registry!Entries(e, n)]

\* entered and heard have the same responders, which belong to the element with
\* that id and are among the first most; a handler is entered once for a name.
ElementSound(entered, heard, id, most) ==
  /\ heard \in Seq(Responders) /\ Ordered(heard)
  /\ Registry!ToSet(heard) = UNION {Registry!ToSet(entered[n]) : n \in Registry!Names}
  /\ \A n \in Registry!Names :
       /\ entered[n] \in Seq(Responders) /\ Ordered(entered[n])
       /\ \A r \in Registry!ToSet(entered[n]) : r.uid = id /\ r.name = n /\ r.id <= most
       /\ \A q, r \in Registry!ToSet(entered[n]) : q.handler = r.handler => q = r

ListenersSound ==
  /\ DOMAIN listeners = Elements
  /\ \A e \in Elements : ElementSound(Entered(e), listeners[e], uid[e], responders)

\* Every id was handed out once, and a registry is that of the element with its id.
IdsSound ==
  /\ uid \in [Elements -> 0..MaxUID] /\ nextUID \in 1..(MaxUID + 1)
  /\ \A e \in Elements : uid[e] < nextUID
  /\ \A d, e \in Elements : uid[d] = uid[e] /\ uid[d] # 0 => d = e

CacheSound ==
  /\ DOMAIN cache \subseteq 1..MaxUID
  /\ \A u \in DOMAIN cache : cache[u] \in Registries /\ uid[cache[u].element] = u

Frames ==
  [name : Registry!Names, at : Elements, bubble : BOOLEAN, stopped : BOOLEAN,
   running : BOOLEAN, queue : Seq(Responders),
   called : SUBSET (Elements \X Responders), owed : SUBSET (Elements \X Responders)]

\* What is still owed to an event is called, at the element the event is at, or above.
FrameSound(f) ==
  /\ f \in Frames
  /\ Ordered(f.queue)
  /\ \A c \in f.called : c[2].name = f.name /\ f.at \in Registry!Ancestors(c[1])
  /\ \A c, d \in f.called : c[1] = d[1] /\ c[2].handler = d[2].handler => c = d
  /\ \A q, r \in Registry!ToSet(f.queue) :
       q.name = f.name /\ r.name = f.name /\ q.handler = r.handler => q = r
  /\ \A c \in f.called : \A r \in Registry!ToSet(f.queue) :
       c[1] = f.at /\ r.name = f.name => r.handler # c[2].handler
  /\ \A o \in f.owed :
       /\ o[2].name = f.name /\ o[2].id <= responders
       /\ o[2] \in Registry!ToSet(listeners[o[1]]) =>
            \/ o \in f.called
            \/ o[1] = f.at /\ o[2] \in Registry!ToSet(f.queue)
            \/ f.bubble /\ o[1] \in Registry!Ancestors(f.at) \ {f.at}

FramesSound ==
  /\ frames \in Seq(Frames) /\ Len(frames) <= MaxDepth
  /\ \A i \in 1..Len(frames) : FrameSound(frames[i])

Counters == page \in Pages /\ responders \in 0..page.responders /\ events \in 0..MaxEvents

RegistryInv == Counters /\ IdsSound /\ CacheSound /\ ListenersSound /\ FramesSound

LEMMA RegistryAssumed ==
  /\ IsFiniteSet(Elements) /\ NoElement \notin Elements
  /\ ParentOf \in [Elements -> Elements \cup {NoElement}]
  /\ \A e \in Elements : ParentOf[e] \in Elements => e \notin Registry!Ancestors(ParentOf[e])
  /\ \A p \in Pages : /\ p.names \subseteq Registry!Names /\ p.handlers \subseteq Handlers
                       /\ p.responders \in Nat
  /\ MaxUID \in Nat /\ MaxEvents \in Nat /\ MaxDepth \in Nat
<1>1. Registry!EventRegistryAssumption
  BY ScriptsAssumption
<1>2. /\ IsFiniteSet(Elements) /\ NoElement \notin Elements
      /\ ParentOf \in [Elements -> Elements \cup {NoElement}]
  BY <1>1 DEF Registry!EventRegistryAssumption, Registry!IsFiniteSet, IsFiniteSet
<1>3. /\ \A e \in Elements : ParentOf[e] \in Elements => e \notin Registry!Ancestors(ParentOf[e])
      /\ \A p \in Pages : /\ p.names \subseteq Registry!Names /\ p.handlers \subseteq Handlers
                           /\ p.responders \in Nat
      /\ {MaxUID, MaxEvents, MaxDepth} \subseteq Nat
  BY <1>1 DEF Registry!EventRegistryAssumption, Registry!Names
<1> QED
  BY <1>2, <1>3

LEMMA AncestorsAre ==
  ASSUME NEW e \in Elements
  PROVE  /\ e \in Registry!Ancestors(e) /\ Registry!Ancestors(e) \subseteq Elements
         /\ \A a \in Registry!Ancestors(e) :
              ParentOf[a] \in Elements => ParentOf[a] \in Registry!Ancestors(e)
         /\ \A above \in SUBSET Elements :
              e \in above /\ (\A x \in above : ParentOf[x] \in Elements => ParentOf[x] \in above)
                => Registry!Ancestors(e) \subseteq above
BY DEF Registry!Ancestors

LEMMA ParentIsAbove ==
  ASSUME NEW e \in Elements, ParentOf[e] \in Elements
  PROVE  /\ Registry!Ancestors(ParentOf[e]) \subseteq Registry!Ancestors(e)
         /\ Registry!Ancestors(e) = {e} \cup Registry!Ancestors(ParentOf[e])
         /\ e \notin Registry!Ancestors(ParentOf[e])
<1> DEFINE p == ParentOf[e]
           A == Registry!Ancestors(e)
           B == Registry!Ancestors(p)
<1>1. e \notin B
  BY RegistryAssumed
<1>2. A \in SUBSET Elements /\ B \in SUBSET Elements /\ p \in Elements /\ e \in A /\ p \in B
  BY AncestorsAre
<1>3. p \in A
  BY <1>2, AncestorsAre
<1>4. B \subseteq A
  BY <1>2, <1>3, AncestorsAre
<1>5. A \subseteq {e} \cup B
  <2> DEFINE C == {e} \cup B
  <2>1. C \in SUBSET Elements /\ e \in C
    BY <1>2
  <2>2. \A x \in C : ParentOf[x] \in Elements => ParentOf[x] \in C
    BY <1>2, AncestorsAre
  <2> HIDE DEF C
  <2>3. A \subseteq C
    BY <2>1, <2>2, AncestorsAre
  <2> QED
    BY <2>3 DEF C
<1> QED
  BY <1>1, <1>2, <1>4, <1>5

LEMMA TopHasNone ==
  ASSUME NEW e \in Elements, ParentOf[e] \notin Elements
  PROVE  Registry!Ancestors(e) = {e}
<1> DEFINE C == {e}
<1>1. C \in SUBSET Elements /\ e \in C
      /\ \A x \in C : ParentOf[x] \in Elements => ParentOf[x] \in C
  OBVIOUS
<1> HIDE DEF C
<1>2. Registry!Ancestors(e) \subseteq C
  BY <1>1, AncestorsAre
<1> QED
  BY <1>2, AncestorsAre DEF C

LEMMA HigherIsAbove ==
  ASSUME NEW e \in Elements, NEW a \in Registry!Ancestors(e)
  PROVE  Registry!Ancestors(a) \subseteq Registry!Ancestors(e)
<1> DEFINE A == Registry!Ancestors(e)
<1>1. A \in SUBSET Elements /\ a \in A /\ a \in Elements
      /\ \A x \in A : ParentOf[x] \in Elements => ParentOf[x] \in A
  BY AncestorsAre
<1> HIDE DEF A
<1>2. Registry!Ancestors(a) \subseteq A
  BY <1>1, AncestorsAre
<1> QED
  BY <1>2 DEF A

-----------------------------------------------------------------------------
(* One element *)

\* Nothing of the element is new: what is dropped is dropped from both sides.
LEMMA SoundWithout ==
  ASSUME NEW entered, NEW heard, NEW id, NEW most \in Nat, ElementSound(entered, heard, id, most),
         NEW gone, NEW left, NEW id2,
         \A n \in Registry!Names :
            /\ left[n] \in Seq(Responders) /\ Ordered(left[n])
            /\ Registry!ToSet(left[n]) = Registry!ToSet(entered[n]) \ gone,
         id2 = id \/ \A n \in Registry!Names : Registry!ToSet(left[n]) = {}
  PROVE  ElementSound(left, Registry!Without(heard, gone), id2, most)
<1> DEFINE still == Registry!Without(heard, gone)
<1>1. heard \in Seq(Responders) /\ Ordered(heard)
  BY DEF ElementSound
<1>2. /\ still \in Seq(Responders) /\ Ordered(still)
      /\ \A x : x \in Registry!ToSet(still) <=> x \in Registry!ToSet(heard) /\ x \notin gone
  <2>1. still = Registry!Only(heard, Registry!ToSet(heard) \ gone)
    BY DEF Registry!Without
  <2> HIDE DEF still
  <2> QED
    BY <1>1, <2>1, OnlyFacts
<1>3. Registry!ToSet(still) = UNION {Registry!ToSet(left[n]) : n \in Registry!Names}
  <2>1. Registry!ToSet(heard) = UNION {Registry!ToSet(entered[n]) : n \in Registry!Names}
    BY DEF ElementSound
  <2>2. ASSUME NEW x PROVE x \in Registry!ToSet(still)
                             <=> \E n \in Registry!Names : x \in Registry!ToSet(left[n])
    <3>1. x \in Registry!ToSet(heard) <=> \E n \in Registry!Names : x \in Registry!ToSet(entered[n])
      BY <2>1
    <3> QED
      BY <1>2, <3>1
  <2> QED
    BY <2>2
<1>4. ASSUME NEW n \in Registry!Names
      PROVE  /\ \A r \in Registry!ToSet(left[n]) : r.uid = id2 /\ r.name = n /\ r.id <= most
             /\ \A q, r \in Registry!ToSet(left[n]) : q.handler = r.handler => q = r
  <2>1. /\ \A r \in Registry!ToSet(left[n]) : r \in Registry!ToSet(entered[n])
        /\ entered[n] \in Seq(Responders)
    BY DEF ElementSound
  <2>2. \A r \in Registry!ToSet(entered[n]) : r.uid = id /\ r.name = n /\ r.id <= most
    BY DEF ElementSound
  <2>3. \A r \in Registry!ToSet(entered[n]) : r.id \in Nat
    <3>1. Registry!ToSet(entered[n]) \subseteq Responders
      BY <2>1, InSequence
    <3> QED
      BY <3>1 DEF Responders
  <2>4. \A q, r \in Registry!ToSet(entered[n]) : q.handler = r.handler => q = r
    BY DEF ElementSound
  <2>5. ASSUME NEW r \in Registry!ToSet(left[n]) PROVE r.uid = id2 /\ r.name = n /\ r.id <= most
    <3>1. r.uid = id /\ r.name = n /\ r.id <= most /\ r.id \in Nat
      BY <2>1, <2>2, <2>3
    <3>2. id2 = id
      OBVIOUS
    <3>3. r.id <= most
      BY <3>1
    <3> QED
      BY <3>1, <3>2, <3>3
  <2> QED
    BY <2>1, <2>4, <2>5
<1> QED
  BY <1>2, <1>3, <1>4 DEF ElementSound

LEMMA OrderedAppend ==
  ASSUME NEW s \in Seq(Responders), Ordered(s), NEW r \in Responders,
         \A q \in Registry!ToSet(s) : q.id < r.id
  PROVE  /\ Append(s, r) \in Seq(Responders) /\ Ordered(Append(s, r))
         /\ Registry!ToSet(Append(s, r)) = Registry!ToSet(s) \cup {r}
<1> DEFINE t == Append(s, r)
<1>1. /\ t \in Seq(Responders) /\ Len(t) = Len(s) + 1 /\ t[Len(s) + 1] = r /\ Len(s) \in Nat
      /\ \A i \in 1..Len(s) : t[i] = s[i]
  BY AppendProperties
<1>2. \A i \in 1..Len(s) : s[i].id < r.id
  BY InSequence
<1> HIDE DEF t
<1>3. Ordered(t)
  <2> SUFFICES ASSUME NEW i \in 1..(Len(s) + 1), NEW j \in 1..(Len(s) + 1), i < j
               PROVE  t[i].id < t[j].id
    BY <1>1 DEF Ordered
  <2>1. i \in 1..Len(s)
    BY <1>1
  <2>2. CASE j = Len(s) + 1
    BY <1>1, <1>2, <2>1, <2>2
  <2>3. CASE j # Len(s) + 1
    <3>1. j \in 1..Len(s)
      BY <1>1, <2>3
    <3> QED
      BY <1>1, <2>1, <3>1 DEF Ordered
  <2> QED
    BY <2>2, <2>3
<1>4. Registry!ToSet(t) = Registry!ToSet(s) \cup {r}
  <2>1. \A x : x \in Registry!ToSet(t) <=> \E i \in 1..Len(t) : t[i] = x
    BY <1>1, InSequence
  <2>2. \A x : x \in Registry!ToSet(s) <=> \E i \in 1..Len(s) : s[i] = x
    BY InSequence
  <2>3. ASSUME NEW x PROVE x \in Registry!ToSet(t) <=> x \in Registry!ToSet(s) \/ x = r
    <3>1. ASSUME x \in Registry!ToSet(t) PROVE x \in Registry!ToSet(s) \/ x = r
      <4>1. PICK i \in 1..(Len(s) + 1) : t[i] = x
        BY <1>1, <2>1, <3>1
      <4>2. i \in 1..Len(s) \/ i = Len(s) + 1
        BY <1>1
      <4> QED
        BY <1>1, <2>2, <4>1, <4>2
    <3>2. ASSUME x \in Registry!ToSet(s) PROVE x \in Registry!ToSet(t)
      <4>1. PICK i \in 1..Len(s) : s[i] = x
        BY <2>2, <3>2
      <4>2. i \in 1..Len(t) /\ t[i] = x
        BY <1>1, <4>1
      <4> QED
        BY <2>1, <4>2
    <3>3. Len(s) + 1 \in 1..Len(t)
      BY <1>1
    <3>4. r \in Registry!ToSet(t)
      BY <1>1, <2>1, <3>3
    <3> QED
      BY <3>1, <3>2, <3>4
  <2> QED
    BY <2>3
<1> QED
  BY <1>1, <1>3, <1>4 DEF t

\* A new responder goes to the end on both sides.
LEMMA SoundAppended ==
  ASSUME NEW entered, NEW heard, NEW id, NEW most \in Nat, ElementSound(entered, heard, id, most),
         NEW r \in Responders, r.id = most + 1, r.uid = id, r.name \in Registry!Names,
         \A q \in Registry!ToSet(entered[r.name]) : q.handler # r.handler,
         NEW more, \A n \in Registry!Names \ {r.name} : more[n] = entered[n],
         more[r.name] = Append(entered[r.name], r)
  PROVE  /\ ElementSound(more, Append(heard, r), id, most + 1)
         /\ Registry!ToSet(Append(heard, r)) = Registry!ToSet(heard) \cup {r}
<1> DEFINE name == r.name
<1>1. /\ heard \in Seq(Responders) /\ Ordered(heard)
      /\ entered[name] \in Seq(Responders) /\ Ordered(entered[name])
  BY DEF ElementSound
<1>2. \A n \in Registry!Names : \A q \in Registry!ToSet(entered[n]) :
        /\ q.uid = id /\ q.name = n /\ q.id <= most /\ q.id \in Nat
  <2> SUFFICES ASSUME NEW n \in Registry!Names, NEW q \in Registry!ToSet(entered[n])
               PROVE  q.uid = id /\ q.name = n /\ q.id <= most /\ q.id \in Nat
    OBVIOUS
  <2>1. entered[n] \in Seq(Responders) /\ q.uid = id /\ q.name = n /\ q.id <= most
    BY DEF ElementSound
  <2>2. q \in Responders
    BY <2>1, InSequence
  <2> QED
    BY <2>1, <2>2 DEF Responders
<1>3. Registry!ToSet(heard) = UNION {Registry!ToSet(entered[n]) : n \in Registry!Names}
  BY DEF ElementSound
<1>4. \A q \in Registry!ToSet(heard) : q.id < r.id
  <2>1. \A n \in Registry!Names : \A q \in Registry!ToSet(entered[n]) : q.id < r.id
    BY <1>2
  <2> QED
    BY <1>3, <2>1
<1>5. /\ Append(heard, r) \in Seq(Responders) /\ Ordered(Append(heard, r))
      /\ Registry!ToSet(Append(heard, r)) = Registry!ToSet(heard) \cup {r}
  BY <1>1, <1>4, OrderedAppend
<1>6. /\ more[name] \in Seq(Responders) /\ Ordered(more[name])
      /\ Registry!ToSet(more[name]) = Registry!ToSet(entered[name]) \cup {r}
  <2>1. \A q \in Registry!ToSet(entered[name]) : q.id < r.id
    BY <1>2
  <2> QED
    BY <1>1, <2>1, OrderedAppend
<1>7. Registry!ToSet(Append(heard, r)) = UNION {Registry!ToSet(more[n]) : n \in Registry!Names}
  <2>1. ASSUME NEW x PROVE x \in Registry!ToSet(Append(heard, r))
                             <=> \E n \in Registry!Names : x \in Registry!ToSet(more[n])
    <3>1. x \in Registry!ToSet(heard) <=> \E n \in Registry!Names : x \in Registry!ToSet(entered[n])
      BY <1>3
    <3>2. x = r => x \in Registry!ToSet(more[name])
      BY <1>6
    <3>3. \A n \in Registry!Names : x \in Registry!ToSet(entered[n]) => x \in Registry!ToSet(more[n])
      BY <1>6
    <3>4. \A n \in Registry!Names :
            x \in Registry!ToSet(more[n]) => x \in Registry!ToSet(entered[n]) \/ x = r
      BY <1>6
    <3> QED
      BY <1>5, <3>1, <3>2, <3>3, <3>4
  <2> QED
    BY <2>1
<1>8. ASSUME NEW n \in Registry!Names
      PROVE  /\ more[n] \in Seq(Responders) /\ Ordered(more[n])
             /\ \A q \in Registry!ToSet(more[n]) : q.uid = id /\ q.name = n /\ q.id <= most + 1
             /\ \A p, q \in Registry!ToSet(more[n]) : p.handler = q.handler => p = q
  <2>1. CASE n = name
    <3>1. \A p, q \in Registry!ToSet(entered[name]) : p.handler = q.handler => p = q
      BY DEF ElementSound
    <3>2. \A q \in Registry!ToSet(entered[name]) : q.id <= most + 1
      BY <1>2
    <3>3. r.id <= most + 1
      OBVIOUS
    <3> QED
      BY <1>2, <1>6, <2>1, <3>1, <3>2, <3>3
  <2>2. CASE n # name
    <3>1. more[n] = entered[n]
      BY <2>2
    <3>2. \A q \in Registry!ToSet(entered[n]) : q.id <= most + 1
      BY <1>2
    <3> QED
      BY <1>2, <3>1, <3>2 DEF ElementSound
  <2> QED
    BY <2>1, <2>2
<1> QED
  BY <1>5, <1>7, <1>8 DEF ElementSound

-----------------------------------------------------------------------------
(* The changes of the registry *)

LEMMA FramesKept ==
  ASSUME RegistryInv, frames' = frames, responders' \in Nat, responders <= responders',
         \A e \in Elements : \A r \in Registry!ToSet(listeners'[e]) :
            r \in Registry!ToSet(listeners[e]) \/ r.id > responders
  PROVE  FramesSound'
<1>1. responders \in Nat
  BY RegistryAssumed DEF RegistryInv, Counters
<1>2. ASSUME NEW f, FrameSound(f) PROVE FrameSound(f)'
  <2>1. ASSUME NEW o \in f.owed
        PROVE  /\ o[2].name = f.name /\ o[2].id <= responders'
               /\ o[2] \in Registry!ToSet(listeners'[o[1]]) =>
                    \/ o \in f.called
                    \/ o[1] = f.at /\ o[2] \in Registry!ToSet(f.queue)
                    \/ f.bubble /\ o[1] \in Registry!Ancestors(f.at) \ {f.at}
    <3>1. /\ o[2].name = f.name /\ o[2].id <= responders
          /\ o[2] \in Registry!ToSet(listeners[o[1]]) =>
                    \/ o \in f.called
                    \/ o[1] = f.at /\ o[2] \in Registry!ToSet(f.queue)
                    \/ f.bubble /\ o[1] \in Registry!Ancestors(f.at) \ {f.at}
      BY <1>2 DEF FrameSound
    <3>2. o[1] \in Elements /\ o[2] \in Responders /\ o[2].id \in Nat
      <4>1. o \in Elements \X Responders
        BY <1>2 DEF FrameSound, Frames
      <4> QED
        BY <4>1 DEF Responders
    <3>3. o[2].id <= responders'
      BY <1>1, <3>1, <3>2
    <3>4. o[2] \in Registry!ToSet(listeners'[o[1]]) => o[2] \in Registry!ToSet(listeners[o[1]])
      BY <1>1, <3>1, <3>2
    <3> QED
      BY <3>1, <3>3, <3>4
  <2>2. /\ f \in Frames' /\ Ordered(f.queue)
        /\ \A c \in f.called : c[2].name = f.name /\ f.at \in Registry!Ancestors(c[1])
        /\ \A c, d \in f.called : c[1] = d[1] /\ c[2].handler = d[2].handler => c = d
        /\ \A q, r \in Registry!ToSet(f.queue) :
             q.name = f.name /\ r.name = f.name /\ q.handler = r.handler => q = r
        /\ \A c \in f.called : \A r \in Registry!ToSet(f.queue) :
             c[1] = f.at /\ r.name = f.name => r.handler # c[2].handler
    BY <1>2 DEF FrameSound, Frames
  <2> QED
    BY <2>1, <2>2 DEF FrameSound
<1>3. Frames' = Frames
  BY DEF Frames
<1>4. /\ frames \in Seq(Frames) /\ Len(frames) <= MaxDepth
      /\ \A i \in 1..Len(frames) : FrameSound(frames[i])
  BY DEF RegistryInv, FramesSound
<1>5. \A i \in 1..Len(frames) : FrameSound(frames[i])'
  <2> SUFFICES ASSUME NEW i \in 1..Len(frames) PROVE FrameSound(frames[i])'
    OBVIOUS
  <2>1. FrameSound(frames[i])
    BY <1>4
  <2>2. frames'[i] = frames[i]
    OBVIOUS
  <2> DEFINE f == frames[i]
  <2>3. FrameSound(f)
    BY <2>1
  <2> QED
    BY <1>2, <2>1, <2>2
<1> QED
  BY <1>3, <1>4, <1>5 DEF FramesSound

\* getUniqueElementID: the id is the element's, whether it is new or not.
LEMMA Asked ==
  ASSUME RegistryInv, NEW e \in Elements, Registry!TakeUID(e)
  PROVE  /\ Registry!UIDOf(e) \in 1..MaxUID
         /\ uid'[e] = Registry!UIDOf(e)
         /\ \A d \in Elements \ {e} : uid'[d] = uid[d] /\ uid[d] # Registry!UIDOf(e)
         /\ uid[e] # 0 => Registry!UIDOf(e) = uid[e]
         /\ uid[e] = 0 => Registry!UIDOf(e) \notin DOMAIN cache
         /\ IdsSound'
<1> DEFINE u == Registry!UIDOf(e)
<1>1. /\ uid \in [Elements -> 0..MaxUID] /\ nextUID \in 1..(MaxUID + 1)
      /\ \A d \in Elements : uid[d] < nextUID
      /\ \A c, d \in Elements : uid[c] = uid[d] /\ uid[c] # 0 => c = d
  BY DEF RegistryInv, IdsSound
<1>2. MaxUID \in Nat
  BY RegistryAssumed
<1>3. /\ uid[e] # 0 \/ nextUID <= MaxUID
      /\ uid' = [uid EXCEPT ![e] = u]
      /\ nextUID' = IF uid[e] # 0 THEN nextUID ELSE nextUID + 1
      /\ u = IF uid[e] # 0 THEN uid[e] ELSE nextUID
  BY DEF Registry!TakeUID, Registry!HasUID, Registry!UIDOf
<1> HIDE DEF u
<1>4. u \in 1..MaxUID
  <2>1. uid[e] \in 0..MaxUID
    BY <1>1
  <2> QED
    BY <1>1, <1>2, <1>3, <2>1
<1>5. \A d \in Elements \ {e} : uid'[d] = uid[d] /\ uid[d] # u
  <2> SUFFICES ASSUME NEW d \in Elements \ {e} PROVE uid'[d] = uid[d] /\ uid[d] # u
    OBVIOUS
  <2>1. uid'[d] = uid[d]
    BY <1>1, <1>3
  <2>2. CASE uid[e] # 0
    BY <1>1, <1>3, <2>1, <2>2
  <2>3. CASE uid[e] = 0
    <3>1. uid[d] < nextUID /\ uid[d] \in Int /\ nextUID \in Int
      <4>1. uid[d] \in 0..MaxUID
        BY <1>1
      <4> QED
        BY <1>1, <4>1
    <3> QED
      BY <1>3, <2>1, <2>3, <3>1
  <2> QED
    BY <2>2, <2>3
<1>6. uid[e] = 0 => u \notin DOMAIN cache
  <2> SUFFICES ASSUME uid[e] = 0, u \in DOMAIN cache PROVE FALSE
    OBVIOUS
  <2>1. cache[u] \in Registries /\ uid[cache[u].element] = u
    BY DEF RegistryInv, CacheSound
  <2>2. cache[u].element \in Elements
    BY <2>1 DEF Registries
  <2>3. u = nextUID /\ u < nextUID
    BY <1>1, <1>3, <2>1, <2>2
  <2> QED
    BY <1>1, <2>3
<1>7. uid'[e] = u
  BY <1>1, <1>3
<1>8. IdsSound'
  <2>1. uid' \in [Elements -> 0..MaxUID]
    <3>1. u \in 0..MaxUID
      BY <1>2, <1>4
    <3> QED
      BY <1>1, <1>3, <3>1
  <2>2. nextUID' \in 1..(MaxUID + 1)
    BY <1>1, <1>2, <1>3
  <2>3. \A d \in Elements : uid'[d] < nextUID'
    <3> SUFFICES ASSUME NEW d \in Elements PROVE uid'[d] < nextUID'
      OBVIOUS
    <3>1. uid[d] < nextUID /\ uid[d] \in Int /\ nextUID \in Int /\ uid[e] < nextUID /\ uid[e] \in Int
      <4>1. uid[d] \in 0..MaxUID /\ uid[e] \in 0..MaxUID
        BY <1>1
      <4> QED
        BY <1>1, <4>1
    <3>2. uid'[d] = IF d = e THEN u ELSE uid[d]
      BY <1>5, <1>7
    <3> QED
      BY <1>3, <3>1, <3>2
  <2>4. \A c, d \in Elements : uid'[c] = uid'[d] /\ uid'[c] # 0 => c = d
    BY <1>1, <1>5, <1>7
  <2> QED
    BY <2>1, <2>2, <2>3, <2>4 DEF IdsSound
<1> QED
  BY <1>3, <1>4, <1>5, <1>6, <1>7, <1>8 DEF u

\* getRegistryForElement: what it answers says what the cache has.
LEMMA RegistryFound ==
  ASSUME RegistryInv, NEW e \in Elements, Registry!TakeUID(e)
  PROVE  /\ Registry!RegistryOf(e) \in Registries
         /\ Registry!RegistryOf(e).element = e
         /\ \A n \in Registry!Names : Registry!RegistryOf(e).entries[n] = Registry!Entries(e, n)
         /\ uid[e] = 0 => \A n \in Registry!Names : Registry!Entries(e, n) = <<>>
<1> DEFINE u == Registry!UIDOf(e)
<1>1. /\ uid[e] # 0 => u = uid[e]
      /\ uid[e] = 0 => u \notin DOMAIN cache
  BY Asked
<1>2. /\ \A c, d \in Elements : uid[c] = uid[d] /\ uid[c] # 0 => c = d
      /\ \A v \in DOMAIN cache : cache[v] \in Registries /\ uid[cache[v].element] = v
      /\ 0 \notin DOMAIN cache
  BY RegistryAssumed DEF RegistryInv, IdsSound, CacheSound
<1>3. \A r \in Registries : r.element \in Elements
  BY DEF Registries
<1>4. Registry!RegistryOf(e) = IF u \in DOMAIN cache THEN cache[u] ELSE Registry!Empty(e)
  BY DEF Registry!RegistryOf
<1> HIDE DEF u
<1>5. uid[e] = 0 => \A n \in Registry!Names : Registry!Entries(e, n) = <<>>
  BY <1>2 DEF Registry!Entries
<1>6. CASE u \in DOMAIN cache
  <2>1. u = uid[e] /\ uid[e] # 0
    BY <1>1, <1>6
  <2>2. cache[u] \in Registries /\ cache[u].element = e
    <3>1. cache[u] \in Registries /\ uid[cache[u].element] = u
      BY <1>2, <1>6
    <3> QED
      BY <1>2, <1>3, <2>1, <3>1
  <2>3. \A n \in Registry!Names : Registry!Entries(e, n) = cache[u].entries[n]
    BY <1>6, <2>1 DEF Registry!Entries
  <2> QED
    BY <1>4, <1>5, <1>6, <2>2, <2>3
<1>7. CASE u \notin DOMAIN cache
  <2>1. Registry!RegistryOf(e) = [element |-> e, entries |-> [n \in Registry!Names |-> <<>>]]
    BY <1>4, <1>7 DEF Registry!Empty
  <2>2. \A n \in Registry!Names : Registry!Entries(e, n) = <<>>
    BY <1>1, <1>5, <1>7 DEF Registry!Entries
  <2>3. Registry!RegistryOf(e) \in Registries
    BY <2>1 DEF Registries
  <2> QED
    BY <2>1, <2>2, <2>3
<1> QED
  BY <1>6, <1>7

\* The registry of an element is written: the others stay.
LEMMA Rewritten ==
  ASSUME RegistryInv, NEW e \in Elements, Registry!TakeUID(e),
         NEW registry \in Registries, registry.element = e,
         cache' = Registry!WithRegistry(e, registry)
  PROVE  /\ CacheSound'
         /\ \A n \in Registry!Names : Registry!Entries(e, n)' = registry.entries[n]
         /\ \A d \in Elements \ {e} :
              uid'[d] = uid[d] /\ \A n \in Registry!Names : Registry!Entries(d, n)' = Registry!Entries(d, n)
<1> DEFINE u == Registry!UIDOf(e)
<1>1. /\ u \in 1..MaxUID /\ uid'[e] = u
      /\ \A d \in Elements \ {e} : uid'[d] = uid[d] /\ uid[d] # u
      /\ uid[e] # 0 => u = uid[e]
  BY Asked
<1>2. cache' = [v \in DOMAIN cache \cup {u} |-> IF v = u THEN registry ELSE cache[v]]
  BY DEF Registry!WithRegistry
<1> HIDE DEF u
<1>3. /\ DOMAIN cache' = DOMAIN cache \cup {u} /\ cache'[u] = registry
      /\ \A v \in DOMAIN cache : v # u => cache'[v] = cache[v]
  BY <1>2
<1>4. /\ DOMAIN cache \subseteq 1..MaxUID
      /\ \A v \in DOMAIN cache : cache[v] \in Registries /\ uid[cache[v].element] = v
  BY DEF RegistryInv, CacheSound
<1>5. \A r \in Registries : r.element \in Elements
  BY DEF Registries
<1>6. ASSUME NEW v \in DOMAIN cache, v # u PROVE uid'[cache[v].element] = v
  <2>1. cache[v].element \in Elements /\ uid[cache[v].element] = v
    BY <1>4, <1>5, <1>6
  <2>2. v # 0
    BY <1>4, RegistryAssumed
  <2>3. cache[v].element # e
    BY <1>1, <1>6, <2>1, <2>2
  <2> QED
    BY <1>1, <2>1, <2>3
<1>7. CacheSound'
  <2>1. ASSUME NEW v \in DOMAIN cache' PROVE cache'[v] \in Registries /\ uid'[cache'[v].element] = v
    <3>1. CASE v = u
      BY <1>1, <1>3, <3>1
    <3>2. CASE v # u
      BY <1>3, <1>4, <1>6, <3>2
    <3> QED
      BY <3>1, <3>2
  <2>2. DOMAIN cache' \subseteq 1..MaxUID
    BY <1>1, <1>3, <1>4
  <2>3. Registries' = Registries
    BY DEF Registries
  <2> QED
    BY <2>1, <2>2, <2>3 DEF CacheSound
<1>8. \A n \in Registry!Names : Registry!Entries(e, n)' = registry.entries[n]
  BY <1>1, <1>3 DEF Registry!Entries
<1>9. \A d \in Elements \ {e} : \A n \in Registry!Names : Registry!Entries(d, n)' = Registry!Entries(d, n)
  <2> SUFFICES ASSUME NEW d \in Elements \ {e}, NEW n \in Registry!Names
               PROVE  Registry!Entries(d, n)' = Registry!Entries(d, n)
    OBVIOUS
  <2>1. uid'[d] = uid[d] /\ uid[d] # u
    BY <1>1
  <2>2. uid[d] \in DOMAIN cache' <=> uid[d] \in DOMAIN cache
    BY <1>3, <2>1
  <2>3. uid[d] \in DOMAIN cache => cache'[uid[d]] = cache[uid[d]]
    BY <1>3, <2>1
  <2> QED
    BY <2>1, <2>2, <2>3 DEF Registry!Entries
<1> QED
  BY <1>1, <1>7, <1>8, <1>9

\* Registries are destroyed: their elements have nothing left, the others stay.
LEMMA Erased ==
  ASSUME RegistryInv, NEW D \in SUBSET Elements, NEW U,
         cache' = [v \in DOMAIN cache \ U |-> cache[v]],
         \A d \in D : uid'[d] \notin DOMAIN cache \ U /\ (uid[d] # 0 => uid[d] \in U),
         \A d \in Elements \ D : uid'[d] = uid[d] /\ (uid[d] # 0 => uid[d] \notin U)
  PROVE  /\ CacheSound'
         /\ \A n \in Registry!Names : \A d \in D : Registry!Entries(d, n)' = <<>>
         /\ \A n \in Registry!Names : \A d \in Elements \ D :
               Registry!Entries(d, n)' = Registry!Entries(d, n)
<1>1. /\ DOMAIN cache' = DOMAIN cache \ U
      /\ \A v \in DOMAIN cache \ U : cache'[v] = cache[v]
  OBVIOUS
<1>2. /\ DOMAIN cache \subseteq 1..MaxUID /\ 0 \notin DOMAIN cache
      /\ \A v \in DOMAIN cache : cache[v] \in Registries /\ uid[cache[v].element] = v
  BY RegistryAssumed DEF RegistryInv, CacheSound
<1>3. \A r \in Registries : r.element \in Elements
  BY DEF Registries
<1>4. CacheSound'
  <2>1. ASSUME NEW v \in DOMAIN cache \ U PROVE uid'[cache[v].element] = v
    <3>1. cache[v].element \in Elements /\ uid[cache[v].element] = v /\ v # 0
      BY <1>2, <1>3
    <3>2. cache[v].element \notin D
      BY <3>1
    <3> QED
      BY <3>1, <3>2
  <2>2. Registries' = Registries
    BY DEF Registries
  <2> QED
    BY <1>1, <1>2, <2>1, <2>2 DEF CacheSound
<1>5. \A n \in Registry!Names : \A d \in D : Registry!Entries(d, n)' = <<>>
  BY <1>1 DEF Registry!Entries
<1>6. ASSUME NEW n \in Registry!Names, NEW d \in Elements \ D
      PROVE  Registry!Entries(d, n)' = Registry!Entries(d, n)
  <2>1. uid'[d] = uid[d]
    OBVIOUS
  <2>2. uid[d] \in DOMAIN cache => uid[d] \notin U
    BY <1>2
  <2> QED
    BY <1>1, <2>1, <2>2 DEF Registry!Entries
<1> QED
  BY <1>4, <1>5, <1>6

\* What the entries and the listeners of an element are.
LEMMA ElementFacts ==
  ASSUME RegistryInv, NEW e \in Elements
  PROVE  /\ ElementSound(Entered(e), listeners[e], uid[e], responders)
         /\ \A n \in Registry!Names :
              /\ Entered(e)[n] = Registry!Entries(e, n)
              /\ Registry!Entries(e, n) \in Seq(Responders) /\ Ordered(Registry!Entries(e, n))
              /\ \A r \in Registry!ToSet(Registry!Entries(e, n)) : r.name = n /\ r.uid = uid[e]
         /\ listeners[e] \in Seq(Responders) /\ Ordered(listeners[e])
         /\ Registry!ToSet(listeners[e])
              = UNION {Registry!ToSet(Registry!Entries(e, n)) : n \in Registry!Names}
         /\ responders \in Nat
<1>1. ElementSound(Entered(e), listeners[e], uid[e], responders)
  BY DEF RegistryInv, ListenersSound
<1>2. \A n \in Registry!Names : Entered(e)[n] = Registry!Entries(e, n)
  BY DEF Entered
<1>3. responders \in Nat
  BY RegistryAssumed DEF RegistryInv, Counters
<1>4. \A n \in Registry!Names :
        /\ Entered(e)[n] \in Seq(Responders) /\ Ordered(Entered(e)[n])
        /\ \A r \in Registry!ToSet(Entered(e)[n]) : r.name = n /\ r.uid = uid[e]
  BY <1>1 DEF ElementSound
<1>5. /\ listeners[e] \in Seq(Responders) /\ Ordered(listeners[e])
      /\ Registry!ToSet(listeners[e]) = UNION {Registry!ToSet(Entered(e)[n]) : n \in Registry!Names}
  BY <1>1 DEF ElementSound
<1> QED
  BY <1>1, <1>2, <1>3, <1>4, <1>5

\* An element whose entries and listeners lose the same ones stays sound.
LEMMA LosesOnBothSides ==
  ASSUME RegistryInv, NEW e \in Elements, NEW gone, responders' = responders,
         listeners'[e] = Registry!Without(listeners[e], gone),
         \A n \in Registry!Names :
           \/ Registry!Entries(e, n)' = Registry!Entries(e, n)
              /\ Registry!ToSet(Registry!Entries(e, n)) \cap gone = {}
           \/ Registry!Entries(e, n)' = <<>> /\ Registry!ToSet(Registry!Entries(e, n)) \subseteq gone
           \/ Registry!Entries(e, n)' = Registry!Without(Registry!Entries(e, n), gone),
         uid'[e] = uid[e] \/ (\A n \in Registry!Names : Registry!Entries(e, n) = <<>>)
                          \/ (\A m \in Registry!Names : Registry!Entries(e, m)' = <<>>)
  PROVE  /\ ElementSound(Entered(e), listeners[e], uid[e], responders)'
         /\ \A r \in Registry!ToSet(listeners'[e]) : r \in Registry!ToSet(listeners[e])
<1> DEFINE E(n) == Registry!Entries(e, n)
           left == [n \in Registry!Names |-> E(n)']
           still == listeners'[e]
<1>1. /\ ElementSound(Entered(e), listeners[e], uid[e], responders)
      /\ \A n \in Registry!Names :
              /\ Entered(e)[n] = E(n) /\ E(n) \in Seq(Responders) /\ Ordered(E(n))
      /\ listeners[e] \in Seq(Responders) /\ responders \in Nat
  BY ElementFacts
<1>2. ASSUME NEW n \in Registry!Names
      PROVE  /\ left[n] \in Seq(Responders) /\ Ordered(left[n])
             /\ Registry!ToSet(left[n]) = Registry!ToSet(Entered(e)[n]) \ gone
  <2>1. left[n] = E(n)' /\ Entered(e)[n] = E(n) /\ E(n) \in Seq(Responders) /\ Ordered(E(n))
    BY <1>1
  <2>2. CASE E(n)' = E(n) /\ Registry!ToSet(E(n)) \cap gone = {}
    BY <2>1, <2>2
  <2>3. CASE E(n)' = <<>> /\ Registry!ToSet(E(n)) \subseteq gone
    <3>1. <<>> \in Seq(Responders) /\ Ordered(<<>>) /\ Registry!ToSet(<<>>) = {}
      BY DEF Ordered, Registry!ToSet
    <3> QED
      BY <2>1, <2>3, <3>1
  <2>4. CASE E(n)' = Registry!Without(E(n), gone)
    <3>1. E(n)' = Registry!Only(E(n), Registry!ToSet(E(n)) \ gone)
      BY <2>4 DEF Registry!Without
    <3>2. /\ E(n)' \in Seq(Responders) /\ Ordered(E(n)')
          /\ \A x : x \in Registry!ToSet(E(n)') <=> x \in Registry!ToSet(E(n)) /\ x \in Registry!ToSet(E(n)) \ gone
      BY <2>1, <3>1, OnlyFacts
    <3> QED
      BY <2>1, <3>2
  <2> QED
    BY <2>2, <2>3, <2>4
<1>3. uid'[e] = uid[e] \/ \A n \in Registry!Names : Registry!ToSet(left[n]) = {}
  <2>1. Registry!ToSet(<<>>) = {}
    BY DEF Registry!ToSet
  <2>2. CASE \A n \in Registry!Names : E(n) = <<>>
    BY <1>1, <1>2, <2>1, <2>2
  <2>3. CASE \A n \in Registry!Names : E(n)' = <<>>
    BY <2>1, <2>3
  <2> QED
    BY <2>2, <2>3
<1>4. Entered(e)' = left
  BY DEF Entered
<1>5. still = Registry!Without(listeners[e], gone)
  OBVIOUS
<1>6. ElementSound(left, still, uid'[e], responders)
  <2> DEFINE entered == Entered(e)
             heard == listeners[e]
             id == uid[e]
             now == uid'[e]
  <2>1. /\ ElementSound(entered, heard, id, responders) /\ responders \in Nat
        /\ \A n \in Registry!Names :
             /\ left[n] \in Seq(Responders) /\ Ordered(left[n])
             /\ Registry!ToSet(left[n]) = Registry!ToSet(entered[n]) \ gone
        /\ now = id \/ \A n \in Registry!Names : Registry!ToSet(left[n]) = {}
        /\ still = Registry!Without(heard, gone)
    BY <1>1, <1>2, <1>3, <1>5
  <2> HIDE DEF left, still, entered, heard, id, now
  <2>2. ElementSound(left, Registry!Without(heard, gone), now, responders)
    BY <2>1, SoundWithout
  <2> QED
    BY <2>1, <2>2 DEF now
<1>7. \A r \in Registry!ToSet(still) : r \in Registry!ToSet(listeners[e])
  <2>1. still = Registry!Only(listeners[e], Registry!ToSet(listeners[e]) \ gone)
    BY <1>5 DEF Registry!Without
  <2> QED
    BY <1>1, <2>1, OnlyFacts
<1>8. ElementSound(Entered(e), listeners[e], uid[e], responders)'
  BY <1>4, <1>6 DEF ElementSound, Ordered
<1> QED
  BY <1>7, <1>8

\* An element the step does not touch stays sound.
LEMMA Untouched ==
  ASSUME RegistryInv, NEW e \in Elements, responders' \in Nat, responders <= responders',
         listeners'[e] = listeners[e], uid'[e] = uid[e],
         \A n \in Registry!Names : Registry!Entries(e, n)' = Registry!Entries(e, n)
  PROVE  ElementSound(Entered(e), listeners[e], uid[e], responders)'
<1>1. /\ ElementSound(Entered(e), listeners[e], uid[e], responders) /\ responders \in Nat
  BY ElementFacts
<1>2. Entered(e)' = Entered(e)
  BY DEF Entered
<1>3. \A n \in Registry!Names : \A r \in Registry!ToSet(Entered(e)[n]) : r.id <= responders'
  <2> SUFFICES ASSUME NEW n \in Registry!Names, NEW r \in Registry!ToSet(Entered(e)[n])
               PROVE  r.id <= responders'
    OBVIOUS
  <2>1. Entered(e)[n] \in Seq(Responders) /\ r.id <= responders
    BY <1>1 DEF ElementSound
  <2>2. r \in Responders
    BY <2>1, InSequence
  <2>3. r.id \in Nat
    BY <2>2 DEF Responders
  <2> QED
    BY <1>1, <2>1, <2>3
<1> QED
  BY <1>1, <1>2, <1>3 DEF ElementSound

-----------------------------------------------------------------------------
(* The handlers of the registry, one by one *)

\* What a change has to keep for the invariant to stay.
LEMMA Changed ==
  ASSUME RegistryInv, page' = page, frames' = frames, events' = events,
         responders' \in 0..page.responders, responders <= responders', IdsSound', CacheSound',
         DOMAIN listeners' = Elements,
         \A e \in Elements :
           /\ ElementSound(Entered(e), listeners[e], uid[e], responders)'
           /\ \A r \in Registry!ToSet(listeners'[e]) :
                r \in Registry!ToSet(listeners[e]) \/ r.id > responders
  PROVE  RegistryInv'
<1>1. page.responders \in Nat /\ page \in Pages /\ events \in 0..MaxEvents
  BY RegistryAssumed DEF RegistryInv, Counters
<1>2. Counters'
  BY <1>1 DEF Counters
<1>3. FramesSound'
  <2>1. responders' \in Nat
    BY <1>1
  <2> QED
    BY <2>1, FramesKept
<1>4. ListenersSound'
  BY DEF ListenersSound
<1> QED
  BY <1>2, <1>3, <1>4 DEF RegistryInv

\* The entry of the name is written, and the others stay.
LEMMA OneName ==
  ASSUME RegistryInv, NEW e \in Elements, Registry!TakeUID(e), NEW name \in Registry!Names,
         NEW s \in Seq(Responders),
         cache' = Registry!WithRegistry(e, [Registry!RegistryOf(e) EXCEPT !.entries[name] = s])
  PROVE  /\ CacheSound' /\ Registry!Entries(e, name)' = s
         /\ \A n \in Registry!Names \ {name} : Registry!Entries(e, n)' = Registry!Entries(e, n)
         /\ \A d \in Elements \ {e} :
              uid'[d] = uid[d] /\ \A n \in Registry!Names : Registry!Entries(d, n)' = Registry!Entries(d, n)
<1> DEFINE old == Registry!RegistryOf(e)
           new == [old EXCEPT !.entries[name] = s]
<1>1. /\ old \in Registries /\ old.element = e
      /\ \A n \in Registry!Names : old.entries[n] = Registry!Entries(e, n)
  BY RegistryFound
<1> HIDE DEF old
<1>2. /\ new \in Registries /\ new.element = e /\ new.entries[name] = s
      /\ \A n \in Registry!Names \ {name} : new.entries[n] = old.entries[n]
  BY <1>1 DEF Registries
<1>3. cache' = Registry!WithRegistry(e, new)
  BY DEF old
<1> HIDE DEF new
<1>4. /\ CacheSound'
      /\ \A n \in Registry!Names : Registry!Entries(e, n)' = new.entries[n]
      /\ \A d \in Elements \ {e} :
           uid'[d] = uid[d] /\ \A n \in Registry!Names : Registry!Entries(d, n)' = Registry!Entries(d, n)
  BY <1>2, <1>3, Rewritten
<1> QED
  BY <1>1, <1>2, <1>4

LEMMA ObserveKeeps ==
  ASSUME RegistryInv, page' = page, NEW e \in Elements, NEW name \in Registry!Names, NEW h \in Handlers,
         Registry!Observe(e, name, h)
  PROVE  RegistryInv'
<1> DEFINE id == Registry!UIDOf(e)
           r == [uid |-> id, name |-> name, handler |-> h, id |-> responders + 1]
<1>1. Registry!TakeUID(e) /\ frames' = frames /\ events' = events
  BY DEF Registry!Observe
<1>2. /\ id \in 1..MaxUID /\ uid'[e] = id /\ IdsSound'
      /\ \A d \in Elements \ {e} : uid'[d] = uid[d]
      /\ uid[e] # 0 => id = uid[e]
  BY <1>1, Asked
<1>3. /\ responders \in Nat /\ responders \in 0..page.responders /\ page.responders \in Nat
      /\ MaxUID \in Nat
  BY RegistryAssumed DEF RegistryInv, Counters
<1>4. uid[e] = 0 => \A n \in Registry!Names : Registry!Entries(e, n) = <<>>
  BY <1>1, RegistryFound
<1>5. CASE Registry!Known(e, name, h)
  <2>1. UNCHANGED <<cache, listeners, responders>>
    BY <1>5 DEF Registry!Observe
  <2>2. uid[e] # 0
    BY <1>4, <1>5 DEF Registry!Known
  <2>3. uid' = uid
    <3>1. uid' = [uid EXCEPT ![e] = id]
      BY <1>1 DEF Registry!TakeUID
    <3>2. uid \in [Elements -> 0..MaxUID]
      BY DEF RegistryInv, IdsSound
    <3> HIDE DEF id
    <3> QED
      BY <1>2, <2>2, <3>1, <3>2
  <2>4. CacheSound'
    BY <2>1, <2>3 DEF RegistryInv, CacheSound, Registries
  <2>5. ASSUME NEW d \in Elements
        PROVE  ElementSound(Entered(d), listeners[d], uid[d], responders)'
    <3>1. \A n \in Registry!Names : Registry!Entries(d, n)' = Registry!Entries(d, n)
      BY <2>1, <2>3 DEF Registry!Entries
    <3> QED
      BY <1>3, <2>1, <2>3, <3>1, Untouched
  <2> HIDE DEF id, r
  <2>6. DOMAIN listeners' = Elements /\ responders' = responders
    BY <2>1 DEF RegistryInv, ListenersSound
  <2>7. \A d \in Elements : \A q \in Registry!ToSet(listeners'[d]) : q \in Registry!ToSet(listeners[d])
    BY <2>1
  <2> QED
    BY <1>1, <1>2, <1>3, <2>4, <2>5, <2>6, <2>7, Changed
<1>6. CASE ~Registry!Known(e, name, h)
  <2>1. /\ responders < page.responders /\ responders' = responders + 1
        /\ cache' = Registry!WithRegistry(e,
                      [Registry!RegistryOf(e) EXCEPT !.entries[name] = Append(@, r)])
        /\ listeners' = [listeners EXCEPT ![e] = Append(@, r)]
    BY <1>6 DEF Registry!Observe
  <2> DEFINE old == Registry!Entries(e, name)
  <2>2. Registry!RegistryOf(e) \in Registries /\ Registry!RegistryOf(e).entries[name] = old
    BY <1>1, RegistryFound
  <2>3. r \in Responders /\ r.id = responders + 1 /\ r.uid = id /\ r.name = name /\ r.handler = h
    BY <1>2, <1>3 DEF Responders
  <2>4. old \in Seq(Responders) /\ \A q \in Registry!ToSet(old) : q.handler # h
    <3>1. old \in Seq(Responders)
      BY ElementFacts
    <3>2. \A i \in DOMAIN old : old[i].handler # h
      BY <1>6 DEF Registry!Known
    <3> QED
      BY <3>1, <3>2, InSequence
  <2> DEFINE s == Append(old, r)
  <2> HIDE DEF r, id, old
  <2>5. s \in Seq(Responders)
    BY <2>3, <2>4
  <2>6. cache' = Registry!WithRegistry(e, [Registry!RegistryOf(e) EXCEPT !.entries[name] = s])
    BY <2>1, <2>2
  <2> HIDE DEF s
  <2>7. /\ CacheSound' /\ Registry!Entries(e, name)' = s
        /\ \A n \in Registry!Names \ {name} : Registry!Entries(e, n)' = Registry!Entries(e, n)
        /\ \A d \in Elements \ {e} :
             uid'[d] = uid[d] /\ \A n \in Registry!Names : Registry!Entries(d, n)' = Registry!Entries(d, n)
    BY <1>1, <2>5, <2>6, OneName
  <2>8. /\ DOMAIN listeners = Elements /\ DOMAIN listeners' = Elements
        /\ listeners'[e] = Append(listeners[e], r)
        /\ \A d \in Elements \ {e} : listeners'[d] = listeners[d]
    BY <2>1 DEF RegistryInv, ListenersSound
  <2>9. /\ ElementSound(Entered(e), listeners[e], uid[e], responders)'
        /\ \A q \in Registry!ToSet(listeners'[e]) :
             q \in Registry!ToSet(listeners[e]) \/ q.id > responders
    <3>1. /\ ElementSound(Entered(e), listeners[e], uid[e], responders)
          /\ Entered(e)[name] = old /\ listeners[e] \in Seq(Responders)
          /\ \A n \in Registry!Names : Entered(e)[n] = Registry!Entries(e, n)
      BY ElementFacts DEF old
    <3>2. ElementSound(Entered(e), listeners[e], id, responders)
      <4>1. CASE uid[e] # 0
        BY <1>2, <3>1, <4>1 DEF id
      <4>2. CASE uid[e] = 0
        <5>1. \A n \in Registry!Names : Registry!ToSet(Entered(e)[n]) = {}
          BY <1>4, <3>1, <4>2 DEF Registry!ToSet
        <5> QED
          BY <3>1, <5>1 DEF ElementSound
      <4> QED
        BY <4>1, <4>2
    <3>3. /\ Entered(e)'[name] = Append(Entered(e)[name], r)
          /\ \A n \in Registry!Names \ {name} : Entered(e)'[n] = Entered(e)[n]
      BY <2>7, <3>1 DEF Entered, s
    <3>4. /\ ElementSound(Entered(e)', Append(listeners[e], r), id, responders + 1)
          /\ Registry!ToSet(Append(listeners[e], r)) = Registry!ToSet(listeners[e]) \cup {r}
      <4> DEFINE entered == Entered(e)
                 more == Entered(e)'
      <4>1. /\ ElementSound(entered, listeners[e], id, responders)
            /\ r.id = responders + 1 /\ r.uid = id /\ r.name \in Registry!Names
            /\ \A q \in Registry!ToSet(entered[r.name]) : q.handler # r.handler
            /\ \A n \in Registry!Names \ {r.name} : more[n] = entered[n]
            /\ more[r.name] = Append(entered[r.name], r)
        BY <2>3, <2>4, <3>1, <3>2, <3>3
      <4> HIDE DEF entered, more
      <4>2. /\ ElementSound(more, Append(listeners[e], r), id, responders + 1)
            /\ Registry!ToSet(Append(listeners[e], r)) = Registry!ToSet(listeners[e]) \cup {r}
        BY <1>3, <2>3, <4>1, SoundAppended
      <4> QED
        BY <4>2 DEF more
    <3>5. ASSUME NEW q \in Registry!ToSet(listeners'[e])
          PROVE  q \in Registry!ToSet(listeners[e]) \/ q.id > responders
      <4>1. q \in Registry!ToSet(listeners[e]) \/ q = r
        BY <2>8, <3>4
      <4> QED
        BY <1>3, <2>3, <4>1
    <3> QED
      BY <1>2, <2>1, <2>8, <3>4, <3>5 DEF ElementSound, Ordered
  <2>10. ASSUME NEW d \in Elements \ {e}
         PROVE  ElementSound(Entered(d), listeners[d], uid[d], responders)'
    BY <1>3, <2>1, <2>7, <2>8, Untouched
  <2>11. /\ responders' \in 0..page.responders /\ responders <= responders'
    BY <1>3, <2>1
  <2> QED
    BY <1>1, <1>2, <2>7, <2>8, <2>9, <2>10, <2>11, Changed
<1> QED
  BY <1>5, <1>6

\* Of one event name some responders go, on both sides.
LEMMA NameDrops ==
  ASSUME RegistryInv, page' = page, NEW e \in Elements, NEW name \in Registry!Names,
         Registry!TakeUID(e), NEW gone, gone \subseteq Registry!ToSet(Registry!Entries(e, name)),
         NEW left, \/ left = Registry!Without(Registry!Entries(e, name), gone)
                   \/ left = <<>> /\ gone = Registry!ToSet(Registry!Entries(e, name)),
         cache' = Registry!WithRegistry(e, [Registry!RegistryOf(e) EXCEPT !.entries[name] = left]),
         listeners' = [listeners EXCEPT ![e] = Registry!Without(@, gone)],
         UNCHANGED <<responders, frames, events>>
  PROVE  RegistryInv'
<1> DEFINE old == Registry!Entries(e, name)
<1>1. /\ old \in Seq(Responders)
      /\ \A n \in Registry!Names : \A r \in Registry!ToSet(Registry!Entries(e, n)) : r.name = n
  BY ElementFacts
<1>2. left \in Seq(Responders)
  <2>1. CASE left = Registry!Without(old, gone)
    <3>1. left = Registry!Only(old, Registry!ToSet(old) \ gone)
      BY <2>1 DEF Registry!Without
    <3> HIDE DEF old
    <3> QED
      BY <1>1, <3>1, OnlyFacts
  <2>2. CASE left = <<>>
    BY <2>2
  <2> QED
    BY <2>1, <2>2
<1>3. /\ CacheSound' /\ Registry!Entries(e, name)' = left
      /\ \A n \in Registry!Names \ {name} : Registry!Entries(e, n)' = Registry!Entries(e, n)
      /\ \A d \in Elements \ {e} :
           uid'[d] = uid[d] /\ \A n \in Registry!Names : Registry!Entries(d, n)' = Registry!Entries(d, n)
  BY <1>2, OneName
<1>4. /\ DOMAIN listeners' = Elements /\ listeners'[e] = Registry!Without(listeners[e], gone)
      /\ \A d \in Elements \ {e} : listeners'[d] = listeners[d]
  BY DEF RegistryInv, ListenersSound
<1>5. /\ IdsSound' /\ uid'[e] = Registry!UIDOf(e)
      /\ uid[e] # 0 => Registry!UIDOf(e) = uid[e]
  BY Asked
<1>6. uid[e] = 0 => \A n \in Registry!Names : Registry!Entries(e, n) = <<>>
  BY RegistryFound
<1>7. \A n \in Registry!Names :
        \/ Registry!Entries(e, n)' = Registry!Entries(e, n)
           /\ Registry!ToSet(Registry!Entries(e, n)) \cap gone = {}
        \/ Registry!Entries(e, n)' = <<>> /\ Registry!ToSet(Registry!Entries(e, n)) \subseteq gone
        \/ Registry!Entries(e, n)' = Registry!Without(Registry!Entries(e, n), gone)
  <2> SUFFICES ASSUME NEW n \in Registry!Names
               PROVE  \/ Registry!Entries(e, n)' = Registry!Entries(e, n)
                         /\ Registry!ToSet(Registry!Entries(e, n)) \cap gone = {}
                      \/ Registry!Entries(e, n)' = <<>>
                         /\ Registry!ToSet(Registry!Entries(e, n)) \subseteq gone
                      \/ Registry!Entries(e, n)' = Registry!Without(Registry!Entries(e, n), gone)
    OBVIOUS
  <2>1. CASE n = name
    BY <1>3, <2>1
  <2>2. CASE n # name
    <3>1. Registry!ToSet(Registry!Entries(e, n)) \cap gone = {}
      BY <1>1, <2>2
    <3> QED
      BY <1>3, <2>2, <3>1
  <2> QED
    BY <2>1, <2>2
<1>8. responders' = responders /\ responders \in Nat /\ responders \in 0..page.responders
  BY ElementFacts DEF RegistryInv, Counters
<1>9. /\ ElementSound(Entered(e), listeners[e], uid[e], responders)'
      /\ \A r \in Registry!ToSet(listeners'[e]) : r \in Registry!ToSet(listeners[e])
  <2>1. uid'[e] = uid[e] \/ \A n \in Registry!Names : Registry!Entries(e, n) = <<>>
    BY <1>5, <1>6
  <2> QED
    BY <1>4, <1>7, <1>8, <2>1, LosesOnBothSides
<1>10. ASSUME NEW d \in Elements \ {e}
       PROVE  /\ ElementSound(Entered(d), listeners[d], uid[d], responders)'
              /\ \A r \in Registry!ToSet(listeners'[d]) : r \in Registry!ToSet(listeners[d])
  <2>1. ElementSound(Entered(d), listeners[d], uid[d], responders)'
    BY <1>3, <1>4, <1>8, Untouched
  <2> QED
    BY <1>4, <2>1
<1>11. frames' = frames /\ events' = events
  OBVIOUS
<1>12. ASSUME NEW d \in Elements
       PROVE  /\ ElementSound(Entered(d), listeners[d], uid[d], responders)'
              /\ \A r \in Registry!ToSet(listeners'[d]) : r \in Registry!ToSet(listeners[d])
  <2>1. CASE d = e
    BY <1>9, <2>1
  <2>2. CASE d # e
    BY <1>10, <2>2
  <2> QED
    BY <2>1, <2>2
<1> QED
  BY <1>3, <1>4, <1>5, <1>8, <1>11, <1>12, Changed

LEMMA StopObservingKeeps ==
  ASSUME RegistryInv, page' = page, NEW e \in Elements, NEW name \in Registry!Names, NEW h \in Handlers,
         Registry!StopObserving(e, name, h)
  PROVE  RegistryInv'
<1> DEFINE gone == Registry!Unregistered(e, name, h)
           old == Registry!Entries(e, name)
           left == Registry!Without(old, gone)
<1>1. /\ Registry!TakeUID(e)
      /\ cache' = Registry!WithRegistry(e,
                    [Registry!RegistryOf(e) EXCEPT !.entries[name] = Registry!Without(@, gone)])
      /\ listeners' = [listeners EXCEPT ![e] = Registry!Without(@, gone)]
      /\ UNCHANGED <<responders, frames, events>>
  BY DEF Registry!StopObserving
<1>2. gone \subseteq Registry!ToSet(old)
  <2>1. old \in Seq(Responders)
    BY ElementFacts
  <2>2. \A r \in gone : \E i \in DOMAIN old : r = old[i]
    BY DEF Registry!Unregistered
  <2> QED
    BY <2>1, <2>2 DEF Registry!ToSet
<1>3. /\ Registry!RegistryOf(e) \in Registries
      /\ Registry!RegistryOf(e).entries[name] = old
  BY <1>1, RegistryFound
<1> HIDE DEF gone
<1>4. cache' = Registry!WithRegistry(e, [Registry!RegistryOf(e) EXCEPT !.entries[name] = left])
  BY <1>1, <1>3
<1> HIDE DEF old
<1> QED
  BY <1>1, <1>2, <1>4, NameDrops DEF old

LEMMA StopObservingEventNameKeeps ==
  ASSUME RegistryInv, page' = page, NEW e \in Elements, NEW name \in Registry!Names,
         Registry!StopObservingEventName(e, name)
  PROVE  RegistryInv'
<1> DEFINE gone == Registry!ToSet(Registry!Entries(e, name))
<1>1. /\ Registry!TakeUID(e)
      /\ cache' = Registry!WithRegistry(e, [Registry!RegistryOf(e) EXCEPT !.entries[name] = <<>>])
      /\ listeners' = [listeners EXCEPT ![e] = Registry!Without(@, gone)]
      /\ UNCHANGED <<responders, frames, events>>
  BY DEF Registry!StopObservingEventName
<1>2. gone = Registry!ToSet(Registry!Entries(e, name))
  OBVIOUS
<1> HIDE DEF gone
<1> QED
  BY <1>1, <1>2, NameDrops

\* The elements whose registry is destroyed have nothing attached any more.
LEMMA ElementsDrop ==
  ASSUME RegistryInv, page' = page, NEW D \in SUBSET Elements, NEW U,
         cache' = [v \in DOMAIN cache \ U |-> cache[v]],
         \A d \in D : uid'[d] \notin DOMAIN cache \ U /\ (uid[d] # 0 => uid[d] \in U),
         \A d \in Elements \ D : uid'[d] = uid[d] /\ (uid[d] # 0 => uid[d] \notin U),
         listeners' = Registry!Removed(D), IdsSound',
         UNCHANGED <<responders, frames, events>>
  PROVE  RegistryInv'
<1>1. /\ CacheSound'
      /\ \A n \in Registry!Names : \A d \in D : Registry!Entries(d, n)' = <<>>
      /\ \A n \in Registry!Names : \A d \in Elements \ D :
           Registry!Entries(d, n)' = Registry!Entries(d, n)
  BY Erased
<1>2. /\ DOMAIN listeners' = Elements
      /\ \A d \in D : listeners'[d] = Registry!Without(listeners[d], Registry!Attached(d))
      /\ \A d \in Elements \ D : listeners'[d] = listeners[d]
  BY DEF Registry!Removed
<1>3. responders' = responders /\ responders \in 0..page.responders /\ page.responders \in Nat
      /\ frames' = frames /\ events' = events
  BY RegistryAssumed DEF RegistryInv, Counters
<1>4. ASSUME NEW d \in D
      PROVE  /\ ElementSound(Entered(d), listeners[d], uid[d], responders)'
             /\ \A r \in Registry!ToSet(listeners'[d]) : r \in Registry!ToSet(listeners[d])
  <2> DEFINE gone == Registry!Attached(d)
  <2>1. \A n \in Registry!Names :
          Registry!Entries(d, n)' = <<>> /\ Registry!ToSet(Registry!Entries(d, n)) \subseteq gone
    BY <1>1 DEF Registry!Attached
  <2>2. listeners'[d] = Registry!Without(listeners[d], gone) /\ d \in Elements
    BY <1>2
  <2> HIDE DEF gone
  <2> QED
    BY <1>3, <2>1, <2>2, LosesOnBothSides
<1>5. ASSUME NEW d \in Elements \ D
      PROVE  /\ ElementSound(Entered(d), listeners[d], uid[d], responders)'
             /\ \A r \in Registry!ToSet(listeners'[d]) : r \in Registry!ToSet(listeners[d])
  <2>1. \A n \in Registry!Names : Registry!Entries(d, n)' = Registry!Entries(d, n)
    BY <1>1
  <2>2. ElementSound(Entered(d), listeners[d], uid[d], responders)'
    BY <1>2, <1>3, <2>1, Untouched
  <2> QED
    BY <1>2, <2>2
<1>6. ASSUME NEW d \in Elements
      PROVE  /\ ElementSound(Entered(d), listeners[d], uid[d], responders)'
             /\ \A r \in Registry!ToSet(listeners'[d]) : r \in Registry!ToSet(listeners[d])
  <2>1. d \in D \/ d \in Elements \ D
    OBVIOUS
  <2> QED
    BY <1>4, <1>5, <2>1
<1> QED
  BY <1>1, <1>2, <1>3, <1>6, Changed

LEMMA StopObservingElementKeeps ==
  ASSUME RegistryInv, page' = page, NEW e \in Elements, Registry!StopObservingElement(e)
  PROVE  RegistryInv'
<1> DEFINE u == Registry!UIDOf(e)
           D == {e}
           U == {Registry!UIDOf(d) : d \in D}
<1>1. /\ Registry!TakeUID(e) /\ UNCHANGED <<responders, frames, events>>
      /\ cache' = [v \in DOMAIN cache \ U |-> cache[v]]
      /\ listeners' = Registry!Removed(D)
  BY DEF Registry!StopObservingElement, Registry!Destroyed
<1>2. /\ uid'[e] = u /\ IdsSound'
      /\ \A d \in Elements \ {e} : uid'[d] = uid[d] /\ uid[d] # u
      /\ uid[e] # 0 => u = uid[e]
  BY <1>1, Asked
<1>3. U = {u}
  OBVIOUS
<1> HIDE DEF u
<1>4. \A d \in D : uid'[d] \notin DOMAIN cache \ U /\ (uid[d] # 0 => uid[d] \in U)
  BY <1>2, <1>3
<1>5. \A d \in Elements \ D : uid'[d] = uid[d] /\ (uid[d] # 0 => uid[d] \notin U)
  BY <1>2, <1>3
<1>6. D \in SUBSET Elements
  OBVIOUS
<1> HIDE DEF D, U
<1> QED
  BY <1>1, <1>2, <1>4, <1>5, <1>6, ElementsDrop

LEMMA PurgeKeeps ==
  ASSUME RegistryInv, page' = page, NEW e \in Elements, Registry!Purge(e)
  PROVE  RegistryInv'
<1> DEFINE D == Registry!Purged(e)
           had == {d \in D : uid[d] # 0}
           U == {uid[d] : d \in had}
           new == {d \in D : ~Registry!HasUID(d)}
           more == Registry!Cardinality(new)
<1>1. /\ nextUID + more <= MaxUID + 1 /\ nextUID' = nextUID + more
      /\ cache' = Registry!Destroyed({d \in D : Registry!HasUID(d)})
      /\ listeners' = Registry!Removed(D)
      /\ uid' = [d \in Elements |-> IF d \in D THEN 0 ELSE uid[d]]
      /\ UNCHANGED <<responders, frames, events>>
  BY DEF Registry!Purge
<1>2. D \in SUBSET Elements
  BY DEF Registry!Purged
<1>3. more \in Nat
  <2>1. IsFiniteSet(new)
    BY <1>2, RegistryAssumed, FS_Subset
  <2>2. Cardinality(new) \in Nat
    BY <2>1, FS_CardinalityType
  <2>3. more = Cardinality(new)
    BY DEF Registry!Cardinality, Cardinality, Registry!IsFiniteSet, IsFiniteSet
  <2> QED
    BY <2>2, <2>3
<1>4. cache' = [v \in DOMAIN cache \ U |-> cache[v]]
  <2>1. {d \in D : Registry!HasUID(d)} = had
    BY DEF Registry!HasUID
  <2>2. {Registry!UIDOf(d) : d \in had} = U
    BY DEF Registry!UIDOf, Registry!HasUID
  <2> HIDE DEF U, had, D
  <2> QED
    BY <1>1, <2>1, <2>2 DEF Registry!Destroyed
<1>5. /\ uid \in [Elements -> 0..MaxUID] /\ nextUID \in 1..(MaxUID + 1) /\ MaxUID \in Nat
      /\ \A d \in Elements : uid[d] < nextUID
      /\ \A c, d \in Elements : uid[c] = uid[d] /\ uid[c] # 0 => c = d
      /\ 0 \notin DOMAIN cache
  BY RegistryAssumed DEF RegistryInv, IdsSound, CacheSound
<1>6. /\ \A d \in D : uid'[d] = 0
      /\ \A d \in Elements \ D : uid'[d] = uid[d]
  BY <1>1, <1>2
<1>7. /\ \A d \in D : uid[d] # 0 => uid[d] \in U
      /\ \A d \in Elements \ D : uid[d] # 0 => uid[d] \notin U
  <2> SUFFICES ASSUME NEW d \in Elements \ D, uid[d] # 0, uid[d] \in U PROVE FALSE
    OBVIOUS
  <2>1. PICK c \in D : uid[c] = uid[d]
    OBVIOUS
  <2> QED
    BY <1>2, <1>5, <2>1
<1> HIDE DEF D, had, U, new, more
<1>8. IdsSound'
  <2>1. uid' \in [Elements -> 0..MaxUID]
    BY <1>1, <1>5
  <2>2. nextUID' \in 1..(MaxUID + 1)
    BY <1>1, <1>3, <1>5
  <2>3. \A d \in Elements : uid'[d] < nextUID'
    <3> SUFFICES ASSUME NEW d \in Elements PROVE uid'[d] < nextUID'
      OBVIOUS
    <3>1. uid'[d] = 0 \/ uid'[d] = uid[d]
      BY <1>6
    <3>2. uid[d] \in 0..MaxUID /\ uid[d] < nextUID
      BY <1>5
    <3> QED
      BY <1>1, <1>3, <1>5, <3>1, <3>2
  <2>4. \A c, d \in Elements : uid'[c] = uid'[d] /\ uid'[c] # 0 => c = d
    BY <1>5, <1>6
  <2> QED
    BY <2>1, <2>2, <2>3, <2>4 DEF IdsSound
<1>9. \A d \in D : uid'[d] \notin DOMAIN cache \ U /\ (uid[d] # 0 => uid[d] \in U)
  BY <1>5, <1>6, <1>7
<1>10. \A d \in Elements \ D : uid'[d] = uid[d] /\ (uid[d] # 0 => uid[d] \notin U)
  BY <1>6, <1>7
<1>11. listeners' = Registry!Removed(D) /\ UNCHANGED <<responders, frames, events>>
  BY <1>1
<1> QED
  BY <1>2, <1>4, <1>8, <1>9, <1>10, <1>11, ElementsDrop

-----------------------------------------------------------------------------
(* The dispatches *)

\* What the browser has for an element is in the registry under its name.
LEMMA HeardIsEntered ==
  ASSUME RegistryInv, NEW e \in Elements, NEW r \in Registry!ToSet(listeners[e])
  PROVE  /\ r \in Responders /\ r.name \in Registry!Names /\ r.id <= responders
         /\ r \in Registry!ToSet(Registry!Entries(e, r.name))
         /\ \A q \in Registry!ToSet(listeners[e]) :
              q.name = r.name /\ q.handler = r.handler => q = r
<1>1. /\ ElementSound(Entered(e), listeners[e], uid[e], responders)
      /\ \A n \in Registry!Names :
           /\ Entered(e)[n] = Registry!Entries(e, n)
           /\ \A q \in Registry!ToSet(Registry!Entries(e, n)) : q.name = n
      /\ listeners[e] \in Seq(Responders)
      /\ Registry!ToSet(listeners[e])
           = UNION {Registry!ToSet(Registry!Entries(e, n)) : n \in Registry!Names}
  BY ElementFacts
<1>2. \A q \in Registry!ToSet(listeners[e]) :
         q.name \in Registry!Names /\ q \in Registry!ToSet(Registry!Entries(e, q.name))
  BY <1>1
<1>3. r \in Responders
  BY <1>1, InSequence
<1>4. \A n \in Registry!Names :
        /\ \A q \in Registry!ToSet(Registry!Entries(e, n)) : q.id <= responders
        /\ \A p, q \in Registry!ToSet(Registry!Entries(e, n)) : p.handler = q.handler => p = q
  BY <1>1 DEF ElementSound
<1>5. r.id <= responders
  BY <1>2, <1>4
<1>6. ASSUME NEW q \in Registry!ToSet(listeners[e]), q.name = r.name, q.handler = r.handler
      PROVE  q = r
  <2> DEFINE n == r.name
  <2>1. n \in Registry!Names /\ r \in Registry!ToSet(Registry!Entries(e, n))
        /\ q \in Registry!ToSet(Registry!Entries(e, n))
    BY <1>2, <1>6
  <2> QED
    BY <1>4, <1>6, <2>1
<1> QED
  BY <1>2, <1>3, <1>5, <1>6

\* What the browser copies when an event gets to an element.
LEMMA CopiedFacts ==
  ASSUME RegistryInv, NEW e \in Elements, NEW name
  PROVE  /\ Registry!Copied(e, name) \in Seq(Responders) /\ Ordered(Registry!Copied(e, name))
         /\ Registry!ToSet(Registry!Copied(e, name)) \subseteq Registry!ToSet(listeners[e])
         /\ \A r \in Registry!ToSet(listeners[e]) :
              r.name = name => r \in Registry!ToSet(Registry!Copied(e, name))
         /\ \A q, r \in Registry!ToSet(Registry!Copied(e, name)) :
              q.name = name /\ r.name = name /\ q.handler = r.handler => q = r
<1> DEFINE chosen == {r \in Registry!ToSet(listeners[e]) : Registry!TypeOf(r.name) = Registry!TypeOf(name)}
           copied == Registry!Copied(e, name)
<1>1. copied = Registry!Only(listeners[e], chosen)
  BY DEF Registry!Copied
<1>2. \A r \in Registry!ToSet(listeners[e]) : r.name = name => r \in chosen
  OBVIOUS
<1>3. listeners[e] \in Seq(Responders) /\ Ordered(listeners[e])
  BY ElementFacts
<1> HIDE DEF chosen, copied
<1>4. /\ copied \in Seq(Responders) /\ Ordered(copied)
      /\ \A x : x \in Registry!ToSet(copied) <=> x \in Registry!ToSet(listeners[e]) /\ x \in chosen
  BY <1>1, <1>3, OnlyFacts
<1>5. \A q, r \in Registry!ToSet(copied) : q.name = name /\ r.name = name /\ q.handler = r.handler => q = r
  BY <1>4, HeardIsEntered
<1> QED
  BY <1>2, <1>4, <1>5 DEF copied

\* What can be called of a frame.
LEMMA CallableFacts ==
  ASSUME NEW f, f.queue \in Seq(Responders), Ordered(f.queue)
  PROVE  /\ Registry!Callable(f) \in Seq(Responders) /\ Ordered(Registry!Callable(f))
         /\ \A r : r \in Registry!ToSet(Registry!Callable(f))
                     <=> /\ r \in Registry!ToSet(f.queue)
                         /\ r \in Registry!ToSet(listeners[f.at]) /\ r.name = f.name
<1> DEFINE heard == Registry!ToSet(listeners[f.at])
           pending == Registry!Pending(f)
           wanted == {r \in Registry!ToSet(pending) : Registry!Wanted(r, f)}
           callable == Registry!Callable(f)
<1>1. pending = Registry!Only(f.queue, heard)
  BY DEF Registry!Pending
<1>2. callable = Registry!Only(pending, wanted)
  BY DEF Registry!Callable
<1> HIDE DEF heard, pending
<1>3. /\ pending \in Seq(Responders) /\ Ordered(pending)
      /\ \A r : r \in Registry!ToSet(pending) <=> r \in Registry!ToSet(f.queue) /\ r \in heard
  BY <1>1, OnlyFacts
<1>4. \A r : r \in wanted <=> r \in Registry!ToSet(pending) /\ r.name = f.name
  BY DEF Registry!Wanted
<1> HIDE DEF wanted, callable
<1>5. /\ callable \in Seq(Responders) /\ Ordered(callable)
      /\ \A r : r \in Registry!ToSet(callable) <=> r \in Registry!ToSet(pending) /\ r \in wanted
  BY <1>2, <1>3, OnlyFacts
<1> QED
  BY <1>3, <1>4, <1>5 DEF callable, heard

\* Only the innermost dispatch changes.
LEMMA TopChanges ==
  ASSUME RegistryInv, page' = page, frames # <<>>, NEW g, FrameSound(g),
         frames' = [frames EXCEPT ![1] = g],
         UNCHANGED <<uid, nextUID, cache, listeners, responders, events>>
  PROVE  RegistryInv'
<1>1. /\ frames \in Seq(Frames) /\ Len(frames) <= MaxDepth
      /\ \A i \in 1..Len(frames) : FrameSound(frames[i])
      /\ g \in Frames
  BY DEF RegistryInv, FramesSound, FrameSound
<1>2. /\ frames' \in Seq(Frames) /\ Len(frames') = Len(frames)
      /\ \A i \in 1..Len(frames) : frames'[i] = IF i = 1 THEN g ELSE frames[i]
  BY <1>1
<1>3. Frames' = Frames
  BY DEF Frames
<1>4. \A i \in 1..Len(frames') : FrameSound(frames'[i])
  BY <1>1, <1>2
<1>5. \A i \in 1..Len(frames') : FrameSound(frames[i])'
  <2> SUFFICES ASSUME NEW i \in 1..Len(frames') PROVE FrameSound(frames[i])'
    OBVIOUS
  <2>1. FrameSound(frames'[i])
    BY <1>4
  <2> QED
    BY <1>3, <2>1 DEF FrameSound
<1>6. FramesSound'
  BY <1>1, <1>2, <1>3, <1>5 DEF FramesSound
<1>7. Counters' /\ IdsSound' /\ CacheSound'
  BY DEF RegistryInv, Counters, IdsSound, CacheSound, Registries
<1>8. ListenersSound'
  BY DEF RegistryInv, ListenersSound, ElementSound, Entered, Registry!Entries, Ordered
<1> QED
  BY <1>6, <1>7, <1>8 DEF RegistryInv

LEMMA TopIs ==
  ASSUME RegistryInv, frames # <<>>
  PROVE  /\ Registry!Top = frames[1] /\ FrameSound(frames[1])
         /\ 1 \in DOMAIN frames /\ frames \in Seq(Frames)
BY DEF RegistryInv, FramesSound, Registry!Top

LEMMA CallKeeps ==
  ASSUME RegistryInv, page' = page, Registry!Call
  PROVE  RegistryInv'
<1> DEFINE f == frames[1]
           r == Head(Registry!Callable(f))
           later == {x \in Registry!ToSet(f.queue) : x.id > r.id}
           g == [[[f EXCEPT !.running = TRUE] EXCEPT !.called = @ \cup {<<f.at, r>>}]
                   EXCEPT !.queue = Registry!Only(@, later)]
<1>1. /\ frames # <<>> /\ Registry!Callable(f) # <<>> /\ Registry!Top = f
      /\ FrameSound(f) /\ 1 \in DOMAIN frames
  BY TopIs DEF Registry!Call, Registry!Waiting
<1>2. /\ frames' = [frames EXCEPT ![1].running = TRUE, ![1].called = @ \cup {<<f.at, r>>},
                      ![1].queue = Registry!Only(@, {x \in Registry!ToSet(@) : x.id > r.id})]
      /\ UNCHANGED <<uid, nextUID, cache, listeners, responders, events>>
  BY <1>1 DEF Registry!Call
<1>3. /\ f.queue \in Seq(Responders) /\ Ordered(f.queue) /\ f.at \in Elements
      /\ f.called \in SUBSET (Elements \X Responders)
      /\ f \in Frames
  BY <1>1 DEF FrameSound, Frames
<1>4. g = [f EXCEPT !.running = TRUE, !.called = @ \cup {<<f.at, r>>}, !.queue = Registry!Only(@, later)]
  BY <1>3 DEF Frames
<1>5. frames' = [frames EXCEPT ![1] = g]
  BY <1>1, <1>2, <1>4
<1>6. /\ Registry!Callable(f) \in Seq(Responders) /\ Ordered(Registry!Callable(f))
      /\ \A x : x \in Registry!ToSet(Registry!Callable(f))
                  <=> /\ x \in Registry!ToSet(f.queue)
                      /\ x \in Registry!ToSet(listeners[f.at]) /\ x.name = f.name
  BY <1>3, CallableFacts
<1>7. /\ r \in Responders /\ r \in Registry!ToSet(f.queue) /\ r.name = f.name
      /\ \A x \in Registry!ToSet(Registry!Callable(f)) : x = r \/ r.id < x.id
  <2> DEFINE s == Registry!Callable(f)
  <2>1. s \in Seq(Responders) /\ s # <<>> /\ Ordered(s) /\ r = s[1] /\ Len(s) \in Nat /\ 1 \in 1..Len(s)
    BY <1>1, <1>6
  <2> HIDE DEF s, r
  <2>2. r \in Responders /\ r \in Registry!ToSet(s)
    BY <2>1, InSequence
  <2>3. \A x \in Registry!ToSet(s) : x = r \/ r.id < x.id
    <3> SUFFICES ASSUME NEW x \in Registry!ToSet(s) PROVE x = r \/ r.id < x.id
      OBVIOUS
    <3>1. PICK i \in 1..Len(s) : s[i] = x
      BY <2>1, InSequence
    <3>2. i = 1 \/ 1 < i
      BY <2>1
    <3> QED
      BY <2>1, <3>1, <3>2 DEF Ordered
  <2> QED
    BY <1>6, <2>2, <2>3 DEF s
<1> HIDE DEF r, later
<1>8. /\ Registry!Only(f.queue, later) \in Seq(Responders) /\ Ordered(Registry!Only(f.queue, later))
      /\ \A x : x \in Registry!ToSet(Registry!Only(f.queue, later))
                  <=> x \in Registry!ToSet(f.queue) /\ x.id > r.id
  BY <1>3, OnlyFacts DEF later
<1>9. /\ g.name = f.name /\ g.at = f.at /\ g.bubble = f.bubble /\ g.owed = f.owed
      /\ g.called = f.called \cup {<<f.at, r>>} /\ g.queue = Registry!Only(f.queue, later)
      /\ g \in Frames
  <2>1. /\ f.at \in Elements /\ r \in Responders /\ f.called \in SUBSET (Elements \X Responders)
        /\ f.called \cup {<<f.at, r>>} \in SUBSET (Elements \X Responders)
        /\ Registry!Only(f.queue, later) \in Seq(Responders) /\ f \in Frames
    BY <1>3, <1>7, <1>8
  <2> DEFINE C == f.called \cup {<<f.at, r>>}
             q == Registry!Only(f.queue, later)
             f1 == [f EXCEPT !.running = TRUE]
             f2 == [f1 EXCEPT !.called = C]
             f3 == [f2 EXCEPT !.queue = q]
  <2>2. f1 \in Frames /\ f1.called = f.called /\ f1.queue = f.queue /\ f1.name = f.name
        /\ f1.at = f.at /\ f1.bubble = f.bubble /\ f1.owed = f.owed
    BY <2>1 DEF Frames
  <2>3. C \in SUBSET (Elements \X Responders) /\ q \in Seq(Responders)
    BY <2>1
  <2>4. g = f3
    BY <2>2
  <2> HIDE DEF f1, g, C, q
  <2>5. f2 \in Frames /\ f2.called = C /\ f2.queue = f.queue /\ f2.name = f.name
        /\ f2.at = f.at /\ f2.bubble = f.bubble /\ f2.owed = f.owed
    BY <2>2, <2>3 DEF Frames
  <2> HIDE DEF f2
  <2>6. f3 \in Frames /\ f3.called = C /\ f3.queue = q /\ f3.name = f.name
        /\ f3.at = f.at /\ f3.bubble = f.bubble /\ f3.owed = f.owed
    BY <2>5, <2>3 DEF Frames
  <2> QED
    BY <2>4, <2>6 DEF C, q
<1> HIDE DEF g
<1>10. FrameSound(g)
  <2>1. \A c \in g.called : c[2].name = g.name /\ g.at \in Registry!Ancestors(c[1])
    <3>1. \A c \in f.called : c[2].name = f.name /\ f.at \in Registry!Ancestors(c[1])
      BY <1>1 DEF FrameSound
    <3>2. f.at \in Registry!Ancestors(f.at)
      BY <1>3, AncestorsAre
    <3> QED
      BY <1>7, <1>9, <3>1, <3>2
  <2>2. \A c \in f.called : c[1] = f.at => c[2].handler # r.handler
    BY <1>1, <1>7 DEF FrameSound
  <2>3. \A c, d \in g.called : c[1] = d[1] /\ c[2].handler = d[2].handler => c = d
    <3>1. \A c, d \in f.called : c[1] = d[1] /\ c[2].handler = d[2].handler => c = d
      BY <1>1 DEF FrameSound
    <3> QED
      BY <1>9, <2>2, <3>1
  <2>4. \A p, q \in Registry!ToSet(f.queue) :
          p.name = f.name /\ q.name = f.name /\ p.handler = q.handler => p = q
    BY <1>1 DEF FrameSound
  <2>5. \A p, q \in Registry!ToSet(g.queue) :
          p.name = g.name /\ q.name = g.name /\ p.handler = q.handler => p = q
    BY <1>8, <1>9, <2>4
  <2>6. \A c \in g.called : \A q \in Registry!ToSet(g.queue) :
          c[1] = g.at /\ q.name = g.name => q.handler # c[2].handler
    <3> SUFFICES ASSUME NEW c \in g.called, NEW q \in Registry!ToSet(g.queue), c[1] = g.at, q.name = g.name
                 PROVE  q.handler # c[2].handler
      OBVIOUS
    <3>1. q \in Registry!ToSet(f.queue) /\ q.id > r.id /\ q.name = f.name
      BY <1>8, <1>9
    <3>2. CASE c \in f.called
      BY <1>1, <1>9, <3>1, <3>2 DEF FrameSound
    <3>3. CASE c = <<f.at, r>>
      <4>1. q # r
        BY <1>7, <3>1 DEF Responders
      <4> QED
        BY <1>7, <2>4, <3>1, <3>3, <4>1
    <3> QED
      BY <1>9, <3>2, <3>3
  <2>7. ASSUME NEW o \in g.owed
        PROVE  /\ o[2].name = g.name /\ o[2].id <= responders
               /\ o[2] \in Registry!ToSet(listeners[o[1]]) =>
                    \/ o \in g.called
                    \/ o[1] = g.at /\ o[2] \in Registry!ToSet(g.queue)
                    \/ g.bubble /\ o[1] \in Registry!Ancestors(g.at) \ {g.at}
    <3>1. /\ o[2].name = f.name /\ o[2].id <= responders
          /\ o[2] \in Registry!ToSet(listeners[o[1]]) =>
                    \/ o \in f.called
                    \/ o[1] = f.at /\ o[2] \in Registry!ToSet(f.queue)
                    \/ f.bubble /\ o[1] \in Registry!Ancestors(f.at) \ {f.at}
      BY <1>1, <1>9 DEF FrameSound
    <3>2. ASSUME o[1] = f.at, o[2] \in Registry!ToSet(f.queue), o[2] \in Registry!ToSet(listeners[o[1]])
          PROVE  o \in g.called \/ o[2] \in Registry!ToSet(g.queue)
      <4>1. o[2] = r \/ r.id < o[2].id
        BY <1>6, <1>7, <3>1, <3>2
      <4>2. o \in Elements \X Responders /\ r.id \in Nat /\ o[2].id \in Nat
        <5>1. o \in Elements \X Responders
          BY <1>3, <1>9 DEF Frames
        <5> QED
          BY <1>7, <5>1 DEF Responders
      <4>3. CASE o[2] = r
        <5>1. o = <<f.at, r>>
          BY <3>2, <4>2, <4>3
        <5> QED
          BY <1>9, <5>1
      <4>4. CASE r.id < o[2].id
        BY <1>8, <1>9, <3>2, <4>2, <4>4
      <4> QED
        BY <4>1, <4>3, <4>4
    <3> QED
      BY <1>9, <3>1, <3>2
  <2> QED
    BY <1>8, <1>9, <2>1, <2>3, <2>5, <2>6, <2>7 DEF FrameSound
<1> QED
  BY <1>1, <1>2, <1>5, <1>10, TopChanges

LEMMA ReturnOrStopKeeps ==
  ASSUME RegistryInv, page' = page, Registry!Return \/ Registry!Stop
  PROVE  RegistryInv'
<1> DEFINE f == frames[1]
<1>1. frames # <<>> /\ FrameSound(f) /\ 1 \in DOMAIN frames
  BY TopIs DEF Registry!Return, Registry!Stop
<1>2. UNCHANGED <<uid, nextUID, cache, listeners, responders, events>>
  BY DEF Registry!Return, Registry!Stop
<1>3. PICK g : /\ frames' = [frames EXCEPT ![1] = g]
               /\ g = [f EXCEPT !.running = FALSE] \/ g = [f EXCEPT !.stopped = TRUE]
  BY <1>1 DEF Registry!Return, Registry!Stop
<1> HIDE DEF f
<1>4. /\ f \in Frames /\ g \in Frames
      /\ g.name = f.name /\ g.at = f.at /\ g.bubble = f.bubble /\ g.owed = f.owed
      /\ g.called = f.called /\ g.queue = f.queue
  <2>1. f \in Frames
    BY <1>1 DEF FrameSound
  <2>2. CASE g = [f EXCEPT !.running = FALSE]
    BY <2>1, <2>2 DEF Frames
  <2>3. CASE g = [f EXCEPT !.stopped = TRUE]
    BY <2>1, <2>3 DEF Frames
  <2> QED
    BY <1>3, <2>1, <2>2, <2>3
<1>5. FrameSound(g)
  BY <1>1, <1>4 DEF FrameSound
<1> QED
  BY <1>1, <1>2, <1>3, <1>5, TopChanges

LEMMA BubbleKeeps ==
  ASSUME RegistryInv, page' = page, Registry!Bubble
  PROVE  RegistryInv'
<1> DEFINE f == frames[1]
           p == ParentOf[f.at]
           q == Registry!Copied(p, f.name)
           f1 == [f EXCEPT !.at = p]
           g == [f1 EXCEPT !.queue = q]
<1>1. /\ frames # <<>> /\ Registry!Callable(f) = <<>> /\ Registry!Climbs(f) /\ Registry!Top = f
      /\ FrameSound(f) /\ 1 \in DOMAIN frames
  BY TopIs DEF Registry!Bubble, Registry!Waiting
<1>2. /\ frames' = [frames EXCEPT ![1].at = ParentOf[@], ![1].queue = q]
      /\ UNCHANGED <<uid, nextUID, cache, listeners, responders, events>>
  BY <1>1 DEF Registry!Bubble
<1>3. /\ f \in Frames /\ f.queue \in Seq(Responders) /\ Ordered(f.queue) /\ f.at \in Elements
      /\ f.bubble = TRUE /\ f.called \in SUBSET (Elements \X Responders)
  BY <1>1 DEF FrameSound, Frames, Registry!Climbs
<1>4. p \in Elements
  BY <1>1, <1>3, RegistryAssumed DEF Registry!Climbs
<1>5. frames' = [frames EXCEPT ![1] = g]
  <2>1. [f EXCEPT !.at = ParentOf[@], !.queue = q] = g
    BY <1>3 DEF Frames
  <2> QED
    BY <1>1, <1>2, <2>1
<1>6. /\ q \in Seq(Responders) /\ Ordered(q)
      /\ Registry!ToSet(q) \subseteq Registry!ToSet(listeners[p])
      /\ \A r \in Registry!ToSet(listeners[p]) : r.name = f.name => r \in Registry!ToSet(q)
      /\ \A x, y \in Registry!ToSet(q) :
           x.name = f.name /\ y.name = f.name /\ x.handler = y.handler => x = y
  BY <1>4, CopiedFacts
<1>7. \A r \in Registry!ToSet(f.queue) : r \in Registry!ToSet(listeners[f.at]) => r.name # f.name
  <2>1. Registry!ToSet(Registry!Callable(f)) = {}
    BY <1>1 DEF Registry!ToSet
  <2> HIDE DEF f
  <2> QED
    BY <1>3, <2>1, CallableFacts
<1>8. /\ Registry!Ancestors(f.at) = {f.at} \cup Registry!Ancestors(p)
      /\ f.at \notin Registry!Ancestors(p)
  BY <1>3, <1>4, ParentIsAbove
<1> HIDE DEF p, q
<1>9. /\ g \in Frames /\ g.name = f.name /\ g.at = p /\ g.bubble = TRUE /\ g.owed = f.owed
      /\ g.called = f.called /\ g.queue = q
  <2>1. f1 \in Frames /\ f1.name = f.name /\ f1.at = p /\ f1.bubble = TRUE /\ f1.owed = f.owed
        /\ f1.called = f.called
    BY <1>3, <1>4 DEF Frames
  <2> HIDE DEF f1
  <2> QED
    BY <1>6, <2>1 DEF Frames
<1> HIDE DEF g
<1>10. FrameSound(g)
  <2>1. \A c \in f.called : c[2].name = f.name /\ f.at \in Registry!Ancestors(c[1]) /\ c[1] \in Elements
    BY <1>1, <1>3 DEF FrameSound
  <2>2. \A c \in g.called : c[2].name = g.name /\ g.at \in Registry!Ancestors(c[1])
    <3> SUFFICES ASSUME NEW c \in g.called
                 PROVE  c[2].name = g.name /\ g.at \in Registry!Ancestors(c[1])
      OBVIOUS
    <3>1. c[2].name = f.name /\ f.at \in Registry!Ancestors(c[1]) /\ c[1] \in Elements
      BY <1>9, <2>1
    <3>2. p \in Registry!Ancestors(c[1])
      BY <1>4, <3>1, AncestorsAre DEF p
    <3> QED
      BY <1>9, <3>1, <3>2
  <2>3. \A c, d \in g.called : c[1] = d[1] /\ c[2].handler = d[2].handler => c = d
    BY <1>1, <1>9 DEF FrameSound
  <2>4. \A c \in g.called : c[1] # g.at
    BY <1>8, <1>9, <2>1
  <2>5. ASSUME NEW o \in g.owed
        PROVE  /\ o[2].name = g.name /\ o[2].id <= responders
               /\ o[2] \in Registry!ToSet(listeners[o[1]]) =>
                    \/ o \in g.called
                    \/ o[1] = g.at /\ o[2] \in Registry!ToSet(g.queue)
                    \/ g.bubble /\ o[1] \in Registry!Ancestors(g.at) \ {g.at}
    <3>1. /\ o[2].name = f.name /\ o[2].id <= responders
          /\ o[2] \in Registry!ToSet(listeners[o[1]]) =>
                    \/ o \in f.called
                    \/ o[1] = f.at /\ o[2] \in Registry!ToSet(f.queue)
                    \/ f.bubble /\ o[1] \in Registry!Ancestors(f.at) \ {f.at}
      BY <1>1, <1>9 DEF FrameSound
    <3>2. ASSUME o[2] \in Registry!ToSet(listeners[o[1]]), o[1] \in Registry!Ancestors(f.at) \ {f.at}
          PROVE  \/ o[1] = p /\ o[2] \in Registry!ToSet(q)
                 \/ o[1] \in Registry!Ancestors(p) \ {p}
      BY <1>6, <1>8, <3>1, <3>2
    <3> QED
      BY <1>7, <1>9, <3>1, <3>2
  <2> QED
    BY <1>6, <1>9, <2>2, <2>3, <2>4, <2>5 DEF FrameSound
<1> QED
  BY <1>1, <1>2, <1>5, <1>10, TopChanges

\* The dispatches change as a whole, with what is in each.
LEMMA DispatchesChange ==
  ASSUME RegistryInv, page' = page, UNCHANGED <<uid, nextUID, cache, listeners, responders>>,
         events' \in 0..MaxEvents, NEW fs \in Seq(Frames), frames' = fs, Len(fs) <= MaxDepth,
         \A i \in 1..Len(fs) : FrameSound(fs[i])
  PROVE  RegistryInv'
<1>1. Frames' = Frames
  BY DEF Frames
<1>2. \A i \in 1..Len(frames') : FrameSound(frames[i])'
  <2> SUFFICES ASSUME NEW i \in 1..Len(frames') PROVE FrameSound(frames[i])'
    OBVIOUS
  <2>1. FrameSound(frames'[i])
    OBVIOUS
  <2> QED
    BY <1>1, <2>1 DEF FrameSound
<1>3. FramesSound'
  BY <1>1, <1>2 DEF FramesSound
<1>4. Counters' /\ IdsSound' /\ CacheSound'
  BY DEF RegistryInv, Counters, IdsSound, CacheSound, Registries
<1>5. ListenersSound'
  BY DEF RegistryInv, ListenersSound, ElementSound, Entered, Registry!Entries, Ordered
<1> QED
  BY <1>3, <1>4, <1>5 DEF RegistryInv

LEMMA EndKeeps ==
  ASSUME RegistryInv, page' = page, Registry!End
  PROVE  RegistryInv'
<1>1. /\ frames # <<>> /\ frames' = Tail(frames)
      /\ UNCHANGED <<uid, nextUID, cache, listeners, responders, events>>
  BY DEF Registry!End
<1>2. /\ frames \in Seq(Frames) /\ Len(frames) <= MaxDepth /\ events \in 0..MaxEvents
      /\ \A i \in 1..Len(frames) : FrameSound(frames[i])
      /\ MaxDepth \in Nat
  BY RegistryAssumed DEF RegistryInv, FramesSound, Counters
<1> DEFINE fs == Tail(frames)
<1>3. /\ fs \in Seq(Frames) /\ Len(fs) = Len(frames) - 1 /\ Len(frames) \in Nat
      /\ \A i \in 1..Len(fs) : fs[i] = frames[i + 1]
  BY <1>1, <1>2
<1> HIDE DEF fs
<1>4. \A i \in 1..Len(fs) : FrameSound(fs[i])
  <2> SUFFICES ASSUME NEW i \in 1..Len(fs) PROVE FrameSound(fs[i])
    OBVIOUS
  <2>1. i + 1 \in 1..Len(frames) /\ fs[i] = frames[i + 1]
    BY <1>3
  <2> QED
    BY <1>2, <2>1
<1>5. Len(fs) <= MaxDepth /\ events' \in 0..MaxEvents /\ frames' = fs
  BY <1>1, <1>2, <1>3 DEF fs
<1> QED
  BY <1>1, <1>3, <1>4, <1>5, DispatchesChange

LEMMA FireKeeps ==
  ASSUME RegistryInv, page' = page, NEW e \in Elements, NEW name \in Registry!Names,
         NEW bubble \in BOOLEAN, Registry!Fire(e, name, bubble)
  PROVE  RegistryInv'
<1> DEFINE q == Registry!Copied(e, name)
           owed == Registry!OnTheWay(e, name, bubble)
           f == [name |-> name, at |-> e, bubble |-> bubble, stopped |-> FALSE,
                  running |-> FALSE, queue |-> q, called |-> {}, owed |-> owed]
           fs == <<f>> \o frames
<1>1. /\ events < MaxEvents /\ Len(frames) < MaxDepth /\ events' = events + 1 /\ frames' = fs
      /\ UNCHANGED <<uid, nextUID, cache, listeners, responders>>
  BY DEF Registry!Fire
<1>2. /\ frames \in Seq(Frames) /\ events \in 0..MaxEvents
      /\ \A i \in 1..Len(frames) : FrameSound(frames[i])
      /\ MaxDepth \in Nat /\ MaxEvents \in Nat
  BY RegistryAssumed DEF RegistryInv, FramesSound, Counters
<1>3. /\ q \in Seq(Responders) /\ Ordered(q)
      /\ \A r \in Registry!ToSet(listeners[e]) : r.name = name => r \in Registry!ToSet(q)
      /\ \A x, y \in Registry!ToSet(q) : x.name = name /\ y.name = name /\ x.handler = y.handler => x = y
  BY CopiedFacts
<1>4. \A o : o \in owed => \E a \in IF bubble THEN Registry!Ancestors(e) ELSE {e} :
                             \E r \in Registry!ToSet(listeners[a]) : r.name = name /\ o = <<a, r>>
  BY DEF Registry!OnTheWay
<1>5. Registry!Ancestors(e) \subseteq Elements /\ e \in Registry!Ancestors(e)
  BY AncestorsAre
<1> HIDE DEF q, owed
<1>6. \A o \in owed :
        /\ o \in Elements \X Responders
        /\ o[2].name = name /\ o[2].id <= responders /\ o[2] \in Registry!ToSet(listeners[o[1]])
        /\ o[1] = e \/ (bubble /\ o[1] \in Registry!Ancestors(e) \ {e})
  <2> SUFFICES ASSUME NEW o \in owed
               PROVE  /\ o \in Elements \X Responders
                      /\ o[2].name = name /\ o[2].id <= responders /\ o[2] \in Registry!ToSet(listeners[o[1]])
                      /\ o[1] = e \/ (bubble /\ o[1] \in Registry!Ancestors(e) \ {e})
    OBVIOUS
  <2>0. PICK a \in IF bubble THEN Registry!Ancestors(e) ELSE {e} :
          \E r \in Registry!ToSet(listeners[a]) : r.name = name /\ o = <<a, r>>
    BY <1>4
  <2>1. PICK r \in Registry!ToSet(listeners[a]) : r.name = name /\ o = <<a, r>>
    BY <2>0
  <2>2. a \in Elements /\ (a = e \/ (bubble /\ a \in Registry!Ancestors(e) \ {e}))
    <3>1. CASE bubble
      BY <1>5, <3>1
    <3>2. CASE ~bubble
      BY <1>5, <3>2
    <3> QED
      BY <3>1, <3>2
  <2>3. r \in Responders /\ r.id <= responders
    BY <2>2, HeardIsEntered
  <2> QED
    BY <2>1, <2>2, <2>3
<1>7. f \in Frames
  <2>1. owed \in SUBSET (Elements \X Responders)
    BY <1>6
  <2> QED
    BY <1>3, <2>1 DEF Frames
<1>8. FrameSound(f)
  <2>1. /\ f.name = name /\ f.at = e /\ f.bubble = bubble /\ f.queue = q /\ f.called = {} /\ f.owed = owed
    OBVIOUS
  <2> HIDE DEF f
  <2>2. ASSUME NEW o \in f.owed
        PROVE  /\ o[2].name = f.name /\ o[2].id <= responders
               /\ o[2] \in Registry!ToSet(listeners[o[1]]) =>
                    \/ o \in f.called
                    \/ o[1] = f.at /\ o[2] \in Registry!ToSet(f.queue)
                    \/ f.bubble /\ o[1] \in Registry!Ancestors(f.at) \ {f.at}
    BY <1>3, <1>6, <2>1
  <2> QED
    BY <1>3, <1>7, <2>1, <2>2 DEF FrameSound
<1> HIDE DEF f
<1>9. /\ fs \in Seq(Frames) /\ Len(fs) = Len(frames) + 1 /\ Len(frames) \in Nat
      /\ \A i \in 1..Len(fs) : fs[i] = IF i = 1 THEN f ELSE frames[i - 1]
  BY <1>2, <1>7
<1> HIDE DEF fs
<1>10. \A i \in 1..Len(fs) : FrameSound(fs[i])
  <2> SUFFICES ASSUME NEW i \in 1..Len(fs) PROVE FrameSound(fs[i])
    OBVIOUS
  <2>1. CASE i = 1
    BY <1>8, <1>9, <2>1
  <2>2. CASE i # 1
    <3>1. i - 1 \in 1..Len(frames) /\ fs[i] = frames[i - 1]
      BY <1>9, <2>2
    <3> QED
      BY <1>2, <3>1
  <2> QED
    BY <2>1, <2>2
<1>11. Len(fs) <= MaxDepth /\ events' \in 0..MaxEvents
  BY <1>1, <1>2, <1>9
<1> QED
  BY <1>1, <1>9, <1>10, <1>11, DispatchesChange

LEMMA RegistryInvInitially ==
  ASSUME Registry!Init
  PROVE  RegistryInv
<1>1. /\ page \in Pages /\ uid = [e \in Elements |-> 0] /\ nextUID = 1 /\ DOMAIN cache = {}
      /\ listeners = [e \in Elements |-> <<>>] /\ responders = 0 /\ frames = <<>> /\ events = 0
  BY DEF Registry!Init
<1>2. /\ MaxUID \in Nat /\ MaxEvents \in Nat /\ MaxDepth \in Nat /\ page.responders \in Nat
  BY <1>1, RegistryAssumed
<1>3. Counters
  BY <1>1, <1>2 DEF Counters
<1>4. IdsSound
  BY <1>1, <1>2 DEF IdsSound
<1>5. CacheSound
  BY <1>1 DEF CacheSound
<1>6. ListenersSound
  <2> SUFFICES ASSUME NEW e \in Elements
               PROVE  ElementSound(Entered(e), listeners[e], uid[e], responders)
    BY <1>1 DEF ListenersSound
  <2>1. <<>> \in Seq(Responders) /\ Ordered(<<>>) /\ Registry!ToSet(<<>>) = {}
    BY DEF Ordered, Registry!ToSet
  <2>2. \A n \in Registry!Names : Entered(e)[n] = <<>>
    BY <1>1 DEF Entered, Registry!Entries
  <2>3. listeners[e] = <<>>
    BY <1>1
  <2> QED
    BY <2>1, <2>2, <2>3 DEF ElementSound
<1>7. FramesSound
  BY <1>1, <1>2 DEF FramesSound
<1> QED
  BY <1>3, <1>4, <1>5, <1>6, <1>7 DEF RegistryInv

\* What a page uses.
LEMMA PageUses ==
  ASSUME RegistryInv
  PROVE  page.names \subseteq Registry!Names /\ page.handlers \subseteq Handlers
BY RegistryAssumed DEF RegistryInv, Counters

LEMMA RegistryInvKept ==
  ASSUME RegistryInv, Registry!Next
  PROVE  RegistryInv'
<1>1. page' = page
  BY DEF Registry!Next
<1>2. CASE Registry!Changes
  <2>1. PICK e \in Elements :
          \/ \E n \in page.names, h \in page.handlers :
                Registry!Observe(e, n, h) \/ Registry!StopObserving(e, n, h)
          \/ \E n \in page.names : Registry!StopObservingEventName(e, n)
          \/ Registry!StopObservingElement(e)
          \/ Registry!Purge(e)
    BY <1>2 DEF Registry!Changes
  <2>2. CASE \E n \in page.names, h \in page.handlers :
               Registry!Observe(e, n, h) \/ Registry!StopObserving(e, n, h)
    BY <1>1, <2>2, PageUses, ObserveKeeps, StopObservingKeeps
  <2>3. CASE \E n \in page.names : Registry!StopObservingEventName(e, n)
    BY <1>1, <2>3, PageUses, StopObservingEventNameKeeps
  <2>4. CASE Registry!StopObservingElement(e)
    BY <1>1, <2>4, StopObservingElementKeeps
  <2>5. CASE Registry!Purge(e)
    BY <1>1, <2>5, PurgeKeeps
  <2> QED
    BY <2>1, <2>2, <2>3, <2>4, <2>5
<1>3. CASE Registry!Fires
  BY <1>1, <1>3, PageUses, FireKeeps DEF Registry!Fires
<1>4. CASE Registry!Call
  BY <1>1, <1>4, CallKeeps
<1>5. CASE Registry!Return \/ Registry!Stop
  BY <1>1, <1>5, ReturnOrStopKeeps
<1>6. CASE Registry!Bubble
  BY <1>1, <1>6, BubbleKeeps
<1>7. CASE Registry!End
  BY <1>1, <1>7, EndKeeps
<1> QED
  BY <1>2, <1>3, <1>4, <1>5, <1>6, <1>7 DEF Registry!Next

LEMMA RegistryInvRests ==
  ASSUME RegistryInv, UNCHANGED registryVars
  PROVE  RegistryInv'
<1>1. UNCHANGED <<page, uid, nextUID, cache, listeners, responders, frames, events>>
  BY DEF registryVars
<1>2. /\ frames \in Seq(Frames) /\ Len(frames) <= MaxDepth
      /\ \A i \in 1..Len(frames) : FrameSound(frames[i])
  BY DEF RegistryInv, FramesSound
<1>3. events' \in 0..MaxEvents
  BY <1>1 DEF RegistryInv, Counters
<1> DEFINE fs == frames
<1>4. fs \in Seq(Frames) /\ frames' = fs /\ Len(fs) <= MaxDepth
      /\ \A i \in 1..Len(fs) : FrameSound(fs[i])
  BY <1>1, <1>2
<1> QED
  BY <1>1, <1>3, <1>4, DispatchesChange

-----------------------------------------------------------------------------
(* What the invariant says *)

LEMMA RegistryMirrored ==
  ASSUME RegistryInv
  PROVE  Registry!Mirrored
<1> SUFFICES ASSUME NEW e \in Elements, NEW n \in Registry!Names
             PROVE  Registry!Named(listeners[e], n) = Registry!Entries(e, n)
  BY DEF Registry!Mirrored
<1> DEFINE heard == listeners[e]
           entered == Registry!Entries(e, n)
           named == Registry!Named(heard, n)
           chosen == {r \in Registry!ToSet(heard) : r.name = n}
<1>1. /\ entered \in Seq(Responders) /\ Ordered(entered) /\ heard \in Seq(Responders) /\ Ordered(heard)
      /\ Registry!ToSet(heard) = UNION {Registry!ToSet(Registry!Entries(e, m)) : m \in Registry!Names}
      /\ \A m \in Registry!Names : \A r \in Registry!ToSet(Registry!Entries(e, m)) : r.name = m
  BY ElementFacts
<1>2. named = Registry!Only(heard, chosen)
  BY DEF Registry!Named
<1>3. \A r : r \in Registry!ToSet(entered) <=> r \in chosen
  BY <1>1
<1> HIDE DEF heard, entered, named, chosen
<1>4. /\ named \in Seq(Responders) /\ Ordered(named)
      /\ \A r : r \in Registry!ToSet(named) <=> r \in Registry!ToSet(heard) /\ r \in chosen
  BY <1>1, <1>2, OnlyFacts
<1>5. \A r \in chosen : r \in Registry!ToSet(heard)
  BY DEF chosen
<1>6. Registry!ToSet(named) = Registry!ToSet(entered)
  BY <1>3, <1>4, <1>5
<1>7. named = entered
  BY <1>1, <1>4, <1>6, OrderedIsUnique
<1> QED
  BY <1>7 DEF named, entered, heard

LEMMA RegistryServes ==
  ASSUME RegistryInv
  PROVE  Registry!ServedAll
<1> SUFFICES ASSUME frames # <<>>, Registry!Over(Registry!Top), NEW o \in Registry!Top.owed,
                    o[2] \in Registry!ToSet(listeners[o[1]]),
                    Registry!Top.stopped =>
                      o[1] \notin Registry!Ancestors(Registry!Top.at) \ {Registry!Top.at}
             PROVE  o \in Registry!Top.called
  BY DEF Registry!ServedAll
<1> DEFINE f == frames[1]
<1>1. Registry!Top = f /\ FrameSound(f)
  BY TopIs
<1>2. /\ f \in Frames /\ f.queue \in Seq(Responders) /\ Ordered(f.queue) /\ f.at \in Elements
      /\ f.bubble \in BOOLEAN /\ f.stopped \in BOOLEAN /\ o \in f.owed
      /\ Registry!Callable(f) = <<>> /\ ~Registry!Climbs(f)
      /\ f.stopped => o[1] \notin Registry!Ancestors(f.at) \ {f.at}
  BY <1>1 DEF FrameSound, Frames, Registry!Over
<1> HIDE DEF f
<1>3. /\ o[2].name = f.name
      /\ \/ o \in f.called
         \/ o[1] = f.at /\ o[2] \in Registry!ToSet(f.queue)
         \/ f.bubble /\ o[1] \in Registry!Ancestors(f.at) \ {f.at}
  BY <1>1, <1>2 DEF FrameSound
<1>4. ~(o[1] = f.at /\ o[2] \in Registry!ToSet(f.queue))
  <2>1. Registry!ToSet(Registry!Callable(f)) = {}
    BY <1>2 DEF Registry!ToSet
  <2> QED
    BY <1>2, <1>3, <2>1, CallableFacts
<1>5. ~(f.bubble /\ o[1] \in Registry!Ancestors(f.at) \ {f.at})
  <2> SUFFICES ASSUME f.bubble, o[1] \in Registry!Ancestors(f.at) \ {f.at} PROVE FALSE
    OBVIOUS
  <2>1. ParentOf[f.at] = NoElement
    BY <1>2 DEF Registry!Climbs
  <2>2. Registry!Ancestors(f.at) = {f.at}
    BY <1>2, <2>1, RegistryAssumed, TopHasNone
  <2> QED
    BY <2>2
<1> QED
  BY <1>1, <1>3, <1>4, <1>5

LEMMA RegistryInvImplies ==
  ASSUME RegistryInv
  PROVE  RegistrySound
<1>1. Registry!TypeOK
  <2>1. /\ uid \in [Elements -> 0..MaxUID] /\ nextUID \in 1..(MaxUID + 1)
        /\ DOMAIN cache \subseteq 1..MaxUID
        /\ \A u \in DOMAIN cache : cache[u] \in Registries
        /\ DOMAIN listeners = Elements
        /\ responders \in 0..page.responders /\ events \in 0..MaxEvents /\ Len(frames) <= MaxDepth
    BY DEF RegistryInv, Counters, IdsSound, CacheSound, ListenersSound, FramesSound
  <2>2. \A r \in Registries : r.element \in Elements /\ DOMAIN r.entries = Registry!Names
    BY DEF Registries
  <2> QED
    BY <2>1, <2>2 DEF Registry!TypeOK
<1>2. Registry!Owned
  <2>1. \A u \in DOMAIN cache : uid[cache[u].element] = u
    BY DEF RegistryInv, CacheSound
  <2>2. ASSUME NEW e \in Elements, NEW r \in Registry!ToSet(listeners[e])
        PROVE  r.uid \in DOMAIN cache /\ r.uid = uid[e]
    <3>1. r.name \in Registry!Names /\ r \in Registry!ToSet(Registry!Entries(e, r.name))
      BY HeardIsEntered
    <3>2. r.uid = uid[e]
      BY <3>1, ElementFacts
    <3>3. uid[e] \in DOMAIN cache
      BY <3>1 DEF Registry!Entries, Registry!ToSet
    <3> QED
      BY <3>2, <3>3
  <2> QED
    BY <2>1, <2>2 DEF Registry!Owned
<1>3. Registry!CalledOnce
  <2>1. \A i \in DOMAIN frames : FrameSound(frames[i])
    BY DEF RegistryInv, FramesSound
  <2> QED
    BY <2>1 DEF FrameSound, Registry!CalledOnce
<1> QED
  BY <1>1, <1>2, <1>3, RegistryMirrored, RegistryServes DEF RegistrySound

\* Only a call adds to what was called.
LEMMA CallsAreRegistered ==
  ASSUME RegistryInv, Registry!Next
  PROVE  Registry!CallsRegistered
<1> SUFFICES ASSUME NEW i \in DOMAIN frames, Len(frames') = Len(frames),
                    NEW c \in frames'[i].called \ frames[i].called
             PROVE  \E j \in DOMAIN Registry!Entries(c[1], frames[i].name) :
                       Registry!Entries(c[1], frames[i].name)[j] = c[2]
  BY DEF Registry!CallsRegistered
<1> DEFINE f == frames[1]
<1>1. frames # <<>> /\ frames \in Seq(Frames) /\ Len(frames) \in Nat
  BY DEF RegistryInv, FramesSound
<1>2. Registry!Top = f /\ FrameSound(f) /\ 1 \in DOMAIN frames
  BY <1>1, TopIs
<1>3. CASE Registry!Call
  <2> DEFINE r == Head(Registry!Callable(f))
  <2>1. Registry!Callable(f) # <<>>
    BY <1>2, <1>3 DEF Registry!Call
  <2>2. frames' = [frames EXCEPT ![1].running = TRUE, ![1].called = @ \cup {<<f.at, r>>},
                     ![1].queue = Registry!Only(@, {x \in Registry!ToSet(@) : x.id > r.id})]
    BY <1>2, <1>3 DEF Registry!Call
  <2>3. f.queue \in Seq(Responders) /\ Ordered(f.queue) /\ f.at \in Elements /\ f \in Frames
    BY <1>2 DEF FrameSound, Frames
  <2>4. r \in Registry!ToSet(listeners[f.at]) /\ r.name = f.name
    <3> DEFINE s == Registry!Callable(f)
    <3>1. /\ s \in Seq(Responders)
          /\ \A x \in Registry!ToSet(s) : x \in Registry!ToSet(listeners[f.at]) /\ x.name = f.name
      BY <2>3, CallableFacts
    <3> HIDE DEF s
    <3>2. s # <<>> => Head(s) \in Registry!ToSet(s)
      BY <3>1, InSequence
    <3> QED
      BY <2>1, <3>1, <3>2 DEF s
  <2> HIDE DEF r
  <2>5. i = 1 /\ c = <<f.at, r>>
    <3>1. i # 1 => frames'[i] = frames[i]
      BY <2>2
    <3>2. frames'[1].called = f.called \cup {<<f.at, r>>}
      BY <1>2, <2>2, <2>3 DEF Frames
    <3> HIDE DEF f
    <3> QED
      BY <3>1, <3>2 DEF f
  <2>6. r \in Registry!ToSet(Registry!Entries(f.at, f.name)) /\ f.name \in Registry!Names
    BY <2>3, <2>4, HeardIsEntered
  <2>7. Registry!Entries(f.at, f.name) \in Seq(Responders)
    BY <2>3, <2>6, ElementFacts
  <2>8. \E j \in 1..Len(Registry!Entries(f.at, f.name)) : Registry!Entries(f.at, f.name)[j] = r
    BY <2>6, <2>7, InSequence
  <2> QED
    BY <2>5, <2>7, <2>8
<1>4. CASE UNCHANGED frames
  BY <1>4
<1>5. CASE Registry!Return \/ Registry!Stop \/ Registry!Bubble
  <2>1. f \in Frames
    BY <1>2 DEF FrameSound
  <2>2. frames'[i].called = frames[i].called
    <3>1. CASE Registry!Return
      BY <1>1, <1>2, <2>1, <3>1 DEF Registry!Return, Frames
    <3>2. CASE Registry!Stop
      BY <1>1, <1>2, <2>1, <3>2 DEF Registry!Stop, Frames
    <3>3. CASE Registry!Bubble
      BY <1>1, <1>2, <2>1, <3>3 DEF Registry!Bubble, Frames
    <3> QED
      BY <1>5, <3>1, <3>2, <3>3
  <2> QED
    BY <2>2
<1>6. ~Registry!End
  BY <1>1 DEF Registry!End
<1>7. ~Registry!Fires
  <2> SUFFICES ASSUME NEW e \in Elements, NEW n \in page.names, NEW bubble \in BOOLEAN,
                      Registry!Fire(e, n, bubble)
               PROVE  FALSE
    BY DEF Registry!Fires
  <2>1. \E g : frames' = <<g>> \o frames
    BY DEF Registry!Fire
  <2>2. Len(frames') = 1 + Len(frames)
    BY <1>1, <2>1
  <2> QED
    BY <1>1, <2>2
<1>8. Registry!Changes => UNCHANGED frames
  BY DEF Registry!Changes, Registry!Observe, Registry!StopObserving,
    Registry!StopObservingEventName, Registry!StopObservingElement, Registry!Purge
<1> QED
  BY <1>3, <1>4, <1>5, <1>6, <1>7, <1>8 DEF Registry!Next

-----------------------------------------------------------------------------
(* The runner of the tests *)

\* What the variables are, without the bounds of the runs.
Kinds ==
  /\ currentTest \in 1..(Count + 1)
  /\ isWaiting \subseteq Tests /\ up \subseteq Tests
  /\ parts \in [Tests -> Nat] /\ late \in Nat
  /\ failures \in [Tests -> Nat] /\ errors \in [Tests -> Nat]
  /\ logged \in [Tests -> {"none", "passed", "failed", "error"}]

\* The log has the tests before the current one.
Logged == \A t \in Tests : logged[t] # "none" <=> t < currentTest

\* A test that is not logged as passed has something counted.
Blamed == \A t \in Tests : logged[t] \in {"failed", "error"} => failures[t] > 0 \/ errors[t] > 0

\* Only a callback counts something for a test that passed.
Told ==
  late = 0 => \A t \in Tests : logged[t] = "passed" => failures[t] = 0 /\ errors[t] = 0

\* Nothing runs once the result is there.
Finished == result # "none" => next = "over" /\ currentTest = Count + 1

RunnerInv == Kinds /\ Logged /\ Blamed /\ Told /\ Finished /\ Isolated /\ Agrees

LEMMA CountedFacts ==
  ASSUME NEW counter \in [Tests -> Nat], NEW t \in Tests, NEW more \in BOOLEAN
  PROVE  /\ Counted(counter, t, more) \in [Tests -> Nat]
         /\ Counted(counter, t, more)[t] >= counter[t]
         /\ \A u \in Tests \ {t} : Counted(counter, t, more)[u] = counter[u]
<1> QED
  BY DEF Counted

LEMMA RunnerStarts == Init => RunnerInv
<1> QED
  BY TestRunnerAssumption
     DEF Init, RunnerInv, Kinds, Logged, Blamed, Told, Finished, Isolated, Agrees, Tests

\* runTests: one call, whatever the part, the set up and the tear down do.
LEMMA RunTestsInv == ASSUME RunnerInv, RunTests PROVE RunnerInv'
<1> DEFINE c == currentTest
<1>1. PICK setupThrows, fails, throws, waits, tearThrows \in BOOLEAN :
        RunPart(c, setupThrows, fails, throws, waits, tearThrows)
  BY DEF RunTests
<1>2. c \in Tests /\ c \in Nat /\ Count \in Nat /\ result = "none"
  BY TestRunnerAssumption DEF RunTests, RunnerInv, Kinds, Finished, Tests
<1>3. /\ isWaiting' = IF waits THEN isWaiting \cup {c} ELSE isWaiting \ {c}
      /\ up' = IF ~waits THEN up \ {c} ELSE up \cup {c}
      /\ parts' = [parts EXCEPT ![c] = @ + 1]
      /\ failures' = Counted(failures, c, fails)
      /\ errors' = Counted(errors, c, setupThrows \/ throws \/ tearThrows)
  BY <1>1 DEF RunPart, TearsDown
<1>4. /\ currentTest' = IF c \in isWaiting' THEN c ELSE c + 1
      /\ logged' = [logged EXCEPT ![c] = IF c \in isWaiting' THEN @ ELSE Status(c)]
      /\ result' = result /\ late' = late
  BY DEF RunTests, Following
<1>5. /\ failures' \in [Tests -> Nat] /\ errors' \in [Tests -> Nat]
      /\ \A u \in Tests \ {c} : failures'[u] = failures[u] /\ errors'[u] = errors[u]
  BY <1>2, <1>3, CountedFacts DEF RunnerInv, Kinds
<1>6. Status(c) \in {"passed", "failed", "error"}
      /\ (Status(c) = "passed" <=> failures'[c] = 0 /\ errors'[c] = 0)
  BY <1>2, <1>5 DEF Status
<1> HIDE DEF c
<1>7. up = isWaiting /\ up \subseteq {c}
  BY DEF RunnerInv, Isolated, c
<1>8. Isolated'
  BY <1>3, <1>4, <1>7 DEF Isolated
<1>9. logged[c] = "none" /\ logged \in [Tests -> {"none", "passed", "failed", "error"}]
  BY <1>2 DEF RunnerInv, Kinds, Logged, c
<1>10. Kinds'
  <2>1. currentTest' \in 1..(Count + 1)
    BY <1>2, <1>4 DEF Tests
  <2>2. isWaiting' \subseteq Tests /\ up' \subseteq Tests /\ parts' \in [Tests -> Nat] /\ late' \in Nat
    BY <1>2, <1>3, <1>4 DEF RunnerInv, Kinds
  <2>3. logged' \in [Tests -> {"none", "passed", "failed", "error"}]
    BY <1>2, <1>4, <1>6, <1>9
  <2> QED
    BY <2>1, <2>2, <2>3, <1>5 DEF Kinds
<1>11. \A t \in Tests \ {c} : logged'[t] = logged[t]
  BY <1>4, <1>9
<1>12. logged'[c] = IF c \in isWaiting' THEN "none" ELSE Status(c)
  BY <1>2, <1>4, <1>9
<1>13. Logged'
  <2> SUFFICES ASSUME NEW t \in Tests PROVE logged'[t] # "none" <=> t < currentTest'
    BY DEF Logged
  <2>1. CASE t = c
    BY <2>1, <1>2, <1>4, <1>6, <1>12
  <2>2. CASE t # c
    BY <2>2, <1>2, <1>4, <1>11 DEF RunnerInv, Logged, Tests, c
  <2> QED
    BY <2>1, <2>2
<1>14. Blamed'
  <2> SUFFICES ASSUME NEW t \in Tests, logged'[t] \in {"failed", "error"}
               PROVE  failures'[t] > 0 \/ errors'[t] > 0
    BY DEF Blamed
  <2>1. CASE t = c
    BY <2>1, <1>2, <1>5, <1>6, <1>12
  <2>2. CASE t # c
    BY <2>2, <1>5, <1>11 DEF RunnerInv, Blamed
  <2> QED
    BY <2>1, <2>2
<1>15. Told'
  <2> SUFFICES ASSUME late' = 0, NEW t \in Tests, logged'[t] = "passed"
               PROVE  failures'[t] = 0 /\ errors'[t] = 0
    BY DEF Told
  <2>1. CASE t = c
    BY <2>1, <1>6, <1>12
  <2>2. CASE t # c
    BY <2>2, <1>4, <1>5, <1>11 DEF RunnerInv, Told
  <2> QED
    BY <2>1, <2>2
<1>16. Finished' /\ Agrees'
  BY <1>2, <1>4 DEF Finished, Agrees
<1> QED
  BY <1>8, <1>10, <1>13, <1>14, <1>15, <1>16 DEF RunnerInv

\* postResults: the result is computed from the counters.
LEMMA PostResultsInv == ASSUME RunnerInv, PostResults PROVE RunnerInv'
<1>1. /\ UNCHANGED <<currentTest, isWaiting, parts, failures, errors, logged, late, up>>
      /\ result' = Result /\ next' = "over"
  BY DEF PostResults
<1>2. currentTest = Count + 1
  BY TestRunnerAssumption DEF PostResults, RunnerInv, Kinds, Tests
<1>3. \A t \in Tests : logged[t] \in {"passed", "failed", "error"}
  BY <1>2, TestRunnerAssumption DEF RunnerInv, Kinds, Logged, Tests
<1>4. \A t \in Tests : failures[t] \in Nat /\ errors[t] \in Nat
  BY DEF RunnerInv, Kinds
<1>5. Agrees'
  <2>1. Result = "SUCCESS" => \A t \in Tests : ~(failures[t] > 0) /\ ~(errors[t] > 0)
    BY DEF Result
  <2>2. Result \in {"FAILURE", "ERROR"} => \E t \in Tests : failures[t] > 0 \/ errors[t] > 0
    BY DEF Result
  <2>3. Result = "SUCCESS" => \A t \in Tests : logged[t] = "passed"
    BY <2>1, <1>3 DEF RunnerInv, Blamed
  <2>4. Result \in {"FAILURE", "ERROR"} => late > 0 \/ \E t \in Tests : logged[t] # "passed"
    <3> SUFFICES ASSUME Result \in {"FAILURE", "ERROR"}, ~(late > 0)
                 PROVE  \E t \in Tests : logged[t] # "passed"
      OBVIOUS
    <3>1. PICK t \in Tests : failures[t] > 0 \/ errors[t] > 0
      BY <2>2
    <3>2. late = 0
      BY DEF RunnerInv, Kinds
    <3> QED
      BY <3>1, <3>2, <1>4 DEF RunnerInv, Told
  <2> QED
    BY <2>3, <2>4, <1>1 DEF Agrees
<1>6. Finished'
  BY <1>1, <1>2 DEF Finished
<1> QED
  BY <1>1, <1>5, <1>6 DEF RunnerInv, Kinds, Logged, Blamed, Told, Isolated

\* A callback only adds to the failures of a test and to late.
LEMMA LateAssertInv ==
  ASSUME RunnerInv, NEW t \in Tests, LateAssert(t) PROVE RunnerInv'
<1>1. /\ UNCHANGED <<currentTest, next, isWaiting, parts, errors, logged, result, up>>
      /\ late' = late + 1 /\ failures' = Counted(failures, t, TRUE)
  BY DEF LateAssert
<1>2. failures \in [Tests -> Nat] /\ late \in Nat /\ TRUE \in BOOLEAN
  BY DEF RunnerInv, Kinds
<1>3. failures' = [failures EXCEPT ![t] = @ + 1]
  BY <1>1 DEF Counted
<1>4. failures' \in [Tests -> Nat] /\ late' \in Nat /\ late' > 0
  <2>1. failures' \in [Tests -> Nat]
    BY <1>2, <1>3
  <2>2. late' \in Nat /\ late' > 0
    BY <1>1, <1>2
  <2> QED
    BY <2>1, <2>2
<1>5. ASSUME NEW u \in Tests, failures[u] > 0 PROVE failures'[u] > 0
  BY <1>2, <1>3, <1>5
<1>6. Kinds'
  BY <1>1, <1>4 DEF RunnerInv, Kinds
<1>7. Logged' /\ Finished' /\ Isolated'
  BY <1>1 DEF RunnerInv, Logged, Finished, Isolated
<1>8. Blamed'
  <2> SUFFICES ASSUME NEW u \in Tests, logged'[u] \in {"failed", "error"}
               PROVE  failures'[u] > 0 \/ errors'[u] > 0
    BY DEF Blamed
  <2>1. failures[u] > 0 \/ errors[u] > 0
    BY <1>1 DEF RunnerInv, Blamed
  <2> QED
    BY <2>1, <1>1, <1>5
<1>9. Told'
  BY <1>4 DEF Told
<1>10. Agrees'
  BY <1>1, <1>4 DEF RunnerInv, Agrees
<1> QED
  BY <1>6, <1>7, <1>8, <1>9, <1>10 DEF RunnerInv


\* The bounds: a test that goes on has parts left, and one to come has run none.
RunnerBounds ==
  /\ late <= MaxLate /\ next \in {"now", "timer", "over"}
  /\ result \in {"none", "SUCCESS", "FAILURE", "ERROR"}
  /\ \A t \in Tests :
       /\ parts[t] <= MaxParts /\ (t \in isWaiting => parts[t] < MaxParts)
       /\ t > currentTest => parts[t] = 0
       /\ t = currentTest => t \in isWaiting \/ parts[t] = 0
       /\ failures[t] <= parts[t] + late /\ errors[t] <= parts[t]

LEMMA BoundsStart == ASSUME Init PROVE RunnerBounds
BY TestRunnerAssumption DEF Init, RunnerBounds, Tests

LEMMA BoundsKept == ASSUME RunnerInv, RunnerBounds, Next PROVE RunnerBounds'
<1>1. /\ currentTest \in 1..(Count + 1) /\ Count \in Nat /\ MaxParts \in Nat /\ MaxParts > 0 /\ MaxLate \in Nat
      /\ parts \in [Tests -> Nat] /\ failures \in [Tests -> Nat] /\ errors \in [Tests -> Nat]
      /\ late \in Nat /\ isWaiting \subseteq {currentTest}
  BY TestRunnerAssumption DEF RunnerInv, Kinds, Isolated
<1>2. CASE RunTests
  <2> DEFINE c == currentTest
  <2>1. PICK setupThrows, fails, throws, waits, tearThrows \in BOOLEAN :
          RunPart(c, setupThrows, fails, throws, waits, tearThrows)
    BY <1>2 DEF RunTests
  <2>2. /\ c \in Tests /\ late' = late /\ result' = result
        /\ currentTest' = IF c \in isWaiting' THEN c ELSE c + 1
        /\ next' \in {"timer", "now"}
    BY <1>2 DEF RunTests, Following, Resumes
  <2>3. /\ isWaiting' = IF waits THEN isWaiting \cup {c} ELSE isWaiting \ {c}
        /\ waits => parts[c] + 1 < MaxParts
        /\ parts' = [parts EXCEPT ![c] = @ + 1]
        /\ failures' = Counted(failures, c, fails)
        /\ errors' = Counted(errors, c, setupThrows \/ throws \/ tearThrows)
    BY <2>1 DEF RunPart
  <2> HIDE DEF c
  <2>4. isWaiting \subseteq {c} /\ c \in Nat
    BY <1>1, <2>2 DEF c, Tests
  <2>5. /\ parts[c] < MaxParts
        /\ \A t \in Tests :
             /\ parts[t] <= MaxParts /\ (t > c => parts[t] = 0)
             /\ failures[t] <= parts[t] + late /\ errors[t] <= parts[t]
    <3>1. c \in isWaiting \/ parts[c] = 0
      BY <2>2 DEF RunnerBounds, c
    <3> QED
      BY <1>1, <2>2, <3>1 DEF RunnerBounds, c
  <2>6. /\ failures'[c] <= failures[c] + 1 /\ errors'[c] <= errors[c] + 1
        /\ failures'[c] \in Nat /\ errors'[c] \in Nat
        /\ \A t \in Tests \ {c} : failures'[t] = failures[t] /\ errors'[t] = errors[t]
    BY <1>1, <2>2, <2>3 DEF Counted
  <2>7. parts'[c] = parts[c] + 1 /\ \A t \in Tests \ {c} : parts'[t] = parts[t]
    BY <1>1, <2>2, <2>3
  <2>8. isWaiting' \subseteq {c} /\ (c \in isWaiting' => parts[c] + 1 < MaxParts)
    BY <2>3, <2>4
  <2>9. ASSUME NEW t \in Tests
        PROVE  /\ parts'[t] <= MaxParts /\ (t \in isWaiting' => parts'[t] < MaxParts)
               /\ t > currentTest' => parts'[t] = 0
               /\ t = currentTest' => t \in isWaiting' \/ parts'[t] = 0
               /\ failures'[t] <= parts'[t] + late' /\ errors'[t] <= parts'[t]
    <3>0. /\ t \in Nat /\ c \in Nat /\ parts[t] \in Nat /\ failures[t] \in Nat /\ errors[t] \in Nat
          /\ parts[c] \in Nat /\ failures[c] \in Nat /\ errors[c] \in Nat
      BY <1>1, <2>2 DEF Tests
    <3>1. CASE t = c
      BY <1>1, <2>2, <2>5, <2>6, <2>7, <2>8, <3>0, <3>1
    <3>2. CASE t # c
      <4>1. t \notin isWaiting' /\ parts'[t] = parts[t] /\ failures'[t] = failures[t] /\ errors'[t] = errors[t]
        BY <2>6, <2>7, <2>8, <3>2
      <4>2. t > currentTest' \/ t = currentTest' => t > c
        BY <2>2, <3>0, <3>2
      <4> QED
        BY <1>1, <2>2, <2>5, <4>1, <4>2
    <3> QED
      BY <3>1, <3>2
  <2> QED
    BY <2>2, <2>9 DEF RunnerBounds
<1>3. CASE PostResults
  BY <1>3 DEF PostResults, Result, RunnerBounds
<1>4. CASE \E t \in Tests : LateAssert(t)
  <2>1. PICK t \in Tests : LateAssert(t)
    BY <1>4
  <2>2. /\ late' = late + 1 /\ late < MaxLate /\ failures' = [failures EXCEPT ![t] = @ + 1]
        /\ UNCHANGED <<currentTest, next, isWaiting, parts, errors, logged, result, up>>
    BY <2>1 DEF LateAssert, Counted
  <2>3. \A u \in Tests : failures'[u] <= parts'[u] + late'
    <3> SUFFICES ASSUME NEW u \in Tests PROVE failures'[u] <= parts'[u] + late'
      OBVIOUS
    <3>1. failures[u] <= parts[u] + late /\ failures[u] \in Nat /\ parts[u] \in Nat
      BY <1>1 DEF RunnerBounds
    <3>2. failures'[u] = failures[u] \/ failures'[u] = failures[u] + 1
      BY <1>1, <2>2
    <3> QED
      BY <1>1, <2>2, <3>1, <3>2
  <2>4. late' <= MaxLate
    BY <1>1, <2>2
  <2> QED
    BY <2>2, <2>3, <2>4 DEF RunnerBounds
<1> QED
  BY <1>2, <1>3, <1>4 DEF Next

LEMMA RunnerKept == ASSUME RunnerInv, RunnerBounds, [Next]_vars PROVE RunnerInv' /\ RunnerBounds'
<1>1. CASE UNCHANGED vars
  BY <1>1 DEF vars, RunnerInv, Kinds, Logged, Blamed, Told, Finished, Isolated, Agrees, RunnerBounds
<1>2. CASE Next
  BY <1>2, RunTestsInv, PostResultsInv, LateAssertInv, BoundsKept DEF Next
<1> QED
  BY <1>1, <1>2

LEMMA RunnerImplies == ASSUME RunnerInv, RunnerBounds PROVE TestsSound
<1>1. /\ parts \in [Tests -> Nat] /\ failures \in [Tests -> Nat] /\ errors \in [Tests -> Nat] /\ late \in Nat
      /\ MaxParts \in Nat /\ MaxLate \in Nat
  BY TestRunnerAssumption DEF RunnerInv, Kinds
<1>2. ASSUME NEW t \in Tests
      PROVE  parts[t] \in 0..MaxParts /\ failures[t] \in 0..(MaxParts + MaxLate) /\ errors[t] \in 0..MaxParts
  BY <1>1 DEF RunnerBounds
<1>3. TypeOK
  <2>1. /\ parts \in [Tests -> 0..MaxParts] /\ failures \in [Tests -> 0..(MaxParts + MaxLate)]
        /\ errors \in [Tests -> 0..MaxParts] /\ late \in 0..MaxLate
    BY <1>1, <1>2 DEF RunnerBounds
  <2> QED
    BY <2>1 DEF RunnerInv, Kinds, RunnerBounds, TypeOK
<1> QED
  BY <1>3 DEF RunnerInv, TestsSound

LEMMA RunnerRemembers == ASSUME RunnerInv, [Next]_vars PROVE Remembered
<1> SUFFICES ASSUME NEW t \in Tests, failures[t] > 0 \/ errors[t] > 0, logged'[t] = "passed"
             PROVE  logged[t] = "passed"
  BY DEF Remembered
<1>1. CASE RunTests
  <2>1. PICK setupThrows, fails, throws, waits, tearThrows \in BOOLEAN :
          RunPart(currentTest, setupThrows, fails, throws, waits, tearThrows)
    BY <1>1 DEF RunTests
  <2>2. currentTest \in Tests /\ failures \in [Tests -> Nat] /\ errors \in [Tests -> Nat]
        /\ logged \in [Tests -> {"none", "passed", "failed", "error"}]
    BY <1>1 DEF RunTests, RunnerInv, Kinds
  <2>3. failures'[currentTest] >= failures[currentTest] /\ errors'[currentTest] >= errors[currentTest]
        /\ failures'[currentTest] \in Nat /\ errors'[currentTest] \in Nat
    BY <2>1, <2>2, CountedFacts DEF RunPart
  <2>4. logged' = [logged EXCEPT ![currentTest] = IF currentTest \in isWaiting' THEN @ ELSE Status(currentTest)]
    BY <1>1 DEF RunTests
  <2>5. CASE t = currentTest
    BY <2>2, <2>3, <2>4, <2>5 DEF Status
  <2>6. CASE t # currentTest
    BY <2>2, <2>4, <2>6
  <2> QED
    BY <2>5, <2>6
<1>2. CASE PostResults
  BY <1>2 DEF PostResults
<1>3. CASE \E u \in Tests : LateAssert(u)
  BY <1>3 DEF LateAssert
<1>4. CASE UNCHANGED vars
  BY <1>4 DEF vars
<1> QED
  BY <1>1, <1>2, <1>3, <1>4 DEF Next

-----------------------------------------------------------------------------
(* Side by side *)

LEMMA EachAlone ==
  AllSpec => /\ Init /\ [][[Next]_vars]_allVars
             /\ Registry!Init /\ [][Registry!Next \/ UNCHANGED registryVars]_allVars
<1>1. AllInit => Init /\ Registry!Init
  BY DEF AllInit
<1>2. [AllNext]_allVars => [[Next]_vars]_allVars /\ [Registry!Next \/ UNCHANGED registryVars]_allVars
  BY DEF AllNext, Moves, allVars, registryVars, vars
<1> QED
  BY <1>1, <1>2, PTL DEF AllSpec

\* The inductive invariant of the runner.
THEOREM RunnerInvariant == AllSpec => [](RunnerInv /\ RunnerBounds)
<1>1. Init => RunnerInv /\ RunnerBounds
  BY RunnerStarts, BoundsStart
<1>2. RunnerInv /\ RunnerBounds /\ [[Next]_vars]_allVars => (RunnerInv /\ RunnerBounds)'
  <2> SUFFICES ASSUME RunnerInv, RunnerBounds, [Next]_vars \/ UNCHANGED allVars
               PROVE  RunnerInv' /\ RunnerBounds'
    OBVIOUS
  <2>1. [Next]_vars
    BY DEF allVars, vars
  <2> QED
    BY <2>1, RunnerKept
<1> QED
  BY <1>1, <1>2, EachAlone, PTL

\* The inductive invariant of the registry and its dispatches.
THEOREM RegistryInvariant == AllSpec => []RegistryInv
<1>1. Registry!Init => RegistryInv
  BY RegistryInvInitially
<1>2. RegistryInv /\ [Registry!Next \/ UNCHANGED registryVars]_allVars => RegistryInv'
  <2> SUFFICES ASSUME RegistryInv, Registry!Next \/ UNCHANGED registryVars \/ UNCHANGED allVars
               PROVE  RegistryInv'
    OBVIOUS
  <2>1. UNCHANGED allVars => UNCHANGED registryVars
    BY DEF allVars, registryVars
  <2> QED
    BY <2>1, RegistryInvKept, RegistryInvRests
<1> QED
  BY <1>1, <1>2, EachAlone, PTL

\* Testcase.run and getResult: no test is set up before the one before it was torn
\* down, and the result agrees with the log.
THEOREM TestsAreSound == AllSpec => []TestsSound
BY RunnerInvariant, RunnerImplies, PTL

\* observe, stopObserving, purge and fire: registry and browser have the same
\* responders, and an event calls what stays registered on its way, once.
THEOREM RegistryIsSound == AllSpec => []RegistrySound
BY RegistryInvariant, RegistryInvImplies, PTL

\* A handler is called only while it is registered, and a test that failed or threw
\* in any of its parts is not logged as passed.
THEOREM ScriptsAreSteady == AllSpec => ScriptsMove
<1>1. RegistryInv /\ RunnerInv
        /\ [[Next]_vars]_allVars /\ [Registry!Next \/ UNCHANGED registryVars]_allVars
        => [Registry!CallsRegistered /\ Remembered]_allVars
  <2>1. UNCHANGED registryVars => Registry!CallsRegistered
    BY DEF registryVars, Registry!CallsRegistered
  <2>2. ASSUME RegistryInv, Registry!Next \/ UNCHANGED registryVars PROVE Registry!CallsRegistered
    BY <2>1, <2>2, CallsAreRegistered
  <2>3. ASSUME RunnerInv, [Next]_vars PROVE Remembered
    BY <2>3, RunnerRemembers
  <2> QED
    BY <2>2, <2>3
<1> QED
  BY <1>1, EachAlone, RunnerInvariant, RegistryInvariant, PTL DEF ScriptsMove
=============================================================================
