---------------------- MODULE TransactionManagerProofs ----------------------
(***************************************************************************)
(* Proofs about ConcurrentTransactionManager.commit, for any transactions, *)
(* Lockables, positions and lists (duplicates included): the lock table is *)
(* exact, updates are made under mutual exclusion, and what a transaction  *)
(* set stays set until it clears its locks.                                *)
(***************************************************************************)
EXTENDS TransactionManager, TLAPS

\* readLocks followed by writeLocks.
All(t) == request[t].readLocks \o request[t].writeLocks

\* Sorting rearranges a list.
Rearranged(q, all) ==
  \E perm \in Bijection(1..Len(all), 1..Len(all)) :
     q = [i \in 1..Len(all) |-> all[perm[i]]]

\* The first n entries of a list are distinct.
DistinctUpTo(q, n) ==
  /\ n <= Len(q)
  /\ \A i, j \in 1..n : q[i] = q[j] => i = j

\* Where a transaction is in its loops, and that what it set were distinct
\* locks: a lock named twice would have refused it.
Control(t) ==
  /\ pc[t] # "idle" => Rearranged(ordered[t], All(t))
  /\ pc[t] = "acquire" => DistinctUpTo(ordered[t], pos[t])
  /\ pc[t] = "cleanup" => pos[t] <= width[t] /\ DistinctUpTo(ordered[t], width[t])
  /\ pc[t] \in {"update", "release", "returned", "broken"} =>
        DistinctUpTo(ordered[t], Len(ordered[t]))
  /\ pc[t] = "update" => pos[t] <= Len(ListToUpdate(t))
  /\ pc[t] \in {"release", "returned", "broken"} =>
        pos[t] <= Len(request[t].readLocks)

ManagerInv ==
  /\ TypeOK
  /\ \A t \in Txns : Control(t)
  /\ LockTableExact

-----------------------------------------------------------------------------
LEMMA AllType ==
  ASSUME TypeOK, NEW t \in Txns
  PROVE  /\ request[t].readLocks \in Seq(Locks)
         /\ request[t].writeLocks \in Seq(Locks)
         /\ All(t) \in Seq(Locks)
         /\ Len(All(t)) = Len(request[t].readLocks) + Len(request[t].writeLocks)
         /\ Len(request[t].readLocks) \in Nat /\ Len(All(t)) \in Nat
         /\ Len(request[t].readLocks) <= Len(All(t))
         /\ \A i \in 1..Len(request[t].readLocks) :
               All(t)[i] = request[t].readLocks[i]
         /\ \A i \in 1..Len(request[t].writeLocks) :
               All(t)[Len(request[t].readLocks) + i] = request[t].writeLocks[i]
<1> DEFINE r == request[t].readLocks
           w == request[t].writeLocks
<1>1. request[t] \in [readLocks : Seq(Locks), writeLocks : Seq(Locks)]
  BY ManagerAssumption DEF TypeOK
<1>2. r \in Seq(Locks) /\ w \in Seq(Locks) /\ All(t) = r \o w
  BY <1>1 DEF All
<1> HIDE DEF r, w
<1>3. /\ r \o w \in Seq(Locks)
      /\ Len(r \o w) = Len(r) + Len(w)
      /\ Len(r) \in Nat /\ Len(r \o w) \in Nat /\ Len(r) <= Len(r \o w)
      /\ \A i \in 1..Len(r) : (r \o w)[i] = r[i]
      /\ \A i \in 1..Len(w) : (r \o w)[Len(r) + i] = w[i]
  BY <1>2
<1>4. QED
  BY <1>2, <1>3 DEF r, w

\* A rearrangement has the entries of the lists, and is as long.
LEMMA RearrangedEntries ==
  ASSUME TypeOK, NEW t \in Txns, Rearranged(ordered[t], All(t))
  PROVE  /\ Len(ordered[t]) = Len(All(t))
         /\ \A i \in 1..Len(All(t)) : \E k \in 1..Len(ordered[t]) :
               ordered[t][k] = All(t)[i]
         /\ DistinctUpTo(ordered[t], Len(ordered[t])) =>
               \A i, j \in 1..Len(All(t)) : All(t)[i] = All(t)[j] => i = j
<1> DEFINE n == Len(All(t))
<1>1. n \in Nat /\ All(t) \in Seq(Locks) /\ ordered[t] \in Seq(Locks)
  <2>1. All(t) \in Seq(Locks)
    BY AllType
  <2>2. QED
    BY <2>1 DEF TypeOK
<1>2. PICK perm \in Bijection(1..n, 1..n) :
         ordered[t] = [i \in 1..n |-> All(t)[perm[i]]]
  BY DEF Rearranged
<1> HIDE DEF n
<1>3. /\ perm \in [1..n -> 1..n]
      /\ \A i \in 1..n : \E k \in 1..n : perm[k] = i
  BY <1>2 DEF Bijection, Injection, Surjection, IsInjective
<1>4. Len(ordered[t]) = n
  BY <1>1, <1>2
<1>5. \A k \in 1..n : ordered[t][k] = All(t)[perm[k]]
  BY <1>2
<1>6. ASSUME NEW i \in 1..n
      PROVE  \E k \in 1..n : ordered[t][k] = All(t)[i] /\ perm[k] = i
  BY <1>3, <1>5
<1>7. ASSUME DistinctUpTo(ordered[t], Len(ordered[t])),
             NEW i \in 1..n, NEW j \in 1..n, All(t)[i] = All(t)[j]
      PROVE  i = j
  <2>1. PICK k \in 1..n : ordered[t][k] = All(t)[i] /\ perm[k] = i
    BY <1>6
  <2>2. PICK m \in 1..n : ordered[t][m] = All(t)[j] /\ perm[m] = j
    BY <1>6
  <2>3. k = m
    BY <1>4, <1>7, <2>1, <2>2 DEF DistinctUpTo
  <2>4. QED
    BY <2>1, <2>2, <2>3
<1>8. QED
  BY <1>4, <1>6, <1>7 DEF n

\* Every lock a transaction was given is an entry of its lists.
LEMMA NamedAreEntries ==
  ASSUME TypeOK, NEW t \in Txns
  PROVE  \A l \in LocksOf(t) : \E i \in 1..Len(All(t)) : All(t)[i] = l
<1> DEFINE r == request[t].readLocks
           w == request[t].writeLocks
<1>1. /\ r \in Seq(Locks) /\ w \in Seq(Locks)
      /\ Len(All(t)) = Len(r) + Len(w)
      /\ \A i \in 1..Len(r) : All(t)[i] = r[i]
      /\ \A i \in 1..Len(w) : All(t)[Len(r) + i] = w[i]
  BY AllType
<1>2. LocksOf(t) = Range(r) \cup Range(w)
  BY DEF LocksOf
<1> HIDE DEF r, w
<1>3. /\ Len(r) \in Nat /\ DOMAIN r = 1..Len(r)
      /\ Len(w) \in Nat /\ DOMAIN w = 1..Len(w)
  BY <1>1
<1>4. ASSUME NEW l \in Range(r)
      PROVE  \E i \in 1..Len(All(t)) : All(t)[i] = l
  <2>1. PICK i \in 1..Len(r) : r[i] = l
    BY <1>3 DEF Range
  <2>2. i \in 1..Len(All(t))
    BY <1>1, <1>3
  <2>3. QED
    BY <1>1, <2>1, <2>2
<1>5. ASSUME NEW l \in Range(w)
      PROVE  \E i \in 1..Len(All(t)) : All(t)[i] = l
  <2>1. PICK i \in 1..Len(w) : w[i] = l
    BY <1>3 DEF Range
  <2>2. Len(r) + i \in 1..Len(All(t))
    BY <1>1, <1>3
  <2>3. QED
    BY <1>1, <2>1, <2>2
<1>6. QED
  BY <1>2, <1>4, <1>5

\* A lock unlike the ones before it keeps the entries distinct; past an entry,
\* distinct entries no longer include it.
LEMMA OneMoreDistinct ==
  ASSUME NEW q \in Seq(Locks), NEW n \in Nat, n + 1 \in 1..Len(q),
         DistinctUpTo(q, n), \A i \in 1..n : q[i] # q[n + 1]
  PROVE  DistinctUpTo(q, n + 1)
BY DEF DistinctUpTo

LEMMA OneFewerAmong ==
  ASSUME NEW q \in Seq(Locks), NEW n \in Nat, NEW w \in Nat, n < w,
         DistinctUpTo(q, w)
  PROVE  /\ q[n + 1] \in Among(q, n + 1, w)
         /\ Among(q, n + 2, w) = Among(q, n + 1, w) \ {q[n + 1]}
<1>1. \A i \in (n + 2)..w : q[i] # q[n + 1]
  BY DEF DistinctUpTo
<1>2. \A i : i \in (n + 1)..w <=> i = n + 1 \/ i \in (n + 2)..w
  OBVIOUS
<1>3. QED
  BY <1>1, <1>2 DEF Among

-----------------------------------------------------------------------------
\* A step of one transaction leaves the others where they are.
LEMMA OthersKeep ==
  ASSUME TypeOK, NEW t \in Txns, Step(t) \/ Retry(t), NEW u \in Txns \ {t}
  PROVE  Held(u)' = Held(u) /\ (Control(u) => Control(u)')
<1>1. /\ request' = request /\ pc'[u] = pc[u] /\ pos'[u] = pos[u]
      /\ ordered'[u] = ordered[u] /\ width'[u] = width[u]
  BY DEF TypeOK, Step, Begin, Acquire, Refuse, CleanupOne, ThrowRetry, BeginUpdate,
         SetReference, BeginRelease, ReleaseOne, ThrowIndex, Return, Retry,
         Goto, Restart, Advance
<1>2. Held(u)' = Held(u)
  BY <1>1 DEF Held
<1>3. Control(u) => Control(u)'
  BY <1>1 DEF Control, All, ListToUpdate
<1>4. QED
  BY <1>2, <1>3

\* What setting a free lock, clearing one's own, and neither do to the table.
LEMMA TakeLock ==
  ASSUME TypeOK, LockTableExact, NEW t \in Txns, NEW l \in Locks,
         lock[l] = 0, lock' = [lock EXCEPT ![l] = 1],
         Held(t)' = Held(t) \cup {l},
         \A u \in Txns \ {t} : Held(u)' = Held(u)
  PROVE  LockTableExact'
<1>1. \A u \in Txns : l \notin Held(u)
  BY DEF LockTableExact
<1>2. \A k \in Locks : lock'[k] = IF k = l THEN 1 ELSE lock[k]
  BY DEF TypeOK
<1>3. \A k \in Locks : lock'[k] = 1 <=> \E u \in Txns : k \in Held(u)'
  BY <1>2 DEF LockTableExact
<1>4. \A u, v \in Txns : u # v => Held(u)' \cap Held(v)' = {}
  BY <1>1 DEF LockTableExact
<1>5. QED
  BY <1>3, <1>4 DEF LockTableExact

LEMMA DropLock ==
  ASSUME TypeOK, LockTableExact, NEW t \in Txns, NEW l \in Locks,
         l \in Held(t), lock' = [lock EXCEPT ![l] = 0],
         Held(t)' = Held(t) \ {l},
         \A u \in Txns \ {t} : Held(u)' = Held(u)
  PROVE  LockTableExact'
<1>1. \A u \in Txns \ {t} : l \notin Held(u)
  BY DEF LockTableExact
<1>2. \A k \in Locks : lock'[k] = IF k = l THEN 0 ELSE lock[k]
  BY DEF TypeOK
<1>3. \A k \in Locks : lock'[k] = 1 <=> \E u \in Txns : k \in Held(u)'
  BY <1>1, <1>2 DEF LockTableExact
<1>4. \A u, v \in Txns : u # v => Held(u)' \cap Held(v)' = {}
  BY DEF LockTableExact
<1>5. QED
  BY <1>3, <1>4 DEF LockTableExact

LEMMA KeepLocks ==
  ASSUME LockTableExact, NEW t \in Txns, lock' = lock, Held(t)' = Held(t),
         \A u \in Txns \ {t} : Held(u)' = Held(u)
  PROVE  LockTableExact'
<1>1. \A u \in Txns : Held(u)' = Held(u)
  OBVIOUS
<1>2. QED
  BY <1>1 DEF LockTableExact

-----------------------------------------------------------------------------
LEMMA InitInv == Init => ManagerInv
<1> SUFFICES ASSUME Init
             PROVE  ManagerInv
  OBVIOUS
<1>1. TypeOK
  BY ManagerAssumption DEF Init, TypeOK, Labels
<1>2. \A t \in Txns : Control(t)
  BY DEF Init, Control
<1>3. LockTableExact
  <2>1. \A t \in Txns : Held(t) = {}
    BY DEF Init, Held
  <2>2. QED
    BY <2>1 DEF Init, LockTableExact
<1>4. QED
  BY <1>1, <1>2, <1>3 DEF ManagerInv

\* What a transaction does to itself, action by action: it stays typed and
\* controlled, and the lock table stays exact.
LEMMA OwnStep ==
  ASSUME ManagerInv, NEW t \in Txns, Step(t) \/ Retry(t)
  PROVE  TypeOK' /\ Control(t)' /\ LockTableExact'
<1>a. TypeOK /\ Control(t) /\ LockTableExact
  BY DEF ManagerInv
<1>b. \A u \in Txns \ {t} : Held(u)' = Held(u)
  BY <1>a, OthersKeep
<1>c. /\ lock \in [Locks -> {0, 1}] /\ request \in [Txns -> Requests]
      /\ ordered \in [Txns -> Seq(Locks)] /\ pc \in [Txns -> Labels]
      /\ pos \in [Txns -> Nat] /\ width \in [Txns -> Nat]
      /\ attempts \in [Txns -> Nat] /\ value \in [Locks -> Txns \cup {NoTxn}]
      /\ ordered[t] \in Seq(Locks) /\ Len(ordered[t]) \in Nat
      /\ pos[t] \in Nat /\ width[t] \in Nat
  BY <1>a DEF TypeOK
<1>d. /\ request[t].readLocks \in Seq(Locks) /\ request[t].writeLocks \in Seq(Locks)
      /\ All(t) \in Seq(Locks)
  BY <1>a, AllType
<1>1. CASE Begin(t)
  <2>1. PICK perm \in Bijection(1..Len(All(t)), 1..Len(All(t))) :
           ordered' = [ordered EXCEPT ![t] = [i \in 1..Len(All(t)) |-> All(t)[perm[i]]]]
    BY <1>1 DEF Begin, All
  <2> DEFINE q == [i \in 1..Len(All(t)) |-> All(t)[perm[i]]]
  <2>2. q \in Seq(Locks)
    <3>1. \A i \in 1..Len(All(t)) : All(t)[perm[i]] \in Locks
      BY <1>d DEF Bijection, Injection
    <3>2. Len(All(t)) \in Nat
      BY <1>d
    <3>3. QED
      BY <3>1, <3>2
  <2>3. /\ lock' = lock /\ request' = request /\ width' = width /\ value' = value
        /\ pc' = [pc EXCEPT ![t] = "acquire"] /\ pos' = [pos EXCEPT ![t] = 0]
        /\ attempts' = [attempts EXCEPT ![t] = @ + 1]
        /\ pc[t] = "idle"
    BY <1>1 DEF Begin, Goto, Restart
  <2>4. ordered'[t] = q /\ pc'[t] = "acquire" /\ pos'[t] = 0
    BY <1>c, <2>1, <2>3
  <2>5. TypeOK'
    <3>1. ordered' \in [Txns -> Seq(Locks)]
      BY <1>c, <2>1, <2>2
    <3>2. pc' \in [Txns -> Labels]
      BY <1>c, <2>3 DEF Labels
    <3>3. pos' \in [Txns -> Nat] /\ attempts' \in [Txns -> Nat]
      BY <1>c, <2>3
    <3>4. QED
      BY <1>c, <2>3, <3>1, <3>2, <3>3 DEF TypeOK
  <2>6. Control(t)'
    <3>1. Rearranged(ordered[t], All(t))'
      <4>1. Rearranged(q, All(t))
        BY DEF Rearranged
      <4>2. All(t)' = All(t)
        BY <2>3 DEF All
      <4> HIDE DEF q
      <4>3. QED
        BY <2>4, <4>1, <4>2
    <3>2. Len(ordered'[t]) \in Nat
      BY <2>2, <2>4
    <3>3. DistinctUpTo(ordered[t], pos[t])'
      BY <2>4, <3>2 DEF DistinctUpTo
    <3>4. QED
      BY <2>4, <3>1, <3>3 DEF Control
  <2>7. Held(t) = {} /\ Held(t)' = {}
    BY <2>3, <2>4 DEF Held, Among
  <2>8. QED
    BY <1>a, <1>b, <2>3, <2>5, <2>6, <2>7, KeepLocks
<1>2. CASE Acquire(t)
  <2> DEFINE l == Current(t)
  <2>1. /\ pc[t] = "acquire" /\ pos[t] + 1 \in 1..Len(ordered[t])
        /\ l \in Locks /\ lock[l] = 0 /\ lock' = [lock EXCEPT ![l] = 1]
        /\ pos' = [pos EXCEPT ![t] = @ + 1]
        /\ UNCHANGED <<request, ordered, pc, width, attempts, value>>
    BY <1>2, <1>c DEF Acquire, Free, Advance, Current
  <2>2. pos'[t] = pos[t] + 1 /\ pos' \in [Txns -> Nat]
    BY <1>c, <2>1
  <2>3. TypeOK'
    BY <1>c, <2>1, <2>2 DEF TypeOK
  <2>4. Held(t) = Among(ordered[t], 1, pos[t])
    BY <2>1 DEF Held
  <2>5. Held(t)' = Among(ordered[t], 1, pos[t] + 1)
    BY <2>1, <2>2 DEF Held, Among
  <2>6. Held(t)' = Held(t) \cup {l}
    BY <1>c, <2>1, <2>4, <2>5 DEF Among, Current
  <2>7. l \notin Held(t)
    BY <1>a, <2>1 DEF LockTableExact
  <2>8. Control(t)'
    <3>1. DistinctUpTo(ordered[t], pos[t])
      BY <1>a, <2>1 DEF Control
    <3>2. \A i \in 1..pos[t] : ordered[t][i] # ordered[t][pos[t] + 1]
      BY <2>4, <2>7 DEF Among, Current
    <3>3. DistinctUpTo(ordered[t], pos[t] + 1)
      BY <1>c, <2>1, <3>1, <3>2, OneMoreDistinct
    <3>4. DistinctUpTo(ordered[t], pos[t])'
      BY <2>1, <2>2, <3>3
    <3>5. Rearranged(ordered[t], All(t))'
      BY <1>a, <2>1 DEF Control, All
    <3>6. QED
      BY <2>1, <3>4, <3>5 DEF Control
  <2>9. QED
    <3> HIDE DEF l
    <3>1. LockTableExact'
      BY <1>a, <1>b, <2>1, <2>6, TakeLock
    <3>2. QED
      BY <2>3, <2>8, <3>1
<1>3. CASE Refuse(t)
  <2>1. /\ pc[t] = "acquire" /\ pos[t] < Len(ordered[t])
        /\ width' = [width EXCEPT ![t] = pos[t]]
        /\ pos' = [pos EXCEPT ![t] = 0] /\ pc' = [pc EXCEPT ![t] = "cleanup"]
        /\ UNCHANGED <<lock, request, ordered, attempts, value>>
    BY <1>3 DEF Refuse, TakenBefore, Restart, Goto
  <2>2. pc'[t] = "cleanup" /\ pos'[t] = 0 /\ width'[t] = pos[t]
    BY <1>c, <2>1
  <2>3. TypeOK'
    BY <1>c, <2>1 DEF TypeOK, Labels
  <2>4. Control(t)'
    BY <1>a, <1>c, <2>1, <2>2 DEF Control, All
  <2>5. Held(t)' = Held(t)
    BY <2>1, <2>2 DEF Held
  <2>6. QED
    BY <1>a, <1>b, <2>1, <2>3, <2>4, <2>5, KeepLocks
<1>4. CASE CleanupOne(t)
  <2> DEFINE l == Current(t)
  <2>1. /\ pc[t] = "cleanup" /\ pos[t] < width[t]
        /\ lock' = [lock EXCEPT ![l] = 0]
        /\ pos' = [pos EXCEPT ![t] = @ + 1]
        /\ UNCHANGED <<request, ordered, pc, width, attempts, value>>
    BY <1>4 DEF CleanupOne, Advance
  <2>2. DistinctUpTo(ordered[t], width[t]) /\ width[t] <= Len(ordered[t])
    BY <1>a, <2>1 DEF Control, DistinctUpTo
  <2>3. l \in Locks /\ pos'[t] = pos[t] + 1 /\ pos' \in [Txns -> Nat]
    BY <1>c, <2>1, <2>2 DEF Current
  <2>4. TypeOK'
    BY <1>c, <2>1, <2>3 DEF TypeOK
  <2>5. Control(t)'
    BY <1>a, <1>c, <2>1, <2>2, <2>3 DEF Control, All
  <2>6. /\ Held(t) = Among(ordered[t], pos[t] + 1, width[t])
        /\ Held(t)' = Among(ordered[t], pos[t] + 2, width[t])
    BY <1>c, <2>1, <2>3 DEF Held, Among
  <2>7. l \in Held(t) /\ Held(t)' = Held(t) \ {l}
    <3>1. /\ ordered[t][pos[t] + 1] \in Among(ordered[t], pos[t] + 1, width[t])
          /\ Among(ordered[t], pos[t] + 2, width[t])
               = Among(ordered[t], pos[t] + 1, width[t]) \ {ordered[t][pos[t] + 1]}
      BY <1>c, <2>1, <2>2, OneFewerAmong
    <3>2. QED
      BY <2>6, <3>1 DEF Current
  <2>8. QED
    <3> HIDE DEF l
    <3>1. LockTableExact'
      BY <1>a, <1>b, <2>1, <2>3, <2>7, DropLock
    <3>2. QED
      BY <2>4, <2>5, <3>1
<1>5. CASE ThrowRetry(t)
  <2>1. /\ pc[t] = "cleanup" /\ pos[t] = width[t]
        /\ pc' = [pc EXCEPT ![t] = "refused"] /\ pc'[t] = "refused"
        /\ UNCHANGED <<lock, request, ordered, pos, width, attempts, value>>
    BY <1>5, <1>c DEF ThrowRetry, Goto
  <2>2. TypeOK'
    BY <1>c, <2>1 DEF TypeOK, Labels
  <2>3. Control(t)'
    BY <1>a, <2>1 DEF Control, All
  <2>4. Held(t) = {} /\ Held(t)' = {}
    BY <1>c, <2>1 DEF Held, Among
  <2>5. QED
    BY <1>a, <1>b, <2>1, <2>2, <2>3, <2>4, KeepLocks
<1>6. CASE BeginUpdate(t)
  <2>1. /\ pc[t] = "acquire" /\ pos[t] = Len(ordered[t])
        /\ pos' = [pos EXCEPT ![t] = 0] /\ pc' = [pc EXCEPT ![t] = "update"]
        /\ pos'[t] = 0 /\ pc'[t] = "update"
        /\ UNCHANGED <<lock, request, ordered, width, attempts, value>>
    BY <1>6, <1>c DEF BeginUpdate, AllLocked, Restart, Goto
  <2>2. TypeOK'
    BY <1>c, <2>1 DEF TypeOK, Labels
  <2>3. Control(t)'
    <3>1. Len(ListToUpdate(t)') \in Nat
      BY <1>d, <2>1 DEF ListToUpdate
    <3>2. Rearranged(ordered[t], All(t))' /\ DistinctUpTo(ordered[t], Len(ordered[t]))'
      BY <1>a, <2>1 DEF Control, All
    <3>3. QED
      BY <2>1, <3>1, <3>2 DEF Control
  <2>4. Held(t)' = Held(t)
    BY <2>1 DEF Held
  <2>5. QED
    BY <1>a, <1>b, <2>1, <2>2, <2>3, <2>4, KeepLocks
<1>7. CASE SetReference(t)
  <2>1. /\ pc[t] = "update" /\ pos[t] + 1 \in 1..Len(ListToUpdate(t))
        /\ value' = [value EXCEPT ![ListToUpdate(t)[pos[t] + 1]] = t]
        /\ pos' = [pos EXCEPT ![t] = @ + 1] /\ pos'[t] = pos[t] + 1
        /\ UNCHANGED <<lock, request, ordered, pc, width, attempts>>
    BY <1>7, <1>c, <1>d DEF SetReference, UpdateWidth, ListToUpdate, Advance
  <2>2. TypeOK'
    <3>1. pos' \in [Txns -> Nat]
      BY <1>c, <2>1
    <3>2. value' \in [Locks -> Txns \cup {NoTxn}]
      BY <1>c, <2>1
    <3>3. QED
      BY <1>c, <2>1, <3>1, <3>2 DEF TypeOK
  <2>3. Control(t)'
    <3>1. pos'[t] <= Len(ListToUpdate(t)')
      BY <1>c, <1>d, <2>1 DEF ListToUpdate
    <3>2. Rearranged(ordered[t], All(t))' /\ DistinctUpTo(ordered[t], Len(ordered[t]))'
      BY <1>a, <2>1 DEF Control, All
    <3>3. QED
      BY <2>1, <3>1, <3>2 DEF Control
  <2>4. Held(t)' = Held(t)
    BY <2>1 DEF Held
  <2>5. QED
    BY <1>a, <1>b, <2>1, <2>2, <2>3, <2>4, KeepLocks
<1>8. CASE BeginRelease(t)
  <2>1. /\ pc[t] = "update"
        /\ width' = [width EXCEPT ![t] = Len(request[t].writeLocks)]
        /\ pos' = [pos EXCEPT ![t] = 0] /\ pc' = [pc EXCEPT ![t] = "release"]
        /\ pos'[t] = 0 /\ pc'[t] = "release"
        /\ UNCHANGED <<lock, request, ordered, attempts, value>>
    BY <1>8, <1>c DEF BeginRelease, Restart, Goto
  <2>2. TypeOK'
    BY <1>c, <1>d, <2>1 DEF TypeOK, Labels
  <2>3. Control(t)'
    <3>1. 0 <= Len(request[t].readLocks)
      BY <1>d
    <3>2. Rearranged(ordered[t], All(t))' /\ DistinctUpTo(ordered[t], Len(ordered[t]))'
      BY <1>a, <2>1 DEF Control, All
    <3>3. QED
      BY <2>1, <3>1, <3>2 DEF Control
  <2>4. Held(t)' = Held(t)
    BY <2>1 DEF Held, Among
  <2>5. QED
    BY <1>a, <1>b, <2>1, <2>2, <2>3, <2>4, KeepLocks
<1>9. CASE ReleaseOne(t)
  <2> DEFINE r == request[t].readLocks
             l == r[pos[t] + 1]
  <2>1. /\ pc[t] = "release" /\ pos[t] + 1 \in 1..Len(r)
        /\ lock' = [lock EXCEPT ![l] = 0]
        /\ pos' = [pos EXCEPT ![t] = @ + 1] /\ pos'[t] = pos[t] + 1
        /\ UNCHANGED <<request, ordered, pc, width, attempts, value>>
    BY <1>9, <1>c, <1>d DEF ReleaseOne, Advance
  <2>2. l \in Locks /\ pos' \in [Txns -> Nat]
    BY <1>c, <1>d, <2>1
  <2>3. TypeOK'
    BY <1>c, <2>1, <2>2 DEF TypeOK
  <2>4. Control(t)'
    <3>1. Rearranged(ordered[t], All(t))' /\ DistinctUpTo(ordered[t], Len(ordered[t]))'
      BY <1>a, <2>1 DEF Control, All
    <3>2. QED
      BY <1>c, <1>d, <2>1, <3>1 DEF Control
  <2>5. /\ Held(t) = Among(ordered[t], 1, Len(ordered[t])) \ Among(r, 1, pos[t])
        /\ Held(t)' = Among(ordered[t], 1, Len(ordered[t])) \ Among(r, 1, pos[t] + 1)
    BY <2>1 DEF Held, Among
  <2>6. Among(r, 1, pos[t] + 1) = Among(r, 1, pos[t]) \cup {l}
    BY <1>c DEF Among
  <2>7. l \in Held(t)
    <3>1. /\ \A i \in 1..Len(All(t)) : \E k \in 1..Len(ordered[t]) :
                ordered[t][k] = All(t)[i]
          /\ \A i, j \in 1..Len(All(t)) : All(t)[i] = All(t)[j] => i = j
      BY <1>a, <2>1, RearrangedEntries DEF Control
    <3>2. /\ Len(r) \in Nat /\ Len(r) <= Len(All(t)) /\ Len(All(t)) \in Nat
          /\ \A i \in 1..Len(r) : All(t)[i] = r[i]
      BY <1>a, AllType
    <3>3. l \in Among(ordered[t], 1, Len(ordered[t]))
      <4>1. pos[t] + 1 \in 1..Len(All(t)) /\ All(t)[pos[t] + 1] = l
        BY <2>1, <3>2
      <4>2. QED
        BY <3>1, <4>1 DEF Among
    <3>4. l \notin Among(r, 1, pos[t])
      <4>1. ASSUME NEW i \in 1..pos[t], r[i] = l
            PROVE  FALSE
        <5>a. pos[t] \in Nat /\ pos[t] + 1 \in 1..Len(r)
          BY <1>c, <2>1
        <5>b. i \in 1..Len(r)
          BY <3>2, <5>a
        <5>1. /\ i \in 1..Len(All(t)) /\ pos[t] + 1 \in 1..Len(All(t))
              /\ All(t)[i] = All(t)[pos[t] + 1]
          BY <3>2, <4>1, <5>a, <5>b
        <5>2. i = pos[t] + 1
          BY <3>1, <5>1
        <5>3. QED
          BY <1>c, <5>2
      <4>2. QED
        BY <4>1 DEF Among
    <3>5. QED
      BY <2>5, <3>3, <3>4
  <2>8. Held(t)' = Held(t) \ {l}
    BY <2>5, <2>6
  <2>9. QED
    <3> HIDE DEF l
    <3>1. LockTableExact'
      BY <1>a, <1>b, <2>1, <2>2, <2>7, <2>8, DropLock
    <3>2. QED
      BY <2>3, <2>4, <3>1
<1>10. CASE ThrowIndex(t) \/ Return(t)
  <2>1. /\ pc[t] = "release"
        /\ \E after \in {"broken", "returned"} : pc' = [pc EXCEPT ![t] = after]
        /\ UNCHANGED <<lock, request, ordered, pos, width, attempts, value>>
    BY <1>10 DEF ThrowIndex, Return, Goto
  <2>2. pc'[t] \in {"broken", "returned"} /\ pc' \in [Txns -> Labels]
    BY <1>c, <2>1 DEF Labels
  <2>3. TypeOK'
    BY <1>c, <2>1, <2>2 DEF TypeOK
  <2>4. Control(t)'
    BY <1>a, <2>1, <2>2 DEF Control, All
  <2>5. Held(t)' = Held(t)
    BY <2>1, <2>2 DEF Held
  <2>6. QED
    BY <1>a, <1>b, <2>1, <2>3, <2>4, <2>5, KeepLocks
<1>11. CASE Retry(t)
  <2>1. /\ pc[t] = "refused" /\ pc' = [pc EXCEPT ![t] = "idle"] /\ pc'[t] = "idle"
        /\ UNCHANGED <<lock, request, ordered, pos, width, attempts, value>>
    BY <1>11, <1>c DEF Retry, Goto
  <2>2. TypeOK'
    BY <1>c, <2>1 DEF TypeOK, Labels
  <2>3. Control(t)'
    BY <2>1 DEF Control
  <2>4. Held(t) = {} /\ Held(t)' = {}
    BY <2>1 DEF Held
  <2>5. QED
    BY <1>a, <1>b, <2>1, <2>2, <2>3, <2>4, KeepLocks
<1>12. QED
  BY <1>1, <1>2, <1>3, <1>4, <1>5, <1>6, <1>7, <1>8, <1>9, <1>10, <1>11 DEF Step

LEMMA InvStep == ManagerInv /\ [Next]_vars => ManagerInv'
<1> SUFFICES ASSUME ManagerInv, [Next]_vars
             PROVE  ManagerInv'
  OBVIOUS
<1>1. ASSUME NEW t \in Txns, Step(t) \/ Retry(t)
      PROVE  ManagerInv'
  <2>1. TypeOK' /\ Control(t)' /\ LockTableExact'
    BY <1>1, OwnStep
  <2>2. \A u \in Txns \ {t} : Control(u)'
    BY <1>1, OthersKeep DEF ManagerInv
  <2>3. QED
    BY <2>1, <2>2 DEF ManagerInv
<1>2. CASE UNCHANGED vars
  <2>1. TypeOK'
    BY <1>2 DEF vars, ManagerInv, TypeOK
  <2>2. \A t \in Txns : Control(t)'
    BY <1>2 DEF vars, ManagerInv, Control, All, ListToUpdate
  <2>3. LockTableExact'
    <3>1. \A t \in Txns : Held(t)' = Held(t)
      BY <1>2 DEF vars, Held
    <3>2. lock' = lock
      BY <1>2 DEF vars
    <3>3. QED
      BY <3>1, <3>2 DEF ManagerInv, LockTableExact
  <2>4. QED
    BY <2>1, <2>2, <2>3 DEF ManagerInv
<1>3. QED
  BY <1>1, <1>2 DEF Next

LEMMA Invariance == Spec => []ManagerInv
BY InitInv, InvStep, PTL DEF Spec

-----------------------------------------------------------------------------
\* commit keeps its state typed: in particular the index of each of its loops
\* never runs below zero.
THEOREM TypeCorrect == Spec => []TypeOK
<1>1. ManagerInv => TypeOK
  BY DEF ManagerInv
<1>2. QED
  BY Invariance, <1>1, PTL

\* For any lists: a lock is set exactly when one transaction counts on it, and
\* no cleanup clears a lock that another transaction set.
THEOREM LockTableIsExact == Spec => []LockTableExact
<1>1. ManagerInv => LockTableExact
  BY DEF ManagerInv
<1>2. QED
  BY Invariance, <1>1, PTL

\* A transaction that updates, or has just updated, holds all it was given.
AllHeld(t) == pc[t] = "update" \/ (pc[t] = "release" /\ pos[t] = 0)

LEMMA GivenAreHeld ==
  ASSUME ManagerInv, NEW t \in Txns, AllHeld(t)
  PROVE  LocksOf(t) \subseteq Held(t)
<1>1. \A i \in 1..Len(All(t)) : \E k \in 1..Len(ordered[t]) :
         ordered[t][k] = All(t)[i]
  BY RearrangedEntries DEF ManagerInv, Control, AllHeld
<1>2. Held(t) = Among(ordered[t], 1, Len(ordered[t]))
  <2>1. CASE pc[t] = "update"
    BY <2>1 DEF Held
  <2>2. CASE pc[t] = "release" /\ pos[t] = 0
    <3>1. Among(request[t].readLocks, 1, 0) = {}
      BY DEF Among
    <3>2. QED
      BY <2>2, <3>1 DEF Held
  <2>3. QED
    BY <2>1, <2>2 DEF AllHeld
<1>3. \A i \in 1..Len(All(t)) : All(t)[i] \in Held(t)
  BY <1>1, <1>2 DEF Among
<1>4. QED
  BY <1>3, NamedAreEntries DEF ManagerInv

\* While a transaction updates, no other that updates was given one of its locks.
THEOREM Exclusion == Spec => []MutualExclusion
<1>1. ManagerInv => MutualExclusion
  <2>1. SUFFICES ASSUME ManagerInv, NEW t \in Txns, NEW u \in Txns, t # u,
                        pc[t] = "update", pc[u] = "update"
                 PROVE  LocksOf(t) \cap LocksOf(u) = {}
    BY DEF MutualExclusion
  <2>2. Held(t) \cap Held(u) = {}
    BY <2>1 DEF ManagerInv, LockTableExact
  <2>3. LocksOf(t) \subseteq Held(t) /\ LocksOf(u) \subseteq Held(u)
    BY <2>1, GivenAreHeld DEF AllHeld
  <2>4. QED
    BY <2>2, <2>3
<1>2. QED
  BY Invariance, <1>1, PTL

-----------------------------------------------------------------------------
\* The updates made so far are still in place.
Updated(t) ==
  /\ pc[t] = "update" => \A i \in 1..pos[t] : value[ListToUpdate(t)[i]] = t
  /\ pc[t] = "release" /\ pos[t] = 0 =>
        \A i \in 1..Len(ListToUpdate(t)) : value[ListToUpdate(t)[i]] = t

\* An update of another transaction is not under a lock of this one.
LEMMA OthersSpare ==
  ASSUME ManagerInv, NEW t \in Txns, NEW u \in Txns \ {t}, AllHeld(t),
         Step(u) \/ Retry(u), NEW l \in LocksOf(t)
  PROVE  value'[l] = value[l]
<1>1. CASE value' = value
  BY <1>1
<1>2. CASE SetReference(u)
  <2>1. /\ pc[u] = "update" /\ pos[u] \in Nat /\ pos[u] < Len(request[u].writeLocks)
        /\ value' = [value EXCEPT ![request[u].writeLocks[pos[u] + 1]] = u]
    BY <1>2 DEF SetReference, UpdateWidth, ListToUpdate, ManagerInv, TypeOK
  <2>2. request[u].writeLocks \in Seq(Locks)
    BY AllType DEF ManagerInv
  <2>3. request[u].writeLocks[pos[u] + 1] \in Range(request[u].writeLocks)
    <3>1. /\ Len(request[u].writeLocks) \in Nat
          /\ DOMAIN request[u].writeLocks = 1..Len(request[u].writeLocks)
      BY <2>2
    <3>2. pos[u] + 1 \in DOMAIN request[u].writeLocks
      BY <2>1, <3>1
    <3>3. QED
      BY <3>2 DEF Range
  <2>4. request[u].writeLocks[pos[u] + 1] \in Held(u)
    BY <2>1, <2>3, GivenAreHeld DEF AllHeld, LocksOf
  <2>5. l \in Held(t) /\ Held(t) \cap Held(u) = {}
    BY GivenAreHeld DEF ManagerInv, LockTableExact
  <2>6. l # request[u].writeLocks[pos[u] + 1]
    BY <2>4, <2>5
  <2>7. value \in [Locks -> Txns \cup {NoTxn}]
    BY DEF ManagerInv, TypeOK
  <2>8. QED
    BY <2>1, <2>6, <2>7
<1>3. QED
  BY <1>1, <1>2 DEF Step, Begin, Acquire, Refuse, CleanupOne, ThrowRetry, BeginUpdate,
                    BeginRelease, ReleaseOne, ThrowIndex, Return, Retry

\* The write locks of a transaction, index by index.
LEMMA WriteLocks ==
  ASSUME TypeOK, NEW t \in Txns
  PROVE  /\ Len(ListToUpdate(t)) \in Nat
         /\ \A i \in 1..Len(ListToUpdate(t)) :
               ListToUpdate(t)[i] \in LocksOf(t) /\ ListToUpdate(t)[i] \in Locks
<1> DEFINE w == request[t].writeLocks
<1>1. w \in Seq(Locks) /\ ListToUpdate(t) = w /\ Range(w) \subseteq LocksOf(t)
  BY AllType DEF ListToUpdate, LocksOf
<1> HIDE DEF w
<1>2. Len(w) \in Nat /\ DOMAIN w = 1..Len(w) /\ \A i \in 1..Len(w) : w[i] \in Locks
  BY <1>1
<1>3. \A i \in 1..Len(w) : w[i] \in Range(w)
  BY <1>2 DEF Range
<1>4. QED
  BY <1>1, <1>2, <1>3

LEMMA UpdatedStep ==
  ASSUME ManagerInv, \A t \in Txns : Updated(t), [Next]_vars
  PROVE  \A t \in Txns : Updated(t)'
<1> SUFFICES ASSUME NEW t \in Txns
             PROVE  Updated(t)'
  OBVIOUS
<1>0. /\ TypeOK /\ pos[t] \in Nat /\ Len(ListToUpdate(t)) \in Nat
      /\ pc[t] = "update" => pos[t] <= Len(ListToUpdate(t))
  BY WriteLocks DEF ManagerInv, Control, TypeOK
<1>1. ASSUME NEW u \in Txns \ {t}, Step(u) \/ Retry(u)
      PROVE  Updated(t)'
  <2>1. /\ request' = request /\ pc'[t] = pc[t] /\ pos'[t] = pos[t]
        /\ ListToUpdate(t)' = ListToUpdate(t)
    BY <1>0, <1>1 DEF TypeOK, Step, Begin, Acquire, Refuse, CleanupOne, ThrowRetry,
         BeginUpdate, SetReference, BeginRelease, ReleaseOne, ThrowIndex, Return, Retry,
         Goto, Restart, Advance, ListToUpdate
  <2>2. AllHeld(t) => \A i \in 1..Len(ListToUpdate(t)) :
           value'[ListToUpdate(t)[i]] = value[ListToUpdate(t)[i]]
    BY <1>0, <1>1, OthersSpare, WriteLocks
  <2>3. CASE pc[t] = "update"
    <3>1. \A i \in 1..pos[t] : i \in 1..Len(ListToUpdate(t))
      BY <1>0, <2>3
    <3>2. QED
      BY <2>1, <2>2, <2>3, <3>1 DEF Updated, AllHeld
  <2>4. CASE pc[t] # "update"
    BY <2>1, <2>2, <2>4 DEF Updated, AllHeld
  <2>5. QED
    BY <2>3, <2>4
<1>2. CASE BeginUpdate(t)
  <2>1. pc'[t] = "update" /\ pos'[t] = 0
    BY <1>0, <1>2 DEF BeginUpdate, Restart, Goto, TypeOK
  <2>2. QED
    BY <2>1 DEF Updated
<1>3. CASE SetReference(t)
  <2>1. /\ pc[t] = "update" /\ pc'[t] = "update" /\ pos[t] < Len(ListToUpdate(t))
        /\ value' = [value EXCEPT ![ListToUpdate(t)[pos[t] + 1]] = t]
        /\ pos'[t] = pos[t] + 1 /\ ListToUpdate(t)' = ListToUpdate(t)
    BY <1>0, <1>3 DEF SetReference, UpdateWidth, Advance, ListToUpdate, TypeOK
  <2>2. ASSUME NEW i \in 1..(pos[t] + 1)
        PROVE  value'[ListToUpdate(t)[i]] = t
    <3>1. i \in 1..Len(ListToUpdate(t)) /\ pos[t] + 1 \in 1..Len(ListToUpdate(t))
      BY <1>0, <2>1
    <3>2. ListToUpdate(t)[i] \in Locks
      BY <1>0, <3>1, WriteLocks
    <3>3. value \in [Locks -> Txns \cup {NoTxn}]
      BY <1>0 DEF TypeOK
    <3>4. CASE ListToUpdate(t)[i] = ListToUpdate(t)[pos[t] + 1]
      BY <2>1, <3>2, <3>3, <3>4
    <3>5. CASE ListToUpdate(t)[i] # ListToUpdate(t)[pos[t] + 1]
      <4>1. i # pos[t] + 1
        BY <3>5
      <4>2. i \in 1..pos[t]
        BY <1>0, <4>1
      <4>3. value[ListToUpdate(t)[i]] = t
        BY <2>1, <4>2 DEF Updated
      <4>4. QED
        BY <2>1, <3>2, <3>3, <3>5, <4>3
    <3>6. QED
      BY <3>4, <3>5
  <2>3. QED
    BY <2>1, <2>2 DEF Updated
<1>4. CASE BeginRelease(t)
  <2>1. /\ pc[t] = "update" /\ pos[t] = Len(ListToUpdate(t)) /\ value' = value
        /\ pc'[t] = "release" /\ ListToUpdate(t)' = ListToUpdate(t)
    BY <1>0, <1>4 DEF BeginRelease, UpdateWidth, Goto, ListToUpdate, TypeOK
  <2>2. \A i \in 1..Len(ListToUpdate(t)) : value[ListToUpdate(t)[i]] = t
    BY <2>1 DEF Updated
  <2>3. QED
    BY <2>1, <2>2 DEF Updated
<1>5. CASE ReleaseOne(t)
  <2>1. pc'[t] = "release" /\ pos'[t] = pos[t] + 1
    BY <1>0, <1>5 DEF ReleaseOne, Advance, TypeOK
  <2>2. QED
    BY <1>0, <2>1 DEF Updated
<1>6. CASE \/ Begin(t) \/ Acquire(t) \/ Refuse(t) \/ CleanupOne(t) \/ ThrowRetry(t)
           \/ ThrowIndex(t) \/ Return(t) \/ Retry(t)
  <2>1. pc'[t] # "update" /\ pc'[t] # "release"
    BY <1>0, <1>6 DEF Begin, Acquire, Refuse, CleanupOne, ThrowRetry, ThrowIndex,
                      Return, Retry, Goto, TypeOK
  <2>2. QED
    BY <2>1 DEF Updated
<1>7. CASE UNCHANGED vars
  <2>1. pc' = pc /\ pos' = pos /\ value' = value /\ ListToUpdate(t)' = ListToUpdate(t)
    BY <1>7 DEF vars, ListToUpdate
  <2>2. QED
    BY <2>1 DEF Updated
<1>8. QED
  BY <1>1, <1>2, <1>3, <1>4, <1>5, <1>6, <1>7 DEF Next, Step

\* When a commit has made its updates they are all in place: nothing that ran
\* between the first and the last of them touched a reference under its locks.
THEOREM UpdatesAreTogether == Spec => []UpdatesTogether
<1> DEFINE U == \A t \in Txns : Updated(t)
<1>1. Init => U
  BY DEF Init, Updated
<1>2. ManagerInv /\ U /\ [Next]_vars => U'
  BY UpdatedStep
<1>3. ManagerInv /\ U => UpdatesTogether
  <2> SUFFICES ASSUME ManagerInv, U, NEW t \in Txns, pc[t] = "release", pos[t] = 0,
                      NEW l \in Range(ListToUpdate(t))
               PROVE  value[l] = t
    BY DEF UpdatesTogether
  <2>1. ListToUpdate(t) \in Seq(Locks)
    BY AllType DEF ManagerInv, ListToUpdate
  <2>2. PICK i \in 1..Len(ListToUpdate(t)) : ListToUpdate(t)[i] = l
    BY <2>1 DEF Range
  <2>3. QED
    BY <2>2 DEF Updated
<1> HIDE DEF U
<1>4. QED
  BY Invariance, <1>1, <1>2, <1>3, PTL DEF Spec
-----------------------------------------------------------------------------
(* A refusal has a winner.  Who is refused found its lock set by another     *)
(* one; that one is either under way, or was refused itself at a lock that   *)
(* comes later in the order, and so on: the order is finite and the chain    *)
(* ends at one that is under way.  The invariant names the end of the chain. *)

\* The lock at which t was refused.
RefusedAt(t) == ordered[t][width[t] + 1]

\* How many of its locks t has acquired.
Acquired(t) == IF pc[t] = "acquire" THEN pos[t] ELSE Len(ordered[t])

\* t is under way and has acquired a lock that is not before l.
Beyond(t, l) ==
  Underway(t) /\ \E i \in 1..Acquired(t) : Position[l] <= Position[ordered[t][i]]

Lost(t) == pc[t] \in {"cleanup", "refused"}

\* The list a transaction goes through is sorted, and it was refused inside it.
InOrder(t) ==
  /\ pc[t] # "idle" => Sorted(ordered[t])
  /\ Lost(t) => width[t] < Len(ordered[t])

Beaten(t) == Lost(t) => \E h \in Txns : Beyond(h, RefusedAt(t))

Distinct == \A t \in Txns : NamesOnce(t)

OrderInv ==
  /\ ManagerInv
  /\ \A t \in Txns : InOrder(t)
  /\ Distinct => \A t \in Txns : Beaten(t)

\* Different Lockables have different positions: GraphNode numbers its objects
\* with a counter (a plain int: nodes are made by one thread at a time).
PositionsDiffer == \A k, l \in Locks : Position[k] = Position[l] => k = l

\* Lists that name no lock twice are sorted into such a list.
LEMMA SortedDistinct ==
  ASSUME ManagerInv, NEW t \in Txns, NamesOnce(t), pc[t] # "idle"
  PROVE  DistinctUpTo(ordered[t], Len(ordered[t]))
<1> DEFINE n == Len(All(t))
<1>1. n \in Nat /\ All(t) \in Seq(Locks)
  BY AllType DEF ManagerInv
<1>2. PICK perm \in Bijection(1..n, 1..n) :
         ordered[t] = [i \in 1..n |-> All(t)[perm[i]]]
  BY DEF ManagerInv, Control, Rearranged
<1>3. \A i, j \in 1..n : All(t)[i] = All(t)[j] => i = j
  BY DEF NamesOnce, All
<1> HIDE DEF n
<1>4. /\ \A i \in 1..n : perm[i] \in 1..n
      /\ \A i, j \in 1..n : perm[i] = perm[j] => i = j
  BY <1>2 DEF Bijection, Injection, IsInjective
<1>5. Len(ordered[t]) = n /\ \A i \in 1..n : ordered[t][i] = All(t)[perm[i]]
  BY <1>1, <1>2
<1>6. \A i, j \in 1..n : ordered[t][i] = ordered[t][j] => i = j
  BY <1>3, <1>4, <1>5
<1>7. QED
  BY <1>1, <1>5, <1>6 DEF DistinctUpTo

\* What a transaction has acquired are entries of its list.
LEMMA AcquiredRange ==
  ASSUME ManagerInv, NEW t \in Txns, Underway(t)
  PROVE  /\ Acquired(t) \in Nat /\ Acquired(t) <= Len(ordered[t])
         /\ Len(ordered[t]) \in Nat
         /\ \A i \in 1..Len(ordered[t]) :
               ordered[t][i] \in Locks /\ Position[ordered[t][i]] \in Nat
<1>1. ordered[t] \in Seq(Locks) /\ pos[t] \in Nat /\ Position \in [Locks -> Nat]
  BY ManagerAssumption DEF ManagerInv, TypeOK
<1>2. pc[t] = "acquire" => pos[t] <= Len(ordered[t])
  BY DEF ManagerInv, Control, DistinctUpTo
<1>3. QED
  BY <1>1, <1>2 DEF Acquired

\* Beyond a lock is beyond those before it.
LEMMA BeyondEarlier ==
  ASSUME ManagerInv, NEW h \in Txns, NEW k \in Locks, NEW l \in Locks,
         Beyond(h, l), Position[k] <= Position[l]
  PROVE  Beyond(h, k)
<1>1. Underway(h)
  BY DEF Beyond
<1>2. PICK i \in 1..Acquired(h) : Position[l] <= Position[ordered[h][i]]
  BY DEF Beyond
<1>3. Position[ordered[h][i]] \in Nat
  BY <1>1, AcquiredRange
<1>4. Position[k] \in Nat /\ Position[l] \in Nat
  BY ManagerAssumption
<1>5. Position[k] <= Position[ordered[h][i]]
  BY <1>2, <1>3, <1>4
<1>6. QED
  BY <1>1, <1>5 DEF Beyond

\* Until it is refused itself, who is beyond a lock stays beyond it.
LEMMA BeyondStays ==
  ASSUME ManagerInv, NEW h \in Txns, NEW l, Beyond(h, l),
         NEW t \in Txns, Step(t) \/ Retry(t), ~(t = h /\ Refuse(t))
  PROVE  Beyond(h, l)'
<1>0. /\ TypeOK /\ Underway(h)
      /\ pos[h] \in Nat /\ Len(ordered[h]) \in Nat
      /\ pc \in [Txns -> Labels] /\ pos \in [Txns -> Nat]
      /\ pc[h] = "acquire" => pos[h] <= Len(ordered[h])
  BY DEF Beyond, ManagerInv, TypeOK, Control, DistinctUpTo
<1>1. CASE t # h
  <2>1. pc'[h] = pc[h] /\ pos'[h] = pos[h] /\ ordered'[h] = ordered[h]
    BY <1>0, <1>1 DEF TypeOK, Step, Begin, Acquire, Refuse, CleanupOne, ThrowRetry,
         BeginUpdate, SetReference, BeginRelease, ReleaseOne, ThrowIndex, Return, Retry,
         Goto, Restart, Advance
  <2>2. QED
    BY <2>1 DEF Beyond, Underway, Acquired
<1>2. CASE t = h
  <2>1. /\ ordered' = ordered /\ Underway(h)'
        /\ Acquired(h)' \in Nat /\ Acquired(h) \in Nat
        /\ Acquired(h) <= Acquired(h)'
    <3>1. CASE Acquire(h)
      BY <1>0, <3>1 DEF Acquire, Advance, Acquired, Underway
    <3>2. CASE BeginUpdate(h)
      BY <1>0, <3>2 DEF BeginUpdate, AllLocked, Restart, Goto, Acquired, Underway
    <3>3. CASE SetReference(h) \/ BeginRelease(h) \/ ReleaseOne(h) \/ ThrowIndex(h) \/ Return(h)
      <4>1. /\ ordered' = ordered /\ pc[h] # "acquire"
            /\ pc'[h] \in {"update", "release", "returned", "broken"}
        BY <1>0, <3>3 DEF SetReference, BeginRelease, ReleaseOne, ThrowIndex, Return,
                          Goto, Restart, Advance
      <4>2. QED
        BY <1>0, <4>1 DEF Acquired, Underway
    <3>4. CASE Begin(h) \/ CleanupOne(h) \/ ThrowRetry(h) \/ Retry(h)
      BY <1>0, <3>4 DEF Begin, CleanupOne, ThrowRetry, Retry, Underway
    <3>5. QED
      BY <1>2, <3>1, <3>2, <3>3, <3>4 DEF Step
  <2>2. QED
    BY <2>1 DEF Beyond
<1>3. QED
  BY <1>1, <1>2

\* Who is refused lost to another transaction that is under way.
LEMMA RefusalIsLost ==
  ASSUME OrderInv, PositionsDiffer, Distinct, NEW u \in Txns, Refuse(u)
  PROVE  /\ Current(u) \in Locks
         /\ \E w \in Txns \ {u} : Beyond(w, Current(u))
<1> DEFINE l == Current(u)
<1>0. /\ pc[u] = "acquire" /\ pos[u] \in Nat /\ pos[u] + 1 \in 1..Len(ordered[u])
      /\ ordered[u] \in Seq(Locks) /\ l = ordered[u][pos[u] + 1] /\ l \in Locks
      /\ lock[l] = 1 /\ Sorted(ordered[u])
      /\ DistinctUpTo(ordered[u], Len(ordered[u]))
  <2>1. /\ pc[u] = "acquire" /\ pos[u] \in Nat /\ pos[u] + 1 \in 1..Len(ordered[u])
        /\ ordered[u] \in Seq(Locks)
    BY DEF Refuse, OrderInv, ManagerInv, TypeOK
  <2>2. l = ordered[u][pos[u] + 1] /\ l \in Locks
    BY <2>1 DEF Current
  <2>3. lock[l] = 1
    BY <2>2 DEF Refuse, Free, OrderInv, ManagerInv, TypeOK
  <2>4. Sorted(ordered[u]) /\ DistinctUpTo(ordered[u], Len(ordered[u]))
    BY <2>1, SortedDistinct DEF OrderInv, InOrder, Distinct
  <2>5. QED
    BY <2>1, <2>2, <2>3, <2>4
<1> HIDE DEF l
<1>1. PICK v \in Txns : l \in Held(v)
  BY <1>0 DEF OrderInv, ManagerInv, LockTableExact
<1>2. v # u
  <2>1. SUFFICES ASSUME l \in Among(ordered[u], 1, pos[u])
                 PROVE  FALSE
    BY <1>0, <1>1 DEF Held
  <2>2. PICK i \in 1..pos[u] : ordered[u][i] = l
    BY <2>1 DEF Among
  <2>3. i \in 1..Len(ordered[u]) /\ i # pos[u] + 1
    BY <1>0
  <2>4. QED
    BY <1>0, <2>2, <2>3 DEF DistinctUpTo
<1>3. CASE Underway(v)
  <2>1. l \in Among(ordered[v], 1, Acquired(v))
    BY <1>1, <1>3 DEF Held, Underway, Acquired
  <2>2. PICK i \in 1..Acquired(v) : ordered[v][i] = l
    BY <2>1 DEF Among
  <2>3. Position[l] <= Position[ordered[v][i]]
    BY <1>0, <2>2, ManagerAssumption
  <2>4. QED
    BY <1>0, <1>2, <1>3, <2>3 DEF Beyond, l
<1>4. CASE ~Underway(v)
  <2>1. pc[v] = "cleanup"
    <3>1. pc[v] \in Labels
      BY DEF OrderInv, ManagerInv, TypeOK
    <3>2. Held(v) # {}
      BY <1>1
    <3>3. QED
      BY <1>4, <3>1, <3>2 DEF Labels, Held, Underway
  <2>2. /\ ordered[v] \in Seq(Locks) /\ width[v] \in Nat /\ pos[v] \in Nat
        /\ width[v] < Len(ordered[v]) /\ Sorted(ordered[v])
    BY <2>1 DEF OrderInv, ManagerInv, TypeOK, InOrder, Lost
  <2>3. PICK i \in (pos[v] + 1)..width[v] : ordered[v][i] = l
    BY <1>1, <2>1 DEF Held, Among
  <2>4. RefusedAt(v) \in Locks /\ Position[l] <= Position[RefusedAt(v)]
    <3>1. i \in 1..Len(ordered[v]) /\ width[v] + 1 \in 1..Len(ordered[v]) /\ i < width[v] + 1
      BY <2>2
    <3>2. QED
      BY <2>2, <2>3, <3>1 DEF Sorted, RefusedAt
  <2>5. PICK h \in Txns : Beyond(h, RefusedAt(v))
    BY <2>1 DEF OrderInv, Beaten, Lost
  <2>6. h # u
    <3>1. SUFFICES ASSUME h = u
                   PROVE  FALSE
      OBVIOUS
    <3>2. PICK j \in 1..pos[u] : Position[RefusedAt(v)] <= Position[ordered[u][j]]
      BY <1>0, <2>5, <3>1 DEF Beyond, Acquired
    <3>3. j \in 1..Len(ordered[u]) /\ j < pos[u] + 1
      BY <1>0
    <3>4. Position[ordered[u][j]] <= Position[l] /\ ordered[u][j] \in Locks
      BY <1>0, <3>3 DEF Sorted
    <3>5. Position[ordered[u][j]] = Position[l]
      <4>1. /\ Position[ordered[u][j]] \in Nat /\ Position[l] \in Nat
            /\ Position[RefusedAt(v)] \in Nat
        BY <1>0, <2>4, <3>4, ManagerAssumption
      <4>2. QED
        BY <2>4, <3>2, <3>4, <4>1
    <3>6. ordered[u][j] = l
      BY <1>0, <3>4, <3>5 DEF PositionsDiffer
    <3>7. QED
      BY <1>0, <3>3, <3>6 DEF DistinctUpTo
  <2>7. Beyond(h, l)
    BY <1>0, <2>4, <2>5, BeyondEarlier DEF OrderInv
  <2>8. QED
    BY <1>0, <2>6, <2>7 DEF l
<1>5. QED
  BY <1>3, <1>4

\* A transaction sorts its list and is refused inside it.
LEMMA OrderKept ==
  ASSUME OrderInv, NEW t \in Txns, NEW u \in Txns, Step(u) \/ Retry(u)
  PROVE  InOrder(t)'
<1>0. /\ TypeOK /\ InOrder(t) /\ pc \in [Txns -> Labels] /\ width \in [Txns -> Nat]
      /\ ordered \in [Txns -> Seq(Locks)]
  BY DEF OrderInv, ManagerInv, TypeOK
<1>1. CASE t # u
  <2>1. pc'[t] = pc[t] /\ width'[t] = width[t] /\ ordered'[t] = ordered[t]
    BY <1>0, <1>1 DEF TypeOK, Step, Begin, Acquire, Refuse, CleanupOne, ThrowRetry,
         BeginUpdate, SetReference, BeginRelease, ReleaseOne, ThrowIndex, Return, Retry,
         Goto, Restart, Advance
  <2>2. QED
    BY <1>0, <2>1 DEF InOrder, Lost, Sorted
<1>2. CASE t = u /\ Begin(t)
  <2>1. PICK perm \in Bijection(1..Len(All(t)), 1..Len(All(t))) :
           LET q == [i \in 1..Len(All(t)) |-> All(t)[perm[i]]]
           IN  Sorted(q) /\ ordered' = [ordered EXCEPT ![t] = q]
    BY <1>2 DEF Begin, All
  <2> DEFINE q == [i \in 1..Len(All(t)) |-> All(t)[perm[i]]]
  <2>2. Sorted(q) /\ ordered'[t] = q
    BY <1>0, <2>1
  <2> HIDE DEF q
  <2>3. pc'[t] = "acquire"
    BY <1>0, <1>2 DEF Begin, Goto
  <2>4. QED
    BY <2>2, <2>3 DEF InOrder, Lost, Sorted
<1>3. CASE t = u /\ Refuse(t)
  <2>1. /\ pc[t] = "acquire" /\ pos[t] < Len(ordered[t]) /\ width'[t] = pos[t]
        /\ ordered' = ordered
    BY <1>0, <1>3 DEF Refuse, TakenBefore
  <2>2. QED
    BY <1>0, <2>1 DEF InOrder, Sorted
<1>4. CASE t = u /\ (BeginRelease(t) \/ Retry(t) \/ BeginUpdate(t) \/ ThrowIndex(t) \/ Return(t))
  <2>1. pc[t] # "idle" /\ ~Lost(t)' /\ ordered' = ordered
    BY <1>0, <1>4 DEF BeginRelease, Retry, BeginUpdate, ThrowIndex, Return, Goto, Lost
  <2>2. QED
    BY <1>0, <2>1 DEF InOrder, Sorted
<1>5. CASE t = u /\ (Acquire(t) \/ CleanupOne(t) \/ SetReference(t) \/ ReleaseOne(t) \/ ThrowRetry(t))
  <2>1. /\ pc[t] # "idle" /\ ordered' = ordered /\ width' = width
        /\ Lost(t)' = Lost(t)
    BY <1>0, <1>5 DEF Acquire, CleanupOne, SetReference, ReleaseOne, ThrowRetry, Goto, Lost
  <2>2. QED
    BY <1>0, <2>1 DEF InOrder, Sorted
<1>6. QED
  BY <1>1, <1>2, <1>3, <1>4, <1>5 DEF Step

\* When u takes a step, everybody who lost is still beaten by somebody: who lost
\* to u, which is refused now, has lost to the one that beat u.
LEMMA BeatenKept ==
  ASSUME OrderInv, PositionsDiffer, Distinct, NEW t \in Txns,
         NEW u \in Txns, Step(u) \/ Retry(u)
  PROVE  Beaten(t)'
<1> SUFFICES ASSUME Lost(t)'
             PROVE  \E h \in Txns : Beyond(h, RefusedAt(t))'
  BY DEF Beaten
<1>0. /\ ManagerInv /\ TypeOK /\ Beaten(t) /\ InOrder(t)
      /\ pc \in [Txns -> Labels] /\ width \in [Txns -> Nat]
      /\ ordered \in [Txns -> Seq(Locks)]
  BY DEF OrderInv, ManagerInv, TypeOK
<1>1. CASE t = u /\ Refuse(u)
  <2>1. PICK l \in Locks : Current(u) = l
    BY <1>1, RefusalIsLost
  <2>2. RefusedAt(t)' = l
    BY <1>0, <1>1, <2>1 DEF Refuse, TakenBefore, RefusedAt, Current
  <2>3. PICK w \in Txns \ {u} : Beyond(w, l)
    BY <1>1, <2>1, RefusalIsLost
  <2>4. Beyond(w, l)'
    BY <1>0, <2>3, BeyondStays
  <2>5. QED
    BY <2>2, <2>4 DEF Beyond
<1>2. CASE ~(t = u /\ Refuse(u))
  <2>1. Lost(t) /\ RefusedAt(t)' = RefusedAt(t)
    <3>1. CASE t # u
      BY <1>0, <3>1 DEF TypeOK, Lost, RefusedAt, Step, Begin, Acquire, Refuse, CleanupOne,
         ThrowRetry, BeginUpdate, SetReference, BeginRelease, ReleaseOne, ThrowIndex,
         Return, Retry, Goto, Restart, Advance
    <3>2. CASE t = u
      BY <1>0, <1>2, <3>2 DEF TypeOK, Lost, RefusedAt, Step, Begin, Acquire, CleanupOne,
         ThrowRetry, BeginUpdate, SetReference, BeginRelease, ReleaseOne, ThrowIndex,
         Return, Retry, Goto, Restart, Advance
    <3>3. QED
      BY <3>1, <3>2
  <2>2. PICK l \in Locks : RefusedAt(t) = l
    <3>1. width[t] + 1 \in 1..Len(ordered[t]) /\ ordered[t] \in Seq(Locks)
      BY <1>0, <2>1 DEF InOrder
    <3>2. QED
      BY <3>1 DEF RefusedAt
  <2>3. PICK h \in Txns : Beyond(h, l)
    BY <1>0, <2>1, <2>2 DEF Beaten
  <2>4. \E w \in Txns : Beyond(w, l) /\ ~(w = u /\ Refuse(u))
    <3>1. CASE ~(h = u /\ Refuse(u))
      BY <2>3, <3>1
    <3>2. CASE h = u /\ Refuse(u)
      <4>1. PICK w \in Txns \ {u} : Beyond(w, Current(u))
        BY <3>2, RefusalIsLost
      <4>2. /\ pc[u] = "acquire" /\ pos[u] \in Nat /\ pos[u] + 1 \in 1..Len(ordered[u])
            /\ ordered[u] \in Seq(Locks) /\ Current(u) = ordered[u][pos[u] + 1]
            /\ Sorted(ordered[u])
        BY <1>0, <3>2 DEF Refuse, TypeOK, OrderInv, InOrder, Current
      <4>3. PICK j \in 1..pos[u] : Position[l] <= Position[ordered[u][j]]
        BY <2>3, <3>2, <4>2 DEF Beyond, Acquired
      <4>4. /\ j \in 1..Len(ordered[u]) /\ j < pos[u] + 1
            /\ ordered[u][j] \in Locks /\ Current(u) \in Locks
        BY <4>2
      <4>5. Position[ordered[u][j]] <= Position[Current(u)]
        BY <4>2, <4>4 DEF Sorted
      <4>6. /\ Position[l] \in Nat /\ Position[ordered[u][j]] \in Nat
            /\ Position[Current(u)] \in Nat
        BY <4>4, ManagerAssumption
      <4>7. Position[l] <= Position[Current(u)]
        BY <4>3, <4>5, <4>6
      <4>8. Beyond(w, l)
        BY <1>0, <4>1, <4>4, <4>7, BeyondEarlier
      <4>9. QED
        BY <4>1, <4>8
    <3>3. QED
      BY <3>1, <3>2
  <2>5. PICK w \in Txns : Beyond(w, l) /\ ~(w = u /\ Refuse(u))
    BY <2>4
  <2>6. Beyond(w, l)'
    BY <1>0, <2>5, BeyondStays
  <2>7. QED
    BY <2>1, <2>2, <2>6 DEF Beyond
<1>3. QED
  BY <1>1, <1>2

LEMMA OrderStep ==
  ASSUME OrderInv, PositionsDiffer, [Next]_vars
  PROVE  OrderInv'
<1>1. ManagerInv'
  BY InvStep DEF OrderInv
<1>2. CASE UNCHANGED vars
  BY <1>1, <1>2 DEF vars, OrderInv, InOrder, Sorted, Lost, Beaten, Beyond, Underway,
                    Acquired, RefusedAt, Distinct, NamesOnce
<1>3. ASSUME NEW u \in Txns, Step(u) \/ Retry(u)
      PROVE  OrderInv'
  <2>1. Distinct' => Distinct
    <3>1. request' = request
      BY <1>3 DEF Step, Begin, Acquire, Refuse, CleanupOne, ThrowRetry, BeginUpdate,
         SetReference, BeginRelease, ReleaseOne, ThrowIndex, Return, Retry
    <3>2. QED
      BY <3>1 DEF Distinct, NamesOnce
  <2>2. \A t \in Txns : InOrder(t)'
    BY <1>3, OrderKept
  <2>3. Distinct => \A t \in Txns : Beaten(t)'
    BY <1>3, BeatenKept
  <2>4. QED
    BY <1>1, <2>1, <2>2, <2>3 DEF OrderInv
<1>4. QED
  BY <1>2, <1>3 DEF Next

\* Given different positions, transactions that name no lock twice never refuse
\* each other all: sorting the locks is what rules out that they do so for ever.
THEOREM OrderHasWinner ==
  ASSUME PositionsDiffer
  PROVE  Spec => []SomeoneWins
<1>1. Init => OrderInv
  BY InitInv DEF Init, OrderInv, InOrder, Lost, Beaten
<1>2. OrderInv /\ [Next]_vars => OrderInv'
  BY OrderStep
<1>3. OrderInv => SomeoneWins
  BY DEF OrderInv, Distinct, Beaten, Lost, Beyond, SomeoneWins
<1>4. QED
  BY <1>1, <1>2, <1>3, PTL DEF Spec
=============================================================================
