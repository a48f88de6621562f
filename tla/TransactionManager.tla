------------------------- MODULE TransactionManager -------------------------
(***************************************************************************)
(* ConcurrentTransactionManager.commit, called by several threads over     *)
(* shared Lockables: it sorts the locks it was given, tries to set each    *)
(* with a compare-and-set, gives up at the first that is taken (clearing   *)
(* the ones it set, and throwing "locked -> retry"), otherwise updates the *)
(* references it was given and clears locks.                               *)
(*                                                                         *)
(* Each transaction is one thread with the lists of one request; a refused *)
(* one may be retried with the same lists, as the exception says.          *)
(***************************************************************************)
EXTENDS Naturals, Sequences, Functions

CONSTANTS Txns,         \* threads that commit
          Locks,        \* Lockables
          Position,     \* getPosition() of each, which compareTo compares
          NoTxn,        \* the setter of a reference nobody has set
          Requests,     \* the lists commit may be called with
          MaxAttempts   \* bound: calls of commit for one transaction

ASSUME ManagerAssumption ==
  /\ Position \in [Locks -> Nat]
  /\ Requests \subseteq [readLocks : Seq(Locks), writeLocks : Seq(Locks)]
  /\ MaxAttempts \in Nat
  /\ NoTxn \notin Txns

VARIABLES
  lock,      \* getLock() of each Lockable, 0 or 1
  request,   \* the lists of each transaction
  ordered,   \* orderedList
  pc,        \* where each transaction is in commit
  pos,       \* index of the loop it is in, entries already handled
  width,     \* cleanup's width
  attempts,  \* calls of commit
  value      \* the references: which transaction set the one guarded by a lock

vars == <<lock, request, ordered, pc, pos, width, attempts, value>>

\* What GraphDelete.delete passes: the nodes its neighbour references hold, all
\* of them as read locks; the references to update are those that equal the
\* GraphDelete object itself, which none does.
DeleteRequest(neighbours) == [readLocks |-> neighbours, writeLocks |-> <<>>]

\* The references a transaction sets are those its write locks guard.
ListToUpdate(t) == request[t].writeLocks

Init ==
  /\ lock = [l \in Locks |-> 0]
  /\ request \in [Txns -> Requests]
  /\ ordered = [t \in Txns |-> <<>>]
  /\ pc = [t \in Txns |-> "idle"]
  /\ pos = [t \in Txns |-> 0]
  /\ width = [t \in Txns |-> 0]
  /\ attempts = [t \in Txns |-> 0]
  /\ value = [l \in Locks |-> NoTxn]

Goto(t, label) == pc' = [pc EXCEPT ![t] = label]
Restart(t) == pos' = [pos EXCEPT ![t] = 0]
Advance(t) == pos' = [pos EXCEPT ![t] = @ + 1]

-----------------------------------------------------------------------------
(* Faulty variants of the helpers below; no action uses them. *)

Unsorted(q) == TRUE
AlwaysFree(l) == TRUE
OneTooMany(t) == pos[t] + 1
OneTooFew(t) == pos[t] - 1

-----------------------------------------------------------------------------
\* Ascending positions, as Comparator.naturalOrder() leaves them; entries of
\* equal positions stay in the order of the lists.
Sorted(q) ==
  \A i, j \in 1..Len(q) : i < j => Position[q[i]] <= Position[q[j]]

Stable(q, perm) ==
  \A i, j \in 1..Len(q) :
     i < j /\ Position[q[i]] = Position[q[j]] => perm[i] < perm[j]

\* The read locks and then the write locks, sorted; nothing is filtered.
Begin(t) ==
  /\ pc[t] = "idle"
  /\ LET all == request[t].readLocks \o request[t].writeLocks
     IN  \E perm \in Bijection(1..Len(all), 1..Len(all)) :
            LET q == [i \in 1..Len(all) |-> all[perm[i]]]
            IN  /\ Sorted(q)
                /\ Stable(q, perm)
                /\ ordered' = [ordered EXCEPT ![t] = q]
  /\ attempts' = [attempts EXCEPT ![t] = @ + 1]
  /\ Restart(t)
  /\ Goto(t, "acquire")
  /\ UNCHANGED <<lock, request, width, value>>

\* The lock the acquiring loop is at, and whether compareAndSet(0, 1) succeeds.
Current(t) == ordered[t][pos[t] + 1]
Free(l) == lock[l] = 0

Acquire(t) ==
  /\ pc[t] = "acquire"
  /\ pos[t] < Len(ordered[t])
  /\ Free(Current(t))
  /\ lock' = [lock EXCEPT ![Current(t)] = 1]
  /\ Advance(t)
  /\ UNCHANGED <<request, ordered, pc, width, attempts, value>>

\* cleanup(orderedList, i) clears the locks before the one that was taken.
TakenBefore(t) == pos[t]

Refuse(t) ==
  /\ pc[t] = "acquire"
  /\ pos[t] < Len(ordered[t])
  /\ ~Free(Current(t))
  /\ width' = [width EXCEPT ![t] = TakenBefore(t)]
  /\ Restart(t)
  /\ Goto(t, "cleanup")
  /\ UNCHANGED <<lock, request, ordered, attempts, value>>

CleanupOne(t) ==
  /\ pc[t] = "cleanup"
  /\ pos[t] < width[t]
  /\ lock' = [lock EXCEPT ![Current(t)] = 0]
  /\ Advance(t)
  /\ UNCHANGED <<request, ordered, pc, width, attempts, value>>

ThrowRetry(t) ==
  /\ pc[t] = "cleanup"
  /\ pos[t] = width[t]
  /\ Goto(t, "refused")
  /\ UNCHANGED <<lock, request, ordered, pos, width, attempts, value>>

AllLocked(t) == pos[t] = Len(ordered[t])

BeginUpdate(t) ==
  /\ pc[t] = "acquire"
  /\ AllLocked(t)
  /\ Restart(t)
  /\ Goto(t, "update")
  /\ UNCHANGED <<lock, request, ordered, width, attempts, value>>

UpdateWidth(t) == Len(ListToUpdate(t))

SetReference(t) ==
  /\ pc[t] = "update"
  /\ pos[t] < UpdateWidth(t)
  /\ value' = [value EXCEPT ![ListToUpdate(t)[pos[t] + 1]] = t]
  /\ Advance(t)
  /\ UNCHANGED <<lock, request, ordered, pc, width, attempts>>

\* cleanup(readLocks, writeLocks.size()): as many of the read locks are cleared
\* as there are write locks.
BeginRelease(t) ==
  /\ pc[t] = "update"
  /\ pos[t] = UpdateWidth(t)
  /\ width' = [width EXCEPT ![t] = Len(request[t].writeLocks)]
  /\ Restart(t)
  /\ Goto(t, "release")
  /\ UNCHANGED <<lock, request, ordered, attempts, value>>

ReleaseOne(t) ==
  /\ pc[t] = "release"
  /\ pos[t] < width[t]
  /\ pos[t] < Len(request[t].readLocks)
  /\ lock' = [lock EXCEPT ![request[t].readLocks[pos[t] + 1]] = 0]
  /\ Advance(t)
  /\ UNCHANGED <<request, ordered, pc, width, attempts, value>>

\* get(j) past the end of readLocks throws IndexOutOfBoundsException.
ThrowIndex(t) ==
  /\ pc[t] = "release"
  /\ pos[t] < width[t]
  /\ pos[t] = Len(request[t].readLocks)
  /\ Goto(t, "broken")
  /\ UNCHANGED <<lock, request, ordered, pos, width, attempts, value>>

Return(t) ==
  /\ pc[t] = "release"
  /\ pos[t] = width[t]
  /\ Goto(t, "returned")
  /\ UNCHANGED <<lock, request, ordered, pos, width, attempts, value>>

\* The caller does what the exception says.
Retry(t) ==
  /\ pc[t] = "refused"
  /\ attempts[t] < MaxAttempts
  /\ Goto(t, "idle")
  /\ UNCHANGED <<lock, request, ordered, pos, width, attempts, value>>

Step(t) ==
  \/ Begin(t) \/ Acquire(t) \/ Refuse(t) \/ CleanupOne(t) \/ ThrowRetry(t)
  \/ BeginUpdate(t) \/ SetReference(t)
  \/ BeginRelease(t) \/ ReleaseOne(t) \/ ThrowIndex(t) \/ Return(t)

Next == \E t \in Txns : Step(t) \/ Retry(t)

Spec == Init /\ [][Next]_vars

-----------------------------------------------------------------------------
Labels == {"idle", "acquire", "cleanup", "refused", "update", "release",
           "returned", "broken"}

TypeOK ==
  /\ lock \in [Locks -> {0, 1}]
  /\ request \in [Txns -> Requests]
  /\ ordered \in [Txns -> Seq(Locks)]
  /\ pc \in [Txns -> Labels]
  /\ pos \in [Txns -> Nat]
  /\ width \in [Txns -> Nat]
  /\ attempts \in [Txns -> Nat]
  /\ value \in [Locks -> Txns \cup {NoTxn}]

\* The locks among q[first], ..., q[last].
Among(q, first, last) == {q[i] : i \in first..last}

\* The locks a transaction has set and not cleared.
Held(t) ==
  CASE pc[t] = "acquire" -> Among(ordered[t], 1, pos[t])
    [] pc[t] = "cleanup" -> Among(ordered[t], pos[t] + 1, width[t])
    [] pc[t] = "update"  -> Among(ordered[t], 1, Len(ordered[t]))
    [] pc[t] \in {"release", "returned", "broken"} ->
         Among(ordered[t], 1, Len(ordered[t]))
            \ Among(request[t].readLocks, 1, pos[t])
    [] pc[t] \in {"idle", "refused"} -> {}

\* Between the last compareAndSet and the first set(0), a transaction has to
\* itself every lock it was given: no other one that updates was given any.
LocksOf(t) == Range(request[t].readLocks) \cup Range(request[t].writeLocks)

MutualExclusion ==
  \A t, u \in Txns :
     t # u /\ pc[t] = "update" /\ pc[u] = "update" =>
        LocksOf(t) \cap LocksOf(u) = {}

\* A lock that is set was set by exactly one transaction, and a lock that some
\* transaction counts on is set: no cleanup, of a refused or of a successful
\* commit, clears a lock that another transaction set in the meantime.
LockTableExact ==
  /\ \A l \in Locks : lock[l] = 1 <=> \E t \in Txns : l \in Held(t)
  /\ \A t, u \in Txns : t # u => Held(t) \cap Held(u) = {}

\* When a commit has made its updates, all of them are in place together: no
\* other transaction overwrote one while the others were being made.
UpdatesTogether ==
  \A t \in Txns :
     pc[t] = "release" /\ pos[t] = 0 =>
        \A l \in Range(ListToUpdate(t)) : value[l] = t

\* A request that names a lock twice refuses itself; the others do not.
NamesOnce(t) ==
  LET all == request[t].readLocks \o request[t].writeLocks
  IN  \A i, j \in 1..Len(all) : all[i] = all[j] => i = j

\* It goes through with its commit, or is still trying to, and was not refused.
Underway(t) == pc[t] \in {"acquire", "update", "release", "returned", "broken"}

\* The order of acquisition has a winner: when a transaction was refused, another
\* is under way that was not.  Those that name no lock twice never refuse each
\* other all, however often they retry.
SomeoneWins ==
  (\A t \in Txns : NamesOnce(t)) =>
     ((\E t \in Txns : pc[t] = "refused") => \E t \in Txns : Underway(t))

\* What the comment beside the sort says: duplicates are filtered, so commit is
\* never refused by a lock that it has set itself.
DuplicatesFiltered ==
  \A t \in Txns :
     pc[t] = "acquire" /\ pos[t] < Len(ordered[t]) =>
        Current(t) \notin Among(ordered[t], 1, pos[t])

\* What the exception says, "locked -> retry": when no commit is in progress, a
\* refused transaction finds every lock it needs free and its retry goes through.
RetryHelps ==
  (\A t \in Txns : pc[t] \in {"refused", "returned", "broken"}) =>
     \A t \in Txns : pc[t] = "refused" /\ NamesOnce(t) =>
        \A l \in LocksOf(t) : lock[l] = 0
=============================================================================
