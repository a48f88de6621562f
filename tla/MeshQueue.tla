----------------------------- MODULE MeshQueue -----------------------------
(***************************************************************************)
(* ThreadLocalArrayBackedQueue as Emulate uses it: writers put into a ring *)
(* of slots, each reader takes at a position of its own, kept in a         *)
(* ThreadLocal.  put and take hold one lock; a stretch of take between     *)
(* getting it and giving it up (at its end, or in await) is one step.      *)
(* Messages are identified with the number of their put.                   *)
(***************************************************************************)
EXTENDS Naturals, Sequences

CONSTANTS Writers, Readers,
          Capacity,     \* items.length, 100 in the code
          NoPosition,   \* the ThreadLocal of a reader that has not called take
          MaxPuts       \* bound: calls of put

MeshAssumption ==
  /\ Capacity \in Nat /\ Capacity > 1
  /\ MaxPuts \in Nat
  /\ NoPosition \notin Nat

VARIABLES
  items, putptr, takeptr,
  local,      \* position of each reader
  readerPc,   \* "out", in "await", or "dead" of an ArrayIndexOutOfBounds
  puts,       \* history: calls of put
  taken       \* history: what each reader has taken

vars == <<items, putptr, takeptr, local, readerPc, puts, taken>>

Init ==
  /\ items = [i \in 0..(Capacity - 1) |-> 0]
  /\ putptr = 0
  /\ takeptr = 0
  /\ local = [r \in Readers |-> NoPosition]
  /\ readerPc = [r \in Readers |-> "out"]
  /\ puts = 0
  /\ taken = [r \in Readers |-> <<>>]

-----------------------------------------------------------------------------
(* Faulty variants of the helpers below; no action uses them. *)

TakeptrNext(old, next) == next

-----------------------------------------------------------------------------
(* put *)

NextPut(i) == IF i + 1 = Capacity THEN 0 ELSE i + 1

\* signalAll: whoever waits will test again.
SignalAll == [r \in Readers |-> IF readerPc[r] = "await" THEN "woken" ELSE readerPc[r]]

Put(w) ==
  /\ puts < MaxPuts
  /\ puts' = puts + 1
  /\ items' = [items EXCEPT ![putptr] = puts + 1]
  /\ putptr' = NextPut(putptr)
  /\ readerPc' = SignalAll
  /\ UNCHANGED <<takeptr, local, taken>>

-----------------------------------------------------------------------------
(* take *)

PositionOf(r) == IF local[r] = NoPosition THEN takeptr ELSE local[r]

Empty(position) == position = putptr

\* takeptr after a take that went from old to next.
TakeptrAfter(old, next) ==
  LET wrapped == IF next = Capacity THEN 0 ELSE takeptr
  IN  IF old = wrapped THEN next ELSE wrapped

ItemAt(position) == items[position]

Await(r) ==
  /\ local' = [local EXCEPT ![r] = PositionOf(r)]
  /\ readerPc' = [readerPc EXCEPT ![r] = "await"]
  /\ UNCHANGED <<takeptr, taken>>

TakeItem(r) ==
  LET position == PositionOf(r)
  IN  /\ taken' = [taken EXCEPT ![r] = Append(@, ItemAt(position))]
      /\ takeptr' = TakeptrAfter(position, position + 1)
      /\ local' = [local EXCEPT ![r] = position + 1]
      /\ readerPc' = [readerPc EXCEPT ![r] = "out"]

\* items[Capacity] throws; the task of the reader catches only interrupts.
Throw(r) ==
  /\ readerPc' = [readerPc EXCEPT ![r] = "dead"]
  /\ UNCHANGED <<takeptr, local, taken>>

Take(r) ==
  /\ readerPc[r] \in {"out", "woken"}
  /\ IF Empty(PositionOf(r)) THEN Await(r)
     ELSE IF PositionOf(r) \in DOMAIN items THEN TakeItem(r) ELSE Throw(r)
  /\ UNCHANGED <<items, putptr, puts>>

\* await has a timeout, after which the loop tests again.
Timeout(r) ==
  /\ readerPc[r] = "await"
  /\ readerPc' = [readerPc EXCEPT ![r] = "woken"]
  /\ UNCHANGED <<items, putptr, takeptr, local, puts, taken>>

Next ==
  \/ \E w \in Writers : Put(w)
  \/ \E r \in Readers : Take(r) \/ Timeout(r)

Spec == Init /\ [][Next]_vars

\* Readers take in an endless loop.
Fairness == \A r \in Readers : WF_vars(Take(r))

FairSpec == Spec /\ Fairness

-----------------------------------------------------------------------------
TypeOK ==
  /\ items \in [0..(Capacity - 1) -> 0..MaxPuts]
  /\ putptr \in 0..(Capacity - 1)
  /\ takeptr \in 0..(Capacity - 1)
  /\ local \in [Readers -> 0..Capacity \cup {NoPosition}]
  /\ readerPc \in [Readers -> {"out", "await", "woken", "dead"}]
  /\ puts \in 0..MaxPuts
  /\ \A r \in Readers : taken[r] \in Seq(1..MaxPuts)

\* However far the writers run ahead, a reader never sees an older message
\* after a newer one, nor one message twice, nor an empty slot.
NeverOlder ==
  \A r \in Readers : \A i, j \in 1..Len(taken[r]) :
     i < j => taken[r][i] < taken[r][j]

\* The ring is not one for readers: each reads every slot at most once, and
\* dies at the end of it if anything has been put since.
OneRound == \A r \in Readers : Len(taken[r]) <= Capacity

Network == INSTANCE Broadcast
             WITH sent <- puts, received <- local,
                  NotStarted <- NoPosition

\* As long as fewer messages are put than there are slots, the queue is the
\* broadcast Emulate takes it for ...
BroadcastImplemented == Network!BroadcastSpec

\* ... what is read is what the broadcast delivers ...
ReadsWhatWasSent ==
  \A r \in Readers :
     taken[r] # <<>> => /\ taken[r][Len(taken[r])] = local[r]
                        /\ \A i \in 2..Len(taken[r]) : taken[r][i] = taken[r][i - 1] + 1

\* ... and once nothing more is put, every reader gets to the last message.
AllDelivered == []<>(\A r \in Readers : local[r] = puts)
=============================================================================
