-------------------- MODULE BlockingQueueBinarySemaphore --------------------
(***************************************************************************)
(* BlockingQueueBinarySemaphore: the flag is an ArrayBlockingQueue with    *)
(* room for one element.  await catches the InterruptedException of take   *)
(* and sets retry, which nothing ever clears.                              *)
(***************************************************************************)
EXTENDS Naturals

CONSTANTS Waiters, Signallers,
          Interrupted   \* the threads that are interrupted at some time

InterruptedAssumption == Interrupted \subseteq Waiters

VARIABLES
  size,       \* elements in the queue
  waiting,    \* the threads in await
  retry       \* the local variable of each

vars == <<size, waiting, retry>>

Init ==
  /\ size = 0
  /\ waiting = {}
  /\ retry = [w \in Waiters |-> FALSE]

-----------------------------------------------------------------------------
\* offer drops the element when the queue is full.
SizeAfterOffer == IF size = 1 THEN size ELSE size + 1

Signal(s) ==
  /\ size' = SizeAfterOffer
  /\ UNCHANGED <<waiting, retry>>

RetryAtStart(w) == FALSE

Await(w) ==
  /\ w \notin waiting
  /\ waiting' = waiting \cup {w}
  /\ retry' = [retry EXCEPT ![w] = RetryAtStart(w)]
  /\ UNCHANGED size

\* while (retry)
Returns(w) == ~retry[w]

Take(w) ==
  /\ w \in waiting
  /\ size > 0
  /\ size' = size - 1
  /\ waiting' = IF Returns(w) THEN waiting \ {w} ELSE waiting
  /\ UNCHANGED retry

Interrupt(w) ==
  /\ w \in waiting
  /\ retry' = [retry EXCEPT ![w] = TRUE]
  /\ UNCHANGED <<size, waiting>>

Next ==
  \/ \E s \in Signallers : Signal(s)
  \/ \E w \in Waiters : Await(w) \/ Take(w)
  \/ \E w \in Interrupted : Interrupt(w)

Spec == Init /\ [][Next]_vars

\* An element in the queue is given to one of the threads in take.
Fairness == WF_vars(\E w \in Waiters : Take(w))

FairSpec == Spec /\ Fairness

-----------------------------------------------------------------------------
TypeOK ==
  /\ size \in {0, 1}
  /\ waiting \subseteq Waiters
  /\ retry \in [Waiters -> BOOLEAN]

Event == INSTANCE BinaryEvent WITH raised <- size = 1

\* The only thing that happens beside the steps of the event is that a
\* thread that was interrupted swallows it: it takes the element, and neither
\* it nor anyone else gets through.
SwallowedByInterrupted ==
  [][\/ Event!EventNext
     \/ \E w \in Interrupted :
           /\ retry[w]
           /\ size = 1 /\ size' = 0
           /\ waiting' = waiting]_<<size, waiting>>

\* Who was interrupted in await never returns.
NeverReturns ==
  \A w \in Waiters : (w \in waiting /\ retry[w]) ~> [](w \in waiting)
=============================================================================
