------------------------ MODULE LockBinarySemaphore ------------------------
(***************************************************************************)
(* LockBinarySemaphore: a condition of a ReentrantLock, and no flag.  All  *)
(* state is accessed under the lock; a stretch between taking it and       *)
(* giving it up (by unlock, or by await on the condition) is one step.     *)
(***************************************************************************)
EXTENDS Naturals, Sequences, SequencesExt, Functions

CONSTANTS Waiters, Signallers,
          MaxSignals,   \* bound: calls of signal
          MaxSpurious   \* bound: waits that end for no reason

LockAssumption == MaxSignals \in Nat /\ MaxSpurious \in Nat

VARIABLES
  condition,  \* the threads waiting on the condition, the longest first
  waiterPc,   \* "out", waiting, "woken" by a signal, or "caught" an interrupt
  retry,      \* the local variable of each thread in await
  signals,    \* calls of signal
  spurious,   \* waits that ended for no reason
  passes      \* calls of await that returned

vars == <<condition, waiterPc, retry, signals, spurious, passes>>

Init ==
  /\ condition = <<>>
  /\ waiterPc = [w \in Waiters |-> "out"]
  /\ retry = [w \in Waiters |-> FALSE]
  /\ signals = 0
  /\ spurious = 0
  /\ passes = 0

-----------------------------------------------------------------------------
(* Faulty variants of the helpers below; no action uses them. *)

SignalTheLast == Len(condition)
LeftInQueue(w) == condition

-----------------------------------------------------------------------------
\* The queue of the condition without one of its threads.
Without(w) == RemoveAt(condition, CHOOSE i \in DOMAIN condition : condition[i] = w)

\* condition.signal() wakes the thread that has waited longest.
Signalled == 1

Signal(s) ==
  /\ signals < MaxSignals
  /\ signals' = signals + 1
  /\ \/ condition = <<>> /\ UNCHANGED <<condition, waiterPc>>
     \/ /\ condition # <<>>
        /\ LET w == condition[Signalled]
           IN  /\ condition' = Without(w)
               /\ waiterPc' = [waiterPc EXCEPT ![w] = "woken"]
  /\ UNCHANGED <<retry, spurious, passes>>

RetryAtStart(w) == FALSE

Await(w) ==
  /\ waiterPc[w] = "out"
  /\ condition' = Append(condition, w)
  /\ waiterPc' = [waiterPc EXCEPT ![w] = "waiting"]
  /\ retry' = [retry EXCEPT ![w] = RetryAtStart(w)]
  /\ UNCHANGED <<signals, spurious, passes>>

\* A wait that ends without a signal leaves the queue of the condition.
WakesForNothing(w) ==
  /\ waiterPc[w] = "waiting"
  /\ spurious < MaxSpurious
  /\ spurious' = spurious + 1
  /\ condition' = Without(w)
  /\ waiterPc' = [waiterPc EXCEPT ![w] = "woken"]
  /\ UNCHANGED <<retry, signals, passes>>

Interrupt(w) ==
  /\ waiterPc[w] = "waiting"
  /\ condition' = Without(w)
  /\ waiterPc' = [waiterPc EXCEPT ![w] = "caught"]
  /\ UNCHANGED <<retry, signals, spurious, passes>>

WaitAgain(w) ==
  /\ condition' = Append(condition, w)
  /\ waiterPc' = [waiterPc EXCEPT ![w] = "waiting"]
  /\ UNCHANGED passes

Return(w) ==
  /\ waiterPc' = [waiterPc EXCEPT ![w] = "out"]
  /\ passes' = passes + 1
  /\ UNCHANGED condition

\* The catch clause sets retry, and the loop goes on.
CaughtInterrupt(w) ==
  /\ waiterPc[w] = "caught"
  /\ retry' = [retry EXCEPT ![w] = TRUE]
  /\ WaitAgain(w)
  /\ UNCHANGED <<signals, spurious>>

Leaves(w) == ~retry[w]

Wake(w) ==
  /\ waiterPc[w] = "woken"
  /\ IF Leaves(w) THEN Return(w) ELSE WaitAgain(w)
  /\ UNCHANGED <<retry, signals, spurious>>

Next ==
  \/ \E s \in Signallers : Signal(s)
  \/ \E w \in Waiters :
        \/ Await(w) \/ Wake(w) \/ CaughtInterrupt(w)
        \/ WakesForNothing(w) \/ Interrupt(w)

Spec == Init /\ [][Next]_vars

\* Whoever has been woken gets the lock.
Fairness == \A w \in Waiters : WF_vars(Wake(w) \/ CaughtInterrupt(w))

FairSpec == Spec /\ Fairness

-----------------------------------------------------------------------------
TypeOK ==
  /\ IsInjective(condition)
  /\ ToSet(condition) = {w \in Waiters : waiterPc[w] = "waiting"}
  /\ waiterPc \in [Waiters -> {"out", "waiting", "woken", "caught"}]
  /\ retry \in [Waiters -> BOOLEAN]
  /\ signals \in 0..MaxSignals
  /\ spurious \in 0..MaxSpurious
  /\ passes \in Nat

\* The lock replaces the flag only this far: a call of await returns for a
\* signal of its own, or for no reason; never two for one signal.
OneSignalOnePass == passes <= signals + spurious

\* Signals go to the threads in the order of their waiting, and one that was
\* not interrupted returns after its signal.
SignalledReturns ==
  \A w \in Waiters : (waiterPc[w] = "woken" /\ ~retry[w]) ~> (waiterPc[w] = "out")

\* Nobody is overtaken: only the thread that has waited longest is signalled.
FirstComeFirstWoken ==
  [][signals' # signals =>
        \A w \in Waiters : (waiterPc[w] = "waiting" /\ waiterPc'[w] = "woken") =>
           condition = <<w>> \o condition']_vars

\* Who was interrupted in await never returns: every signal it gets is lost.
NeverReturns ==
  \A w \in Waiters : [](retry[w] /\ waiterPc[w] # "out" => [](waiterPc[w] # "out"))
=============================================================================
