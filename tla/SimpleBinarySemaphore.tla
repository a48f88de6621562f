----------------------- MODULE SimpleBinarySemaphore -----------------------
(***************************************************************************)
(* SimpleBinarySemaphore: a flag, and a counting Semaphore that await      *)
(* blocks on.  signal always releases a permit, await takes one only when  *)
(* it finds the flag lowered, so permits of earlier signals pile up.       *)
(***************************************************************************)
EXTENDS Naturals, Sequences

CONSTANTS Waiters, Signallers,
          MaxSignals    \* bound: calls of signal by one thread

SimpleAssumption == MaxSignals \in Nat

VARIABLES
  fired,      \* AtomicInteger
  permits,    \* of the Semaphore
  waiterPc,   \* where each waiter is in await
  done,       \* statements of signal each signaller has done
  signals     \* calls of signal each signaller has begun

vars == <<fired, permits, waiterPc, done, signals>>

Init ==
  /\ fired = 0
  /\ permits = 0
  /\ waiterPc = [w \in Waiters |-> "out"]
  /\ done = [s \in Signallers |-> 0]
  /\ signals = [s \in Signallers |-> 0]

-----------------------------------------------------------------------------
(* Faulty variants of the helpers below; no action uses them. *)

ReleaseFirst == <<"release", "set">>

-----------------------------------------------------------------------------
(* signal *)

SignalOrder == <<"set", "release">>
FiredBySignal == 1

AtStatement(s, statement) ==
  /\ SignalOrder[done[s] + 1] = statement
  /\ done[s] = 0 => signals[s] < MaxSignals
  /\ done' = [done EXCEPT ![s] = (@ + 1) % Len(SignalOrder)]
  /\ signals' = [signals EXCEPT ![s] = IF done[s] = 0 THEN @ + 1 ELSE @]

SetFired(s) ==
  /\ AtStatement(s, "set")
  /\ fired' = FiredBySignal
  /\ UNCHANGED <<permits, waiterPc>>

Release(s) ==
  /\ AtStatement(s, "release")
  /\ permits' = permits + 1
  /\ UNCHANGED <<fired, waiterPc>>

-----------------------------------------------------------------------------
(* await *)

At(w, before, after) ==
  /\ waiterPc[w] = before
  /\ waiterPc' = [waiterPc EXCEPT ![w] = after]

Await(w) ==
  /\ At(w, "out", "test")
  /\ UNCHANGED <<fired, permits, done, signals>>

TakeFired(w) ==
  /\ At(w, "test", "out")
  /\ fired = 1
  /\ fired' = 0
  /\ UNCHANGED <<permits, done, signals>>

MissFired(w) ==
  /\ At(w, "test", "acquire")
  /\ fired # 1
  /\ UNCHANGED <<fired, permits, done, signals>>

\* A thread that got a permit tests the flag again.
AfterAcquire == "test"

Acquire(w) ==
  /\ At(w, "acquire", AfterAcquire)
  /\ permits > 0
  /\ permits' = permits - 1
  /\ UNCHANGED <<fired, done, signals>>

\* acquire throws InterruptedException, which is caught: "retry".
InterruptWait(w) ==
  /\ At(w, "acquire", "test")
  /\ UNCHANGED <<fired, permits, done, signals>>

-----------------------------------------------------------------------------
SignalStep(s) == SetFired(s) \/ Release(s)
AwaitStep(w) == TakeFired(w) \/ MissFired(w) \/ Acquire(w)

Next ==
  \/ \E s \in Signallers : SignalStep(s)
  \/ \E w \in Waiters : Await(w) \/ AwaitStep(w) \/ InterruptWait(w)

Spec == Init /\ [][Next]_vars

\* A call of signal that has begun goes on, a thread in await runs when it can,
\* and a permit is given to one of the threads that ask for it again and again.
Fairness ==
  /\ \A s \in Signallers : WF_vars(done[s] # 0 /\ SignalStep(s))
  /\ \A w \in Waiters : WF_vars(AwaitStep(w))

FairSpec == Spec /\ Fairness

-----------------------------------------------------------------------------
TypeOK ==
  /\ fired \in {0, 1}
  /\ permits \in Nat
  /\ waiterPc \in [Waiters -> {"out", "test", "acquire"}]
  /\ done \in [Signallers -> {0, 1}]
  /\ signals \in [Signallers -> 0..MaxSignals]

\* No lost wakeup, for any number of threads: while the flag is raised, the
\* threads blocked in acquire have a permit to wake one of them, or a signal
\* that will release one, or another thread is about to take the flag.
NoLostWakeup ==
  (fired = 1 /\ \E w \in Waiters : waiterPc[w] = "acquire") =>
     \/ permits > 0
     \/ \E s \in Signallers : done[s] = 1
     \/ \E w \in Waiters : waiterPc[w] = "test"

\* A signal lets exactly one waiter through, and in the end it does, however
\* many wait and whatever permits are left over from earlier signals.
Event == INSTANCE BinaryEvent
           WITH raised <- fired = 1,
                waiting <- {w \in Waiters : waiterPc[w] # "out"}
ImplementedFairly == Event!FairEventSpec
=============================================================================
