-------------------------- MODULE BinarySemaphore --------------------------
(***************************************************************************)
(* BinarySemaphore of the queue service: a flag, and LockSupport.unpark of *)
(* the one thread that announced itself in wait.  The caller of wait       *)
(* passes its own thread.                                                  *)
(***************************************************************************)
EXTENDS Naturals, Sequences

CONSTANTS Waiters, Signallers, NoThread

ASSUME SemaphoreAssumption == NoThread \notin Waiters

VARIABLES
  fired,        \* AtomicInteger
  workThread,   \* the thread that announced itself last
  permit,       \* LockSupport's permit of each thread
  waiterPc,     \* where each waiter is in wait
  done,         \* statements of signal each signaller has done
  target        \* the argument of unpark, read from workThread

vars == <<fired, workThread, permit, waiterPc, done, target>>

Init ==
  /\ fired = 0
  /\ workThread = NoThread
  /\ permit = [w \in Waiters |-> 0]
  /\ waiterPc = [w \in Waiters |-> "out"]
  /\ done = [s \in Signallers |-> 0]
  /\ target = [s \in Signallers |-> NoThread]

-----------------------------------------------------------------------------
(* Faulty variants of the helpers below; no action uses them. *)

ReadFirst == <<"read", "set", "unpark">>
FiredKept == fired

-----------------------------------------------------------------------------
(* signal *)

\* fired.set(1), then unpark, whose argument is evaluated first.
SignalOrder == <<"set", "read", "unpark">>
FiredBySignal == 1

AtStatement(s, statement) ==
  /\ SignalOrder[done[s] + 1] = statement
  /\ done' = [done EXCEPT ![s] = (@ + 1) % Len(SignalOrder)]

SetFired(s) ==
  /\ AtStatement(s, "set")
  /\ fired' = FiredBySignal
  /\ UNCHANGED <<workThread, permit, waiterPc, target>>

ReadWorkThread(s) ==
  /\ AtStatement(s, "read")
  /\ target' = [target EXCEPT ![s] = workThread]
  /\ UNCHANGED <<fired, workThread, permit, waiterPc>>

\* unpark(null) does nothing.
Unpark(s) ==
  /\ AtStatement(s, "unpark")
  /\ permit' = [w \in Waiters |-> IF w = target[s] THEN 1 ELSE permit[w]]
  /\ UNCHANGED <<fired, workThread, waiterPc, target>>

-----------------------------------------------------------------------------
(* wait *)

At(w, before, after) ==
  /\ waiterPc[w] = before
  /\ waiterPc' = [waiterPc EXCEPT ![w] = after]

Wait(w) ==
  /\ At(w, "out", "test")
  /\ workThread' = w
  /\ UNCHANGED <<fired, permit, done, target>>

\* compareAndSet(1, 0) succeeds and lowers the flag.
FiredTaken == 0

TakeFired(w) ==
  /\ At(w, "test", "out")
  /\ fired = 1
  /\ fired' = FiredTaken
  /\ UNCHANGED <<workThread, permit, done, target>>

MissFired(w) ==
  /\ At(w, "test", "park")
  /\ fired # 1
  /\ UNCHANGED <<fired, workThread, permit, done, target>>

\* park returns at once when it finds a permit, and uses it up.
Unparked(w) ==
  /\ At(w, "park", "test")
  /\ permit[w] = 1
  /\ permit' = [permit EXCEPT ![w] = 0]
  /\ UNCHANGED <<fired, workThread, done, target>>

\* park may return for no reason, or because the thread was interrupted.
ParkReturns(w) ==
  /\ At(w, "park", "test")
  /\ UNCHANGED <<fired, workThread, permit, done, target>>

-----------------------------------------------------------------------------
SignalStep(s) == SetFired(s) \/ ReadWorkThread(s) \/ Unpark(s)
WaitStep(w) == TakeFired(w) \/ MissFired(w) \/ Unparked(w)

Next ==
  \/ \E s \in Signallers : SignalStep(s)
  \/ \E w \in Waiters : Wait(w) \/ WaitStep(w) \/ ParkReturns(w)

Spec == Init /\ [][Next]_vars

\* A call of signal that has begun goes on, and a thread in wait runs when it
\* can; nobody has to call either, and park need not return by itself.
Fairness ==
  /\ \A s \in Signallers : WF_vars(done[s] # 0 /\ SignalStep(s))
  /\ \A w \in Waiters : WF_vars(WaitStep(w))

FairSpec == Spec /\ Fairness

-----------------------------------------------------------------------------
TypeOK ==
  /\ fired \in {0, 1}
  /\ workThread \in Waiters \cup {NoThread}
  /\ permit \in [Waiters -> {0, 1}]
  /\ waiterPc \in [Waiters -> {"out", "test", "park"}]
  /\ done \in [Signallers -> 0..2]
  /\ target \in [Signallers -> Waiters \cup {NoThread}]

\* A call of signal will still unpark w.
WillUnpark(s, w) == done[s] = 1 \/ (done[s] = 2 /\ target[s] = w)

\* No lost wakeup: the thread that announced itself last is not left parked
\* with the flag raised; it has a permit, or a call of signal is under way that
\* will give it one.
NoLostWakeup ==
  \A w \in Waiters :
     (workThread = w /\ waiterPc[w] = "park" /\ fired = 1) =>
        permit[w] = 1 \/ \E s \in Signallers : WillUnpark(s, w)

\* However many threads wait, a signal lets one of them through, and none gets
\* through without.
Event == INSTANCE BinaryEvent
           WITH raised <- fired = 1,
                waiting <- {w \in Waiters : waiterPc[w] # "out"}
Implemented == Event!EventSpec

\* A thread that never waits beside another gets through in the end when it
\* finds the flag raised.  (One that does may have been replaced in workThread.)
ServedWhenAlone ==
  \A w \in Waiters :
     [](\A v \in Waiters \ {w} : waiterPc[v] = "out") =>
        ((fired = 1 /\ waiterPc[w] # "out") ~> (fired = 0 \/ waiterPc[w] = "out"))
=============================================================================
