----------------------- MODULE MonitorBinarySemaphore -----------------------
(***************************************************************************)
(* MonitorBinarySemaphore: a flag guarded by a monitor, Object.wait and    *)
(* notify.  All its state is read and written inside the monitor, so each  *)
(* stretch between entering it and leaving or waiting is one step.         *)
(***************************************************************************)
EXTENDS Naturals

CONSTANTS Waiters, Signallers

VARIABLES
  lock,       \* the flag
  waiterPc,   \* "out", about to "enter", in "wait", or "woken" and re-entering
  signalPc    \* "out" or about to "enter"

vars == <<lock, waiterPc, signalPc>>

Init ==
  /\ lock = 0
  /\ waiterPc = [w \in Waiters |-> "out"]
  /\ signalPc = [s \in Signallers |-> "out"]

InWait == {w \in Waiters : waiterPc[w] = "wait"}

-----------------------------------------------------------------------------
(* Faulty variants of the helpers below; no action uses them. *)

IfInsteadOfWhile(w) == lock = 1 \/ waiterPc[w] = "woken"

-----------------------------------------------------------------------------
(* signal *)

CallSignal(s) ==
  /\ signalPc[s] = "out"
  /\ signalPc' = [signalPc EXCEPT ![s] = "enter"]
  /\ UNCHANGED <<lock, waiterPc>>

LockBySignal == 1

\* The threads notify chooses from.
Notifiable == InWait

Signal(s) ==
  /\ signalPc[s] = "enter"
  /\ lock' = LockBySignal
  /\ \/ Notifiable = {} /\ UNCHANGED waiterPc
     \/ \E w \in Notifiable : waiterPc' = [waiterPc EXCEPT ![w] = "woken"]
  /\ signalPc' = [signalPc EXCEPT ![s] = "out"]

-----------------------------------------------------------------------------
(* await *)

CallAwait(w) ==
  /\ waiterPc[w] = "out"
  /\ waiterPc' = [waiterPc EXCEPT ![w] = "enter"]
  /\ UNCHANGED <<lock, signalPc>>

\* The loop is left when the flag is raised.
LeavesLoop(w) == lock = 1

\* A thread that enters the monitor, or enters it again, tests the flag.
Test(w) ==
  /\ waiterPc[w] \in {"enter", "woken"}
  /\ IF LeavesLoop(w)
     THEN /\ lock' = 0
          /\ waiterPc' = [waiterPc EXCEPT ![w] = "out"]
     ELSE /\ waiterPc' = [waiterPc EXCEPT ![w] = "wait"]
          /\ UNCHANGED lock
  /\ UNCHANGED signalPc

\* wait ends for no reason, or because the thread is interrupted.
WaitReturns(w) ==
  /\ waiterPc[w] = "wait"
  /\ waiterPc' = [waiterPc EXCEPT ![w] = "woken"]
  /\ UNCHANGED <<lock, signalPc>>

-----------------------------------------------------------------------------
Next ==
  \/ \E s \in Signallers : CallSignal(s) \/ Signal(s)
  \/ \E w \in Waiters : CallAwait(w) \/ Test(w) \/ WaitReturns(w)

Spec == Init /\ [][Next]_vars

\* Whoever asks for the monitor gets it; nobody has to call, and wait need not
\* return by itself.
Fairness ==
  /\ \A s \in Signallers : WF_vars(Signal(s))
  /\ \A w \in Waiters : WF_vars(Test(w))

FairSpec == Spec /\ Fairness

-----------------------------------------------------------------------------
TypeOK ==
  /\ lock \in {0, 1}
  /\ waiterPc \in [Waiters -> {"out", "enter", "wait", "woken"}]
  /\ signalPc \in [Signallers -> {"out", "enter"}]

\* No lost wakeup: while the flag is raised and some thread waits, another has
\* been notified or is about to test the flag, and will lower it.
NoLostWakeup ==
  (lock = 1 /\ InWait # {}) =>
     \E w \in Waiters : waiterPc[w] \in {"enter", "woken"}

\* A signal lets exactly one waiter through, and in the end it does, whatever
\* thread notify chose and whoever entered the monitor before it.
Event == INSTANCE BinaryEvent
           WITH raised <- lock = 1,
                waiting <- {w \in Waiters : waiterPc[w] # "out"}
ImplementedFairly == Event!FairEventSpec
=============================================================================
