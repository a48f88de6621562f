----------------------------- MODULE MCSemaphores -----------------------------
(***************************************************************************)
(* The implementations of a semaphore side by side.  An application uses   *)
(* one of them: `used' names it and never changes, and the others rest.    *)
(***************************************************************************)
EXTENDS BinarySemaphore

CONSTANTS
  Interrupted,    \* the waiters that are interrupted at some time
  MaxSignals,     \* bound: calls of SimpleBinarySemaphore.signal by one thread
  MaxLockSignals, \* bound: calls of LockBinarySemaphore.signal
  MaxSpurious     \* bound: its waits that end for no reason

VARIABLES
  used,
  simpleFired, simplePermits, simplePc, simpleDone, simpleSignals,
  monitorLock, monitorPc, monitorSignalPc,
  queueSize, queueWaiting, queueRetry,
  condition, lockPc, lockRetry, lockSignals, spurious, passes

Simple == INSTANCE SimpleBinarySemaphore
            WITH fired <- simpleFired, permits <- simplePermits,
                 waiterPc <- simplePc, done <- simpleDone, signals <- simpleSignals

Monitor == INSTANCE MonitorBinarySemaphore
             WITH lock <- monitorLock, waiterPc <- monitorPc, signalPc <- monitorSignalPc

Queue == INSTANCE BlockingQueueBinarySemaphore
           WITH size <- queueSize, waiting <- queueWaiting, retry <- queueRetry

Lock == INSTANCE LockBinarySemaphore
          WITH MaxSignals <- MaxLockSignals, waiterPc <- lockPc,
               retry <- lockRetry, signals <- lockSignals

ASSUME SemaphoresAssumption ==
  Simple!SimpleAssumption /\ Queue!InterruptedAssumption /\ Lock!LockAssumption

simpleVars == <<simpleFired, simplePermits, simplePc, simpleDone, simpleSignals>>
monitorVars == <<monitorLock, monitorPc, monitorSignalPc>>
queueVars == <<queueSize, queueWaiting, queueRetry>>
lockVars == <<condition, lockPc, lockRetry, lockSignals, spurious, passes>>
allVars == <<used, vars, simpleVars, monitorVars, queueVars, lockVars>>

AllInit ==
  /\ used \in {"park", "simple", "monitor", "queue", "lock"}
  /\ Init /\ Simple!Init /\ Monitor!Init /\ Queue!Init /\ Lock!Init

\* Only the one that is used moves.
Moves(kind) ==
  /\ used = kind
  /\ IF kind = "park" THEN Next ELSE UNCHANGED vars
  /\ IF kind = "simple" THEN Simple!Next ELSE UNCHANGED simpleVars
  /\ IF kind = "monitor" THEN Monitor!Next ELSE UNCHANGED monitorVars
  /\ IF kind = "queue" THEN Queue!Next ELSE UNCHANGED queueVars
  /\ IF kind = "lock" THEN Lock!Next ELSE UNCHANGED lockVars
  /\ UNCHANGED used

AllNext ==
  Moves("park") \/ Moves("simple") \/ Moves("monitor") \/ Moves("queue") \/ Moves("lock")

\* No step of one that rests is enabled: its fairness asks for nothing.
AllSpec ==
  /\ AllInit /\ [][AllNext]_allVars
  /\ Fairness /\ Simple!Fairness /\ Monitor!Fairness /\ Queue!Fairness /\ Lock!Fairness

-----------------------------------------------------------------------------
\* The type invariants of all of them.
TypesOK ==
  TypeOK /\ Simple!TypeOK /\ Monitor!TypeOK /\ Queue!TypeOK /\ Lock!TypeOK

\* The other two with a flag lose no wakeup, whichever threads wait, and the
\* one without a flag lets nobody through twice for one signal.
WakeupsKept ==
  Simple!NoLostWakeup /\ Monitor!NoLostWakeup /\ Lock!OneSignalOnePass

\* These two are the event their name promises, for any number of waiting
\* threads: each raised flag lets one through, and does so in the end.
EventsImplemented == Simple!ImplementedFairly /\ Monitor!ImplementedFairly

\* Who is served by the classes that may leave a thread waiting: one that waits
\* alone, and those that are signalled, in the order of their waiting.  One that
\* was interrupted in the two classes whose retry stays set never returns, and
\* all it does to the others is that it swallows signals.
Served ==
  /\ ServedWhenAlone /\ Lock!SignalledReturns /\ Lock!FirstComeFirstWoken
  /\ Queue!SwallowedByInterrupted /\ Queue!NeverReturns /\ Lock!NeverReturns
=============================================================================
