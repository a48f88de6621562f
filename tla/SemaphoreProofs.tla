-------------------------- MODULE SemaphoreProofs --------------------------
(***************************************************************************)
(* Proofs about the five semaphores, for any number of threads that wait   *)
(* and signal: their types, that no wakeup is lost, that nobody passes     *)
(* without a signal, and that the classes with a flag are the event their  *)
(* name promises.                                                          *)
(***************************************************************************)
EXTENDS MCSemaphores, FiniteSets, FiniteSetTheorems, TLAPS

-----------------------------------------------------------------------------
(* BinarySemaphore *)

SemaphoreInv == TypeOK /\ NoLostWakeup

\* What a step of signal does to its own position.
LEMMA StatementDone ==
  ASSUME TypeOK, NEW s \in Signallers, NEW statement, AtStatement(s, statement)
  PROVE  /\ statement = "set" => done[s] = 0 /\ done' = [done EXCEPT ![s] = 1]
         /\ statement = "read" => done[s] = 1 /\ done' = [done EXCEPT ![s] = 2]
         /\ statement = "unpark" => done[s] = 2 /\ done' = [done EXCEPT ![s] = 0]
         /\ done' \in [Signallers -> 0..2]
<1>1. done \in [Signallers -> 0..2] /\ done[s] \in {0, 1, 2}
  BY DEF TypeOK
<1>2. /\ <<"set", "read", "unpark">>[done[s] + 1] = statement
      /\ done' = [done EXCEPT ![s] = (done[s] + 1) % 3]
  BY DEF AtStatement, SignalOrder
<1>3. CASE done[s] = 0
  <2>1. statement = "set" /\ done' = [done EXCEPT ![s] = 1]
    BY <1>2, <1>3
  <2>2. QED
    BY <1>1, <1>3, <2>1
<1>4. CASE done[s] = 1
  <2>1. statement = "read" /\ done' = [done EXCEPT ![s] = 2]
    BY <1>2, <1>4
  <2>2. QED
    BY <1>1, <1>4, <2>1
<1>5. CASE done[s] = 2
  <2>1. statement = "unpark" /\ done' = [done EXCEPT ![s] = 0]
    BY <1>2, <1>5
  <2>2. QED
    BY <1>1, <1>5, <2>1
<1>6. QED
  BY <1>1, <1>3, <1>4, <1>5

LEMMA SemaphoreInit == Init => SemaphoreInv
BY DEF Init, SemaphoreInv, TypeOK, NoLostWakeup

LEMMA SignalKeeps ==
  ASSUME SemaphoreInv, NEW s \in Signallers, SignalStep(s)
  PROVE  SemaphoreInv'
<1>0. TypeOK /\ NoLostWakeup
  BY DEF SemaphoreInv
<1>1. CASE SetFired(s)
  <2>1. /\ done' = [done EXCEPT ![s] = 1] /\ done' \in [Signallers -> 0..2]
        /\ fired' = 1
        /\ UNCHANGED <<workThread, permit, waiterPc, target>>
    BY <1>0, <1>1, StatementDone DEF SetFired, FiredBySignal
  <2>2. TypeOK'
    BY <1>0, <2>1 DEF TypeOK
  <2>3. done'[s] = 1
    BY <1>0, <2>1 DEF TypeOK
  <2>4. NoLostWakeup'
    BY <2>3 DEF NoLostWakeup, WillUnpark
  <2>5. QED
    BY <2>2, <2>4 DEF SemaphoreInv
<1>2. CASE ReadWorkThread(s)
  <2>1. /\ done[s] = 1 /\ done' = [done EXCEPT ![s] = 2]
        /\ done' \in [Signallers -> 0..2]
        /\ target' = [target EXCEPT ![s] = workThread]
        /\ UNCHANGED <<fired, workThread, permit, waiterPc>>
    BY <1>0, <1>2, StatementDone DEF ReadWorkThread
  <2>2. TypeOK'
    BY <1>0, <2>1 DEF TypeOK
  <2>3. done'[s] = 2 /\ target'[s] = workThread
    BY <1>0, <2>1 DEF TypeOK
  <2>4. NoLostWakeup'
    BY <2>1, <2>3 DEF NoLostWakeup, WillUnpark
  <2>5. QED
    BY <2>2, <2>4 DEF SemaphoreInv
<1>3. CASE Unpark(s)
  <2>1. /\ done[s] = 2 /\ done' = [done EXCEPT ![s] = 0]
        /\ done' \in [Signallers -> 0..2]
        /\ permit' = [w \in Waiters |-> IF w = target[s] THEN 1 ELSE permit[w]]
        /\ UNCHANGED <<fired, workThread, waiterPc, target>>
    BY <1>0, <1>3, StatementDone DEF Unpark
  <2>2. TypeOK'
    BY <1>0, <2>1 DEF TypeOK
  <2>3. ASSUME NEW w \in Waiters, permit'[w] # 1, NEW r \in Signallers,
               WillUnpark(r, w)
        PROVE  WillUnpark(r, w)'
    <3>1. target[s] # w
      BY <2>1, <2>3
    <3>2. r # s
      BY <2>1, <2>3, <3>1 DEF WillUnpark
    <3>3. done'[r] = done[r] /\ target'[r] = target[r]
      BY <1>0, <2>1, <3>2 DEF TypeOK
    <3>4. QED
      BY <2>3, <3>3 DEF WillUnpark
  <2>4. \A w \in Waiters : permit[w] = 1 => permit'[w] = 1
    BY <2>1
  <2>5. NoLostWakeup'
    BY <1>0, <2>1, <2>3, <2>4 DEF NoLostWakeup
  <2>6. QED
    BY <2>2, <2>5 DEF SemaphoreInv
<1>4. QED
  BY <1>1, <1>2, <1>3 DEF SignalStep

LEMMA WaitKeeps ==
  ASSUME SemaphoreInv, NEW w \in Waiters, Wait(w) \/ WaitStep(w) \/ ParkReturns(w)
  PROVE  SemaphoreInv'
<1>0. TypeOK /\ NoLostWakeup
  BY DEF SemaphoreInv
<1>1. \A s \in Signallers, v \in Waiters : WillUnpark(s, v)' <=> WillUnpark(s, v)
  BY DEF WillUnpark, Wait, WaitStep, TakeFired, MissFired, Unparked, ParkReturns
<1>2. CASE Wait(w)
  <2>1. TypeOK'
    BY <1>0, <1>2 DEF TypeOK, Wait, At
  <2>2. workThread' = w /\ waiterPc'[w] = "test"
    BY <1>0, <1>2 DEF TypeOK, Wait, At
  <2>3. QED
    BY <2>1, <2>2 DEF SemaphoreInv, NoLostWakeup
<1>3. CASE TakeFired(w) \/ MissFired(w)
  <2>1. TypeOK'
    BY <1>0, <1>3 DEF TypeOK, TakeFired, MissFired, At, FiredTaken
  <2>2. fired' # 1
    BY <1>3 DEF TakeFired, MissFired, FiredTaken
  <2>3. QED
    BY <2>1, <2>2 DEF SemaphoreInv, NoLostWakeup
<1>4. CASE Unparked(w) \/ ParkReturns(w)
  <2>1. TypeOK'
    BY <1>0, <1>4 DEF TypeOK, Unparked, ParkReturns, At
  <2>2. /\ waiterPc'[w] = "test" /\ fired' = fired /\ workThread' = workThread
        /\ \A v \in Waiters \ {w} : waiterPc'[v] = waiterPc[v] /\ permit'[v] = permit[v]
    BY <1>0, <1>4 DEF TypeOK, Unparked, ParkReturns, At
  <2>3. NoLostWakeup'
    BY <1>0, <1>1, <2>2 DEF NoLostWakeup
  <2>4. QED
    BY <2>1, <2>3 DEF SemaphoreInv
<1>5. QED
  BY <1>2, <1>3, <1>4 DEF WaitStep

LEMMA SemaphoreInvariance == Spec => []SemaphoreInv
<1>1. ASSUME SemaphoreInv, UNCHANGED vars
      PROVE  SemaphoreInv'
  BY <1>1 DEF SemaphoreInv, TypeOK, NoLostWakeup, WillUnpark, vars
<1>2. SemaphoreInv /\ [Next]_vars => SemaphoreInv'
  BY <1>1, SignalKeeps, WaitKeeps DEF Next
<1>3. QED
  BY SemaphoreInit, <1>2, PTL DEF Spec

\* With any number of signals under way, the thread announced last is never
\* parked for good beside a raised flag.
THEOREM WakeupNotLost == Spec => []NoLostWakeup
<1>1. SemaphoreInv => NoLostWakeup
  BY DEF SemaphoreInv
<1>2. QED
  BY SemaphoreInvariance, <1>1, PTL

\* Signals coalesce and each pass lowers the flag, for any number of threads.
THEOREM Implementation == Spec => Implemented
<1>1. Init => Event!EventInit
  BY DEF Init, Event!EventInit
<1>2. ASSUME SemaphoreInv, [Next]_vars
      PROVE  [Event!EventNext]_(Event!eventVars)
  <2> USE DEF Event!EventNext, Event!eventVars
  <2>0. TypeOK
    BY <1>2 DEF SemaphoreInv
  <2>1. ASSUME NEW s \in Signallers, SignalStep(s)
        PROVE  Event!Signal \/ UNCHANGED Event!eventVars
    BY <2>1 DEF SignalStep, SetFired, ReadWorkThread, Unpark, FiredBySignal, Event!Signal
  <2>2. ASSUME NEW w \in Waiters, Wait(w)
        PROVE  Event!Enter(w)
    <3>1. /\ waiterPc[w] = "out" /\ fired' = fired
          /\ waiterPc'[w] = "test" /\ \A v \in Waiters \ {w} : waiterPc'[v] = waiterPc[v]
      BY <2>0, <2>2 DEF Wait, At, TypeOK
    <3>2. QED
      BY <3>1 DEF Event!Enter
  <2>3. ASSUME NEW w \in Waiters, TakeFired(w)
        PROVE  Event!Pass(w)
    <3>1. /\ waiterPc[w] = "test" /\ fired = 1 /\ fired' = 0
          /\ waiterPc'[w] = "out" /\ \A v \in Waiters \ {w} : waiterPc'[v] = waiterPc[v]
      BY <2>0, <2>3 DEF TakeFired, At, FiredTaken, TypeOK
    <3>2. QED
      BY <3>1 DEF Event!Pass
  <2>4. ASSUME NEW w \in Waiters, MissFired(w) \/ Unparked(w) \/ ParkReturns(w)
        PROVE  UNCHANGED Event!eventVars
    <3>1. /\ waiterPc[w] # "out" /\ waiterPc'[w] # "out" /\ fired' = fired
          /\ \A v \in Waiters \ {w} : waiterPc'[v] = waiterPc[v]
      BY <2>0, <2>4 DEF MissFired, Unparked, ParkReturns, At, TypeOK
    <3>2. QED
      BY <3>1
  <2>5. CASE UNCHANGED vars
    BY <2>5 DEF vars
  <2>6. QED
    BY <1>2, <2>1, <2>2, <2>3, <2>4, <2>5 DEF Next, WaitStep
<1>3. QED
  BY SemaphoreInvariance, <1>1, <1>2, PTL DEF Spec, Implemented, Event!EventSpec

-----------------------------------------------------------------------------
(* SimpleBinarySemaphore *)

SimpleInv == Simple!TypeOK /\ Simple!NoLostWakeup

\* What a step of signal does to its own position.
LEMMA SimpleStatement ==
  ASSUME Simple!TypeOK, NEW s \in Signallers, NEW statement,
         Simple!AtStatement(s, statement)
  PROVE  /\ statement = "set" => simpleDone' = [simpleDone EXCEPT ![s] = 1]
         /\ statement = "release" => simpleDone[s] = 1
         /\ simpleDone' \in [Signallers -> {0, 1}]
         /\ simpleSignals' \in [Signallers -> 0..MaxSignals]
<1>1. /\ simpleDone \in [Signallers -> {0, 1}] /\ simpleDone[s] \in {0, 1}
      /\ simpleSignals \in [Signallers -> 0..MaxSignals] /\ MaxSignals \in Nat
  BY SemaphoresAssumption DEF Simple!TypeOK, Simple!SimpleAssumption
<1>2. /\ <<"set", "release">>[simpleDone[s] + 1] = statement
      /\ simpleDone' = [simpleDone EXCEPT ![s] = (simpleDone[s] + 1) % 2]
      /\ simpleDone[s] = 0 => simpleSignals[s] < MaxSignals
      /\ simpleSignals' = [simpleSignals EXCEPT ![s] =
                             IF simpleDone[s] = 0 THEN simpleSignals[s] + 1
                                                  ELSE simpleSignals[s]]
  BY DEF Simple!AtStatement, Simple!SignalOrder
<1>3. CASE simpleDone[s] = 0
  <2>1. statement = "set" /\ simpleDone' = [simpleDone EXCEPT ![s] = 1]
    BY <1>2, <1>3
  <2>2. simpleSignals[s] + 1 \in 0..MaxSignals
    BY <1>1, <1>2, <1>3
  <2>3. QED
    BY <1>1, <1>2, <1>3, <2>1, <2>2
<1>4. CASE simpleDone[s] = 1
  <2>1. statement = "release" /\ simpleDone' = [simpleDone EXCEPT ![s] = 0]
    BY <1>2, <1>4
  <2>2. QED
    BY <1>1, <1>2, <1>4, <2>1
<1>5. QED
  BY <1>1, <1>3, <1>4

LEMMA SimpleInit == Simple!Init => SimpleInv
BY SemaphoresAssumption
   DEF Simple!Init, SimpleInv, Simple!TypeOK, Simple!NoLostWakeup, Simple!SimpleAssumption

LEMMA SimpleKeeps ==
  ASSUME SimpleInv, Simple!Next
  PROVE  SimpleInv'
<1>0. Simple!TypeOK /\ Simple!NoLostWakeup
  BY DEF SimpleInv
<1>1. ASSUME NEW s \in Signallers, Simple!SetFired(s)
      PROVE  SimpleInv'
  <2>1. /\ simpleDone' = [simpleDone EXCEPT ![s] = 1]
        /\ simpleDone' \in [Signallers -> {0, 1}]
        /\ simpleSignals' \in [Signallers -> 0..MaxSignals]
        /\ simpleFired' = 1 /\ UNCHANGED <<simplePermits, simplePc>>
    BY <1>0, <1>1, SimpleStatement DEF Simple!SetFired, Simple!FiredBySignal
  <2>2. Simple!TypeOK'
    BY <1>0, <2>1 DEF Simple!TypeOK
  <2>3. simpleDone'[s] = 1
    BY <1>0, <2>1 DEF Simple!TypeOK
  <2>4. QED
    BY <2>2, <2>3 DEF SimpleInv, Simple!NoLostWakeup
<1>2. ASSUME NEW s \in Signallers, Simple!Release(s)
      PROVE  SimpleInv'
  <2>1. /\ simpleDone' \in [Signallers -> {0, 1}]
        /\ simpleSignals' \in [Signallers -> 0..MaxSignals]
        /\ simplePermits' = simplePermits + 1 /\ UNCHANGED <<simpleFired, simplePc>>
    BY <1>0, <1>2, SimpleStatement DEF Simple!Release
  <2>2. Simple!TypeOK' /\ simplePermits' > 0
    BY <1>0, <2>1 DEF Simple!TypeOK
  <2>3. QED
    BY <2>2 DEF SimpleInv, Simple!NoLostWakeup
<1>3. ASSUME NEW w \in Waiters, Simple!Await(w) \/ Simple!Acquire(w) \/ Simple!InterruptWait(w)
      PROVE  SimpleInv'
  <2>1. Simple!TypeOK'
    BY <1>0, <1>3 DEF Simple!TypeOK, Simple!Await, Simple!Acquire, Simple!InterruptWait,
                      Simple!At, Simple!AfterAcquire
  <2>2. simplePc'[w] = "test"
    BY <1>0, <1>3 DEF Simple!TypeOK, Simple!Await, Simple!Acquire, Simple!InterruptWait,
                      Simple!At, Simple!AfterAcquire
  <2>3. QED
    BY <2>1, <2>2 DEF SimpleInv, Simple!NoLostWakeup
<1>4. ASSUME NEW w \in Waiters, Simple!TakeFired(w) \/ Simple!MissFired(w)
      PROVE  SimpleInv'
  <2>1. Simple!TypeOK' /\ simpleFired' # 1
    BY <1>0, <1>4 DEF Simple!TypeOK, Simple!TakeFired, Simple!MissFired, Simple!At
  <2>2. QED
    BY <2>1 DEF SimpleInv, Simple!NoLostWakeup
<1>5. QED
  BY <1>1, <1>2, <1>3, <1>4 DEF Simple!Next, Simple!SignalStep, Simple!AwaitStep

LEMMA SimpleInvariance == Simple!Spec => []SimpleInv
<1>1. ASSUME SimpleInv, UNCHANGED simpleVars
      PROVE  SimpleInv'
  BY <1>1 DEF SimpleInv, Simple!TypeOK, Simple!NoLostWakeup, simpleVars
<1>2. SimpleInv /\ [Simple!Next]_(Simple!vars) => SimpleInv'
  BY <1>1, SimpleKeeps DEF Simple!vars, simpleVars
<1>3. QED
  BY SimpleInit, <1>2, PTL DEF Simple!Spec

-----------------------------------------------------------------------------
(* MonitorBinarySemaphore *)

MonitorInv == Monitor!TypeOK /\ Monitor!NoLostWakeup

LEMMA MonitorInit == Monitor!Init => MonitorInv
BY DEF Monitor!Init, MonitorInv, Monitor!TypeOK, Monitor!NoLostWakeup

LEMMA MonitorKeeps ==
  ASSUME MonitorInv, Monitor!Next
  PROVE  MonitorInv'
<1>0. Monitor!TypeOK /\ Monitor!NoLostWakeup
  BY DEF MonitorInv
<1>1. ASSUME NEW s \in Signallers, Monitor!CallSignal(s)
      PROVE  MonitorInv'
  BY <1>0, <1>1 DEF MonitorInv, Monitor!TypeOK, Monitor!NoLostWakeup, Monitor!CallSignal,
                    Monitor!InWait
<1>2. ASSUME NEW s \in Signallers, Monitor!Signal(s)
      PROVE  MonitorInv'
  <2>1. Monitor!TypeOK'
    BY <1>0, <1>2 DEF Monitor!TypeOK, Monitor!Signal, Monitor!LockBySignal,
                      Monitor!Notifiable, Monitor!InWait
  <2>2. CASE Monitor!InWait = {} /\ UNCHANGED monitorPc
    BY <2>1, <2>2 DEF MonitorInv, Monitor!NoLostWakeup, Monitor!InWait
  <2>3. ASSUME NEW w \in Waiters, monitorPc' = [monitorPc EXCEPT ![w] = "woken"]
        PROVE  MonitorInv'
    <3>1. monitorPc'[w] = "woken"
      BY <1>0, <2>3 DEF Monitor!TypeOK
    <3>2. QED
      BY <2>1, <3>1 DEF MonitorInv, Monitor!NoLostWakeup
  <2>4. QED
    BY <1>2, <2>2, <2>3 DEF Monitor!Signal, Monitor!Notifiable, Monitor!InWait
<1>3. ASSUME NEW w \in Waiters, Monitor!CallAwait(w) \/ Monitor!WaitReturns(w)
      PROVE  MonitorInv'
  <2>1. Monitor!TypeOK' /\ monitorPc'[w] \in {"enter", "woken"}
    BY <1>0, <1>3 DEF Monitor!TypeOK, Monitor!CallAwait, Monitor!WaitReturns
  <2>2. QED
    BY <2>1 DEF MonitorInv, Monitor!NoLostWakeup
<1>4. ASSUME NEW w \in Waiters, Monitor!Test(w)
      PROVE  MonitorInv'
  <2>1. Monitor!TypeOK' /\ monitorLock' # 1
    BY <1>0, <1>4 DEF Monitor!TypeOK, Monitor!Test, Monitor!LeavesLoop
  <2>2. QED
    BY <2>1 DEF MonitorInv, Monitor!NoLostWakeup
<1>5. QED
  BY <1>1, <1>2, <1>3, <1>4 DEF Monitor!Next

LEMMA MonitorInvariance == Monitor!Spec => []MonitorInv
<1>1. ASSUME MonitorInv, UNCHANGED monitorVars
      PROVE  MonitorInv'
  BY <1>1 DEF MonitorInv, Monitor!TypeOK, Monitor!NoLostWakeup, Monitor!InWait, monitorVars
<1>2. MonitorInv /\ [Monitor!Next]_(Monitor!vars) => MonitorInv'
  BY <1>1, MonitorKeeps DEF Monitor!vars, monitorVars
<1>3. QED
  BY MonitorInit, <1>2, PTL DEF Monitor!Spec

-----------------------------------------------------------------------------
(* BlockingQueueBinarySemaphore *)

LEMMA QueueInvariance == Queue!Spec => []Queue!TypeOK
<1>1. Queue!Init => Queue!TypeOK
  BY DEF Queue!Init, Queue!TypeOK
<1>2. ASSUME Queue!TypeOK, [Queue!Next]_(Queue!vars)
      PROVE  Queue!TypeOK'
  <2>1. ASSUME NEW s \in Signallers, Queue!Signal(s)
        PROVE  Queue!TypeOK'
    BY <1>2, <2>1 DEF Queue!TypeOK, Queue!Signal, Queue!SizeAfterOffer
  <2>2. ASSUME NEW w \in Waiters, Queue!Await(w)
        PROVE  Queue!TypeOK'
    BY <1>2, <2>2 DEF Queue!TypeOK, Queue!Await, Queue!RetryAtStart
  <2>3. ASSUME NEW w \in Waiters, Queue!Take(w)
        PROVE  Queue!TypeOK'
    <3>1. queueSize = 1 /\ queueSize' = 0 /\ queueRetry' = queueRetry
      BY <1>2, <2>3 DEF Queue!TypeOK, Queue!Take
    <3>2. queueWaiting' \subseteq Waiters
      BY <1>2, <2>3 DEF Queue!TypeOK, Queue!Take
    <3>3. QED
      BY <1>2, <3>1, <3>2 DEF Queue!TypeOK
  <2>4. ASSUME NEW w \in Interrupted, Queue!Interrupt(w)
        PROVE  Queue!TypeOK'
    BY <1>2, <2>4 DEF Queue!TypeOK, Queue!Interrupt
  <2>5. CASE UNCHANGED queueVars
    BY <1>2, <2>5 DEF Queue!TypeOK, queueVars
  <2>6. QED
    BY <1>2, <2>1, <2>2, <2>3, <2>4, <2>5 DEF Queue!Next, Queue!vars, queueVars
<1>3. QED
  BY <1>1, <1>2, PTL DEF Queue!Spec

-----------------------------------------------------------------------------
(* LockBinarySemaphore *)

Woken == {w \in Waiters : lockPc[w] = "woken"}

\* A thread that was woken and has not gone on yet counts as a pass that a
\* signal, or a wait that ended for no reason, has paid for.
PassesPaid ==
  /\ IsFiniteSet(Woken)
  /\ passes + Cardinality(Woken) <= lockSignals + spurious

LockInv ==
  /\ condition \in Seq(Waiters)
  /\ Lock!TypeOK
  /\ PassesPaid

LEMMA ConcatPositions ==
  ASSUME NEW S, NEW s \in Seq(S), NEW t \in Seq(S)
  PROVE  /\ s \o t \in Seq(S) /\ Len(s \o t) = Len(s) + Len(t)
         /\ \A i \in 1..Len(s) : (s \o t)[i] = s[i]
         /\ \A i \in 1..Len(t) : (s \o t)[Len(s) + i] = t[i]
OBVIOUS

\* A sequence without its k-th element.
LEMMA WithoutOne ==
  ASSUME NEW q \in Seq(Waiters), NEW k \in 1..Len(q),
         NEW r, r = SubSeq(q, 1, k - 1) \o SubSeq(q, k + 1, Len(q))
  PROVE  /\ r \in Seq(Waiters) /\ Len(r) = Len(q) - 1
         /\ \A i \in 1..(k - 1) : r[i] = q[i]
         /\ \A i \in k..(Len(q) - 1) : r[i] = q[i + 1]
<1> DEFINE s == SubSeq(q, 1, k - 1)
           t == SubSeq(q, k + 1, Len(q))
<1>1. /\ s \in Seq(Waiters) /\ Len(s) = k - 1 /\ \A i \in 1..(k - 1) : s[i] = q[i]
  OBVIOUS
<1>2. /\ t \in Seq(Waiters) /\ Len(t) = Len(q) - k
      /\ \A i \in 1..(Len(q) - k) : t[i] = q[k + i]
  OBVIOUS
<1> HIDE DEF s, t
<1>3. /\ s \o t \in Seq(Waiters) /\ Len(s \o t) = Len(s) + Len(t)
      /\ \A i \in 1..Len(s) : (s \o t)[i] = s[i]
      /\ \A i \in 1..Len(t) : (s \o t)[Len(s) + i] = t[i]
  <2>1. s \in Seq(Waiters) /\ t \in Seq(Waiters)
    BY <1>1, <1>2
  <2>2. QED
    BY <2>1, ConcatPositions
<1>4. ASSUME NEW i \in k..(Len(q) - 1)
      PROVE  (s \o t)[i] = q[i + 1]
  <2>1. i - (k - 1) \in 1..(Len(q) - k) /\ (k - 1) + (i - (k - 1)) = i
        /\ k + (i - (k - 1)) = i + 1
    OBVIOUS
  <2>2. (s \o t)[(k - 1) + (i - (k - 1))] = t[i - (k - 1)]
    BY <1>1, <1>2, <1>3, <2>1
  <2>3. t[i - (k - 1)] = q[k + (i - (k - 1))]
    BY <1>2, <2>1
  <2>4. QED
    BY <2>1, <2>2, <2>3
<1>5. /\ s \o t \in Seq(Waiters) /\ Len(s \o t) = Len(q) - 1
      /\ \A i \in 1..(k - 1) : (s \o t)[i] = q[i]
  BY <1>1, <1>2, <1>3
<1>6. QED
  BY <1>4, <1>5 DEF s, t

\* What is left of the queue of the condition when a thread leaves it.
LEMMA LeavesQueue ==
  ASSUME LockInv, NEW w \in Waiters, lockPc[w] = "waiting",
         condition' = Lock!Without(w)
  PROVE  /\ condition' \in Seq(Waiters)
         /\ Lock!IsInjective(condition)'
         /\ Lock!ToSet(condition)' = Lock!ToSet(condition) \ {w}
         /\ condition[1] = w => condition = <<w>> \o condition'
<1> DEFINE k == CHOOSE i \in DOMAIN condition : condition[i] = w
<1>1. /\ condition \in Seq(Waiters) /\ DOMAIN condition = 1..Len(condition)
      /\ Len(condition) \in Nat
      /\ \A i, j \in 1..Len(condition) : condition[i] = condition[j] => i = j
      /\ w \in Lock!ToSet(condition)
  BY DEF LockInv, Lock!TypeOK, Lock!IsInjective
<1>2. k \in 1..Len(condition) /\ condition[k] = w
  BY <1>1 DEF Lock!ToSet
<1>3. condition' = SubSeq(condition, 1, k - 1) \o SubSeq(condition, k + 1, Len(condition))
  BY DEF Lock!Without, Lock!RemoveAt
<1> HIDE DEF k
<1>4. /\ condition' \in Seq(Waiters) /\ Len(condition') = Len(condition) - 1
      /\ \A i \in 1..(k - 1) : condition'[i] = condition[i]
      /\ \A i \in k..(Len(condition) - 1) : condition'[i] = condition[i + 1]
  <2> DEFINE r == SubSeq(condition, 1, k - 1) \o SubSeq(condition, k + 1, Len(condition))
  <2>1. /\ r \in Seq(Waiters) /\ Len(r) = Len(condition) - 1
        /\ \A i \in 1..(k - 1) : r[i] = condition[i]
        /\ \A i \in k..(Len(condition) - 1) : r[i] = condition[i + 1]
    <3> HIDE DEF r
    <3> DEFINE q == condition
    <3>1. q \in Seq(Waiters) /\ k \in 1..Len(q)
      BY <1>1, <1>2
    <3>2. r = SubSeq(q, 1, k - 1) \o SubSeq(q, k + 1, Len(q))
      BY DEF r
    <3> HIDE DEF q
    <3>3. /\ r \in Seq(Waiters) /\ Len(r) = Len(q) - 1
          /\ \A i \in 1..(k - 1) : r[i] = q[i]
          /\ \A i \in k..(Len(q) - 1) : r[i] = q[i + 1]
      BY <3>1, <3>2, WithoutOne
    <3>4. QED
      BY <3>3 DEF q
  <2> HIDE DEF r
  <2>2. condition' = r
    BY <1>3 DEF r
  <2>3. QED
    BY <2>1, <2>2
<1>5. \A i \in 1..Len(condition') :
         \E m \in 1..Len(condition) :
            /\ condition'[i] = condition[m] /\ m # k
            /\ m = IF i < k THEN i ELSE i + 1
  <2> SUFFICES ASSUME NEW i \in 1..Len(condition')
               PROVE  \E m \in 1..Len(condition) :
                         /\ condition'[i] = condition[m] /\ m # k
                         /\ m = IF i < k THEN i ELSE i + 1
    OBVIOUS
  <2>1. CASE i < k
    <3>1. i \in 1..(k - 1) /\ i \in 1..Len(condition) /\ i # k
      BY <1>1, <1>2, <1>4, <2>1
    <3>2. QED
      BY <1>4, <2>1, <3>1
  <2>2. CASE ~(i < k)
    <3>1. i \in k..(Len(condition) - 1) /\ i + 1 \in 1..Len(condition) /\ i + 1 # k
      BY <1>1, <1>2, <1>4, <2>2
    <3>2. QED
      BY <1>4, <2>2, <3>1
  <2>3. QED
    BY <2>1, <2>2
<1>6. \A i, j \in 1..Len(condition') : condition'[i] = condition'[j] => i = j
  <2> SUFFICES ASSUME NEW i \in 1..Len(condition'), NEW j \in 1..Len(condition'),
                      condition'[i] = condition'[j]
               PROVE  i = j
    OBVIOUS
  <2>1. PICK m \in 1..Len(condition) :
          condition'[i] = condition[m] /\ m # k /\ m = IF i < k THEN i ELSE i + 1
    BY <1>5
  <2>2. PICK n \in 1..Len(condition) :
          condition'[j] = condition[n] /\ n # k /\ n = IF j < k THEN j ELSE j + 1
    BY <1>5
  <2>3. m = n
    BY <1>1, <2>1, <2>2
  <2>4. i \in Nat /\ j \in Nat /\ k \in Nat
    BY <1>1, <1>2, <1>4
  <2>5. QED
    BY <2>1, <2>2, <2>3, <2>4
<1>7. Lock!IsInjective(condition)'
  BY <1>4, <1>6 DEF Lock!IsInjective
<1>8. ASSUME NEW v
      PROVE  v \in Lock!ToSet(condition)' <=> v \in Lock!ToSet(condition) /\ v # w
  <2>0. DOMAIN condition' = 1..Len(condition')
    BY <1>4
  <2>1. ASSUME v \in Lock!ToSet(condition)'
        PROVE  v \in Lock!ToSet(condition) /\ v # w
    <3>1. PICK i \in 1..Len(condition') : condition'[i] = v
      BY <2>0, <2>1 DEF Lock!ToSet
    <3>2. PICK m \in 1..Len(condition) : condition'[i] = condition[m] /\ m # k
      BY <1>5
    <3>3. QED
      BY <1>1, <1>2, <3>1, <3>2 DEF Lock!ToSet
  <2>2. ASSUME v \in Lock!ToSet(condition), v # w
        PROVE  v \in Lock!ToSet(condition)'
    <3>1. PICK m \in 1..Len(condition) : condition[m] = v
      BY <1>1, <2>2 DEF Lock!ToSet
    <3>2. m # k
      BY <1>2, <2>2, <3>1
    <3>3. CASE m < k
      <4>1. m \in 1..(k - 1) /\ m \in 1..Len(condition')
        BY <1>1, <1>2, <1>4, <3>3
      <4>2. QED
        BY <1>4, <2>0, <3>1, <4>1 DEF Lock!ToSet
    <3>4. CASE m > k
      <4>1. m - 1 \in k..(Len(condition) - 1) /\ m - 1 \in 1..Len(condition')
            /\ (m - 1) + 1 = m
        BY <1>1, <1>2, <1>4, <3>4
      <4>2. condition'[m - 1] = v
        BY <1>4, <3>1, <4>1
      <4>3. QED
        BY <2>0, <4>1, <4>2 DEF Lock!ToSet
    <3>5. QED
      BY <1>1, <1>2, <3>2, <3>3, <3>4
  <2>3. QED
    BY <2>1, <2>2
<1>9. ASSUME condition[1] = w
      PROVE  condition = <<w>> \o condition'
  <2>1. k = 1
    BY <1>1, <1>2, <1>9
  <2> DEFINE c == <<w>> \o condition'
  <2>2. /\ c \in Seq(Waiters) /\ Len(c) = Len(condition)
        /\ c[1] = w /\ \A i \in 1..Len(condition') : c[i + 1] = condition'[i]
    BY <1>4
  <2> HIDE DEF c
  <2>3. ASSUME NEW i \in 1..Len(condition)
        PROVE  c[i] = condition[i]
    <3>1. CASE i = 1
      BY <1>9, <2>2, <3>1
    <3>2. CASE i # 1
      <4>1. i - 1 \in 1..Len(condition') /\ i - 1 \in k..(Len(condition) - 1)
            /\ (i - 1) + 1 = i
        BY <1>1, <1>4, <2>1, <3>2
      <4>2. QED
        BY <1>4, <2>2, <4>1
    <3>3. QED
      BY <3>1, <3>2
  <2>4. c = condition
    BY <1>1, <2>2, <2>3
  <2>5. QED
    BY <2>4 DEF c
<1>10. QED
  BY <1>4, <1>7, <1>8, <1>9

LEMMA LockInit == Lock!Init => LockInv
<1> SUFFICES ASSUME Lock!Init
             PROVE  LockInv
  OBVIOUS
<1>1. condition \in Seq(Waiters) /\ Lock!TypeOK
  BY SemaphoresAssumption
     DEF Lock!Init, Lock!TypeOK, Lock!IsInjective, Lock!ToSet, Lock!LockAssumption
<1>2. Woken = {}
  BY DEF Lock!Init, Woken
<1>3. PassesPaid
  BY <1>2, FS_EmptySet DEF Lock!Init, PassesPaid
<1>4. QED
  BY <1>1, <1>3 DEF LockInv

\* A thread joins the queue of the condition at its end.
LEMMA JoinsQueue ==
  ASSUME LockInv, NEW w \in Waiters, lockPc[w] # "waiting",
         condition' = Append(condition, w)
  PROVE  /\ condition' \in Seq(Waiters)
         /\ Lock!IsInjective(condition)'
         /\ Lock!ToSet(condition)' = Lock!ToSet(condition) \cup {w}
<1>1. /\ condition \in Seq(Waiters) /\ DOMAIN condition = 1..Len(condition)
      /\ Len(condition) \in Nat
      /\ \A i, j \in 1..Len(condition) : condition[i] = condition[j] => i = j
      /\ w \notin Lock!ToSet(condition)
  BY DEF LockInv, Lock!TypeOK, Lock!IsInjective
<1>2. \A i \in 1..Len(condition) : condition[i] # w
  BY <1>1 DEF Lock!ToSet
<1>3. /\ condition' \in Seq(Waiters) /\ DOMAIN condition' = 1..(Len(condition) + 1)
      /\ \A i \in 1..Len(condition) : condition'[i] = condition[i]
      /\ condition'[Len(condition) + 1] = w
  BY <1>1
<1>4. \A i \in 1..(Len(condition) + 1) :
         i \in 1..Len(condition) \/ i = Len(condition) + 1
  BY <1>1
<1>5. \A i, j \in 1..(Len(condition) + 1) : condition'[i] = condition'[j] => i = j
  BY <1>1, <1>2, <1>3, <1>4
<1>6. Lock!IsInjective(condition)'
  BY <1>3, <1>5 DEF Lock!IsInjective
<1>7. \A i \in 1..Len(condition) : i \in 1..(Len(condition) + 1)
  BY <1>1
<1>8. Len(condition) + 1 \in 1..(Len(condition) + 1)
  BY <1>1
<1>9. Lock!ToSet(condition)' = Lock!ToSet(condition) \cup {w}
  BY <1>1, <1>3, <1>4, <1>7, <1>8 DEF Lock!ToSet
<1>10. QED
  BY <1>3, <1>6, <1>9

\* One thread more, or one fewer, has been woken.
LEMMA WokenCount ==
  ASSUME IsFiniteSet(Woken), NEW w
  PROVE  /\ Cardinality(Woken) \in Nat
         /\ IsFiniteSet(Woken \cup {w}) /\ Cardinality(Woken \cup {w}) <= Cardinality(Woken) + 1
         /\ Cardinality(Woken \cup {w}) \in Nat
         /\ IsFiniteSet(Woken \ {w})
         /\ w \in Woken => Cardinality(Woken \ {w}) = Cardinality(Woken) - 1
<1>1. Cardinality(Woken) \in Nat
  BY FS_CardinalityType
<1>2. /\ IsFiniteSet(Woken \cup {w})
      /\ Cardinality(Woken \cup {w}) =
           IF w \in Woken THEN Cardinality(Woken) ELSE Cardinality(Woken) + 1
  BY FS_AddElement
<1>3. /\ IsFiniteSet(Woken \ {w})
      /\ Cardinality(Woken \ {w}) =
           IF w \in Woken THEN Cardinality(Woken) - 1 ELSE Cardinality(Woken)
  BY FS_RemoveElement
<1>4. QED
  BY <1>1, <1>2, <1>3

\* A thread that is woken leaves the queue; a signal or a wait that ended for no
\* reason pays for its pass.
LEMMA WakesOne ==
  ASSUME LockInv, NEW w \in Waiters, lockPc[w] = "waiting",
         condition' = Lock!Without(w), lockPc' = [lockPc EXCEPT ![w] = "woken"],
         UNCHANGED <<lockRetry, passes>>,
         lockSignals' \in 0..MaxLockSignals, spurious' \in 0..MaxSpurious,
         lockSignals' + spurious' = lockSignals + spurious + 1
  PROVE  LockInv'
<1>1. /\ condition' \in Seq(Waiters) /\ Lock!IsInjective(condition)'
      /\ Lock!ToSet(condition)' = Lock!ToSet(condition) \ {w}
  BY LeavesQueue
<1>2. /\ lockPc \in [Waiters -> {"out", "waiting", "woken", "caught"}]
      /\ Lock!ToSet(condition) = {v \in Waiters : lockPc[v] = "waiting"}
      /\ passes \in Nat /\ lockSignals \in Nat /\ spurious \in Nat
      /\ IsFiniteSet(Woken) /\ passes + Cardinality(Woken) <= lockSignals + spurious
  BY SemaphoresAssumption DEF LockInv, PassesPaid, Lock!TypeOK, Lock!LockAssumption
<1>3. Lock!TypeOK'
  <2>1. Lock!ToSet(condition)' = {v \in Waiters : lockPc'[v] = "waiting"}
    BY <1>1, <1>2
  <2>2. QED
    BY <1>1, <1>2, <2>1 DEF LockInv, Lock!TypeOK
<1>4. Woken' = Woken \cup {w}
  BY <1>2 DEF Woken
<1>5. PassesPaid'
  <2>1. lockSignals' \in Nat /\ spurious' \in Nat
    BY SemaphoresAssumption DEF Lock!LockAssumption
  <2>2. /\ Cardinality(Woken) \in Nat /\ IsFiniteSet(Woken \cup {w})
        /\ Cardinality(Woken \cup {w}) \in Nat
        /\ Cardinality(Woken \cup {w}) <= Cardinality(Woken) + 1
    BY <1>2, WokenCount
  <2>3. /\ passes \in Nat /\ lockSignals + spurious \in Nat
        /\ passes + Cardinality(Woken) <= lockSignals + spurious
    BY <1>2
  <2>4. passes + Cardinality(Woken \cup {w}) <= lockSignals + spurious + 1
    BY <2>2, <2>3
  <2>5. passes + Cardinality(Woken \cup {w}) <= lockSignals' + spurious'
    BY <2>4
  <2>6. QED
    BY <1>4, <2>2, <2>5 DEF PassesPaid
<1>6. QED
  BY <1>1, <1>3, <1>5 DEF LockInv

\* Who is first in the queue waits.
LEMMA HeadWaits ==
  ASSUME LockInv, condition # <<>>
  PROVE  condition[1] \in Waiters /\ lockPc[condition[1]] = "waiting"
<1>1. condition \in Seq(Waiters) /\ 1 \in DOMAIN condition
  BY DEF LockInv
<1>2. condition[1] \in Lock!ToSet(condition)
  BY <1>1 DEF Lock!ToSet
<1>3. QED
  BY <1>1, <1>2 DEF LockInv, Lock!TypeOK

LEMMA LockKeeps ==
  ASSUME LockInv, Lock!Next
  PROVE  LockInv'
<1>0. /\ Lock!TypeOK /\ PassesPaid
      /\ condition \in Seq(Waiters)
      /\ lockPc \in [Waiters -> {"out", "waiting", "woken", "caught"}]
      /\ lockRetry \in [Waiters -> BOOLEAN]
      /\ lockSignals \in 0..MaxLockSignals /\ spurious \in 0..MaxSpurious
      /\ lockSignals \in Nat /\ spurious \in Nat /\ passes \in Nat
      /\ MaxLockSignals \in Nat /\ MaxSpurious \in Nat
      /\ Lock!ToSet(condition) = {v \in Waiters : lockPc[v] = "waiting"}
      /\ IsFiniteSet(Woken) /\ passes + Cardinality(Woken) <= lockSignals + spurious
  BY SemaphoresAssumption DEF LockInv, Lock!TypeOK, Lock!LockAssumption, PassesPaid
<1>1. ASSUME NEW s \in Signallers, Lock!Signal(s)
      PROVE  LockInv'
  <2>1. /\ lockSignals' = lockSignals + 1 /\ lockSignals' \in 0..MaxLockSignals
        /\ UNCHANGED <<lockRetry, spurious, passes>>
    BY <1>0, <1>1 DEF Lock!Signal
  <2>2. CASE condition = <<>> /\ UNCHANGED <<condition, lockPc>>
    <3>1. Lock!TypeOK'
      BY <1>0, <2>1, <2>2 DEF Lock!TypeOK
    <3>2. Woken' = Woken
      BY <2>2 DEF Woken
    <3>3. PassesPaid'
      <4>1. passes + Cardinality(Woken) <= lockSignals' + spurious'
        <5>1. /\ passes \in Nat /\ lockSignals \in Nat /\ spurious \in Nat
              /\ passes + Cardinality(Woken) <= lockSignals + spurious
          BY <1>0
        <5>2. lockSignals' = lockSignals + 1 /\ spurious' = spurious
          BY <2>1
        <5>3. Cardinality(Woken) \in Nat
          BY <1>0, FS_CardinalityType
        <5>4. QED
          BY <5>1, <5>2, <5>3
      <4>2. QED
        BY <1>0, <2>1, <3>2, <4>1 DEF PassesPaid
    <3>4. QED
      BY <1>0, <2>2, <3>1, <3>3 DEF LockInv
  <2>3. CASE condition # <<>>
    <3>1. PICK w \in Waiters : w = condition[1] /\ lockPc[w] = "waiting"
      BY <2>3, HeadWaits
    <3>2. condition' = Lock!Without(w) /\ lockPc' = [lockPc EXCEPT ![w] = "woken"]
      BY <1>1, <2>3, <3>1 DEF Lock!Signal, Lock!Signalled
    <3>3. lockSignals' + spurious' = lockSignals + spurious + 1
      BY <1>0, <2>1
    <3>4. QED
      BY <1>0, <2>1, <3>1, <3>2, <3>3, WakesOne
  <2>4. QED
    BY <1>1, <2>2, <2>3 DEF Lock!Signal
<1>2. ASSUME NEW w \in Waiters, Lock!WakesForNothing(w)
      PROVE  LockInv'
  <2>1. /\ spurious' = spurious + 1 /\ spurious' \in 0..MaxSpurious
        /\ lockPc[w] = "waiting" /\ condition' = Lock!Without(w)
        /\ lockPc' = [lockPc EXCEPT ![w] = "woken"]
        /\ UNCHANGED <<lockRetry, lockSignals, passes>>
    BY <1>0, <1>2 DEF Lock!WakesForNothing
  <2>2. lockSignals' + spurious' = lockSignals + spurious + 1
    BY <1>0, <2>1
  <2>3. QED
    BY <1>0, <2>1, <2>2, WakesOne
<1>3. ASSUME NEW w \in Waiters, Lock!Interrupt(w)
      PROVE  LockInv'
  <2>1. /\ lockPc[w] = "waiting" /\ condition' = Lock!Without(w)
        /\ lockPc' = [lockPc EXCEPT ![w] = "caught"]
        /\ UNCHANGED <<lockRetry, lockSignals, spurious, passes>>
    BY <1>3 DEF Lock!Interrupt
  <2>2. /\ condition' \in Seq(Waiters) /\ Lock!IsInjective(condition)'
        /\ Lock!ToSet(condition)' = Lock!ToSet(condition) \ {w}
    BY <2>1, LeavesQueue
  <2>3. Lock!ToSet(condition)' = {v \in Waiters : lockPc'[v] = "waiting"}
    BY <1>0, <2>1, <2>2
  <2>4. Lock!TypeOK'
    BY <1>0, <2>1, <2>2, <2>3 DEF Lock!TypeOK
  <2>5. Woken' = Woken
    BY <1>0, <2>1 DEF Woken
  <2>6. QED
    BY <1>0, <2>1, <2>2, <2>4, <2>5 DEF LockInv, PassesPaid
<1>4. ASSUME NEW w \in Waiters, condition' = Append(condition, w),
             lockPc[w] # "waiting", lockPc' = [lockPc EXCEPT ![w] = "waiting"],
             lockRetry' \in [Waiters -> BOOLEAN],
             UNCHANGED <<lockSignals, spurious, passes>>
      PROVE  LockInv'
  <2>1. /\ condition' \in Seq(Waiters) /\ Lock!IsInjective(condition)'
        /\ Lock!ToSet(condition)' = Lock!ToSet(condition) \cup {w}
    BY <1>4, JoinsQueue
  <2>2. Lock!ToSet(condition)' = {v \in Waiters : lockPc'[v] = "waiting"}
    BY <1>0, <1>4, <2>1
  <2>3. Lock!TypeOK'
    BY <1>0, <1>4, <2>1, <2>2 DEF Lock!TypeOK
  <2>4. Woken' = Woken \ {w}
    BY <1>0, <1>4 DEF Woken
  <2>5. PassesPaid'
    <3>1. CASE w \in Woken
      <4>1. IsFiniteSet(Woken \ {w}) /\ Cardinality(Woken) \in Nat
            /\ Cardinality(Woken \ {w}) = Cardinality(Woken) - 1
        BY <1>0, <3>1, WokenCount
      <4>2. passes + Cardinality(Woken \ {w}) <= lockSignals + spurious
        BY <1>0, <4>1
      <4>3. QED
        BY <1>4, <2>4, <4>1, <4>2 DEF PassesPaid
    <3>2. CASE w \notin Woken
      <4>1. Woken' = Woken
        BY <2>4, <3>2
      <4>2. QED
        BY <1>0, <1>4, <4>1 DEF PassesPaid
    <3>3. QED
      BY <3>1, <3>2
  <2>6. QED
    BY <2>1, <2>3, <2>5 DEF LockInv
<1>5. ASSUME NEW w \in Waiters, Lock!Await(w) \/ Lock!CaughtInterrupt(w)
      PROVE  LockInv'
  <2>1. /\ condition' = Append(condition, w) /\ lockPc[w] # "waiting"
        /\ lockPc' = [lockPc EXCEPT ![w] = "waiting"]
        /\ lockRetry' \in [Waiters -> BOOLEAN]
        /\ UNCHANGED <<lockSignals, spurious, passes>>
    BY <1>0, <1>5 DEF Lock!Await, Lock!CaughtInterrupt, Lock!WaitAgain, Lock!RetryAtStart
  <2>2. QED
    BY <1>4, <2>1
<1>6. ASSUME NEW w \in Waiters, Lock!Wake(w)
      PROVE  LockInv'
  <2>1. CASE Lock!Leaves(w)
    <3>1. /\ lockPc[w] = "woken" /\ lockPc' = [lockPc EXCEPT ![w] = "out"]
          /\ passes' = passes + 1
          /\ UNCHANGED <<condition, lockRetry, lockSignals, spurious>>
      BY <1>6, <2>1 DEF Lock!Wake, Lock!Return
    <3>2. Lock!ToSet(condition)' = {v \in Waiters : lockPc'[v] = "waiting"}
      BY <1>0, <3>1
    <3>3. Lock!TypeOK'
      BY <1>0, <3>1, <3>2 DEF Lock!TypeOK
    <3>4. Woken' = Woken \ {w} /\ w \in Woken
      BY <1>0, <3>1 DEF Woken
    <3>5. PassesPaid'
      <4>1. IsFiniteSet(Woken \ {w}) /\ Cardinality(Woken) \in Nat
            /\ Cardinality(Woken \ {w}) = Cardinality(Woken) - 1
        BY <1>0, <3>4, WokenCount
      <4>2. passes' + Cardinality(Woken \ {w}) <= lockSignals + spurious
        BY <1>0, <3>1, <4>1
      <4>3. QED
        BY <3>1, <3>4, <4>1, <4>2 DEF PassesPaid
    <3>6. QED
      BY <1>0, <3>1, <3>3, <3>5 DEF LockInv
  <2>2. CASE ~Lock!Leaves(w)
    <3>1. /\ condition' = Append(condition, w) /\ lockPc[w] # "waiting"
          /\ lockPc' = [lockPc EXCEPT ![w] = "waiting"]
          /\ UNCHANGED <<lockRetry, lockSignals, spurious, passes>>
      BY <1>6, <2>2 DEF Lock!Wake, Lock!WaitAgain
    <3>2. QED
      BY <1>0, <1>4, <3>1
  <2>3. QED
    BY <2>1, <2>2
<1>7. QED
  BY <1>1, <1>2, <1>3, <1>5, <1>6 DEF Lock!Next

LEMMA LockInvariance == Lock!Spec => []LockInv
<1>1. ASSUME LockInv, UNCHANGED lockVars
      PROVE  LockInv'
  BY <1>1 DEF LockInv, Lock!TypeOK, PassesPaid, Woken, lockVars
<1>2. LockInv /\ [Lock!Next]_(Lock!vars) => LockInv'
  BY <1>1, LockKeeps DEF Lock!vars, lockVars
<1>3. QED
  BY LockInit, <1>2, PTL DEF Lock!Spec

-----------------------------------------------------------------------------
(* All of them: only the one that is used moves, so that each behaves as it  *)
(* does by itself.                                                           *)

LEMMA EachAlone ==
  AllSpec => Spec /\ Simple!Spec /\ Monitor!Spec /\ Queue!Spec /\ Lock!Spec
<1>1. AllInit => Init /\ Simple!Init /\ Monitor!Init /\ Queue!Init /\ Lock!Init
  BY DEF AllInit
<1>2. ASSUME [AllNext]_allVars
      PROVE  /\ [Next]_vars /\ [Simple!Next]_(Simple!vars)
             /\ [Monitor!Next]_(Monitor!vars) /\ [Queue!Next]_(Queue!vars)
             /\ [Lock!Next]_(Lock!vars)
  <2>1. CASE UNCHANGED allVars
    BY <2>1 DEF allVars, simpleVars, monitorVars, queueVars, lockVars,
                Simple!vars, Monitor!vars, Queue!vars, Lock!vars
  <2>2. ASSUME NEW kind, Moves(kind)
        PROVE  /\ [Next]_vars /\ [Simple!Next]_(Simple!vars)
               /\ [Monitor!Next]_(Monitor!vars) /\ [Queue!Next]_(Queue!vars)
               /\ [Lock!Next]_(Lock!vars)
    BY <2>2 DEF Moves, simpleVars, monitorVars, queueVars, lockVars,
                Simple!vars, Monitor!vars, Queue!vars, Lock!vars
  <2>3. QED
    BY <1>2, <2>1, <2>2 DEF AllNext
<1>3. QED
  BY <1>1, <1>2, PTL
     DEF AllSpec, Spec, Simple!Spec, Monitor!Spec, Queue!Spec, Lock!Spec

\* Every class keeps its state typed; in LockBinarySemaphore the threads in the
\* queue of the condition are exactly those that wait.
THEOREM TypesCorrect == AllSpec => []TypesOK
<1>1. SemaphoreInv /\ SimpleInv /\ MonitorInv /\ Queue!TypeOK /\ LockInv => TypesOK
  BY DEF SemaphoreInv, SimpleInv, MonitorInv, LockInv, TypesOK
<1>2. QED
  BY <1>1, EachAlone, SemaphoreInvariance, SimpleInvariance, MonitorInvariance,
     QueueInvariance, LockInvariance, PTL

\* With any number of threads, the two other classes with a flag leave nobody
\* asleep beside a raised flag, and the class without one lets nobody through
\* without a signal or a wait that ended for no reason.
THEOREM NoWakeupLost == AllSpec => []WakeupsKept
<1>1. SimpleInv /\ MonitorInv /\ LockInv => WakeupsKept
  <2>1. LockInv => Lock!OneSignalOnePass
    <3> SUFFICES ASSUME LockInv
                 PROVE  passes <= lockSignals + spurious
      BY DEF Lock!OneSignalOnePass
    <3>1. /\ passes \in Nat /\ lockSignals \in Nat /\ spurious \in Nat
      BY SemaphoresAssumption DEF LockInv, Lock!TypeOK, Lock!LockAssumption
    <3>2. passes + Cardinality(Woken) <= lockSignals + spurious
      BY DEF LockInv, PassesPaid
    <3>3. Cardinality(Woken) \in Nat
      BY FS_CardinalityType DEF LockInv, PassesPaid
    <3>4. QED
      BY <3>1, <3>2, <3>3
  <2>2. QED
    BY <2>1 DEF SimpleInv, MonitorInv, WakeupsKept
<1>2. QED
  BY <1>1, EachAlone, SimpleInvariance, MonitorInvariance, LockInvariance, PTL

\* Permits that pile up in the Semaphore let nobody through: each raised flag of
\* SimpleBinarySemaphore lets exactly one thread pass.
THEOREM SimpleIsEvent == Simple!Spec => Simple!Event!EventSpec
<1>1. Simple!Init => Simple!Event!EventInit
  BY DEF Simple!Init, Simple!Event!EventInit
<1>2. ASSUME SimpleInv, [Simple!Next]_(Simple!vars)
      PROVE  [Simple!Event!EventNext]_(Simple!Event!eventVars)
  <2> USE DEF Simple!Event!EventNext, Simple!Event!eventVars
  <2>0. Simple!TypeOK
    BY <1>2 DEF SimpleInv
  <2>1. ASSUME NEW s \in Signallers, Simple!SignalStep(s)
        PROVE  Simple!Event!Signal \/ UNCHANGED Simple!Event!eventVars
    BY <2>1 DEF Simple!SignalStep, Simple!SetFired, Simple!Release, Simple!FiredBySignal,
                Simple!Event!Signal
  <2>2. ASSUME NEW w \in Waiters, Simple!Await(w)
        PROVE  Simple!Event!Enter(w)
    <3>1. /\ simplePc[w] = "out" /\ simpleFired' = simpleFired
          /\ simplePc'[w] = "test" /\ \A v \in Waiters \ {w} : simplePc'[v] = simplePc[v]
      BY <2>0, <2>2 DEF Simple!Await, Simple!At, Simple!TypeOK
    <3>2. QED
      BY <3>1 DEF Simple!Event!Enter
  <2>3. ASSUME NEW w \in Waiters, Simple!TakeFired(w)
        PROVE  Simple!Event!Pass(w)
    <3>1. /\ simplePc[w] = "test" /\ simpleFired = 1 /\ simpleFired' = 0
          /\ simplePc'[w] = "out" /\ \A v \in Waiters \ {w} : simplePc'[v] = simplePc[v]
      BY <2>0, <2>3 DEF Simple!TakeFired, Simple!At, Simple!TypeOK
    <3>2. QED
      BY <3>1 DEF Simple!Event!Pass
  <2>4. ASSUME NEW w \in Waiters,
               Simple!MissFired(w) \/ Simple!Acquire(w) \/ Simple!InterruptWait(w)
        PROVE  UNCHANGED Simple!Event!eventVars
    <3>1. /\ simplePc[w] # "out" /\ simplePc'[w] # "out" /\ simpleFired' = simpleFired
          /\ \A v \in Waiters \ {w} : simplePc'[v] = simplePc[v]
      BY <2>0, <2>4 DEF Simple!MissFired, Simple!Acquire, Simple!InterruptWait, Simple!At,
                        Simple!AfterAcquire, Simple!TypeOK
    <3>2. QED
      BY <3>1
  <2>5. CASE UNCHANGED Simple!vars
    BY <2>5 DEF Simple!vars
  <2>6. QED
    BY <1>2, <2>1, <2>2, <2>3, <2>4, <2>5 DEF Simple!Next, Simple!AwaitStep
<1>3. QED
  BY SimpleInvariance, <1>1, <1>2, PTL DEF Simple!Spec, Simple!Event!EventSpec

\* Whichever thread notify chose and whoever enters the monitor first, each
\* raised flag of MonitorBinarySemaphore lets exactly one thread pass.
THEOREM MonitorIsEvent == Monitor!Spec => Monitor!Event!EventSpec
<1>1. Monitor!Init => Monitor!Event!EventInit
  BY DEF Monitor!Init, Monitor!Event!EventInit
<1>2. ASSUME MonitorInv, [Monitor!Next]_(Monitor!vars)
      PROVE  [Monitor!Event!EventNext]_(Monitor!Event!eventVars)
  <2> USE DEF Monitor!Event!EventNext, Monitor!Event!eventVars
  <2>0. Monitor!TypeOK
    BY <1>2 DEF MonitorInv
  <2>1. ASSUME NEW s \in Signallers, Monitor!CallSignal(s)
        PROVE  UNCHANGED Monitor!Event!eventVars
    BY <2>1 DEF Monitor!CallSignal
  <2>2. ASSUME NEW s \in Signallers, Monitor!Signal(s)
        PROVE  Monitor!Event!Signal
    <3>1. monitorLock' = 1
      BY <2>2 DEF Monitor!Signal, Monitor!LockBySignal
    <3>2. \A v \in Waiters : monitorPc'[v] # "out" <=> monitorPc[v] # "out"
      BY <2>0, <2>2 DEF Monitor!Signal, Monitor!Notifiable, Monitor!InWait, Monitor!TypeOK
    <3>3. QED
      BY <3>1, <3>2 DEF Monitor!Event!Signal
  <2>3. ASSUME NEW w \in Waiters, Monitor!CallAwait(w)
        PROVE  Monitor!Event!Enter(w)
    <3>1. /\ monitorPc[w] = "out" /\ monitorLock' = monitorLock
          /\ monitorPc'[w] = "enter"
          /\ \A v \in Waiters \ {w} : monitorPc'[v] = monitorPc[v]
      BY <2>0, <2>3 DEF Monitor!CallAwait, Monitor!TypeOK
    <3>2. QED
      BY <3>1 DEF Monitor!Event!Enter
  <2>4. ASSUME NEW w \in Waiters, Monitor!Test(w)
        PROVE  Monitor!Event!Pass(w) \/ UNCHANGED Monitor!Event!eventVars
    <3>1. /\ monitorPc[w] # "out"
          /\ \A v \in Waiters \ {w} : monitorPc'[v] = monitorPc[v]
      BY <2>0, <2>4 DEF Monitor!Test, Monitor!TypeOK
    <3>2. CASE monitorLock = 1
      <4>1. monitorLock' = 0 /\ monitorPc'[w] = "out"
        BY <2>0, <2>4, <3>2 DEF Monitor!Test, Monitor!LeavesLoop, Monitor!TypeOK
      <4>2. QED
        BY <3>1, <3>2, <4>1 DEF Monitor!Event!Pass
    <3>3. CASE monitorLock # 1
      <4>1. monitorLock' = monitorLock /\ monitorPc'[w] = "wait"
        BY <2>0, <2>4, <3>3 DEF Monitor!Test, Monitor!LeavesLoop, Monitor!TypeOK
      <4>2. QED
        BY <3>1, <4>1
    <3>4. QED
      BY <3>2, <3>3
  <2>5. ASSUME NEW w \in Waiters, Monitor!WaitReturns(w)
        PROVE  UNCHANGED Monitor!Event!eventVars
    <3>1. /\ monitorPc[w] # "out" /\ monitorPc'[w] # "out" /\ monitorLock' = monitorLock
          /\ \A v \in Waiters \ {w} : monitorPc'[v] = monitorPc[v]
      BY <2>0, <2>5 DEF Monitor!WaitReturns, Monitor!TypeOK
    <3>2. QED
      BY <3>1
  <2>6. CASE UNCHANGED Monitor!vars
    BY <2>6 DEF Monitor!vars
  <2>7. QED
    BY <1>2, <2>1, <2>2, <2>3, <2>4, <2>5, <2>6 DEF Monitor!Next
<1>3. QED
  BY MonitorInvariance, <1>1, <1>2, PTL DEF Monitor!Spec, Monitor!Event!EventSpec

\* What BlockingQueueBinarySemaphore does beside the steps of the event is only
\* that a thread that was interrupted swallows it.
THEOREM OnlySwallowed == Queue!Spec => Queue!SwallowedByInterrupted
<1> DEFINE Swallows ==
             \E w \in Interrupted :
                /\ queueRetry[w]
                /\ queueSize = 1 /\ queueSize' = 0
                /\ queueWaiting' = queueWaiting
           OnlyInterrupted == \A w \in Waiters : queueRetry[w] => w \in Interrupted
<1>1. Queue!Init => OnlyInterrupted
  BY DEF Queue!Init
<1>2. Queue!TypeOK /\ OnlyInterrupted /\ [Queue!Next]_(Queue!vars) => OnlyInterrupted'
  BY SemaphoresAssumption
     DEF Queue!TypeOK, Queue!Next, Queue!vars, Queue!Signal, Queue!Await, Queue!RetryAtStart,
         Queue!Take, Queue!Interrupt, Queue!InterruptedAssumption
<1>3. ASSUME Queue!TypeOK, OnlyInterrupted, [Queue!Next]_(Queue!vars)
      PROVE  [\/ Queue!Event!EventNext
              \/ Swallows]_<<queueSize, queueWaiting>>
  <2> USE DEF Queue!Event!EventNext
  <2>1. ASSUME NEW s \in Signallers, Queue!Signal(s)
        PROVE  Queue!Event!Signal
    BY <1>3, <2>1 DEF Queue!TypeOK, Queue!Signal, Queue!SizeAfterOffer, Queue!Event!Signal
  <2>2. ASSUME NEW w \in Waiters, Queue!Await(w)
        PROVE  Queue!Event!Enter(w)
    BY <2>2 DEF Queue!Await, Queue!Event!Enter
  <2>3. ASSUME NEW w \in Waiters, Queue!Take(w)
        PROVE  Queue!Event!Pass(w) \/ Swallows
    <3>1. queueSize = 1 /\ queueSize' = 0
      BY <1>3, <2>3 DEF Queue!TypeOK, Queue!Take
    <3>2. CASE queueRetry[w]
      BY <1>3, <2>3, <3>1, <3>2 DEF Queue!Take, Queue!Returns
    <3>3. CASE ~queueRetry[w]
      BY <2>3, <3>1, <3>3 DEF Queue!Take, Queue!Returns, Queue!Event!Pass
    <3>4. QED
      BY <3>2, <3>3
  <2>4. ASSUME NEW w \in Interrupted, Queue!Interrupt(w)
        PROVE  UNCHANGED <<queueSize, queueWaiting>>
    BY <2>4 DEF Queue!Interrupt
  <2>5. CASE UNCHANGED queueVars
    BY <2>5 DEF queueVars
  <2>6. QED
    BY <1>3, <2>1, <2>2, <2>3, <2>4, <2>5 DEF Queue!Next, Queue!vars, queueVars
<1> HIDE DEF OnlyInterrupted
<1>4. QED
  BY QueueInvariance, <1>1, <1>2, <1>3, PTL DEF Queue!Spec, Queue!SwallowedByInterrupted

\* Nobody is overtaken in LockBinarySemaphore: a signal wakes the thread that has
\* waited longest, and no other.
THEOREM NobodyOvertaken == Lock!Spec => Lock!FirstComeFirstWoken
<1>1. ASSUME LockInv, [Lock!Next]_(Lock!vars), lockSignals' # lockSignals,
             NEW w \in Waiters, lockPc[w] = "waiting", lockPc'[w] = "woken"
      PROVE  condition = <<w>> \o condition'
  <2>1. PICK s \in Signallers : Lock!Signal(s)
    BY <1>1 DEF Lock!Next, Lock!vars, Lock!Await, Lock!Wake, Lock!CaughtInterrupt,
                Lock!WakesForNothing, Lock!Interrupt
  <2>2. condition # <<>>
    BY <1>1, <2>1 DEF Lock!Signal
  <2>3. PICK v \in Waiters : v = condition[1] /\ lockPc[v] = "waiting"
    BY <1>1, <2>2, HeadWaits
  <2>4. condition' = Lock!Without(v) /\ lockPc' = [lockPc EXCEPT ![v] = "woken"]
    BY <2>1, <2>2, <2>3 DEF Lock!Signal, Lock!Signalled
  <2>5. v = w
    BY <1>1, <2>4 DEF LockInv, Lock!TypeOK
  <2>6. QED
    BY <1>1, <2>3, <2>4, <2>5, LeavesQueue
<1>2. ASSUME LockInv, [Lock!Next]_(Lock!vars)
      PROVE  [lockSignals' # lockSignals =>
                \A w \in Waiters : (lockPc[w] = "waiting" /\ lockPc'[w] = "woken") =>
                   condition = <<w>> \o condition']_(Lock!vars)
  BY <1>1, <1>2
<1>3. QED
  BY LockInvariance, <1>2, PTL DEF Lock!Spec, Lock!FirstComeFirstWoken
=============================================================================
