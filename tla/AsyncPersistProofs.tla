------------------------- MODULE AsyncPersistProofs -------------------------
(***************************************************************************)
(* Proofs about the asynchronous persist queue, for any number of          *)
(* producers, entries, failures and any batch size: it implements the      *)
(* at-least-once log, from which the order of what is stored and that      *)
(* nothing is lost follow; and no wakeup is lost.                          *)
(***************************************************************************)
EXTENDS AsyncPersist, SequenceTheorems, TLAPS

\* What is still in the data queue is the tail of what it ever took.
QueueIsTail ==
  /\ Len(dataQueue) <= Len(accepted)
  /\ \A i \in 1..Len(dataQueue) : dataQueue[i] = accepted[Removed + i]

\* Entries are numbered by their producer, so none is offered twice.
EntriesNumbered ==
  \A k \in 1..Len(accepted) :
     /\ accepted[k] \in Entry
     /\ accepted[k][2] <= sent[accepted[k][1]]

\* Where flush is in its loops.
FlushControl ==
  /\ flushPc \in {"scan", "save"} => polls = 0
  /\ flushPc = "poll" => polls < size
  /\ flushPc = "save" => size > 0
  /\ flushPc = "scan" /\ iterator # 0 =>
        iterator = size + 1 /\ iterator <= Len(dataQueue)

AsyncInv ==
  /\ TypeOK
  /\ QueueIsTail
  /\ EntriesNumbered
  /\ FlushControl
  /\ BatchHeadsQueue
  /\ NoLostWakeup

-----------------------------------------------------------------------------
LEMMA InitInv == Init => AsyncInv
<1> SUFFICES ASSUME Init
             PROVE  AsyncInv
  OBVIOUS
<1>1. TypeOK
  <2>1. /\ dataQueue \in Seq(Entry) /\ batch \in Seq(Entry)
        /\ stored \in Seq(Entry) /\ accepted \in Seq(Entry)
    BY DEF Init
  <2>2. /\ producerPc \in [Producers -> {"idle", "signal"}]
        /\ sent \in [Producers -> 0..MaxEntries]
    BY AsyncAssumption DEF Init
  <2>3. /\ controlQueue \in 0..ControlCapacity /\ iterator \in Nat
        /\ size \in 0..BatchSize /\ polls \in 0..BatchSize
        /\ failures \in 0..MaxFailures
    BY AsyncAssumption DEF Init, ControlCapacity
  <2>4. /\ interrupted \in BOOLEAN
        /\ flushPc \in {"idle", "loop", "scan", "save", "poll", "take"}
    BY DEF Init
  <2>5. QED
    BY <2>1, <2>2, <2>3, <2>4 DEF TypeOK
<1>2. QueueIsTail /\ EntriesNumbered
  BY DEF Init, QueueIsTail, EntriesNumbered
<1>3. FlushControl /\ BatchHeadsQueue /\ NoLostWakeup
  BY DEF Init, FlushControl, BatchHeadsQueue, NoLostWakeup, SawEmpty
<1>4. QED
  BY <1>1, <1>2, <1>3 DEF AsyncInv

\* One step keeps the types; copying, saving and polling stay in range because
\* of what the invariant says of the loops.
LEMMA TypeStep == AsyncInv /\ [Next]_vars => TypeOK'
<1> SUFFICES ASSUME AsyncInv, [Next]_vars
             PROVE  TypeOK'
  OBVIOUS
<1>0. TypeOK
  BY DEF AsyncInv
<1> USE AsyncAssumption, <1>0 DEF TypeOK, ControlCapacity
<1>1. ASSUME NEW p \in Producers, OfferData(p)
      PROVE  TypeOK'
  <2>1. <<p, sent[p] + 1>> \in Entry
    BY <1>1 DEF OfferData, Entry
  <2>2. QED
    BY <1>1, <2>1 DEF OfferData, flushVars, consumerVars
<1>2. ASSUME NEW p \in Producers, OfferControl(p)
      PROVE  TypeOK'
  BY <1>2 DEF OfferControl, TokensAfterOffer, ControlCapacity, flushVars, consumerVars
<1>3. CASE RunFlush
  BY <1>3 DEF RunFlush, producerVars, flushVars, consumerVars
<1>4. CASE BeginScan
  BY <1>4 DEF BeginScan, producerVars, consumerVars
<1>5. CASE ScanEntry
  <2>1. dataQueue[iterator] \in Entry
    BY <1>5 DEF ScanEntry, AsyncInv, FlushControl
  <2>2. NextOfIterator \in Nat
    BY DEF NextOfIterator
  <2>3. QED
    BY <1>5, <2>1, <2>2 DEF ScanEntry, producerVars, consumerVars
<1>6. CASE EndScan
  BY <1>6 DEF EndScan, producerVars, flushVars, consumerVars
<1>7. CASE SaveReturns
  BY <1>7 DEF SaveReturns, producerVars, flushVars
<1>8. CASE SaveThrows
  <2>1. stored' \in Seq(Entry)
    <3>1. PICK n \in 0..size : stored' = stored \o SubSeq(batch, 1, n)
      BY <1>8 DEF SaveThrows
    <3>2. Len(batch) = size
      BY <1>8 DEF SaveThrows, AsyncInv, BatchHeadsQueue
    <3>3. SubSeq(batch, 1, n) \in Seq(Entry)
      BY <3>2
    <3>4. QED
      BY <3>1, <3>3
  <2>2. QED
    BY <1>8, <2>1 DEF SaveThrows, AfterThrow, producerVars, flushVars
<1>9. CASE PollEntry
  <2>1. polls' \in 0..BatchSize
    BY <1>9 DEF PollEntry, AsyncInv, FlushControl
  <2>2. dataQueue' \in Seq(Entry)
    BY <1>9 DEF PollEntry
  <2>3. flushPc' \in {"poll", "loop"}
    BY <1>9 DEF PollEntry, AfterPoll
  <2>4. QED
    BY <1>9, <2>1, <2>2, <2>3 DEF PollEntry, producerVars, consumerVars
<1>10. CASE TakeControl
  BY <1>10 DEF TakeControl, producerVars, flushVars, consumerVars
<1>11. CASE TakeInterrupted
  BY <1>11 DEF TakeInterrupted, producerVars, flushVars, consumerVars
<1>12. CASE Shutdown
  BY <1>12 DEF Shutdown, producerVars, flushVars, consumerVars
<1>13. CASE UNCHANGED vars
  BY <1>13 DEF vars, producerVars, flushVars, consumerVars
<1>14. QED
  BY <1>1, <1>2, <1>3, <1>4, <1>5, <1>6, <1>7, <1>8, <1>9, <1>10, <1>11,
     <1>12, <1>13 DEF Next, Flush, SaveCall


LEMMA InvStep == AsyncInv /\ [Next]_vars => AsyncInv'
<1> SUFFICES ASSUME AsyncInv, [Next]_vars
             PROVE  AsyncInv'
  OBVIOUS
<1>a. TypeOK'
  BY TypeStep
<1>b. /\ TypeOK /\ QueueIsTail /\ EntriesNumbered
      /\ FlushControl /\ BatchHeadsQueue /\ NoLostWakeup
  BY DEF AsyncInv
<1>c. /\ dataQueue \in Seq(Entry) /\ accepted \in Seq(Entry)
      /\ Len(dataQueue) \in Nat /\ Len(accepted) \in Nat
      /\ size \in 0..BatchSize /\ polls \in 0..BatchSize /\ BatchSize \in Nat
      /\ iterator \in Nat /\ controlQueue \in 0..1
      /\ batch \in Seq(Entry) /\ sent \in [Producers -> 0..MaxEntries]
      /\ producerPc \in [Producers -> {"idle", "signal"}]
      /\ Removed \in Nat
  BY <1>b, AsyncAssumption DEF TypeOK, ControlCapacity, Removed, QueueIsTail
<1>1. ASSUME NEW p \in Producers, OfferData(p)
      PROVE  AsyncInv'
  <2> DEFINE e == <<p, sent[p] + 1>>
  <2>0. e \in Entry
    <3>1. sent[p] + 1 \in 1..MaxEntries
      BY <1>1, <1>c, AsyncAssumption DEF OfferData
    <3>2. QED
      BY <3>1 DEF Entry
  <2>1. /\ e \in Entry
        /\ dataQueue' = Append(dataQueue, e) /\ accepted' = Append(accepted, e)
        /\ sent' = [sent EXCEPT ![p] = @ + 1]
        /\ producerPc' = [producerPc EXCEPT ![p] = "signal"]
        /\ UNCHANGED <<controlQueue, flushPc, iterator, batch, size, polls>>
    BY <1>1, <2>0 DEF OfferData, flushVars
  <2> HIDE DEF e
  <2>2. /\ Len(dataQueue') = Len(dataQueue) + 1
        /\ Len(accepted') = Len(accepted) + 1
        /\ \A i \in 1..Len(dataQueue) : dataQueue'[i] = dataQueue[i]
        /\ dataQueue'[Len(dataQueue) + 1] = e
        /\ \A i \in 1..Len(accepted) : accepted'[i] = accepted[i]
        /\ accepted'[Len(accepted) + 1] = e
        /\ Removed' = Removed
    BY <1>c, <2>1 DEF Removed
  <2>3. QueueIsTail'
    <3>1. ASSUME NEW i \in 1..(Len(dataQueue) + 1)
          PROVE  dataQueue'[i] = accepted'[Removed + i]
      <4>1. CASE i \in 1..Len(dataQueue)
        <5>1. Removed + i \in 1..Len(accepted) /\ dataQueue[i] = accepted[Removed + i]
          BY <1>b, <1>c, <4>1 DEF QueueIsTail, Removed
        <5>2. QED
          BY <2>2, <4>1, <5>1
      <4>2. CASE i = Len(dataQueue) + 1
        <5>1. Removed + i = Len(accepted) + 1
          BY <1>c, <4>2 DEF Removed
        <5>2. QED
          BY <2>2, <4>2, <5>1
      <4>3. QED
        BY <1>c, <4>1, <4>2
    <3>2. Len(dataQueue') <= Len(accepted')
      BY <1>b, <1>c, <2>2 DEF QueueIsTail
    <3>3. QED
      BY <2>2, <3>1, <3>2 DEF QueueIsTail
  <2>4. EntriesNumbered'
    <3>0. sent' \in [Producers -> 0..MaxEntries]
      BY <1>a DEF TypeOK
    <3>1. e[1] = p /\ e[2] = sent[p] + 1 /\ e[2] <= sent'[p]
      BY <1>c, <2>1 DEF e
    <3>2. \A q \in Producers : sent[q] <= sent'[q]
      BY <1>c, <2>1
    <3>3. ASSUME NEW k \in 1..Len(accepted)
          PROVE  accepted'[k] \in Entry /\ accepted'[k][2] <= sent'[accepted'[k][1]]
      <4>1. accepted'[k] = accepted[k] /\ accepted[k] \in Entry
        BY <1>b, <2>2 DEF EntriesNumbered
      <4>2. /\ accepted[k][1] \in Producers /\ accepted[k][2] \in Nat
            /\ accepted[k][2] <= sent[accepted[k][1]]
        BY <1>b, <4>1, AsyncAssumption DEF EntriesNumbered, Entry
      <4>3. sent[accepted[k][1]] \in Nat /\ sent'[accepted[k][1]] \in Nat
        BY <1>c, <3>0, <4>2, AsyncAssumption
      <4>4. sent[accepted[k][1]] <= sent'[accepted[k][1]]
        BY <3>2, <4>2
      <4>5. accepted[k][2] <= sent'[accepted[k][1]]
        BY <4>2, <4>3, <4>4
      <4>6. QED
        BY <4>1, <4>5
    <3>4. QED
      BY <1>c, <2>1, <2>2, <3>1, <3>3 DEF EntriesNumbered
  <2>5. FlushControl'
    BY <1>b, <1>c, <2>1, <2>2 DEF FlushControl
  <2>6. BatchHeadsQueue'
    BY <1>b, <1>c, <2>1, <2>2 DEF BatchHeadsQueue
  <2>7. NoLostWakeup'
    BY <1>c, <2>1 DEF NoLostWakeup
  <2>8. QED
    BY <1>a, <2>3, <2>4, <2>5, <2>6, <2>7 DEF AsyncInv
<1>2. ASSUME NEW p \in Producers, OfferControl(p)
      PROVE  AsyncInv'
  <2>1. /\ UNCHANGED <<dataQueue, accepted, sent, flushPc, iterator, batch, size,
                       polls>>
        /\ controlQueue' > 0
    BY <1>2, <1>c DEF OfferControl, TokensAfterOffer, ControlCapacity, flushVars
  <2>2. QueueIsTail' /\ EntriesNumbered'
    BY <1>b, <2>1 DEF QueueIsTail, EntriesNumbered, Removed
  <2>3. FlushControl' /\ BatchHeadsQueue' /\ NoLostWakeup'
    BY <1>b, <2>1 DEF FlushControl, BatchHeadsQueue, NoLostWakeup
  <2>4. QED
    BY <1>a, <2>2, <2>3 DEF AsyncInv
<1>3. CASE RunFlush
  BY <1>a, <1>b, <1>3
     DEF RunFlush, producerVars, flushVars, AsyncInv, QueueIsTail, Removed,
         EntriesNumbered, FlushControl, BatchHeadsQueue, NoLostWakeup, SawEmpty
<1>4. CASE BeginScan
  <2>1. QueueIsTail' /\ EntriesNumbered'
    BY <1>b, <1>4 DEF BeginScan, producerVars, QueueIsTail, EntriesNumbered, Removed
  <2>2. FlushControl' /\ BatchHeadsQueue'
    BY <1>c, <1>4 DEF BeginScan, FlushControl, BatchHeadsQueue
  <2>3. NoLostWakeup'
    BY <1>4 DEF BeginScan, NoLostWakeup, SawEmpty
  <2>4. QED
    BY <1>a, <2>1, <2>2, <2>3 DEF AsyncInv
<1>5. CASE ScanEntry
  <2>1. QueueIsTail' /\ EntriesNumbered'
    BY <1>b, <1>5 DEF ScanEntry, producerVars, QueueIsTail, EntriesNumbered, Removed
  <2>2. FlushControl'
    BY <1>b, <1>c, <1>5 DEF ScanEntry, NextOfIterator, FlushControl
  <2>3. BatchHeadsQueue'
    <3>1. /\ iterator = size + 1 /\ iterator <= Len(dataQueue) /\ polls = 0
          /\ Len(batch) = size
          /\ \A i \in 1..size : dataQueue[i] = batch[i]
      BY <1>b, <1>c, <1>5 DEF ScanEntry, FlushControl, BatchHeadsQueue
    <3>2. /\ batch' = Append(batch, dataQueue[size + 1]) /\ size' = size + 1
          /\ polls' = 0 /\ dataQueue' = dataQueue
      BY <1>5, <3>1 DEF ScanEntry
    <3>3. dataQueue[size + 1] \in Entry
      BY <1>c, <3>1
    <3>4. QED
      BY <1>c, <3>1, <3>2, <3>3 DEF BatchHeadsQueue
  <2>4. NoLostWakeup'
    BY <1>c, <1>5 DEF ScanEntry, NoLostWakeup, SawEmpty
  <2>5. QED
    BY <1>a, <2>1, <2>2, <2>3, <2>4 DEF AsyncInv
<1>6. CASE EndScan
  <2>1. QueueIsTail' /\ EntriesNumbered'
    BY <1>b, <1>6 DEF EndScan, producerVars, QueueIsTail, EntriesNumbered, Removed
  <2>2. FlushControl' /\ BatchHeadsQueue'
    BY <1>b, <1>c, <1>6 DEF EndScan, flushVars, FlushControl, BatchHeadsQueue
  <2>3. NoLostWakeup'
    BY <1>b, <1>c, <1>6, AsyncAssumption
       DEF EndScan, flushVars, producerVars, NoLostWakeup, SawEmpty
  <2>4. QED
    BY <1>a, <2>1, <2>2, <2>3 DEF AsyncInv
<1>7. CASE SaveReturns
  <2>1. QueueIsTail' /\ EntriesNumbered'
    BY <1>b, <1>7 DEF SaveReturns, producerVars, QueueIsTail, EntriesNumbered, Removed
  <2>2. FlushControl' /\ BatchHeadsQueue' /\ NoLostWakeup'
    BY <1>b, <1>c, <1>7
       DEF SaveReturns, flushVars, FlushControl, BatchHeadsQueue, NoLostWakeup, SawEmpty
  <2>3. QED
    BY <1>a, <2>1, <2>2 DEF AsyncInv
<1>8. CASE SaveThrows
  <2>1. /\ flushPc' = "idle"
        /\ UNCHANGED <<dataQueue, accepted, sent>>
    BY <1>8 DEF SaveThrows, AfterThrow, producerVars
  <2>2. QueueIsTail' /\ EntriesNumbered'
    BY <1>b, <2>1 DEF QueueIsTail, EntriesNumbered, Removed
  <2>3. FlushControl' /\ BatchHeadsQueue' /\ NoLostWakeup'
    BY <2>1 DEF FlushControl, BatchHeadsQueue, NoLostWakeup, SawEmpty
  <2>4. QED
    BY <1>a, <2>2, <2>3 DEF AsyncInv
<1>9. CASE PollEntry
  <2>1. /\ flushPc = "poll" /\ polls < size /\ polls' = polls + 1
        /\ Len(batch) = size /\ size - polls <= Len(dataQueue)
        /\ \A i \in 1..(size - polls) : dataQueue[i] = batch[polls + i]
        /\ flushPc' = AfterPoll
        /\ UNCHANGED <<accepted, sent, iterator, batch, size>>
    BY <1>b, <1>c, <1>9
       DEF PollEntry, producerVars, FlushControl, BatchHeadsQueue
  <2>2. dataQueue # <<>>
    BY <1>c, <2>1
  <2>3. /\ Len(dataQueue') = Len(dataQueue) - 1
        /\ \A i \in 1..(Len(dataQueue) - 1) : dataQueue'[i] = dataQueue[i + 1]
        /\ Removed' = Removed + 1
    BY <1>c, <1>9, <2>1, <2>2 DEF PollEntry, Removed
  <2>4. QueueIsTail'
    BY <1>b, <1>c, <2>1, <2>3 DEF QueueIsTail
  <2>5. EntriesNumbered'
    BY <1>b, <2>1 DEF EntriesNumbered
  <2>6. FlushControl'
    BY <1>c, <2>1 DEF FlushControl, AfterPoll
  <2>7. BatchHeadsQueue'
    <3>1. polls + 1 <= size /\ size - (polls + 1) <= Len(dataQueue')
      BY <1>c, <2>1, <2>3
    <3>2. ASSUME NEW i \in 1..(size - (polls + 1))
          PROVE  dataQueue'[i] = batch[(polls + 1) + i]
      <4>1. i + 1 \in 1..(size - polls) /\ i \in 1..(Len(dataQueue) - 1)
        BY <1>c, <2>1
      <4>2. dataQueue'[i] = dataQueue[i + 1]
        BY <2>3, <4>1
      <4>3. dataQueue[i + 1] = batch[polls + (i + 1)]
        BY <2>1, <4>1
      <4>4. polls + (i + 1) = (polls + 1) + i
        BY <1>c
      <4>5. QED
        BY <4>2, <4>3, <4>4
    <3>3. Len(batch') = size'
      BY <2>1
    <3>4. QED
      BY <2>1, <3>1, <3>2, <3>3 DEF BatchHeadsQueue
  <2>8. NoLostWakeup'
    BY <2>1 DEF NoLostWakeup, SawEmpty, AfterPoll
  <2>9. QED
    BY <1>a, <2>4, <2>5, <2>6, <2>7, <2>8 DEF AsyncInv
<1>10. CASE TakeControl
  BY <1>a, <1>b, <1>10
     DEF TakeControl, producerVars, flushVars, AsyncInv, QueueIsTail, Removed,
         EntriesNumbered, FlushControl, BatchHeadsQueue, NoLostWakeup, SawEmpty
<1>11. CASE TakeInterrupted
  BY <1>a, <1>b, <1>11
     DEF TakeInterrupted, producerVars, flushVars, AsyncInv, QueueIsTail, Removed,
         EntriesNumbered, FlushControl, BatchHeadsQueue, NoLostWakeup, SawEmpty
<1>12. CASE Shutdown
  BY <1>a, <1>b, <1>12
     DEF Shutdown, producerVars, flushVars, AsyncInv, QueueIsTail, Removed,
         EntriesNumbered, FlushControl, BatchHeadsQueue, NoLostWakeup, SawEmpty
<1>13. CASE UNCHANGED vars
  BY <1>a, <1>b, <1>13
     DEF vars, producerVars, flushVars, AsyncInv, QueueIsTail, Removed,
         EntriesNumbered, FlushControl, BatchHeadsQueue, NoLostWakeup, SawEmpty
<1>14. QED
  BY <1>1, <1>2, <1>3, <1>4, <1>5, <1>6, <1>7, <1>8, <1>9, <1>10, <1>11,
     <1>12, <1>13 DEF Next, Flush, SaveCall

LEMMA Invariance == Spec => []AsyncInv
BY InitInv, InvStep, PTL DEF Spec

\* Every reachable state of the queue is well typed.
THEOREM TypeCorrect == Spec => []TypeOK
<1>1. AsyncInv => TypeOK
  BY DEF AsyncInv
<1>2. QED
  BY <1>1, Invariance, PTL

\* flush never sleeps on an entry that nobody will signal.
THEOREM WakeupNotLost == Spec => []NoLostWakeup
<1>1. AsyncInv => NoLostWakeup
  BY DEF AsyncInv
<1>2. QED
  BY <1>1, Invariance, PTL

\* Polling by count removes exactly the entries that were copied.
THEOREM BatchIsHead == Spec => []BatchHeadsQueue
<1>1. AsyncInv => BatchHeadsQueue
  BY DEF AsyncInv
<1>2. QED
  BY <1>1, Invariance, PTL

-----------------------------------------------------------------------------
(* The queue implements the at-least-once log (PersistLog with             *)
(* done <- Done), and what was proved of the log is carried over to it.    *)

\* The confirmed entries are accepted, and the batch being saved is what
\* follows them.
LEMMA DoneRange ==
  ASSUME AsyncInv
  PROVE  /\ Removed \in Nat /\ Pending \in Nat
         /\ Done \in Nat /\ Removed <= Done /\ Done <= Len(accepted)
<1>1. /\ Len(dataQueue) \in Nat /\ Len(accepted) \in Nat
      /\ Len(dataQueue) <= Len(accepted)
      /\ size \in Nat /\ polls \in Nat
      /\ flushPc = "poll" => polls < size /\ size - polls <= Len(dataQueue)
  BY AsyncAssumption
     DEF AsyncInv, TypeOK, QueueIsTail, FlushControl, BatchHeadsQueue
<1>2. QED
  BY <1>1 DEF Removed, Pending, Done

LEMMA BatchFollows ==
  ASSUME AsyncInv, flushPc = "save", NEW n \in 0..size
  PROVE  /\ Done + n <= Len(accepted)
         /\ SubSeq(batch, 1, n) = Log!Following(n)
<1>1. /\ batch \in Seq(Entry) /\ accepted \in Seq(Entry)
      /\ dataQueue \in Seq(Entry)
      /\ Len(batch) = size /\ polls = 0 /\ size \in Nat /\ n \in Nat
      /\ Len(dataQueue) <= Len(accepted) /\ size <= Len(dataQueue)
      /\ \A i \in 1..Len(dataQueue) : dataQueue[i] = accepted[Removed + i]
      /\ \A i \in 1..size : dataQueue[i] = batch[i]
  BY AsyncAssumption
     DEF AsyncInv, TypeOK, QueueIsTail, FlushControl, BatchHeadsQueue
<1>2. Done = Removed /\ Removed \in Nat /\ Removed + n <= Len(accepted)
  BY <1>1, DoneRange DEF Done, Pending, Removed
<1> DEFINE s == SubSeq(batch, 1, n)
           t == SubSeq(accepted, Removed + 1, Removed + n)
<1>3. /\ s \in Seq(Entry) /\ Len(s) = n
      /\ \A i \in 1..n : s[i] = batch[i]
  BY <1>1
<1>4. /\ t \in Seq(Entry) /\ Len(t) = n
      /\ \A i \in 1..n : t[i] = accepted[Removed + i]
  BY <1>1, <1>2
<1>5. \A i \in 1..n : batch[i] = accepted[Removed + i]
  BY <1>1
<1>6. s = t
  <2> HIDE DEF s, t
  <2>1. \A i \in 1..n : s[i] = t[i]
    BY <1>3, <1>4, <1>5
  <2>2. QED
    BY <1>1, <1>3, <1>4, <2>1
<1>7. QED
  BY <1>2, <1>6 DEF Log!Following

\* A prefix is not disturbed by what is appended behind it.
LEMMA AppendKeepsPrefix ==
  ASSUME NEW S, NEW q \in Seq(S), NEW e \in S, NEW d \in 0..Len(q)
  PROVE  SubSeq(Append(q, e), 1, d) = SubSeq(q, 1, d)
<1> DEFINE s == SubSeq(Append(q, e), 1, d)
           t == SubSeq(q, 1, d)
<1>1. s \in Seq(S) /\ Len(s) = d /\ \A i \in 1..d : s[i] = q[i]
  OBVIOUS
<1>2. t \in Seq(S) /\ Len(t) = d /\ \A i \in 1..d : t[i] = q[i]
  OBVIOUS
<1> HIDE DEF s, t
<1>3. s = t
  BY <1>1, <1>2
<1>4. QED
  BY <1>3 DEF s, t

LEMMA InitRefines == Init => Log!LogInit
BY DEF Init, Log!LogInit, Done, Removed, Pending

\* What a step of the queue does to the log; it is repeated work (Attempt) only
\* when a save threw.
AcceptStep == (\E e \in Entry : Log!Accept(e)) /\ failures' = failures
ConfirmStep == (\E n \in 1..BatchSize : Log!Confirm(n)) /\ failures' = failures
AttemptStep == (\E n \in 1..BatchSize : Log!Attempt(n)) /\ failures' = failures + 1
SilentStep ==
  UNCHANGED <<accepted, stored, Done>> /\ failures' \in {failures, failures + 1}

LEMMA StepKinds ==
  ASSUME AsyncInv, AsyncInv', [Next]_vars
  PROVE  AcceptStep \/ ConfirmStep \/ AttemptStep \/ SilentStep
<1>a. /\ Len(dataQueue) \in Nat /\ Len(accepted) \in Nat
      /\ dataQueue \in Seq(Entry) /\ accepted \in Seq(Entry) /\ batch \in Seq(Entry)
      /\ stored \in Seq(Entry)
      /\ size \in 0..BatchSize /\ polls \in 0..BatchSize /\ BatchSize \in Nat
      /\ sent \in [Producers -> 0..MaxEntries]
  BY AsyncAssumption DEF AsyncInv, TypeOK
<1>1. ASSUME NEW p \in Producers, OfferData(p)
      PROVE  AcceptStep
  <2> DEFINE e == <<p, sent[p] + 1>>
  <2>1. e \in Entry
    <3>1. sent[p] + 1 \in 1..MaxEntries
      BY <1>1, <1>a, AsyncAssumption DEF OfferData
    <3>2. QED
      BY <3>1 DEF Entry
  <2>2. \A k \in 1..Len(accepted) : accepted[k] # e
    <3>1. ASSUME NEW k \in 1..Len(accepted), accepted[k] = e
          PROVE  FALSE
      <4>1. accepted[k][2] <= sent[accepted[k][1]]
        BY DEF AsyncInv, EntriesNumbered
      <4>2. sent[p] + 1 <= sent[p] /\ sent[p] \in Nat
        BY <1>a, <3>1, <4>1
      <4>3. QED
        BY <4>2
    <3>2. QED
      BY <3>1
  <2>3. /\ accepted' = Append(accepted, e) /\ dataQueue' = Append(dataQueue, e)
        /\ stored' = stored
        /\ flushPc' = flushPc /\ size' = size /\ polls' = polls
    BY <1>1 DEF OfferData, flushVars, consumerVars
  <2>4. Done' = Done
    <3> HIDE DEF e
    <3>1. /\ Len(accepted') = Len(accepted) + 1
          /\ Len(dataQueue') = Len(dataQueue) + 1
      BY <1>a, <2>1, <2>3
    <3>2. Removed' = Removed
      BY <1>a, <3>1 DEF Removed
    <3>3. QED
      BY <2>3, <3>2 DEF Done, Pending
  <2>5. Log!Accept(e)
    BY <2>2, <2>3, <2>4 DEF Log!Accept
  <2>6. failures' = failures
    BY <1>1 DEF OfferData, consumerVars
  <2>7. QED
    BY <2>1, <2>5, <2>6 DEF AcceptStep
<1>2. CASE SaveReturns
  <2>1. /\ flushPc = "save" /\ stored' = stored \o batch
        /\ flushPc' = "poll"
        /\ UNCHANGED <<dataQueue, accepted, size, polls, failures>>
    BY <1>2 DEF SaveReturns, producerVars, flushVars
  <2>2. polls = 0 /\ size > 0 /\ Len(batch) = size
    BY <2>1 DEF AsyncInv, FlushControl, BatchHeadsQueue
  <2>3. size \in 1..BatchSize /\ size \in 0..size
    BY <1>a, <2>2
  <2>4. Done + size <= Len(accepted) /\ SubSeq(batch, 1, size) = Log!Following(size)
    BY <2>1, <2>3, BatchFollows
  <2>5. batch = Log!Following(size)
    <3>1. SubSeq(batch, 1, size) = batch
      BY <1>a, <2>2
    <3>2. QED
      BY <2>4, <3>1
  <2>6. Done' = Done + size
    BY <1>a, <2>1, <2>2 DEF Done, Removed, Pending
  <2>7. Log!Confirm(size)
    BY <2>1, <2>4, <2>5, <2>6 DEF Log!Confirm
  <2>8. QED
    BY <2>1, <2>3, <2>7 DEF ConfirmStep
<1>3. CASE SaveThrows
  <2>1. /\ flushPc = "save" /\ flushPc' = "idle" /\ failures' = failures + 1
        /\ UNCHANGED <<dataQueue, accepted, size, polls>>
    BY <1>3 DEF SaveThrows, AfterThrow, producerVars, flushVars
  <2>2. PICK n \in 0..size : stored' = stored \o SubSeq(batch, 1, n)
    BY <1>3 DEF SaveThrows
  <2>3. Done' = Done
    BY <2>1 DEF Done, Removed, Pending
  <2>4. Done + n <= Len(accepted) /\ SubSeq(batch, 1, n) = Log!Following(n)
    BY <2>1, BatchFollows
  <2>5. CASE n = 0
    <3>1. SubSeq(batch, 1, 0) = <<>>
      BY <1>a
    <3>2. stored' = stored
      BY <1>a, <2>2, <2>5, <3>1
    <3>3. QED
      BY <2>1, <2>3, <3>2 DEF SilentStep
  <2>6. CASE n # 0
    <3>1. n \in 1..BatchSize
      BY <1>a, <2>6
    <3>2. Log!Attempt(n)
      BY <2>1, <2>2, <2>3, <2>4 DEF Log!Attempt
    <3>3. QED
      BY <2>1, <3>1, <3>2 DEF AttemptStep
  <2>7. QED
    BY <2>5, <2>6
<1>4. CASE PollEntry
  <2>1. /\ flushPc = "poll" /\ polls < size /\ polls' = polls + 1
        /\ size - polls <= Len(dataQueue) /\ size' = size
        /\ flushPc' = IF polls + 1 < size THEN "poll" ELSE "loop"
        /\ UNCHANGED <<accepted, stored, failures>>
    BY <1>4 DEF PollEntry, AfterPoll, producerVars, consumerVars, AsyncInv,
                FlushControl, BatchHeadsQueue
  <2>2. Len(dataQueue') = Len(dataQueue) - 1
    <3>1. dataQueue # <<>>
      BY <1>a, <2>1
    <3>2. dataQueue' = Tail(dataQueue)
      BY <1>4, <3>1 DEF PollEntry
    <3>3. QED
      BY <1>a, <3>1, <3>2
  <2>3. Done' = Done
    <3>1. Removed' = Removed + 1 /\ Removed \in Nat
      BY <1>a, <2>1, <2>2, DoneRange DEF Removed
    <3>2. Pending' = Pending - 1 /\ Pending \in Nat
      <4>1. CASE polls + 1 < size
        BY <1>a, <2>1, <4>1 DEF Pending
      <4>2. CASE polls + 1 = size
        BY <1>a, <2>1, <4>2 DEF Pending
      <4>3. QED
        BY <1>a, <2>1, <4>1, <4>2
    <3>3. QED
      BY <3>1, <3>2 DEF Done
  <2>4. QED
    BY <2>1, <2>3 DEF SilentStep
<1>5. ASSUME NEW p \in Producers, OfferControl(p)
      PROVE  SilentStep
  BY <1>5 DEF SilentStep, OfferControl, flushVars, consumerVars, Done, Removed, Pending
<1>6. CASE RunFlush \/ BeginScan \/ EndScan \/ TakeControl \/ TakeInterrupted
  <2>1. /\ flushPc # "poll" /\ flushPc' # "poll"
        /\ UNCHANGED <<dataQueue, accepted, stored, failures>>
    BY <1>6 DEF RunFlush, BeginScan, EndScan, TakeControl, TakeInterrupted,
                producerVars, consumerVars
  <2>2. QED
    BY <2>1 DEF SilentStep, Done, Removed, Pending
<1>7. CASE ScanEntry
  BY <1>7 DEF SilentStep, ScanEntry, producerVars, consumerVars, Done, Removed, Pending
<1>8. CASE Shutdown
  BY <1>8 DEF SilentStep, Shutdown, producerVars, flushVars, consumerVars, Done, Removed, Pending
<1>9. CASE UNCHANGED vars
  BY <1>9 DEF SilentStep, vars, producerVars, flushVars, consumerVars, Done, Removed, Pending
<1>10. QED
  BY <1>1, <1>2, <1>3, <1>4, <1>5, <1>6, <1>7, <1>8, <1>9
     DEF Next, Flush, SaveCall

LEMMA StepRefines == AsyncInv /\ AsyncInv' /\ [Next]_vars => [Log!LogNext]_Log!logVars
<1> SUFFICES ASSUME AsyncInv, AsyncInv', [Next]_vars
             PROVE  Log!LogNext \/ UNCHANGED <<accepted, stored, Done>>
  BY DEF Log!logVars
<1>1. AcceptStep \/ ConfirmStep \/ AttemptStep => Log!LogNext
  BY DEF AcceptStep, ConfirmStep, AttemptStep, Log!LogNext
<1>2. QED
  BY <1>1, StepKinds DEF SilentStep

\* Every behaviour of the queue is a behaviour of the at-least-once log.
THEOREM Refinement == Spec => LogImplemented
<1>1. Spec => []AsyncInv
  BY Invariance
<1>2. QED
  BY <1>1, InitRefines, StepRefines, PTL DEF Spec, LogImplemented, Log!LogSpec

\* As long as no save threw, the consumer holds exactly the confirmed entries,
\* each one once: flush itself never hands an entry over twice.
THEOREM StoredOnce == Spec => []OnceUnlessFailed
<1>1. Init => OnceUnlessFailed
  <2> SUFFICES ASSUME Init
               PROVE  <<>> = SubSeq(<<>>, 1, 0)
    BY DEF Init, OnceUnlessFailed, Done, Removed, Pending
  <2>1. QED
    OBVIOUS
<1>2. ASSUME OnceUnlessFailed, AsyncInv, AsyncInv', [Next]_vars
      PROVE  OnceUnlessFailed'
  <2>1. /\ accepted \in Seq(Entry) /\ stored \in Seq(Entry) /\ failures \in Nat
        /\ Done \in Nat /\ Done <= Len(accepted)
    BY <1>2, DoneRange, AsyncAssumption DEF AsyncInv, TypeOK
  <2>2. CASE AcceptStep
    <3>1. PICK e \in Entry : Log!Accept(e)
      BY <2>2 DEF AcceptStep
    <3>2. /\ accepted' = Append(accepted, e) /\ stored' = stored /\ Done' = Done
          /\ failures' = failures
      BY <2>2, <3>1 DEF AcceptStep, Log!Accept
    <3>3. SubSeq(Append(accepted, e), 1, Done) = SubSeq(accepted, 1, Done)
      BY <2>1, AppendKeepsPrefix
    <3>4. QED
      BY <1>2, <3>2, <3>3 DEF OnceUnlessFailed
  <2>3. CASE ConfirmStep
    <3>1. PICK n \in 1..BatchSize : Log!Confirm(n)
      BY <2>3 DEF ConfirmStep
    <3>2. /\ Done + n <= Len(accepted)
          /\ stored' = stored \o SubSeq(accepted, Done + 1, Done + n)
          /\ accepted' = accepted /\ Done' = Done + n /\ failures' = failures
      BY <2>3, <3>1 DEF ConfirmStep, Log!Confirm, Log!Following
    <3>3. n \in Nat
      BY AsyncAssumption
    <3>4. SubSeq(accepted, 1, Done) \o SubSeq(accepted, Done + 1, Done + n)
            = SubSeq(accepted, 1, Done + n)
      <4>1. /\ 1 \in 1..(Len(accepted) + 1) /\ Done \in (1 - 1)..Len(accepted)
            /\ Done + n \in Done..Len(accepted)
        BY <2>1, <3>2, <3>3
      <4>2. QED
        BY <2>1, <4>1, ConcatAdjacentSubSeq
    <3>5. QED
      BY <1>2, <3>2, <3>4 DEF OnceUnlessFailed
  <2>4. CASE AttemptStep \/ SilentStep
    BY <1>2, <2>1, <2>4 DEF AttemptStep, SilentStep, OnceUnlessFailed
  <2>5. QED
    BY <1>2, <2>2, <2>3, <2>4, StepKinds
<1>3. QED
  BY <1>1, <1>2, Invariance, PTL DEF Spec

-----------------------------------------------------------------------------
(* What the log promises, whatever is handed over and however many attempts *)
(* fail, and what the queue inherits from it                                 *)

\* The consumer holds nothing that was not handed over.
StoredWasAccepted ==
  \A i \in 1..Len(stored) : \E k \in 1..Len(accepted) : stored[i] = accepted[k]

\* The strengthening that makes the order inductive: a batch begins right after
\* the confirmed entries, all of which are stored, and names are not reused.
LogInv ==
  /\ Log!LogTypeOK
  /\ Log!AcceptedOnce
  /\ Log!ConfirmedIsStored
  /\ StoredWasAccepted
  /\ Log!StoredInOrder

\* The consumer's log is extended by the next n entries, position by position.
Extended(n) ==
  /\ Len(stored') = Len(stored) + n
  /\ \A i \in 1..Len(stored) : stored'[i] = stored[i]
  /\ \A i \in (Len(stored) + 1)..(Len(stored) + n) :
        stored'[i] = accepted[Done + (i - Len(stored))]

\* What concatenation does to the positions of a sequence.
LEMMA ConcatPositions ==
  ASSUME NEW S, NEW s \in Seq(S), NEW t \in Seq(S)
  PROVE  /\ s \o t \in Seq(S)
         /\ Len(s \o t) = Len(s) + Len(t)
         /\ \A i \in 1..Len(s) : (s \o t)[i] = s[i]
         /\ \A i \in (Len(s) + 1)..(Len(s) + Len(t)) :
               /\ i - Len(s) \in 1..Len(t)
               /\ (s \o t)[i] = t[i - Len(s)]
OBVIOUS

LEMMA StoredPositions ==
  ASSUME Log!LogTypeOK, NEW n \in Nat, Log!Confirm(n) \/ Log!Attempt(n)
  PROVE  stored' \in Seq(Entry) /\ Extended(n)
<1> DEFINE F == Log!Following(n)
<1>1. /\ F \in Seq(Entry)
      /\ Len(F) = n
      /\ \A r \in 1..n : F[r] = accepted[Done + r]
  <2>1. Done + n <= Len(accepted)
    BY DEF Log!Confirm, Log!Attempt
  <2>2. accepted \in Seq(Entry) /\ Done \in Nat /\ Len(accepted) \in Nat
    BY DEF Log!LogTypeOK
  <2>3. F = SubSeq(accepted, Done + 1, Done + n)
    BY DEF Log!Following
  <2>4. Len(F) = n /\ F \in Seq(Entry)
    BY <2>1, <2>2, <2>3
  <2>5. \A r \in 1..n : F[r] = accepted[Done + r]
    BY <2>1, <2>2, <2>3
  <2>6. QED
    BY <2>4, <2>5
<1>2. stored \in Seq(Entry)
  BY DEF Log!LogTypeOK
<1>3. stored' = stored \o F
  BY DEF Log!Confirm, Log!Attempt
<1> HIDE DEF F
<1>4. /\ stored' \in Seq(Entry)
      /\ Len(stored') = Len(stored) + n
      /\ \A i \in 1..Len(stored) : stored'[i] = stored[i]
      /\ \A i \in (Len(stored) + 1)..(Len(stored) + n) :
               /\ i - Len(stored) \in 1..n
               /\ stored'[i] = F[i - Len(stored)]
  BY <1>1, <1>2, <1>3, ConcatPositions
<1>5. QED
  BY <1>1, <1>4 DEF Extended

\* Storing the next n entries keeps what was confirmed and makes the n entries
\* durable, adds nothing that was not accepted, and keeps the order.
LEMMA StoreFollowing ==
  ASSUME LogInv, NEW n \in Nat, Done + n <= Len(accepted),
         Extended(n), accepted' = accepted
  PROVE  /\ \A k \in 1..(Done + n) :
               \E i \in 1..Len(stored') : stored'[i] = accepted[k]
         /\ StoredWasAccepted'
         /\ Log!StoredInOrder'
<1> DEFINE L == Len(stored)
<1>1. /\ L \in Nat /\ Done \in Nat /\ Len(accepted) \in Nat
      /\ Done <= Len(accepted)
  BY DEF LogInv, Log!LogTypeOK
<1>2. /\ Len(stored') = L + n
      /\ \A i \in 1..L : stored'[i] = stored[i]
      /\ \A i \in (L + 1)..(L + n) : stored'[i] = accepted[Done + (i - L)]
  BY DEF Extended
<1>3. \A k \in 1..Done : \E i \in 1..L : stored[i] = accepted[k]
  BY DEF LogInv, Log!ConfirmedIsStored
<1>4. \A j, k \in 1..Len(accepted) : accepted[j] = accepted[k] => j = k
  BY DEF LogInv, Log!AcceptedOnce
<1> HIDE DEF L
<1>5. ASSUME NEW k \in (Done + 1)..(Done + n)
      PROVE  /\ L + (k - Done) \in (L + 1)..(L + n)
             /\ stored'[L + (k - Done)] = accepted[k]
  <2>1. /\ L + (k - Done) \in (L + 1)..(L + n)
        /\ Done + ((L + (k - Done)) - L) = k
    BY <1>1
  <2>2. QED
    BY <1>2, <2>1
<1>6. ASSUME NEW k \in 1..(Done + n)
      PROVE  \E i \in 1..Len(stored') : stored'[i] = accepted[k]
  <2>1. CASE k \in 1..Done
    <3>1. PICK i \in 1..L : stored[i] = accepted[k]
      BY <1>3, <2>1
    <3>2. i \in 1..Len(stored') /\ stored'[i] = accepted[k]
      BY <1>1, <1>2, <3>1
    <3>3. QED
      BY <3>2
  <2>2. CASE k \in (Done + 1)..(Done + n)
    BY <1>1, <1>2, <1>5, <2>2
  <2>3. QED
    BY <1>1, <2>1, <2>2
<1>7. StoredWasAccepted'
  <2> SUFFICES ASSUME NEW i \in 1..(L + n)
               PROVE  \E k \in 1..Len(accepted) : stored'[i] = accepted[k]
    BY <1>2 DEF StoredWasAccepted
  <2>1. CASE i \in 1..L
    BY <1>1, <1>2, <2>1 DEF LogInv, StoredWasAccepted, L
  <2>2. CASE i \in (L + 1)..(L + n)
    <3>1. stored'[i] = accepted[Done + (i - L)]
      BY <1>2, <2>2
    <3>2. Done + (i - L) \in 1..Len(accepted)
      BY <1>1, <2>2
    <3>3. QED
      BY <3>1, <3>2
  <2>3. QED
    BY <1>1, <2>1, <2>2
<1>8. Log!StoredInOrder'
  <2> SUFFICES ASSUME NEW i \in 1..(L + n), NEW k \in 1..Len(accepted),
                      stored'[i] = accepted[k], NEW j \in 1..(k - 1)
               PROVE  \E m \in 1..(i - 1) : stored'[m] = accepted[j]
    BY <1>2 DEF Log!StoredInOrder
  <2>1. CASE i \in 1..L
    <3>1. \E m \in 1..(i - 1) : stored[m] = accepted[j]
      BY <1>1, <1>2, <2>1 DEF LogInv, Log!StoredInOrder, L
    <3>2. QED
      BY <1>1, <1>2, <2>1, <3>1
  <2>2. CASE i \in (L + 1)..(L + n)
    <3>1. k = Done + (i - L)
      <4>1. /\ Done + (i - L) \in 1..Len(accepted)
            /\ accepted[k] = accepted[Done + (i - L)]
        BY <1>1, <1>2, <2>2
      <4>2. QED
        BY <1>4, <4>1
    <3>2. CASE j \in 1..Done
      <4>1. PICK m \in 1..L : stored[m] = accepted[j]
        BY <1>3, <3>2
      <4>2. m \in 1..(i - 1) /\ stored'[m] = accepted[j]
        BY <1>1, <1>2, <2>2, <4>1
      <4>3. QED
        BY <4>2
    <3>3. CASE j \in (Done + 1)..(k - 1)
      <4>1. /\ j \in (Done + 1)..(Done + n)
            /\ L + (j - Done) \in 1..(i - 1)
        BY <1>1, <2>2, <3>1, <3>3
      <4>2. QED
        BY <1>5, <4>1
    <3>4. QED
      BY <1>1, <3>2, <3>3
  <2>3. QED
    BY <1>1, <2>1, <2>2
<1>9. QED
  BY <1>6, <1>7, <1>8

LEMMA LogInitInv == Log!LogInit => LogInv
BY DEF Log!LogInit, LogInv, Log!LogTypeOK, Log!AcceptedOnce, Log!ConfirmedIsStored,
       StoredWasAccepted, Log!StoredInOrder

LEMMA LogNextInv == LogInv /\ [Log!LogNext]_(Log!logVars) => LogInv'
<1> SUFFICES ASSUME LogInv, [Log!LogNext]_(Log!logVars)
             PROVE  LogInv'
  OBVIOUS
<1>0. /\ accepted \in Seq(Entry) /\ stored \in Seq(Entry)
      /\ Len(stored) \in Nat /\ Len(accepted) \in Nat
      /\ Done \in Nat /\ Done <= Len(accepted)
  BY DEF LogInv, Log!LogTypeOK
<1>1. ASSUME NEW e \in Entry, Log!Accept(e)
      PROVE  LogInv'
  <2>1. /\ accepted' \in Seq(Entry)
        /\ Len(accepted') = Len(accepted) + 1
        /\ \A k \in 1..Len(accepted) : accepted'[k] = accepted[k]
        /\ accepted'[Len(accepted) + 1] = e
        /\ \A k \in 1..Len(accepted) : accepted[k] # e
        /\ stored' = stored /\ Done' = Done
    BY <1>0, <1>1 DEF Log!Accept
  <2>2. Log!LogTypeOK'
    BY <1>0, <2>1 DEF Log!LogTypeOK
  <2>3. Log!AcceptedOnce'
    BY <1>0, <2>1 DEF LogInv, Log!AcceptedOnce
  <2>4. Log!ConfirmedIsStored'
    BY <1>0, <2>1 DEF LogInv, Log!ConfirmedIsStored
  <2>5. StoredWasAccepted'
    BY <1>0, <2>1 DEF LogInv, StoredWasAccepted
  <2>6. Log!StoredInOrder'
    <3> SUFFICES ASSUME NEW i \in 1..Len(stored),
                        NEW k \in 1..(Len(accepted) + 1),
                        stored[i] = accepted'[k], NEW j \in 1..(k - 1)
                 PROVE  \E m \in 1..(i - 1) : stored[m] = accepted'[j]
      BY <2>1 DEF Log!StoredInOrder
    <3>1. k \in 1..Len(accepted)
      <4>1. PICK l \in 1..Len(accepted) : stored[i] = accepted[l]
        BY DEF LogInv, StoredWasAccepted
      <4>2. k # Len(accepted) + 1
        BY <2>1, <4>1
      <4> QED
        BY <1>0, <4>2
    <3>2. /\ stored[i] = accepted[k]
          /\ j \in 1..Len(accepted) /\ accepted'[j] = accepted[j]
      BY <1>0, <2>1, <3>1
    <3>3. QED
      BY <3>1, <3>2 DEF LogInv, Log!StoredInOrder
  <2>7. QED
    BY <2>2, <2>3, <2>4, <2>5, <2>6 DEF LogInv
<1>2. ASSUME NEW n \in 1..BatchSize, Log!Confirm(n)
      PROVE  LogInv'
  <2>1. /\ n \in Nat /\ Done + n <= Len(accepted)
        /\ accepted' = accepted /\ Done' = Done + n
    BY <1>2 DEF Log!Confirm
  <2>2. stored' \in Seq(Entry) /\ Extended(n)
    BY <1>2, <2>1, StoredPositions DEF LogInv
  <2>3. Log!LogTypeOK' /\ Log!AcceptedOnce'
    BY <1>0, <2>1, <2>2 DEF LogInv, Log!LogTypeOK, Log!AcceptedOnce
  <2>4. Log!ConfirmedIsStored' /\ StoredWasAccepted' /\ Log!StoredInOrder'
    BY <2>1, <2>2, StoreFollowing DEF Log!ConfirmedIsStored
  <2>5. QED
    BY <2>3, <2>4 DEF LogInv
<1>3. ASSUME NEW n \in 1..BatchSize, Log!Attempt(n)
      PROVE  LogInv'
  <2>1. /\ n \in Nat /\ Done + n <= Len(accepted)
        /\ accepted' = accepted /\ Done' = Done
    BY <1>3 DEF Log!Attempt
  <2>2. stored' \in Seq(Entry) /\ Extended(n)
    BY <1>3, <2>1, StoredPositions DEF LogInv
  <2>3. Log!LogTypeOK' /\ Log!AcceptedOnce'
    BY <1>0, <2>1, <2>2 DEF LogInv, Log!LogTypeOK, Log!AcceptedOnce
  <2>4. Log!ConfirmedIsStored'
    <3>1. \A k \in 1..(Done + n) :
             \E i \in 1..Len(stored') : stored'[i] = accepted[k]
      BY <2>1, <2>2, StoreFollowing
    <3>2. 1..Done \subseteq 1..(Done + n)
      BY <1>0, <2>1
    <3>3. QED
      BY <2>1, <3>1, <3>2 DEF Log!ConfirmedIsStored
  <2>5. StoredWasAccepted' /\ Log!StoredInOrder'
    BY <2>1, <2>2, StoreFollowing
  <2>6. QED
    BY <2>3, <2>4, <2>5 DEF LogInv
<1>4. CASE UNCHANGED Log!logVars
  <2>1. accepted' = accepted /\ stored' = stored /\ Done' = Done
    BY <1>4 DEF Log!logVars
  <2>2. Log!LogTypeOK' /\ Log!AcceptedOnce'
    BY <2>1 DEF LogInv, Log!LogTypeOK, Log!AcceptedOnce
  <2>3. Log!ConfirmedIsStored' /\ StoredWasAccepted'
    BY <2>1 DEF LogInv, Log!ConfirmedIsStored, StoredWasAccepted
  <2>4. Log!StoredInOrder'
    BY <2>1 DEF LogInv, Log!StoredInOrder
  <2>5. QED
    BY <2>2, <2>3, <2>4 DEF LogInv
<1>5. QED
  BY <1>1, <1>2, <1>3, <1>4 DEF Log!LogNext

\* Every reachable state of the log is well typed and has no more confirmed than
\* accepted entries.
THEOREM LogTypeCorrect == Log!LogSpec => []Log!LogTypeOK
<1>1. LogInv => Log!LogTypeOK
  BY DEF LogInv
<1>2. QED
  BY <1>1, LogInitInv, LogNextInv, PTL DEF Log!LogSpec

\* The consumer sees the entries in the order of acceptance.
THEOREM LogInOrder == Log!LogSpec => []Log!StoredInOrder
<1>1. LogInv => Log!StoredInOrder
  BY DEF LogInv
<1>2. QED
  BY <1>1, LogInitInv, LogNextInv, PTL DEF Log!LogSpec

\* What the log confirmed is durable.
THEOREM LogConfirmed == Log!LogSpec => []Log!ConfirmedIsStored
<1>1. LogInv => Log!ConfirmedIsStored
  BY DEF LogInv
<1>2. QED
  BY <1>1, LogInitInv, LogNextInv, PTL DEF Log!LogSpec

\* The consumer first sees the entries in the order in which they were offered.
THEOREM OrderKept == Spec => []StoredInOrder
<1>1. Log!StoredInOrder => StoredInOrder
  BY DEF Log!StoredInOrder, StoredInOrder
<1>2. QED
  BY <1>1, Refinement, LogInOrder, PTL DEF LogImplemented

\* An entry handed over is durable or still queued.
THEOREM NoEntryLost == Spec => []NothingLost
<1>1. AsyncInv /\ Log!ConfirmedIsStored => NothingLost
  <2> SUFFICES ASSUME AsyncInv, Log!ConfirmedIsStored, NEW k \in 1..Len(accepted)
               PROVE  Contains(stored, accepted[k]) \/ Contains(dataQueue, accepted[k])
    BY DEF NothingLost
  <2>0. Removed \in Nat /\ Done \in Nat /\ Removed <= Done
    BY DoneRange
  <2>1. /\ Len(dataQueue) \in Nat /\ Len(accepted) \in Nat
        /\ \A i \in 1..Len(dataQueue) : dataQueue[i] = accepted[Removed + i]
    BY DEF AsyncInv, TypeOK, QueueIsTail
  <2>2. CASE k \in 1..Removed
    <3>1. k \in 1..Done
      BY <2>0, <2>2
    <3>2. QED
      BY <3>1 DEF Log!ConfirmedIsStored, Contains
  <2>3. CASE k > Removed
    <3>1. /\ k - Removed \in 1..Len(dataQueue)
          /\ Removed + (k - Removed) = k
      BY <2>0, <2>1, <2>3 DEF Removed
    <3>2. dataQueue[k - Removed] = accepted[k]
      BY <2>1, <3>1
    <3>3. QED
      BY <3>1, <3>2 DEF Contains
  <2>4. QED
    BY <2>0, <2>2, <2>3
<1>2. QED
  BY <1>1, Invariance, Refinement, LogConfirmed, PTL DEF LogImplemented
=============================================================================
