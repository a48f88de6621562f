---------------------------- MODULE AsyncPersist ----------------------------
(***************************************************************************)
(* The asynchronous persist queue of enterprise_db: threads call           *)
(* QueueFrontServiceImpl.save, which puts the entry in an unbounded        *)
(* ConcurrentLinkedQueue and then a token in an ArrayBlockingQueue of      *)
(* capacity 1; the scheduler runs AsyncPersistServiceImpl.flush, whose     *)
(* endless loop copies up to BatchSize entries out of the data queue with  *)
(* an iterator, hands the copy to QueueConsumer.save, polls as many        *)
(* entries as it copied, and waits for a token when it copied none.        *)
(*                                                                         *)
(* flush is scheduled with a fixed delay and one task, so it never overlaps*)
(* itself; an exception ends the run and the scheduler starts a new one.   *)
(* Closing the application context interrupts the flush thread and no new  *)
(* run is started.                                                         *)
(***************************************************************************)
EXTENDS Naturals, Sequences

CONSTANTS Producers,    \* threads that call QueueFrontServiceImpl.save
          MaxEntries,   \* bound: calls of save by one producer
          BatchSize,    \* queue_context.xml, batchSize
          MaxFailures   \* bound: saves of the consumer that throw

ASSUME AsyncAssumption ==
  /\ MaxEntries \in Nat
  /\ BatchSize \in Nat \ {0}
  /\ MaxFailures \in Nat

VARIABLES
  dataQueue,      \* ConcurrentLinkedQueue<QueueEntry>
  controlQueue,   \* tokens in the ArrayBlockingQueue<Boolean>
  producerPc,     \* where each producer is in save
  sent,           \* calls of save each producer has begun
  flushPc,        \* where the flush thread is
  iterator,       \* position of the iterator's prefetched entry, 0 if none
  batch,          \* AsyncPersistServiceImpl.batch
  size,           \* flush's local of that name
  polls,          \* index of the loop that polls
  interrupted,    \* the context was closed
  stored,         \* what the consumer has made durable
  accepted,       \* history: every entry the data queue took
  failures        \* saves that threw

producerVars == <<producerPc, sent, accepted>>
flushVars == <<iterator, batch, size, polls>>
consumerVars == <<stored, failures>>
vars == <<dataQueue, controlQueue, producerVars, flushPc, flushVars,
          interrupted, consumerVars>>

\* new ArrayBlockingQueue<>(1)
ControlCapacity == 1

\* The n-th object producer p hands over.
Entry == Producers \X (1..MaxEntries)

Init ==
  /\ dataQueue = <<>>
  /\ controlQueue = 0
  /\ producerPc = [p \in Producers |-> "idle"]
  /\ sent = [p \in Producers |-> 0]
  /\ flushPc = "idle"
  /\ iterator = 0
  /\ batch = <<>>
  /\ size = 0
  /\ polls = 0
  /\ interrupted = FALSE
  /\ stored = <<>>
  /\ accepted = <<>>
  /\ failures = 0

-----------------------------------------------------------------------------
(* Faulty variants of the helpers below; no action uses them.  Replacing a   *)
(* helper by its variant shows which property notices the slip.              *)

TokensUncapped == controlQueue + 1
TokensIfWaiting == IF flushPc = "take" THEN ControlCapacity ELSE controlQueue
PeekAgain == iterator
ThrowSwallowed == "poll"
PollOneTooMany == IF polls + 1 <= size THEN "poll" ELSE "loop"
PollOneTooFew == IF polls + 2 < size THEN "poll" ELSE "loop"
OnlyFirstRun == ~interrupted /\ failures = 0

-----------------------------------------------------------------------------
(* QueueFrontServiceImpl.save *)

OfferData(p) ==
  /\ producerPc[p] = "idle"
  /\ sent[p] < MaxEntries
  /\ LET entry == <<p, sent[p] + 1>>
     IN  /\ dataQueue' = Append(dataQueue, entry)
         /\ accepted' = Append(accepted, entry)
  /\ sent' = [sent EXCEPT ![p] = @ + 1]
  /\ producerPc' = [producerPc EXCEPT ![p] = "signal"]
  /\ UNCHANGED <<controlQueue, flushPc, flushVars, interrupted, consumerVars>>

\* offer on a full control queue drops the token.
TokensAfterOffer ==
  IF controlQueue < ControlCapacity THEN controlQueue + 1 ELSE controlQueue

OfferControl(p) ==
  /\ producerPc[p] = "signal"
  /\ controlQueue' = TokensAfterOffer
  /\ producerPc' = [producerPc EXCEPT ![p] = "idle"]
  /\ UNCHANGED <<dataQueue, sent, accepted, flushPc, flushVars, interrupted,
                 consumerVars>>

-----------------------------------------------------------------------------
(* AsyncPersistServiceImpl.flush *)

\* The periodic task survives a run that failed, and ends with its scheduler.
Rescheduled == ~interrupted

\* The scheduler starts the next run, the delay after the last one ended.
RunFlush ==
  /\ flushPc = "idle"
  /\ Rescheduled
  /\ flushPc' = "loop"
  /\ UNCHANGED <<dataQueue, controlQueue, producerVars, flushVars, interrupted,
                 consumerVars>>

\* A fresh batch and a new iterator, which prefetches the head of the queue.
BeginScan ==
  /\ flushPc = "loop"
  /\ batch' = <<>>
  /\ size' = 0
  /\ polls' = 0
  /\ iterator' = IF dataQueue = <<>> THEN 0 ELSE 1
  /\ flushPc' = "scan"
  /\ UNCHANGED <<dataQueue, controlQueue, producerVars, interrupted,
                 consumerVars>>

\* The iterator that finds no further entry never finds another.
NextOfIterator == IF iterator < Len(dataQueue) THEN iterator + 1 ELSE 0

\* One round of the copying loop: next returns the prefetched entry and
\* prefetches the one after it.
ScanEntry ==
  /\ flushPc = "scan"
  /\ size < BatchSize
  /\ iterator # 0
  /\ batch' = Append(batch, dataQueue[iterator])
  /\ size' = size + 1
  /\ iterator' = NextOfIterator
  /\ UNCHANGED <<dataQueue, controlQueue, producerVars, flushPc, polls,
                 interrupted, consumerVars>>

\* The loop is left at BatchSize entries or when hasNext is false; an empty
\* batch is neither saved nor polled for.
EndScan ==
  /\ flushPc = "scan"
  /\ size = BatchSize \/ iterator = 0
  /\ flushPc' = IF size > 0 THEN "save" ELSE "take"
  /\ UNCHANGED <<dataQueue, controlQueue, producerVars, flushVars, interrupted,
                 consumerVars>>

\* consumer.save(batch) returns.
SaveReturns ==
  /\ flushPc = "save"
  /\ stored' = stored \o batch
  /\ flushPc' = "poll"
  /\ UNCHANGED <<dataQueue, controlQueue, producerVars, flushVars, interrupted,
                 failures>>

\* An exception of the consumer leaves flush.
AfterThrow == "idle"

\* consumer.save(batch) throws, having stored some prefix of the batch; flush
\* ends and the queue keeps the entries.
SaveThrows ==
  /\ flushPc = "save"
  /\ failures < MaxFailures
  /\ \E n \in 0..size : stored' = stored \o SubSeq(batch, 1, n)
  /\ failures' = failures + 1
  /\ flushPc' = AfterThrow
  /\ UNCHANGED <<dataQueue, controlQueue, producerVars, flushVars, interrupted>>

AfterPoll == IF polls + 1 < size THEN "poll" ELSE "loop"

\* One round of the loop that removes what was copied; after the last, size is
\* not 0 and the endless loop begins again.
PollEntry ==
  /\ flushPc = "poll"
  /\ dataQueue' = IF dataQueue = <<>> THEN <<>> ELSE Tail(dataQueue)
  /\ polls' = polls + 1
  /\ flushPc' = AfterPoll
  /\ UNCHANGED <<controlQueue, producerVars, iterator, batch, size, interrupted,
                 consumerVars>>

\* controlQueue.take() returns.
TakeControl ==
  /\ flushPc = "take"
  /\ ~interrupted
  /\ controlQueue > 0
  /\ controlQueue' = controlQueue - 1
  /\ flushPc' = "loop"
  /\ UNCHANGED <<dataQueue, producerVars, flushVars, interrupted, consumerVars>>

\* controlQueue.take() throws InterruptedException, token or not.
TakeInterrupted ==
  /\ flushPc = "take"
  /\ interrupted
  /\ flushPc' = "idle"
  /\ UNCHANGED <<dataQueue, controlQueue, producerVars, flushVars, interrupted,
                 consumerVars>>

\* The application context is closed: the scheduler interrupts its threads.
Shutdown ==
  /\ ~interrupted
  /\ interrupted' = TRUE
  /\ UNCHANGED <<dataQueue, controlQueue, producerVars, flushPc, flushVars,
                 consumerVars>>

-----------------------------------------------------------------------------
SaveCall == SaveReturns \/ SaveThrows

Flush ==
  \/ RunFlush
  \/ BeginScan
  \/ ScanEntry
  \/ EndScan
  \/ SaveCall
  \/ PollEntry
  \/ TakeControl
  \/ TakeInterrupted

Next ==
  \/ \E p \in Producers : OfferData(p) \/ OfferControl(p)
  \/ Flush
  \/ Shutdown

Spec == Init /\ [][Next]_vars

\* The scheduler runs the task again, its thread is never starved, a call of
\* the consumer comes back, and a caller inside save finishes it.
FairSpec ==
  /\ Spec
  /\ WF_vars(Flush)
  /\ \A p \in Producers : WF_vars(OfferControl(p))

-----------------------------------------------------------------------------
TypeOK ==
  /\ dataQueue \in Seq(Entry)
  /\ controlQueue \in 0..ControlCapacity
  /\ producerPc \in [Producers -> {"idle", "signal"}]
  /\ sent \in [Producers -> 0..MaxEntries]
  /\ flushPc \in {"idle", "loop", "scan", "save", "poll", "take"}
  /\ iterator \in Nat
  /\ batch \in Seq(Entry)
  /\ size \in 0..BatchSize
  /\ polls \in 0..BatchSize
  /\ interrupted \in BOOLEAN
  /\ stored \in Seq(Entry)
  /\ accepted \in Seq(Entry)
  /\ failures \in 0..MaxFailures

\* Entries already polled off the data queue.
Removed == Len(accepted) - Len(dataQueue)

\* Entries of the current batch that were saved and not yet polled.
Pending == IF flushPc = "poll" THEN size - polls ELSE 0

\* Entries in a batch whose save returned.
Done == Removed + Pending

\* flush found the data queue empty: it waits or is about to.
SawEmpty == flushPc = "take" \/ (flushPc = "scan" /\ iterator = 0 /\ size = 0)

Contains(s, e) == \E i \in 1..Len(s) : s[i] = e

\* Whatever flush is doing, an entry that save handed over is durable or still
\* in the data queue: a save that throws half-way, a producer that offers
\* during the scan or between the polls never makes flush drop one.
NothingLost ==
  \A k \in 1..Len(accepted) :
     Contains(stored, accepted[k]) \/ Contains(dataQueue, accepted[k])

\* From the moment it is copied until its last poll, what flush has not polled
\* of its batch is what the head of the data queue holds: polling by count
\* removes exactly the entries that were saved.
BatchHeadsQueue ==
  flushPc \in {"scan", "save", "poll"} =>
     /\ Len(batch) = size
     /\ size - polls <= Len(dataQueue)
     /\ \A i \in 1..(size - polls) : dataQueue[i] = batch[polls + i]

\* The consumer first sees the entries in the order in which they were offered,
\* whatever is saved again after a failure.
StoredInOrder ==
  \A i \in 1..Len(stored), k \in 1..Len(accepted) :
     stored[i] = accepted[k] =>
        \A j \in 1..(k - 1) : \E m \in 1..(i - 1) : stored[m] = accepted[j]

\* Repetitions come from saves that threw and from nothing else: as long as none
\* did, the consumer holds exactly the confirmed entries, each one once.
OnceUnlessFailed ==
  failures = 0 => stored = SubSeq(accepted, 1, Done)

\* No lost wakeup: while flush waits, or is about to wait because its scan found
\* the queue empty, an entry that arrived behind the scan has a token in the
\* control queue or a producer that has still to offer one.
NoLostWakeup ==
  (SawEmpty /\ dataQueue # <<>>) =>
     controlQueue > 0 \/ \E p \in Producers : producerPc[p] = "signal"

\* Every entry handed over is made durable in the end, unless the application
\* is closed: a token dropped by the full control queue is never missed.
EventuallyStored ==
  \A e \in Entry : Contains(accepted, e) ~> (Contains(stored, e) \/ interrupted)

\* The queue implements the at-least-once log.
Log == INSTANCE PersistLog WITH done <- Done
LogImplemented == Log!LogSpec
=============================================================================
