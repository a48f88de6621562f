--------------------------- MODULE LegacyPersist ---------------------------
(***************************************************************************)
(* The earlier persist queue: fillers that offer entries, and a flush that *)
(* only peeks while it fills its batch, never clears the batch, and counts *)
(* one entry fewer than it copied.                                         *)
(***************************************************************************)
EXTENDS Naturals, Sequences, FiniteSets, SequencesExt

CONSTANTS Fillers, PushSize, BatchSize

\* With a batch size of 1 flush saves and polls nothing; the context sets 10.
LegacyPersistAssumption ==
  IsFiniteSet(Fillers) /\ PushSize \in Nat /\ BatchSize \in Nat /\ BatchSize > 1

VARIABLES
  dataQueue, controlQueue,
  pushes,       \* of each filler: entries still to push, times two
  pc,           \* flush fills its batch ("peek") or removes entries ("poll")
  i, size, batch,
  accepted,     \* entries are numbered in the order the queue took them
  saved         \* what was handed to the DAO

vars == <<dataQueue, controlQueue, pushes, pc, i, size, batch, accepted, saved>>

-----------------------------------------------------------------------------
\* The copies of this round.  The batch also keeps those of the earlier rounds,
\* behind them, and all of it is handed over: they were saved already.
Copied == batch \cup {Head(dataQueue)}
Polls == size
WithoutHead == IF dataQueue = <<>> THEN <<>> ELSE Tail(dataQueue)

\* The control queue has room for one.
Token == 1

OfferData(f) ==
  /\ pushes[f] > 0 /\ pushes[f] % 2 = 0
  /\ pushes' = [pushes EXCEPT ![f] = @ - 1]
  /\ accepted' = accepted + 1
  /\ dataQueue' = Append(dataQueue, accepted + 1)
  /\ UNCHANGED <<controlQueue, pc, i, size, batch, saved>>

\* A second token is refused, which offer only returns.
OfferControl(f) ==
  /\ pushes[f] % 2 = 1
  /\ pushes' = [pushes EXCEPT ![f] = @ - 1]
  /\ controlQueue' = Token
  /\ UNCHANGED <<dataQueue, pc, i, size, batch, accepted, saved>>

PeekEntry ==
  /\ pc = "peek" /\ i < BatchSize /\ dataQueue # <<>>
  /\ batch' = Copied
  /\ size' = i
  /\ i' = i + 1
  /\ UNCHANGED <<dataQueue, controlQueue, pushes, pc, accepted, saved>>

\* The DAO prints the whole batch, whatever the size says.
Save ==
  /\ pc = "peek" /\ (i = BatchSize \/ dataQueue = <<>>)
  /\ saved' = IF size > 0 THEN saved \cup batch ELSE saved
  /\ pc' = "poll" /\ i' = 0
  /\ UNCHANGED <<dataQueue, controlQueue, pushes, size, batch, accepted>>

PollEntry ==
  /\ pc = "poll" /\ i < Polls
  /\ dataQueue' = WithoutHead
  /\ i' = i + 1
  /\ UNCHANGED <<controlQueue, pushes, pc, size, batch, accepted, saved>>

\* poll does not wait for a token: with an empty queue flush spins.
EndRound ==
  /\ pc = "poll" /\ i >= Polls
  /\ controlQueue' = IF size = 0 THEN 0 ELSE controlQueue
  /\ pc' = "peek" /\ i' = 0 /\ size' = 0 /\ batch' = {}
  /\ UNCHANGED <<dataQueue, pushes, accepted, saved>>

Init ==
  /\ dataQueue = <<>> /\ controlQueue = 0
  /\ pushes = [f \in Fillers |-> 2 * PushSize]
  /\ pc = "peek" /\ i = 0 /\ size = 0 /\ batch = {}
  /\ accepted = 0 /\ saved = {}

Flush == PeekEntry \/ Save \/ PollEntry \/ EndRound

Next == Flush \/ \E f \in Fillers : OfferData(f) \/ OfferControl(f)

Spec == Init /\ [][Next]_vars

\* flush is an endless loop of a scheduled task.
Fairness == WF_vars(Flush)

FairSpec == Spec /\ Fairness

-----------------------------------------------------------------------------
TypeOK ==
  /\ dataQueue \in Seq(1..accepted) /\ controlQueue \in 0..1
  /\ pushes \in [Fillers -> 0..(2 * PushSize)]
  /\ pc \in {"peek", "poll"} /\ i \in 0..BatchSize /\ size \in 0..(BatchSize - 1)
  /\ batch \subseteq 1..accepted /\ saved \subseteq 1..accepted

Polled == 1..(accepted - Len(dataQueue))

\* What is lost is bounded: an entry that left the queue was saved, or follows
\* one that was, at most BatchSize - 2 places further on: fewer than BatchSize - 1
\* entries in a row are lost.
LossIsBounded == \A n \in Polled : \E k \in 0..(BatchSize - 2) : n - k \in saved

\* No entry is the head of the queue in two rounds: what was saved has left the
\* queue before the next round begins, whatever the fillers add meanwhile.
HeadLeaves == pc = "peek" => saved \cap ToSet(dataQueue) = {}

\* The queue is emptied again and again.
Drained == []<>(dataQueue = <<>>)
=============================================================================
