-------------------------- MODULE MessageConsumer --------------------------
(***************************************************************************)
(* ConsumerBean and SpringConsumer: a listener that buffers messages, a    *)
(* thread that waits for a number of them, and one that flushes them.      *)
(*                                                                         *)
(* The destination holds the messages 1..NumMessages.  The session is a    *)
(* transacted one that is never committed: message.acknowledge() does      *)
(* nothing there, and stop rolls back, so that every session receives the  *)
(* messages from the first again.                                          *)
(***************************************************************************)
EXTENDS Naturals, Sequences, FiniteSets

CONSTANTS NumMessages,   \* messages at the destination
          Wanted,        \* argument of waitForMessagesToArrive
          MaxSessions    \* bound: calls of start

ConsumerAssumption ==
  /\ NumMessages \in Nat /\ MaxSessions \in Nat
  /\ Wanted \in Nat \ {0}

VARIABLES
  started,    \* between start and stop
  sessions,   \* calls of start
  next,       \* the message the session delivers next
  messages,   \* the buffer
  flushed,    \* history: what flushMessages has returned
  waiterPc,   \* where the waiting thread is
  wait,       \* which call it is in
  expired     \* maxWaitTime has passed

vars == <<started, sessions, next, messages, flushed, waiterPc, wait, expired>>

Init ==
  /\ started = FALSE
  /\ sessions = 0
  /\ next = 1
  /\ messages = <<>>
  /\ flushed = <<>>
  /\ waiterPc = "out"
  /\ wait = "none"
  /\ expired = FALSE

waiterVars == <<waiterPc, wait, expired>>

-----------------------------------------------------------------------------
(* Faulty variants of the helpers below; no action uses them. *)

PrependTo(m) == <<m>> \o messages

-----------------------------------------------------------------------------
(* SpringConsumer, and the provider behind it *)

Start ==
  /\ ~started
  /\ sessions < MaxSessions
  /\ started' = TRUE
  /\ sessions' = sessions + 1
  /\ UNCHANGED <<next, messages, flushed, waiterVars>>

FirstUncommitted == 1

Stop ==
  /\ started
  /\ started' = FALSE
  /\ next' = FirstUncommitted
  /\ UNCHANGED <<sessions, messages, flushed, waiterVars>>

AfterDelivery == next + 1

BufferWith(m) == Append(messages, m)

\* notifyAll wakes the waiting thread.
Notified == IF waiterPc = "waiting" THEN "woken" ELSE waiterPc

OnMessage ==
  /\ started
  /\ next <= NumMessages
  /\ messages' = BufferWith(next)
  /\ next' = AfterDelivery
  /\ waiterPc' = Notified
  /\ UNCHANGED <<started, sessions, flushed, wait, expired>>

\* The buffer is copied and cleared in one critical section.
AfterFlush == <<>>

FlushMessages ==
  /\ messages # <<>>
  /\ flushed' = flushed \o messages
  /\ messages' = AfterFlush
  /\ UNCHANGED <<started, sessions, next, waiterVars>>

-----------------------------------------------------------------------------
(* The waiting thread *)

consumerVars == <<started, sessions, next, messages, flushed>>

Return ==
  /\ waiterPc' = "out"
  /\ wait' = "none"

\* waitForMessageToArrive tests for an empty buffer outside the monitor ...
WaitForMessage ==
  /\ waiterPc = "out"
  /\ messages = <<>>
  /\ waiterPc' = "entering"
  /\ wait' = "one"
  /\ expired' = FALSE
  /\ UNCHANGED consumerVars

Enough == Len(messages) >= Wanted

\* ... and so does waitForMessagesToArrive for the number it wants.
WaitForMessages ==
  /\ waiterPc = "out"
  /\ ~Enough
  /\ waiterPc' = "entering"
  /\ wait' = "many"
  /\ expired' = FALSE
  /\ UNCHANGED consumerVars

EnterWait ==
  /\ waiterPc = "entering"
  /\ waiterPc' = "waiting"
  /\ UNCHANGED <<consumerVars, wait, expired>>

TimedWait == TRUE

\* messages.wait(1000) or wait(4000) ends by itself.
WaitEnds ==
  /\ TimedWait
  /\ waiterPc = "waiting"
  /\ waiterPc' = "woken"
  /\ UNCHANGED <<consumerVars, wait, expired>>

\* waitForMessageToArrive returns however the wait ended.
ReturnFromOne ==
  /\ waiterPc = "woken"
  /\ wait = "one"
  /\ Return
  /\ UNCHANGED <<consumerVars, expired>>

\* The other call tests whether enough have arrived, or too much time passed.
TestMany ==
  /\ waiterPc = "woken"
  /\ wait = "many"
  /\ IF Enough \/ expired
     THEN Return
     ELSE waiterPc' = "again" /\ UNCHANGED wait
  /\ UNCHANGED <<consumerVars, expired>>

\* The loop condition reads the size again.
TestLoop ==
  /\ waiterPc = "again"
  /\ IF Enough THEN Return ELSE waiterPc' = "entering" /\ UNCHANGED wait
  /\ UNCHANGED <<consumerVars, expired>>

\* wait throws InterruptedException, and the test after it is skipped.
Interrupted ==
  /\ waiterPc = "waiting"
  /\ IF wait = "one" THEN Return ELSE waiterPc' = "again" /\ UNCHANGED wait
  /\ UNCHANGED <<consumerVars, expired>>

\* System.currentTimeMillis() gets past endTime.
Expire ==
  /\ wait = "many"
  /\ ~expired
  /\ expired' = TRUE
  /\ UNCHANGED <<consumerVars, waiterPc, wait>>

-----------------------------------------------------------------------------
WaiterStep == EnterWait \/ WaitEnds \/ ReturnFromOne \/ TestMany \/ TestLoop

Next ==
  \/ Start \/ Stop \/ OnMessage \/ FlushMessages
  \/ WaitForMessage \/ WaitForMessages \/ WaiterStep
  \/ Interrupted \/ Expire

Spec == Init /\ [][Next]_vars

\* The waiting thread runs, and a timed wait ends; nobody has to start, flush
\* or call, and time need not pass.
Fairness == WF_vars(WaiterStep)

FairSpec == Spec /\ Fairness

-----------------------------------------------------------------------------
TypeOK ==
  /\ started \in BOOLEAN
  /\ sessions \in 0..MaxSessions
  /\ next \in 1..(NumMessages + 1)
  /\ messages \in Seq(1..NumMessages)
  /\ flushed \in Seq(1..NumMessages)
  /\ waiterPc \in {"out", "entering", "waiting", "woken", "again"}
  /\ wait \in {"none", "one", "many"}
  /\ (wait = "none") = (waiterPc = "out")
  /\ expired \in BOOLEAN

Received == flushed \o messages

Times(m) == Cardinality({i \in 1..Len(Received) : Received[i] = m})

\* A message is received at most once in a session, however flushes and
\* deliveries interleave ...
OncePerSession == \A m \in 1..NumMessages : Times(m) <= sessions

\* ... and nothing is skipped: a message is followed by the next one, or by
\* the first again after a restart.
NothingSkipped ==
  \A i \in 2..Len(Received) : Received[i] \in {1, Received[i - 1] + 1}

\* waitForMessagesToArrive ends only with the messages it was called for in
\* the buffer, or after its time.
ReturnsForAReason ==
  [][(wait = "many" /\ wait' = "none") => (Len(messages) >= Wanted \/ expired)]_vars

\* A message that arrives between the test and the wait notifies nobody; the
\* call still ends if the messages stay, without its time having to pass.
EndsWhenEnough ==
  (wait = "many" /\ [](Len(messages) >= Wanted)) ~> wait = "none"
=============================================================================
