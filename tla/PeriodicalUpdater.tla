-------------------------- MODULE PeriodicalUpdater --------------------------
(***************************************************************************)
(* Ajax.PeriodicalUpdater of prototype.js: it asks the server for the      *)
(* content of a container, waits longer after each answer that brings the  *)
(* same text again, and asks again, until it is stopped; it may be started *)
(* again while answers to the requests of the earlier run are under way.   *)
(***************************************************************************)
EXTENDS Naturals, FiniteSets

CONSTANTS
  Texts,
  MaxUpdaters,     \* bound: requests sent
  MaxDecay         \* bound: equal answers that are counted

PeriodicalUpdaterAssumption == MaxUpdaters \in Nat /\ MaxDecay \in Nat \ {0}

Updaters == 1..MaxUpdaters
NoText == "none"

VARIABLES
  running,     \* started since the last stop
  updater,     \* number of the last updater, 0 before the constructor
  waiting,     \* updaters without an answer
  connected,   \* updaters that still have an onComplete
  timer,       \* the timer that this.timer remembers is pending
  oldTimers,   \* pending timers that it does not remember any more
  container, lastText,
  decay,       \* the power of options.decay that the frequency is multiplied by
  due,         \* the power by which the timer that is set was delayed
  extra        \* starts without a stop since the one before, a history variable

vars == <<running, updater, waiting, connected, timer, oldTimers, container, lastText, decay,
          due, extra>>

Init ==
  /\ running = FALSE
  /\ updater = 0
  /\ waiting = {} /\ connected = {}
  /\ timer = FALSE /\ oldTimers = 0
  /\ container = NoText /\ lastText = NoText
  /\ decay = 1 /\ due = 0
  /\ extra = 0

-----------------------------------------------------------------------------
(* Faulty variants of the helpers below; no action uses them. *)

KeepTimer == timer

-----------------------------------------------------------------------------
\* onTimerEvent: the next updater.
Ask ==
  /\ updater < MaxUpdaters
  /\ updater' = updater + 1
  /\ waiting' = waiting \cup {updater + 1}
  /\ connected' = connected \cup {updater + 1}

\* The constructor starts for the first time; the page may start at any moment.
Start ==
  /\ Ask
  /\ running' = TRUE
  /\ extra' = IF running THEN extra + 1 ELSE extra
  /\ UNCHANGED <<timer, oldTimers, container, lastText, decay, due>>

OnTimerEvent ==
  /\ \/ timer /\ timer' = FALSE /\ oldTimers' = oldTimers
     \/ oldTimers > 0 /\ oldTimers' = oldTimers - 1 /\ timer' = timer
  /\ Ask
  /\ UNCHANGED <<running, container, lastText, decay, due, extra>>

TimerAfterStop == FALSE
ConnectedAfterStop == connected \ {updater}

\* The last updater and the remembered timer only.
Stop ==
  /\ updater > 0
  /\ running' = FALSE
  /\ connected' = ConnectedAfterStop
  /\ timer' = TimerAfterStop
  /\ UNCHANGED <<updater, waiting, oldTimers, container, lastText, decay, due, extra>>

\* A timer that is pending when another one is set is forgotten.
OldTimersAfterAnswer == IF timer THEN oldTimers + 1 ELSE oldTimers

DecayAfter(text) ==
  IF text = lastText THEN IF decay < MaxDecay THEN decay + 1 ELSE decay ELSE 0

\* updateContent and updateComplete, unless stop has disconnected the updater.
UpdateComplete ==
  \E u \in waiting, text \in Texts :
    /\ waiting' = waiting \ {u}
    /\ IF u \in connected
       THEN /\ container' = text
            /\ decay' = DecayAfter(text)
            /\ due' = DecayAfter(text)
            /\ lastText' = text
            /\ timer' = TRUE
            /\ oldTimers' = OldTimersAfterAnswer
       ELSE UNCHANGED <<container, decay, due, lastText, timer, oldTimers>>
    /\ UNCHANGED <<running, updater, connected, extra>>

Next == Start \/ OnTimerEvent \/ Stop \/ UpdateComplete

Spec == Init /\ [][Next]_vars

\* The server answers, and the timer fires.
Fairness == WF_vars(UpdateComplete) /\ WF_vars(OnTimerEvent)

FairSpec == Spec /\ Fairness

-----------------------------------------------------------------------------
TypeOK ==
  /\ running \in BOOLEAN
  /\ updater \in 0..MaxUpdaters
  /\ waiting \subseteq Updaters /\ connected \subseteq Updaters
  /\ timer \in BOOLEAN /\ oldTimers \in Nat /\ extra \in Nat
  /\ container \in Texts \cup {NoText} /\ lastText \in Texts \cup {NoText}
  /\ decay \in 0..MaxDecay /\ due \in 0..MaxDecay

\* What asks: requests whose answers count, and pending timers.
Expected == waiting \cap connected
Timers == oldTimers + (IF timer THEN 1 ELSE 0)

\* Starting and stopping at any moment leaves no more loops that ask side by side
\* than there were starts without a stop before them, beside the loop that is
\* meant to run: a page that stops before it starts again has one loop at most,
\* a request that counts, or a timer, or neither.
OneLoop == Timers + Cardinality(Expected) <= extra + (IF running THEN 1 ELSE 0)

\* Once it is stopped, late answers do not change the container, unless it was
\* started twice without a stop: a stop ends the loop that asked last only.
QuietWhenStopped == [][~running /\ extra = 0 => container' = container]_vars

\* While it runs it goes on asking, whatever the answers are.
AsksAgain == (running /\ updater < MaxUpdaters) ~> (~running \/ updater = MaxUpdaters)

\* A text that has changed is looked at again without delay.
ChangeResetsDelay ==
  [][container' # container /\ container # NoText => due' = 0]_vars
=============================================================================
