---------------------------- MODULE EffectQueue ----------------------------
(***************************************************************************)
(* One Effect.ScopedQueue of effects.js and the Effect.Base objects in it: *)
(* add with its three positions and its limit, the timer, the passes of    *)
(* loop over the effects, cancel, and the callback afterFinish.  One unit  *)
(* of time is one frame of the default 25 frames per second; the timer may *)
(* be late by up to MaxLate frames.  Everything runs in the one thread of  *)
(* the page: while a pass is under way no other event is handled, and what *)
(* starts or cancels effects in its midst is a callback afterFinish, the   *)
(* effects that the pass has still to visit included.  The other callbacks *)
(* of an effect leave the queue alone.                                     *)
(***************************************************************************)
EXTENDS Naturals, Sequences, FiniteSets, FiniteSetsExt, SequencesExt

CONSTANTS
  QueueOptions,  \* what a page may do with a queue
  MaxLate        \* bound: frames between two passes

\* The effect objects that may be created, those of them that are a Highlight, and
\* those whose setup cancels them, so that nothing is shown (a Highlight of a hidden
\* element); durations in frames, delays and values of options.queue.limit, 0 for
\* none.  Bounds: the page adds effects up to the time `until', and the clock stops
\* at `time'; whether that leaves all effects the time they need.
EffectQueueAssumption ==
  /\ \A o \in QueueOptions :
       /\ o.hidden \subseteq o.highlights /\ o.highlights \subseteq o.effects
       /\ o.durations \subseteq Nat /\ o.delays \subseteq Nat /\ o.limits \subseteq Nat
       /\ o.until \in Nat /\ o.time \in Nat /\ o.ends \in BOOLEAN
  /\ MaxLate \in Nat

Positions == {"parallel", "front", "end"}

VARIABLES
  options,
  now,
  elapsed,     \* frames since the timer fired
  effects,     \* the queue's list
  interval,    \* the timer is set
  state,       \* "new", "idle", "running" or "finished"
  startOn, finishOn,
  frame,       \* the last frame drawn: currentFrame, until the effect is finished
  full,        \* the last update was to position 1.0
  pass,        \* effects this pass of loop has still to visit
  chain,       \* the effect whose afterFinish runs now, in a set
  fired,       \* times afterFinish was fired
  before,      \* for an effect added at the end: what was queued then
  stopped      \* the effects that a script has cancelled

vars == <<options, now, elapsed, effects, interval, state, startOn, finishOn, frame, full, pass,
          chain, fired, before, stopped>>

Effects == options.effects

Init ==
  /\ options \in QueueOptions
  /\ now = 0
  /\ elapsed = 0
  /\ effects = <<>>
  /\ interval = FALSE
  /\ state = [e \in Effects |-> "new"]
  /\ startOn = [e \in Effects |-> 0]
  /\ finishOn = [e \in Effects |-> 0]
  /\ frame = [e \in Effects |-> 0]
  /\ full = [e \in Effects |-> FALSE]
  /\ pass = <<>>
  /\ chain = {}
  /\ fired = [e \in Effects |-> 0]
  /\ before = [e \in Effects |-> {}]
  /\ stopped = {}

Queued == ToSet(effects)

-----------------------------------------------------------------------------
(* Faulty variants of the helpers below; no action uses them. *)

AlsoCancelled(e) == ~(state[e] = "idle" /\ e \in options.hidden)

-----------------------------------------------------------------------------
\* The time that is added to the effect's own delay and duration.
Timestamp(position) ==
  IF position = "end" /\ Queued # {} THEN Max({finishOn[e] : e \in Queued}) ELSE now

Admits(limit) == limit = 0 \/ Len(effects) < limit

MovedFinish(e, shift) == finishOn[e] + shift

Idle == {e \in Queued : state[e] = "idle"}

\* Effect.Base.start and ScopedQueue.add.
Start(e, position, duration, delay, limit) ==
  LET shift == IF position = "front" THEN delay + duration ELSE 0
      base == Timestamp(position)
  IN  /\ state[e] = "new"
      /\ startOn' = [f \in Effects |->
            IF f = e THEN base + delay
            ELSE IF f \in Idle THEN startOn[f] + shift ELSE startOn[f]]
      /\ finishOn' = [f \in Effects |->
            IF f = e THEN base + delay + duration
            ELSE IF f \in Idle THEN MovedFinish(f, shift) ELSE finishOn[f]]
      /\ state' = [state EXCEPT ![e] = "idle"]
      /\ effects' = IF Admits(limit) THEN Append(effects, e) ELSE effects
      /\ interval' = TRUE
      /\ before' = [before EXCEPT ![e] = IF position = "end" THEN Queued ELSE {}]

\* A script runs: a handler of the page between two passes, or the callback
\* afterFinish of the effect that a pass has just ended.
Scripted == pass = <<>> \/ chain # {}

\* A script starts an effect.
Add ==
  /\ Scripted
  /\ now <= options.until \/ chain # {}
  /\ \E e \in Effects, position \in Positions, duration \in options.durations,
        delay \in options.delays, limit \in options.limits : Start(e, position, duration, delay, limit)
  /\ UNCHANGED <<options, now, elapsed, frame, full, pass, chain, fired, stopped>>

\* The callback afterFinish returns.
AfterFinish ==
  /\ chain # {}
  /\ chain' = {}
  /\ UNCHANGED <<options, now, elapsed, effects, interval, state, startOn, finishOn, frame, full,
                 pass, fired, before, stopped>>

Tick ==
  /\ pass = <<>> /\ chain = {}
  /\ now < options.time
  /\ elapsed < MaxLate
  /\ now' = now + 1
  /\ elapsed' = IF interval THEN elapsed + 1 ELSE 0
  /\ UNCHANGED <<options, effects, interval, state, startOn, finishOn, frame, full, pass,
                 chain, fired, before, stopped>>

\* The timer fires: ScopedQueue.loop visits the list as it is now.
Loop ==
  /\ pass = <<>> /\ chain = {}
  /\ interval /\ elapsed > 0
  /\ pass' = effects
  /\ elapsed' = 0
  /\ UNCHANGED <<options, now, effects, interval, state, startOn, finishOn, frame, full, chain,
                 fired, before, stopped>>

\* An effect is queued once.
Without(e) ==
  IF e \in Queued THEN RemoveAt(effects, CHOOSE k \in DOMAIN effects : effects[k] = e)
  ELSE effects

TimerAfter(list) == interval /\ list # <<>>

\* ScopedQueue.remove.
RemoveFromQueue(e) ==
  /\ effects' = Without(e)
  /\ interval' = TimerAfter(Without(e))

Due(e) == now >= startOn[e]
Over(e) == Due(e) /\ now >= finishOn[e]

\* The effect that loop visits next.
Visited == Head(pass)

\* loop has nothing to draw: too early, or no new frame since the last one.
Wait ==
  /\ pass # <<>> /\ chain = {}
  /\ ~Over(Visited)
  /\ ~(Due(Visited) /\ now - startOn[Visited] > frame[Visited])
  /\ pass' = Tail(pass)
  /\ UNCHANGED <<options, now, elapsed, effects, interval, state, startOn, finishOn, frame, full,
                 chain, fired, before, stopped>>

\* render updates an effect that runs, and sets it up first when it is idle.
Updates(e) == state[e] \in {"idle", "running"} /\ ~(state[e] = "idle" /\ e \in options.hidden)

\* An effect that a callback has cancelled in this pass is visited, and not drawn.
Render ==
  /\ pass # <<>> /\ chain = {}
  /\ LET e == Visited
     IN  /\ Due(e) /\ ~Over(e)
         /\ now - startOn[e] > frame[e]
         /\ \/ /\ Updates(e)
               /\ state' = [state EXCEPT ![e] = "running"]
               /\ full' = [full EXCEPT ![e] = FALSE]
               /\ frame' = [frame EXCEPT ![e] = now - startOn[e]]
               /\ UNCHANGED <<effects, interval>>
            \/ /\ state[e] = "idle" /\ e \in options.hidden   \* setup cancels it
               /\ state' = [state EXCEPT ![e] = "finished"]
               /\ RemoveFromQueue(e)
               /\ UNCHANGED <<frame, full>>
            \/ /\ state[e] = "finished"
               /\ UNCHANGED <<state, effects, interval, frame, full>>
  /\ pass' = Tail(pass)
  /\ UNCHANGED <<options, now, elapsed, startOn, finishOn, chain, fired, before, stopped>>

\* Where render(1.0) draws an effect that is over: never beyond its end.
DrawnInFull(e) == now >= finishOn[e]

\* finish of a Highlight that was never set up: it kept no style to restore.
Throws(e) == e \in options.highlights /\ frame[e] = 0 /\ ~Updates(e)

\* render(1.0), cancel, finish, afterFinish, for an effect that was cancelled in this
\* pass too.  When finish throws, the pass ends.
Finish ==
  /\ pass # <<>> /\ chain = {}
  /\ LET e == Visited
     IN  /\ Over(e)
         /\ RemoveFromQueue(e)
         /\ state' = [state EXCEPT ![e] = "finished"]
         /\ full' = IF Updates(e) THEN [full EXCEPT ![e] = DrawnInFull(e)] ELSE full
         /\ IF Throws(e)
            THEN /\ pass' = <<>>
                 /\ UNCHANGED <<fired, chain>>
            ELSE /\ pass' = Tail(pass)
                 /\ fired' = [fired EXCEPT ![e] = @ + 1]
                 /\ chain' = {e}
  /\ UNCHANGED <<options, now, elapsed, startOn, finishOn, frame, before, stopped>>

\* A script cancels an effect (the editor when the pointer enters, or a callback,
\* even an effect that the pass has still to visit).
Cancel ==
  /\ Scripted
  /\ \E e \in Effects :
        /\ state[e] \in {"idle", "running"}
        /\ state' = [state EXCEPT ![e] = "finished"]
        /\ RemoveFromQueue(e)
        /\ stopped' = stopped \cup {e}
  /\ UNCHANGED <<options, now, elapsed, startOn, finishOn, frame, full, pass, chain, fired, before>>

Next == Add \/ AfterFinish \/ Tick \/ Loop \/ Wait \/ Render \/ Finish \/ Cancel

Spec == Init /\ [][Next]_vars

\* Time passes, the timer fires again and again, and a pass comes to its end.
Fairness ==
  /\ WF_vars(Tick)
  /\ WF_vars(Loop)
  /\ WF_vars(AfterFinish \/ Wait \/ Render \/ Finish)

FairSpec == Spec /\ Fairness

-----------------------------------------------------------------------------
TypeOK ==
  /\ options \in QueueOptions
  /\ now \in 0..options.time /\ elapsed \in 0..MaxLate
  /\ effects \in Seq(Effects) /\ pass \in Seq(Effects)
  /\ IsInjective(effects)
  /\ interval \in BOOLEAN
  /\ state \in [Effects -> {"new", "idle", "running", "finished"}]
  /\ startOn \in [Effects -> Nat] /\ finishOn \in [Effects -> Nat]
  /\ \A e \in Effects : startOn[e] <= finishOn[e]
  /\ frame \in [Effects -> 0..options.time]
  /\ full \in [Effects -> BOOLEAN]
  /\ chain \subseteq Effects
  /\ fired \in [Effects -> 0..1]
  /\ stopped \subseteq Effects

\* The timer is set exactly while there are effects: none is left without a
\* timer, and no timer is left behind, whatever was added and removed in a pass.
TimerIffEffects == interval <=> effects # <<>>

\* An effect whose afterFinish was fired has been drawn in its last position, even
\* when the timer was so late that this was its only frame; only what a callback
\* has cancelled in the pass that ends it has its afterFinish fired undrawn.
EndsAtFull == \A e \in Effects : fired[e] > 0 => full[e] \/ e \in stopped

\* "start effect after last queued effect has finished": what is added at the
\* end does not run before all that was queued then is finished or cancelled,
\* although later effects may push into the queue at its front.
EndWaits ==
  \A e \in Effects : e \in Queued /\ state[e] = "running" =>
    \A f \in before[e] : state[f] = "finished"

\* No effect is drawn once it is over or cancelled, not even when a callback has
\* cancelled it and the pass under way visits it yet.
NoFrameAfterEnd ==
  [][\A e \in Effects : state[e] = "finished" => frame'[e] = frame[e] /\ full'[e] = full[e]]_vars

\* What was admitted to the queue leaves it in the end.
LeavesQueue ==
  \A e \in UNION {o.effects : o \in QueueOptions} : (e \in Queued) ~> (e \notin Queued)
=============================================================================
