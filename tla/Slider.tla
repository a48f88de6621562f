------------------------------- MODULE Slider -------------------------------
(***************************************************************************)
(* Control.Slider of slider.js: handles on a track that the mouse drags    *)
(* and the page sets.  A place of the pointer is the value it stands for,  *)
(* which may lie outside the track.                                        *)
(***************************************************************************)
EXTENDS Integers, FiniteSetsExt, Sequences

CONSTANTS
  SliderOptions,  \* the options that the page may give
  MaxSets         \* bound: presses and values set by the page

\* The number of handles, the ends of the track, the allowed values (none when
\* every value is), whether handles do not pass each other, and where they start.
SliderAssumption ==
  /\ \A o \in SliderOptions :
       /\ o.handles \in Nat \ {0}
       /\ o.low \in Int /\ o.high \in Int /\ o.low <= o.high
       /\ o.values \subseteq o.low..o.high /\ o.restricted \in BOOLEAN
       /\ o.start \in [1..o.handles -> IF o.values = {} THEN o.low..o.high ELSE o.values]
       /\ o.restricted => \A h \in 1..(o.handles - 1) : o.start[h] <= o.start[h + 1]
  /\ MaxSets \in Nat

Distance(a, b) == IF a > b THEN a - b ELSE b - a

VARIABLES
  options,
  values,
  active, dragging, disabled,
  activeHandle,
  event,         \* an event of the mouse is remembered
  told,          \* the values that onChange was last given
  asked,         \* the handle and value of the last change, before it was fitted
  sets

vars == <<options, values, active, dragging, disabled, activeHandle, event, told, asked, sets>>

Handles == 1..options.handles
Allowed == IF options.values = {} THEN options.low..options.high ELSE options.values

Init ==
  /\ options \in SliderOptions
  /\ values = options.start /\ told = options.start
  /\ active = FALSE /\ dragging = FALSE /\ disabled = FALSE
  /\ activeHandle = 1
  /\ event = FALSE
  /\ asked = <<1, options.start[1]>>
  /\ sets = 0

-----------------------------------------------------------------------------
\* With allowed values the nearest, the higher of two; otherwise the range ends.
NearestValue(v) ==
  IF options.values # {}
  THEN Max({w \in options.values : \A u \in options.values : Distance(w, v) <= Distance(u, v)})
  ELSE IF v > options.high THEN options.high ELSE IF v < options.low THEN options.low ELSE v

\* A handle of a restricted slider stays between its neighbours.
Between(v, h) ==
  LET low == IF h > 1 /\ v < values[h - 1] THEN values[h - 1] ELSE v
  IN IF h < options.handles /\ low > values[h + 1] THEN values[h + 1] ELSE low

Fitted(v, h) == NearestValue(IF options.restricted THEN Between(v, h) ELSE v)

\* The page hears of a change at once, unless it is a step of a drag.
HeardLater(ev, drag) == drag /\ ev

\* setValue, for the handle that it comes to.
SetHandle(v, h, ev, drag) ==
  /\ values' = [values EXCEPT ![h] = Fitted(v, h)]
  /\ asked' = <<h, v>>
  /\ IF HeardLater(ev, drag)
     THEN event' = ev /\ UNCHANGED told
     ELSE told' = values' /\ event' = FALSE

\* The first handle (index 0 of the code) gives way to the active one.
Chosen(h) == IF h = 1 THEN activeHandle ELSE h

\* setValue called by the page.
SetValue(v, h) ==
  /\ sets < MaxSets
  /\ sets' = sets + 1
  /\ activeHandle' = IF active THEN activeHandle ELSE h
  /\ SetHandle(v, IF active THEN Chosen(h) ELSE h, event, dragging)
  /\ UNCHANGED <<options, active, dragging, disabled>>

\* setValueBy, which chooses before setValue does.
SetValueBy(delta, h) ==
  LET k == Chosen(h) IN
  /\ sets < MaxSets
  /\ sets' = sets + 1
  /\ activeHandle' = IF active THEN activeHandle ELSE k
  /\ SetHandle(values[k] + delta, k, event, dragging)
  /\ UNCHANGED <<options, active, dragging, disabled>>

\* startDrag, on the track: the active handle jumps to the pointer.
PressTrack(v) ==
  /\ sets < MaxSets /\ ~active
  /\ ~disabled
  /\ sets' = sets + 1
  /\ active' = TRUE
  /\ SetHandle(v, activeHandle, TRUE, dragging)
  /\ UNCHANGED <<options, dragging, disabled, activeHandle>>

\* startDrag, on a handle.
PressHandle(h) ==
  /\ sets < MaxSets /\ ~active
  /\ ~disabled
  /\ sets' = sets + 1
  /\ active' = TRUE
  /\ activeHandle' = h
  /\ UNCHANGED <<options, values, dragging, disabled, event, told, asked>>

\* update and draw
Update(v) ==
  /\ active
  /\ dragging' = TRUE
  /\ SetHandle(v, activeHandle, TRUE, TRUE)
  /\ UNCHANGED <<options, active, disabled, activeHandle, sets>>

ToldAtEnd == values

EndDrag ==
  /\ active
  /\ active' = FALSE /\ dragging' = FALSE
  /\ IF dragging THEN told' = ToldAtEnd /\ event' = FALSE ELSE UNCHANGED <<told, event>>
  /\ UNCHANGED <<options, values, disabled, activeHandle, asked, sets>>

\* setDisabled and setEnabled; a drag that is under way goes on.
SetDisabled ==
  /\ disabled' = ~disabled
  /\ UNCHANGED <<options, values, active, dragging, activeHandle, event, told, asked, sets>>

\* One step past each end.
Places == (options.low - 1)..(options.high + 1)

Next ==
  \/ EndDrag \/ SetDisabled
  \/ \E h \in Handles :
       \/ PressHandle(h)
       \/ \E v \in Places : SetValue(v, h)
       \/ \E delta \in {-1, 1} : SetValueBy(delta, h)
  \/ \E v \in Places : PressTrack(v) \/ Update(v)

Spec == Init /\ [][Next]_vars

-----------------------------------------------------------------------------
TypeOK ==
  /\ options \in SliderOptions
  /\ values \in [Handles -> Allowed] /\ told \in [Handles -> Allowed]
  /\ {active, dragging, disabled, event} \subseteq BOOLEAN
  /\ activeHandle \in Handles
  /\ asked \in Handles \X Int /\ sets \in 0..MaxSets

\* The handles of a restricted slider never pass each other, though a value is
\* fitted to the neighbours first and to the allowed values after that.
InOrder ==
  options.restricted => \A h \in 1..(options.handles - 1) : values[h] <= values[h + 1]

\* Unless a drag is under way, the page was told of the values that are shown.
PageKnows == ~dragging => told = values

\* A handle comes to an allowed place that none between its neighbours is
\* nearer to than it.
GoesToNearest ==
  asked' # asked \/ values' # values =>
     LET h == asked'[1]
         free == {w \in Allowed : options.restricted =>
                    /\ h = 1 \/ w >= values[h - 1]
                    /\ h = options.handles \/ w <= values[h + 1]}
     IN /\ \A k \in Handles \ {h} : values'[k] = values[k]
        /\ values'[h] \in free
        /\ \A w \in free : Distance(values'[h], asked'[2]) <= Distance(w, asked'[2])
=============================================================================
