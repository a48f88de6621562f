------------------------------ MODULE MCMotion ------------------------------
(***************************************************************************)
(* Dragging, sortable lists, sliders and effects, side by side: `part'     *)
(* names the one that moves, with its options, and the others rest.  What  *)
(* differs in its options only has the same variables.                     *)
(***************************************************************************)
EXTENDS Naturals, Sequences, SequencesExt

CONSTANTS
  Elements, Drops, Added, Points, Covers, Accepted, Reverts, DragOptions, MaxPresses,
  Lists, Items, First, ListOptions, MaxDrags, NewSequences,
  SliderOptions, MaxSets,
  QueueOptions, MaxLate,
  StyleOptions

VARIABLES
  part,
  options, presses, pressed, drags, activeDraggable, lastPointer, dragging, clone, raised,
  place, delta, reverting, cancelled, scrolling, drops, last_active, hover, dropped,
  listOptions, order, dragged, listDrags, lastValue, marker, told, updated,
  sliderOptions, values, active, sliding, disabled, activeHandle, event, valuesTold,
  asked, sets,
  queueOptions, now, elapsed, effects, interval, state, startOn, finishOn, frame, full, pass,
  chain, fired, before, stopped,
  styleOptions, pair, own, style, live, created, last, lost

-----------------------------------------------------------------------------
(* Two elements, one of which is also a droppable, and two droppables that *)
(* overlap.                                                                *)

CoversOf == [d \in {"e1", "d1", "d2"} |->
  CASE d = "e1" -> {"p3"} [] d = "d1" -> {"p1", "p2"} [] d = "d2" -> {"p2"}]
AllOrders == SetToSeqs(Drops)
AcceptedPairs == ({"e1", "e2"} \X {"e1", "d1", "d2"}) \ {<<"e2", "d1">>}

Ghosts == [ghosting |-> TRUE, scroll |-> FALSE, escapes |-> TRUE, greedy |-> Drops]
Scrolls == [ghosting |-> FALSE, scroll |-> TRUE, escapes |-> FALSE, greedy |-> Drops \ {"d1"}]
GhostsOrScrolls == {Ghosts, Scrolls}

Drag == INSTANCE DragDrop

-----------------------------------------------------------------------------
(* Two lists; setSequence is called with every item, one of them twice, an *)
(* item of another list or none between.                                   *)

FirstOrder == [l \in {"l1", "l2"} |-> IF l = "l1" THEN <<"a", "b", "c">> ELSE <<"d">>]
Sequences_ == {<<"d", "c", "b", "a">>, <<"b", "a", "b", "d", "c">>}

Taking == [shared |-> TRUE, dropOnEmpty |-> TRUE, ghosting |-> FALSE]
Marking == [shared |-> TRUE, dropOnEmpty |-> FALSE, ghosting |-> TRUE]
Containing == [shared |-> FALSE, dropOnEmpty |-> FALSE, ghosting |-> FALSE]
ThreeLists == {Taking, Marking, Containing}

List == INSTANCE Sortable WITH drags <- listDrags, options <- listOptions

-----------------------------------------------------------------------------
(* Three handles and allowed places at unequal distances, or two that pass *)
(* each other and stop anywhere.                                           *)

Steps == [handles |-> 3, low |-> 0, high |-> 6, values |-> {0, 1, 3, 6},
          restricted |-> TRUE, start |-> <<0, 1, 6>>]
Free == [handles |-> 2, low |-> 0, high |-> 3, values |-> {},
         restricted |-> FALSE, start |-> <<0, 0>>]
StepsOrFree == {Steps, Free}

Track == INSTANCE Slider
           WITH options <- sliderOptions, dragging <- sliding, told <- valuesTold

-----------------------------------------------------------------------------
(* A queue of three effects, one of which cancels itself, or of two with   *)
(* all the time they need.                                                 *)

ShortTime == [effects |-> {"f1", "f2", "f3"}, highlights |-> {"f2", "f3"}, hidden |-> {"f3"},
              durations |-> {2}, delays |-> {1}, limits |-> {0, 1}, until |-> 1, time |-> 6, ends |-> FALSE]
LongTime == [effects |-> {"f1", "f2"}, highlights |-> {"f2"}, hidden |-> {"f2"},
             durations |-> {1, 2}, delays |-> {0, 1}, limits |-> {0, 1}, until |-> 2, time |-> 16, ends |-> TRUE]
ShortOrLong == {ShortTime, LongTime}

Queue == INSTANCE EffectQueue WITH options <- queueOptions

-----------------------------------------------------------------------------
(* An element that is toggled, or on which effects run alone or in pairs.  *)

ClosedKinds == {"Fade", "Appear", "BlindUp", "BlindDown", "SwitchOff", "DropOut", "Shake",
                "SlideDown", "SlideUp", "Squish", "Grow", "Shrink", "Pulsate", "Fold"}

Toggled == [kinds |-> {}, togglable |-> {"slide", "blind", "appear"}, live |-> 0, created |-> 5]
Single == [kinds |-> ClosedKinds \cup {"Puff"}, togglable |-> {"blind"}, live |-> 1, created |-> 3]
Overlapping == [kinds |-> ClosedKinds, togglable |-> {"blind"}, live |-> 2, created |-> 2]
ToggledOrStarted == {Toggled, Single, Overlapping}

Style == INSTANCE EffectStyle WITH options <- styleOptions

-----------------------------------------------------------------------------
ASSUME MotionAssumption ==
  /\ Drag!DragDropAssumption
  /\ List!SortableAssumption
  /\ Track!SliderAssumption
  /\ Queue!EffectQueueAssumption
  /\ Style!EffectStyleAssumption

dragVars == <<options, presses, pressed, drags, activeDraggable, lastPointer, dragging, clone,
              raised, place, delta, reverting, cancelled, scrolling, drops, last_active,
              hover, dropped>>
listVars == <<listOptions, order, dragged, listDrags, lastValue, marker, told, updated>>
sliderVars == <<sliderOptions, values, active, sliding, disabled, activeHandle, event,
                valuesTold, asked, sets>>
queueVars == <<queueOptions, now, elapsed, effects, interval, state, startOn, finishOn,
               frame, full, pass, chain, fired, before, stopped>>
styleVars == <<styleOptions, pair, own, style, live, created, last, lost>>
allVars == <<part, dragVars, listVars, sliderVars, queueVars, styleVars>>

Parts == {"drag", "lists", "slider", "queue", "style"}

\* What rests has one of its initial states.
AllInit ==
  /\ part \in Parts
  /\ Drag!Init
  /\ \/ part = "drag"
     \/ /\ place = [e \in Elements |-> CHOOSE p \in Points : TRUE]
        /\ drops = CHOOSE s \in Added : TRUE
        /\ options = CHOOSE o \in DragOptions : TRUE
  /\ List!Init /\ (part = "lists" \/ listOptions = CHOOSE o \in ListOptions : TRUE)
  /\ Track!Init /\ (part = "slider" \/ sliderOptions = CHOOSE o \in SliderOptions : TRUE)
  /\ Queue!Init /\ (part = "queue" \/ queueOptions = CHOOSE o \in QueueOptions : TRUE)
  /\ Style!Init
  /\ \/ part = "style" /\ (styleOptions.live = 0 \/ pair = "blind")
     \/ /\ styleOptions = CHOOSE o \in StyleOptions : TRUE
        /\ pair = CHOOSE x \in styleOptions.togglable : TRUE
        /\ own = CHOOSE s \in Style!Original : TRUE

Moves(p) ==
  /\ part = p
  /\ IF p = "drag" THEN Drag!Next ELSE UNCHANGED dragVars
  /\ IF p = "lists" THEN List!Next ELSE UNCHANGED listVars
  /\ IF p = "slider" THEN Track!Next ELSE UNCHANGED sliderVars
  /\ IF p = "queue" THEN Queue!Next ELSE UNCHANGED queueVars
  /\ IF p = "style" THEN Style!Next ELSE UNCHANGED styleVars
  /\ UNCHANGED part

AllNext == \E p \in Parts : Moves(p)

\* A queue whose clock stops early need not come to its end.
HasTime == part = "queue" /\ queueOptions.ends

AllSpec ==
  /\ AllInit /\ [][AllNext]_allVars
  /\ HasTime => Queue!Fairness

-----------------------------------------------------------------------------
\* Only what is under the pressed mouse is dragged, lies above the others and
\* is scrolled; one droppable is marked; the drop is where the mouse was
\* released, on an element that takes it; and what reverts comes home, whatever
\* was pressed, removed or escaped from meanwhile.
DragsSound ==
  /\ Drag!TypeOK /\ Drag!OneMark
  /\ Drag!DroppedWhereReleased /\ Drag!RestsAtHome
  /\ Drag!NothingLeftOver /\ Drag!ScrollsOnlyDragging

\* No item of the lists is lost or doubled, and the page knows their order after
\* each drag; handles keep their order, and the page knows their places.
OrderSound ==
  /\ List!TypeOK /\ List!ItemsConserved /\ List!PageKnowsOrder /\ List!NoGhosts
  /\ Track!TypeOK /\ Track!InOrder /\ Track!PageKnows

\* The timer runs exactly while there are effects; what has told its callback that
\* it is over was drawn in full, unless a callback had cancelled it in the same
\* pass; and what was added at the end waits.  However effects have overlapped,
\* they leave the clipping and the positioning of the page, and its sizes, places
\* and opacity except what an effect kept in the middle of another's animation and
\* what SlideUp changes; toggle leaves the element as it was asked to.
EffectsSound ==
  /\ Queue!TypeOK /\ Queue!TimerIffEffects /\ Queue!EndsAtFull /\ Queue!EndWaits
  /\ Style!TypeOK /\ Style!Restored /\ Style!NoTraceLeft
  /\ Style!ClippedWhileScaled /\ Style!ShownAsAsked

\* What no step does: move home, tell the page of an order that has not
\* changed, take an item out of a list without containment, move a handle to
\* any place but the nearest, draw an effect that is over or cancelled.  And every
\* effect leaves its queue.
MovesSound ==
  /\ Drag!HomeStays
  /\ [][List!ToldOfChanges /\ List!StayInList /\ Track!GoesToNearest]_allVars
  /\ Queue!NoFrameAfterEnd
  /\ HasTime => Queue!LeavesQueue
=============================================================================
