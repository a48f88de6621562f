------------------------------ MODULE DragDrop ------------------------------
(***************************************************************************)
(* Draggables, Draggable and Droppables of dragdrop.js: the mouse drags    *)
(* one element at a time, the droppables under the pointer are marked, and *)
(* a release drops the element on the marked one.  A point stands for the  *)
(* pointer's place and for the place of an element drawn there.  Elements  *)
(* in Reverts move home after a drag, an effect of several steps that the  *)
(* next press cancels.                                                     *)
(***************************************************************************)
EXTENDS Naturals, Sequences, FiniteSets, SequencesExt

CONSTANTS
  Elements,
  Drops,           \* elements that can be dropped on
  Added,           \* the orders in which they may have been added
  Points,
  Covers,          \* the points within each droppable
  Accepted,        \* pairs of an element and a droppable that takes it
  Reverts,
  DragOptions,     \* the options that the page may give
  MaxPresses       \* bound: presses of the mouse

None == "none"

\* A clone keeps the place; the container is scrolled while dragging; the user
\* may hit Escape, which leaves an interval that scrolls running, for ever:
\* pages where it does are not followed.  Greedy droppables end the search.
OptionsAssumption ==
  /\ DragOptions \subseteq [ghosting : BOOLEAN, scroll : BOOLEAN, escapes : BOOLEAN,
                            greedy : SUBSET Drops]
  /\ \A o \in DragOptions : ~(o.scroll /\ o.escapes)

DragDropAssumption ==
  /\ OptionsAssumption
  /\ Added \subseteq {s \in Seq(Drops) : IsInjective(s)}
  /\ Covers \in [Drops -> SUBSET Points]
  /\ Accepted \subseteq Elements \X Drops /\ Reverts \subseteq Elements
  /\ None \notin Elements \cup Drops \cup Points /\ MaxPresses \in Nat

VARIABLES
  options,
  presses, pressed,       \* of the mouse button
  drags,                  \* registered draggables
  activeDraggable, lastPointer,
  dragging, clone, raised,   \* elements that are dragged, cloned, above the others
  place, delta,           \* of each element; delta is where it belongs
  reverting,              \* elements on their way home
  cancelled,              \* elements that were pressed on their way
  scrolling,              \* elements whose scrollInterval runs
  drops,                  \* the droppables in the order they were added
  last_active, hover,     \* the marked droppable, those that show the mark
  dropped                 \* the last onDrop: its element, droppable and point, if any

mouse == <<presses, pressed>>
place_ == <<place, delta, reverting, cancelled>>
look == <<dragging, clone, raised, scrolling>>
targets == <<drops, last_active, hover, dropped>>
vars == <<options, mouse, drags, activeDraggable, lastPointer, look, place_, targets>>

\* The page registers every draggable.
Registered == Elements

Init ==
  /\ options \in DragOptions
  /\ presses = 0 /\ pressed = FALSE
  /\ drags = Registered
  /\ activeDraggable = None /\ lastPointer = None
  /\ dragging = {} /\ clone = {} /\ raised = {} /\ scrolling = {}
  /\ place \in [Elements -> Points] /\ delta = place
  /\ reverting = {} /\ cancelled = {}
  /\ drops \in Added
  /\ last_active = None /\ hover = {} /\ dropped = {}

-----------------------------------------------------------------------------
(* Faulty variants of the helpers below; no action uses them. *)

AlsoUnaccepted(p, e, drop) == drop # e /\ p \in Covers[drop]

-----------------------------------------------------------------------------
IsAffected(p, e, drop) == drop # e /\ <<e, drop>> \in Accepted /\ p \in Covers[drop]

\* initDrag: a press on an element; a revert is cancelled where it is.
InitDrag(e) ==
  /\ presses < MaxPresses /\ ~pressed
  /\ e \in drags
  /\ presses' = presses + 1 /\ pressed' = TRUE
  /\ activeDraggable' = e
  /\ reverting' = reverting \ {e}
  /\ cancelled' = IF e \in reverting THEN cancelled \cup {e} ELSE cancelled
  /\ UNCHANGED <<options, drags, lastPointer, look, place, delta, targets>>

Unmarked == hover \ {last_active}
MarkOnly(drop) == Unmarked \cup {drop}

\* The first greedy droppable that is affected, if any; it ends the search.
Found(p, e) ==
  LET affected == {i \in DOMAIN drops : drops[i] \in options.greedy /\ IsAffected(p, e, drops[i])}
  IN {drops[i] : i \in {j \in affected : \A k \in affected : j <= k}}

\* Droppables.show
Show(p, e) ==
  IF drops = <<>> THEN UNCHANGED <<last_active, hover>>
  ELSE \/ Found(p, e) = {} /\ last_active' = None /\ hover' = Unmarked
       \/ \E d \in Found(p, e) : last_active' = d /\ hover' = MarkOnly(d)

\* Nothing is done when the pointer is where it was.
PointerMoves(p) == p # lastPointer /\ lastPointer' = p

\* A draggable that is dragged already keeps its clone and its level.
StartDrag(e) ==
  /\ dragging' = dragging \cup {e}
  /\ raised' = raised \cup {e}
  /\ clone' = IF options.ghosting THEN clone \cup {e} ELSE clone

Draw(e, p) == place' = [place EXCEPT ![e] = p]

StartScrolling(e) == scrolling' = IF options.scroll THEN scrolling \cup {e} ELSE scrolling

\* updateDrag of Draggables and of the active draggable.
UpdateDrag ==
  /\ activeDraggable # None
  /\ \E p \in Points :
       /\ PointerMoves(p)
       /\ StartDrag(activeDraggable)
       /\ StartScrolling(activeDraggable)
       /\ Show(p, activeDraggable)
       /\ Draw(activeDraggable, p)
  /\ UNCHANGED <<options, mouse, drags, activeDraggable, delta, reverting, cancelled, drops, dropped>>

CloneAfter(e) == clone \ {e}
RaisedAfter(e) == raised \ {e}
RevertFrom(e) == delta[e]
MarkAfterReset == hover \ {last_active}
ActiveAfter == None

\* finishDrag, without the drop: revert, or a new place to belong to.
FinishDrag(e) ==
  /\ dragging' = dragging \ {e}
  /\ clone' = CloneAfter(e)
  /\ raised' = RaisedAfter(e)
  /\ cancelled' = cancelled \ {e}
  /\ IF e \in Reverts
     THEN reverting' = reverting \cup {e} /\ delta' = [delta EXCEPT ![e] = RevertFrom(e)]
     ELSE delta' = [delta EXCEPT ![e] = place[e]] /\ UNCHANGED reverting
  /\ last_active' = None
  /\ hover' = MarkAfterReset
  /\ activeDraggable' = ActiveAfter

ScrollingAfter(e) == scrolling \ {e}

\* Droppables.fire: the pointer may have moved on since the last mousemove.
Fire(p, e) ==
  dropped' = IF last_active # None /\ IsAffected(p, e, last_active)
             THEN {<<e, last_active, p>>} ELSE dropped

\* mouseup: endDrag of Draggables and of the active draggable.
EndDrag ==
  /\ pressed
  /\ pressed' = FALSE
  /\ IF activeDraggable = None
     THEN UNCHANGED <<activeDraggable, lastPointer, look, place_, targets>>
     ELSE /\ lastPointer' = None
          /\ IF activeDraggable \in dragging
             THEN /\ \E p \in Points : Fire(p, activeDraggable)
                  /\ FinishDrag(activeDraggable)
                  /\ scrolling' = ScrollingAfter(activeDraggable)
             ELSE /\ activeDraggable' = None
                  /\ UNCHANGED <<look, delta, reverting, cancelled, last_active, hover, dropped>>
          /\ UNCHANGED <<place, drops>>
  /\ UNCHANGED <<options, presses, drags>>

\* Escape: nothing is dropped.  Before the first move there is no clone to
\* remove, which throws.
KeyPress ==
  /\ options.escapes /\ activeDraggable # None
  /\ options.ghosting => activeDraggable \in clone
  /\ FinishDrag(activeDraggable)
  /\ UNCHANGED <<options, mouse, drags, lastPointer, scrolling, place, drops, dropped>>

\* scroll: the interval draws the element at the last pointer again.
Scroll ==
  \E e \in scrolling :
    /\ lastPointer # None
    /\ Show(lastPointer, e)
    /\ Draw(e, lastPointer)
    /\ UNCHANGED <<options, mouse, drags, activeDraggable, lastPointer, look, delta,
                   reverting, cancelled, drops, dropped>>

\* The effect that brings an element home moves it by what it is away.
EndOfRevert(e) == delta[e]

RevertMoves(e) ==
  /\ e \in reverting
  /\ \/ place' = [place EXCEPT ![e] = EndOfRevert(e)] /\ reverting' = reverting \ {e}
     \/ (\E p \in Points : place' = [place EXCEPT ![e] = p]) /\ UNCHANGED reverting
  /\ UNCHANGED <<options, mouse, drags, activeDraggable, lastPointer, look, delta, cancelled,
                 targets>>

\* When none is left the document is no longer observed; nothing is active then.
Unregistered(e) == drags \ {e}

\* The page takes back or renews a draggable that is not being dragged.
Destroy(e) ==
  /\ e \in drags /\ activeDraggable # e
  /\ drags' = Unregistered(e)
  /\ UNCHANGED <<options, mouse, activeDraggable, lastPointer, look, place_, targets>>

\* Droppables.remove, also of the one that is marked.
\* Each was added once.
RemoveDrop(drop) ==
  /\ \E i \in DOMAIN drops : drops[i] = drop /\ drops' = RemoveAt(drops, i)
  /\ UNCHANGED <<options, mouse, drags, activeDraggable, lastPointer, look, place_,
                 last_active, hover, dropped>>

Next ==
  \/ UpdateDrag \/ EndDrag \/ KeyPress \/ Scroll
  \/ \E e \in Elements : InitDrag(e) \/ RevertMoves(e) \/ Destroy(e)
  \/ \E d \in Drops : RemoveDrop(d)

Spec == Init /\ [][Next]_vars

-----------------------------------------------------------------------------
TypeOK ==
  /\ options \in DragOptions
  /\ presses \in 0..MaxPresses /\ pressed \in BOOLEAN
  /\ \A s \in {drags, dragging, clone, raised, scrolling, reverting, cancelled} : s \subseteq Elements
  /\ activeDraggable \in Elements \cup {None} /\ lastPointer \in Points \cup {None}
  /\ place \in [Elements -> Points] /\ delta \in [Elements -> Points]
  /\ drops \in Seq(Drops) /\ last_active \in Drops \cup {None} /\ hover \subseteq Drops

\* One droppable at most shows the mark, the one that a drop would go to, and
\* none when nothing is dragged, also when droppables were removed meanwhile.
OneMark ==
  /\ hover = IF last_active = None THEN {} ELSE {last_active}
  /\ dragging = {} => hover = {}

\* An element is dropped where the mouse was released, on a droppable that
\* takes it, wherever the pointer was when the mark was last drawn.
DroppedWhereReleased ==
  \A d \in dropped : d[3] \in Covers[d[2]] /\ <<d[1], d[2]>> \in Accepted

\* Only the element under the pressed mouse is dragged, lies above the others
\* and has a clone in its place.
NothingLeftOver ==
  /\ dragging \subseteq {activeDraggable}
  /\ activeDraggable # None => pressed
  /\ clone = IF options.ghosting THEN dragging ELSE {}
  /\ raised = dragging

\* An element that reverts rests where it belongs, unless it was pressed on its
\* way and then let go.
RestsAtHome ==
  \A e \in Reverts \ (reverting \cup dragging \cup cancelled) : place[e] = delta[e]

\* A revert never changes where an element belongs.
HomeStays == [][\A e \in Reverts : delta'[e] = delta[e]]_vars

\* The page is scrolled only while something is dragged.
ScrollsOnlyDragging == scrolling \subseteq dragging
=============================================================================
