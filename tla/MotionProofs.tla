---------------------------- MODULE MotionProofs ----------------------------
(***************************************************************************)
(* Proofs about what moves on a page: the drags, the sortable lists, the   *)
(* sliders and the effects, for any elements, lists, handles and options.  *)
(***************************************************************************)
EXTENDS MCMotion, SequenceTheorems, WellFoundedInduction, TLAPS

-----------------------------------------------------------------------------
(* Each one alone *)

LEMMA EachAlone == AllSpec => Drag!Spec /\ List!Spec /\ Track!Spec /\ Queue!Spec /\ Style!Spec
<1>1. AllInit => Drag!Init /\ List!Init /\ Track!Init /\ Queue!Init /\ Style!Init
  BY DEF AllInit
<1>2. [AllNext]_allVars =>
        /\ [Drag!Next]_(Drag!vars) /\ [List!Next]_(List!vars) /\ [Track!Next]_(Track!vars)
        /\ [Queue!Next]_(Queue!vars) /\ [Style!Next]_(Style!vars)
  <2> SUFFICES ASSUME [AllNext]_allVars
               PROVE  /\ Drag!Next \/ UNCHANGED dragVars
                      /\ List!Next \/ UNCHANGED listVars
                      /\ Track!Next \/ UNCHANGED sliderVars
                      /\ Queue!Next \/ UNCHANGED queueVars
                      /\ Style!Next \/ UNCHANGED styleVars
    BY DEF Drag!vars, Drag!mouse, Drag!place_, Drag!look, Drag!targets, List!vars,
           Track!vars, Queue!vars, Style!vars, dragVars, listVars, sliderVars, queueVars, styleVars
  <2> QED
    BY DEF AllNext, Moves, allVars
<1> QED
  BY <1>1, <1>2, PTL DEF AllSpec, Drag!Spec, List!Spec, Track!Spec, Queue!Spec, Style!Spec

-----------------------------------------------------------------------------
(* Drags.  What is scrolled is dragged, so that drawing it at the pointer  *)
(* again moves nothing that rests; and where the user may hit Escape       *)
(* nothing is scrolled.                                                    *)

ScrollsByOption == options.scroll \/ scrolling = {}

DragInv ==
  /\ Drag!TypeOK
  /\ Drag!OneMark
  /\ Drag!DroppedWhereReleased
  /\ Drag!NothingLeftOver
  /\ Drag!RestsAtHome
  /\ Drag!ScrollsOnlyDragging
  /\ ScrollsByOption

LEMMA DragAssumed ==
  /\ \A o \in DragOptions : /\ o.ghosting \in BOOLEAN /\ o.scroll \in BOOLEAN
                            /\ o.escapes \in BOOLEAN /\ ~(o.scroll /\ o.escapes)
  /\ Added \subseteq Seq(Drops) /\ Reverts \subseteq Elements
  /\ Drag!None \notin Elements /\ Drag!None \notin Drops /\ Drag!None \notin Points
  /\ MaxPresses \in Nat
<1>1. \A o \in DragOptions : o \in [ghosting : BOOLEAN, scroll : BOOLEAN, escapes : BOOLEAN,
                                    greedy : SUBSET Drops]
  BY MotionAssumption DEF Drag!DragDropAssumption, Drag!OptionsAssumption
<1> QED
  BY <1>1, MotionAssumption DEF Drag!DragDropAssumption, Drag!OptionsAssumption

LEMMA DragStarts == Drag!Init => DragInv
<1> SUFFICES ASSUME Drag!Init PROVE DragInv
  OBVIOUS
<1>1. drops \in Seq(Drops)
  BY DragAssumed DEF Drag!Init
<1>2. Drag!TypeOK
  <2>1. presses \in 0..MaxPresses
    BY DragAssumed DEF Drag!Init
  <2>2. \A s \in {drags, dragging, clone, raised, scrolling, reverting, cancelled} :
          s \subseteq Elements
    BY DEF Drag!Init, Drag!Registered
  <2>3. place \in [Elements -> Points] /\ delta \in [Elements -> Points]
    BY DEF Drag!Init
  <2> QED
    BY <1>1, <2>1, <2>2, <2>3 DEF Drag!Init, Drag!TypeOK
<1>3. /\ Drag!OneMark /\ Drag!DroppedWhereReleased /\ Drag!ScrollsOnlyDragging
      /\ ScrollsByOption
  BY DEF Drag!Init, Drag!OneMark, Drag!DroppedWhereReleased, Drag!ScrollsOnlyDragging,
     ScrollsByOption
<1>4. Drag!NothingLeftOver /\ Drag!RestsAtHome
  BY DEF Drag!Init, Drag!NothingLeftOver, Drag!RestsAtHome
<1> QED
  BY <1>2, <1>3, <1>4 DEF DragInv

\* The mark goes to a droppable or to none, and with it what shows it.
LEMMA ShowMarks ==
  ASSUME DragInv, NEW p, NEW e, Drag!Show(p, e)
  PROVE  /\ last_active' \in Drops \cup {Drag!None} /\ hover' \subseteq Drops
         /\ hover' = IF last_active' = Drag!None THEN {} ELSE {last_active'}
<1>1. /\ hover = IF last_active = Drag!None THEN {} ELSE {last_active}
      /\ last_active \in Drops \cup {Drag!None} /\ hover \subseteq Drops
      /\ drops \in Seq(Drops)
  BY DEF DragInv, Drag!TypeOK, Drag!OneMark
<1>2. Drag!Unmarked = {}
  BY <1>1 DEF Drag!Unmarked
<1>3. \A d \in Drag!Found(p, e) : d \in Drops
  BY <1>1 DEF Drag!Found
<1>4. CASE UNCHANGED <<last_active, hover>>
  BY <1>1, <1>4
<1>5. CASE last_active' = Drag!None /\ hover' = Drag!Unmarked
  BY <1>2, <1>5
<1>6. CASE \E d \in Drag!Found(p, e) : last_active' = d /\ hover' = Drag!MarkOnly(d)
  BY <1>2, <1>3, <1>6, DragAssumed DEF Drag!MarkOnly
<1> QED
  BY <1>4, <1>5, <1>6 DEF Drag!Show

LEMMA PressKeepsDrags ==
  ASSUME DragInv, NEW e \in Elements, Drag!InitDrag(e)
  PROVE  DragInv'
<1>1. activeDraggable = Drag!None /\ dragging = {} /\ scrolling = {}
  BY DragAssumed DEF DragInv, Drag!TypeOK, Drag!NothingLeftOver, Drag!ScrollsOnlyDragging,
     Drag!InitDrag
<1>2. Drag!TypeOK'
  BY DragAssumed DEF DragInv, Drag!TypeOK, Drag!InitDrag, Drag!look, Drag!targets
<1>3. /\ Drag!OneMark' /\ Drag!DroppedWhereReleased' /\ Drag!ScrollsOnlyDragging'
      /\ ScrollsByOption'
  BY DEF DragInv, Drag!OneMark, Drag!DroppedWhereReleased, Drag!ScrollsOnlyDragging,
     ScrollsByOption, Drag!InitDrag, Drag!look, Drag!targets
<1>4. Drag!NothingLeftOver'
  BY <1>1 DEF DragInv, Drag!NothingLeftOver, Drag!InitDrag, Drag!look
<1>5. Drag!RestsAtHome'
  BY DEF DragInv, Drag!RestsAtHome, Drag!InitDrag, Drag!look
<1> QED
  BY <1>2, <1>3, <1>4, <1>5 DEF DragInv

LEMMA MoveKeepsDrags ==
  ASSUME DragInv, Drag!UpdateDrag
  PROVE  DragInv'
<1>1. PICK p \in Points :
        /\ lastPointer' = p
        /\ dragging' = dragging \cup {activeDraggable}
        /\ raised' = raised \cup {activeDraggable}
        /\ clone' = IF options.ghosting THEN clone \cup {activeDraggable} ELSE clone
        /\ scrolling' = IF options.scroll THEN scrolling \cup {activeDraggable} ELSE scrolling
        /\ Drag!Show(p, activeDraggable)
        /\ place' = [place EXCEPT ![activeDraggable] = p]
  BY DEF Drag!UpdateDrag, Drag!PointerMoves, Drag!StartDrag, Drag!StartScrolling, Drag!Draw
<1>2. /\ activeDraggable \in Elements /\ activeDraggable # Drag!None
      /\ UNCHANGED <<options, presses, pressed, drags, activeDraggable, delta, reverting,
                     cancelled, drops, dropped>>
  BY DEF DragInv, Drag!TypeOK, Drag!UpdateDrag, Drag!mouse
<1>3. /\ last_active' \in Drops \cup {Drag!None} /\ hover' \subseteq Drops
      /\ hover' = IF last_active' = Drag!None THEN {} ELSE {last_active'}
  BY <1>1, ShowMarks
<1>4. Drag!TypeOK'
  BY <1>1, <1>2, <1>3 DEF DragInv, Drag!TypeOK
<1>5. /\ Drag!OneMark' /\ Drag!DroppedWhereReleased' /\ Drag!ScrollsOnlyDragging'
      /\ ScrollsByOption'
  BY <1>1, <1>2, <1>3 DEF DragInv, Drag!OneMark, Drag!DroppedWhereReleased,
     Drag!ScrollsOnlyDragging, ScrollsByOption
<1>6. Drag!NothingLeftOver'
  BY <1>1, <1>2 DEF DragInv, Drag!NothingLeftOver
<1>7. Drag!RestsAtHome'
  BY <1>1, <1>2 DEF DragInv, Drag!RestsAtHome, Drag!TypeOK
<1> QED
  BY <1>4, <1>5, <1>6, <1>7 DEF DragInv

\* What ends a drag leaves nothing dragged, marked or active; an element that
\* reverts is then on its way home.
LEMMA FinishEndsDrag ==
  ASSUME DragInv, NEW e \in Elements, e = activeDraggable, Drag!FinishDrag(e),
         UNCHANGED place
  PROVE  /\ dragging' = {} /\ clone' = {} /\ raised' = {} /\ hover' = {}
         /\ last_active' = Drag!None /\ activeDraggable' = Drag!None
         /\ reverting' \subseteq Elements /\ cancelled' \subseteq Elements
         /\ delta' \in [Elements -> Points]
         /\ Drag!RestsAtHome'
<1>1. /\ dragging \subseteq {e} /\ raised = dragging
      /\ clone = (IF options.ghosting THEN dragging ELSE {})
      /\ hover = IF last_active = Drag!None THEN {} ELSE {last_active}
  BY DEF DragInv, Drag!NothingLeftOver, Drag!OneMark
<1>2. /\ dragging' = {} /\ clone' = {} /\ raised' = {} /\ hover' = {}
      /\ last_active' = Drag!None /\ activeDraggable' = Drag!None
  BY <1>1 DEF Drag!FinishDrag, Drag!CloneAfter, Drag!RaisedAfter, Drag!MarkAfterReset,
     Drag!ActiveAfter
<1>3. /\ cancelled' = cancelled \ {e}
      /\ IF e \in Reverts
         THEN reverting' = reverting \cup {e} /\ delta' = [delta EXCEPT ![e] = delta[e]]
         ELSE reverting' = reverting /\ delta' = [delta EXCEPT ![e] = place[e]]
  BY DEF Drag!FinishDrag, Drag!RevertFrom
<1>4. /\ reverting' \subseteq Elements /\ cancelled' \subseteq Elements
      /\ delta' \in [Elements -> Points]
  BY <1>3 DEF DragInv, Drag!TypeOK
<1>5. ASSUME NEW x \in Reverts, x \notin reverting', x \notin cancelled'
      PROVE  place'[x] = delta'[x]
  <2>1. x # e /\ x \notin dragging /\ x \notin reverting /\ x \notin cancelled
    BY <1>1, <1>3, <1>5
  <2>2. delta'[x] = delta[x]
    BY <1>3, <2>1, DragAssumed DEF DragInv, Drag!TypeOK
  <2> QED
    BY <2>1, <2>2 DEF DragInv, Drag!RestsAtHome
<1> QED
  BY <1>2, <1>4, <1>5 DEF Drag!RestsAtHome

LEMMA ReleaseKeepsDrags ==
  ASSUME DragInv, Drag!EndDrag
  PROVE  DragInv'
<1>1. CASE activeDraggable = Drag!None
  <2>1. /\ UNCHANGED <<options, presses, drags, activeDraggable, lastPointer, dragging, clone,
                       raised, scrolling, place, delta, reverting, cancelled, drops,
                       last_active, hover, dropped>>
        /\ pressed' = FALSE
    BY <1>1 DEF Drag!EndDrag, Drag!look, Drag!place_, Drag!targets
  <2> QED
    BY <1>1, <2>1 DEF DragInv, Drag!TypeOK, Drag!OneMark, Drag!DroppedWhereReleased,
       Drag!NothingLeftOver, Drag!RestsAtHome, Drag!ScrollsOnlyDragging, ScrollsByOption
<1>2. CASE activeDraggable # Drag!None /\ activeDraggable \in dragging
  <2>1. /\ pressed' = FALSE /\ lastPointer' = Drag!None
        /\ scrolling' = scrolling \ {activeDraggable}
        /\ UNCHANGED <<options, presses, drags, place, drops>>
        /\ Drag!FinishDrag(activeDraggable)
        /\ \E p \in Points : Drag!Fire(p, activeDraggable)
    BY <1>2 DEF Drag!EndDrag, Drag!ScrollingAfter
  <2>2. activeDraggable \in Elements
    BY <1>2 DEF DragInv, Drag!TypeOK
  <2>3. /\ dragging' = {} /\ clone' = {} /\ raised' = {} /\ hover' = {}
        /\ last_active' = Drag!None /\ activeDraggable' = Drag!None
        /\ reverting' \subseteq Elements /\ cancelled' \subseteq Elements
        /\ delta' \in [Elements -> Points]
        /\ Drag!RestsAtHome'
    BY <2>1, <2>2, FinishEndsDrag
  <2>4. scrolling' = {}
    BY <2>1 DEF DragInv, Drag!ScrollsOnlyDragging, Drag!NothingLeftOver
  <2>5. Drag!TypeOK'
    <3>1. Drag!TypeOK
      BY DEF DragInv
    <3>2. \A s \in {drags', dragging', clone', raised', scrolling', reverting', cancelled'} :
            s \subseteq Elements
      BY <2>1, <2>3, <2>4, <3>1 DEF Drag!TypeOK
    <3>3. place' \in [Elements -> Points] /\ delta' \in [Elements -> Points]
      BY <2>1, <2>3, <3>1 DEF Drag!TypeOK
    <3> QED
      BY <2>1, <2>3, <3>1, <3>2, <3>3 DEF Drag!TypeOK
  <2>6. Drag!DroppedWhereReleased'
    <3>1. PICK p \in Points : Drag!Fire(p, activeDraggable)
      BY <2>1
    <3>2. CASE dropped' = dropped
      BY <3>2 DEF DragInv, Drag!DroppedWhereReleased
    <3>3. CASE /\ dropped' = {<<activeDraggable, last_active, p>>}
               /\ p \in Covers[last_active] /\ <<activeDraggable, last_active>> \in Accepted
      BY <3>3 DEF Drag!DroppedWhereReleased
    <3> QED
      BY <3>1, <3>2, <3>3 DEF Drag!Fire, Drag!IsAffected
  <2>7. /\ Drag!OneMark' /\ Drag!NothingLeftOver' /\ Drag!ScrollsOnlyDragging'
        /\ ScrollsByOption'
    BY <2>3, <2>4 DEF Drag!OneMark, Drag!NothingLeftOver, Drag!ScrollsOnlyDragging,
       ScrollsByOption
  <2> QED
    BY <2>3, <2>5, <2>6, <2>7 DEF DragInv
<1>3. CASE activeDraggable # Drag!None /\ activeDraggable \notin dragging
  <2>1. /\ pressed' = FALSE /\ lastPointer' = Drag!None /\ activeDraggable' = Drag!None
        /\ UNCHANGED <<options, presses, drags, dragging, clone, raised, scrolling, place,
                       delta, reverting, cancelled, drops, last_active, hover, dropped>>
    BY <1>3 DEF Drag!EndDrag, Drag!look
  <2>2. dragging = {}
    BY <1>3 DEF DragInv, Drag!NothingLeftOver
  <2> QED
    BY <2>1, <2>2 DEF DragInv, Drag!TypeOK, Drag!OneMark, Drag!DroppedWhereReleased,
       Drag!NothingLeftOver, Drag!RestsAtHome, Drag!ScrollsOnlyDragging, ScrollsByOption
<1> QED
  BY <1>1, <1>2, <1>3

LEMMA EscapeKeepsDrags ==
  ASSUME DragInv, Drag!KeyPress
  PROVE  DragInv'
<1>1. /\ UNCHANGED <<options, presses, pressed, drags, lastPointer, scrolling, place, drops,
                     dropped>>
      /\ options.escapes
      /\ activeDraggable \in Elements /\ Drag!FinishDrag(activeDraggable)
  BY DEF DragInv, Drag!TypeOK, Drag!KeyPress, Drag!mouse
<1>2. /\ dragging' = {} /\ clone' = {} /\ raised' = {} /\ hover' = {}
      /\ last_active' = Drag!None /\ activeDraggable' = Drag!None
      /\ reverting' \subseteq Elements /\ cancelled' \subseteq Elements
      /\ delta' \in [Elements -> Points]
      /\ Drag!RestsAtHome'
  BY <1>1, FinishEndsDrag
<1>3. scrolling = {}
  <2>1. options \in DragOptions /\ ScrollsByOption
    BY DEF DragInv, Drag!TypeOK
  <2> QED
    BY <1>1, <2>1, DragAssumed DEF ScrollsByOption
<1>4. Drag!TypeOK'
  <2>1. Drag!TypeOK
    BY DEF DragInv
  <2> HIDE DEF DragInv
  <2> QED
    BY <1>1, <1>2, <1>3, <2>1 DEF Drag!TypeOK
<1>5. /\ Drag!OneMark' /\ Drag!NothingLeftOver' /\ Drag!ScrollsOnlyDragging'
      /\ ScrollsByOption'
  BY <1>1, <1>2, <1>3 DEF Drag!OneMark, Drag!NothingLeftOver, Drag!ScrollsOnlyDragging,
     ScrollsByOption
<1>6. Drag!DroppedWhereReleased'
  BY <1>1 DEF DragInv, Drag!DroppedWhereReleased
<1> QED
  BY <1>2, <1>4, <1>5, <1>6 DEF DragInv

LEMMA ScrollKeepsDrags ==
  ASSUME DragInv, Drag!Scroll
  PROVE  DragInv'
<1>1. PICK e \in scrolling :
        /\ lastPointer # Drag!None /\ Drag!Show(lastPointer, e)
        /\ place' = [place EXCEPT ![e] = lastPointer]
        /\ UNCHANGED <<options, presses, pressed, drags, activeDraggable, lastPointer,
                       dragging, clone, raised, scrolling, delta, reverting, cancelled,
                       drops, dropped>>
  BY DEF Drag!Scroll, Drag!Draw, Drag!mouse, Drag!look
<1>2. e \in dragging /\ lastPointer \in Points
  BY <1>1 DEF DragInv, Drag!TypeOK, Drag!ScrollsOnlyDragging
<1>3. /\ last_active' \in Drops \cup {Drag!None} /\ hover' \subseteq Drops
      /\ hover' = IF last_active' = Drag!None THEN {} ELSE {last_active'}
  BY <1>1, ShowMarks
<1>4. Drag!TypeOK'
  BY <1>1, <1>2, <1>3 DEF DragInv, Drag!TypeOK
<1>5. /\ Drag!OneMark' /\ Drag!DroppedWhereReleased' /\ Drag!ScrollsOnlyDragging'
      /\ Drag!NothingLeftOver' /\ ScrollsByOption'
  BY <1>1, <1>2, <1>3 DEF DragInv, Drag!OneMark, Drag!DroppedWhereReleased,
     Drag!ScrollsOnlyDragging, Drag!NothingLeftOver, ScrollsByOption
<1>6. Drag!RestsAtHome'
  BY <1>1, <1>2 DEF DragInv, Drag!RestsAtHome, Drag!TypeOK
<1> QED
  BY <1>4, <1>5, <1>6 DEF DragInv

LEMMA RevertKeepsDrags ==
  ASSUME DragInv, NEW e \in Elements, Drag!RevertMoves(e)
  PROVE  DragInv'
<1>1. /\ e \in reverting
      /\ UNCHANGED <<options, presses, pressed, drags, activeDraggable, lastPointer,
                     dragging, clone, raised, scrolling, delta, cancelled, drops,
                     last_active, hover, dropped>>
  BY DEF Drag!RevertMoves, Drag!mouse, Drag!look, Drag!targets
<1>2. \/ place' = [place EXCEPT ![e] = delta[e]] /\ reverting' = reverting \ {e}
      \/ \E p \in Points : place' = [place EXCEPT ![e] = p] /\ reverting' = reverting
  BY DEF Drag!RevertMoves, Drag!EndOfRevert
<1>3. Drag!TypeOK'
  BY <1>1, <1>2 DEF DragInv, Drag!TypeOK
<1>4. /\ Drag!OneMark' /\ Drag!DroppedWhereReleased' /\ Drag!ScrollsOnlyDragging'
      /\ Drag!NothingLeftOver' /\ ScrollsByOption'
  BY <1>1 DEF DragInv, Drag!OneMark, Drag!DroppedWhereReleased, Drag!ScrollsOnlyDragging,
     Drag!NothingLeftOver, ScrollsByOption
<1>5. Drag!RestsAtHome'
  BY <1>1, <1>2, DragAssumed DEF DragInv, Drag!RestsAtHome, Drag!TypeOK
<1> QED
  BY <1>3, <1>4, <1>5 DEF DragInv

\* Draggables and droppables that are taken back are not what is dragged or
\* marked.
LEMMA PageKeepsDrags ==
  ASSUME DragInv,
         \/ \E e \in Elements : Drag!Destroy(e)
         \/ \E d \in Drops : Drag!RemoveDrop(d)
  PROVE  DragInv'
<1>1. /\ UNCHANGED <<options, presses, pressed, activeDraggable, lastPointer, dragging, clone,
                     raised, scrolling, place, delta, reverting, cancelled, last_active,
                     hover, dropped>>
      /\ drags' \subseteq drags
  BY DEF Drag!Destroy, Drag!RemoveDrop, Drag!Unregistered, Drag!mouse, Drag!look,
     Drag!place_, Drag!targets
<1>2. drops' \in Seq(Drops)
  <2>1. CASE drops' = drops
    BY <2>1 DEF DragInv, Drag!TypeOK
  <2>2. CASE \E i \in DOMAIN drops : drops' = Drag!RemoveAt(drops, i)
    BY <2>2 DEF DragInv, Drag!TypeOK, Drag!RemoveAt
  <2> QED
    BY <2>1, <2>2 DEF Drag!Destroy, Drag!RemoveDrop, Drag!targets
<1>3. Drag!TypeOK'
  BY <1>1, <1>2 DEF DragInv, Drag!TypeOK
<1>4. /\ Drag!OneMark' /\ Drag!DroppedWhereReleased' /\ Drag!ScrollsOnlyDragging'
      /\ Drag!NothingLeftOver' /\ Drag!RestsAtHome' /\ ScrollsByOption'
  BY <1>1 DEF DragInv, Drag!OneMark, Drag!DroppedWhereReleased, Drag!ScrollsOnlyDragging,
     Drag!NothingLeftOver, Drag!RestsAtHome, ScrollsByOption
<1> QED
  BY <1>3, <1>4 DEF DragInv

LEMMA DragSteps == DragInv /\ [Drag!Next]_(Drag!vars) => DragInv'
<1> SUFFICES ASSUME DragInv, [Drag!Next]_(Drag!vars) PROVE DragInv'
  OBVIOUS
<1>1. ASSUME NEW e \in Elements, Drag!InitDrag(e) PROVE DragInv'
  BY <1>1, PressKeepsDrags
<1>2. CASE Drag!UpdateDrag
  BY <1>2, MoveKeepsDrags
<1>3. CASE Drag!EndDrag
  BY <1>3, ReleaseKeepsDrags
<1>4. CASE Drag!KeyPress
  BY <1>4, EscapeKeepsDrags
<1>5. CASE Drag!Scroll
  BY <1>5, ScrollKeepsDrags
<1>6. ASSUME NEW e \in Elements, Drag!RevertMoves(e) PROVE DragInv'
  BY <1>6, RevertKeepsDrags
<1>7. CASE \/ \E e \in Elements : Drag!Destroy(e)
           \/ \E d \in Drops : Drag!RemoveDrop(d)
  BY <1>7, PageKeepsDrags
<1>8. CASE UNCHANGED Drag!vars
  BY <1>8 DEF DragInv, Drag!TypeOK, Drag!OneMark, Drag!DroppedWhereReleased,
     Drag!ScrollsOnlyDragging, Drag!NothingLeftOver, Drag!RestsAtHome, ScrollsByOption,
     Drag!vars, Drag!mouse, Drag!look, Drag!place_, Drag!targets
<1> QED
  BY <1>1, <1>2, <1>3, <1>4, <1>5, <1>6, <1>7, <1>8 DEF Drag!Next

\* Only what is under the pressed mouse is dragged, lies above the others and is
\* scrolled; one droppable is marked; the drop is where the mouse was released,
\* on an element that takes it; and what reverts comes home.
THEOREM DragsAreSound == AllSpec => []DragsSound
<1>1. Drag!Spec => []DragInv
  BY DragStarts, DragSteps, PTL DEF Drag!Spec
<1>2. DragInv => DragsSound
  BY DEF DragInv, DragsSound
<1> QED
  BY <1>1, <1>2, EachAlone, PTL

\* A revert never changes where an element belongs.
THEOREM HomesStay == AllSpec => Drag!HomeStays
<1>1. DragInv /\ [Drag!Next]_(Drag!vars) => [\A e \in Reverts : delta'[e] = delta[e]]_(Drag!vars)
  <2> SUFFICES ASSUME DragInv, Drag!Next, NEW x \in Reverts PROVE delta'[x] = delta[x]
    OBVIOUS
  <2>1. delta \in [Elements -> Points]
    BY DEF DragInv, Drag!TypeOK
  <2>2. ASSUME NEW e \in Elements, Drag!FinishDrag(e) PROVE delta'[x] = delta[x]
    <3>1. IF e \in Reverts THEN delta' = [delta EXCEPT ![e] = delta[e]]
          ELSE delta' = [delta EXCEPT ![e] = place[e]]
      BY <2>2 DEF Drag!FinishDrag, Drag!RevertFrom
    <3> QED
      BY <2>1, <3>1, DragAssumed
  <2>3. ASSUME activeDraggable # Drag!None PROVE activeDraggable \in Elements
    BY <2>3 DEF DragInv, Drag!TypeOK
  <2>4. CASE Drag!EndDrag
    BY <2>2, <2>3, <2>4 DEF Drag!EndDrag, Drag!place_
  <2>5. CASE Drag!KeyPress
    BY <2>2, <2>3, <2>5 DEF Drag!KeyPress
  <2>6. CASE delta' = delta
    BY <2>6
  <2> QED
    BY <2>4, <2>5, <2>6 DEF Drag!Next, Drag!InitDrag, Drag!UpdateDrag, Drag!Scroll,
       Drag!RevertMoves, Drag!Destroy, Drag!RemoveDrop, Drag!place_
<1>2. Drag!Spec => []DragInv
  BY DragStarts, DragSteps, PTL DEF Drag!Spec
<1> QED
  BY <1>1, <1>2, EachAlone, PTL DEF Drag!Spec, Drag!HomeStays

-----------------------------------------------------------------------------
(* Sliders.  A value that lies between two allowed ones comes to one that  *)
(* lies between them too.                                                  *)

LEMMA LeastNatural ==
  ASSUME NEW S \in SUBSET Nat, S # {}
  PROVE  \E m \in S : \A n \in S : m <= n
<1> DEFINE Less == {nm \in Nat \X Nat : nm[1] < nm[2]}
<1>1. IsWellFoundedOn(Less, Nat)
  BY NatLessThanWellFounded DEF OpToRel
<1>2. PICK m \in S : \A n \in S : <<n, m>> \notin Less
  <2> HIDE DEF Less
  <2> QED
    BY <1>1, WFMin
<1>3. ASSUME NEW n \in S PROVE m <= n
  <2>1. m \in Nat /\ n \in Nat
    OBVIOUS
  <2>2. <<n, m>> \notin Less
    <3> HIDE DEF Less
    <3> QED
      BY <1>2
  <2> QED
    BY <2>1, <2>2
<1> QED
  BY <1>3

\* Of allowed values there is a nearest one, and of two the higher.
LEMMA NearestExists ==
  ASSUME NEW A \in SUBSET Int, A # {}, NEW v \in Int
  PROVE  LET near == {w \in A : \A u \in A : Track!Distance(w, v) <= Track!Distance(u, v)}
         IN Track!Max(near) \in near
<1> DEFINE dist(u) == Track!Distance(u, v)
           near == {w \in A : \A u \in A : dist(w) <= dist(u)}
           D == {dist(u) : u \in A}
<1>1. \A u \in A : dist(u) \in Nat
  BY DEF Track!Distance
<1>2. PICK m \in D : \A n \in D : m <= n
  <2>1. D \in SUBSET Nat /\ D # {}
    BY <1>1
  <2> HIDE DEF D
  <2> QED
    BY <2>1, LeastNatural
<1>3. PICK w \in A : m = dist(w)
  OBVIOUS
<1>4. \A u \in A : dist(w) <= dist(u)
  BY <1>2, <1>3
<1>5. w \in near
  BY <1>4
<1>6. \A u \in near : dist(u) = dist(w)
  BY <1>1, <1>4
<1>7. \A u \in near : u = v + dist(w) \/ u = v - dist(w)
  <2> SUFFICES ASSUME NEW u \in near PROVE u = v + dist(w) \/ u = v - dist(w)
    OBVIOUS
  <2>1. u \in Int /\ dist(u) = dist(w)
    BY <1>6
  <2> QED
    BY <2>1 DEF Track!Distance
<1>8. dist(w) \in Nat
  BY <1>1
<1>9. near \subseteq Int
  OBVIOUS
<1>10. \E x \in near : \A y \in near : x >= y
  <2> HIDE DEF near
  <2> DEFINE up == v + dist(w)
  <2>1. CASE up \in near
    <3>1. \A y \in near : up >= y
      BY <1>7, <1>8
    <3> QED
      BY <2>1, <3>1
  <2>2. CASE up \notin near
    <3>1. \A y \in near : y = v - dist(w)
      BY <1>7, <2>2
    <3>2. w \in Int
      OBVIOUS
    <3>3. \A y \in near : y = w
      BY <1>5, <3>1
    <3>4. \A y \in near : w >= y
      BY <3>2, <3>3
    <3> QED
      BY <1>5, <3>4
  <2> QED
    BY <2>1, <2>2
<1>11. Track!Max(near) \in near
  <2> HIDE DEF near
  <2> QED
    BY <1>10 DEF Track!Max
<1> QED
  BY <1>11

LEMMA TrackAssumed ==
  ASSUME sliderOptions \in SliderOptions
  PROVE  /\ sliderOptions.handles \in Nat /\ sliderOptions.handles >= 1
         /\ sliderOptions.low \in Int /\ sliderOptions.high \in Int
         /\ sliderOptions.low <= sliderOptions.high
         /\ sliderOptions.values \subseteq sliderOptions.low..sliderOptions.high
         /\ sliderOptions.start \in [Track!Handles -> Track!Allowed]
         /\ sliderOptions.restricted =>
              \A h \in 1..(sliderOptions.handles - 1) :
                sliderOptions.start[h] <= sliderOptions.start[h + 1]
         /\ MaxSets \in Nat
         /\ Track!Allowed # {} /\ Track!Allowed \subseteq Int
BY MotionAssumption DEF Track!SliderAssumption, Track!Handles, Track!Allowed

\* The nearest value is allowed, and none that is allowed is nearer.
LEMMA NearestIsNear ==
  ASSUME sliderOptions \in SliderOptions, NEW v \in Int
  PROVE  /\ Track!NearestValue(v) \in Track!Allowed
         /\ \A u \in Track!Allowed :
              Track!Distance(Track!NearestValue(v), v) <= Track!Distance(u, v)
<1>1. CASE sliderOptions.values # {}
  <2> DEFINE A == sliderOptions.values
             near == {w \in A : \A u \in A : Track!Distance(w, v) <= Track!Distance(u, v)}
  <2>1. A \in SUBSET Int /\ A # {}
    BY <1>1, TrackAssumed
  <2>2. Track!Max(near) \in near
    <3> HIDE DEF A
    <3> QED
      BY <2>1, NearestExists
  <2>3. Track!NearestValue(v) = Track!Max(near) /\ Track!Allowed = A
    BY <1>1 DEF Track!NearestValue, Track!Allowed
  <2> HIDE DEF A
  <2> QED
    BY <2>2, <2>3
<1>2. CASE sliderOptions.values = {}
  <2> DEFINE low == sliderOptions.low
             high == sliderOptions.high
             near == Track!NearestValue(v)
  <2>1. near = (IF v > high THEN high ELSE IF v < low THEN low ELSE v)
    BY <1>2 DEF Track!NearestValue
  <2>2. Track!Allowed = low..high /\ low \in Int /\ high \in Int /\ low <= high
    BY <1>2, TrackAssumed DEF Track!Allowed
  <2> HIDE DEF low, high, near
  <2>3. near \in low..high
    BY <2>1, <2>2
  <2>4. \A u \in low..high : Track!Distance(near, v) <= Track!Distance(u, v)
    BY <2>1, <2>2 DEF Track!Distance
  <2> QED
    BY <2>2, <2>3, <2>4 DEF near
<1> QED
  BY <1>1, <1>2

SliderInv == Track!TypeOK /\ Track!InOrder /\ Track!PageKnows

\* The place that a handle may come to, from its neighbours.
MayComeTo(h) ==
  {w \in Track!Allowed : sliderOptions.restricted =>
     /\ h = 1 \/ w >= values[h - 1]
     /\ h = sliderOptions.handles \/ w <= values[h + 1]}

\* A value is fitted to the nearest place that its handle may come to, although
\* it is moved between the neighbours first and to an allowed value then.
LEMMA FittedIsNearest ==
  ASSUME SliderInv, NEW v \in Int, NEW h \in Track!Handles
  PROVE  /\ Track!Fitted(v, h) \in MayComeTo(h)
         /\ \A w \in MayComeTo(h) :
              Track!Distance(Track!Fitted(v, h), v) <= Track!Distance(w, v)
<1>1. /\ sliderOptions \in SliderOptions /\ values \in [Track!Handles -> Track!Allowed]
      /\ sliderOptions.restricted =>
           \A k \in 1..(sliderOptions.handles - 1) : values[k] <= values[k + 1]
  BY DEF SliderInv, Track!TypeOK, Track!InOrder
<1>2. /\ Track!Allowed \subseteq Int /\ sliderOptions.handles \in Nat
      /\ sliderOptions.handles >= 1
  BY <1>1, TrackAssumed
<1>3. CASE ~sliderOptions.restricted
  <2>1. Track!Fitted(v, h) = Track!NearestValue(v) /\ MayComeTo(h) = Track!Allowed
    BY <1>3 DEF Track!Fitted, MayComeTo
  <2> QED
    BY <1>1, <2>1, NearestIsNear
<1>4. CASE sliderOptions.restricted
  <2> DEFINE x == Track!Between(v, h)
             n == Track!NearestValue(x)
             first == h = 1
             final == h = sliderOptions.handles
             below == values[h - 1]
             above == values[h + 1]
  <2>1. /\ ~first => below \in Track!Allowed /\ below \in Int
        /\ ~final => above \in Track!Allowed /\ above \in Int
        /\ ~first /\ ~final => below <= above
    <3>1. h \in 1..sliderOptions.handles /\ h \in Int
      BY <1>2 DEF Track!Handles
    <3>2. ~first => h - 1 \in Track!Handles
      BY <1>2, <3>1 DEF Track!Handles
    <3>3. ~final => h + 1 \in Track!Handles
      BY <1>2, <3>1 DEF Track!Handles
    <3>4. ~first => values[h - 1] \in Track!Allowed
      BY <1>1, <3>2
    <3>5. ~final => values[h + 1] \in Track!Allowed
      BY <1>1, <3>3
    <3>6. ~first /\ ~final => values[h - 1] <= values[h + 1]
      <4> SUFFICES ASSUME ~first, ~final PROVE values[h - 1] <= values[h + 1]
        OBVIOUS
      <4>1. /\ h - 1 \in 1..(sliderOptions.handles - 1) /\ (h - 1) + 1 = h
            /\ h \in 1..(sliderOptions.handles - 1)
        BY <1>2, <3>1
      <4>2. values[h - 1] <= values[h] /\ values[h] <= values[h + 1]
        BY <1>1, <1>4, <4>1
      <4>3. values[h] \in Int /\ values[h - 1] \in Int /\ values[h + 1] \in Int
        BY <1>1, <1>2, <3>4, <3>5
      <4> QED
        BY <4>2, <4>3
    <3> QED
      BY <1>2, <3>4, <3>5, <3>6
  <2>2. h \in Int /\ (h > 1 <=> ~first) /\ (h < sliderOptions.handles <=> ~final)
    BY <1>2 DEF Track!Handles
  <2>3. /\ x = (LET low == IF ~first /\ v < below THEN below ELSE v
                IN IF ~final /\ low > above THEN above ELSE low)
        /\ Track!Fitted(v, h) = n
    BY <1>4, <2>2 DEF Track!Between, Track!Fitted
  <2>4. MayComeTo(h) = {w \in Track!Allowed : (first \/ w >= below) /\ (final \/ w <= above)}
    BY <1>4 DEF MayComeTo
  <2> HIDE DEF x, n, first, final, below, above
  <2>5. x \in Int
    BY <2>1, <2>3
  <2>6. n \in Track!Allowed /\ n \in Int
        /\ \A u \in Track!Allowed : Track!Distance(n, x) <= Track!Distance(u, x)
    BY <1>1, <1>2, <2>5, NearestIsNear DEF n
  <2>7. ~first => n >= below
    BY <2>1, <2>3, <2>5, <2>6 DEF Track!Distance
  <2>8. ~final => n <= above
    BY <2>1, <2>3, <2>5, <2>6 DEF Track!Distance
  <2>9. ASSUME NEW w \in Track!Allowed, first \/ w >= below, final \/ w <= above
        PROVE  Track!Distance(n, v) <= Track!Distance(w, v)
    <3>1. w \in Int /\ Track!Distance(n, x) <= Track!Distance(w, x)
      BY <1>2, <2>6
    <3>2. CASE x = v
      BY <3>1, <3>2
    <3>3. CASE x # v
      <4>1. x \in Track!Allowed
        BY <2>1, <2>3, <3>3
      <4>2. Track!Distance(n, x) <= Track!Distance(x, x)
        BY <2>6, <4>1
      <4>3. n = x
        BY <2>5, <2>6, <4>2 DEF Track!Distance
      <4> QED
        BY <2>1, <2>3, <2>5, <2>9, <3>1, <3>3, <4>3 DEF Track!Distance
    <3> QED
      BY <3>2, <3>3
  <2> QED
    BY <2>3, <2>4, <2>6, <2>7, <2>8, <2>9
<1> QED
  BY <1>3, <1>4

LEMMA SliderStarts == Track!Init => SliderInv
<1> SUFFICES ASSUME Track!Init PROVE SliderInv
  OBVIOUS
<1>1. sliderOptions \in SliderOptions /\ values = sliderOptions.start
  BY DEF Track!Init
<1>2. 1 \in Track!Handles /\ sliderOptions.start[1] \in Int
  <2>1. 1 \in Track!Handles
    BY <1>1, TrackAssumed DEF Track!Handles
  <2> QED
    BY <1>1, <2>1, TrackAssumed
<1>3. Track!TypeOK
  <2>1. asked \in Track!Handles \X Int /\ sets \in 0..MaxSets /\ activeHandle \in Track!Handles
    BY <1>1, <1>2, TrackAssumed DEF Track!Init
  <2> QED
    BY <1>1, <2>1, TrackAssumed DEF Track!Init, Track!TypeOK
<1>4. Track!InOrder /\ Track!PageKnows
  BY <1>1, TrackAssumed DEF Track!Init, Track!InOrder, Track!PageKnows
<1> QED
  BY <1>3, <1>4 DEF SliderInv

\* A handle that is set keeps its place among the others, and the page hears of
\* it unless it is dragged.
LEMMA SettingKeepsOrder ==
  ASSUME SliderInv, NEW v \in Int, NEW h \in Track!Handles, NEW ev \in BOOLEAN,
         NEW drag \in BOOLEAN, Track!SetHandle(v, h, ev, drag), UNCHANGED sliderOptions
  PROVE  /\ values' \in [Track!Handles -> Track!Allowed]
         /\ valuesTold' \in [Track!Handles -> Track!Allowed]
         /\ event' \in BOOLEAN
         /\ asked' \in Track!Handles \X Int
         /\ Track!InOrder'
         /\ ~drag => valuesTold' = values'
         /\ Track!GoesToNearest
<1> DEFINE w == Track!Fitted(v, h)
<1>1. /\ sliderOptions \in SliderOptions /\ values \in [Track!Handles -> Track!Allowed]
      /\ valuesTold \in [Track!Handles -> Track!Allowed] /\ event \in BOOLEAN
      /\ sliderOptions.restricted =>
           \A k \in 1..(sliderOptions.handles - 1) : values[k] <= values[k + 1]
  BY DEF SliderInv, Track!TypeOK, Track!InOrder
<1>2. /\ w \in MayComeTo(h)
      /\ \A u \in MayComeTo(h) : Track!Distance(w, v) <= Track!Distance(u, v)
  BY FittedIsNearest
<1>3. /\ values' = [values EXCEPT ![h] = w] /\ asked' = <<h, v>>
      /\ (valuesTold' = valuesTold /\ drag) \/ valuesTold' = values'
      /\ event' \in BOOLEAN
  BY DEF Track!SetHandle, Track!HeardLater
<1> HIDE DEF w
<1>4. values' \in [Track!Handles -> Track!Allowed]
  BY <1>1, <1>2, <1>3 DEF MayComeTo
<1>5. Track!InOrder'
  <2> SUFFICES ASSUME sliderOptions.restricted, NEW k \in 1..(sliderOptions.handles - 1)
               PROVE  values'[k] <= values'[k + 1]
    BY DEF Track!InOrder
  <2>1. /\ k \in Track!Handles /\ k + 1 \in Track!Handles /\ k \in Int
        /\ h \in Int /\ sliderOptions.handles \in Int /\ h >= 1
    BY <1>1, TrackAssumed DEF Track!Handles
  <2>2. values[k] <= values[k + 1]
    BY <1>1
  <2>3. CASE h = k
    <3>1. h # sliderOptions.handles
      BY <2>1, <2>3
    <3>2. w <= values[k + 1]
      BY <1>2, <2>3, <3>1 DEF MayComeTo
    <3> QED
      BY <1>1, <1>3, <2>1, <2>3, <3>2
  <2>4. CASE h = k + 1
    <3>1. h # 1 /\ h - 1 = k
      BY <2>1, <2>4
    <3>2. w >= values[k]
      BY <1>2, <3>1 DEF MayComeTo
    <3>3. values'[k] = values[k] /\ values'[k + 1] = w
      BY <1>1, <1>3, <2>1, <2>4
    <3>4. values[k] \in Int /\ w \in Int
      BY <1>1, <1>2, <2>1, TrackAssumed DEF MayComeTo
    <3> QED
      BY <3>2, <3>3, <3>4
  <2>5. CASE h # k /\ h # k + 1
    BY <1>1, <1>3, <2>1, <2>2, <2>5
  <2> QED
    BY <2>3, <2>4, <2>5
<1>6. Track!GoesToNearest
  <2>1. asked'[1] = h /\ asked'[2] = v /\ values'[h] = w
    BY <1>1, <1>3
  <2>2. \A k \in Track!Handles \ {h} : values'[k] = values[k]
    BY <1>1, <1>3
  <2> QED
    BY <1>2, <2>1, <2>2 DEF Track!GoesToNearest, MayComeTo
<1>7. asked' \in Track!Handles \X Int /\ valuesTold' \in [Track!Handles -> Track!Allowed]
  BY <1>1, <1>3, <1>4
<1> QED
  BY <1>3, <1>4, <1>5, <1>6, <1>7

LEMMA SliderSteps ==
  ASSUME SliderInv, [Track!Next]_(Track!vars)
  PROVE  SliderInv' /\ (Track!GoesToNearest \/ UNCHANGED <<asked, values>>)
<1>1. /\ sliderOptions \in SliderOptions /\ values \in [Track!Handles -> Track!Allowed]
      /\ valuesTold \in [Track!Handles -> Track!Allowed]
      /\ active \in BOOLEAN /\ sliding \in BOOLEAN /\ disabled \in BOOLEAN /\ event \in BOOLEAN
      /\ activeHandle \in Track!Handles /\ asked \in Track!Handles \X Int
      /\ sets \in 0..MaxSets /\ Track!InOrder /\ Track!PageKnows
  <2>1. {active, sliding, disabled, event} \subseteq BOOLEAN
    BY DEF SliderInv, Track!TypeOK
  <2> QED
    BY <2>1 DEF SliderInv, Track!TypeOK
<1>2. /\ MaxSets \in Nat /\ Track!Allowed \subseteq Int
      /\ \A v \in Track!Places : v \in Int
      /\ \A h \in Track!Handles : values[h] \in Int
  <2>1. MaxSets \in Nat /\ Track!Allowed \subseteq Int /\ \A h \in Track!Handles : values[h] \in Int
    BY <1>1, TrackAssumed
  <2> QED
    BY <1>1, <2>1, TrackAssumed DEF Track!Places
<1>3. UNCHANGED sliderOptions =>
        Track!Handles' = Track!Handles /\ Track!Allowed' = Track!Allowed
  BY DEF Track!Handles, Track!Allowed
\* From what a step leaves the invariant follows.
<1>4. ASSUME UNCHANGED sliderOptions, values' \in [Track!Handles -> Track!Allowed],
             valuesTold' \in [Track!Handles -> Track!Allowed],
             active' \in BOOLEAN, sliding' \in BOOLEAN, disabled' \in BOOLEAN,
             event' \in BOOLEAN, activeHandle' \in Track!Handles,
             asked' \in Track!Handles \X Int, sets' \in 0..MaxSets,
             Track!InOrder', sliding' \/ valuesTold' = values'
      PROVE  SliderInv'
  <2>1. {active, sliding, disabled, event}' \subseteq BOOLEAN
    BY <1>4
  <2>2. Track!TypeOK'
    BY <1>1, <1>3, <1>4, <2>1 DEF Track!TypeOK
  <2>3. Track!PageKnows'
    BY <1>4 DEF Track!PageKnows
  <2> QED
    BY <1>4, <2>2, <2>3 DEF SliderInv
<1>5. ASSUME NEW v \in Track!Places, NEW h \in Track!Handles, Track!SetValue(v, h)
      PROVE  SliderInv' /\ Track!GoesToNearest
  <2> DEFINE k == IF active THEN Track!Chosen(h) ELSE h
  <2>1. /\ k \in Track!Handles /\ Track!SetHandle(v, k, event, sliding)
        /\ UNCHANGED <<sliderOptions, active, sliding, disabled>>
        /\ activeHandle' \in Track!Handles /\ sets' \in 0..MaxSets
    BY <1>1, <1>2, <1>5 DEF Track!SetValue, Track!Chosen
  <2> HIDE DEF k
  <2> QED
    BY <1>1, <1>2, <1>4, <2>1, SettingKeepsOrder
<1>6. ASSUME NEW step \in {-1, 1}, NEW h \in Track!Handles, Track!SetValueBy(step, h)
      PROVE  SliderInv' /\ Track!GoesToNearest
  <2> DEFINE k == Track!Chosen(h)
             v == values[k] + step
  <2>1. k \in Track!Handles
    BY <1>1 DEF Track!Chosen
  <2>2. v \in Int
    <3> HIDE DEF k
    <3> QED
      BY <1>2, <2>1
  <2>3. /\ Track!SetHandle(v, k, event, sliding)
        /\ UNCHANGED <<sliderOptions, active, sliding, disabled>>
        /\ activeHandle' \in Track!Handles /\ sets' \in 0..MaxSets
    BY <1>1, <1>2, <1>6, <2>1 DEF Track!SetValueBy
  <2> HIDE DEF k, v
  <2> QED
    BY <1>1, <1>2, <1>4, <2>1, <2>2, <2>3, SettingKeepsOrder
<1>7. ASSUME NEW v \in Track!Places, Track!PressTrack(v)
      PROVE  SliderInv' /\ Track!GoesToNearest
  <2>1. /\ Track!SetHandle(v, activeHandle, TRUE, sliding)
        /\ UNCHANGED <<sliderOptions, sliding, disabled, activeHandle>>
        /\ active' = TRUE
    BY <1>7 DEF Track!PressTrack
  <2>2. sets' \in 0..MaxSets
    BY <1>1, <1>2, <1>7 DEF Track!PressTrack
  <2> QED
    BY <1>1, <1>2, <1>4, <2>1, <2>2, SettingKeepsOrder
<1>8. ASSUME NEW v \in Track!Places, Track!Update(v)
      PROVE  SliderInv' /\ Track!GoesToNearest
  <2>1. /\ Track!SetHandle(v, activeHandle, TRUE, TRUE) /\ sliding' = TRUE
        /\ UNCHANGED <<sliderOptions, active, disabled, activeHandle, sets>>
    BY <1>8 DEF Track!Update
  <2> QED
    BY <1>1, <1>2, <1>4, <2>1, SettingKeepsOrder
<1>9. ASSUME UNCHANGED <<sliderOptions, values>>
      PROVE  Track!InOrder'
  BY <1>1, <1>9 DEF Track!InOrder
<1>10. ASSUME NEW h \in Track!Handles, Track!PressHandle(h)
       PROVE  SliderInv' /\ UNCHANGED <<asked, values>>
  BY <1>1, <1>2, <1>4, <1>9, <1>10 DEF Track!PressHandle, Track!PageKnows
<1>11. CASE Track!EndDrag
  BY <1>1, <1>4, <1>9, <1>11 DEF Track!EndDrag, Track!ToldAtEnd, Track!PageKnows
<1>12. CASE Track!SetDisabled
  BY <1>1, <1>4, <1>9, <1>12 DEF Track!SetDisabled, Track!PageKnows
<1>13. CASE UNCHANGED Track!vars
  BY <1>1, <1>4, <1>9, <1>13 DEF Track!vars, Track!PageKnows
<1> QED
  BY <1>5, <1>6, <1>7, <1>8, <1>10, <1>11, <1>12, <1>13 DEF Track!Next

-----------------------------------------------------------------------------
(* Lists.  What is taken out of a sequence, and what is put into one, only *)
(* shifts what comes after it.                                             *)

LEMMA TakenOut ==
  ASSUME NEW S, NEW s \in Seq(S), NEW k \in 1..Len(s)
  PROVE  LET n == List!RemoveAt(s, k)
         IN /\ n \in Seq(S) /\ Len(n) = Len(s) - 1
            /\ \A j \in 1..Len(n) : n[j] = s[IF j < k THEN j ELSE j + 1]
<1> DEFINE a == SubSeq(s, 1, k - 1)
           b == SubSeq(s, k + 1, Len(s))
<1>1. /\ a \in Seq(S) /\ Len(a) = k - 1
      /\ \A j \in 1..(k - 1) : a[j] = s[j]
  OBVIOUS
<1>2. /\ b \in Seq(S) /\ Len(b) = Len(s) - k
      /\ \A j \in 1..(Len(s) - k) : b[j] = s[k + j]
  <2>1. \A j \in 1..(Len(s) - k) : k + j \in 1..Len(s)
    OBVIOUS
  <2> QED
    BY <2>1
<1>3. List!RemoveAt(s, k) = a \o b
  BY DEF List!RemoveAt
<1>4. Len(s) \in Nat /\ k \in Int /\ 1 <= k /\ k <= Len(s)
  OBVIOUS
<1> HIDE DEF a, b
<1>5. a \o b \in Seq(S)
  BY <1>1, <1>2
<1>6. /\ Len(a \o b) = Len(s) - 1
      /\ \A j \in 1..(Len(s) - 1) :
           (a \o b)[j] = IF j <= k - 1 THEN a[j] ELSE b[j - (k - 1)]
  <2>1. /\ Len(a \o b) = (k - 1) + (Len(s) - k)
        /\ \A j \in 1..((k - 1) + (Len(s) - k)) :
             (a \o b)[j] = IF j <= k - 1 THEN a[j] ELSE b[j - (k - 1)]
    <3>1. /\ Len(a \o b) = Len(a) + Len(b)
          /\ \A j \in 1..Len(a) + Len(b) :
               (a \o b)[j] = IF j <= Len(a) THEN a[j] ELSE b[j - Len(a)]
      BY <1>1, <1>2, ConcatProperties, Zenon
    <3> QED
      BY <1>1, <1>2, <3>1
  <2>2. (k - 1) + (Len(s) - k) = Len(s) - 1
    BY <1>4
  <2> QED
    BY <2>1, <2>2, Zenon
<1>7. ASSUME NEW j \in 1..(Len(s) - 1)
      PROVE  (a \o b)[j] = s[IF j < k THEN j ELSE j + 1]
  <2>1. j \in Int
    OBVIOUS
  <2>2. CASE j < k
    <3>1. j \in 1..(k - 1) /\ j <= k - 1
      BY <1>4, <2>1, <2>2
    <3> QED
      BY <1>1, <1>6, <2>2, <3>1
  <2>3. CASE ~(j < k)
    <3>1. j - (k - 1) \in 1..(Len(s) - k) /\ ~(j <= k - 1) /\ k + (j - (k - 1)) = j + 1
      BY <1>4, <2>1, <2>3
    <3> QED
      BY <1>2, <1>6, <2>3, <3>1
  <2> QED
    BY <2>2, <2>3
<1> QED
  BY <1>3, <1>5, <1>6, <1>7

LEMMA PutIn ==
  ASSUME NEW S, NEW s \in Seq(S), NEW x \in S, NEW k \in 1..(Len(s) + 1)
  PROVE  LET n == List!InsertAt(s, k, x)
         IN /\ n \in Seq(S) /\ Len(n) = Len(s) + 1
            /\ n[k] = x
            /\ \A j \in 1..Len(n) : j # k => n[j] = s[IF j < k THEN j ELSE j - 1]
<1> DEFINE a == SubSeq(s, 1, k - 1)
           b == SubSeq(s, k, Len(s))
           c == a \o <<x>>
<1>1. /\ a \in Seq(S) /\ Len(a) = k - 1
      /\ \A j \in 1..(k - 1) : a[j] = s[j]
  OBVIOUS
<1>2. /\ b \in Seq(S) /\ Len(b) = Len(s) - k + 1
      /\ \A j \in 1..(Len(s) - k + 1) : b[j] = s[k + j - 1]
  <2>1. \A j \in 1..(Len(s) - k + 1) : k + j - 1 \in 1..Len(s)
    OBVIOUS
  <2> QED
    BY <2>1
<1>3. List!InsertAt(s, k, x) = c \o b
  BY DEF List!InsertAt
<1>4. Len(s) \in Nat /\ k \in Int /\ 1 <= k /\ k <= Len(s) + 1
  OBVIOUS
<1> HIDE DEF a, b
<1>5. /\ c \in Seq(S) /\ Len(c) = k /\ c[k] = x
      /\ \A j \in 1..(k - 1) : c[j] = s[j]
  <2>1. <<x>> \in Seq(S) /\ Len(<<x>>) = 1 /\ <<x>>[1] = x
    OBVIOUS
  <2>2. c \in Seq(S)
    BY <1>1, <2>1
  <2>3. /\ Len(c) = k
        /\ \A j \in 1..k : c[j] = IF j <= k - 1 THEN a[j] ELSE <<x>>[j - (k - 1)]
    <3> HIDE DEF c
    <3>1. k - 1 + 1 = k
      BY <1>4
    <3> QED
      BY <1>1, <1>4, <2>1, <3>1, ConcatProperties DEF c
  <2>4. k \in 1..k /\ ~(k <= k - 1) /\ k - (k - 1) = 1
    BY <1>4
  <2>5. \A j \in 1..(k - 1) : j \in 1..k /\ j <= k - 1
    BY <1>4
  <2> HIDE DEF c
  <2> QED
    BY <1>1, <2>1, <2>2, <2>3, <2>4, <2>5
<1> HIDE DEF c
<1>6. c \o b \in Seq(S)
  BY <1>2, <1>5
<1>7. /\ Len(c \o b) = Len(s) + 1
      /\ \A j \in 1..(Len(s) + 1) : (c \o b)[j] = IF j <= k THEN c[j] ELSE b[j - k]
  <2>1. /\ Len(c \o b) = k + (Len(s) - k + 1)
        /\ \A j \in 1..(k + (Len(s) - k + 1)) :
             (c \o b)[j] = IF j <= k THEN c[j] ELSE b[j - k]
    <3>1. /\ Len(c \o b) = Len(c) + Len(b)
          /\ \A j \in 1..Len(c) + Len(b) :
               (c \o b)[j] = IF j <= Len(c) THEN c[j] ELSE b[j - Len(c)]
      BY <1>2, <1>5, ConcatProperties, Zenon
    <3> QED
      BY <1>2, <1>5, <3>1
  <2>2. k + (Len(s) - k + 1) = Len(s) + 1
    BY <1>4
  <2> QED
    BY <2>1, <2>2, Zenon
<1>8. (c \o b)[k] = x
  <2>1. k \in 1..(Len(s) + 1) /\ k <= k
    BY <1>4
  <2> QED
    BY <1>5, <1>7, <2>1
<1>9. ASSUME NEW j \in 1..(Len(s) + 1), j # k
      PROVE  (c \o b)[j] = s[IF j < k THEN j ELSE j - 1]
  <2>1. j \in Int
    OBVIOUS
  <2>2. CASE j < k
    <3>1. j \in 1..(k - 1) /\ j <= k
      BY <1>4, <2>1, <2>2
    <3> QED
      BY <1>5, <1>7, <2>2, <3>1
  <2>3. CASE ~(j < k)
    <3>1. /\ j - k \in 1..(Len(s) - k + 1) /\ ~(j <= k)
          /\ k + (j - k) - 1 = j - 1
      BY <1>4, <1>9, <2>1, <2>3
    <3> QED
      BY <1>2, <1>7, <2>3, <3>1
  <2> QED
    BY <2>2, <2>3
<1> QED
  BY <1>3, <1>6, <1>7, <1>8, <1>9

\* x is in list l of the lists o; it is in one place at most.
In(o, l, x) == \E k \in DOMAIN o[l] : o[l][k] = x
Once(o, x) ==
  \A l, m \in Lists : \A j \in DOMAIN o[l], k \in DOMAIN o[m] :
    o[l][j] = x /\ o[m][k] = x => l = m /\ j = k

\* Where nothing but x goes, the others stay in their lists, once.
OthersStay(o, n, x) ==
  \A y : y # x => /\ \A l \in Lists : In(n, l, y) <=> In(o, l, y)
                  /\ Once(o, y) => Once(n, y)

LEMMA PlaceIsThere ==
  ASSUME NEW S, NEW o \in [Lists -> Seq(S)], NEW l \in Lists, NEW x
  PROVE  /\ List!Contains(o[l], x) <=> In(o, l, x)
         /\ In(o, l, x) => /\ List!PlaceOf(o[l], x) \in 1..Len(o[l])
                           /\ o[l][List!PlaceOf(o[l], x)] = x
         /\ x \in List!ToSet(o[l]) <=> In(o, l, x)
BY DEF List!Contains, In, List!PlaceOf, List!ToSet

LEMMA WithoutTakes ==
  ASSUME NEW S, NEW o \in [Lists -> Seq(S)], NEW x, Once(o, x)
  PROVE  LET n == List!Without(o, x)
         IN /\ n \in [Lists -> Seq(S)]
            /\ \A l \in Lists : ~In(n, l, x)
            /\ \A l \in Lists : ~In(o, l, x) => n[l] = o[l]
            /\ OthersStay(o, n, x)
<1> DEFINE n == List!Without(o, x)
           at(l) == IF In(o, l, x) THEN List!PlaceOf(o[l], x) ELSE Len(o[l]) + 1
           from(l, j) == IF j < at(l) THEN j ELSE j + 1
<1>1. ASSUME NEW l \in Lists
      PROVE  /\ n[l] \in Seq(S) /\ at(l) \in 1..(Len(o[l]) + 1)
             /\ ~In(o, l, x) => n[l] = o[l]
             /\ Len(n[l]) = IF In(o, l, x) THEN Len(o[l]) - 1 ELSE Len(o[l])
             /\ \A j \in 1..Len(n[l]) : n[l][j] = o[l][from(l, j)]
  <2>1. n[l] = IF In(o, l, x) THEN List!RemoveAt(o[l], List!PlaceOf(o[l], x)) ELSE o[l]
    BY PlaceIsThere DEF List!Without
  <2>2. o[l] \in Seq(S) /\ Len(o[l]) \in Nat
    OBVIOUS
  <2>3. CASE In(o, l, x)
    <3>1. List!PlaceOf(o[l], x) \in 1..Len(o[l])
      BY <2>3, PlaceIsThere
    <3> HIDE DEF n
    <3> QED
      BY <2>1, <2>2, <2>3, <3>1, TakenOut
  <2>4. CASE ~In(o, l, x)
    <3> HIDE DEF n
    <3> QED
      BY <2>1, <2>2, <2>4
  <2> QED
    BY <2>3, <2>4
<1>2. n \in [Lists -> Seq(S)]
  <2>1. n = [l \in Lists |-> n[l]]
    BY DEF List!Without
  <2> HIDE DEF n
  <2> QED
    BY <1>1, <2>1
<1>3. \A l \in Lists : /\ In(o, l, x) => o[l][at(l)] = x /\ at(l) <= Len(o[l])
                       /\ ~In(o, l, x) => at(l) = Len(o[l]) + 1
  BY PlaceIsThere
<1>d. \A l \in Lists : DOMAIN n[l] = 1..Len(n[l]) /\ DOMAIN o[l] = 1..Len(o[l])
  <2> HIDE DEF n
  <2> QED
    BY <1>2
<1> HIDE DEF n, at
<1>4. ASSUME NEW l \in Lists, NEW j \in 1..Len(n[l])
      PROVE  /\ from(l, j) \in 1..Len(o[l]) /\ from(l, j) # at(l)
             /\ n[l][j] = o[l][from(l, j)]
  <2>1. Len(o[l]) \in Nat
    OBVIOUS
  <2> QED
    BY <1>1, <1>3, <2>1
<1>5. ASSUME NEW l \in Lists PROVE ~In(n, l, x)
  <2> SUFFICES ASSUME NEW j \in 1..Len(n[l]), n[l][j] = x PROVE FALSE
    BY <1>d DEF In
  <2>1. from(l, j) \in DOMAIN o[l] /\ o[l][from(l, j)] = x /\ from(l, j) # at(l)
    BY <1>4
  <2>2. In(o, l, x)
    BY <2>1 DEF In
  <2>3. at(l) \in DOMAIN o[l] /\ o[l][at(l)] = x
    BY <1>1, <1>3, <2>2
  <2> HIDE DEF from
  <2> QED
    BY <2>1, <2>3 DEF Once
<1>6. ASSUME NEW l \in Lists, NEW y, y # x PROVE In(n, l, y) <=> In(o, l, y)
  <2>1. In(n, l, y) => In(o, l, y)
    <3> HIDE DEF from
    <3> QED
      BY <1>d, <1>4 DEF In
  <2>2. ASSUME NEW k \in DOMAIN o[l], o[l][k] = y PROVE In(n, l, y)
    <3> DEFINE j == IF k < at(l) THEN k ELSE k - 1
    <3>1. k \in 1..Len(o[l]) /\ Len(o[l]) \in Nat
      OBVIOUS
    <3>2. k # at(l)
      BY <1>1, <1>3, <1>6, <2>2, <3>1
    <3>3. j \in 1..Len(n[l]) /\ from(l, j) = k
      BY <1>1, <1>3, <3>1, <3>2
    <3> HIDE DEF j, from
    <3> QED
      BY <1>d, <1>4, <2>2, <3>3 DEF In
  <2> QED
    BY <2>1, <2>2 DEF In
<1>7. ASSUME NEW y, Once(o, y) PROVE Once(n, y)
  <2> SUFFICES ASSUME NEW l \in Lists, NEW m \in Lists, NEW j \in 1..Len(n[l]),
                      NEW k \in 1..Len(n[m]), n[l][j] = y, n[m][k] = y
               PROVE  l = m /\ j = k
    <3> HIDE DEF from
    <3> QED
      BY <1>d DEF Once
  <2>1. /\ from(l, j) \in DOMAIN o[l] /\ o[l][from(l, j)] = y
        /\ from(m, k) \in DOMAIN o[m] /\ o[m][from(m, k)] = y
    BY <1>4
  <2>2. l = m /\ from(l, j) = from(m, k)
    <3> HIDE DEF from
    <3> QED
      BY <1>7, <2>1 DEF Once
  <2> QED
    BY <1>1, <2>2
<1> QED
  BY <1>1, <1>2, <1>5, <1>6, <1>7 DEF OthersStay, n

LEMMA PuttingKeeps ==
  ASSUME NEW S, NEW o \in [Lists -> Seq(S)], NEW x \in S, NEW p \in Lists,
         NEW at \in 1..(Len(o[p]) + 1), \A l \in Lists : ~In(o, l, x)
  PROVE  LET n == [o EXCEPT ![p] = List!InsertAt(o[p], at, x)]
         IN /\ n \in [Lists -> Seq(S)]
            /\ \A l \in Lists : In(n, l, x) <=> l = p
            /\ Once(n, x)
            /\ OthersStay(o, n, x)
<1> DEFINE n == [o EXCEPT ![p] = List!InsertAt(o[p], at, x)]
           from(l, j) == IF l # p \/ j < at THEN j ELSE j - 1
<1>1. o[p] \in Seq(S) /\ Len(o[p]) \in Nat
  OBVIOUS
<1>2. /\ n[p] \in Seq(S) /\ Len(n[p]) = Len(o[p]) + 1 /\ n[p][at] = x
      /\ \A j \in 1..Len(n[p]) : j # at => n[p][j] = o[p][IF j < at THEN j ELSE j - 1]
  <2>1. n[p] = List!InsertAt(o[p], at, x)
    OBVIOUS
  <2> HIDE DEF n
  <2> QED
    BY <1>1, <2>1, PutIn, SMTT(30)
<1>3. n \in [Lists -> Seq(S)] /\ \A l \in Lists \ {p} : n[l] = o[l]
  BY <1>2
<1> HIDE DEF n
<1>4. ASSUME NEW l \in Lists, NEW j \in 1..Len(n[l])
      PROVE  \/ l = p /\ j = at /\ n[l][j] = x
             \/ /\ l # p \/ j # at
                /\ from(l, j) \in 1..Len(o[l]) /\ n[l][j] = o[l][from(l, j)]
  <2>1. CASE l = p
    BY <1>1, <1>2, <2>1
  <2>2. CASE l # p
    BY <1>3, <2>2
  <2> QED
    BY <2>1, <2>2
<1>5. \A l \in Lists : DOMAIN n[l] = 1..Len(n[l]) /\ DOMAIN o[l] = 1..Len(o[l])
  BY <1>3
<1>6. ASSUME NEW l \in Lists, NEW j \in 1..Len(n[l]), n[l][j] = x
      PROVE  l = p /\ j = at
  <2> HIDE DEF from
  <2> QED
    BY <1>4, <1>5, <1>6 DEF In
<1>7. \A l \in Lists : In(n, l, x) <=> l = p
  <2>1. In(n, p, x)
    BY <1>1, <1>2, <1>5 DEF In
  <2> QED
    BY <1>5, <1>6, <2>1 DEF In
<1>8. Once(n, x)
  <2> SUFFICES ASSUME NEW l \in Lists, NEW m \in Lists, NEW j \in 1..Len(n[l]),
                      NEW k \in 1..Len(n[m]), n[l][j] = x, n[m][k] = x
               PROVE  l = m /\ j = k
    <3> HIDE DEF from
    <3> QED
      BY <1>5, SMTT(30) DEF Once
  <2> QED
    BY <1>6
<1>9. ASSUME NEW l \in Lists, NEW y, y # x PROVE In(n, l, y) <=> In(o, l, y)
  <2>1. ASSUME NEW j \in 1..Len(n[l]), n[l][j] = y PROVE In(o, l, y)
    <3>1. from(l, j) \in 1..Len(o[l]) /\ o[l][from(l, j)] = y
      BY <1>4, <1>9, <2>1
    <3> HIDE DEF from
    <3> QED
      BY <1>5, <3>1 DEF In
  <2>2. ASSUME NEW k \in 1..Len(o[l]), o[l][k] = y PROVE In(n, l, y)
    <3> DEFINE j == IF l # p \/ k < at THEN k ELSE k + 1
    <3>1. j \in 1..Len(n[l]) /\ from(l, j) = k /\ ~(l = p /\ j = at)
      BY <1>1, <1>2, <1>3
    <3> HIDE DEF j, from
    <3> QED
      BY <1>4, <1>5, <2>2, <3>1 DEF In
  <2> HIDE DEF from
  <2> QED
    BY <1>5, <2>1, <2>2 DEF In
<1>10. ASSUME NEW y, y # x, Once(o, y) PROVE Once(n, y)
  <2> SUFFICES ASSUME NEW l \in Lists, NEW m \in Lists, NEW j \in DOMAIN n[l],
                      NEW k \in DOMAIN n[m], n[l][j] = y, n[m][k] = y
               PROVE  l = m /\ j = k
    BY Zenon DEF Once
  <2>0. j \in 1..Len(n[l]) /\ k \in 1..Len(n[m])
    BY <1>5
  <2>1. /\ from(l, j) \in DOMAIN o[l] /\ o[l][from(l, j)] = y /\ ~(l = p /\ j = at)
        /\ from(m, k) \in DOMAIN o[m] /\ o[m][from(m, k)] = y /\ ~(m = p /\ k = at)
    <3> HIDE DEF from
    <3> QED
      BY <1>4, <1>5, <1>10, <2>0
  <2>2. l = m /\ from(l, j) = from(m, k)
    <3> HIDE DEF from
    <3> QED
      BY <1>10, <2>1 DEF Once
  <2> QED
    BY <1>1, <1>2, <2>0, <2>1, <2>2
<1> QED
  BY <1>3, <1>7, <1>8, <1>9, <1>10 DEF OthersStay, n

\* x goes elsewhere, or nowhere, and is in one place still.
Goes(o, n, x) ==
  /\ Once(n, x) /\ \E l \in Lists : In(n, l, x)
  /\ OthersStay(o, n, x)

LEMMA GoesOn ==
  ASSUME NEW o, NEW m, NEW n, NEW x, Goes(o, m, x), Goes(m, n, x)
  PROVE  Goes(o, n, x)
BY DEF Goes, OthersStay

\* Taken from where it is, x is put into list p.
LEMMA PutElsewhere ==
  ASSUME NEW S, NEW o \in [Lists -> Seq(S)], NEW x \in S, Once(o, x), NEW p \in Lists,
         NEW at \in 1..(Len(List!Without(o, x)[p]) + 1)
  PROVE  LET rest == List!Without(o, x)
             n == [rest EXCEPT ![p] = List!InsertAt(rest[p], at, x)]
         IN n \in [Lists -> Seq(S)] /\ Goes(o, n, x) /\ In(n, p, x)
<1> DEFINE rest == List!Without(o, x)
           n == [rest EXCEPT ![p] = List!InsertAt(rest[p], at, x)]
<1>1. /\ rest \in [Lists -> Seq(S)] /\ \A l \in Lists : ~In(rest, l, x)
      /\ OthersStay(o, rest, x) /\ at \in 1..(Len(rest[p]) + 1)
  BY WithoutTakes
<1> HIDE DEF rest
<1>2. /\ n \in [Lists -> Seq(S)] /\ Once(n, x) /\ OthersStay(rest, n, x)
      /\ \A l \in Lists : In(n, l, x) <=> l = p
  <2>1. LET m == [rest EXCEPT ![p] = List!InsertAt(rest[p], at, x)]
        IN /\ m \in [Lists -> Seq(S)]
           /\ \A l \in Lists : In(m, l, x) <=> l = p
           /\ Once(m, x)
           /\ OthersStay(rest, m, x)
    <3> HIDE DEF n
    <3> QED
      BY <1>1, PuttingKeeps
  <2> QED
    BY <2>1
<1> HIDE DEF n
<1>3. OthersStay(o, n, x)
  BY <1>1, <1>2 DEF OthersStay
<1>4. n \in [Lists -> Seq(S)] /\ Goes(o, n, x) /\ In(n, p, x)
  BY <1>2, <1>3 DEF Goes
<1> QED
  BY <1>4 DEF n, rest

LEMMA MovedGoes ==
  ASSUME NEW S, NEW o \in [Lists -> Seq(S)], dragged \in S, Once(o, dragged),
         NEW y, y # dragged, Once(o, y), NEW p \in Lists, In(o, p, y), NEW b \in BOOLEAN
  PROVE  LET n == List!Moved(o, y, b)
         IN n \in [Lists -> Seq(S)] /\ Goes(o, n, dragged) /\ In(n, p, dragged)
<1> DEFINE rest == List!Without(o, dragged)
           k == List!PlaceOf(rest[p], y)
           at == k + IF b THEN 0 ELSE 1
           n == [rest EXCEPT ![p] = List!InsertAt(rest[p], at, dragged)]
<1>1. rest \in [Lists -> Seq(S)] /\ OthersStay(o, rest, dragged)
  BY WithoutTakes
<1>2. at \in 1..(Len(rest[p]) + 1) =>
        n \in [Lists -> Seq(S)] /\ Goes(o, n, dragged) /\ In(n, p, dragged)
  <2> HIDE DEF at
  <2> QED
    BY PutElsewhere
<1>3. List!Moved(o, y, b) =
        [l \in Lists |->
          IF List!Contains(rest[l], y)
          THEN List!InsertAt(rest[l], List!PlaceOf(rest[l], y) + IF b THEN 0 ELSE 1, dragged)
          ELSE rest[l]]
  BY DEF List!Moved
<1> HIDE DEF rest
<1>4. In(rest, p, y) /\ Once(rest, y)
  BY <1>1 DEF OthersStay
<1>5. \A l \in Lists : List!Contains(rest[l], y) <=> l = p
  <2>1. \A l \in Lists : In(rest, l, y) <=> l = p
    BY <1>4 DEF In, Once
  <2> QED
    BY <1>1, <2>1, PlaceIsThere
<1>6. k \in 1..Len(rest[p]) /\ Len(rest[p]) \in Nat
  BY <1>1, <1>4, PlaceIsThere
<1>7. at \in 1..(Len(rest[p]) + 1)
  <2> HIDE DEF k
  <2> QED
    BY <1>6
<1>8. List!Moved(o, y, b) = n
  BY <1>1, <1>3, <1>5
<1> QED
  BY <1>2, <1>7, <1>8

LEMMA AppendedGoes ==
  ASSUME NEW S, NEW o \in [Lists -> Seq(S)], dragged \in S, Once(o, dragged),
         NEW l \in Lists, \E m \in Lists : In(o, m, dragged)
  PROVE  LET n == List!Appended(o, l)
         IN n \in [Lists -> Seq(S)] /\ Goes(o, n, dragged) /\ In(n, l, dragged)
<1>1. CASE In(o, l, dragged)
  <2>1. List!Appended(o, l) = o
    BY <1>1, PlaceIsThere DEF List!Appended
  <2> QED
    BY <1>1, <2>1 DEF Goes, OthersStay
<1>2. CASE ~In(o, l, dragged)
  <2> DEFINE rest == List!Without(o, dragged)
             at == Len(rest[l]) + 1
             n == [rest EXCEPT ![l] = List!InsertAt(rest[l], at, dragged)]
  <2>1. rest \in [Lists -> Seq(S)]
    BY WithoutTakes
  <2>2. List!Appended(o, l) = [rest EXCEPT ![l] = Append(@, dragged)]
    BY <1>2, PlaceIsThere DEF List!Appended
  <2>3. at \in 1..(Len(rest[l]) + 1) =>
          n \in [Lists -> Seq(S)] /\ Goes(o, n, dragged) /\ In(n, l, dragged)
    BY PutElsewhere
  <2> HIDE DEF rest
  <2>4. Append(rest[l], dragged) = List!InsertAt(rest[l], at, dragged)
    <3>1. rest[l] \in Seq(S) /\ Len(rest[l]) \in Nat
      BY <2>1
    <3>2. /\ SubSeq(rest[l], 1, at - 1) = rest[l]
          /\ SubSeq(rest[l], at, Len(rest[l])) = << >>
      BY <3>1
    <3>3. Append(rest[l], dragged) = rest[l] \o <<dragged>>
      BY <3>1, AppendIsConcat
    <3>4. rest[l] \o <<dragged>> \in Seq(S)
      BY <3>1
    <3>5. (rest[l] \o <<dragged>>) \o << >> = rest[l] \o <<dragged>>
      BY <3>4, ConcatEmptySeq
    <3> HIDE DEF at
    <3> QED
      BY <3>2, <3>3, <3>5 DEF List!InsertAt
  <2>5. at \in 1..(Len(rest[l]) + 1)
    BY <2>1
  <2> QED
    BY <2>2, <2>3, <2>4, <2>5
<1> QED
  BY <1>1, <1>2

Twice(s, x) == \E j, k \in DOMAIN s : j # k /\ s[j] = x /\ s[k] = x

\* Every item is in one place, and the clone is while it keeps one.  What the
\* observer of a list saw at the start of the drag is what the page knows, or has
\* the dragged item twice, as no order has at the end.
ListInv ==
  /\ List!TypeOK
  /\ \A x \in Items : Once(order, x) /\ \E l \in Lists : In(order, l, x)
  /\ Once(order, List!Clone)
  /\ dragged = List!None \/ ~listOptions.ghosting =>
       \A l \in Lists : ~In(order, l, List!Clone)
  /\ dragged = List!None => ~marker
  /\ List!PageKnowsOrder
  /\ dragged # List!None =>
       \A l \in Lists : \/ lastValue[l] = told[l]
                        \/ listOptions.ghosting /\ Twice(lastValue[l], dragged)

LEMMA ListAssumed ==
  /\ First \in [Lists -> Seq(Items)]
  /\ \A x \in Items : Once(First, x) /\ \E l \in Lists : In(First, l, x)
  /\ List!None \notin Items /\ List!Clone \notin Items
  /\ MaxDrags \in Nat
  /\ \A new \in NewSequences : new \in Seq(Items) /\ Items \subseteq List!ToSet(new)
<1>1. ASSUME NEW x \in Items PROVE Once(First, x) /\ \E l \in Lists : In(First, l, x)
  BY MotionAssumption DEF List!SortableAssumption, Once, In
<1> QED
  BY <1>1, MotionAssumption DEF List!SortableAssumption

LEMMA WithoutClone ==
  ASSUME NEW o \in [Lists -> Seq(Items \cup {List!Clone})],
         \A l \in Lists : ~In(o, l, List!Clone)
  PROVE  o \in [Lists -> Seq(Items)]
<1>1. ASSUME NEW l \in Lists PROVE o[l] \in Seq(Items)
  <2>1. \A k \in 1..Len(o[l]) : o[l][k] \in Items
    BY DEF In
  <2> QED
    BY <2>1
<1> QED
  BY <1>1

LEMMA ListStarts == List!Init => ListInv
<1> SUFFICES ASSUME List!Init PROVE ListInv
  OBVIOUS
<1>1. \A l \in Lists : ~In(First, l, List!Clone)
  BY ListAssumed DEF In
<1>2. Once(First, List!Clone)
  BY <1>1 DEF Once, In
<1>3. First \in [Lists -> Seq(Items \cup {List!Clone})]
  BY ListAssumed
<1>4. List!TypeOK
  <2>1. listDrags \in 0..MaxDrags
    BY ListAssumed DEF List!Init
  <2> QED
    BY <1>3, <2>1, ListAssumed DEF List!Init, List!TypeOK
<1> QED
  BY <1>1, <1>2, <1>4, ListAssumed DEF List!Init, ListInv, List!PageKnowsOrder

\* What moves the dragged item moves nothing else.
LEMMA GoingKeepsList ==
  ASSUME ListInv, dragged \in Items,
         order' \in [Lists -> Seq(Items \cup {List!Clone})], Goes(order, order', dragged),
         UNCHANGED <<listOptions, dragged, listDrags, lastValue, told, updated>>,
         marker' \in BOOLEAN
  PROVE  ListInv'
<1>1. List!TypeOK'
  BY DEF ListInv, List!TypeOK
<1>2. dragged # List!None /\ dragged # List!Clone
  BY ListAssumed
<1>3. /\ \A x \in Items : Once(order, x) /\ \E l \in Lists : In(order, l, x)
      /\ Once(order, List!Clone)
  BY DEF ListInv
<1>4. \A x \in Items : Once(order', x) /\ \E l \in Lists : In(order', l, x)
  BY <1>3 DEF Goes, OthersStay
<1>5. /\ Once(order', List!Clone)
      /\ \A l \in Lists : In(order', l, List!Clone) <=> In(order, l, List!Clone)
  BY <1>2, <1>3 DEF Goes, OthersStay
<1> QED
  BY <1>1, <1>2, <1>4, <1>5 DEF ListInv, List!PageKnowsOrder

LEMMA HoverKeepsLists ==
  ASSUME ListInv, NEW l \in Lists, List!Hover(l)
  PROVE  ListInv' /\ List!StayInList
<1>1. /\ dragged \in Items /\ Once(order, dragged)
      /\ order \in [Lists -> Seq(Items \cup {List!Clone})]
      /\ \E m \in Lists : In(order, m, dragged)
      /\ \A x \in Items : Once(order, x)
      /\ listOptions.ghosting \in BOOLEAN
      /\ UNCHANGED <<listOptions, dragged, listDrags, lastValue, told, updated>>
  <2>1. listOptions \in [shared : BOOLEAN, dropOnEmpty : BOOLEAN, ghosting : BOOLEAN]
    BY MotionAssumption DEF ListInv, List!TypeOK, List!SortableAssumption
  <2> QED
    BY <2>1 DEF ListInv, List!TypeOK, List!Hover
<1> DEFINE S == Items \cup {List!Clone}
           entered == IF listOptions.dropOnEmpty THEN List!Appended(order, l) ELSE order
<1>2. /\ entered \in [Lists -> Seq(S)] /\ Goes(order, entered, dragged)
      /\ listOptions.dropOnEmpty => In(entered, l, dragged)
  <2>1. Goes(order, order, dragged)
    BY <1>1 DEF Goes, OthersStay
  <2>2. LET n == List!Appended(order, l)
        IN n \in [Lists -> Seq(S)] /\ Goes(order, n, dragged) /\ In(n, l, dragged)
    BY <1>1, AppendedGoes
  <2> QED
    BY <1>1, <2>1, <2>2
<1>3. /\ order' \in [Lists -> Seq(S)] /\ Goes(order, order', dragged)
      /\ marker' \in BOOLEAN /\ In(order', l, dragged)
  <2> HIDE DEF S, entered
  <2>1. CASE listOptions.dropOnEmpty /\ order' = entered /\ UNCHANGED marker
    BY <1>2, <2>1 DEF ListInv, List!TypeOK
  <2>2. ASSUME NEW x \in List!ToSet(order[l]) \ {dragged, List!Clone}, NEW b \in BOOLEAN,
               order' = List!Moved(entered, x, b), marker' = listOptions.ghosting
        PROVE  /\ order' \in [Lists -> Seq(S)] /\ Goes(order, order', dragged)
               /\ marker' \in BOOLEAN /\ In(order', l, dragged)
    <3>1. In(order, l, x) /\ x \in Items /\ x # dragged
      BY <1>1, <2>2, PlaceIsThere DEF List!ToSet
    <3>2. In(entered, l, x) /\ Once(entered, x) /\ Once(entered, dragged)
      BY <1>1, <1>2, <3>1 DEF Goes, OthersStay
    <3>3. dragged \in S
      BY <1>1 DEF S
    <3>4. order' \in [Lists -> Seq(S)] /\ Goes(entered, order', dragged) /\ In(order', l, dragged)
      BY <1>2, <2>2, <3>1, <3>2, <3>3, MovedGoes
    <3> QED
      BY <1>1, <1>2, <2>2, <3>4, GoesOn
  <2> QED
    BY <2>1, <2>2 DEF List!Hover, entered
<1>4. ListInv'
  BY <1>1, <1>3, GoingKeepsList
<1>5. List!StayInList
  <2> SUFFICES ASSUME ~listOptions.shared, NEW m \in Lists, NEW x \in Items, In(order, m, x)
               PROVE  In(order', m, x)
    BY <1>1, <1>3, PlaceIsThere DEF List!StayInList
  <2>1. CASE x # dragged
    BY <1>3, <2>1 DEF Goes, OthersStay
  <2>2. CASE x = dragged
    <3>1. List!ParentOf(dragged) = l
      BY DEF List!Hover, List!Contained
    <3>2. \E p \in Lists : List!Contains(order[p], dragged)
      BY <1>1, PlaceIsThere
    <3>3. List!Contains(order[l], dragged)
      BY <3>1, <3>2 DEF List!ParentOf
    <3>4. In(order, l, dragged)
      BY <1>1, <3>3, PlaceIsThere
    <3>5. l = m
      BY <1>1, <2>2, <3>4 DEF In, Once
    <3> QED
      BY <1>3, <2>2, <3>5
  <2> QED
    BY <2>1, <2>2
<1> QED
  BY <1>4, <1>5

LEMMA StartKeepsLists ==
  ASSUME ListInv, NEW i \in Items, List!OnStart(i)
  PROVE  ListInv' /\ List!StayInList
<1> DEFINE S == Items \cup {List!Clone}
<1>1. /\ order \in [Lists -> Seq(S)] /\ told \in [Lists -> Seq(Items)] /\ told = order
      /\ listOptions \in ListOptions /\ marker = FALSE /\ updated \subseteq Lists
      /\ dragged = List!None /\ dragged' = i /\ listDrags' \in 0..MaxDrags
      /\ order' = List!WithClone(i)
      /\ lastValue' = [l \in Lists |-> List!ValueAtStart(l, order')]
      /\ UNCHANGED <<listOptions, marker, told, updated>>
      /\ \A x \in Items : Once(order, x) /\ \E l \in Lists : In(order, l, x)
      /\ \A l \in Lists : ~In(order, l, List!Clone)
  BY ListAssumed DEF ListInv, List!TypeOK, List!OnStart, List!PageKnowsOrder
<1>2. i # List!None /\ i # List!Clone /\ List!Clone \notin Items
  BY ListAssumed
<1>3. /\ order' \in [Lists -> Seq(S)]
      /\ \A x \in Items : Once(order', x)
      /\ \A x \in Items, l \in Lists : In(order', l, x) <=> In(order, l, x)
      /\ Once(order', List!Clone)
      /\ ~listOptions.ghosting => order' = order
      /\ \A l \in Lists : ~In(order, l, i) => order'[l] = order[l]
      /\ listOptions.ghosting => \A l \in Lists : In(order', l, List!Clone) <=> In(order, l, i)
  <2>1. CASE ~listOptions.ghosting
    <3>1. order' = order
      BY <1>1, <2>1 DEF List!WithClone
    <3>2. Once(order, List!Clone)
      BY <1>1 DEF Once, In
    <3> QED
      BY <1>1, <2>1, <3>1, <3>2
  <2>2. CASE listOptions.ghosting
    <3>1. PICK p \in Lists : In(order, p, i)
      BY <1>1
    <3>2. \A l \in Lists : In(order, l, i) <=> l = p
      BY <1>1, <3>1 DEF In, Once
    <3> DEFINE at == List!PlaceOf(order[p], i)
               n == [order EXCEPT ![p] = List!InsertAt(order[p], at, List!Clone)]
    <3>3. at \in 1..(Len(order[p]) + 1)
      <4>1. at \in 1..Len(order[p]) /\ Len(order[p]) \in Nat
        BY <1>1, <3>1, PlaceIsThere
      <4> QED
        BY <4>1
    <3>4. order' = n
      BY <1>1, <2>2, <3>2, PlaceIsThere DEF List!WithClone
    <3> HIDE DEF at
    <3>5. /\ n \in [Lists -> Seq(S)]
          /\ \A l \in Lists : In(n, l, List!Clone) <=> l = p
          /\ Once(n, List!Clone)
          /\ OthersStay(order, n, List!Clone)
      <4>1. List!Clone \in S
        OBVIOUS
      <4> HIDE DEF S
      <4> QED
        BY <1>1, <3>3, <4>1, PuttingKeeps
    <3>6. \A x \in Items : Once(n, x)
      BY <1>1, <1>2, <3>5 DEF OthersStay
    <3>7. \A x \in Items, l \in Lists : In(n, l, x) <=> In(order, l, x)
      BY <1>2, <3>5 DEF OthersStay
    <3>8. \A l \in Lists : ~In(order, l, i) => n[l] = order[l]
      BY <3>1
    <3> QED
      BY <2>2, <3>2, <3>4, <3>5, <3>6, <3>7, <3>8
  <2> QED
    BY <2>1, <2>2
<1>4. ASSUME NEW l \in Lists
      PROVE  /\ lastValue'[l] \in Seq(Items)
             /\ \/ lastValue'[l] = told'[l]
                \/ listOptions'.ghosting /\ Twice(lastValue'[l], i)
  <2> DEFINE s == order'[l]
             v == lastValue'[l]
  <2>1. v = [k \in DOMAIN s |-> IF s[k] = List!Clone THEN i ELSE s[k]]
    BY <1>1 DEF List!ValueAtStart
  <2>2. s \in Seq(S)
    BY <1>3
  <2>3. v \in Seq(Items)
    <3> HIDE DEF s, v
    <3>1. v = [k \in 1..Len(s) |-> IF s[k] = List!Clone THEN i ELSE s[k]] /\ Len(s) \in Nat
      BY <2>1, <2>2
    <3>2. \A k \in 1..Len(s) : s[k] \in Items \cup {List!Clone}
      BY <2>2
    <3> QED
      BY <3>1, <3>2
  <2>4. CASE In(order', l, List!Clone)
    <3>1. listOptions.ghosting /\ In(order, l, i)
      BY <1>1, <1>3, <2>4
    <3>2. In(order', l, i)
      BY <1>3, <3>1
    <3>3. PICK j \in DOMAIN s : s[j] = List!Clone
      BY <2>4 DEF In
    <3>4. PICK k \in DOMAIN s : s[k] = i
      BY <3>2 DEF In
    <3>5. v[j] = i /\ v[k] = i /\ j # k /\ j \in DOMAIN v /\ k \in DOMAIN v
      <4> HIDE DEF s, v
      <4> QED
        BY <1>2, <2>1, <3>3, <3>4
    <3> QED
      BY <1>1, <2>3, <3>1, <3>5 DEF Twice
  <2>5. CASE ~In(order', l, List!Clone)
    <3>1. order'[l] = order[l]
      BY <1>3, <2>5
    <3>2. \A k \in DOMAIN s : s[k] # List!Clone
      BY <2>5 DEF In
    <3>3. v = s
      <4> HIDE DEF s, v
      <4> QED
        BY <2>1, <2>2, <3>2
    <3> QED
      BY <1>1, <2>3, <3>1, <3>3
  <2> QED
    BY <2>4, <2>5
<1>5. lastValue' \in [Lists -> Seq(Items)]
  BY <1>1, <1>4
<1>6. List!TypeOK'
  BY <1>1, <1>3, <1>5 DEF List!TypeOK
<1>7. ListInv'
  <2>1. \A x \in Items : Once(order', x) /\ \E l \in Lists : In(order', l, x)
    BY <1>1, <1>3
  <2>2. dragged' = List!None \/ ~listOptions'.ghosting =>
          \A l \in Lists : ~In(order', l, List!Clone)
    BY <1>1, <1>2, <1>3
  <2> QED
    BY <1>1, <1>2, <1>3, <1>4, <1>6, <2>1, <2>2 DEF ListInv, List!PageKnowsOrder
<1>8. List!StayInList
  BY <1>1, <1>3, PlaceIsThere DEF List!StayInList
<1> QED
  BY <1>7, <1>8

LEMMA EndKeepsLists ==
  ASSUME ListInv, List!OnEnd
  PROVE  ListInv' /\ List!StayInList /\ List!ToldOfChanges
<1> DEFINE S == Items \cup {List!Clone}
<1>1. /\ order \in [Lists -> Seq(S)] /\ told \in [Lists -> Seq(Items)]
      /\ dragged \in Items /\ dragged' = List!None /\ marker' = FALSE
      /\ order' = List!Without(order, List!Clone)
      /\ updated' = {l \in Lists : lastValue[l] # order'[l]}
      /\ told' = [l \in Lists |-> IF lastValue[l] # order'[l] THEN order'[l] ELSE told[l]]
      /\ UNCHANGED <<listOptions, listDrags, lastValue>>
      /\ \A x \in Items : Once(order, x) /\ \E l \in Lists : In(order, l, x)
      /\ Once(order, List!Clone)
      /\ \A l \in Lists : \/ lastValue[l] = told[l]
                          \/ listOptions.ghosting /\ Twice(lastValue[l], dragged)
  BY DEF ListInv, List!TypeOK, List!OnEnd, List!HasChanged, List!MarkerAfter
<1>2. /\ order' \in [Lists -> Seq(S)] /\ OthersStay(order, order', List!Clone)
      /\ \A l \in Lists : ~In(order', l, List!Clone)
  BY <1>1, WithoutTakes
<1>3. order' \in [Lists -> Seq(Items)]
  BY <1>2, WithoutClone
<1>4. \A x \in Items : /\ Once(order', x)
                       /\ \A l \in Lists : In(order', l, x) <=> In(order, l, x)
  BY <1>1, <1>2, ListAssumed DEF OthersStay
<1>5. \A l \in Lists : lastValue[l] = order'[l] => lastValue[l] = told[l]
  <2> SUFFICES ASSUME NEW l \in Lists, lastValue[l] = order'[l], Twice(order'[l], dragged)
               PROVE  FALSE
    BY <1>1
  <2> QED
    BY <1>1, <1>4 DEF Twice, Once
<1>6. told' = order'
  BY <1>1, <1>2, <1>5
<1>7. List!TypeOK'
  BY <1>1, <1>2, <1>3, <1>6 DEF ListInv, List!TypeOK
<1>8. ListInv'
  <2>1. \A x \in Items : Once(order', x) /\ \E l \in Lists : In(order', l, x)
    BY <1>1, <1>4
  <2>2. Once(order', List!Clone)
    BY <1>2 DEF Once, In
  <2> QED
    BY <1>1, <1>2, <1>6, <1>7, <2>1, <2>2 DEF ListInv, List!PageKnowsOrder
<1>9. List!StayInList
  BY <1>1, <1>2, <1>4, PlaceIsThere DEF List!StayInList
<1>10. List!ToldOfChanges
  <2> SUFFICES ASSUME ~listOptions.ghosting, NEW l \in updated' PROVE told'[l] # told[l]
    BY DEF List!ToldOfChanges
  <2> QED
    BY <1>1
<1> QED
  BY <1>8, <1>9, <1>10

\* The items that a list has are put in the order of the sequence, all of them.
LEMMA SequenceKeepsLists ==
  ASSUME ListInv, NEW l \in Lists, NEW new \in NewSequences, List!SetSequence(l, new)
  PROVE  ListInv' /\ List!StayInList
<1> DEFINE S == Items \cup {List!Clone}
<1>1. PICK s \in List!InSequence(l, new) : order' = [order EXCEPT ![l] = s]
  BY DEF List!SetSequence
<1>2. /\ order \in [Lists -> Seq(S)] /\ told = order
      /\ dragged = List!None /\ dragged' = List!None /\ marker = FALSE
      /\ told' = [told EXCEPT ![l] = order'[l]]
      /\ UNCHANGED <<listOptions, dragged, lastValue, marker, updated>>
      /\ listDrags' \in 0..MaxDrags
      /\ \A x \in Items : Once(order, x) /\ \E m \in Lists : In(order, m, x)
      /\ \A m \in Lists : ~In(order, m, List!Clone)
  BY ListAssumed DEF ListInv, List!TypeOK, List!SetSequence, List!PageKnowsOrder
<1>3. order \in [Lists -> Seq(Items)]
  BY <1>2, WithoutClone
<1>4. \A x : x \in List!Named(l, new) <=> In(order, l, x)
  <2>1. Items \subseteq List!ToSet(new)
    BY ListAssumed
  <2>2. List!ToSet(order[l]) \subseteq Items
    BY <1>3 DEF List!ToSet
  <2>3. \A x : x \in List!ToSet(order[l]) <=> In(order, l, x)
    BY <1>2, PlaceIsThere
  <2> QED
    BY <2>1, <2>2, <2>3 DEF List!Named
<1>5. /\ s \in Seq(Items)
      /\ \A x : (\E k \in DOMAIN s : s[k] = x) <=> In(order, l, x)
      /\ \A j, k \in DOMAIN s : s[j] = s[k] => j = k
  <2>1. /\ s \in List!SeqOf(List!Named(l, new), Len(new))
        /\ List!ToSet(s) = List!Named(l, new)
        /\ \A j, k \in DOMAIN s : j < k => List!NamedBefore(new, s[j], s[k])
    BY DEF List!InSequence
  <2>2. new \in Seq(Items) /\ Len(new) \in Nat
    BY ListAssumed
  <2>3. List!Named(l, new) \subseteq Items
    BY <2>2 DEF List!Named, List!ToSet
  <2>4. PICK m \in 0..Len(new) : s \in [1..m -> List!Named(l, new)]
    BY <2>1 DEF List!SeqOf
  <2>5. s \in Seq(Items)
    BY <2>2, <2>3, <2>4
  <2>6. \A x : (\E k \in DOMAIN s : s[k] = x) <=> In(order, l, x)
    BY <1>4, <2>1 DEF List!ToSet
  <2>7. \A j, k \in DOMAIN s : j < k => s[j] # s[k]
    <3> SUFFICES ASSUME NEW j \in DOMAIN s, NEW k \in DOMAIN s, j < k, s[j] = s[k]
                 PROVE  FALSE
      OBVIOUS
    <3>1. PICK a \in DOMAIN new : new[a] = s[j] /\ \A b \in 1..a : new[b] # s[k]
      BY <2>1 DEF List!NamedBefore
    <3>2. a \in 1..a
      BY <2>2
    <3> QED
      BY <3>1, <3>2
  <2>8. \A j, k \in DOMAIN s : s[j] = s[k] => j = k
    BY <2>4, <2>7
  <2> QED
    BY <2>5, <2>6, <2>8
<1>6. order' \in [Lists -> Seq(Items)] /\ told' = order' /\ order'[l] = s
      /\ \A m \in Lists \ {l} : order'[m] = order[m]
  BY <1>1, <1>2, <1>3, <1>5
<1>7. ASSUME NEW m \in Lists, NEW x PROVE In(order', m, x) <=> In(order, m, x)
  <2>1. CASE m = l
    BY <1>5, <1>6, <2>1 DEF In
  <2>2. CASE m # l
    BY <1>6, <2>2 DEF In
  <2> QED
    BY <2>1, <2>2
<1>8. ASSUME NEW x \in Items PROVE Once(order', x)
  <2> SUFFICES ASSUME NEW m \in Lists, NEW p \in Lists, NEW j \in DOMAIN order'[m],
                      NEW k \in DOMAIN order'[p], order'[m][j] = x, order'[p][k] = x
               PROVE  m = p /\ j = k
    BY DEF Once
  <2>1. In(order, m, x) /\ In(order, p, x)
    BY <1>7 DEF In
  <2>2. m = p
    BY <1>2, <2>1 DEF In, Once
  <2>3. CASE m = l
    BY <1>5, <1>6, <2>2, <2>3
  <2>4. CASE m # l
    BY <1>2, <1>6, <2>2, <2>4 DEF Once
  <2> QED
    BY <2>2, <2>3, <2>4
<1>9. order' \in [Lists -> Seq(S)]
  BY <1>6
<1>10. List!TypeOK'
  BY <1>2, <1>6, <1>9 DEF ListInv, List!TypeOK
<1>11. Once(order', List!Clone) /\ \A m \in Lists : ~In(order', m, List!Clone)
  <2>1. \A m \in Lists : ~In(order', m, List!Clone)
    BY <1>2, <1>7
  <2> QED
    BY <2>1 DEF Once, In
<1>12. ListInv'
  BY <1>2, <1>6, <1>7, <1>8, <1>10, <1>11 DEF ListInv, List!PageKnowsOrder
<1>13. List!StayInList
  BY <1>2, <1>7, <1>9, PlaceIsThere DEF List!StayInList
<1> QED
  BY <1>12, <1>13

LEMMA ListSteps ==
  ASSUME ListInv, [List!Next]_(List!vars)
  PROVE  ListInv' /\ List!StayInList /\ List!ToldOfChanges
<1>1. order \in [Lists -> Seq(Items \cup {List!Clone})]
  BY DEF ListInv, List!TypeOK
<1>2. ASSUME NEW l \in Lists, List!Create(l) PROVE ListInv' /\ List!StayInList
  <2>1. \A m \in Lists : ~In(order, m, List!Clone)
    BY <1>2 DEF ListInv, List!Create
  <2>2. order \in [Lists -> Seq(Items)]
    BY <1>1, <2>1, WithoutClone
  <2>3. ListInv'
    BY <1>2, <2>2 DEF ListInv, List!TypeOK, List!Create, List!PageKnowsOrder
  <2> QED
    BY <1>2, <2>3 DEF List!Create, List!StayInList
<1>3. ASSUME UNCHANGED List!vars PROVE ListInv' /\ List!StayInList
  <2>1. UNCHANGED listVars
    BY <1>3 DEF List!vars, listVars
  <2>2. List!TypeOK'
    BY <2>1 DEF listVars, ListInv, List!TypeOK
  <2>3. ListInv'
    BY <2>1, <2>2 DEF listVars, ListInv, List!PageKnowsOrder, Once, In
  <2>4. List!StayInList
    BY <2>1 DEF listVars, List!StayInList, List!Contains
  <2> QED
    BY <2>3, <2>4
<1>4. ListInv' /\ List!StayInList
  BY <1>2, <1>3, StartKeepsLists, EndKeepsLists, SequenceKeepsLists, HoverKeepsLists
     DEF List!Next
<1>5. List!ToldOfChanges
  <2>1. CASE dragged # List!None /\ dragged' = List!None
    <3>1. List!OnEnd
      BY <2>1, ListAssumed DEF List!Next, List!vars, List!OnStart, List!Hover, List!SetSequence,
         List!Create
    <3> QED
      BY <3>1, EndKeepsLists
  <2>2. CASE ~(dragged # List!None /\ dragged' = List!None)
    BY <2>2 DEF List!ToldOfChanges
  <2> QED
    BY <2>1, <2>2
<1> QED
  BY <1>4, <1>5

-----------------------------------------------------------------------------
\* OrderSound: however items are dragged and sequences are set, no item of the
\* lists is lost or doubled and the page knows their order after each drag; however
\* handles are dragged, set and pressed, restricted ones keep their order, and the
\* page knows their places.
THEOREM OrderIsSound == AllSpec => []OrderSound
<1>1. List!Spec => []ListInv
  BY ListStarts, ListSteps, PTL DEF List!Spec
<1>2. Track!Spec => []SliderInv
  BY SliderStarts, SliderSteps, PTL DEF Track!Spec
<1>3. ListInv /\ SliderInv => OrderSound
  <2> SUFFICES ASSUME ListInv, SliderInv PROVE OrderSound
    OBVIOUS
  <2>1. order \in [Lists -> Seq(Items \cup {List!Clone})]
    BY DEF ListInv, List!TypeOK
  <2>2. \A l \in Lists : \A x : List!Contains(order[l], x) <=> In(order, l, x)
    BY <2>1, PlaceIsThere
  <2>3. List!ItemsConserved
    BY <2>2 DEF ListInv, List!ItemsConserved, Once
  <2>4. List!NoGhosts
    BY <2>2 DEF ListInv, List!NoGhosts
  <2> QED
    BY <2>3, <2>4 DEF OrderSound, ListInv, SliderInv
<1> QED
  BY <1>1, <1>2, <1>3, EachAlone, PTL

\* The part of MovesSound that is about the lists and the handles: the page is only
\* told of orders that have changed, no item leaves a list without containment, and
\* a handle goes to the nearest of the places that it may come to.
THEOREM MovesAreSound ==
  AllSpec => [][List!ToldOfChanges /\ List!StayInList /\ Track!GoesToNearest]_allVars
<1>1. ListInv /\ [List!Next]_(List!vars) => List!ToldOfChanges /\ List!StayInList
  BY ListSteps
<1>2. SliderInv /\ [Track!Next]_(Track!vars) => Track!GoesToNearest
  <2>1. UNCHANGED <<asked, values>> => Track!GoesToNearest
    BY DEF Track!GoesToNearest
  <2> QED
    BY <2>1, SliderSteps
<1>3. List!Spec => []ListInv
  BY ListStarts, ListSteps, PTL DEF List!Spec
<1>4. Track!Spec => []SliderInv
  BY SliderStarts, SliderSteps, PTL DEF Track!Spec
<1> QED
  BY <1>1, <1>2, <1>3, <1>4, EachAlone, PTL DEF List!Spec, Track!Spec

-----------------------------------------------------------------------------
(* The queue of effects. *)

\* A queued effect waits or runs, and has all that was queued before it in front of
\* it: due no earlier than they end while they last, and running after them.
QueueOrder ==
  \A j \in DOMAIN effects : \A f \in before[effects[j]] :
    state[f] # "finished" =>
      /\ state[effects[j]] = "idle"
      /\ \E i \in 1..(j - 1) : effects[i] = f
      /\ finishOn[f] <= startOn[effects[j]]

\* What a pass of the timer has passed was not over: an effect that it has still to
\* visit comes after what it waits for, or was found too early.
PassOrder ==
  \A j \in DOMAIN pass : \A f \in before[pass[j]] :
    state[f] # "finished" => (\E i \in 1..(j - 1) : pass[i] = f) \/ now < finishOn[f]

\* What a pass has still to visit is queued, or was cancelled in the pass, and its
\* afterFinish has not been fired.
StillToEnd ==
  \A j \in DOMAIN pass :
    (pass[j] \in Queue!Queued \/ pass[j] \in stopped) /\ fired[pass[j]] = 0

QueueInv ==
  /\ Queue!TypeOK
  /\ Queue!TimerIffEffects
  /\ DOMAIN before = Queue!Effects
  /\ \A j \in DOMAIN effects : state[effects[j]] \in {"idle", "running"}
  /\ \A e \in Queue!Effects :
       /\ state[e] = "running" => e \in Queue!Queued
       /\ state[e] \in {"new", "idle"} => frame[e] = 0
       /\ fired[e] > 0 => state[e] = "finished" /\ (full[e] \/ e \in stopped)
       /\ e \in stopped => state[e] = "finished"
       /\ before[e] \subseteq Queue!Effects
       /\ \A f \in before[e] : state[f] # "new"
  /\ Queue!IsInjective(pass)
  /\ StillToEnd
  /\ QueueOrder
  /\ PassOrder

LEMMA QueueAssumed ==
  ASSUME queueOptions \in QueueOptions
  PROVE  /\ queueOptions.durations \subseteq Nat /\ queueOptions.delays \subseteq Nat
         /\ queueOptions.limits \subseteq Nat /\ queueOptions.time \in Nat
         /\ MaxLate \in Nat
BY MotionAssumption DEF Queue!EffectQueueAssumption

LEMMA QueueStarts == Queue!Init => QueueInv
<1> SUFFICES ASSUME Queue!Init PROVE QueueInv
  OBVIOUS
<1>1. queueOptions \in QueueOptions /\ effects = << >> /\ pass = << >>
  BY DEF Queue!Init
<1>2. DOMAIN effects = {} /\ DOMAIN pass = {}
  BY <1>1
<1>3. Queue!TypeOK
  <2>1. now \in 0..queueOptions.time /\ elapsed \in 0..MaxLate
    BY <1>1, QueueAssumed DEF Queue!Init
  <2>2. /\ effects \in Seq(Queue!Effects) /\ pass \in Seq(Queue!Effects)
        /\ Queue!IsInjective(effects)
    BY <1>1, <1>2 DEF Queue!IsInjective
  <2>3. frame \in [Queue!Effects -> 0..queueOptions.time]
    BY <1>1, QueueAssumed DEF Queue!Init
  <2>4. /\ startOn \in [Queue!Effects -> Nat] /\ finishOn \in [Queue!Effects -> Nat]
        /\ \A e \in Queue!Effects : startOn[e] <= finishOn[e]
    BY DEF Queue!Init
  <2>5. /\ interval \in BOOLEAN /\ full \in [Queue!Effects -> BOOLEAN]
        /\ state \in [Queue!Effects -> {"new", "idle", "running", "finished"}]
        /\ chain \subseteq Queue!Effects /\ stopped \subseteq Queue!Effects
    BY DEF Queue!Init
  <2>6. fired \in [Queue!Effects -> 0..1]
    BY DEF Queue!Init
  <2> QED
    BY <1>1, <2>1, <2>2, <2>3, <2>4, <2>5, <2>6 DEF Queue!TypeOK
<1>4. QueueOrder /\ PassOrder /\ StillToEnd /\ Queue!IsInjective(pass)
  BY <1>2 DEF QueueOrder, PassOrder, StillToEnd, Queue!IsInjective
<1>5. Queue!TimerIffEffects
  BY <1>1 DEF Queue!Init, Queue!TimerIffEffects
<1>6. /\ \A e \in Queue!Effects :
            state[e] = "new" /\ frame[e] = 0 /\ fired[e] = 0 /\ before[e] = {} /\ e \notin stopped
      /\ DOMAIN before = Queue!Effects
  BY DEF Queue!Init
<1> QED
  BY <1>2, <1>3, <1>4, <1>5, <1>6 DEF QueueInv

\* Of the numbers along a sequence one is the greatest.
LEMMA GreatestAlong ==
  ASSUME NEW len \in Nat \ {0}, NEW v \in [1..len -> Nat]
  PROVE  \E m \in 1..len : \A i \in 1..len : v[i] <= v[m]
<1> DEFINE P(n) == \E m \in 1..n : \A i \in 1..n : v[i] <= v[m]
           B == {n \in 1..len : ~P(n)}
<1>1. len \in Nat /\ len > 0 /\ \A i \in 1..len : v[i] \in Nat
  OBVIOUS
<1>2. ASSUME B = {} PROVE P(len)
  <2>1. len \in 1..len
    BY <1>1
  <2> HIDE DEF P
  <2> QED
    BY <1>2, <2>1
<1>3. ASSUME B # {} PROVE FALSE
  <2>1. PICK n \in B : \A k \in B : n <= k
    <3>1. B \in SUBSET Nat
      OBVIOUS
    <3> HIDE DEF B
    <3> QED
      BY <1>3, <3>1, LeastNatural
  <2>2. n \in 1..len /\ ~P(n) /\ n \in Nat
    OBVIOUS
  <2>3. CASE n = 1
    <3>1. \A i \in 1..1 : v[i] <= v[1]
      BY <1>1, <2>2, <2>3
    <3> QED
      BY <2>2, <2>3, <3>1
  <2>4. CASE n # 1
    <3>1. n - 1 \in 1..len /\ ~(n <= n - 1)
      BY <1>1, <2>2, <2>4
    <3>2. P(n - 1)
      <4> HIDE DEF P
      <4> QED
        BY <2>1, <3>1
    <3>3. PICK m \in 1..(n - 1) : \A i \in 1..(n - 1) : v[i] <= v[m]
      BY <3>2
    <3>4. \A i \in 1..n : i \in 1..(n - 1) \/ i = n
      BY <2>2
    <3>5. m \in 1..n /\ n \in 1..n /\ m \in 1..len /\ 1..n \subseteq 1..len
      BY <1>1, <2>2, <3>3
    <3>6. /\ v[m] \in Nat /\ v[n] \in Nat
          /\ \A i \in 1..n : v[i] \in Nat
      BY <1>1, <2>2, <3>5
    <3>7. CASE v[n] <= v[m]
      <4>1. \A i \in 1..n : v[i] <= v[m]
        BY <3>3, <3>4, <3>7
      <4> QED
        BY <2>2, <3>5, <4>1
    <3>8. CASE v[m] <= v[n]
      <4>1. ASSUME NEW i \in 1..n PROVE v[i] <= v[n]
        <5>1. v[i] \in Nat /\ v[m] \in Nat /\ v[n] \in Nat
          BY <3>6
        <5>2. CASE i = n
          BY <5>1, <5>2
        <5>3. CASE i # n
          <6>1. v[i] <= v[m]
            BY <3>3, <3>4, <5>3
          <6> QED
            BY <3>8, <5>1, <6>1
        <5> QED
          BY <5>2, <5>3
      <4> QED
        BY <2>2, <3>5, <4>1
    <3>9. v[n] <= v[m] \/ v[m] <= v[n]
      BY <3>6
    <3> QED
      BY <3>7, <3>8, <3>9
  <2> QED
    BY <2>3, <2>4
<1> QED
  BY <1>2, <1>3

\* An effect that is added at the end starts after all that is queued.
LEMMA TimestampIsLate ==
  ASSUME QueueInv, NEW position
  PROVE  /\ Queue!Timestamp(position) \in Nat
         /\ position = "end" => \A f \in Queue!Queued : finishOn[f] <= Queue!Timestamp(position)
<1>1. /\ effects \in Seq(Queue!Effects) /\ finishOn \in [Queue!Effects -> Nat]
      /\ now \in Nat
  <2>1. queueOptions.time \in Nat
    BY QueueAssumed DEF QueueInv, Queue!TypeOK
  <2> QED
    BY <2>1 DEF QueueInv, Queue!TypeOK
<1>2. Queue!Queued = {effects[k] : k \in 1..Len(effects)} /\ Len(effects) \in Nat
  BY <1>1, SMTT(30) DEF Queue!Queued, Queue!ToSet
<1>3. CASE position = "end" /\ Queue!Queued # {}
  <2>1. Len(effects) > 0
    BY <1>2, <1>3
  <2>2. PICK m \in 1..Len(effects) :
          \A i \in 1..Len(effects) : finishOn[effects[i]] <= finishOn[effects[m]]
    <3> DEFINE v == [i \in 1..Len(effects) |-> finishOn[effects[i]]]
    <3>1. v \in [1..Len(effects) -> Nat] /\ Len(effects) \in Nat \ {0}
      BY <1>1, <1>2, <2>1
    <3>2. \E m \in 1..Len(effects) : \A i \in 1..Len(effects) : v[i] <= v[m]
      <4> HIDE DEF v
      <4> QED
        BY <3>1, GreatestAlong
    <3> QED
      BY <3>2
  <2> DEFINE N == {finishOn[e] : e \in Queue!Queued}
  <2>3. /\ finishOn[effects[m]] \in N /\ N \subseteq Nat
        /\ \A y \in N : finishOn[effects[m]] >= y
    BY <1>1, <1>2, <2>2
  <2>4. Queue!Max(N) \in N /\ \A y \in N : Queue!Max(N) >= y
    <3> HIDE DEF N
    <3> QED
      BY <2>3 DEF Queue!Max
  <2>5. Queue!Timestamp(position) = Queue!Max(N)
    BY <1>3 DEF Queue!Timestamp
  <2>6. \A f \in Queue!Queued : finishOn[f] \in N
    OBVIOUS
  <2> HIDE DEF N
  <2> QED
    BY <2>3, <2>4, <2>5, <2>6
<1>4. CASE ~(position = "end" /\ Queue!Queued # {})
  BY <1>1, <1>4 DEF Queue!Timestamp
<1> QED
  BY <1>3, <1>4

\* What the invariant says of the two lists.
LEMMA QueueFacts ==
  ASSUME QueueInv
  PROVE  /\ effects \in Seq(Queue!Effects) /\ DOMAIN effects = 1..Len(effects) /\ Len(effects) \in Nat
         /\ \A i, j \in 1..Len(effects) : effects[i] = effects[j] => i = j
         /\ \A e : e \in Queue!Queued <=> \E i \in 1..Len(effects) : effects[i] = e
         /\ pass \in Seq(Queue!Effects) /\ DOMAIN pass = 1..Len(pass) /\ Len(pass) \in Nat
         /\ \A i, j \in 1..Len(pass) : pass[i] = pass[j] => i = j
         /\ \A j \in 1..Len(pass) :
              /\ pass[j] \in Queue!Queued \/ pass[j] \in stopped
              /\ pass[j] \in Queue!Effects /\ state[pass[j]] # "new" /\ fired[pass[j]] = 0
              /\ state[pass[j]] \in {"idle", "running"} => pass[j] \in Queue!Queued
         /\ \A f \in Queue!Queued : f \in Queue!Effects /\ state[f] \in {"idle", "running"}
         /\ \A j \in 1..Len(effects) : effects[j] \in Queue!Effects
         /\ now \in Nat
<1>1. effects \in Seq(Queue!Effects) /\ pass \in Seq(Queue!Effects)
  BY DEF QueueInv, Queue!TypeOK
<1>2. DOMAIN effects = 1..Len(effects) /\ DOMAIN pass = 1..Len(pass)
  BY <1>1
<1>3. Queue!IsInjective(effects) /\ Queue!IsInjective(pass)
  BY DEF QueueInv, Queue!TypeOK
<1>4. now \in Nat
  <2>1. queueOptions.time \in Nat
    BY QueueAssumed DEF QueueInv, Queue!TypeOK
  <2> QED
    BY <2>1 DEF QueueInv, Queue!TypeOK
<1>5. \A e : e \in Queue!Queued <=> \E i \in 1..Len(effects) : effects[i] = e
  BY <1>2 DEF Queue!Queued, Queue!ToSet
<1>6. \A f \in Queue!Queued : f \in Queue!Effects /\ state[f] \in {"idle", "running"}
  BY <1>1, <1>2, <1>5 DEF QueueInv
<1>8. ASSUME NEW j \in 1..Len(pass)
      PROVE  /\ pass[j] \in Queue!Queued \/ pass[j] \in stopped
             /\ pass[j] \in Queue!Effects /\ state[pass[j]] # "new" /\ fired[pass[j]] = 0
             /\ state[pass[j]] \in {"idle", "running"} => pass[j] \in Queue!Queued
  <2>1. (pass[j] \in Queue!Queued \/ pass[j] \in stopped) /\ fired[pass[j]] = 0
    BY <1>2 DEF QueueInv, StillToEnd
  <2>2. pass[j] \in Queue!Effects
    BY <1>1
  <2>3. pass[j] \in stopped => state[pass[j]] = "finished"
    BY <2>2 DEF QueueInv
  <2> QED
    BY <1>6, <2>1, <2>2, <2>3
<1>7. /\ \A i, j \in 1..Len(effects) : effects[i] = effects[j] => i = j
      /\ \A i, j \in 1..Len(pass) : pass[i] = pass[j] => i = j
  BY <1>2, <1>3 DEF Queue!IsInjective
<1> QED
  BY <1>1, <1>2, <1>4, <1>5, <1>6, <1>7, <1>8

\* A page that adds an effect, or a callback that starts one in the middle of a pass.
LEMMA StartKeeps ==
  ASSUME QueueInv, NEW e \in Queue!Effects, NEW position, NEW duration \in Nat, NEW delay \in Nat,
         NEW limit \in Nat, Queue!Start(e, position, duration, delay, limit),
         UNCHANGED <<queueOptions, now, elapsed, frame, full, pass, chain, fired, stopped>>
  PROVE  QueueInv'
<1> DEFINE shift == IF position = "front" THEN delay + duration ELSE 0
           base == Queue!Timestamp(position)
           l == Len(effects)
<1>a. /\ effects \in Seq(Queue!Effects) /\ l \in Nat
      /\ \A i, j \in 1..l : effects[i] = effects[j] => i = j
      /\ \A j \in 1..l : effects[j] \in Queue!Effects
  BY QueueFacts
<1>b. \A f : f \in Queue!Queued <=> \E i \in 1..l : effects[i] = f
  BY QueueFacts
<1>c. /\ pass \in Seq(Queue!Effects) /\ DOMAIN pass = 1..Len(pass)
      /\ \A j \in 1..Len(pass) :
           /\ pass[j] \in Queue!Queued \/ pass[j] \in stopped
           /\ pass[j] \in Queue!Effects /\ state[pass[j]] # "new" /\ fired[pass[j]] = 0
  BY QueueFacts
<1>1. /\ state \in [Queue!Effects -> {"new", "idle", "running", "finished"}]
      /\ startOn \in [Queue!Effects -> Nat] /\ finishOn \in [Queue!Effects -> Nat]
      /\ \A f \in Queue!Effects : startOn[f] <= finishOn[f]
  BY DEF QueueInv, Queue!TypeOK
<1>2. shift \in Nat /\ base \in Nat
  BY TimestampIsLate
<1>3. /\ position = "end" => \A f \in Queue!Queued : finishOn[f] <= base
  BY TimestampIsLate
<1>4. Queue!Effects' = Queue!Effects
  BY DEF Queue!Effects
<1>5. /\ state[e] = "new"
      /\ startOn' = [f \in Queue!Effects |->
            IF f = e THEN base + delay
            ELSE IF f \in Queue!Idle THEN startOn[f] + shift ELSE startOn[f]]
      /\ finishOn' = [f \in Queue!Effects |->
            IF f = e THEN base + delay + duration
            ELSE IF f \in Queue!Idle THEN finishOn[f] + shift ELSE finishOn[f]]
      /\ state' = [state EXCEPT ![e] = "idle"]
      /\ effects' = IF Queue!Admits(limit) THEN Append(effects, e) ELSE effects
      /\ interval' = TRUE
  BY DEF Queue!Start, Queue!MovedFinish
<1>6. before' = [before EXCEPT ![e] = IF position = "end" THEN Queue!Queued ELSE {}]
  BY DEF Queue!Start
<1> HIDE DEF base, shift, l
<1>7. /\ \A f \in Queue!Effects : state'[f] = IF f = e THEN "idle" ELSE state[f]
      /\ state' \in [Queue!Effects -> {"new", "idle", "running", "finished"}]
      /\ startOn' \in [Queue!Effects -> Nat] /\ finishOn' \in [Queue!Effects -> Nat]
      /\ \A f \in Queue!Effects : startOn'[f] <= finishOn'[f]
  <2>1. /\ \A f \in Queue!Effects : state'[f] = IF f = e THEN "idle" ELSE state[f]
        /\ state' \in [Queue!Effects -> {"new", "idle", "running", "finished"}]
    BY <1>1, <1>5
  <2>2. startOn' \in [Queue!Effects -> Nat] /\ finishOn' \in [Queue!Effects -> Nat]
    BY <1>1, <1>2, <1>5
  <2>3. ASSUME NEW f \in Queue!Effects PROVE startOn'[f] <= finishOn'[f]
    <3>1. startOn[f] \in Nat /\ finishOn[f] \in Nat /\ startOn[f] <= finishOn[f]
      BY <1>1
    <3>2. /\ startOn'[f] = IF f = e THEN base + delay
                           ELSE IF f \in Queue!Idle THEN startOn[f] + shift ELSE startOn[f]
          /\ finishOn'[f] = IF f = e THEN base + delay + duration
                            ELSE IF f \in Queue!Idle THEN finishOn[f] + shift ELSE finishOn[f]
      BY <1>5
    <3> QED
      BY <1>2, <3>1, <3>2
  <2> QED
    BY <2>1, <2>2, <2>3
<1>8. e \notin Queue!Queued
  <2>1. \A j \in 1..l : state[effects[j]] \in {"idle", "running"}
    BY QueueFacts DEF QueueInv, l
  <2> QED
    BY <1>5, <1>b, <2>1
<1>d. \A f \in Queue!Queued : state[f] \in {"idle", "running"}
  BY <1>a, <1>b DEF QueueInv, l
<1>9. PICK n \in Seq(Queue!Effects) : n = effects'
  BY <1>5, <1>a
<1>10. /\ Len(n) \in {l, l + 1} /\ Len(n) \in Nat /\ DOMAIN n = 1..Len(n)
       /\ \A j \in 1..l : j \in 1..Len(n) /\ n[j] = effects[j]
       /\ Len(n) = l + 1 => n[l + 1] = e
       /\ \A j \in 1..Len(n) : j \in 1..l \/ (j = l + 1 /\ Len(n) = l + 1)
  <2>1. CASE Queue!Admits(limit)
    <3>1. n = Append(effects, e)
      BY <1>5, <1>9, <2>1
    <3> QED
      BY <1>a, <3>1 DEF l
  <2>2. CASE ~Queue!Admits(limit)
    <3>1. n = effects
      BY <1>5, <1>9, <2>2
    <3> QED
      BY <1>a, <3>1 DEF l
  <2> QED
    BY <2>1, <2>2
<1>11. Queue!TimerIffEffects'
  <2>1. n # << >>
    <3>1. CASE Queue!Admits(limit)
      <4>1. n = Append(effects, e)
        BY <1>5, <1>9, <3>1
      <4> QED
        BY <1>a, <4>1
    <3>2. CASE ~Queue!Admits(limit)
      <4>1. limit # 0 /\ ~(l < limit)
        BY <3>2 DEF Queue!Admits, l
      <4>2. l # 0
        BY <1>a, <4>1
      <4>3. 1 \in 1..l
        BY <1>a, <4>2
      <4>4. Len(n) # 0
        BY <1>10, <4>3
      <4> QED
        BY <4>4
    <3> QED
      BY <3>1, <3>2
  <2> QED
    BY <1>5, <1>9, <2>1 DEF Queue!TimerIffEffects
<1>12. \A i, j \in 1..Len(n) : n[i] = n[j] => i = j
  <2> SUFFICES ASSUME NEW i \in 1..Len(n), NEW j \in 1..Len(n), n[i] = n[j] PROVE i = j
    OBVIOUS
  <2>1. \A k \in 1..l : n[k] \in Queue!Queued
    BY <1>10, <1>b
  <2>2. CASE i \in 1..l /\ j \in 1..l
    BY <1>10, <1>a, <2>2
  <2>3. CASE i \notin 1..l
    BY <1>8, <1>10, <2>1, <2>3
  <2>4. CASE j \notin 1..l
    BY <1>8, <1>10, <2>1, <2>4
  <2> QED
    BY <2>2, <2>3, <2>4
<1>13. Queue!TypeOK'
  <2>1. Queue!IsInjective(effects)'
    BY <1>9, <1>10, <1>12 DEF Queue!IsInjective
  <2>2. interval' \in BOOLEAN
    BY <1>5
  <2>3. /\ queueOptions' \in QueueOptions
        /\ now' \in 0..queueOptions'.time /\ elapsed' \in 0..MaxLate
        /\ frame' \in [Queue!Effects' -> 0..queueOptions'.time]
        /\ full' \in [Queue!Effects' -> BOOLEAN] /\ fired' \in [Queue!Effects' -> 0..1]
        /\ pass' \in Seq(Queue!Effects')
        /\ chain' \subseteq Queue!Effects' /\ stopped' \subseteq Queue!Effects'
    BY <1>4 DEF QueueInv, Queue!TypeOK
  <2> QED
    BY <1>4, <1>7, <1>9, <2>1, <2>2, <2>3 DEF Queue!TypeOK
<1>14. \A j \in DOMAIN effects' : state'[effects'[j]] \in {"idle", "running"}
  <2>1. \A j \in 1..l : state[effects[j]] \in {"idle", "running"}
    BY QueueFacts DEF QueueInv, l
  <2> QED
    <3> SUFFICES ASSUME NEW j \in 1..Len(n) PROVE state'[n[j]] \in {"idle", "running"}
      BY <1>9, <1>10
    <3>1. CASE j \in 1..l
      BY <1>7, <1>10, <1>a, <2>1, <3>1
    <3>2. CASE j \notin 1..l
      BY <1>7, <1>8, <1>10, <1>a, <3>2
    <3> QED
      BY <3>1, <3>2
<1>15. \A f : f \in Queue!Queued' <=> \E j \in 1..Len(n) : n[j] = f
  BY <1>9, <1>10 DEF Queue!Queued, Queue!ToSet
<1>16. /\ \A f \in Queue!Queued : f \in Queue!Queued'
       /\ StillToEnd'
  <2>1. \A f \in Queue!Queued : f \in Queue!Queued'
    BY <1>10, <1>15, <1>b
  <2> QED
    BY <1>c, <2>1 DEF StillToEnd
<1>17. ASSUME NEW f \in Queue!Effects
       PROVE  /\ state'[f] = "running" => f \in Queue!Queued'
              /\ state'[f] \in {"new", "idle"} => frame'[f] = 0
              /\ fired'[f] > 0 => state'[f] = "finished" /\ (full'[f] \/ f \in stopped')
              /\ f \in stopped' => state'[f] = "finished"
              /\ before'[f] \subseteq Queue!Effects
              /\ \A x \in before'[f] : state'[x] # "new"
  <2>1. /\ state[f] = "running" => f \in Queue!Queued
        /\ state[f] \in {"new", "idle"} => frame[f] = 0
        /\ fired[f] > 0 => state[f] = "finished" /\ (full[f] \/ f \in stopped)
        /\ f \in stopped => state[f] = "finished"
        /\ before[f] \subseteq Queue!Effects
        /\ \A x \in before[f] : state[x] # "new"
    BY DEF QueueInv
  <2>2. before'[f] = before[f] \/ before'[f] = Queue!Queued \/ before'[f] = {}
    BY <1>6
  <2>3. /\ Queue!Queued \subseteq Queue!Effects
        /\ \A x \in Queue!Queued : state[x] # "new"
    BY <1>a, <1>b, <1>d DEF QueueInv
  <2>4. before'[f] \subseteq Queue!Effects /\ \A x \in before'[f] : state[x] # "new"
    BY <2>1, <2>2, <2>3
  <2>5. \A x \in before'[f] : state'[x] # "new"
    BY <1>7, <2>4
  <2>6. fired' = fired /\ full' = full /\ frame' = frame /\ stopped' = stopped
    OBVIOUS
  <2> QED
    BY <1>5, <1>7, <1>16, <2>1, <2>4, <2>5, <2>6
<1>18. Queue!IsInjective(pass)'
  BY DEF QueueInv, Queue!IsInjective
<1>19. QueueOrder'
  <2> SUFFICES ASSUME NEW j \in 1..Len(n), NEW f \in before'[n[j]], state'[f] # "finished"
               PROVE  /\ state'[n[j]] = "idle"
                      /\ \E i \in 1..(j - 1) : n[i] = f
                      /\ finishOn'[f] <= startOn'[n[j]]
    BY <1>9, <1>10 DEF QueueOrder
  <2>1. CASE j \in 1..l
    <3> DEFINE d == effects[j]
    <3>1. n[j] = d /\ d \in Queue!Effects /\ d \in Queue!Queued /\ d # e
      BY <1>8, <1>10, <1>a, <1>b, <2>1
    <3>2. f \in before[d] /\ f \in Queue!Effects /\ state[f] # "new"
      BY <1>6, <3>1 DEF QueueInv
    <3>3. f # e /\ state[f] # "finished" /\ state'[d] = state[d] /\ state[f] \in {"idle", "running"}
      BY <1>1, <1>5, <1>7, <3>1, <3>2
    <3>4. /\ state[d] = "idle"
          /\ \E i \in 1..(j - 1) : effects[i] = f
          /\ finishOn[f] <= startOn[d]
      BY <1>a, <2>1, <3>2, <3>3 DEF QueueInv, QueueOrder, l
    <3>5. PICK i \in 1..(j - 1) : effects[i] = f
      BY <3>4
    <3>12. i \in 1..l
      BY <1>a, <2>1, <3>5
    <3>6. n[i] = f
      BY <1>10, <3>5, <3>12
    <3>7. d \in Queue!Idle
      BY <3>1, <3>4 DEF Queue!Idle
    <3>8. startOn'[d] = startOn[d] + shift
      BY <1>5, <3>1, <3>7
    <3>9. finishOn'[f] \in {finishOn[f], finishOn[f] + shift}
      BY <1>5, <3>2, <3>3
    <3>10. finishOn[f] \in Nat /\ startOn[d] \in Nat
      BY <1>1, <3>1, <3>2
    <3>11. finishOn'[f] <= startOn'[d]
      BY <1>2, <3>4, <3>8, <3>9, <3>10, SMTT(30)
    <3> QED
      BY <3>1, <3>3, <3>4, <3>5, <3>6, <3>11
  <2>2. CASE j \notin 1..l
    <3>1. j = l + 1 /\ n[j] = e
      BY <1>10, <2>2
    <3>3. position = "end" /\ f \in Queue!Queued
      BY <1>6, <3>1 DEF QueueInv
    <3>4. PICK i \in 1..l : effects[i] = f
      BY <1>b, <3>3
    <3>5. i \in 1..(j - 1)
      BY <1>a, <3>1, <3>4
    <3>13. n[i] = f
      BY <1>10, <3>4
    <3>6. f # e /\ f \in Queue!Effects
      BY <1>8, <1>a, <3>3, <3>4
    <3>7. shift = 0
      BY <3>3 DEF shift
    <3>8. finishOn'[f] = finishOn[f]
      BY <1>1, <1>5, <3>6, <3>7
    <3>9. startOn'[e] = base + delay /\ finishOn[f] <= base /\ finishOn[f] \in Nat
      BY <1>1, <1>3, <1>5, <3>3, <3>6
    <3>10. finishOn[f] <= base + delay
      BY <1>2, <3>9
    <3>11. state'[e] = "idle"
      BY <1>7
    <3> QED
      BY <3>1, <3>5, <3>13, <3>8, <3>9, <3>10, <3>11
  <2> QED
    BY <2>1, <2>2
<1>20. PassOrder'
  <2> SUFFICES ASSUME NEW j \in 1..Len(pass), NEW f \in before'[pass[j]], state'[f] # "finished"
               PROVE  (\E i \in 1..(j - 1) : pass[i] = f) \/ now < finishOn'[f]
    BY <1>c DEF PassOrder
  <2>1. pass[j] # e /\ pass[j] \in Queue!Effects
    BY <1>5, <1>c
  <2>2. f \in before[pass[j]] /\ f \in Queue!Effects /\ state[f] # "new"
    BY <1>6, <2>1 DEF QueueInv
  <2>3. f # e /\ state[f] # "finished"
    BY <1>5, <1>7, <2>2
  <2>4. (\E i \in 1..(j - 1) : pass[i] = f) \/ now < finishOn[f]
    BY <1>c, <2>2, <2>3 DEF QueueInv, PassOrder
  <2>5. now \in Nat /\ finishOn[f] \in Nat
    BY <1>1, <2>2, QueueFacts
  <2>6. finishOn'[f] \in {finishOn[f], finishOn[f] + shift}
    BY <1>5, <2>2, <2>3
  <2>7. now < finishOn[f] => now < finishOn'[f]
    BY <1>2, <2>5, <2>6
  <2> QED
    BY <2>4, <2>7
<1>21. DOMAIN before' = Queue!Effects'
  BY <1>4, <1>6 DEF QueueInv
<1> QED
  BY <1>4, <1>11, <1>21, <1>13, <1>14, <1>16, <1>17, <1>18, <1>19, <1>20 DEF QueueInv

\* An effect that is over leaves the queue, and what waited for it waits no more.
LEMMA RemovalKeeps ==
  ASSUME QueueInv, NEW e \in Queue!Effects, Queue!RemoveFromQueue(e),
         state' = [state EXCEPT ![e] = "finished"],
         \/ pass' = << >>
         \/ pass # << >> /\ Head(pass) = e /\ pass' = Tail(pass)
         \/ pass' = pass /\ fired' = fired /\ e \in stopped',
         UNCHANGED <<queueOptions, now, elapsed, startOn, finishOn, before>>,
         frame' \in [Queue!Effects -> 0..queueOptions.time],
         full' \in [Queue!Effects -> BOOLEAN], fired' \in [Queue!Effects -> 0..1],
         \A f \in Queue!Effects : f # e => full'[f] = full[f] /\ fired'[f] = fired[f],
         \A f \in Queue!Effects : f # e => frame'[f] = frame[f],
         fired'[e] > 0 => full'[e] \/ e \in stopped',
         stopped' \in {stopped, stopped \cup {e}},
         chain' \subseteq Queue!Effects
  PROVE  QueueInv'
<1> DEFINE l == Len(effects)
           n == effects'
<1>1. /\ effects \in Seq(Queue!Effects) /\ l \in Nat
      /\ \A i, j \in 1..l : effects[i] = effects[j] => i = j
      /\ \A j \in 1..l : effects[j] \in Queue!Effects
  BY QueueFacts
<1>2. \A f : f \in Queue!Queued <=> \E i \in 1..l : effects[i] = f
  BY QueueFacts
<1>3. /\ pass \in Seq(Queue!Effects) /\ Len(pass) \in Nat
      /\ \A i, j \in 1..Len(pass) : pass[i] = pass[j] => i = j
      /\ \A j \in 1..Len(pass) :
           /\ pass[j] \in Queue!Queued \/ pass[j] \in stopped
           /\ pass[j] \in Queue!Effects /\ fired[pass[j]] = 0
  BY QueueFacts
<1>4. Queue!Effects' = Queue!Effects
  BY DEF Queue!Effects
<1>5. /\ state \in [Queue!Effects -> {"new", "idle", "running", "finished"}]
      /\ state' \in [Queue!Effects -> {"new", "idle", "running", "finished"}]
      /\ \A f \in Queue!Effects : state'[f] = IF f = e THEN "finished" ELSE state[f]
  BY DEF QueueInv, Queue!TypeOK
<1>6. /\ \A j \in 1..l : state[effects[j]] \in {"idle", "running"}
      /\ DOMAIN effects = 1..l
  BY QueueFacts DEF QueueInv
<1>7. /\ n \in Seq(Queue!Effects)
      /\ \E k \in 1..(l + 1) :
           /\ Len(n) = IF k = l + 1 THEN l ELSE l - 1
           /\ \A j \in 1..Len(n) : n[j] = effects[IF j < k THEN j ELSE j + 1]
           /\ \A j \in 1..l : (j = k) <=> (effects[j] = e)
  <2>1. CASE e \in Queue!Queued
    <3> DEFINE k == CHOOSE i \in DOMAIN effects : effects[i] = e
    <3>1. k \in 1..l /\ effects[k] = e
      BY <1>2, <1>6, <2>1
    <3>2. n = List!RemoveAt(effects, k)
      BY <2>1 DEF Queue!RemoveFromQueue, Queue!Without, List!RemoveAt, Queue!RemoveAt
    <3> HIDE DEF k
    <3>3. /\ n \in Seq(Queue!Effects) /\ Len(n) = l - 1
          /\ \A j \in 1..Len(n) : n[j] = effects[IF j < k THEN j ELSE j + 1]
      BY <1>1, <3>1, <3>2, TakenOut, SMTT(30)
    <3>4. k \in 1..(l + 1) /\ k # l + 1
      BY <1>1, <3>1
    <3>5. \A j \in 1..l : (j = k) <=> (effects[j] = e)
      BY <1>1, <3>1
    <3> HIDE DEF n, l
    <3> QED
      BY <3>3, <3>4, <3>5
  <2>2. CASE e \notin Queue!Queued
    <3>1. n = effects
      BY <2>2 DEF Queue!RemoveFromQueue, Queue!Without
    <3>2. l + 1 \in 1..(l + 1) /\ \A j \in 1..l : j < l + 1 /\ j # l + 1
      BY <1>1
    <3>3. \A j \in 1..l : effects[j] # e
      BY <1>2, <2>2
    <3> QED
      BY <1>1, <3>1, <3>2, <3>3
  <2> QED
    BY <2>1, <2>2
<1>8. PICK k \in 1..(l + 1) :
           /\ Len(n) = IF k = l + 1 THEN l ELSE l - 1
           /\ \A j \in 1..Len(n) : n[j] = effects[IF j < k THEN j ELSE j + 1]
           /\ \A j \in 1..l : (j = k) <=> (effects[j] = e)
  BY <1>7
<1> DEFINE g(j) == IF j < k THEN j ELSE j + 1
<1>9. Len(n) \in Nat /\ DOMAIN n = 1..Len(n)
  BY <1>7
<1> HIDE DEF n, l
<1>10. \A j \in 1..Len(n) : g(j) \in 1..l /\ g(j) # k /\ n[j] = effects[g(j)]
  <2> SUFFICES ASSUME NEW j \in 1..Len(n) PROVE g(j) \in 1..l /\ g(j) # k /\ n[j] = effects[g(j)]
    OBVIOUS
  <2>1. n[j] = effects[g(j)]
    BY <1>8
  <2>2. g(j) \in 1..l /\ g(j) # k
    <3>1. CASE k = l + 1
      BY <1>1, <1>8, <1>9, <3>1
    <3>2. CASE k # l + 1
      BY <1>1, <1>8, <1>9, <3>2
    <3> QED
      BY <3>1, <3>2
  <2> QED
    BY <2>1, <2>2
<1>11. \A i \in 1..l : i # k => \E j \in 1..Len(n) : g(j) = i /\ n[j] = effects[i]
  <2> SUFFICES ASSUME NEW i \in 1..l, i # k PROVE \E j \in 1..Len(n) : g(j) = i
    BY <1>10
  <2>1. CASE i < k
    BY <1>1, <1>8, <1>9, <2>1
  <2>2. CASE i > k
    <3>1. i - 1 \in 1..Len(n) /\ g(i - 1) = i
      BY <1>1, <1>8, <1>9, <2>2
    <3> QED
      BY <3>1
  <2> QED
    BY <1>1, <1>8, <2>1, <2>2
<1>12. \A i, j \in 1..Len(n) : (i < j <=> g(i) < g(j)) /\ (g(i) = g(j) => i = j)
  BY <1>1, <1>8, <1>9
<1> HIDE DEF g
<1>13. \A f : f \in Queue!Queued' <=> \E j \in 1..Len(n) : n[j] = f
  BY <1>9 DEF Queue!Queued, Queue!ToSet, n
<1>14. \A f \in Queue!Queued : f # e => f \in Queue!Queued'
  <2> SUFFICES ASSUME NEW f \in Queue!Queued, f # e PROVE \E j \in 1..Len(n) : n[j] = f
    BY <1>13
  <2>1. PICK i \in 1..l : effects[i] = f
    BY <1>2
  <2>2. i # k
    BY <1>8, <2>1
  <2> QED
    BY <1>11, <2>1, <2>2
<1>15. \A j \in 1..Len(n) : n[j] \in Queue!Effects /\ n[j] # e /\ state'[n[j]] \in {"idle", "running"}
  BY <1>1, <1>5, <1>6, <1>8, <1>10
<1>16. \A i, j \in 1..Len(n) : n[i] = n[j] => i = j
  <2> SUFFICES ASSUME NEW i \in 1..Len(n), NEW j \in 1..Len(n), n[i] = n[j] PROVE i = j
    OBVIOUS
  <2>1. effects[g(i)] = effects[g(j)] /\ g(i) \in 1..l /\ g(j) \in 1..l
    BY <1>10
  <2>2. g(i) = g(j)
    BY <1>1, <2>1
  <2> QED
    BY <1>12, <2>2
<1>17. Queue!TypeOK'
  <2>1. Queue!IsInjective(effects)'
    BY <1>9, <1>16 DEF Queue!IsInjective, n
  <2>2. interval' \in BOOLEAN
    BY DEF Queue!RemoveFromQueue, Queue!TimerAfter, QueueInv, Queue!TypeOK
  <2>3. /\ queueOptions' \in QueueOptions
        /\ now' \in 0..queueOptions'.time /\ elapsed' \in 0..MaxLate
        /\ startOn' \in [Queue!Effects' -> Nat] /\ finishOn' \in [Queue!Effects' -> Nat]
        /\ \A f \in Queue!Effects' : startOn'[f] <= finishOn'[f]
    BY <1>4 DEF QueueInv, Queue!TypeOK
  <2>4. /\ frame' \in [Queue!Effects' -> 0..queueOptions'.time]
        /\ full' \in [Queue!Effects' -> BOOLEAN] /\ fired' \in [Queue!Effects' -> 0..1]
    BY <1>4
  <2>5. pass' \in Seq(Queue!Effects')
    <3>1. CASE pass' = << >>
      BY <3>1
    <3>2. CASE pass # << >> /\ pass' = Tail(pass)
      BY <1>3, <1>4, <3>2
    <3>3. CASE pass' = pass
      BY <1>3, <1>4, <3>3
    <3> QED
      BY <3>1, <3>2, <3>3
  <2>6. effects' \in Seq(Queue!Effects') /\ state' \in [Queue!Effects' -> {"new", "idle", "running", "finished"}]
    BY <1>4, <1>5, <1>7 DEF n
  <2>7. chain' \subseteq Queue!Effects' /\ stopped' \subseteq Queue!Effects'
    BY <1>4 DEF QueueInv, Queue!TypeOK
  <2> QED
    BY <2>1, <2>2, <2>3, <2>4, <2>5, <2>6, <2>7 DEF Queue!TypeOK
<1>18. Queue!TimerIffEffects'
  <2>1. interval' = (interval /\ n # << >>)
    BY DEF Queue!RemoveFromQueue, Queue!TimerAfter, n
  <2>2. ASSUME n # << >> PROVE interval
    <3>1. Len(n) # 0
      BY <1>7, <1>9, <2>2 DEF n
    <3>2. 1 \in 1..Len(n)
      BY <1>9, <3>1
    <3>3. g(1) \in 1..l
      BY <1>10, <3>2
    <3>4. effects # << >>
      BY <1>1, <3>3 DEF l
    <3> QED
      BY <3>4 DEF QueueInv, Queue!TimerIffEffects
  <2> QED
    BY <2>1, <2>2 DEF Queue!TimerIffEffects, n
<1>19. ASSUME NEW f \in Queue!Effects
       PROVE  /\ state'[f] = "running" => f \in Queue!Queued'
              /\ state'[f] \in {"new", "idle"} => frame'[f] = 0
              /\ fired'[f] > 0 => state'[f] = "finished" /\ (full'[f] \/ f \in stopped')
              /\ f \in stopped' => state'[f] = "finished"
              /\ before'[f] \subseteq Queue!Effects
              /\ \A x \in before'[f] : state'[x] # "new"
  <2>1. /\ state[f] = "running" => f \in Queue!Queued
        /\ state[f] \in {"new", "idle"} => frame[f] = 0
        /\ fired[f] > 0 => state[f] = "finished" /\ (full[f] \/ f \in stopped)
        /\ f \in stopped => state[f] = "finished"
        /\ before[f] \subseteq Queue!Effects
        /\ \A x \in before[f] : state[x] # "new"
    BY DEF QueueInv
  <2>2. \A x \in before'[f] : state'[x] # "new"
    BY <1>5, <2>1
  <2>3. CASE f = e
    BY <1>5, <2>1, <2>2, <2>3
  <2>4. CASE f # e
    BY <1>5, <1>14, <2>1, <2>2, <2>4
  <2> QED
    BY <2>3, <2>4
<1>20. QueueOrder'
  <2> SUFFICES ASSUME NEW j \in 1..Len(n), NEW f \in before[n[j]], state'[f] # "finished"
               PROVE  /\ state'[n[j]] = "idle"
                      /\ \E i \in 1..(j - 1) : n[i] = f
                      /\ finishOn[f] <= startOn[n[j]]
    BY <1>9 DEF QueueOrder, n
  <2>1. n[j] = effects[g(j)] /\ g(j) \in 1..l /\ n[j] \in Queue!Effects /\ n[j] # e
    BY <1>10, <1>15
  <2>2. f \in Queue!Effects
    BY <2>1 DEF QueueInv
  <2>3. f # e /\ state[f] # "finished"
    BY <1>5, <2>2
  <2>4. /\ state[n[j]] = "idle"
        /\ \E i \in 1..(g(j) - 1) : effects[i] = f
        /\ finishOn[f] <= startOn[n[j]]
    BY <1>6, <2>1, <2>3 DEF QueueInv, QueueOrder
  <2>5. PICK i \in 1..(g(j) - 1) : effects[i] = f
    BY <2>4
  <2>6. i \in 1..l /\ i < g(j)
    BY <1>1, <2>1, <2>5
  <2>7. i # k
    BY <1>8, <2>3, <2>5, <2>6
  <2>8. PICK m \in 1..Len(n) : g(m) = i /\ n[m] = effects[i]
    BY <1>11, <2>6, <2>7
  <2>9. m < j
    BY <1>12, <2>6, <2>8
  <2>10. m \in 1..(j - 1)
    BY <1>9, <2>9
  <2>11. state'[n[j]] = "idle"
    BY <1>5, <2>1, <2>4
  <2> QED
    BY <2>4, <2>5, <2>8, <2>10, <2>11
<1>21. /\ Queue!IsInjective(pass)'
       /\ StillToEnd'
       /\ PassOrder'
  <2>1. CASE pass' = << >>
    BY <2>1 DEF Queue!IsInjective, PassOrder, StillToEnd
  <2>2. CASE pass # << >> /\ Head(pass) = e /\ pass' = Tail(pass)
    <3>1. /\ Len(pass) # 0 /\ pass[1] = e /\ DOMAIN pass' = 1..Len(pass')
          /\ Len(pass') = Len(pass) - 1
          /\ \A j \in 1..Len(pass') : pass'[j] = pass[j + 1]
      BY <1>3, <2>2
    <3>2. Queue!IsInjective(pass)'
      <4> SUFFICES ASSUME NEW i \in 1..Len(pass'), NEW j \in 1..Len(pass'), pass'[i] = pass'[j]
                   PROVE  i = j
        BY <3>1 DEF Queue!IsInjective
      <4>1. i + 1 \in 1..Len(pass) /\ j + 1 \in 1..Len(pass)
        BY <1>3, <3>1
      <4>2. pass'[i] = pass[i + 1] /\ pass'[j] = pass[j + 1]
        BY <3>1
      <4>3. i + 1 = j + 1
        BY <1>3, <4>1, <4>2
      <4> QED
        BY <1>3, <3>1, <4>3
    <3>3. ASSUME NEW j \in 1..Len(pass')
          PROVE  /\ j + 1 \in 1..Len(pass) /\ pass'[j] = pass[j + 1]
                 /\ pass'[j] # e /\ fired'[pass'[j]] = 0
                 /\ pass'[j] \in Queue!Queued' \/ pass'[j] \in stopped'
      <4>1. j + 1 \in 1..Len(pass) /\ 1 \in 1..Len(pass) /\ j + 1 # 1
        BY <1>3, <3>1
      <4>2. pass'[j] # e
        BY <1>3, <3>1, <4>1
      <4>3. /\ pass'[j] \in Queue!Queued \/ pass'[j] \in stopped
            /\ pass'[j] \in Queue!Effects /\ fired[pass'[j]] = 0
        BY <1>3, <3>1, <4>1
      <4>4. stopped \subseteq stopped'
        OBVIOUS
      <4>5. fired'[pass'[j]] = 0
        BY <4>2, <4>3
      <4> QED
        BY <1>14, <3>1, <4>1, <4>2, <4>3, <4>4, <4>5
    <3>4. PassOrder'
      <4> SUFFICES ASSUME NEW j \in 1..Len(pass'), NEW f \in before[pass'[j]], state'[f] # "finished"
                   PROVE  (\E i \in 1..(j - 1) : pass'[i] = f) \/ now < finishOn[f]
        BY <3>1 DEF PassOrder
      <4>1. pass'[j] = pass[j + 1] /\ j + 1 \in 1..Len(pass) /\ j + 1 \in DOMAIN pass
        BY <1>3, <3>3, SMTT(30)
      <4>2. pass[j + 1] \in Queue!Effects
        BY <1>3, <4>1
      <4>3. f \in Queue!Effects
        BY <4>1, <4>2 DEF QueueInv
      <4>4. f # e /\ state[f] # "finished"
        BY <1>5, <4>3
      <4>5. (\E i \in 1..((j + 1) - 1) : pass[i] = f) \/ now < finishOn[f]
        BY <4>1, <4>4 DEF QueueInv, PassOrder
      <4>6. ASSUME NEW i \in 1..((j + 1) - 1), pass[i] = f PROVE \E m \in 1..(j - 1) : pass'[m] = f
        <5>1. i # 1
          BY <3>1, <4>4, <4>6
        <5>2. i - 1 \in 1..(j - 1) /\ i - 1 \in 1..Len(pass') /\ (i - 1) + 1 = i
          BY <1>3, <3>1, <5>1
        <5>3. pass'[i - 1] = pass[i]
          BY <3>1, <5>2
        <5> QED
          BY <4>6, <5>2, <5>3
      <4> QED
        BY <4>5, <4>6
    <3> QED
      BY <3>1, <3>2, <3>3, <3>4 DEF StillToEnd
  <2>3. CASE pass' = pass /\ fired' = fired /\ e \in stopped'
    <3>0. DOMAIN pass' = 1..Len(pass) /\ pass' = pass /\ UNCHANGED <<now, finishOn, before>>
      BY <1>3, <2>3
    <3>1. Queue!IsInjective(pass)'
      BY <2>3 DEF QueueInv, Queue!IsInjective
    <3>2. StillToEnd'
      <4> SUFFICES ASSUME NEW j \in 1..Len(pass)
                   PROVE  /\ pass[j] \in Queue!Queued' \/ pass[j] \in stopped'
                          /\ fired[pass[j]] = 0
        BY <1>3, <2>3 DEF StillToEnd
      <4>1. stopped \subseteq stopped'
        OBVIOUS
      <4> QED
        BY <1>3, <1>14, <2>3, <4>1
    <3>3. PassOrder'
      <4> SUFFICES ASSUME NEW j \in DOMAIN pass', NEW f \in before'[pass'[j]], state'[f] # "finished"
                   PROVE  (\E i \in 1..(j - 1) : pass'[i] = f) \/ now' < finishOn'[f]
        BY DEF PassOrder
      <4>1. j \in 1..Len(pass) /\ pass[j] \in Queue!Effects /\ f \in before[pass[j]]
        BY <1>3, <3>0
      <4>2. f \in Queue!Effects
        BY <4>1 DEF QueueInv
      <4>3. state[f] # "finished"
        BY <1>5, <4>2
      <4>4. (\E i \in 1..(j - 1) : pass[i] = f) \/ now < finishOn[f]
        BY <1>3, <4>1, <4>3 DEF QueueInv, PassOrder
      <4> QED
        BY <3>0, <4>4
    <3> QED
      BY <3>1, <3>2, <3>3
  <2> QED
    BY <2>1, <2>2, <2>3
<1>22. DOMAIN before' = Queue!Effects'
  BY <1>4 DEF QueueInv
<1>23. \A j \in DOMAIN effects' : state'[effects'[j]] \in {"idle", "running"}
  BY <1>9, <1>15 DEF n
<1> QED
  BY <1>4, <1>17, <1>18, <1>19, <1>20, <1>21, <1>22, <1>23 DEF QueueInv

\* What is visited too early, or is finished already, is left as it is.
LEMMA LeaveKeeps ==
  ASSUME QueueInv, pass # << >>, pass' = Tail(pass),
         ~Queue!Over(pass[1]) \/ state[pass[1]] = "finished",
         UNCHANGED <<queueOptions, now, elapsed, effects, interval, state, startOn, finishOn,
                     frame, full, chain, fired, before, stopped>>
  PROVE  QueueInv'
<1>1. /\ pass \in Seq(Queue!Effects) /\ Len(pass) \in Nat /\ DOMAIN pass = 1..Len(pass)
      /\ \A i, j \in 1..Len(pass) : pass[i] = pass[j] => i = j
      /\ \A j \in 1..Len(pass) :
           /\ pass[j] \in Queue!Queued \/ pass[j] \in stopped
           /\ pass[j] \in Queue!Effects /\ fired[pass[j]] = 0
  BY QueueFacts
<1>2. pass # << >> /\ pass' = Tail(pass) /\ Len(pass) # 0
  BY <1>1
<1>3. UNCHANGED <<queueOptions, now, elapsed, effects, interval, state, startOn, finishOn,
                  frame, full, chain, fired, before, stopped>>
  OBVIOUS
<1>4. Queue!Effects' = Queue!Effects /\ Queue!Queued' = Queue!Queued
  BY <1>3 DEF Queue!Effects, Queue!Queued
<1>5. /\ pass' \in Seq(Queue!Effects) /\ DOMAIN pass' = 1..Len(pass')
      /\ Len(pass') = Len(pass) - 1
      /\ \A j \in 1..Len(pass') : pass'[j] = pass[j + 1]
  BY <1>1, <1>2
<1>6. 1 \in 1..Len(pass) /\ \A j \in 1..Len(pass') : j + 1 \in 1..Len(pass)
  BY <1>1, <1>2, <1>5
<1>7. now < finishOn[pass[1]] \/ state[pass[1]] = "finished"
  <2>1. /\ now \in Nat /\ startOn[pass[1]] \in Nat /\ finishOn[pass[1]] \in Nat
        /\ startOn[pass[1]] <= finishOn[pass[1]]
    BY <1>1, <1>6, QueueFacts DEF QueueInv, Queue!TypeOK
  <2> QED
    BY <1>2, <2>1 DEF Queue!Over, Queue!Due
<1>8. Queue!TypeOK'
  BY <1>3, <1>4, <1>5 DEF QueueInv, Queue!TypeOK
<1>9. Queue!IsInjective(pass)'
  <2> SUFFICES ASSUME NEW i \in 1..Len(pass'), NEW j \in 1..Len(pass'), pass'[i] = pass'[j]
               PROVE  i = j
    BY <1>5 DEF Queue!IsInjective
  <2>1. pass[i + 1] = pass[j + 1]
    BY <1>5
  <2>2. i + 1 = j + 1
    BY <1>1, <1>6, <2>1
  <2> QED
    BY <1>1, <1>5, <2>2
<1>10. PassOrder'
  <2> SUFFICES ASSUME NEW j \in DOMAIN pass', NEW f \in before'[pass'[j]], state'[f] # "finished"
               PROVE  (\E i \in 1..(j - 1) : pass'[i] = f) \/ now' < finishOn'[f]
    BY DEF PassOrder
  <2>0. /\ j \in 1..Len(pass') /\ f \in before[pass'[j]] /\ state[f] # "finished"
        /\ now' = now /\ finishOn' = finishOn
    BY <1>3, <1>5
  <2>1. pass'[j] = pass[j + 1] /\ j + 1 \in DOMAIN pass
    BY <1>1, <1>5, <1>6, <2>0
  <2>2. (\E i \in 1..((j + 1) - 1) : pass[i] = f) \/ now < finishOn[f]
    BY <2>0, <2>1 DEF QueueInv, PassOrder
  <2>3. ASSUME NEW i \in 1..((j + 1) - 1), pass[i] = f
        PROVE  (\E m \in 1..(j - 1) : pass'[m] = f) \/ now < finishOn[f]
    <3>1. CASE i = 1
      BY <1>3, <1>7, <2>3, <3>1
    <3>2. CASE i # 1
      <4>1. i - 1 \in 1..(j - 1) /\ i - 1 \in 1..Len(pass') /\ (i - 1) + 1 = i
        BY <1>1, <1>5, <2>0, <3>2
      <4>2. pass'[i - 1] = pass[i]
        BY <1>5, <4>1
      <4> QED
        BY <2>3, <4>1, <4>2
    <3> QED
      BY <3>1, <3>2
  <2> QED
    BY <2>0, <2>2, <2>3
<1>11. StillToEnd'
  BY <1>1, <1>3, <1>4, <1>5, <1>6 DEF StillToEnd
<1>12. QueueOrder' /\ Queue!TimerIffEffects'
  BY <1>3 DEF QueueInv, QueueOrder, Queue!TimerIffEffects
<1> QED
  BY <1>3, <1>4, <1>8, <1>9, <1>10, <1>11, <1>12 DEF QueueInv

\* An effect that is drawn and not at its end yet waited for nothing any more.
LEMMA DrawKeeps ==
  ASSUME QueueInv, Queue!Render, Queue!Updates(pass[1])
  PROVE  QueueInv'
<1>1. /\ pass \in Seq(Queue!Effects) /\ Len(pass) \in Nat /\ DOMAIN pass = 1..Len(pass)
      /\ \A i, j \in 1..Len(pass) : pass[i] = pass[j] => i = j
      /\ \A j \in 1..Len(pass) :
           /\ pass[j] \in Queue!Queued \/ pass[j] \in stopped
           /\ pass[j] \in Queue!Effects /\ fired[pass[j]] = 0
           /\ state[pass[j]] \in {"idle", "running"} => pass[j] \in Queue!Queued
  BY QueueFacts
<1>2. /\ effects \in Seq(Queue!Effects) /\ Len(effects) \in Nat /\ DOMAIN effects = 1..Len(effects)
      /\ \A f : f \in Queue!Queued <=> \E i \in 1..Len(effects) : effects[i] = f
      /\ \A j \in 1..Len(effects) : effects[j] \in Queue!Effects
  BY QueueFacts
<1> DEFINE e == pass[1]
<1>0. /\ state[e] # "finished" /\ ~(state[e] = "idle" /\ e \in queueOptions.hidden)
  BY DEF Queue!Updates
<1>3. /\ pass # << >> /\ pass' = Tail(pass) /\ Len(pass) # 0
      /\ Queue!Due(e) /\ now - startOn[e] > frame[e]
      /\ state' = [state EXCEPT ![e] = "running"] /\ full' = [full EXCEPT ![e] = FALSE]
      /\ frame' = [frame EXCEPT ![e] = now - startOn[e]]
  BY <1>0, <1>1 DEF Queue!Render, Queue!Visited
<1>4. UNCHANGED <<queueOptions, now, elapsed, effects, interval, startOn, finishOn,
                  chain, fired, before, stopped>>
  BY <1>0, <1>1 DEF Queue!Render, Queue!Visited
<1>5. Queue!Effects' = Queue!Effects /\ Queue!Queued' = Queue!Queued
  BY <1>4 DEF Queue!Effects, Queue!Queued
<1>6. /\ pass' \in Seq(Queue!Effects) /\ DOMAIN pass' = 1..Len(pass')
      /\ Len(pass') = Len(pass) - 1
      /\ \A j \in 1..Len(pass') : pass'[j] = pass[j + 1]
  BY <1>1, <1>3
<1>7. 1 \in 1..Len(pass) /\ \A j \in 1..Len(pass') : j + 1 \in 1..Len(pass)
  BY <1>1, <1>3, <1>6
<1>9. state[e] \in {"idle", "running"}
  BY DEF Queue!Updates
<1>8. e \in Queue!Effects /\ e \in Queue!Queued
  BY <1>1, <1>7, <1>9
<1>10. /\ state \in [Queue!Effects -> {"new", "idle", "running", "finished"}]
       /\ state' \in [Queue!Effects -> {"new", "idle", "running", "finished"}]
       /\ \A f \in Queue!Effects : state'[f] = IF f = e THEN "running" ELSE state[f]
  BY <1>3, <1>8 DEF QueueInv, Queue!TypeOK
<1>11. /\ now \in Nat /\ startOn \in [Queue!Effects -> Nat] /\ finishOn \in [Queue!Effects -> Nat]
       /\ now \in 0..queueOptions.time /\ queueOptions.time \in Nat
       /\ frame \in [Queue!Effects -> 0..queueOptions.time]
  BY QueueFacts, QueueAssumed DEF QueueInv, Queue!TypeOK
<1> HIDE DEF e
<1>12. Queue!TypeOK'
  <2>1. now - startOn[e] \in 0..queueOptions.time
    <3>1. startOn[e] \in Nat /\ now >= startOn[e]
      BY <1>3, <1>8, <1>11 DEF Queue!Due
    <3> QED
      BY <1>11, <3>1
  <2>2. frame' \in [Queue!Effects -> 0..queueOptions.time]
    BY <1>3, <1>11, <2>1
  <2>3. full' \in [Queue!Effects -> BOOLEAN]
    BY <1>3 DEF QueueInv, Queue!TypeOK
  <2> QED
    BY <1>4, <1>5, <1>6, <1>10, <2>2, <2>3 DEF QueueInv, Queue!TypeOK
<1>13. \A f \in before[e] : state[f] = "finished"
  <2> SUFFICES ASSUME NEW f \in before[e], state[f] # "finished" PROVE FALSE
    OBVIOUS
  <2>1. f \in Queue!Effects
    BY <1>8 DEF QueueInv
  <2>2. now < finishOn[f]
    <3>1. (\E i \in 1..(1 - 1) : pass[i] = f) \/ now < finishOn[f]
      BY <1>1, <1>7 DEF QueueInv, PassOrder, e
    <3> QED
      BY <3>1
  <2>3. finishOn[f] <= startOn[e]
    <3>1. PICK j \in 1..Len(effects) : effects[j] = e
      BY <1>2, <1>8
    <3> QED
      BY <1>2, <3>1 DEF QueueInv, QueueOrder
  <2>4. now >= startOn[e]
    BY <1>3 DEF Queue!Due
  <2>5. finishOn[f] \in Nat /\ startOn[e] \in Nat
    BY <1>8, <1>11, <2>1
  <2> QED
    BY <1>11, <2>2, <2>3, <2>4, <2>5
<1>14. QueueOrder'
  <2> SUFFICES ASSUME NEW j \in DOMAIN effects, NEW f \in before[effects[j]], state'[f] # "finished"
               PROVE  /\ state'[effects[j]] = "idle"
                      /\ \E i \in 1..(j - 1) : effects[i] = f
                      /\ finishOn[f] <= startOn[effects[j]]
    BY <1>4 DEF QueueOrder
  <2>1. f \in Queue!Effects /\ effects[j] \in Queue!Effects
    BY <1>2 DEF QueueInv
  <2>2. state[f] # "finished"
    BY <1>9, <1>10, <2>1
  <2>3. /\ state[effects[j]] = "idle"
        /\ \E i \in 1..(j - 1) : effects[i] = f
        /\ finishOn[f] <= startOn[effects[j]]
    BY <2>2 DEF QueueInv, QueueOrder
  <2>4. effects[j] # e
    BY <1>13, <2>2
  <2>5. state'[effects[j]] = "idle"
    BY <1>10, <2>1, <2>3, <2>4
  <2> QED
    BY <2>3, <2>5
<1>15. Queue!IsInjective(pass)'
  <2> SUFFICES ASSUME NEW i \in 1..Len(pass'), NEW j \in 1..Len(pass'), pass'[i] = pass'[j]
               PROVE  i = j
    BY <1>6 DEF Queue!IsInjective
  <2>1. pass[i + 1] = pass[j + 1]
    BY <1>6
  <2>2. i + 1 = j + 1
    BY <1>1, <1>7, <2>1
  <2> QED
    BY <1>1, <1>6, <2>2
<1>16. PassOrder'
  <2> SUFFICES ASSUME NEW j \in 1..Len(pass'), NEW f \in before[pass'[j]], state'[f] # "finished"
               PROVE  (\E i \in 1..(j - 1) : pass'[i] = f) \/ now < finishOn[f]
    BY <1>4, <1>6 DEF PassOrder
  <2>1. pass'[j] = pass[j + 1] /\ j + 1 \in 1..Len(pass) /\ pass[j + 1] \in Queue!Effects
    BY <1>1, <1>6, <1>7
  <2>2. f \in Queue!Effects
    BY <2>1 DEF QueueInv
  <2>3. state[f] # "finished"
    BY <1>9, <1>10, <2>2
  <2>4. f # e \/ now < finishOn[f]
    \* What is visited is not over.
    <3>1. ~Queue!Over(e)
      BY <1>1 DEF Queue!Render, Queue!Visited, e
    <3>2. finishOn[e] \in Nat
      BY <1>8, <1>11
    <3>3. now < finishOn[e]
      BY <1>3, <1>11, <3>1, <3>2 DEF Queue!Over
    <3> QED
      BY <3>3
  <2>5. (\E i \in 1..((j + 1) - 1) : pass[i] = f) \/ now < finishOn[f]
    BY <1>1, <2>1, <2>3 DEF QueueInv, PassOrder
  <2>6. ASSUME NEW i \in 1..((j + 1) - 1), pass[i] = f, f # e PROVE \E m \in 1..(j - 1) : pass'[m] = f
    <3>1. i # 1
      BY <2>6 DEF e
    <3>2. i - 1 \in 1..(j - 1) /\ i - 1 \in 1..Len(pass') /\ (i - 1) + 1 = i
      BY <1>1, <1>6, <3>1
    <3>3. pass'[i - 1] = pass[i]
      BY <1>6, <3>2
    <3> QED
      BY <2>6, <3>2, <3>3
  <2> QED
    BY <2>4, <2>5, <2>6
<1>17. StillToEnd'
  BY <1>1, <1>4, <1>5, <1>6, <1>7 DEF StillToEnd
<1>18. ASSUME NEW f \in Queue!Effects
       PROVE  /\ state'[f] = "running" => f \in Queue!Queued
              /\ state'[f] \in {"new", "idle"} => frame'[f] = 0
              /\ fired[f] > 0 => state'[f] = "finished" /\ (full'[f] \/ f \in stopped)
              /\ f \in stopped => state'[f] = "finished"
              /\ before[f] \subseteq Queue!Effects
              /\ \A x \in before[f] : state'[x] # "new"
  <2>1. /\ state[f] = "running" => f \in Queue!Queued
        /\ state[f] \in {"new", "idle"} => frame[f] = 0
        /\ fired[f] > 0 => state[f] = "finished" /\ (full[f] \/ f \in stopped)
        /\ f \in stopped => state[f] = "finished"
        /\ before[f] \subseteq Queue!Effects
        /\ \A x \in before[f] : state[x] # "new"
    BY DEF QueueInv
  <2>2. \A x \in before[f] : state'[x] # "new"
    BY <1>10, <2>1
  <2>3. fired[e] > 0 => state[e] = "finished"
    BY <1>8 DEF QueueInv
  <2>4. f # e => full'[f] = full[f] /\ state'[f] = state[f] /\ frame'[f] = frame[f]
    BY <1>3, <1>10 DEF QueueInv, Queue!TypeOK
  <2>5. state'[e] = "running"
    BY <1>8, <1>10
  <2> QED
    BY <1>8, <1>9, <2>1, <2>2, <2>3, <2>4, <2>5
<1>19. /\ Queue!TimerIffEffects'
       /\ DOMAIN before' = Queue!Effects'
       /\ \A j \in DOMAIN effects' : state'[effects'[j]] \in {"idle", "running"}
  BY <1>2, <1>4, <1>5, <1>10 DEF QueueInv, Queue!TimerIffEffects
<1> QED
  BY <1>4, <1>5, <1>12, <1>14, <1>15, <1>16, <1>17, <1>18, <1>19 DEF QueueInv

LEMMA QueueSteps == QueueInv /\ [Queue!Next]_queueVars => QueueInv'
<1> SUFFICES ASSUME QueueInv, [Queue!Next]_queueVars PROVE QueueInv'
  OBVIOUS
<1>1. /\ queueOptions \in QueueOptions /\ chain \subseteq Queue!Effects
      /\ frame \in [Queue!Effects -> 0..queueOptions.time]
      /\ full \in [Queue!Effects -> BOOLEAN] /\ fired \in [Queue!Effects -> 0..1]
      /\ state \in [Queue!Effects -> {"new", "idle", "running", "finished"}]
  BY DEF QueueInv, Queue!TypeOK
<1>2. /\ pass \in Seq(Queue!Effects) /\ Len(pass) \in Nat /\ DOMAIN pass = 1..Len(pass)
      /\ \A j \in 1..Len(pass) :
           /\ pass[j] \in Queue!Queued \/ pass[j] \in stopped
           /\ pass[j] \in Queue!Effects /\ state[pass[j]] # "new" /\ fired[pass[j]] = 0
  BY QueueFacts
<1>3. pass # << >> => /\ pass[1] \in Queue!Effects /\ Queue!Visited = pass[1] /\ Head(pass) = pass[1]
                      /\ state[pass[1]] # "new" /\ fired[pass[1]] = 0
                      /\ pass[1] \in Queue!Queued \/ pass[1] \in stopped
  <2> SUFFICES ASSUME pass # << >>
               PROVE  /\ pass[1] \in Queue!Effects /\ Head(pass) = pass[1]
                      /\ state[pass[1]] # "new" /\ fired[pass[1]] = 0
                      /\ pass[1] \in Queue!Queued \/ pass[1] \in stopped
    BY DEF Queue!Visited
  <2>1. 1 \in 1..Len(pass)
    BY <1>2
  <2> QED
    BY <1>2, <2>1
<1>4. CASE Queue!Add
  <2>1. PICK e \in Queue!Effects, position \in Queue!Positions, duration \in queueOptions.durations,
             delay \in queueOptions.delays, limit \in queueOptions.limits :
               Queue!Start(e, position, duration, delay, limit)
    BY <1>4 DEF Queue!Add
  <2>2. duration \in Nat /\ delay \in Nat /\ limit \in Nat
    BY <1>1, QueueAssumed
  <2>3. UNCHANGED <<queueOptions, now, elapsed, frame, full, pass, chain, fired, stopped>>
    BY <1>4 DEF Queue!Add
  <2> QED
    BY <2>1, <2>2, <2>3, StartKeeps
<1>5. CASE Queue!AfterFinish
  <2>1. /\ chain' = {}
        /\ UNCHANGED <<queueOptions, now, elapsed, effects, interval, state, startOn, finishOn,
                       frame, full, pass, fired, before, stopped>>
    BY <1>5 DEF Queue!AfterFinish
  <2>2. Queue!TypeOK'
    BY <2>1 DEF QueueInv, Queue!TypeOK, Queue!Effects
  <2> QED
    BY <2>1, <2>2
    DEF QueueInv, Queue!Effects, Queue!Queued, QueueOrder, PassOrder, StillToEnd,
        Queue!TimerIffEffects
<1>6. CASE Queue!Tick
  <2>1. /\ pass = << >> /\ now < queueOptions.time /\ elapsed < MaxLate
        /\ now' = now + 1 /\ elapsed' \in {elapsed + 1, 0}
        /\ UNCHANGED <<queueOptions, effects, interval, state, startOn, finishOn, frame, full,
                       pass, chain, fired, before, stopped>>
    BY <1>6 DEF Queue!Tick
  <2>2. now \in 0..queueOptions.time /\ elapsed \in 0..MaxLate
        /\ queueOptions.time \in Nat /\ MaxLate \in Nat
    BY <1>1, QueueAssumed DEF QueueInv, Queue!TypeOK
  <2>3. now' \in 0..queueOptions'.time /\ elapsed' \in 0..MaxLate
    BY <2>1, <2>2
  <2>4. Queue!TypeOK'
    BY <2>1, <2>3 DEF QueueInv, Queue!TypeOK, Queue!Effects
  <2>5. PassOrder' /\ StillToEnd'
    BY <2>1 DEF PassOrder, StillToEnd
  <2> QED
    BY <2>1, <2>4, <2>5
    DEF QueueInv, Queue!Effects, Queue!Queued, QueueOrder, Queue!TimerIffEffects
<1>7. CASE Queue!Loop
  <2>1. /\ pass' = effects /\ elapsed' = 0
        /\ UNCHANGED <<queueOptions, now, effects, interval, state, startOn, finishOn, frame, full,
                       chain, fired, before, stopped>>
    BY <1>7 DEF Queue!Loop
  <2>2. MaxLate \in Nat
    BY <1>1, QueueAssumed
  <2>3. Queue!TypeOK'
    BY <2>1, <2>2 DEF QueueInv, Queue!TypeOK, Queue!Effects
  <2>4. Queue!IsInjective(pass)'
    BY <2>1 DEF QueueInv, Queue!TypeOK, Queue!IsInjective
  <2>6. StillToEnd'
    <3> SUFFICES ASSUME NEW j \in DOMAIN effects
                 PROVE  effects[j] \in Queue!Queued /\ fired[effects[j]] = 0
      BY <2>1 DEF StillToEnd, Queue!Queued
    <3>1. effects[j] \in Queue!Queued /\ effects[j] \in Queue!Effects
      BY QueueFacts
    <3>2. state[effects[j]] # "finished"
      BY <3>1, QueueFacts
    <3>3. ~(fired[effects[j]] > 0) /\ fired[effects[j]] \in 0..1
      BY <1>1, <3>1, <3>2 DEF QueueInv
    <3> QED
      BY <3>1, <3>3
  <2>5. PassOrder'
    BY <2>1 DEF QueueInv, QueueOrder, PassOrder
  <2> QED
    BY <2>1, <2>3, <2>4, <2>5, <2>6
    DEF QueueInv, Queue!Effects, Queue!Queued, QueueOrder, Queue!TimerIffEffects
<1>8. CASE Queue!Wait
  <2>1. /\ pass # << >> /\ pass' = Tail(pass) /\ ~Queue!Over(pass[1])
        /\ UNCHANGED <<queueOptions, now, elapsed, effects, interval, state, startOn, finishOn,
                       frame, full, chain, fired, before, stopped>>
    BY <1>3, <1>8 DEF Queue!Wait
  <2> QED
    BY <2>1, LeaveKeeps
<1>9. CASE Queue!Render
  <2>1. CASE Queue!Updates(pass[1])
    BY <1>9, <2>1, DrawKeeps
  <2>2. CASE state[pass[1]] = "idle" /\ pass[1] \in queueOptions.hidden
    <3> DEFINE e == pass[1]
    <3>1. /\ pass # << >> /\ Head(pass) = e /\ pass' = Tail(pass) /\ e \in Queue!Effects
          /\ state' = [state EXCEPT ![e] = "finished"] /\ Queue!RemoveFromQueue(e)
      BY <1>3, <1>9, <2>2 DEF Queue!Render, Queue!Updates
    <3>2. UNCHANGED <<queueOptions, now, elapsed, startOn, finishOn, frame, full, chain, fired,
                      before, stopped>>
      BY <1>3, <1>9, <2>2 DEF Queue!Render, Queue!Updates
    <3>3. fired'[e] = 0
      BY <1>3, <3>1, <3>2
    <3>4. fired'[e] > 0 => full'[e] \/ e \in stopped'
      BY <3>3
    <3> HIDE DEF e
    <3> QED
      BY <1>1, <3>1, <3>2, <3>4, RemovalKeeps
  <2>3. CASE ~Queue!Updates(pass[1]) /\ ~(state[pass[1]] = "idle" /\ pass[1] \in queueOptions.hidden)
    <3>1. /\ pass # << >> /\ pass' = Tail(pass) /\ state[pass[1]] = "finished"
          /\ UNCHANGED <<queueOptions, now, elapsed, effects, interval, state, startOn, finishOn,
                         frame, full, chain, fired, before, stopped>>
      BY <1>3, <1>9, <2>3 DEF Queue!Render
    <3> QED
      BY <3>1, LeaveKeeps
  <2> QED
    BY <2>1, <2>2, <2>3
<1>10. CASE Queue!Finish
  <2> DEFINE e == pass[1]
  <2>1. /\ pass # << >> /\ Head(pass) = e /\ e \in Queue!Effects /\ Queue!Over(e)
        /\ state' = [state EXCEPT ![e] = "finished"] /\ Queue!RemoveFromQueue(e)
        /\ full' = IF Queue!Updates(e) THEN [full EXCEPT ![e] = Queue!DrawnInFull(e)] ELSE full
        /\ UNCHANGED <<queueOptions, now, elapsed, startOn, finishOn, frame, before, stopped>>
    BY <1>3, <1>10 DEF Queue!Finish
  <2>2. Queue!DrawnInFull(e) = TRUE
    BY <2>1 DEF Queue!Over, Queue!DrawnInFull
  <2>3. /\ full' \in [Queue!Effects -> BOOLEAN]
        /\ \A f \in Queue!Effects : f # e => full'[f] = full[f]
        /\ Queue!Updates(e) => full'[e]
    BY <1>1, <2>1, <2>2
  <2>4. CASE Queue!Throws(e)
    <3>1. pass' = << >> /\ UNCHANGED <<fired, chain>>
      BY <1>3, <1>10, <2>4 DEF Queue!Finish
    <3>2. fired'[e] = 0
      BY <1>3, <2>1, <3>1
    <3>3. fired'[e] > 0 => full'[e] \/ e \in stopped'
      BY <3>2
    <3> HIDE DEF e
    <3> QED
      BY <1>1, <2>1, <2>3, <3>1, <3>3, RemovalKeeps
  <2>5. CASE ~Queue!Throws(e)
    <3>1. pass' = Tail(pass) /\ fired' = [fired EXCEPT ![e] = @ + 1] /\ chain' = {e}
      BY <1>3, <1>10, <2>5 DEF Queue!Finish
    <3>2. fired[e] = 0
      BY <1>3, <2>1
    <3>3. /\ fired' \in [Queue!Effects -> 0..1]
          /\ \A f \in Queue!Effects : f # e => fired'[f] = fired[f]
      BY <1>1, <2>1, <3>1, <3>2
    <3>4. ASSUME ~Queue!Updates(e) PROVE e \in stopped'
      <4>1. state[e] \in {"idle", "running", "finished"}
        BY <1>1, <1>3, <2>1
      <4>2. CASE state[e] = "finished"
        <5>1. e \notin Queue!Queued
          BY <4>2, QueueFacts
        <5> QED
          BY <1>3, <2>1, <5>1
      <4>3. CASE state[e] # "finished"
        \* Only the setup of a hidden Highlight draws nothing, and its finish throws.
        <5>1. state[e] = "idle" /\ e \in queueOptions.hidden
          BY <3>4, <4>1, <4>3 DEF Queue!Updates
        <5>2. e \in queueOptions.highlights
          BY <1>1, <5>1, MotionAssumption DEF Queue!EffectQueueAssumption
        <5>3. frame[e] = 0
          BY <2>1, <5>1 DEF QueueInv
        <5> QED
          BY <2>5, <3>4, <5>2, <5>3 DEF Queue!Throws
      <4> QED
        BY <4>2, <4>3
    <3>5. fired'[e] > 0 => full'[e] \/ e \in stopped'
      BY <2>3, <3>4
    <3>6. chain' \subseteq Queue!Effects
      BY <2>1, <3>1
    <3> HIDE DEF e
    <3> QED
      BY <1>1, <2>1, <2>3, <3>1, <3>3, <3>5, <3>6, RemovalKeeps
  <2> QED
    BY <2>4, <2>5
<1>11. CASE Queue!Cancel
  <2>1. PICK e \in Queue!Effects :
          /\ state' = [state EXCEPT ![e] = "finished"] /\ Queue!RemoveFromQueue(e)
          /\ stopped' = stopped \cup {e}
    BY <1>11 DEF Queue!Cancel
  <2>2. UNCHANGED <<queueOptions, now, elapsed, startOn, finishOn, frame, full, pass, chain,
                    fired, before>>
    BY <1>11 DEF Queue!Cancel
  <2> QED
    BY <1>1, <2>1, <2>2, RemovalKeeps
<1>12. CASE UNCHANGED queueVars
  <2>1. Queue!TypeOK'
    BY <1>12 DEF queueVars, QueueInv, Queue!TypeOK, Queue!Effects
  <2> QED
    BY <1>12, <2>1
    DEF queueVars, QueueInv, Queue!Effects, Queue!Queued, QueueOrder, PassOrder, StillToEnd,
        Queue!TimerIffEffects
<1> QED
  BY <1>4, <1>5, <1>6, <1>7, <1>8, <1>9, <1>10, <1>11, <1>12 DEF Queue!Next

-----------------------------------------------------------------------------
(* The style of an element. *)

Styles ==
  [shown : BOOLEAN, position : {"static", "relative", "absolute"},
   overflow : {"visible", "hidden"}, height : {"own", "mid"}, top : {"own", "mid"},
   opacity : {"full", "mid", "zero"}, bottom : {"own", "child", "mid"},
   childPosition : {"static", "relative"}, childBottom : {"own", "mid"},
   madePositioned : BOOLEAN, madeClipping : {"none", "visible", "hidden"}, madeChild : BOOLEAN]

Keeping == [opacity : {"full", "mid", "zero"}, top : {"own", "mid"}, height : {"own", "mid"},
            position : {"static", "relative", "absolute"}, childBottom : {"own", "mid"}]

\* The kinds whose end undoes the clipping, and the positioning.
Clippers == {"BlindUp", "BlindDown", "SwitchOff", "SlideDown", "SlideUp", "Squish", "Grow",
             "Shrink", "Fold"}
Positioners == {"SwitchOff", "DropOut", "Shake", "SlideDown", "SlideUp", "Grow", "Shrink"}

\* What undoing brings back is what the page gave the element.
Undoable(s) ==
  /\ \/ s.madeClipping = "none" /\ s.overflow = own.overflow
     \/ s.madeClipping = own.overflow /\ s.overflow = "hidden"
  /\ \/ ~s.madePositioned /\ s.position \in {own.position, "absolute"}
     \/ s.madePositioned /\ s.position = "relative" /\ own.position = "static"
  /\ \/ ~s.madeChild /\ s.childPosition = own.childPosition
     \/ s.madeChild /\ s.childPosition = "relative" /\ own.childPosition = "static"

\* What an effect of this kind makes its end undoes.
MadeBy(s, n, kind) ==
  /\ n.madeClipping # "none" => s.madeClipping # "none" \/ kind \in Clippers
  /\ n.madePositioned => s.madePositioned \/ kind \in Positioners
  /\ n.madeChild => s.madeChild \/ kind \in Style!Slides

UndoneBy(s, n, kind) ==
  /\ n.madeClipping # "none" => s.madeClipping # "none" /\ kind \notin Clippers
  /\ n.madePositioned => s.madePositioned /\ kind \notin Positioners
  /\ n.madeChild => s.madeChild /\ kind \notin Style!Slides

LEMMA StyleOf ==
  ASSUME NEW s \in Styles
  PROVE  /\ s.shown \in BOOLEAN /\ s.position \in {"static", "relative", "absolute"}
         /\ s.overflow \in {"visible", "hidden"} /\ s.height \in {"own", "mid"}
         /\ s.top \in {"own", "mid"} /\ s.opacity \in {"full", "mid", "zero"}
         /\ s.bottom \in {"own", "child", "mid"} /\ s.childPosition \in {"static", "relative"}
         /\ s.childBottom \in {"own", "mid"} /\ s.madePositioned \in BOOLEAN
         /\ s.madeClipping \in {"none", "visible", "hidden"} /\ s.madeChild \in BOOLEAN
BY DEF Styles

\* A bottom that has changed is the page's again.
Calm(s, n) ==
  n.bottom \in {s.bottom, "own"} /\ n.childBottom \in {s.childBottom, "own"}

\* Nothing but what can be undone, the place and whether it is shown has changed.
Alike(s, n) ==
  /\ n \in Styles /\ (Undoable(s) => Undoable(n)) /\ Calm(s, n)
  /\ n.height = s.height /\ n.opacity = s.opacity
  /\ n.position = "absolute" => s.position = "absolute"

\* The methods of elements that the effects call.
LEMMA Shown ==
  ASSUME NEW s \in Styles, NEW n, n = Style!Show(s)
  PROVE  /\ Alike(s, n) /\ n.shown = TRUE /\ n.top = s.top
         /\ n.madeClipping = s.madeClipping /\ n.madePositioned = s.madePositioned
         /\ n.madeChild = s.madeChild
<1>1. n = [s EXCEPT !.shown = TRUE]
  BY DEF Style!Show
<1>2. n \in Styles
  BY <1>1 DEF Styles
<1>3. /\ n.shown = TRUE /\ n.height = s.height /\ n.top = s.top /\ n.opacity = s.opacity
      /\ n.position = s.position /\ n.overflow = s.overflow
      /\ n.childPosition = s.childPosition /\ n.madeClipping = s.madeClipping
      /\ n.madePositioned = s.madePositioned /\ n.madeChild = s.madeChild
      /\ n.bottom = s.bottom /\ n.childBottom = s.childBottom
  BY <1>1 DEF Styles
<1> QED
  BY <1>2, <1>3 DEF Alike, Calm, Undoable

LEMMA Hidden ==
  ASSUME NEW s \in Styles, NEW n, n = Style!Hide(s)
  PROVE  /\ Alike(s, n) /\ n.shown = FALSE /\ n.top = s.top
         /\ n.madeClipping = s.madeClipping /\ n.madePositioned = s.madePositioned
         /\ n.madeChild = s.madeChild
<1>1. n = [s EXCEPT !.shown = FALSE]
  BY DEF Style!Hide
<1>2. n \in Styles
  BY <1>1 DEF Styles
<1>3. /\ n.shown = FALSE /\ n.height = s.height /\ n.top = s.top /\ n.opacity = s.opacity
      /\ n.position = s.position /\ n.overflow = s.overflow
      /\ n.childPosition = s.childPosition /\ n.madeClipping = s.madeClipping
      /\ n.madePositioned = s.madePositioned /\ n.madeChild = s.madeChild
      /\ n.bottom = s.bottom /\ n.childBottom = s.childBottom
  BY <1>1 DEF Styles
<1> QED
  BY <1>2, <1>3 DEF Alike, Calm, Undoable

LEMMA ClippingMade ==
  ASSUME own \in Style!Original, NEW s \in Styles, NEW n, n = Style!MakeClipping(s)
  PROVE  /\ Alike(s, n) /\ n.shown = s.shown /\ n.top = s.top
         /\ n.madeClipping # "none"
         /\ n.madePositioned = s.madePositioned /\ n.madeChild = s.madeChild
<1>1. CASE s.madeClipping = "none"
  <2>1. n = [s EXCEPT !.madeClipping = s.overflow, !.overflow = "hidden"]
    BY <1>1 DEF Style!MakeClipping
  <2>2. n \in Styles
    <3> DEFINE v == s.overflow
               m == [s EXCEPT !.madeClipping = v]
    <3>1. v \in {"visible", "hidden"}
      BY StyleOf
    <3>2. n = [m EXCEPT !.overflow = "hidden"]
      BY <2>1 DEF Styles
    <3> HIDE DEF v
    <3>3. m \in Styles
      BY <3>1 DEF Styles
    <3> HIDE DEF m
    <3> QED
      BY <3>2, <3>3 DEF Styles
  <2>3. /\ n.madeClipping = s.overflow /\ n.overflow = "hidden" /\ n.top = s.top
        /\ n.height = s.height /\ n.opacity = s.opacity /\ n.shown = s.shown
        /\ n.position = s.position /\ n.childPosition = s.childPosition
        /\ n.madePositioned = s.madePositioned /\ n.madeChild = s.madeChild
        /\ n.bottom = s.bottom /\ n.childBottom = s.childBottom
    BY <2>1 DEF Styles
  <2>4. Undoable(s) => Undoable(n)
    BY <1>1, <2>3, StyleOf DEF Undoable, Style!Original
  <2> QED
    BY <1>1, <2>2, <2>3, <2>4, StyleOf DEF Alike, Calm
<1>2. CASE s.madeClipping # "none"
  BY <1>2, StyleOf DEF Style!MakeClipping, Alike, Calm
<1> QED
  BY <1>1, <1>2, StyleOf

LEMMA ClippingUndone ==
  ASSUME own \in Style!Original, NEW s \in Styles, NEW n, n = Style!UndoClipping(s)
  PROVE  /\ Alike(s, n) /\ n.shown = s.shown /\ n.top = s.top
         /\ n.madeClipping = "none"
         /\ n.madePositioned = s.madePositioned /\ n.madeChild = s.madeChild
<1>1. CASE s.madeClipping # "none"
  <2>1. n = [s EXCEPT !.overflow = s.madeClipping, !.madeClipping = "none"]
    BY <1>1 DEF Style!UndoClipping
  <2>2. n \in Styles
    <3>1. s.madeClipping \in {"visible", "hidden"}
      BY <1>1, StyleOf
    <3> QED
      BY <2>1, <3>1 DEF Styles
  <2>3. /\ n.madeClipping = "none" /\ n.overflow = s.madeClipping /\ n.top = s.top
        /\ n.height = s.height /\ n.opacity = s.opacity /\ n.shown = s.shown
        /\ n.position = s.position /\ n.childPosition = s.childPosition
        /\ n.madePositioned = s.madePositioned /\ n.madeChild = s.madeChild
        /\ n.bottom = s.bottom /\ n.childBottom = s.childBottom
    BY <2>1 DEF Styles
  <2>4. Undoable(s) => Undoable(n)
    BY <1>1, <2>3, StyleOf DEF Undoable, Style!Original
  <2> QED
    BY <1>1, <2>2, <2>3, <2>4, StyleOf DEF Alike, Calm
<1>2. CASE s.madeClipping = "none"
  BY <1>2, StyleOf DEF Style!UndoClipping, Alike, Calm
<1> QED
  BY <1>1, <1>2, StyleOf

LEMMA PositionMade ==
  ASSUME own \in Style!Original, NEW s \in Styles, NEW n, n = Style!MakePositioned(s)
  PROVE  /\ Alike(s, n) /\ n.shown = s.shown /\ n.top = s.top
         /\ s.madePositioned => n.madePositioned
         /\ n.madeClipping = s.madeClipping /\ n.madeChild = s.madeChild
<1>1. CASE s.position = "static"
  <2>1. n = [s EXCEPT !.position = "relative", !.madePositioned = TRUE]
    BY <1>1 DEF Style!MakePositioned
  <2>2. n \in Styles
    BY <2>1 DEF Styles
  <2>3. /\ n.position = "relative" /\ n.madePositioned = TRUE /\ n.top = s.top
        /\ n.height = s.height /\ n.opacity = s.opacity /\ n.shown = s.shown
        /\ n.overflow = s.overflow /\ n.childPosition = s.childPosition
        /\ n.madeClipping = s.madeClipping /\ n.madeChild = s.madeChild
        /\ n.bottom = s.bottom /\ n.childBottom = s.childBottom
    BY <2>1 DEF Styles
  <2>4. Undoable(s) => Undoable(n)
    BY <1>1, <2>3, StyleOf DEF Undoable, Style!Original
  <2> QED
    BY <1>1, <2>2, <2>3, <2>4, StyleOf DEF Alike, Calm
<1>2. CASE s.position # "static"
  BY <1>2, StyleOf DEF Style!MakePositioned, Alike, Calm
<1> QED
  BY <1>1, <1>2, StyleOf

LEMMA PositionUndone ==
  ASSUME own \in Style!Original, NEW s \in Styles, NEW n, n = Style!UndoPositioned(s)
  PROVE  /\ Alike(s, n) /\ n.shown = s.shown /\ n.top \in {s.top, "own"}
         /\ ~n.madePositioned
         /\ n.madeClipping = s.madeClipping /\ n.madeChild = s.madeChild
<1>1. CASE s.madePositioned
  <2>1. n = [s EXCEPT !.position = "static", !.madePositioned = FALSE,
                   !.top = "own", !.bottom = "own"]
    BY <1>1 DEF Style!UndoPositioned
  <2>2. n \in Styles
    BY <2>1 DEF Styles
  <2>3. /\ n.position = "static" /\ n.madePositioned = FALSE /\ n.top = "own"
        /\ n.height = s.height /\ n.opacity = s.opacity /\ n.shown = s.shown
        /\ n.overflow = s.overflow /\ n.childPosition = s.childPosition
        /\ n.madeClipping = s.madeClipping /\ n.madeChild = s.madeChild
        /\ n.bottom = "own" /\ n.childBottom = s.childBottom
    BY <2>1 DEF Styles
  <2>4. Undoable(s) => Undoable(n)
    BY <1>1, <2>3, StyleOf DEF Undoable, Style!Original
  <2> QED
    BY <1>1, <2>2, <2>3, <2>4, StyleOf DEF Alike, Calm
<1>2. CASE ~s.madePositioned
  BY <1>2, StyleOf DEF Style!UndoPositioned, Alike, Calm
<1> QED
  BY <1>1, <1>2, StyleOf

LEMMA ChildMade ==
  ASSUME own \in Style!Original, NEW s \in Styles, NEW n, n = Style!MakeChildPositioned(s)
  PROVE  /\ Alike(s, n) /\ n.shown = s.shown /\ n.top = s.top
         /\ s.madeChild => n.madeChild
         /\ s.childPosition = "static" => n.madeChild
         /\ n.madeClipping = s.madeClipping /\ n.madePositioned = s.madePositioned
<1>1. CASE s.childPosition = "static"
  <2>1. n = [s EXCEPT !.childPosition = "relative", !.madeChild = TRUE]
    BY <1>1 DEF Style!MakeChildPositioned
  <2>2. n \in Styles
    BY <2>1 DEF Styles
  <2>3. /\ n.childPosition = "relative" /\ n.madeChild = TRUE /\ n.top = s.top
        /\ n.height = s.height /\ n.opacity = s.opacity /\ n.shown = s.shown
        /\ n.overflow = s.overflow /\ n.position = s.position
        /\ n.madeClipping = s.madeClipping /\ n.madePositioned = s.madePositioned
        /\ n.bottom = s.bottom /\ n.childBottom = s.childBottom
    BY <2>1 DEF Styles
  <2>4. Undoable(s) => Undoable(n)
    BY <1>1, <2>3, StyleOf DEF Undoable, Style!Original
  <2> QED
    BY <1>1, <2>2, <2>3, <2>4, StyleOf DEF Alike, Calm
<1>2. CASE s.childPosition # "static"
  BY <1>2, StyleOf DEF Style!MakeChildPositioned, Alike, Calm
<1> QED
  BY <1>1, <1>2, StyleOf

LEMMA ChildUndone ==
  ASSUME own \in Style!Original, NEW s \in Styles, NEW n, n = Style!UndoChildPositioned(s)
  PROVE  /\ Alike(s, n) /\ n.shown = s.shown /\ n.top = s.top
         /\ ~n.madeChild
         /\ s.madeChild => n.childBottom = "own"
         /\ n.madeClipping = s.madeClipping /\ n.madePositioned = s.madePositioned
<1>1. CASE s.madeChild
  <2>1. n = [s EXCEPT !.childPosition = "static", !.madeChild = FALSE, !.childBottom = "own"]
    BY <1>1 DEF Style!UndoChildPositioned
  <2>2. n \in Styles
    BY <2>1 DEF Styles
  <2>3. /\ n.childPosition = "static" /\ n.madeChild = FALSE /\ n.top = s.top
        /\ n.height = s.height /\ n.opacity = s.opacity /\ n.shown = s.shown
        /\ n.overflow = s.overflow /\ n.position = s.position
        /\ n.madeClipping = s.madeClipping /\ n.madePositioned = s.madePositioned
        /\ n.bottom = s.bottom /\ n.childBottom = "own"
    BY <2>1 DEF Styles
  <2>4. Undoable(s) => Undoable(n)
    BY <1>1, <2>3, StyleOf DEF Undoable, Style!Original
  <2> QED
    BY <1>1, <2>2, <2>3, <2>4, StyleOf DEF Alike, Calm
<1>2. CASE ~s.madeChild
  BY <1>2, StyleOf DEF Style!UndoChildPositioned, Alike, Calm
<1> QED
  BY <1>1, <1>2, StyleOf

\* Only the size, the place, the opacity and the bottoms have changed.
Dressed(s, n) ==
  /\ n \in Styles /\ n.shown = s.shown /\ n.position = s.position /\ n.overflow = s.overflow
  /\ n.childPosition = s.childPosition /\ n.madeClipping = s.madeClipping
  /\ n.madePositioned = s.madePositioned /\ n.madeChild = s.madeChild

LEMMA DressedIsUndoable ==
  ASSUME NEW s, NEW n, Dressed(s, n), Undoable(s)
  PROVE  Undoable(n)
BY DEF Dressed, Undoable

LEMMA OpacityPut ==
  ASSUME NEW s \in Styles, NEW v \in {"full", "mid", "zero"}, NEW n, n = [s EXCEPT !.opacity = v]
  PROVE  /\ Dressed(s, n) /\ Calm(s, n)
         /\ n.opacity = v /\ n.height = s.height /\ n.top = s.top
<1>1. n \in Styles
  BY StyleOf DEF Styles
<1>2. /\ n.shown = s.shown /\ n.position = s.position /\ n.overflow = s.overflow
      /\ n.childPosition = s.childPosition /\ n.madeClipping = s.madeClipping
      /\ n.madePositioned = s.madePositioned /\ n.madeChild = s.madeChild
      /\ n.opacity = v /\ n.height = s.height /\ n.top = s.top
      /\ n.bottom = s.bottom /\ n.childBottom = s.childBottom
  BY DEF Styles
<1> QED
  BY <1>1, <1>2 DEF Dressed, Calm

LEMMA HeightPut ==
  ASSUME NEW s \in Styles, NEW v \in {"own", "mid"}, NEW n, n = [s EXCEPT !.height = v]
  PROVE  /\ Dressed(s, n) /\ Calm(s, n)
         /\ n.height = v /\ n.opacity = s.opacity /\ n.top = s.top
<1>1. n \in Styles
  BY StyleOf DEF Styles
<1>2. /\ n.shown = s.shown /\ n.position = s.position /\ n.overflow = s.overflow
      /\ n.childPosition = s.childPosition /\ n.madeClipping = s.madeClipping
      /\ n.madePositioned = s.madePositioned /\ n.madeChild = s.madeChild
      /\ n.height = v /\ n.opacity = s.opacity /\ n.top = s.top
      /\ n.bottom = s.bottom /\ n.childBottom = s.childBottom
  BY DEF Styles
<1> QED
  BY <1>1, <1>2 DEF Dressed, Calm

LEMMA TopPut ==
  ASSUME NEW s \in Styles, NEW v \in {"own", "mid"}, NEW n, n = [s EXCEPT !.top = v]
  PROVE  /\ Dressed(s, n) /\ Calm(s, n)
         /\ n.top = v /\ n.height = s.height /\ n.opacity = s.opacity
<1>1. n \in Styles
  BY StyleOf DEF Styles
<1>2. /\ n.shown = s.shown /\ n.position = s.position /\ n.overflow = s.overflow
      /\ n.childPosition = s.childPosition /\ n.madeClipping = s.madeClipping
      /\ n.madePositioned = s.madePositioned /\ n.madeChild = s.madeChild
      /\ n.top = v /\ n.height = s.height /\ n.opacity = s.opacity
      /\ n.bottom = s.bottom /\ n.childBottom = s.childBottom
  BY DEF Styles
<1> QED
  BY <1>1, <1>2 DEF Dressed, Calm

LEMMA BoxPut ==
  ASSUME NEW s \in Styles, NEW saved \in Keeping, NEW n, n = Style!PutBox(s, saved)
  PROVE  /\ Dressed(s, n) /\ Calm(s, n)
         /\ n.top = saved.top /\ n.height = saved.height /\ n.opacity = s.opacity
<1>1. n = [s EXCEPT !.top = saved.top, !.height = saved.height]
  BY DEF Style!PutBox
<1>2. n \in Styles
  BY <1>1 DEF Styles, Keeping
<1>3. /\ n.shown = s.shown /\ n.position = s.position /\ n.overflow = s.overflow
      /\ n.childPosition = s.childPosition /\ n.madeClipping = s.madeClipping
      /\ n.madePositioned = s.madePositioned /\ n.madeChild = s.madeChild
      /\ n.top = saved.top /\ n.height = saved.height /\ n.opacity = s.opacity
      /\ n.bottom = s.bottom /\ n.childBottom = s.childBottom
  BY <1>1 DEF Styles
<1> QED
  BY <1>2, <1>3 DEF Dressed, Calm

LEMMA BottomPut ==
  ASSUME NEW s \in Styles, NEW v \in {"own", "child", "mid"}, NEW n, n = [s EXCEPT !.bottom = v]
  PROVE  /\ Dressed(s, n)
         /\ n.top = s.top /\ n.height = s.height /\ n.opacity = s.opacity
         /\ n.childBottom = s.childBottom
<1>1. n \in Styles
  BY StyleOf DEF Styles
<1>2. /\ n.shown = s.shown /\ n.position = s.position /\ n.overflow = s.overflow
      /\ n.childPosition = s.childPosition /\ n.madeClipping = s.madeClipping
      /\ n.madePositioned = s.madePositioned /\ n.madeChild = s.madeChild
      /\ n.top = s.top /\ n.height = s.height /\ n.opacity = s.opacity
      /\ n.childBottom = s.childBottom
  BY DEF Styles
<1> QED
  BY <1>1, <1>2 DEF Dressed

LEMMA ChildBottomPut ==
  ASSUME NEW s \in Styles, NEW v \in {"own", "mid"}, NEW n, n = [s EXCEPT !.childBottom = v]
  PROVE  /\ Dressed(s, n)
         /\ n.top = s.top /\ n.height = s.height /\ n.opacity = s.opacity
         /\ n.bottom = s.bottom /\ n.childBottom = v
<1>1. n \in Styles
  BY StyleOf DEF Styles
<1>2. /\ n.shown = s.shown /\ n.position = s.position /\ n.overflow = s.overflow
      /\ n.childPosition = s.childPosition /\ n.madeClipping = s.madeClipping
      /\ n.madePositioned = s.madePositioned /\ n.madeChild = s.madeChild
      /\ n.top = s.top /\ n.height = s.height /\ n.opacity = s.opacity
      /\ n.bottom = s.bottom /\ n.childBottom = v
  BY DEF Styles
<1> QED
  BY <1>1, <1>2 DEF Dressed

\* Creating an effect makes only what its end undoes.
LEMMA CreatedKeeps ==
  ASSUME own \in Style!Original, NEW s \in Styles, NEW kind \in Style!AllKinds,
         NEW n, n = Style!Created(kind, s)
  PROVE  /\ Alike(s, n) /\ MadeBy(s, n, kind) /\ n.top = s.top
         /\ s.shown => n.shown
         /\ s.madeChild => n.madeChild
         /\ kind = "SlideUp" /\ Undoable(s) /\ own.childPosition = "static" => n.madeChild
         /\ s.madeClipping # "none" \/ kind \in {"BlindUp", "SlideUp"} => n.madeClipping # "none"
<1>1. CASE kind \in {"BlindUp", "Fold"}
  <2>1. n = Style!MakeClipping(s)
    BY <1>1 DEF Style!Created
  <2> QED
    BY <1>1, <2>1, ClippingMade DEF MadeBy, Clippers
<1>2. CASE kind = "SlideUp"
  <2>1. PICK a : a = Style!MakePositioned(s)
    OBVIOUS
  <2>2. PICK b : b = Style!MakeChildPositioned(a)
    OBVIOUS
  <2>3. PICK c : c = Style!MakeClipping(b)
    OBVIOUS
  <2>4. n = Style!Show(c)
    BY <1>2, <2>1, <2>2, <2>3 DEF Style!Created
  <2>5. Alike(s, a) /\ a.top = s.top /\ a.madeClipping = s.madeClipping /\ a.madeChild = s.madeChild
    BY <2>1, PositionMade
  <2>6. /\ Alike(a, b) /\ b.top = a.top /\ b.madeClipping = a.madeClipping
        /\ a.madeChild \/ a.childPosition = "static" => b.madeChild
    BY <2>2, <2>5, ChildMade DEF Alike
  <2>7. Alike(b, c) /\ c.top = b.top /\ c.madeClipping # "none" /\ c.madeChild = b.madeChild
    BY <2>3, <2>6, ClippingMade DEF Alike
  <2>8. /\ Alike(c, n) /\ n.top = c.top /\ n.madeClipping = c.madeClipping /\ n.shown
        /\ n.madeChild = c.madeChild
    BY <2>4, <2>7, Shown DEF Alike
  <2>9. s.madeChild => n.madeChild
    BY <2>5, <2>6, <2>7, <2>8
  <2>10. Undoable(s) /\ own.childPosition = "static" => n.madeChild
    <3>1. Undoable(s) => Undoable(a)
      BY <2>5 DEF Alike
    <3>2. Undoable(a) /\ own.childPosition = "static" => a.madeChild \/ a.childPosition = "static"
      BY DEF Undoable
    <3> QED
      BY <2>6, <2>7, <2>8, <3>1, <3>2
  <2>11. Alike(s, n)
    BY <2>5, <2>6, <2>7, <2>8 DEF Alike, Calm
  <2>12. MadeBy(s, n, kind) /\ n.top = s.top /\ n.madeClipping # "none" /\ n.shown
    BY <1>2, <2>5, <2>6, <2>7, <2>8 DEF MadeBy, Clippers, Positioners, Style!Slides
  <2> QED
    BY <1>2, <2>9, <2>10, <2>11, <2>12
<1>3. CASE kind = "Shrink"
  <2>1. PICK a : a = Style!MakePositioned(s)
    OBVIOUS
  <2>2. n = Style!MakeClipping(a)
    BY <1>3, <2>1 DEF Style!Created
  <2>3. Alike(s, a) /\ a.top = s.top /\ a.madeChild = s.madeChild /\ a.shown = s.shown
    BY <2>1, PositionMade
  <2>4. /\ Alike(a, n) /\ n.top = a.top /\ n.madeClipping # "none"
        /\ n.madeChild = a.madeChild /\ n.shown = a.shown
    BY <2>2, <2>3, ClippingMade DEF Alike
  <2> QED
    BY <1>3, <2>3, <2>4 DEF Alike, Calm, MadeBy, Clippers, Positioners
<1>4. CASE kind \notin {"BlindUp", "Fold", "SlideUp", "Shrink"}
  <2>1. n = s
    BY <1>4 DEF Style!Created
  <2> QED
    BY <1>4, <2>1 DEF MadeBy, Alike, Calm
<1> QED
  BY <1>1, <1>2, <1>3, <1>4

\* So does setting it up.  Only Puff leaves the flow of the page.
LEMMA SetUpKeeps ==
  ASSUME own \in Style!Original, NEW s \in Styles, NEW kind \in Style!AllKinds,
         NEW stage \in 1..2, kind = "Puff" => ~s.madePositioned,
         NEW n, n = Style!SetUp(kind, stage, s)
  PROVE  /\ n \in Styles /\ (Undoable(s) => Undoable(n)) /\ MadeBy(s, n, kind) /\ n.top = s.top
         /\ Calm(s, n) /\ (kind = "SlideUp" => n.madeChild = s.madeChild)
         /\ n.position = "absolute" => s.position = "absolute" \/ kind = "Puff"
         /\ n.height = s.height \/ Style!ScalesIn(kind, stage)
         /\ n.opacity = s.opacity \/ Style!FadesIn(kind, stage)
         /\ kind \in {"Appear", "BlindDown", "SlideDown"} => n.shown
         /\ s.madeClipping # "none" \/ kind \in {"BlindDown", "SlideDown"} => n.madeClipping # "none"
<1>1. CASE kind = "Appear" \/ (kind = "SwitchOff" /\ stage = 1)
  <2>1. PICK a : a = [s EXCEPT !.opacity = "mid"]
    OBVIOUS
  <2>2. n = Style!Show(a)
    BY <1>1, <2>1 DEF Style!SetUp
  <2>3. Dressed(s, a) /\ Calm(s, a) /\ a.top = s.top /\ a.height = s.height
    BY <2>1, OpacityPut
  <2>4. /\ Alike(a, n) /\ n.top = a.top /\ n.shown /\ n.madeClipping = a.madeClipping
        /\ n.madePositioned = a.madePositioned /\ n.madeChild = a.madeChild
    BY <2>2, <2>3, Shown DEF Dressed
  <2>5. Undoable(s) => Undoable(a)
    BY <2>3, DressedIsUndoable
  <2> QED
    BY <1>1, <2>3, <2>4, <2>5 DEF Dressed, Alike, Calm, MadeBy, Style!FadesIn, Style!Fades
<1>2. CASE kind = "SwitchOff" /\ stage = 2
  <2>1. PICK a : a = Style!MakePositioned(s)
    OBVIOUS
  <2>2. n = Style!MakeClipping(a)
    BY <1>2, <2>1 DEF Style!SetUp
  <2>3. Alike(s, a) /\ a.top = s.top /\ a.madeChild = s.madeChild
    BY <2>1, PositionMade
  <2>4. /\ Alike(a, n) /\ n.top = a.top /\ n.madeClipping # "none" /\ n.madeChild = a.madeChild
    BY <2>2, <2>3, ClippingMade DEF Alike
  <2> QED
    BY <1>2, <2>3, <2>4 DEF Alike, Calm, MadeBy, Clippers, Positioners
<1>3. CASE kind = "Puff"
  <2>1. n = [s EXCEPT !.position = "absolute"]
    BY <1>3 DEF Style!SetUp
  <2>2. n \in Styles
    BY <2>1 DEF Styles
  <2>3. /\ n.shown = s.shown /\ n.overflow = s.overflow /\ n.position = "absolute"
        /\ n.childPosition = s.childPosition /\ n.madeClipping = s.madeClipping
        /\ n.madePositioned = s.madePositioned /\ n.madeChild = s.madeChild
        /\ n.top = s.top /\ n.height = s.height /\ n.opacity = s.opacity
        /\ n.bottom = s.bottom /\ n.childBottom = s.childBottom
    BY <2>1 DEF Styles
  <2>4. Undoable(s) => Undoable(n)
    BY <1>3, <2>3 DEF Undoable
  <2> QED
    BY <1>3, <2>2, <2>3, <2>4 DEF MadeBy, Calm
<1>4. CASE kind \in {"BlindDown", "SlideDown"}
  <2>1. PICK a \in Styles : /\ n = Style!OpenBlind(a) /\ Alike(s, a) /\ a.top = s.top
                            /\ kind = "BlindDown" => a = s
    <3>1. CASE kind = "BlindDown"
      <4>1. n = Style!OpenBlind(s)
        BY <3>1 DEF Style!SetUp
      <4> QED
        BY <4>1 DEF Alike, Calm
    <3>2. CASE kind = "SlideDown"
      <4>1. PICK x : x = Style!MakePositioned(s)
        OBVIOUS
      <4>2. PICK y : y = Style!MakeChildPositioned(x)
        OBVIOUS
      <4>3. n = Style!OpenBlind(y)
        BY <3>2, <4>1, <4>2 DEF Style!SetUp, Style!OpenSlide
      <4>4. Alike(s, x) /\ x.top = s.top
        BY <4>1, PositionMade
      <4>5. Alike(x, y) /\ y.top = x.top
        BY <4>2, <4>4, ChildMade DEF Alike
      <4> QED
        BY <3>2, <4>3, <4>4, <4>5 DEF Alike, Calm
    <3> QED
      BY <1>4, <3>1, <3>2
  <2>2. PICK b : b = Style!MakeClipping(a)
    OBVIOUS
  <2>3. PICK c : c = [b EXCEPT !.height = "mid"]
    OBVIOUS
  <2>4. n = Style!Show(c)
    BY <2>1, <2>2, <2>3 DEF Style!OpenBlind
  <2>5. /\ Alike(a, b) /\ b.top = a.top /\ b.madeClipping # "none"
        /\ b.madePositioned = a.madePositioned /\ b.madeChild = a.madeChild
    BY <2>2, ClippingMade
  <2>6. Dressed(b, c) /\ Calm(b, c) /\ c.top = b.top /\ c.opacity = b.opacity /\ (Undoable(b) => Undoable(c))
    BY <2>3, <2>5, HeightPut, DressedIsUndoable DEF Alike
  <2>7. /\ Alike(c, n) /\ n.top = c.top /\ n.shown /\ n.madeClipping = c.madeClipping
        /\ n.madePositioned = c.madePositioned /\ n.madeChild = c.madeChild
    <3>1. c \in Styles
      BY <2>6 DEF Dressed
    <3> QED
      BY <2>4, <3>1, Shown
  <2>8. n.madeClipping # "none" /\ n.top = s.top /\ n.opacity = s.opacity /\ n.shown
    BY <2>1, <2>5, <2>6, <2>7 DEF Alike, Dressed
  <2>9. /\ n \in Styles /\ (Undoable(s) => Undoable(n)) /\ Calm(s, n)
        /\ n.position = "absolute" => s.position = "absolute"
    BY <2>1, <2>5, <2>6, <2>7 DEF Alike, Calm, Dressed
  <2>10. kind = "BlindDown" => n.madePositioned = s.madePositioned /\ n.madeChild = s.madeChild
    BY <2>1, <2>5, <2>6, <2>7 DEF Dressed
  <2>11. MadeBy(s, n, kind)
    BY <1>4, <2>10 DEF MadeBy, Clippers, Positioners, Style!Slides
  <2>12. Style!ScalesIn(kind, stage)
    BY <1>4 DEF Style!ScalesIn, Style!Scales
  <2> QED
    BY <1>4, <2>8, <2>9, <2>11, <2>12
<1>5. CASE kind \in {"DropOut", "Shake", "Shrink"}
  <2>1. n = Style!MakePositioned(s)
    BY <1>5 DEF Style!SetUp
  <2> QED
    BY <1>5, <2>1, PositionMade DEF Alike, MadeBy, Positioners
<1>6. CASE kind = "Squish"
  <2>1. n = Style!MakeClipping(s)
    BY <1>6 DEF Style!SetUp
  <2> QED
    BY <1>6, <2>1, ClippingMade DEF Alike, MadeBy, Clippers
<1>7. CASE kind = "Grow" /\ stage = 1
  <2>1. PICK a : a = Style!Hide(s)
    OBVIOUS
  <2>2. PICK b : b = Style!MakeClipping(a)
    OBVIOUS
  <2>3. n = Style!MakePositioned(b)
    BY <1>7, <2>1, <2>2 DEF Style!SetUp
  <2>4. Alike(s, a) /\ a.top = s.top /\ a.madeChild = s.madeChild
    BY <2>1, Hidden
  <2>5. Alike(a, b) /\ b.top = a.top /\ b.madeChild = a.madeChild /\ b.madeClipping # "none"
    BY <2>2, <2>4, ClippingMade DEF Alike
  <2>6. Alike(b, n) /\ n.top = b.top /\ n.madeChild = b.madeChild /\ n.madeClipping = b.madeClipping
    BY <2>3, <2>5, PositionMade DEF Alike
  <2> QED
    BY <1>7, <2>4, <2>5, <2>6 DEF Alike, Calm, MadeBy, Clippers, Positioners
<1>8. CASE kind = "Grow" /\ stage = 2
  <2>1. PICK a : a = [s EXCEPT !.height = "mid"]
    OBVIOUS
  <2>2. PICK b : b = Style!Show(a)
    OBVIOUS
  <2>6. n = Style!MakePositioned(b)
    BY <1>8, <2>1, <2>2 DEF Style!SetUp
  <2>3. Dressed(s, a) /\ Calm(s, a) /\ a.top = s.top /\ a.opacity = s.opacity
    BY <2>1, HeightPut
  <2>4. /\ Alike(a, b) /\ b.top = a.top /\ b.madeClipping = a.madeClipping
        /\ b.madePositioned = a.madePositioned /\ b.madeChild = a.madeChild
    BY <2>2, <2>3, Shown DEF Dressed
  <2>5. Undoable(s) => Undoable(a)
    BY <2>3, DressedIsUndoable
  <2>7. /\ Alike(b, n) /\ n.top = b.top /\ n.madeClipping = b.madeClipping
        /\ n.madeChild = b.madeChild
    BY <2>4, <2>6, PositionMade DEF Alike
  <2> QED
    BY <1>8, <2>3, <2>4, <2>5, <2>7
    DEF Dressed, Alike, Calm, MadeBy, Positioners, Style!ScalesIn
<1>9. CASE kind \notin {"Appear", "SwitchOff", "Puff", "BlindDown", "SlideDown", "DropOut",
                        "Shake", "Squish", "Grow", "Shrink"}
  <2>1. n = s
    BY <1>9 DEF Style!SetUp
  <2> QED
    BY <1>9, <2>1 DEF MadeBy, Calm
<1> QED
  BY <1>1, <1>2, <1>3, <1>4, <1>5, <1>6, <1>7, <1>8, <1>9

\* A frame draws what the stage moves, and nothing else.
LEMMA DrawnKeeps ==
  ASSUME NEW s \in Styles, NEW kind, NEW stage, NEW opacity \in {"full", "mid", "zero"},
         NEW n, n = Style!Drawn(kind, stage, s, opacity)
  PROVE  /\ Dressed(s, n)
         /\ n.opacity = IF Style!FadesIn(kind, stage) THEN opacity ELSE s.opacity
         /\ n.height = IF Style!ScalesIn(kind, stage) THEN "mid" ELSE s.height
         /\ n.top = s.top \/ Style!MovesIn(kind, stage) \/ kind = "Puff"
         /\ n.bottom = s.bottom /\ (n.childBottom = s.childBottom \/ kind \in Style!Slides)
<1> DEFINE o == IF Style!FadesIn(kind, stage) THEN opacity ELSE s.opacity
           h == IF Style!ScalesIn(kind, stage) THEN "mid" ELSE s.height
           t == IF Style!MovesIn(kind, stage) \/ (kind = "Puff" /\ s.position = "absolute")
                THEN "mid" ELSE s.top
           c == IF kind \in Style!Slides THEN "mid" ELSE s.childBottom
<1>1. n = [s EXCEPT !.opacity = o, !.height = h, !.top = t, !.childBottom = c]
  BY DEF Style!Drawn
<1>2. /\ o \in {"full", "mid", "zero"} /\ h \in {"own", "mid"} /\ t \in {"own", "mid"}
      /\ c \in {"own", "mid"}
  BY StyleOf
<1>3. /\ t = s.top \/ Style!MovesIn(kind, stage) \/ kind = "Puff"
      /\ c = s.childBottom \/ kind \in Style!Slides
  OBVIOUS
<1> HIDE DEF t, c
<1>4. n \in Styles
  <2> HIDE DEF o, h
  <2> DEFINE faded == [s EXCEPT !.opacity = o]
             scaled == [faded EXCEPT !.height = h]
             moved_ == [scaled EXCEPT !.top = t]
  <2>1. n = [moved_ EXCEPT !.childBottom = c]
    BY <1>1 DEF Styles
  <2>2. faded \in Styles
    BY <1>2 DEF Styles
  <2> HIDE DEF faded
  <2>3. scaled \in Styles
    BY <1>2, <2>2 DEF Styles
  <2> HIDE DEF scaled
  <2>4. moved_ \in Styles
    BY <1>2, <2>3 DEF Styles
  <2> HIDE DEF moved_
  <2> QED
    BY <1>2, <2>1, <2>4 DEF Styles
<1>5. /\ n.shown = s.shown /\ n.position = s.position /\ n.overflow = s.overflow
      /\ n.childPosition = s.childPosition /\ n.madeClipping = s.madeClipping
      /\ n.madePositioned = s.madePositioned /\ n.madeChild = s.madeChild
      /\ n.opacity = o /\ n.height = h /\ n.top = t
      /\ n.bottom = s.bottom /\ n.childBottom = c
  <2> HIDE DEF o, h
  <2> QED
    BY <1>1 DEF Styles
<1> QED
  BY <1>3, <1>4, <1>5 DEF Dressed

\* The end undoes what was made, and puts back what was kept.
FinishesWell(kind, s, n, saved) ==
  /\ n \in Styles /\ (Undoable(s) => Undoable(n)) /\ UndoneBy(s, n, kind)
  /\ n.position = "absolute" => s.position = "absolute" /\ kind # "Puff"
  /\ kind \in {"Fade", "BlindUp", "SlideUp"} => ~n.shown
  /\ kind \in {"Appear", "BlindDown", "SlideDown"} => n.shown = s.shown
  /\ n.height = IF kind \in {"Grow", "Shrink", "Fold"} THEN saved.height ELSE s.height
  /\ IF kind \in {"DropOut", "Shake", "Grow", "Shrink", "Fold"} THEN n.top = saved.top
     ELSE n.top \in {s.top, "own"}
  /\ n.opacity = IF kind \in {"Fade", "Puff", "SwitchOff", "DropOut", "Grow", "Shrink", "Pulsate"}
                 THEN saved.opacity ELSE s.opacity
  /\ kind # "SlideUp" => n.bottom \in {s.bottom, "own"}
  /\ IF kind = "SlideDown" THEN n.childBottom = saved.childBottom
     ELSE n.childBottom \in {s.childBottom, "own"}
  /\ kind = "SlideUp" /\ s.madeChild => n.childBottom = "own"

\* The end undoes what was made, and puts back what was kept.
LEMMA FinishedKeeps ==
  ASSUME own \in Style!Original, NEW s \in Styles, NEW kind \in Style!AllKinds,
         NEW saved \in Keeping,
         kind = "Puff" => saved.position = own.position /\ ~s.madePositioned,
         NEW n, n = Style!Finished(kind, s, saved)
  PROVE  FinishesWell(kind, s, n, saved)
<1>1. /\ saved.opacity \in {"full", "mid", "zero"} /\ saved.top \in {"own", "mid"}
      /\ saved.height \in {"own", "mid"} /\ saved.childBottom \in {"own", "mid"}
      /\ saved.position \in {"static", "relative", "absolute"}
  BY DEF Keeping
<1>2. CASE kind = "Fade"
  <2>1. PICK a : a = Style!Hide(s)
    OBVIOUS
  <2>2. n = Style!PutOpacity(a, saved)
    BY <1>2, <2>1 DEF Style!Finished, Style!FinishedFirst
  <2>3. /\ a \in Styles /\ (Undoable(s) => Undoable(a)) /\ Calm(s, a)
        /\ (a.position = "absolute" => s.position = "absolute") /\ a.shown = FALSE
        /\ a.madeClipping = s.madeClipping /\ a.madePositioned = s.madePositioned
        /\ a.madeChild = s.madeChild /\ a.top = s.top /\ a.height = s.height
        /\ a.opacity = s.opacity
    BY <2>1, Hidden DEF Alike
  <2>4. /\ n \in Styles /\ (Undoable(a) => Undoable(n)) /\ Calm(a, n)
        /\ (n.position = "absolute" => a.position = "absolute") /\ n.opacity = saved.opacity
        /\ n.madeClipping = a.madeClipping /\ n.madePositioned = a.madePositioned
        /\ n.madeChild = a.madeChild /\ n.shown = a.shown /\ n.top = a.top /\ n.height = a.height
    BY <1>1, <2>2, <2>3, OpacityPut, DressedIsUndoable DEF Dressed, Style!PutOpacity
  <2> QED
    BY <1>2, <2>3, <2>4 DEF FinishesWell, Calm, UndoneBy, Clippers, Positioners, Style!Slides
<1>3. CASE kind = "BlindUp"
  <2>1. PICK a : a = Style!Hide(s)
    OBVIOUS
  <2>2. n = Style!UndoClipping(a)
    BY <1>3, <2>1 DEF Style!Finished, Style!FinishedFirst
  <2>3. /\ a \in Styles /\ (Undoable(s) => Undoable(a)) /\ Calm(s, a)
        /\ (a.position = "absolute" => s.position = "absolute") /\ a.shown = FALSE
        /\ a.madeClipping = s.madeClipping /\ a.madePositioned = s.madePositioned
        /\ a.madeChild = s.madeChild /\ a.top = s.top /\ a.height = s.height
        /\ a.opacity = s.opacity
    BY <2>1, Hidden DEF Alike
  <2>4. /\ n \in Styles /\ (Undoable(a) => Undoable(n)) /\ Calm(a, n)
        /\ (n.position = "absolute" => a.position = "absolute") /\ n.madeClipping = "none"
        /\ n.madePositioned = a.madePositioned /\ n.madeChild = a.madeChild /\ n.shown = a.shown
        /\ n.top = a.top /\ n.height = a.height /\ n.opacity = a.opacity
    BY <2>2, <2>3, ClippingUndone DEF Alike
  <2> QED
    BY <1>3, <2>3, <2>4 DEF FinishesWell, Calm, UndoneBy, Clippers, Positioners, Style!Slides
<1>4. CASE kind = "BlindDown"
  <2>1. n = Style!UndoClipping(s)
    BY <1>4 DEF Style!Finished, Style!FinishedFirst
  <2>2. /\ n \in Styles /\ (Undoable(s) => Undoable(n)) /\ Calm(s, n)
        /\ (n.position = "absolute" => s.position = "absolute") /\ n.madeClipping = "none"
        /\ n.madePositioned = s.madePositioned /\ n.madeChild = s.madeChild /\ n.shown = s.shown
        /\ n.top = s.top /\ n.height = s.height /\ n.opacity = s.opacity
    BY <2>1, ClippingUndone DEF Alike
  <2> QED
    BY <1>4, <2>2 DEF FinishesWell, Calm, UndoneBy, Clippers, Positioners, Style!Slides
<1>5. CASE kind = "SwitchOff"
  <2>1. PICK a : a = Style!Hide(s)
    OBVIOUS
  <2>2. PICK b : b = Style!UndoClipping(a)
    OBVIOUS
  <2>3. PICK c : c = Style!UndoPositioned(b)
    OBVIOUS
  <2>4. n = Style!PutOpacity(c, saved)
    BY <1>5, <2>1, <2>2, <2>3 DEF Style!Finished, Style!FinishedFirst
  <2>5. /\ a \in Styles /\ (Undoable(s) => Undoable(a)) /\ Calm(s, a)
        /\ (a.position = "absolute" => s.position = "absolute") /\ a.shown = FALSE
        /\ a.madeClipping = s.madeClipping /\ a.madePositioned = s.madePositioned
        /\ a.madeChild = s.madeChild /\ a.top = s.top /\ a.height = s.height
        /\ a.opacity = s.opacity
    BY <2>1, Hidden DEF Alike
  <2>6. /\ b \in Styles /\ (Undoable(a) => Undoable(b)) /\ Calm(a, b)
        /\ (b.position = "absolute" => a.position = "absolute") /\ b.madeClipping = "none"
        /\ b.madePositioned = a.madePositioned /\ b.madeChild = a.madeChild /\ b.shown = a.shown
        /\ b.top = a.top /\ b.height = a.height /\ b.opacity = a.opacity
    BY <2>2, <2>5, ClippingUndone DEF Alike
  <2>7. /\ c \in Styles /\ (Undoable(b) => Undoable(c)) /\ Calm(b, c)
        /\ (c.position = "absolute" => b.position = "absolute") /\ ~c.madePositioned
        /\ c.top \in {b.top, "own"} /\ c.madeClipping = b.madeClipping /\ c.madeChild = b.madeChild
        /\ c.shown = b.shown /\ c.height = b.height /\ c.opacity = b.opacity
    BY <2>3, <2>6, PositionUndone DEF Alike
  <2>8. /\ n \in Styles /\ (Undoable(c) => Undoable(n)) /\ Calm(c, n)
        /\ (n.position = "absolute" => c.position = "absolute") /\ n.opacity = saved.opacity
        /\ n.madeClipping = c.madeClipping /\ n.madePositioned = c.madePositioned
        /\ n.madeChild = c.madeChild /\ n.shown = c.shown /\ n.top = c.top /\ n.height = c.height
    BY <1>1, <2>4, <2>7, OpacityPut, DressedIsUndoable DEF Dressed, Style!PutOpacity
  <2> QED
    BY <1>5, <2>5, <2>6, <2>7, <2>8 DEF FinishesWell, Calm, UndoneBy, Clippers, Positioners, Style!Slides
<1>6. CASE kind = "DropOut"
  <2>1. PICK a : a = Style!Hide(s)
    OBVIOUS
  <2>2. PICK b : b = Style!UndoPositioned(a)
    OBVIOUS
  <2>3. PICK c : c = Style!PutOpacity(b, saved)
    OBVIOUS
  <2>4. n = Style!PutPlace(c, saved)
    BY <1>6, <2>1, <2>2, <2>3 DEF Style!Finished, Style!FinishedFirst
  <2>5. /\ a \in Styles /\ (Undoable(s) => Undoable(a)) /\ Calm(s, a)
        /\ (a.position = "absolute" => s.position = "absolute") /\ a.shown = FALSE
        /\ a.madeClipping = s.madeClipping /\ a.madePositioned = s.madePositioned
        /\ a.madeChild = s.madeChild /\ a.top = s.top /\ a.height = s.height
        /\ a.opacity = s.opacity
    BY <2>1, Hidden DEF Alike
  <2>6. /\ b \in Styles /\ (Undoable(a) => Undoable(b)) /\ Calm(a, b)
        /\ (b.position = "absolute" => a.position = "absolute") /\ ~b.madePositioned
        /\ b.top \in {a.top, "own"} /\ b.madeClipping = a.madeClipping /\ b.madeChild = a.madeChild
        /\ b.shown = a.shown /\ b.height = a.height /\ b.opacity = a.opacity
    BY <2>2, <2>5, PositionUndone DEF Alike
  <2>7. /\ c \in Styles /\ (Undoable(b) => Undoable(c)) /\ Calm(b, c)
        /\ (c.position = "absolute" => b.position = "absolute") /\ c.opacity = saved.opacity
        /\ c.madeClipping = b.madeClipping /\ c.madePositioned = b.madePositioned
        /\ c.madeChild = b.madeChild /\ c.shown = b.shown /\ c.top = b.top /\ c.height = b.height
    BY <1>1, <2>3, <2>6, OpacityPut, DressedIsUndoable DEF Dressed, Style!PutOpacity
  <2>8. /\ n \in Styles /\ (Undoable(c) => Undoable(n)) /\ Calm(c, n)
        /\ (n.position = "absolute" => c.position = "absolute") /\ n.top = saved.top
        /\ n.madeClipping = c.madeClipping /\ n.madePositioned = c.madePositioned
        /\ n.madeChild = c.madeChild /\ n.shown = c.shown /\ n.height = c.height
        /\ n.opacity = c.opacity
    BY <1>1, <2>4, <2>7, TopPut, DressedIsUndoable DEF Dressed, Style!PutPlace
  <2> QED
    BY <1>6, <2>5, <2>6, <2>7, <2>8 DEF FinishesWell, Calm, UndoneBy, Clippers, Positioners, Style!Slides
<1>7. CASE kind = "Shake"
  <2>1. PICK a : a = Style!UndoPositioned(s)
    OBVIOUS
  <2>2. n = Style!PutPlace(a, saved)
    BY <1>7, <2>1 DEF Style!Finished, Style!FinishedSlide
  <2>3. /\ a \in Styles /\ (Undoable(s) => Undoable(a)) /\ Calm(s, a)
        /\ (a.position = "absolute" => s.position = "absolute") /\ ~a.madePositioned
        /\ a.top \in {s.top, "own"} /\ a.madeClipping = s.madeClipping /\ a.madeChild = s.madeChild
        /\ a.shown = s.shown /\ a.height = s.height /\ a.opacity = s.opacity
    BY <2>1, PositionUndone DEF Alike
  <2>4. /\ n \in Styles /\ (Undoable(a) => Undoable(n)) /\ Calm(a, n)
        /\ (n.position = "absolute" => a.position = "absolute") /\ n.top = saved.top
        /\ n.madeClipping = a.madeClipping /\ n.madePositioned = a.madePositioned
        /\ n.madeChild = a.madeChild /\ n.shown = a.shown /\ n.height = a.height
        /\ n.opacity = a.opacity
    BY <1>1, <2>2, <2>3, TopPut, DressedIsUndoable DEF Dressed, Style!PutPlace
  <2> QED
    BY <1>7, <2>3, <2>4 DEF FinishesWell, Calm, UndoneBy, Clippers, Positioners, Style!Slides
<1>8. CASE kind = "SlideDown"
  <2>1. PICK a : a = Style!UndoClipping(s)
    OBVIOUS
  <2>2. PICK b : b = Style!UndoChildPositioned(a)
    OBVIOUS
  <2>3. PICK c : c = Style!UndoPositioned(b)
    OBVIOUS
  <2>4. n = [c EXCEPT !.childBottom = saved.childBottom]
    BY <1>8, <2>1, <2>2, <2>3 DEF Style!Finished, Style!FinishedSlide
  <2>5. /\ a \in Styles /\ (Undoable(s) => Undoable(a)) /\ Calm(s, a)
        /\ (a.position = "absolute" => s.position = "absolute") /\ a.madeClipping = "none"
        /\ a.madePositioned = s.madePositioned /\ a.madeChild = s.madeChild /\ a.shown = s.shown
        /\ a.top = s.top /\ a.height = s.height /\ a.opacity = s.opacity
    BY <2>1, ClippingUndone DEF Alike
  <2>6. /\ b \in Styles /\ (Undoable(a) => Undoable(b)) /\ Calm(a, b)
        /\ (b.position = "absolute" => a.position = "absolute") /\ ~b.madeChild
        /\ b.madeClipping = a.madeClipping /\ b.madePositioned = a.madePositioned
        /\ b.shown = a.shown /\ b.top = a.top /\ b.height = a.height /\ b.opacity = a.opacity
    BY <2>2, <2>5, ChildUndone DEF Alike
  <2>7. /\ c \in Styles /\ (Undoable(b) => Undoable(c)) /\ Calm(b, c)
        /\ (c.position = "absolute" => b.position = "absolute") /\ ~c.madePositioned
        /\ c.top \in {b.top, "own"} /\ c.madeClipping = b.madeClipping /\ c.madeChild = b.madeChild
        /\ c.shown = b.shown /\ c.height = b.height /\ c.opacity = b.opacity
    BY <2>3, <2>6, PositionUndone DEF Alike
  <2>8. /\ n \in Styles /\ (Undoable(c) => Undoable(n))
        /\ n.bottom = c.bottom /\ n.childBottom = saved.childBottom
        /\ (n.position = "absolute" => c.position = "absolute") /\ n.madeClipping = c.madeClipping
        /\ n.madePositioned = c.madePositioned /\ n.madeChild = c.madeChild /\ n.shown = c.shown
        /\ n.top = c.top /\ n.height = c.height /\ n.opacity = c.opacity
    BY <1>1, <2>4, <2>7, ChildBottomPut, DressedIsUndoable DEF Dressed
  <2> QED
    BY <1>8, <2>5, <2>6, <2>7, <2>8 DEF FinishesWell, Calm, UndoneBy, Clippers, Positioners, Style!Slides
<1>9. CASE kind = "SlideUp"
  <2>1. PICK a : a = Style!Hide(s)
    OBVIOUS
  <2>2. PICK b : b = Style!UndoClipping(a)
    OBVIOUS
  <2>3. PICK c : c = Style!UndoChildPositioned(b)
    OBVIOUS
  <2>4. PICK d : d = Style!UndoPositioned(c)
    OBVIOUS
  <2>5. PICK v \in {"child", "mid"} : n = [d EXCEPT !.bottom = v]
    BY <1>1, <1>9, <2>1, <2>2, <2>3, <2>4 DEF Style!Finished, Style!FinishedSlide, Style!ChildValue
  <2>6. /\ a \in Styles /\ (Undoable(s) => Undoable(a)) /\ Calm(s, a)
        /\ (a.position = "absolute" => s.position = "absolute") /\ a.shown = FALSE
        /\ a.madeClipping = s.madeClipping /\ a.madePositioned = s.madePositioned
        /\ a.madeChild = s.madeChild /\ a.top = s.top /\ a.height = s.height
        /\ a.opacity = s.opacity
    BY <2>1, Hidden DEF Alike
  <2>7. /\ b \in Styles /\ (Undoable(a) => Undoable(b)) /\ Calm(a, b)
        /\ (b.position = "absolute" => a.position = "absolute") /\ b.madeClipping = "none"
        /\ b.madePositioned = a.madePositioned /\ b.madeChild = a.madeChild /\ b.shown = a.shown
        /\ b.top = a.top /\ b.height = a.height /\ b.opacity = a.opacity
    BY <2>2, <2>6, ClippingUndone DEF Alike
  <2>8. /\ c \in Styles /\ (Undoable(b) => Undoable(c)) /\ Calm(b, c)
        /\ (c.position = "absolute" => b.position = "absolute") /\ ~c.madeChild
        /\ c.madeClipping = b.madeClipping /\ c.madePositioned = b.madePositioned
        /\ c.shown = b.shown /\ c.top = b.top /\ c.height = b.height /\ c.opacity = b.opacity
        /\ b.madeChild => c.childBottom = "own"
    BY <2>3, <2>7, ChildUndone DEF Alike
  <2>9. /\ d \in Styles /\ (Undoable(c) => Undoable(d)) /\ Calm(c, d)
        /\ (d.position = "absolute" => c.position = "absolute") /\ ~d.madePositioned
        /\ d.top \in {c.top, "own"} /\ d.madeClipping = c.madeClipping /\ d.madeChild = c.madeChild
        /\ d.shown = c.shown /\ d.height = c.height /\ d.opacity = c.opacity
    BY <2>4, <2>8, PositionUndone DEF Alike
  <2>10. /\ n \in Styles /\ (Undoable(d) => Undoable(n)) /\ n.childBottom = d.childBottom
        /\ (n.position = "absolute" => d.position = "absolute") /\ n.madeClipping = d.madeClipping
        /\ n.madePositioned = d.madePositioned /\ n.madeChild = d.madeChild /\ n.shown = d.shown
        /\ n.top = d.top /\ n.height = d.height /\ n.opacity = d.opacity
    BY <1>1, <2>5, <2>9, BottomPut, DressedIsUndoable DEF Dressed
  <2> QED
    BY <1>9, <2>6, <2>7, <2>8, <2>9, <2>10 DEF FinishesWell, Calm, UndoneBy, Clippers, Positioners, Style!Slides
<1>10. CASE kind = "Squish"
  <2>1. PICK a : a = Style!Hide(s)
    OBVIOUS
  <2>2. n = Style!UndoClipping(a)
    BY <1>10, <2>1 DEF Style!Finished, Style!FinishedSlide
  <2>3. /\ a \in Styles /\ (Undoable(s) => Undoable(a)) /\ Calm(s, a)
        /\ (a.position = "absolute" => s.position = "absolute") /\ a.shown = FALSE
        /\ a.madeClipping = s.madeClipping /\ a.madePositioned = s.madePositioned
        /\ a.madeChild = s.madeChild /\ a.top = s.top /\ a.height = s.height
        /\ a.opacity = s.opacity
    BY <2>1, Hidden DEF Alike
  <2>4. /\ n \in Styles /\ (Undoable(a) => Undoable(n)) /\ Calm(a, n)
        /\ (n.position = "absolute" => a.position = "absolute") /\ n.madeClipping = "none"
        /\ n.madePositioned = a.madePositioned /\ n.madeChild = a.madeChild /\ n.shown = a.shown
        /\ n.top = a.top /\ n.height = a.height /\ n.opacity = a.opacity
    BY <2>2, <2>3, ClippingUndone DEF Alike
  <2> QED
    BY <1>10, <2>3, <2>4 DEF FinishesWell, Calm, UndoneBy, Clippers, Positioners, Style!Slides
<1>11. CASE kind = "Grow"
  <2>1. PICK a : a = Style!UndoClipping(s)
    OBVIOUS
  <2>2. PICK b : b = Style!UndoPositioned(a)
    OBVIOUS
  <2>3. PICK c : c = Style!PutBox(b, saved)
    OBVIOUS
  <2>4. n = Style!PutOpacity(c, saved)
    BY <1>11, <2>1, <2>2, <2>3 DEF Style!Finished, Style!FinishedGrow
  <2>5. /\ a \in Styles /\ (Undoable(s) => Undoable(a)) /\ Calm(s, a)
        /\ (a.position = "absolute" => s.position = "absolute") /\ a.madeClipping = "none"
        /\ a.madePositioned = s.madePositioned /\ a.madeChild = s.madeChild /\ a.shown = s.shown
        /\ a.top = s.top /\ a.height = s.height /\ a.opacity = s.opacity
    BY <2>1, ClippingUndone DEF Alike
  <2>6. /\ b \in Styles /\ (Undoable(a) => Undoable(b)) /\ Calm(a, b)
        /\ (b.position = "absolute" => a.position = "absolute") /\ ~b.madePositioned
        /\ b.top \in {a.top, "own"} /\ b.madeClipping = a.madeClipping /\ b.madeChild = a.madeChild
        /\ b.shown = a.shown /\ b.height = a.height /\ b.opacity = a.opacity
    BY <2>2, <2>5, PositionUndone DEF Alike
  <2>7. /\ c \in Styles /\ (Undoable(b) => Undoable(c)) /\ Calm(b, c)
        /\ (c.position = "absolute" => b.position = "absolute") /\ c.top = saved.top
        /\ c.height = saved.height /\ c.madeClipping = b.madeClipping
        /\ c.madePositioned = b.madePositioned /\ c.madeChild = b.madeChild /\ c.shown = b.shown
        /\ c.opacity = b.opacity
    BY <1>1, <2>3, <2>6, BoxPut, DressedIsUndoable DEF Dressed
  <2>8. /\ n \in Styles /\ (Undoable(c) => Undoable(n)) /\ Calm(c, n)
        /\ (n.position = "absolute" => c.position = "absolute") /\ n.opacity = saved.opacity
        /\ n.madeClipping = c.madeClipping /\ n.madePositioned = c.madePositioned
        /\ n.madeChild = c.madeChild /\ n.shown = c.shown /\ n.top = c.top /\ n.height = c.height
    BY <1>1, <2>4, <2>7, OpacityPut, DressedIsUndoable DEF Dressed, Style!PutOpacity
  <2> QED
    BY <1>11, <2>5, <2>6, <2>7, <2>8 DEF FinishesWell, Calm, UndoneBy, Clippers, Positioners, Style!Slides
<1>12. CASE kind = "Shrink"
  <2>1. PICK a : a = Style!Hide(s)
    OBVIOUS
  <2>2. PICK b : b = Style!UndoClipping(a)
    OBVIOUS
  <2>3. PICK c : c = Style!UndoPositioned(b)
    OBVIOUS
  <2>4. PICK d : d = Style!PutBox(c, saved)
    OBVIOUS
  <2>5. n = Style!PutOpacity(d, saved)
    BY <1>12, <2>1, <2>2, <2>3, <2>4 DEF Style!Finished, Style!FinishedGrow
  <2>6. /\ a \in Styles /\ (Undoable(s) => Undoable(a)) /\ Calm(s, a)
        /\ (a.position = "absolute" => s.position = "absolute") /\ a.shown = FALSE
        /\ a.madeClipping = s.madeClipping /\ a.madePositioned = s.madePositioned
        /\ a.madeChild = s.madeChild /\ a.top = s.top /\ a.height = s.height
        /\ a.opacity = s.opacity
    BY <2>1, Hidden DEF Alike
  <2>7. /\ b \in Styles /\ (Undoable(a) => Undoable(b)) /\ Calm(a, b)
        /\ (b.position = "absolute" => a.position = "absolute") /\ b.madeClipping = "none"
        /\ b.madePositioned = a.madePositioned /\ b.madeChild = a.madeChild /\ b.shown = a.shown
        /\ b.top = a.top /\ b.height = a.height /\ b.opacity = a.opacity
    BY <2>2, <2>6, ClippingUndone DEF Alike
  <2>8. /\ c \in Styles /\ (Undoable(b) => Undoable(c)) /\ Calm(b, c)
        /\ (c.position = "absolute" => b.position = "absolute") /\ ~c.madePositioned
        /\ c.top \in {b.top, "own"} /\ c.madeClipping = b.madeClipping /\ c.madeChild = b.madeChild
        /\ c.shown = b.shown /\ c.height = b.height /\ c.opacity = b.opacity
    BY <2>3, <2>7, PositionUndone DEF Alike
  <2>9. /\ d \in Styles /\ (Undoable(c) => Undoable(d)) /\ Calm(c, d)
        /\ (d.position = "absolute" => c.position = "absolute") /\ d.top = saved.top
        /\ d.height = saved.height /\ d.madeClipping = c.madeClipping
        /\ d.madePositioned = c.madePositioned /\ d.madeChild = c.madeChild /\ d.shown = c.shown
        /\ d.opacity = c.opacity
    BY <1>1, <2>4, <2>8, BoxPut, DressedIsUndoable DEF Dressed
  <2>10. /\ n \in Styles /\ (Undoable(d) => Undoable(n)) /\ Calm(d, n)
        /\ (n.position = "absolute" => d.position = "absolute") /\ n.opacity = saved.opacity
        /\ n.madeClipping = d.madeClipping /\ n.madePositioned = d.madePositioned
        /\ n.madeChild = d.madeChild /\ n.shown = d.shown /\ n.top = d.top /\ n.height = d.height
    BY <1>1, <2>5, <2>9, OpacityPut, DressedIsUndoable DEF Dressed, Style!PutOpacity
  <2> QED
    BY <1>12, <2>6, <2>7, <2>8, <2>9, <2>10 DEF FinishesWell, Calm, UndoneBy, Clippers, Positioners, Style!Slides
<1>13. CASE kind = "Pulsate"
  <2>1. n = Style!PutOpacity(s, saved)
    BY <1>13 DEF Style!Finished, Style!FinishedGrow
  <2>2. /\ n \in Styles /\ (Undoable(s) => Undoable(n)) /\ Calm(s, n)
        /\ (n.position = "absolute" => s.position = "absolute") /\ n.opacity = saved.opacity
        /\ n.madeClipping = s.madeClipping /\ n.madePositioned = s.madePositioned
        /\ n.madeChild = s.madeChild /\ n.shown = s.shown /\ n.top = s.top /\ n.height = s.height
    BY <1>1, <2>1, OpacityPut, DressedIsUndoable DEF Dressed, Style!PutOpacity
  <2> QED
    BY <1>13, <2>2 DEF FinishesWell, Calm, UndoneBy, Clippers, Positioners, Style!Slides
<1>14. CASE kind = "Fold"
  <2>1. PICK a : a = Style!Hide(s)
    OBVIOUS
  <2>2. PICK b : b = Style!UndoClipping(a)
    OBVIOUS
  <2>3. n = Style!PutBox(b, saved)
    BY <1>14, <2>1, <2>2 DEF Style!Finished, Style!FinishedGrow
  <2>4. /\ a \in Styles /\ (Undoable(s) => Undoable(a)) /\ Calm(s, a)
        /\ (a.position = "absolute" => s.position = "absolute") /\ a.shown = FALSE
        /\ a.madeClipping = s.madeClipping /\ a.madePositioned = s.madePositioned
        /\ a.madeChild = s.madeChild /\ a.top = s.top /\ a.height = s.height
        /\ a.opacity = s.opacity
    BY <2>1, Hidden DEF Alike
  <2>5. /\ b \in Styles /\ (Undoable(a) => Undoable(b)) /\ Calm(a, b)
        /\ (b.position = "absolute" => a.position = "absolute") /\ b.madeClipping = "none"
        /\ b.madePositioned = a.madePositioned /\ b.madeChild = a.madeChild /\ b.shown = a.shown
        /\ b.top = a.top /\ b.height = a.height /\ b.opacity = a.opacity
    BY <2>2, <2>4, ClippingUndone DEF Alike
  <2>6. /\ n \in Styles /\ (Undoable(b) => Undoable(n)) /\ Calm(b, n)
        /\ (n.position = "absolute" => b.position = "absolute") /\ n.top = saved.top
        /\ n.height = saved.height /\ n.madeClipping = b.madeClipping
        /\ n.madePositioned = b.madePositioned /\ n.madeChild = b.madeChild /\ n.shown = b.shown
        /\ n.opacity = b.opacity
    BY <1>1, <2>3, <2>5, BoxPut, DressedIsUndoable DEF Dressed
  <2> QED
    BY <1>14, <2>4, <2>5, <2>6 DEF FinishesWell, Calm, UndoneBy, Clippers, Positioners, Style!Slides
<1>15. CASE kind = "Appear"
  <2>1. n = s
    BY <1>15 DEF Style!Finished, Style!FinishedFirst
  <2> QED
    BY <1>15, <2>1 DEF FinishesWell, Calm, UndoneBy, Clippers, Positioners, Style!Slides
<1>16. CASE kind = "Puff"
  <2>1. PICK a : a = Style!Hide(s)
    OBVIOUS
  <2>2. PICK b : b = Style!PutOpacity(a, saved)
    OBVIOUS
  <2>3. n = [b EXCEPT !.position = saved.position]
    BY <1>16, <2>1, <2>2 DEF Style!Finished, Style!FinishedFirst
  <2>4. /\ Alike(s, a) /\ a.top = s.top /\ a.madeClipping = s.madeClipping
        /\ a.madePositioned = s.madePositioned /\ a.madeChild = s.madeChild
    BY <2>1, Hidden
  <2>5. Dressed(a, b) /\ Calm(a, b) /\ b.top = a.top /\ b.height = a.height /\ b.opacity = saved.opacity
    BY <1>1, <2>2, <2>4, OpacityPut DEF Alike, Style!PutOpacity
  <2>6. Undoable(s) => Undoable(b)
    BY <2>4, <2>5, DressedIsUndoable DEF Alike
  <2>7. b \in Styles /\ b.madePositioned = s.madePositioned
    BY <2>4, <2>5 DEF Dressed
  <2>8. n \in Styles
    BY <1>1, <2>3, <2>7 DEF Styles
  <2>9. /\ n.shown = b.shown /\ n.overflow = b.overflow /\ n.position = saved.position
        /\ n.childPosition = b.childPosition /\ n.madeClipping = b.madeClipping
        /\ n.madePositioned = b.madePositioned /\ n.madeChild = b.madeChild
        /\ n.top = b.top /\ n.height = b.height /\ n.opacity = b.opacity
        /\ n.bottom = b.bottom /\ n.childBottom = b.childBottom
    BY <2>3, <2>7 DEF Styles
  <2>10. Undoable(s) => Undoable(n)
    BY <1>16, <2>6, <2>7, <2>9 DEF Undoable
  <2>11. n.position # "absolute"
    BY <1>16, <2>9 DEF Style!Original
  <2>12. UndoneBy(s, n, kind)
    BY <1>16, <2>4, <2>5, <2>9 DEF Dressed, UndoneBy, Clippers, Positioners, Style!Slides
  <2> QED
    BY <1>16, <2>4, <2>5, <2>8, <2>9, <2>10, <2>11, <2>12 DEF FinishesWell, Alike, Calm
<1> QED
  BY <1>2, <1>3, <1>4, <1>5, <1>6, <1>7, <1>8, <1>9, <1>10, <1>11, <1>12, <1>13, <1>14, <1>15, <1>16 DEF Style!AllKinds

-----------------------------------------------------------------------------
(* The effects of an element. *)

Starteds == [kind : Style!AllKinds, stage : 1..2, running : BOOLEAN, saved : Keeping, found : Keeping]

Undoer(kinds) == \E i \in DOMAIN live : live[i].kind \in kinds

\* Puff, which never overlaps another effect, gives the element its position back.
Returns(e) ==
  /\ e.saved.position = own.position
  /\ style.position = "absolute" => e.kind = "Puff"

Lone ==
  /\ \A i \in DOMAIN live : Returns(live[i])
  /\ live = << >> => style.position # "absolute"

\* Through toggle an element has effects of its pair only, each clipped and shown
\* from where it has to be.
PairInv ==
  /\ \A i \in DOMAIN live :
       /\ live[i].kind \in {Style!Pairs[pair].show, Style!Pairs[pair].hide}
       /\ \/ live[i].kind \in {"BlindUp", "SlideUp"}
          \/ live[i].running /\ live[i].kind \in {"BlindDown", "SlideDown"}
          => style.madeClipping # "none"
       /\ live[i].running /\ live[i].kind \in {"Appear", "BlindDown", "SlideDown"} => style.shown
  /\ live = << >> /\ last # {} => style.shown = (last \cap {"Fade", "BlindUp", "SlideUp"} = {})

StyleInv ==
  /\ Style!TypeOK
  /\ live \in Seq(Starteds)
  /\ \A i \in DOMAIN live : styleOptions.live = 0 \/ live[i].kind \in styleOptions.kinds
  /\ \A i \in DOMAIN live : live[i].stage = 2 => Style!Chained(live[i].kind)
  /\ Undoable(style)
  /\ style.madeClipping # "none" => Undoer(Clippers)
  /\ style.madePositioned => Undoer(Positioners)
  /\ style.madeChild => Undoer(Style!Slides)
  /\ styleOptions.live > 1 => style.position # "absolute"
  /\ styleOptions.live <= 1 => Lone
  /\ styleOptions.live = 0 => PairInv

LEMMA StyleAssumed ==
  ASSUME styleOptions \in StyleOptions
  PROVE  /\ styleOptions.kinds \subseteq Style!AllKinds
         /\ styleOptions.togglable \subseteq DOMAIN Style!Pairs
         /\ styleOptions.live \in Nat /\ styleOptions.created \in Nat
         /\ "Puff" \in styleOptions.kinds => styleOptions.live <= 1
BY MotionAssumption DEF Style!EffectStyleAssumption

\* The effects of a pair undo the same.
LEMMA PairOf ==
  ASSUME styleOptions \in StyleOptions, pair \in styleOptions.togglable
  PROVE  /\ Style!Pairs[pair].show \in {"SlideDown", "BlindDown", "Appear"}
         /\ Style!Pairs[pair].hide \in {"SlideUp", "BlindUp", "Fade"}
         /\ Style!Pairs[pair].show = "SlideDown" <=> Style!Pairs[pair].hide = "SlideUp"
         /\ Style!Pairs[pair].show = "BlindDown" <=> Style!Pairs[pair].hide = "BlindUp"
<1>1. pair \in DOMAIN Style!Pairs
  BY StyleAssumed
<1>2. pair \in {"slide", "blind", "appear"}
  BY <1>1 DEF Style!Pairs
<1> QED
  BY <1>2 DEF Style!Pairs

LEMMA Within ==
  ASSUME NEW kind, NEW stage
  PROVE  /\ Style!Puts(kind) \subseteq Style!Animated
         /\ Style!Finds(kind, stage) \subseteq Style!Animated
         /\ \A attributes : Style!Foreign(attributes) \subseteq attributes
         /\ Style!Misplaced(kind) \subseteq {"bottom", "childBottom"}
<1>1. Style!Puts(kind) \subseteq Style!Animated
  BY DEF Style!Puts, Style!Animated
<1>2. Style!Finds(kind, stage) \subseteq Style!Animated
  BY DEF Style!Finds, Style!Animated
<1>3. \A attributes : Style!Foreign(attributes) \subseteq attributes
  BY DEF Style!Foreign
<1>4. Style!Misplaced(kind) \subseteq {"bottom", "childBottom"}
  BY DEF Style!Misplaced
<1> QED
  BY <1>1, <1>2, <1>3, <1>4

LEMMA LiveFacts ==
  ASSUME StyleInv
  PROVE  /\ styleOptions \in StyleOptions /\ pair \in styleOptions.togglable
         /\ own \in Style!Original /\ style \in Styles
         /\ live \in Seq(Starteds) /\ Len(live) \in Nat /\ DOMAIN live = 1..Len(live)
         /\ \A i \in 1..Len(live) : /\ live[i] \in Starteds /\ live[i].kind \in Style!AllKinds
                                    /\ live[i].stage \in 1..2 /\ live[i].running \in BOOLEAN
                                    /\ live[i].saved \in Keeping /\ live[i].found \in Keeping
         /\ styleOptions.live \in Nat
         /\ styleOptions.live <= 1 => Len(live) <= 1
<1>1. /\ styleOptions \in StyleOptions /\ pair \in styleOptions.togglable
      /\ own \in Style!Original /\ style \in Styles
  BY DEF StyleInv, Style!TypeOK, Styles
<1>2. live \in Seq(Starteds) /\ Len(live) \in Nat /\ DOMAIN live = 1..Len(live)
  BY DEF StyleInv
<1>3. ASSUME NEW i \in 1..Len(live)
      PROVE  /\ live[i] \in Starteds /\ live[i].kind \in Style!AllKinds
             /\ live[i].stage \in 1..2 /\ live[i].running \in BOOLEAN
             /\ live[i].saved \in Keeping /\ live[i].found \in Keeping
  <2>1. live[i] \in Starteds
    BY <1>2
  <2> QED
    BY <2>1 DEF Starteds
<1>4. styleOptions.live \in Nat /\ (styleOptions.live <= 1 => Len(live) <= 1)
  <2>1. styleOptions.live \in Nat
    BY <1>1, StyleAssumed
  <2>2. Len(live) <= IF styleOptions.live = 0 THEN 1 ELSE styleOptions.live
    BY DEF StyleInv, Style!TypeOK
  <2> QED
    BY <1>2, <2>1, <2>2
<1> QED
  BY <1>1, <1>2, <1>3, <1>4

LEMMA StyleStarts == Style!Init => StyleInv
<1> SUFFICES ASSUME Style!Init PROVE StyleInv
  OBVIOUS
<1>1. /\ styleOptions \in StyleOptions /\ pair \in styleOptions.togglable
      /\ own \in Style!Original /\ style = own /\ live = << >> /\ created = 0 /\ last = {} /\ lost = {}
  BY DEF Style!Init
<1>2. styleOptions.live \in Nat /\ styleOptions.created \in Nat
  BY <1>1, StyleAssumed
<1>3. /\ own.height = "own" /\ own.top = "own" /\ own.opacity = "full"
      /\ own.position # "absolute" /\ own.madeClipping = "none" /\ own.madePositioned = FALSE
      /\ own.madeChild = FALSE /\ own \in Styles
  BY <1>1 DEF Style!Original, Styles
<1>4. Style!TypeOK
  BY <1>1, <1>2, <1>3 DEF Style!TypeOK, Styles
<1>5. live \in Seq(Starteds) /\ DOMAIN live = {}
  BY <1>1
<1>6. Undoable(style)
  BY <1>1, <1>3 DEF Undoable
<1>7. Lone /\ PairInv
  BY <1>1, <1>3, <1>5 DEF Lone, PairInv
<1> QED
  BY <1>1, <1>3, <1>4, <1>5, <1>6, <1>7 DEF StyleInv

\* Creating an effect: what it makes at once it undoes itself when it is queued, and
\* when it is not, the effect of the pair that is queued does.
LEMMA CreateKeeps ==
  ASSUME StyleInv, NEW kind \in Style!AllKinds, NEW admitted \in BOOLEAN,
         Style!Create(kind, admitted),
         \/ admitted /\ Len(live) < styleOptions.live /\ kind \in styleOptions.kinds
         \/ /\ styleOptions.live = 0 /\ kind \in {Style!Pairs[pair].show, Style!Pairs[pair].hide}
            /\ admitted <=> live = << >>
  PROVE  StyleInv'
<1> DEFINE l == Len(live)
           e == Style!New(kind)
<1>1. /\ styleOptions \in StyleOptions /\ pair \in styleOptions.togglable
      /\ own \in Style!Original /\ style \in Styles
      /\ live \in Seq(Starteds) /\ l \in Nat /\ DOMAIN live = 1..l
      /\ styleOptions.live \in Nat
      /\ styleOptions.live <= 1 => l <= 1
  BY LiveFacts
<1>2. /\ created < styleOptions.created /\ created' = created + 1
      /\ style' = Style!Created(kind, style)
      /\ live' = IF admitted THEN Append(live, e) ELSE live
      /\ lost' = IF admitted THEN lost \cup Style!Foreign(Style!Puts(kind)) ELSE lost
      /\ UNCHANGED <<styleOptions, pair, own, last>>
  BY DEF Style!Create
<1>3. /\ Alike(style, style') /\ MadeBy(style, style', kind) /\ style'.top = style.top
      /\ style.shown => style'.shown
      /\ style.madeClipping # "none" \/ kind \in {"BlindUp", "SlideUp"} => style'.madeClipping # "none"
  BY <1>1, <1>2, CreatedKeeps
<1>4. /\ e \in Starteds /\ e.kind = kind /\ e.stage = 1 /\ e.running = FALSE
      /\ e.saved = Style!Kept(style)
  <2>1. Style!Kept(style) \in Keeping
    BY <1>1, StyleOf DEF Style!Kept, Keeping
  <2> QED
    BY <2>1 DEF Style!New, Starteds
<1> HIDE DEF e
<1>5. PICK n \in Seq(Starteds) : n = live'
  BY <1>1, <1>2, <1>4
<1>6. /\ Len(n) = IF admitted THEN l + 1 ELSE l
      /\ DOMAIN n = 1..Len(n)
      /\ \A i \in 1..l : i \in DOMAIN n /\ n[i] = live[i]
      /\ \A i \in DOMAIN n : i \in 1..l \/ (admitted /\ i = l + 1 /\ n[i] = e)
      /\ admitted => n[l + 1] = e /\ l + 1 \in DOMAIN n
  <2>1. CASE admitted
    BY <1>1, <1>2, <1>5, <2>1
  <2>2. CASE ~admitted
    BY <1>1, <1>2, <1>5, <2>2
  <2> QED
    BY <2>1, <2>2
<1>7. Style!TypeOK'
  <2>1. created' \in 0..styleOptions.created
    BY <1>1, <1>2, StyleAssumed DEF StyleInv, Style!TypeOK
  <2>2. style' \in Styles
    BY <1>3 DEF Alike
  <2>3. Len(n) <= IF styleOptions.live = 0 THEN 1 ELSE styleOptions.live
    <3>1. l <= IF styleOptions.live = 0 THEN 1 ELSE styleOptions.live
      BY DEF StyleInv, Style!TypeOK
    <3>2. admitted => l < IF styleOptions.live = 0 THEN 1 ELSE styleOptions.live
      BY <1>1
    <3> QED
      BY <1>1, <1>6, <3>1, <3>2
  <2>4. lost' \subseteq Style!Animated
    <3>1. lost \subseteq Style!Animated
      BY DEF StyleInv, Style!TypeOK
    <3>2. Style!Foreign(Style!Puts(kind)) \subseteq Style!Animated
      BY Within
    <3> QED
      BY <1>2, <3>1, <3>2
  <2> QED
    BY <1>2, <1>5, <2>1, <2>2, <2>3, <2>4 DEF StyleInv, Style!TypeOK, Styles
<1>8. \A i \in DOMAIN n : /\ styleOptions.live = 0 \/ n[i].kind \in styleOptions.kinds
                          /\ n[i].stage = 2 => Style!Chained(n[i].kind)
  <2>1. \A i \in 1..l : /\ styleOptions.live = 0 \/ live[i].kind \in styleOptions.kinds
                        /\ live[i].stage = 2 => Style!Chained(live[i].kind)
    BY <1>1 DEF StyleInv
  <2> QED
    BY <1>4, <1>6, <2>1
<1>9. Undoable(style')
  BY <1>3 DEF StyleInv, Alike
<1>10. Undoable(style)'
  BY <1>2, <1>9 DEF Undoable
<1>11. ASSUME NEW kinds, Undoer(kinds) PROVE Undoer(kinds)'
  <2>1. PICK i \in 1..l : live[i].kind \in kinds
    BY <1>1, <1>11 DEF Undoer
  <2> QED
    BY <1>5, <1>6, <2>1 DEF Undoer
<1>12. ASSUME NEW kinds, kind \in kinds,
              kind \in {Style!Pairs[pair].show, Style!Pairs[pair].hide} =>
                Style!Pairs[pair].show \in kinds /\ Style!Pairs[pair].hide \in kinds
       PROVE  Undoer(kinds)'
  <2>1. CASE admitted
    BY <1>4, <1>5, <1>6, <1>12, <2>1 DEF Undoer
  <2>2. CASE ~admitted
    <3>1. styleOptions.live = 0 /\ live # << >>
      BY <2>2
    <3>2. 1 \in 1..l
      BY <1>1, <3>1
    <3>3. live[1].kind \in {Style!Pairs[pair].show, Style!Pairs[pair].hide}
      BY <1>1, <3>1, <3>2 DEF StyleInv, PairInv
    <3>4. live[1].kind \in kinds
      BY <1>12, <2>2, <3>3
    <3> QED
      BY <1>5, <1>6, <3>2, <3>4 DEF Undoer
  <2> QED
    BY <2>1, <2>2
<1>13. /\ style'.madeClipping # "none" => Undoer(Clippers)'
       /\ style'.madePositioned => Undoer(Positioners)'
       /\ style'.madeChild => Undoer(Style!Slides)'
  <2>1. \A kinds \in {Clippers, Positioners, Style!Slides} :
          kind \in kinds /\ kind \in {Style!Pairs[pair].show, Style!Pairs[pair].hide} =>
                Style!Pairs[pair].show \in kinds /\ Style!Pairs[pair].hide \in kinds
    BY <1>1, PairOf DEF Clippers, Positioners, Style!Slides
  <2>2. \A kinds \in {Clippers, Positioners, Style!Slides} : kind \in kinds => Undoer(kinds)'
    BY <1>12, <2>1
  <2>3. kind \in Clippers => Undoer(Clippers)'
    BY <1>12, <2>1
  <2>4. kind \in Positioners => Undoer(Positioners)'
    BY <1>12, <2>1
  <2>5. kind \in Style!Slides => Undoer(Style!Slides)'
    BY <1>12, <2>1
  <2>6. /\ style.madeClipping # "none" => Undoer(Clippers)'
        /\ style.madePositioned => Undoer(Positioners)'
        /\ style.madeChild => Undoer(Style!Slides)'
    BY <1>11 DEF StyleInv
  <2> QED
    BY <1>3, <2>3, <2>4, <2>5, <2>6 DEF MadeBy
<1>14. styleOptions.live > 1 => style'.position # "absolute"
  BY <1>3 DEF StyleInv, Alike
<1>15. ASSUME styleOptions.live <= 1 PROVE Lone'
  <2>1. Lone
    BY <1>15 DEF StyleInv
  <2>2. style'.position = "absolute" => style.position = "absolute"
    BY <1>3 DEF Alike
  <2>3. ASSUME NEW i \in DOMAIN n PROVE Returns(n[i])'
    <3>1. CASE i \in 1..l
      <4>1. Returns(live[i]) /\ n[i] = live[i]
        BY <1>1, <1>6, <2>1, <3>1 DEF Lone
      <4> QED
        BY <1>2, <1>5, <1>6, <2>2, <4>1 DEF Returns
    <3>2. CASE i \notin 1..l
      <4>1. admitted /\ n[i] = e
        BY <1>6, <3>2
      <4>2. live = << >>
        BY <1>1, <1>15, <4>1
      <4>3. style.position # "absolute"
        BY <2>1, <4>2 DEF Lone
      <4>4. style.position = own.position
        <5>1. ~style.madePositioned
          BY <1>1, <4>2 DEF StyleInv, Undoer
        <5> QED
          BY <4>3, <5>1 DEF StyleInv, Undoable
      <4>5. e.saved.position = own.position
        BY <1>4, <4>3, <4>4 DEF Style!Kept
      <4> QED
        BY <1>2, <1>4, <1>5, <2>2, <4>1, <4>3, <4>5 DEF Returns
    <3> QED
      BY <3>1, <3>2
  <2>4. ASSUME n = << >> PROVE live = << >>
    BY <1>1, <1>6, <2>4
  <2> QED
    BY <1>5, <2>1, <2>2, <2>3, <2>4 DEF Lone
<1>16. ASSUME styleOptions.live = 0 PROVE PairInv'
  <2>1. PairInv
    BY <1>16 DEF StyleInv
  <2>2. n # << >>
    BY <1>1, <1>6, <1>16
  <2>3. kind \in {Style!Pairs[pair].show, Style!Pairs[pair].hide}
    BY <1>1, <1>16
  <2>4. ASSUME NEW i \in DOMAIN n
        PROVE  /\ n[i].kind \in {Style!Pairs[pair].show, Style!Pairs[pair].hide}
               /\ \/ n[i].kind \in {"BlindUp", "SlideUp"}
                  \/ n[i].running /\ n[i].kind \in {"BlindDown", "SlideDown"}
                  => style'.madeClipping # "none"
               /\ n[i].running /\ n[i].kind \in {"Appear", "BlindDown", "SlideDown"} => style'.shown
    <3>1. CASE i \in 1..l
      BY <1>1, <1>3, <1>6, <2>1, <3>1 DEF PairInv
    <3>2. CASE i \notin 1..l
      BY <1>3, <1>4, <1>6, <2>3, <3>2
    <3> QED
      BY <3>1, <3>2
  <2> QED
    BY <1>2, <1>5, <2>2, <2>4 DEF PairInv
<1> QED
  BY <1>2, <1>5, <1>7, <1>8, <1>10, <1>13, <1>14, <1>15, <1>16 DEF StyleInv

\* A step that leaves the kinds in their places.
LEMMA KindsStay ==
  ASSUME StyleInv, NEW n \in Seq(Starteds), n = live', Len(n) = Len(live),
         UNCHANGED <<styleOptions, pair, own, created, last>>, lost' \subseteq Style!Animated,
         \A i \in DOMAIN live : n[i].kind = live[i].kind,
         \A i \in DOMAIN live : n[i].stage = 2 => Style!Chained(n[i].kind),
         style' \in Styles, Undoable(style'),
         style'.madeClipping # "none" => Undoer(Clippers),
         style'.madePositioned => Undoer(Positioners),
         style'.madeChild => Undoer(Style!Slides),
         styleOptions.live > 1 => style'.position # "absolute",
         styleOptions.live <= 1 => \A i \in DOMAIN live : Returns(n[i])',
         styleOptions.live = 0 => \A i \in DOMAIN live :
           /\ \/ n[i].kind \in {"BlindUp", "SlideUp"}
              \/ n[i].running /\ n[i].kind \in {"BlindDown", "SlideDown"}
              => style'.madeClipping # "none"
           /\ n[i].running /\ n[i].kind \in {"Appear", "BlindDown", "SlideDown"} => style'.shown,
         live # << >>
  PROVE  StyleInv'
<1>1. /\ live \in Seq(Starteds) /\ Len(live) \in Nat /\ DOMAIN live = 1..Len(live)
  BY LiveFacts
<1>2. DOMAIN n = DOMAIN live /\ n # << >>
  BY <1>1
<1>3. Style!TypeOK'
  BY <1>1 DEF StyleInv, Style!TypeOK, Styles
<1>4. \A kinds \in {Clippers, Positioners, Style!Slides} : Undoer(kinds)' <=> Undoer(kinds)
  BY <1>2 DEF Undoer
<1>5. Undoable(style)'
  BY DEF Undoable
<1>6. styleOptions.live <= 1 => Lone'
  BY <1>2 DEF Lone
<1>7. styleOptions.live = 0 => PairInv'
  BY <1>2 DEF StyleInv, PairInv
<1>8. \A i \in DOMAIN n : /\ styleOptions.live = 0 \/ n[i].kind \in styleOptions.kinds
                          /\ n[i].stage = 2 => Style!Chained(n[i].kind)
  BY <1>2 DEF StyleInv
<1>9. /\ (style.madeClipping # "none" => Undoer(Clippers))'
      /\ (style.madePositioned => Undoer(Positioners))'
      /\ (style.madeChild => Undoer(Style!Slides))'
  <2>1. Undoer(Clippers)' <=> Undoer(Clippers)
    BY <1>4
  <2>2. Undoer(Positioners)' <=> Undoer(Positioners)
    BY <1>4
  <2>3. Undoer(Style!Slides)' <=> Undoer(Style!Slides)
    BY <1>4
  <2> QED
    BY <2>1, <2>2, <2>3
<1> QED
  BY <1>3, <1>5, <1>6, <1>7, <1>8, <1>9 DEF StyleInv

\* What is true of an effect in its queue.
LEMMA LiveOne ==
  ASSUME StyleInv, NEW i \in DOMAIN live
  PROVE  /\ live[i].kind \in Clippers => Undoer(Clippers)
         /\ live[i].kind \in Positioners => Undoer(Positioners)
         /\ live[i].kind \in Style!Slides => Undoer(Style!Slides)
         /\ live[i].kind = "Puff" => styleOptions.live <= 1 /\ ~style.madePositioned
         /\ styleOptions.live <= 1 => /\ Returns(live[i])
                                      /\ \A j \in DOMAIN live : j = i
         /\ styleOptions.live = 0 =>
              live[i].kind \in {"SlideDown", "BlindDown", "Appear", "SlideUp", "BlindUp", "Fade"}
<1>1. /\ styleOptions \in StyleOptions /\ pair \in styleOptions.togglable
      /\ live \in Seq(Starteds) /\ Len(live) \in Nat /\ DOMAIN live = 1..Len(live)
      /\ styleOptions.live \in Nat
      /\ styleOptions.live <= 1 => Len(live) <= 1
  BY LiveFacts
<1>2. styleOptions.live <= 1 => Returns(live[i]) /\ \A j \in DOMAIN live : j = i
  BY <1>1 DEF StyleInv, Lone
<1>3. styleOptions.live = 0 =>
        live[i].kind \in {"SlideDown", "BlindDown", "Appear", "SlideUp", "BlindUp", "Fade"}
  BY <1>1, PairOf DEF StyleInv, PairInv
<1>4. ASSUME live[i].kind = "Puff" PROVE styleOptions.live <= 1 /\ ~style.madePositioned
  <2>1. styleOptions.live # 0
    BY <1>3, <1>4
  <2>2. "Puff" \in styleOptions.kinds
    BY <1>4, <2>1 DEF StyleInv
  <2>3. styleOptions.live <= 1
    BY <1>1, <2>2, StyleAssumed
  <2>4. \A j \in DOMAIN live : live[j].kind = "Puff"
    BY <1>2, <1>4, <2>3
  <2>5. ~Undoer(Positioners)
    BY <2>4 DEF Undoer, Positioners
  <2> QED
    BY <2>3, <2>5 DEF StyleInv
<1> QED
  BY <1>2, <1>3, <1>4 DEF Undoer

LEMMA BeginKeeps == StyleInv /\ Style!Begin => StyleInv'
<1> SUFFICES ASSUME StyleInv, NEW i \in DOMAIN live,
                    ~live[i].running,
                    live' = [live EXCEPT ![i] = [live[i] EXCEPT !.running = TRUE,
                                                               !.found = Style!Kept(style)]],
                    style' = Style!Drawn(live[i].kind, live[i].stage,
                               Style!SetUp(live[i].kind, live[i].stage, style), "mid"),
                    lost' = lost \cup Style!Foreign(Style!Finds(live[i].kind, live[i].stage)),
                    UNCHANGED <<styleOptions, pair, own, created, last>>
             PROVE  StyleInv'
  BY DEF Style!Begin
<1> DEFINE k == live[i].kind
           stage == live[i].stage
<1>1. /\ own \in Style!Original /\ style \in Styles
      /\ live \in Seq(Starteds) /\ Len(live) \in Nat /\ DOMAIN live = 1..Len(live)
      /\ live[i] \in Starteds /\ k \in Style!AllKinds /\ stage \in 1..2
  BY LiveFacts
<1>2. Style!Kept(style) \in Keeping
  BY <1>1, StyleOf DEF Style!Kept, Keeping
<1>3. PICK e \in Starteds :
        /\ e = [live[i] EXCEPT !.running = TRUE, !.found = Style!Kept(style)]
        /\ e.kind = k /\ e.stage = stage /\ e.running = TRUE
        /\ e.saved = live[i].saved /\ e.found = Style!Kept(style)
  <2> DEFINE x == [live[i] EXCEPT !.running = TRUE, !.found = Style!Kept(style)]
  <2>1. /\ x \in Starteds /\ x.kind = k /\ x.stage = stage /\ x.running = TRUE
        /\ x.saved = live[i].saved /\ x.found = Style!Kept(style)
    BY <1>1, <1>2 DEF Starteds
  <2> QED
    BY <2>1
<1>4. live' = [live EXCEPT ![i] = e]
  BY <1>3
<1>5. PICK n \in Seq(Starteds) : n = live'
  BY <1>1, <1>4, ExceptSeq
<1>6. /\ Len(n) = Len(live) /\ n[i] = e /\ \A j \in DOMAIN live : j # i => n[j] = live[j]
  BY <1>1, <1>4, <1>5
<1>7. PICK r : r = Style!SetUp(k, stage, style)
  OBVIOUS
<1>8. k = "Puff" => ~style.madePositioned
  BY LiveOne
<1>9. /\ r \in Styles /\ (Undoable(style) => Undoable(r)) /\ MadeBy(style, r, k) /\ r.top = style.top
      /\ r.position = "absolute" => style.position = "absolute" \/ k = "Puff"
      /\ r.height = style.height \/ Style!ScalesIn(k, stage)
      /\ r.opacity = style.opacity \/ Style!FadesIn(k, stage)
      /\ k \in {"Appear", "BlindDown", "SlideDown"} => r.shown
      /\ style.madeClipping # "none" \/ k \in {"BlindDown", "SlideDown"} => r.madeClipping # "none"
  <2> HIDE DEF k, stage
  <2> QED
    BY <1>1, <1>7, <1>8, SetUpKeeps
<1>10. style' = Style!Drawn(k, stage, r, "mid")
  BY <1>7
<1>11. /\ Dressed(r, style')
       /\ style'.opacity = IF Style!FadesIn(k, stage) THEN "mid" ELSE r.opacity
       /\ style'.height = IF Style!ScalesIn(k, stage) THEN "mid" ELSE r.height
       /\ style'.top = r.top \/ Style!MovesIn(k, stage) \/ k = "Puff"
  <2> HIDE DEF k, stage
  <2> QED
    BY <1>9, <1>10, DrawnKeeps
<1>12. style' \in Styles /\ Undoable(style')
  BY <1>9, <1>11, DressedIsUndoable DEF Dressed, StyleInv
<1>13. /\ style'.madeClipping # "none" => Undoer(Clippers)
       /\ style'.madePositioned => Undoer(Positioners)
       /\ style'.madeChild => Undoer(Style!Slides)
  BY <1>9, <1>11, LiveOne DEF Dressed, MadeBy, StyleInv
<1>14. styleOptions.live > 1 => style'.position # "absolute"
  <2>1. styleOptions.live > 1 => k # "Puff"
    BY LiveFacts, LiveOne
  <2> QED
    BY <1>9, <1>11, <2>1 DEF Dressed, StyleInv
<1>15. ASSUME styleOptions.live <= 1, NEW j \in DOMAIN live PROVE Returns(n[j])'
  <2>1. j = i /\ Returns(live[i])
    BY <1>15, LiveOne
  <2>2. n[j] = e
    BY <1>6, <2>1
  <2>3. e.saved.position = own.position
    BY <1>3, <2>1 DEF Returns
  <2>4. style'.position = "absolute" => k = "Puff"
    BY <1>9, <1>11, <2>1 DEF Returns, Dressed
  <2>5. e.kind = k
    BY <1>3
  <2> HIDE DEF k, stage
  <2>6. Returns(e)'
    BY <2>3, <2>4, <2>5 DEF Returns
  <2> QED
    BY <2>2, <2>6 DEF Returns
<1>16. ASSUME styleOptions.live = 0, NEW j \in DOMAIN live
       PROVE  /\ \/ n[j].kind \in {"BlindUp", "SlideUp"}
                 \/ n[j].running /\ n[j].kind \in {"BlindDown", "SlideDown"}
                 => style'.madeClipping # "none"
              /\ n[j].running /\ n[j].kind \in {"Appear", "BlindDown", "SlideDown"} => style'.shown
  <2>1. j = i
    BY <1>16, LiveOne
  <2>2. n[j].kind = k
    BY <1>3, <1>6, <2>1
  <2>3. k \in {"BlindUp", "SlideUp"} => style.madeClipping # "none"
    BY <1>16 DEF StyleInv, PairInv
  <2> QED
    BY <1>9, <1>11, <2>2, <2>3 DEF Dressed
<1>17. \A j \in DOMAIN live : n[j].kind = live[j].kind /\ n[j].stage = live[j].stage
  BY <1>3, <1>6
<1>18. \A j \in DOMAIN live : n[j].stage = 2 => Style!Chained(n[j].kind)
  BY <1>17 DEF StyleInv
<1>19. live # << >>
  BY <1>1
<1>20. lost' \subseteq Style!Animated
  <2>1. lost \subseteq Style!Animated
    BY DEF StyleInv, Style!TypeOK
  <2>2. Style!Foreign(Style!Finds(k, stage)) \subseteq Style!Animated
    BY Within
  <2> QED
    BY <2>1, <2>2
<1> HIDE DEF k, stage
<1> QED
  BY <1>5, <1>6, <1>12, <1>13, <1>14, <1>15, <1>16, <1>17, <1>18, <1>19, <1>20, KindsStay

LEMMA FrameKeeps == StyleInv /\ Style!Frame => StyleInv'
<1> SUFFICES ASSUME StyleInv, NEW i \in DOMAIN live, live[i].running,
                    style' = Style!Drawn(live[i].kind, live[i].stage, style, "mid"),
                    UNCHANGED <<styleOptions, pair, own, live, created, last, lost>>
             PROVE  StyleInv'
  BY DEF Style!Frame
<1> DEFINE k == live[i].kind
           stage == live[i].stage
<1>1. /\ style \in Styles
      /\ live \in Seq(Starteds) /\ Len(live) \in Nat /\ DOMAIN live = 1..Len(live)
  BY LiveFacts
<1>2. /\ Dressed(style, style')
      /\ style'.opacity = IF Style!FadesIn(k, stage) THEN "mid" ELSE style.opacity
      /\ style'.height = IF Style!ScalesIn(k, stage) THEN "mid" ELSE style.height
      /\ style'.top = style.top \/ Style!MovesIn(k, stage) \/ k = "Puff"
  <2>1. style' = Style!Drawn(k, stage, style, "mid")
    OBVIOUS
  <2> HIDE DEF k, stage
  <2> QED
    BY <1>1, <2>1, DrawnKeeps
<1>3. style' \in Styles /\ Undoable(style')
  BY <1>2, DressedIsUndoable DEF Dressed, StyleInv
<1>4. /\ style'.madeClipping # "none" => Undoer(Clippers)
      /\ style'.madePositioned => Undoer(Positioners)
      /\ style'.madeChild => Undoer(Style!Slides)
      /\ styleOptions.live > 1 => style'.position # "absolute"
  BY <1>2 DEF Dressed, StyleInv
<1>5. ASSUME styleOptions.live <= 1, NEW j \in DOMAIN live PROVE Returns(live[j])'
  <2>1. j = i /\ Returns(live[i])
    BY <1>5, LiveOne
  <2>2. style'.position = "absolute" => k = "Puff"
    BY <1>2, <2>1 DEF Returns, Dressed
  <2> QED
    BY <2>1, <2>2 DEF Returns
<1>6. ASSUME styleOptions.live = 0, NEW j \in DOMAIN live
      PROVE  /\ \/ live[j].kind \in {"BlindUp", "SlideUp"}
                \/ live[j].running /\ live[j].kind \in {"BlindDown", "SlideDown"}
                => style'.madeClipping # "none"
             /\ live[j].running /\ live[j].kind \in {"Appear", "BlindDown", "SlideDown"} => style'.shown
  BY <1>2, <1>6 DEF StyleInv, PairInv, Dressed
<1>7. /\ live # << >> /\ live' = live /\ lost' \subseteq Style!Animated
      /\ \A j \in DOMAIN live : live[j].stage = 2 => Style!Chained(live[j].kind)
  BY <1>1 DEF StyleInv, Style!TypeOK
<1> QED
  BY <1>1, <1>3, <1>4, <1>5, <1>6, <1>7, KindsStay

\* What the last frame of a stage draws, and what Scale restores there.
LEMMA LastFrame ==
  ASSUME NEW kind \in Style!AllKinds, NEW stage \in 1..2, NEW found \in Keeping, style \in Styles,
         NEW n, n = LET drawn == Style!Drawn(kind, stage, style, Style!LastOpacity(kind))
                    IN  IF Style!Restores(kind, stage) THEN Style!PutBox(drawn, found) ELSE drawn
  PROVE  /\ Dressed(style, n)
         /\ n.opacity = IF Style!FadesIn(kind, stage) THEN Style!LastOpacity(kind) ELSE style.opacity
         /\ n.bottom \in {style.bottom, "own"}
         /\ n.childBottom \in {style.childBottom, "own"} \/ kind \in Style!Slides
         /\ Style!Restores(kind, stage) => n.height = found.height /\ n.top = found.top
         /\ ~Style!Restores(kind, stage) =>
              /\ n.height = IF Style!ScalesIn(kind, stage) THEN "mid" ELSE style.height
              /\ n.top = style.top \/ Style!MovesIn(kind, stage) \/ kind = "Puff"
<1>1. PICK d : d = Style!Drawn(kind, stage, style, Style!LastOpacity(kind))
  OBVIOUS
<1>2. Style!LastOpacity(kind) \in {"full", "mid", "zero"}
  BY DEF Style!LastOpacity
<1>3. /\ Dressed(style, d)
      /\ d.opacity = IF Style!FadesIn(kind, stage) THEN Style!LastOpacity(kind) ELSE style.opacity
      /\ d.height = IF Style!ScalesIn(kind, stage) THEN "mid" ELSE style.height
      /\ d.top = style.top \/ Style!MovesIn(kind, stage) \/ kind = "Puff"
      /\ d.bottom = style.bottom /\ (d.childBottom = style.childBottom \/ kind \in Style!Slides)
  BY <1>1, <1>2, DrawnKeeps
<1>4. CASE Style!Restores(kind, stage)
  <2>1. n = Style!PutBox(d, found)
    BY <1>1, <1>4
  <2>2. d \in Styles
    BY <1>3 DEF Dressed
  <2>3. Dressed(d, n) /\ Calm(d, n) /\ n.top = found.top /\ n.height = found.height /\ n.opacity = d.opacity
    BY <2>1, <2>2, BoxPut
  <2>4. Dressed(style, n)
    BY <1>3, <2>3 DEF Dressed
  <2> QED
    BY <1>3, <1>4, <2>3, <2>4 DEF Calm
<1>5. CASE ~Style!Restores(kind, stage)
  <2>1. n = d
    BY <1>1, <1>5
  <2> QED
    BY <1>3, <1>5, <2>1
<1> QED
  BY <1>4, <1>5

LEMMA ChainKeeps ==
  ASSUME StyleInv, NEW i \in DOMAIN live, live[i].running, Style!Chained(live[i].kind), live[i].stage = 1,
         live' = [live EXCEPT ![i] = [live[i] EXCEPT !.stage = 2, !.running = FALSE]],
         style' = LET drawn == Style!Drawn(live[i].kind, live[i].stage, style,
                                           Style!LastOpacity(live[i].kind))
                  IN  IF Style!Restores(live[i].kind, live[i].stage)
                      THEN Style!PutBox(drawn, live[i].found) ELSE drawn,
         UNCHANGED <<styleOptions, pair, own, created, last, lost>>
  PROVE  StyleInv'
<1> DEFINE k == live[i].kind
<1>1. /\ style \in Styles
      /\ live \in Seq(Starteds) /\ Len(live) \in Nat /\ DOMAIN live = 1..Len(live)
      /\ live[i] \in Starteds /\ k \in Style!AllKinds /\ live[i].found \in Keeping
  BY LiveFacts
<1>2. PICK e \in Starteds :
        /\ e = [live[i] EXCEPT !.stage = 2, !.running = FALSE]
        /\ e.kind = k /\ e.stage = 2 /\ e.running = FALSE
        /\ e.saved = live[i].saved /\ e.found = live[i].found
  <2> DEFINE x == [live[i] EXCEPT !.stage = 2, !.running = FALSE]
  <2>1. /\ x.kind = k /\ x.stage = 2 /\ x.running = FALSE
        /\ x.saved = live[i].saved /\ x.found = live[i].found
    BY <1>1 DEF Starteds
  <2>2. x \in Starteds
    <3>1. 2 \in 1..2
      OBVIOUS
    <3> QED
      BY <1>1, <3>1 DEF Starteds
  <2> QED
    BY <2>1, <2>2
<1>3. live' = [live EXCEPT ![i] = e]
  BY <1>2
<1>4. PICK n \in Seq(Starteds) : n = live'
  BY <1>1, <1>3, ExceptSeq
<1>5. /\ Len(n) = Len(live) /\ n[i] = e /\ \A j \in DOMAIN live : j # i => n[j] = live[j]
  BY <1>1, <1>3, <1>4
<1>6. k \in {"SwitchOff", "Shake", "Grow", "Fold"} /\ ~Style!Restores(k, 1)
  BY DEF Style!Chained, Style!Restores, Style!ScalesIn, Style!Scales
<1>7. /\ Dressed(style, style')
      /\ style'.opacity = IF Style!FadesIn(k, 1) THEN Style!LastOpacity(k) ELSE style.opacity
      /\ style'.height = IF Style!ScalesIn(k, 1) THEN "mid" ELSE style.height
      /\ style'.top = style.top \/ Style!MovesIn(k, 1) \/ k = "Puff"
  <2>1. /\ Dressed(style, style')
        /\ style'.opacity = IF Style!FadesIn(k, live[i].stage) THEN Style!LastOpacity(k) ELSE style.opacity
        /\ ~Style!Restores(k, live[i].stage) =>
              /\ style'.height = IF Style!ScalesIn(k, live[i].stage) THEN "mid" ELSE style.height
              /\ style'.top = style.top \/ Style!MovesIn(k, live[i].stage) \/ k = "Puff"
    BY <1>1, LastFrame
  <2> QED
    BY <1>6, <2>1
<1>8. style' \in Styles /\ Undoable(style')
  BY <1>7, DressedIsUndoable DEF Dressed, StyleInv
<1>9. /\ style'.madeClipping # "none" => Undoer(Clippers)
      /\ style'.madePositioned => Undoer(Positioners)
      /\ style'.madeChild => Undoer(Style!Slides)
      /\ styleOptions.live > 1 => style'.position # "absolute"
  BY <1>7 DEF Dressed, StyleInv
<1>10. ASSUME styleOptions.live <= 1, NEW j \in DOMAIN live PROVE Returns(n[j])'
  <2>1. j = i /\ Returns(live[i])
    BY <1>10, LiveOne
  <2>2. n[j] = e
    BY <1>5, <2>1
  <2>3. e.saved.position = own.position
    BY <1>2, <2>1 DEF Returns
  <2>4. style'.position = "absolute" => k = "Puff"
    BY <1>7, <2>1 DEF Returns, Dressed
  <2>5. e.kind = k
    BY <1>2
  <2> HIDE DEF k
  <2>6. Returns(e)'
    BY <2>3, <2>4, <2>5 DEF Returns
  <2> QED
    BY <2>2, <2>6
<1>11. styleOptions.live # 0
  <2>1. ASSUME styleOptions.live = 0 PROVE FALSE
    <3>1. k \in {"SlideDown", "BlindDown", "Appear", "SlideUp", "BlindUp", "Fade"}
      BY <2>1, LiveOne
    <3> QED
      BY <1>6, <3>1
  <2> QED
    BY <2>1
<1>12. /\ live # << >> /\ lost' \subseteq Style!Animated
       /\ \A j \in DOMAIN live : n[j].kind = live[j].kind
       /\ \A j \in DOMAIN live : n[j].stage = 2 => Style!Chained(n[j].kind)
  <2>1. \A j \in DOMAIN live : n[j].kind = live[j].kind
    BY <1>2, <1>5
  <2>2. \A j \in DOMAIN live : n[j].stage = 2 => Style!Chained(n[j].kind)
    BY <1>2, <1>5 DEF StyleInv
  <2> QED
    BY <1>1, <2>1, <2>2 DEF StyleInv, Style!TypeOK
<1> HIDE DEF k
<1> QED
  BY <1>4, <1>5, <1>8, <1>9, <1>10, <1>11, <1>12, KindsStay

\* What is left when one effect is taken out.
LEMMA LeftWithout ==
  ASSUME live \in Seq(Starteds), NEW i \in 1..Len(live), NEW n \in Seq(Starteds),
         Len(n) = Len(live) - 1,
         \A j \in 1..Len(n) : n[j] = live[IF j < i THEN j ELSE j + 1]
  PROVE  /\ \A j \in DOMAIN n : \E m \in DOMAIN live : m # i /\ n[j] = live[m]
         /\ \A m \in DOMAIN live : m # i => \E j \in DOMAIN n : n[j] = live[m]
<1> DEFINE l == Len(live)
<1>1. l \in Nat /\ DOMAIN live = 1..l /\ DOMAIN n = 1..Len(n) /\ Len(n) \in Nat
  OBVIOUS
<1>2. i \in 1..l /\ Len(n) = l - 1
  OBVIOUS
<1> HIDE DEF l
<1>3. \A j \in 1..Len(n) : \E m \in 1..l : m # i /\ n[j] = live[m]
  <2> SUFFICES ASSUME NEW j \in 1..Len(n) PROVE \E m \in 1..l : m # i /\ n[j] = live[m]
    OBVIOUS
  <2>1. CASE j < i
    BY <1>1, <1>2, <2>1
  <2>2. CASE ~(j < i)
    <3>1. j + 1 \in 1..l /\ j + 1 # i
      BY <1>1, <1>2, <2>2
    <3> QED
      BY <2>2, <3>1
  <2> QED
    BY <2>1, <2>2
<1>4. \A m \in 1..l : m # i => \E j \in 1..Len(n) : n[j] = live[m]
  <2> SUFFICES ASSUME NEW m \in 1..l, m # i PROVE \E j \in 1..Len(n) : n[j] = live[m]
    OBVIOUS
  <2>1. CASE m < i
    <3>1. m \in 1..Len(n)
      BY <1>1, <1>2, <2>1
    <3> QED
      BY <2>1, <3>1
  <2>2. CASE m > i
    <3>1. m - 1 \in 1..Len(n) /\ ~(m - 1 < i) /\ (m - 1) + 1 = m
      BY <1>1, <1>2, <2>2
    <3> QED
      BY <3>1
  <2> QED
    BY <1>1, <1>2, <2>1, <2>2
<1> QED
  BY <1>1, <1>3, <1>4

LEMMA LastKeeps ==
  ASSUME StyleInv, NEW i \in DOMAIN live, live[i].running,
         Style!Chained(live[i].kind) => live[i].stage # 1,
         NEW r, r = LET drawn == Style!Drawn(live[i].kind, live[i].stage, style,
                                           Style!LastOpacity(live[i].kind))
                  IN  IF Style!Restores(live[i].kind, live[i].stage)
                      THEN Style!PutBox(drawn, live[i].found) ELSE drawn,
         live' = Style!RemoveAt(live, i),
         style' = Style!Finished(live[i].kind, r, live[i].saved),
         last' = {live[i].kind}, lost' = lost \cup Style!Misplaced(live[i].kind),
         UNCHANGED <<styleOptions, pair, own, created>>
  PROVE  StyleInv'
<1> DEFINE k == live[i].kind
           stage == live[i].stage
           l == Len(live)
<1>1. /\ style \in Styles /\ own \in Style!Original
      /\ live \in Seq(Starteds) /\ l \in Nat /\ DOMAIN live = 1..l
      /\ styleOptions.live \in Nat
  BY LiveFacts
<1>2. /\ live[i] \in Starteds /\ k \in Style!AllKinds /\ stage \in 1..2
      /\ live[i].found \in Keeping /\ live[i].saved \in Keeping
  BY LiveFacts
<1>3. /\ Dressed(style, r)
      /\ r.opacity = IF Style!FadesIn(k, stage) THEN Style!LastOpacity(k) ELSE style.opacity
      /\ Style!Restores(k, stage) => r.height = live[i].found.height /\ r.top = live[i].found.top
      /\ ~Style!Restores(k, stage) =>
              /\ r.height = IF Style!ScalesIn(k, stage) THEN "mid" ELSE style.height
              /\ r.top = style.top \/ Style!MovesIn(k, stage) \/ k = "Puff"
  BY <1>1, <1>2, LastFrame
<1>4. r \in Styles /\ Undoable(r)
  BY <1>3, DressedIsUndoable DEF Dressed, StyleInv
<1>5. styleOptions.live <= 1 => Returns(live[i])
  BY LiveOne
<1>6. k = "Puff" => live[i].saved.position = own.position /\ ~r.madePositioned
  BY <1>3, <1>5, LiveOne DEF Returns, Dressed
<1>7. FinishesWell(k, r, style', live[i].saved)
  BY <1>1, <1>2, <1>4, <1>6, FinishedKeeps
<1>8. PICK n \in Seq(Starteds) : /\ n = live' /\ Len(n) = l - 1
                                 /\ \A j \in 1..Len(n) : n[j] = live[IF j < i THEN j ELSE j + 1]
  <2>1. live' = List!RemoveAt(live, i)
    BY DEF Style!RemoveAt, List!RemoveAt
  <2>2. i \in 1..Len(live)
    BY <1>1
  <2>3. /\ live' \in Seq(Starteds) /\ Len(live') = Len(live) - 1
        /\ \A j \in 1..Len(live') : live'[j] = live[IF j < i THEN j ELSE j + 1]
    BY <1>1, <2>1, <2>2, TakenOut
  <2> QED
    BY <2>3
<1>9. DOMAIN n = 1..Len(n) /\ Len(n) \in Nat
  OBVIOUS
<1> HIDE DEF k, stage
<1>10. /\ \A j \in 1..Len(n) : \E m \in 1..l : m # i /\ n[j] = live[m]
       /\ \A m \in 1..l : m # i => \E j \in 1..Len(n) : n[j] = live[m]
  <2>1. i \in 1..Len(live) /\ Len(n) = Len(live) - 1
    BY <1>1, <1>8
  <2>2. \A j \in 1..Len(n) : n[j] = live[IF j < i THEN j ELSE j + 1]
    BY <1>8
  <2>3. /\ \A j \in DOMAIN n : \E m \in DOMAIN live : m # i /\ n[j] = live[m]
        /\ \A m \in DOMAIN live : m # i => \E j \in DOMAIN n : n[j] = live[m]
    BY ONLY <1>1, <2>1, <2>2, n \in Seq(Starteds), LeftWithout
  <2> QED
    BY <1>1, <1>9, <2>3
<1> HIDE DEF l
<1>11. ASSUME NEW kinds, Undoer(kinds), k \notin kinds PROVE Undoer(kinds)'
  <2>1. PICK m \in 1..l : live[m].kind \in kinds
    BY <1>1, <1>11 DEF Undoer
  <2>2. m # i
    BY <1>11, <2>1 DEF k
  <2>3. PICK j \in 1..Len(n) : n[j] = live[m]
    BY <1>10, <2>2
  <2> QED
    BY <1>8, <1>9, <2>1, <2>3 DEF Undoer
<1>12. /\ style'.madeClipping # "none" => Undoer(Clippers)'
       /\ style'.madePositioned => Undoer(Positioners)'
       /\ style'.madeChild => Undoer(Style!Slides)'
  <2>1. /\ style'.madeClipping # "none" => style.madeClipping # "none" /\ k \notin Clippers
        /\ style'.madePositioned => style.madePositioned /\ k \notin Positioners
        /\ style'.madeChild => style.madeChild /\ k \notin Style!Slides
    BY <1>3, <1>7 DEF FinishesWell, UndoneBy, Dressed
  <2> QED
    BY <1>11, <2>1 DEF StyleInv
<1>13. style' \in Styles /\ Undoable(style')
  BY <1>4, <1>7 DEF FinishesWell
<1>14. Undoable(style)'
  BY <1>13 DEF Undoable
<1>15. Style!TypeOK'
  <2>1. Len(n) <= IF styleOptions.live = 0 THEN 1 ELSE styleOptions.live
    BY <1>1, <1>8 DEF StyleInv, Style!TypeOK, l
  <2>2. {k} \subseteq Style!AllKinds
    BY <1>2
  <2>3. lost' \subseteq Style!Animated
    <3>1. Style!Misplaced(k) \subseteq Style!Animated
      BY Within DEF Style!Animated
    <3> QED
      BY <3>1 DEF StyleInv, Style!TypeOK, k
  <2> QED
    BY <1>8, <1>13, <2>1, <2>2, <2>3 DEF StyleInv, Style!TypeOK, Styles, k
<1>16. \A j \in DOMAIN n : /\ styleOptions.live = 0 \/ n[j].kind \in styleOptions.kinds
                           /\ n[j].stage = 2 => Style!Chained(n[j].kind)
  <2>1. \A m \in 1..l : /\ styleOptions.live = 0 \/ live[m].kind \in styleOptions.kinds
                        /\ live[m].stage = 2 => Style!Chained(live[m].kind)
    BY <1>1 DEF StyleInv
  <2> QED
    BY ONLY <1>9, <1>10, <2>1
<1>17. styleOptions.live > 1 => style'.position # "absolute"
  BY <1>3, <1>7 DEF FinishesWell, Dressed, StyleInv
<1>18. styleOptions.live <= 1 => n = << >>
  <2>1. styleOptions.live <= 1 => \A j \in 1..l : j = i
    BY <1>1, LiveOne
  <2>2. ASSUME n # << >> PROVE \E j \in 1..l : j # i
    <3>1. 1 \in 1..Len(n)
      BY <1>9, <2>2
    <3> QED
      BY <1>10, <3>1
  <2> QED
    BY <2>1, <2>2
<1>19. ASSUME styleOptions.live <= 1 PROVE Lone'
  <2>1. Returns(live[i])
    BY <1>5, <1>19
  <2>2. style'.position # "absolute"
    BY <1>3, <1>7, <2>1 DEF FinishesWell, Dressed, Returns, k
  <2> QED
    BY <1>8, <1>9, <1>18, <1>19, <2>2 DEF Lone
<1>20. ASSUME styleOptions.live = 0 PROVE PairInv'
  <2>1. k \in {"SlideDown", "BlindDown", "Appear", "SlideUp", "BlindUp", "Fade"}
    BY <1>20, LiveOne DEF k
  <2>2. k \in {"Appear", "BlindDown", "SlideDown"} => style.shown
    BY <1>20 DEF StyleInv, PairInv, k
  <2>3. style'.shown = ({k} \cap {"Fade", "BlindUp", "SlideUp"} = {})
    <3>1. CASE k \in {"Appear", "BlindDown", "SlideDown"}
      <4>1. style'.shown = style.shown /\ style.shown \in BOOLEAN
        <5>1. style'.shown = r.shown
          BY <1>7, <3>1 DEF FinishesWell
        <5>2. r.shown = style.shown
          BY <1>3 DEF Dressed
        <5>3. style.shown \in BOOLEAN
          BY <1>1, StyleOf
        <5> QED
          BY <5>1, <5>2, <5>3
      <4>2. {k} \cap {"Fade", "BlindUp", "SlideUp"} = {}
        BY <3>1
      <4> QED
        BY <2>2, <3>1, <4>1, <4>2
    <3>2. CASE k \in {"Fade", "BlindUp", "SlideUp"}
      <4>1. ~style'.shown /\ style'.shown \in BOOLEAN
        BY <1>7, <1>13, <3>2, StyleOf DEF FinishesWell
      <4>2. {k} \cap {"Fade", "BlindUp", "SlideUp"} # {}
        BY <3>2
      <4> QED
        BY <4>1, <4>2
    <3> QED
      BY <2>1, <3>1, <3>2
  <2>4. n = << >>
    BY <1>1, <1>18, <1>20
  <2> QED
    BY <1>8, <1>9, <2>3, <2>4 DEF PairInv, k
<1> QED
  BY <1>8, <1>12, <1>14, <1>15, <1>16, <1>17, <1>19, <1>20 DEF StyleInv

LEMMA StyleSteps == StyleInv /\ [Style!Next]_styleVars => StyleInv'
<1> SUFFICES ASSUME StyleInv, [Style!Next]_styleVars PROVE StyleInv'
  OBVIOUS
<1>1. /\ styleOptions \in StyleOptions /\ pair \in styleOptions.togglable
      /\ styleOptions.live \in Nat /\ Len(live) \in Nat /\ live \in Seq(Starteds)
  BY LiveFacts
<1>2. CASE Style!Direct
  <2>1. PICK kind \in styleOptions.kinds : Style!Create(kind, TRUE)
    BY <1>2 DEF Style!Direct
  <2>2. kind \in Style!AllKinds
    BY <1>1, StyleAssumed
  <2>3. Len(live) < styleOptions.live
    BY <1>2 DEF Style!Direct
  <2> QED
    BY <2>1, <2>2, <2>3, CreateKeeps
<1>3. CASE Style!Toggle
  <2>1. PICK kind : /\ kind \in {Style!Pairs[pair].show, Style!Pairs[pair].hide}
                    /\ Style!Create(kind, live = << >>)
    BY <1>3 DEF Style!Toggle, Style!BelowLimit
  <2>2. kind \in Style!AllKinds
    BY <1>1, <2>1, PairOf DEF Style!AllKinds
  <2>3. styleOptions.live = 0
    BY <1>3 DEF Style!Toggle
  <2>4. PICK admitted \in BOOLEAN : admitted = (live = << >>)
    OBVIOUS
  <2> QED
    BY <2>1, <2>2, <2>3, <2>4, CreateKeeps
<1>4. CASE Style!Begin
  BY <1>4, BeginKeeps
<1>5. CASE Style!Frame
  BY <1>5, FrameKeeps
<1>6. CASE Style!End
  <2>1. PICK i \in DOMAIN live :
          LET e == live[i]
              drawn == Style!Drawn(e.kind, e.stage, style, Style!LastOpacity(e.kind))
              restored == IF Style!Restores(e.kind, e.stage) THEN Style!PutBox(drawn, e.found) ELSE drawn
          IN  /\ e.running
              /\ IF Style!Chained(e.kind) /\ e.stage = 1
                 THEN /\ live' = [live EXCEPT ![i] = [e EXCEPT !.stage = 2, !.running = FALSE]]
                      /\ style' = restored
                      /\ UNCHANGED <<last, lost>>
                 ELSE /\ live' = Style!RemoveAt(live, i)
                      /\ style' = Style!Finished(e.kind, restored, e.saved)
                      /\ last' = {e.kind}
                      /\ lost' = lost \cup Style!Misplaced(e.kind)
              /\ UNCHANGED <<styleOptions, pair, own, created>>
    BY <1>6 DEF Style!End
  <2>2. CASE Style!Chained(live[i].kind) /\ live[i].stage = 1
    BY <2>1, <2>2, ChainKeeps
  <2>3. CASE ~(Style!Chained(live[i].kind) /\ live[i].stage = 1)
    <3>1. PICK r : r = LET drawn == Style!Drawn(live[i].kind, live[i].stage, style,
                                           Style!LastOpacity(live[i].kind))
                  IN  IF Style!Restores(live[i].kind, live[i].stage)
                      THEN Style!PutBox(drawn, live[i].found) ELSE drawn
      OBVIOUS
    <3> QED
      BY <2>1, <2>3, <3>1, LastKeeps
  <2> QED
    BY <2>2, <2>3
<1>7. CASE UNCHANGED styleVars
  <2>1. Style!TypeOK'
    BY <1>7 DEF styleVars, StyleInv, Style!TypeOK
  <2> QED
    BY <1>7, <2>1 DEF styleVars, StyleInv, Undoable, Undoer, Lone, Returns, PairInv
<1> QED
  BY <1>2, <1>3, <1>4, <1>5, <1>6, <1>7 DEF Style!Next

\* What an effect sets at its end, whatever it has kept.
EndsAt(kind) ==
  CASE kind = "Appear"  -> {"opacity"}
    [] kind = "SlideUp" -> {"childBottom"}
    [] OTHER            -> {}

\* What an effect will have put back when it is over.
WillPut(e) ==
  Style!Puts(e.kind) \cup
  (IF e.running THEN Style!Finds(e.kind, e.stage) \cup EndsAt(e.kind) ELSE {})

\* An effect has kept what the page gave the element.
KeptOwn(e) ==
  /\ \A a \in Style!Puts(e.kind) \ lost : e.saved[a] = own[a]
  /\ e.running => \A a \in Style!Finds(e.kind, e.stage) \ lost : e.found[a] = own[a]

\* What is not as the page gave it, an effect will put back; alone, it finds
\* everything in its place, and SlideUp has positioned a child that was not.
ComesBack ==
  /\ \A i \in DOMAIN live : KeptOwn(live[i])
  /\ \A a \in Style!Animated \ lost :
       style[a] = own[a] \/ \E i \in DOMAIN live : a \in WillPut(live[i])
  /\ styleOptions.live <= 1 =>
       /\ lost \subseteq {"bottom", "childBottom"}
       /\ own.childPosition = "static" =>
            /\ "childBottom" \notin lost
            /\ \A i \in DOMAIN live : live[i].kind = "SlideUp" => style.madeChild

\* What a frame of a stage changes.
Touched(kind, stage) ==
  {a \in Style!Animated :
     \/ a = "opacity" /\ Style!FadesIn(kind, stage)
     \/ a = "height" /\ Style!ScalesIn(kind, stage)
     \/ a = "top" /\ (Style!MovesIn(kind, stage) \/ kind = "Puff")
     \/ a = "childBottom" /\ kind \in Style!Slides}

\* The end of the stage puts it back, or, of the first of two, the end of the second.
LEMMA TouchedComesBack ==
  ASSUME NEW kind \in Style!AllKinds, NEW stage \in 1..2, stage = 2 => Style!Chained(kind)
  PROVE  /\ Touched(kind, stage) \subseteq
              Style!Puts(kind) \cup Style!Finds(kind, stage) \cup EndsAt(kind)
         /\ Style!Chained(kind) /\ stage = 1 =>
              Touched(kind, stage) \subseteq Style!Puts(kind) /\ Style!Finds(kind, stage) = {}
<1>1. ASSUME Style!FadesIn(kind, stage)
      PROVE  /\ "opacity" \in Style!Puts(kind) \/ kind = "Appear"
  BY <1>1 DEF Style!FadesIn, Style!Fades, Style!Puts
<1>2. ASSUME Style!ScalesIn(kind, stage)
      PROVE  "height" \in Style!Puts(kind) \/ "height" \in Style!Finds(kind, stage)
  <2>1. CASE kind = "Fold"
    BY <2>1 DEF Style!Puts
  <2>2. CASE kind # "Fold"
    BY <1>2, <2>2 DEF Style!Finds, Style!Restores
  <2> QED
    BY <2>1, <2>2
<1>3. ASSUME Style!MovesIn(kind, stage) \/ kind = "Puff"
      PROVE  "top" \in Style!Puts(kind) \/ "top" \in Style!Finds(kind, stage)
  <2>1. CASE kind \in Style!Moves
    BY <2>1 DEF Style!Puts, Style!Moves
  <2>2. CASE kind \notin Style!Moves
    <3>1. Style!Restores(kind, stage)
      BY <1>3, <2>2 DEF Style!Restores, Style!MovesIn, Style!ScalesIn, Style!Scales
    <3> QED
      BY <3>1 DEF Style!Finds
  <2> QED
    BY <2>1, <2>2
<1>4. kind \in Style!Slides => "childBottom" \in Style!Puts(kind) \cup EndsAt(kind)
  BY DEF Style!Slides, Style!Puts, EndsAt
<1>5. kind = "Appear" => "opacity" \in EndsAt(kind)
  BY DEF EndsAt
<1>6. Touched(kind, stage) \subseteq Style!Puts(kind) \cup Style!Finds(kind, stage) \cup EndsAt(kind)
  BY <1>1, <1>2, <1>3, <1>4, <1>5 DEF Touched
<1>7. ASSUME Style!Chained(kind), stage = 1
      PROVE  Style!Finds(kind, stage) = {} /\ EndsAt(kind) = {}
  <2>1. ~Style!Restores(kind, stage)
    BY <1>7 DEF Style!Chained, Style!Restores, Style!ScalesIn, Style!Scales
  <2> QED
    BY <1>7, <2>1 DEF Style!Finds, EndsAt, Style!Chained
<1> QED
  BY <1>6, <1>7

LEMMA OwnValues ==
  ASSUME own \in Style!Original
  PROVE  /\ own.height = "own" /\ own.top = "own" /\ own.opacity = "full"
         /\ own.bottom = "own" /\ own.childBottom = "own"
BY DEF Style!Original

LEMMA CreatedLeaves ==
  ASSUME own \in Style!Original, NEW s \in Styles, NEW kind \in Style!AllKinds,
         NEW n, n = Style!Created(kind, s), NEW a \in Style!Animated
  PROVE  n[a] \in {s[a], own[a]}
<1>1. Alike(s, n) /\ n.top = s.top
  BY CreatedKeeps
<1>2. CASE a \in {"opacity", "top", "height"}
  BY <1>1, <1>2 DEF Alike
<1>3. CASE a \in {"bottom", "childBottom"}
  BY <1>1, <1>3, OwnValues DEF Alike, Calm
<1> QED
  BY <1>2, <1>3 DEF Style!Animated

LEMMA SetUpLeaves ==
  ASSUME own \in Style!Original, NEW s \in Styles, NEW kind \in Style!AllKinds,
         NEW stage \in 1..2, kind = "Puff" => ~s.madePositioned,
         NEW n, n = Style!SetUp(kind, stage, s), NEW a \in Style!Animated \ Touched(kind, stage)
  PROVE  n[a] \in {s[a], own[a]}
<1>1. /\ n.top = s.top /\ Calm(s, n)
      /\ n.height = s.height \/ Style!ScalesIn(kind, stage)
      /\ n.opacity = s.opacity \/ Style!FadesIn(kind, stage)
  BY SetUpKeeps
<1>2. CASE a \in {"opacity", "top", "height"}
  BY <1>1, <1>2 DEF Touched
<1>3. CASE a \in {"bottom", "childBottom"}
  BY <1>1, <1>3, OwnValues DEF Calm
<1> QED
  BY <1>2, <1>3 DEF Style!Animated

LEMMA DrawnLeaves ==
  ASSUME NEW s \in Styles, NEW kind, NEW stage,
         NEW n, n = Style!Drawn(kind, stage, s, "mid"), NEW a \in Style!Animated \ Touched(kind, stage)
  PROVE  n[a] = s[a]
<1>1. /\ n.opacity = IF Style!FadesIn(kind, stage) THEN "mid" ELSE s.opacity
      /\ n.height = IF Style!ScalesIn(kind, stage) THEN "mid" ELSE s.height
      /\ n.top = s.top \/ Style!MovesIn(kind, stage) \/ kind = "Puff"
      /\ n.bottom = s.bottom /\ (n.childBottom = s.childBottom \/ kind \in Style!Slides)
  BY DrawnKeeps
<1> QED
  BY <1>1 DEF Touched, Style!Animated

\* An effect that is created while nothing is under way finds everything in its place.
LEMMA CreateComesBack ==
  ASSUME StyleInv, ComesBack, NEW kind \in Style!AllKinds, NEW admitted \in BOOLEAN,
         Style!Create(kind, admitted), admitted /\ styleOptions.live <= 1 => live = << >>,
         ~admitted => live # << >>
  PROVE  ComesBack'
<1> DEFINE l == Len(live)
           e == Style!New(kind)
<1>1. /\ own \in Style!Original /\ style \in Styles
      /\ live \in Seq(Starteds) /\ l \in Nat /\ DOMAIN live = 1..l
      /\ styleOptions.live <= 1 => l <= 1
  BY LiveFacts
<1>2. /\ style' = Style!Created(kind, style)
      /\ live' = IF admitted THEN Append(live, e) ELSE live
      /\ lost' = IF admitted THEN lost \cup Style!Foreign(Style!Puts(kind)) ELSE lost
      /\ UNCHANGED <<styleOptions, own>>
  BY DEF Style!Create
<1>3. /\ style.madeChild => style'.madeChild
      /\ kind = "SlideUp" /\ own.childPosition = "static" => style'.madeChild
  BY <1>1, <1>2, CreatedKeeps DEF StyleInv
<1>4. /\ e \in Starteds /\ e.kind = kind /\ e.running = FALSE /\ e.saved = Style!Kept(style)
  <2>1. Style!Kept(style) \in Keeping
    BY <1>1, StyleOf DEF Style!Kept, Keeping
  <2> QED
    BY <2>1 DEF Style!New, Starteds
<1> HIDE DEF e
<1>5. PICK n \in Seq(Starteds) : n = live'
  BY <1>1, <1>2, <1>4
<1>6. /\ DOMAIN live \subseteq DOMAIN n /\ \A i \in DOMAIN live : n[i] = live[i]
      /\ \A i \in DOMAIN n : i \in DOMAIN live \/ (admitted /\ n[i] = e)
  <2>1. CASE admitted
    BY <1>1, <1>2, <1>5, <2>1
  <2>2. CASE ~admitted
    BY <1>1, <1>2, <1>5, <2>2
  <2> QED
    BY <2>1, <2>2
<1>7. lost \subseteq lost'
  BY <1>2
<1>8. ASSUME NEW i \in DOMAIN n PROVE KeptOwn(n[i])'
  <2>1. CASE i \in DOMAIN live
    <3>1. KeptOwn(live[i])
      BY <2>1 DEF ComesBack
    <3> QED
      BY <1>2, <1>5, <1>6, <1>7, <2>1, <3>1 DEF KeptOwn
  <2>2. CASE i \notin DOMAIN live
    <3>1. admitted /\ n[i] = e
      BY <1>6, <2>2
    <3>2. ASSUME NEW a \in Style!Puts(kind) \ lost' PROVE e.saved[a] = own[a]
      <4>1. style[a] = own[a]
        BY <1>2, <3>1, <3>2 DEF Style!Foreign
      <4>2. a \in {"opacity", "top", "height", "childBottom"}
        BY <3>2 DEF Style!Puts
      <4>3. e.saved[a] = style[a]
        BY <1>4, <4>2 DEF Style!Kept
      <4> QED
        BY <4>1, <4>3
    <3> QED
      BY <1>2, <1>4, <1>5, <3>1, <3>2 DEF KeptOwn
  <2> QED
    BY <2>1, <2>2
<1>9. ASSUME NEW a \in Style!Animated \ lost'
      PROVE  style'[a] = own'[a] \/ \E i \in DOMAIN n : a \in WillPut(n[i])
  <2>1. style[a] = own[a] \/ \E i \in DOMAIN live : a \in WillPut(live[i])
    BY <1>7, <1>9 DEF ComesBack
  <2>2. style'[a] \in {style[a], own[a]}
    BY <1>1, <1>2, <1>9, CreatedLeaves
  <2> QED
    BY <1>2, <1>5, <1>6, <2>1, <2>2
<1>10. ASSUME styleOptions.live <= 1
       PROVE  /\ lost' \subseteq {"bottom", "childBottom"}
              /\ own.childPosition = "static" =>
                   /\ "childBottom" \notin lost'
                   /\ \A i \in DOMAIN n : n[i].kind = "SlideUp" => style'.madeChild
  <2>1. lost' = lost
    <3>1. CASE admitted
      <4>1. \A a \in Style!Animated \ lost : style[a] = own[a]
        BY <1>1, <1>10, <3>1 DEF ComesBack
      <4>2. Style!Foreign(Style!Puts(kind)) \subseteq lost
        BY <4>1, Within DEF Style!Foreign
      <4> QED
        BY <1>2, <4>2
    <3>2. CASE ~admitted
      BY <1>2, <3>2
    <3> QED
      BY <3>1, <3>2
  <2>2. ASSUME own.childPosition = "static", NEW i \in DOMAIN n, n[i].kind = "SlideUp"
        PROVE  style'.madeChild
    <3>1. CASE i \in DOMAIN live
      <4>1. style.madeChild
        BY <1>6, <1>10, <2>2, <3>1 DEF ComesBack
      <4> QED
        BY <1>3, <4>1
    <3>2. CASE i \notin DOMAIN live
      BY <1>3, <1>4, <1>6, <2>2, <3>2
    <3> QED
      BY <3>1, <3>2
  <2> QED
    BY <1>10, <2>1, <2>2 DEF ComesBack
<1>11. DOMAIN live' = DOMAIN n
  BY <1>5
<1> QED
  BY <1>2, <1>5, <1>8, <1>9, <1>10, <1>11 DEF ComesBack

\* An effect that begins keeps what it finds, and will put back what it draws.
LEMMA BeginComesBack == StyleInv /\ ComesBack /\ Style!Begin => ComesBack'
<1> SUFFICES ASSUME StyleInv, ComesBack, NEW i \in DOMAIN live,
                    ~live[i].running,
                    live' = [live EXCEPT ![i] = [live[i] EXCEPT !.running = TRUE,
                                                               !.found = Style!Kept(style)]],
                    style' = Style!Drawn(live[i].kind, live[i].stage,
                               Style!SetUp(live[i].kind, live[i].stage, style), "mid"),
                    lost' = lost \cup Style!Foreign(Style!Finds(live[i].kind, live[i].stage)),
                    UNCHANGED <<styleOptions, own>>
             PROVE  ComesBack'
  BY DEF Style!Begin
<1> DEFINE k == live[i].kind
           stage == live[i].stage
<1>1. /\ own \in Style!Original /\ style \in Styles
      /\ live \in Seq(Starteds) /\ DOMAIN live = 1..Len(live)
      /\ live[i] \in Starteds /\ k \in Style!AllKinds /\ stage \in 1..2
      /\ live[i].running = FALSE
  BY LiveFacts
<1>2. PICK e : e = [live[i] EXCEPT !.running = TRUE, !.found = Style!Kept(style)]
  OBVIOUS
<1>3. /\ e.kind = k /\ e.stage = stage /\ e.running = TRUE
       /\ e.saved = live[i].saved /\ e.found = Style!Kept(style)
  BY <1>1, <1>2 DEF Starteds
<1>4. PICK n : n = live'
  OBVIOUS
<1>5. /\ n = live' /\ DOMAIN n = DOMAIN live /\ n[i] = e
      /\ \A j \in DOMAIN live : j # i => n[j] = live[j]
  BY <1>1, <1>2, <1>4
<1>6. stage = 2 => Style!Chained(k)
  BY DEF StyleInv
<1>7. k = "Puff" => ~style.madePositioned
  BY LiveOne
<1> HIDE DEF k, stage
<1>8. PICK r : r = Style!SetUp(k, stage, style)
  OBVIOUS
<1>9. r \in Styles /\ (k = "SlideUp" => r.madeChild = style.madeChild)
  BY <1>1, <1>7, <1>8, SetUpKeeps
<1>10. style' = Style!Drawn(k, stage, r, "mid")
  BY <1>8 DEF k, stage
<1>11. \A a \in Style!Animated \ Touched(k, stage) : style'[a] \in {style[a], own[a]}
  <2> SUFFICES ASSUME NEW a \in Style!Animated \ Touched(k, stage)
               PROVE  style'[a] \in {style[a], own[a]}
    OBVIOUS
  <2>1. r[a] \in {style[a], own[a]}
    BY <1>1, <1>7, <1>8, SetUpLeaves
  <2>2. style'[a] = r[a]
    BY <1>9, <1>10, DrawnLeaves
  <2> QED
    BY <2>1, <2>2
<1>12. k = "SlideUp" /\ style.madeChild => style'.madeChild
  <2>1. Dressed(r, style')
    BY <1>9, <1>10, DrawnKeeps
  <2> QED
    BY <1>9, <2>1 DEF Dressed
<1>13. lost' = lost \cup Style!Foreign(Style!Finds(k, stage))
  BY DEF k, stage
<1>14. KeptOwn(e)'
  <2>1. KeptOwn(live[i])
    BY DEF ComesBack
  <2>2. \A a \in Style!Puts(k) \ lost' : e.saved[a] = own[a]
    BY <1>3, <1>13, <2>1 DEF KeptOwn, k
  <2>3. ASSUME NEW a \in Style!Finds(k, stage) \ lost' PROVE e.found[a] = own[a]
    <3>1. style[a] = own[a]
      BY <1>13, <2>3 DEF Style!Foreign
    <3>2. a \in {"top", "height"}
      BY <2>3 DEF Style!Finds
    <3>3. e.found[a] = style[a]
      BY <1>3, <3>2 DEF Style!Kept
    <3> QED
      BY <3>1, <3>3
  <2> QED
    BY <1>3, <2>2, <2>3 DEF KeptOwn
<1>15. \A j \in DOMAIN live : KeptOwn(n[j])'
  <2> SUFFICES ASSUME NEW j \in DOMAIN live PROVE KeptOwn(n[j])'
    OBVIOUS
  <2>1. CASE j = i
    BY <1>5, <1>14, <2>1
  <2>2. CASE j # i
    <3>1. KeptOwn(live[j])
      BY DEF ComesBack
    <3> QED
      BY <1>5, <1>13, <2>2, <3>1 DEF KeptOwn
  <2> QED
    BY <2>1, <2>2
<1>16. ASSUME NEW a \in Style!Animated \ lost'
       PROVE  style'[a] = own[a] \/ \E j \in DOMAIN live : a \in WillPut(n[j])
  <2>1. WillPut(e) = Style!Puts(k) \cup Style!Finds(k, stage) \cup EndsAt(k)
    BY <1>3 DEF WillPut
  <2>2. WillPut(live[i]) = Style!Puts(k)
    BY <1>1 DEF WillPut, k
  <2>3. CASE a \in Touched(k, stage)
    BY <1>1, <1>5, <1>6, <2>1, <2>3, TouchedComesBack
  <2>4. CASE a \notin Touched(k, stage)
    <3>1. style[a] = own[a] \/ \E j \in DOMAIN live : a \in WillPut(live[j])
      BY <1>13, <1>16 DEF ComesBack
    <3>2. style'[a] \in {style[a], own[a]}
      BY <1>11, <1>16, <2>4
    <3>3. \A j \in DOMAIN live : a \in WillPut(live[j]) => a \in WillPut(n[j])
      BY <1>5, <2>1, <2>2
    <3> QED
      BY <3>1, <3>2, <3>3
  <2> QED
    BY <2>3, <2>4
<1>17. ASSUME styleOptions.live <= 1
       PROVE  /\ lost' \subseteq {"bottom", "childBottom"}
              /\ own.childPosition = "static" =>
                   /\ "childBottom" \notin lost'
                   /\ \A j \in DOMAIN live : n[j].kind = "SlideUp" => style'.madeChild
  <2>1. \A j \in DOMAIN live : j = i
    BY <1>17, LiveOne
  <2>2. lost' = lost
    <3>1. ASSUME NEW a \in Style!Finds(k, stage), a \notin lost PROVE style[a] = own[a]
      <4>1. a \notin WillPut(live[i])
        BY <1>1, <3>1 DEF WillPut, Style!Finds, k
      <4>2. a \in Style!Animated
        BY <3>1, Within
      <4> QED
        BY <2>1, <3>1, <4>1, <4>2 DEF ComesBack
    <3> QED
      BY <1>13, <3>1 DEF Style!Foreign
  <2>3. own.childPosition = "static" /\ k = "SlideUp" => style.madeChild
    BY <1>17 DEF ComesBack, k
  <2> QED
    BY <1>3, <1>5, <1>12, <1>17, <2>1, <2>2, <2>3 DEF ComesBack
<1> QED
  BY <1>5, <1>15, <1>16, <1>17 DEF ComesBack

LEMMA FrameComesBack == StyleInv /\ ComesBack /\ Style!Frame => ComesBack'
<1> SUFFICES ASSUME StyleInv, ComesBack, NEW i \in DOMAIN live, live[i].running,
                    style' = Style!Drawn(live[i].kind, live[i].stage, style, "mid"),
                    UNCHANGED <<styleOptions, own, live, lost>>
             PROVE  ComesBack'
  BY DEF Style!Frame
<1> DEFINE k == live[i].kind
           stage == live[i].stage
<1>1. style \in Styles /\ k \in Style!AllKinds /\ stage \in 1..2
  BY LiveFacts
<1>2. stage = 2 => Style!Chained(k)
  BY DEF StyleInv
<1>3. WillPut(live[i]) = Style!Puts(k) \cup Style!Finds(k, stage) \cup EndsAt(k)
  BY DEF WillPut
<1>4. style' = Style!Drawn(k, stage, style, "mid")
  OBVIOUS
<1> HIDE DEF k, stage
<1>5. style'.madeChild = style.madeChild
  BY <1>1, <1>4, DrawnKeeps DEF Dressed
<1>6. ASSUME NEW a \in Style!Animated \ lost
      PROVE  style'[a] = own[a] \/ \E j \in DOMAIN live : a \in WillPut(live[j])
  <2>1. CASE a \in Touched(k, stage)
    BY <1>1, <1>2, <1>3, <2>1, TouchedComesBack
  <2>2. CASE a \notin Touched(k, stage)
    <3>1. style'[a] = style[a]
      BY <1>1, <1>4, <1>6, <2>2, DrawnLeaves
    <3> QED
      BY <1>6, <3>1 DEF ComesBack
  <2> QED
    BY <2>1, <2>2
<1>7. \A j \in DOMAIN live : KeptOwn(live[j])'
  BY DEF ComesBack, KeptOwn
<1> QED
  BY <1>5, <1>6, <1>7 DEF ComesBack

\* What is drawn in the first of two stages, the effect puts back after the second.
LEMMA ChainComesBack ==
  ASSUME StyleInv, ComesBack, NEW i \in DOMAIN live, live[i].running,
         Style!Chained(live[i].kind), live[i].stage = 1,
         live' = [live EXCEPT ![i] = [live[i] EXCEPT !.stage = 2, !.running = FALSE]],
         style' = LET drawn == Style!Drawn(live[i].kind, live[i].stage, style,
                                           Style!LastOpacity(live[i].kind))
                  IN  IF Style!Restores(live[i].kind, live[i].stage)
                      THEN Style!PutBox(drawn, live[i].found) ELSE drawn,
         UNCHANGED <<styleOptions, own, lost>>
  PROVE  ComesBack'
<1> DEFINE k == live[i].kind
<1>1. /\ own \in Style!Original /\ style \in Styles
      /\ live \in Seq(Starteds) /\ DOMAIN live = 1..Len(live)
      /\ live[i] \in Starteds /\ k \in Style!AllKinds /\ live[i].found \in Keeping
  BY LiveFacts
<1>2. PICK e : e = [live[i] EXCEPT !.stage = 2, !.running = FALSE]
  OBVIOUS
<1>3. e.kind = k /\ e.running = FALSE /\ e.saved = live[i].saved
  BY <1>1, <1>2 DEF Starteds
<1>4. PICK n : n = live'
  OBVIOUS
<1>5. /\ n = live' /\ DOMAIN n = DOMAIN live /\ n[i] = e
      /\ \A j \in DOMAIN live : j # i => n[j] = live[j]
  BY <1>1, <1>2, <1>4
<1>6. /\ Touched(k, 1) \subseteq Style!Puts(k) /\ Style!Finds(k, 1) = {}
      /\ EndsAt(k) = {} /\ ~Style!Restores(k, 1) /\ k \notin Style!Slides
  <2>1. EndsAt(k) = {} /\ ~Style!Restores(k, 1) /\ k \notin Style!Slides
    BY DEF Style!Chained, EndsAt, Style!Restores, Style!ScalesIn, Style!Scales, Style!Slides
  <2>2. 1 \in 1..2 /\ Style!Chained(k)
    OBVIOUS
  <2> HIDE DEF k
  <2> QED
    BY <1>1, <2>1, <2>2, TouchedComesBack
<1>7. /\ Dressed(style, style')
      /\ style'.opacity = style.opacity \/ Style!FadesIn(k, 1)
      /\ style'.bottom \in {style.bottom, "own"} /\ style'.childBottom \in {style.childBottom, "own"}
      /\ style'.height = style.height \/ Style!ScalesIn(k, 1)
      /\ style'.top = style.top \/ Style!MovesIn(k, 1) \/ k = "Puff"
  <2>1. /\ Dressed(style, style')
        /\ style'.opacity = IF Style!FadesIn(k, live[i].stage) THEN Style!LastOpacity(k) ELSE style.opacity
        /\ style'.bottom \in {style.bottom, "own"}
        /\ style'.childBottom \in {style.childBottom, "own"} \/ k \in Style!Slides
        /\ ~Style!Restores(k, live[i].stage) =>
              /\ style'.height = IF Style!ScalesIn(k, live[i].stage) THEN "mid" ELSE style.height
              /\ style'.top = style.top \/ Style!MovesIn(k, live[i].stage) \/ k = "Puff"
    BY <1>1, LastFrame
  <2> QED
    BY <1>6, <2>1
<1>8. WillPut(e) = Style!Puts(k) /\ WillPut(live[i]) = Style!Puts(k)
  BY <1>3, <1>6 DEF WillPut
<1> HIDE DEF k
<1>9. \A j \in DOMAIN live : KeptOwn(n[j])'
  <2> SUFFICES ASSUME NEW j \in DOMAIN live PROVE KeptOwn(n[j])'
    OBVIOUS
  <2>1. KeptOwn(live[j])
    BY DEF ComesBack
  <2>2. CASE j = i
    BY <1>3, <1>5, <2>1, <2>2 DEF KeptOwn, k
  <2>3. CASE j # i
    BY <1>5, <2>1, <2>3 DEF KeptOwn
  <2> QED
    BY <2>2, <2>3
<1>10. ASSUME NEW a \in Style!Animated \ lost
      PROVE  style'[a] = own[a] \/ \E j \in DOMAIN live : a \in WillPut(n[j])
  <2>1. CASE a \in Touched(k, 1)
    BY <1>5, <1>6, <1>8, <2>1
  <2>2. CASE a \notin Touched(k, 1)
    <3>1. style'[a] \in {style[a], own[a]}
      <4>1. CASE a \in {"opacity", "top", "height"}
        BY <1>7, <2>2, <4>1 DEF Touched, Style!Animated
      <4>2. CASE a \in {"bottom", "childBottom"}
        BY <1>1, <1>7, <4>2, OwnValues
      <4> QED
        BY <1>10, <4>1, <4>2 DEF Style!Animated
    <3>2. \A j \in DOMAIN live : a \in WillPut(live[j]) => a \in WillPut(n[j])
      BY <1>5, <1>8
    <3>3. style[a] = own[a] \/ \E j \in DOMAIN live : a \in WillPut(live[j])
      BY <1>10 DEF ComesBack
    <3> QED
      BY <3>1, <3>2, <3>3
  <2> QED
    BY <2>1, <2>2
<1>11. style'.madeChild = style.madeChild /\ \A j \in DOMAIN live : n[j].kind = live[j].kind
  <2>1. \A j \in DOMAIN live : n[j].kind = live[j].kind
    BY <1>3, <1>5 DEF k
  <2> QED
    BY <1>7, <2>1 DEF Dressed
<1> QED
  BY <1>5, <1>9, <1>10, <1>11 DEF ComesBack

\* What an effect leaves at its end: what it has kept, and else what it has not touched.
LEMMA EndLeaves ==
  ASSUME own \in Style!Original, style \in Styles, NEW kind \in Style!AllKinds, NEW stage \in 1..2,
         stage = 2 => Style!Chained(kind), Style!Chained(kind) => stage # 1,
         NEW saved, NEW found, NEW r, NEW n,
         FinishesWell(kind, r, n, saved), Dressed(style, r),
         r.opacity = IF Style!FadesIn(kind, stage) THEN Style!LastOpacity(kind) ELSE style.opacity,
         r.bottom \in {style.bottom, "own"},
         r.childBottom \in {style.childBottom, "own"} \/ kind \in Style!Slides,
         Style!Restores(kind, stage) => r.height = found.height /\ r.top = found.top,
         ~Style!Restores(kind, stage) =>
              /\ r.height = IF Style!ScalesIn(kind, stage) THEN "mid" ELSE style.height
              /\ r.top = style.top \/ Style!MovesIn(kind, stage) \/ kind = "Puff",
         NEW a \in Style!Animated \ Style!Misplaced(kind)
  PROVE  \/ a \in Style!Puts(kind) /\ n[a] = saved[a]
         \/ a \in Style!Finds(kind, stage) /\ n[a] = found[a]
         \/ a \notin Style!Puts(kind) \cup Style!Finds(kind, stage) \cup EndsAt(kind) /\ n[a] = style[a]
         \/ n[a] = own[a]
<1>1. CASE a = "opacity"
  <2>1. CASE kind \in {"Fade", "Puff", "SwitchOff", "DropOut", "Grow", "Shrink", "Pulsate"}
    BY <1>1, <2>1 DEF FinishesWell, Style!Puts
  <2>2. CASE kind = "Appear"
    <3>1. n.opacity = "full"
      BY <2>2 DEF FinishesWell, Style!FadesIn, Style!Fades, Style!LastOpacity
    <3> QED
      BY <1>1, <3>1, OwnValues
  <2>3. CASE kind \notin {"Fade", "Puff", "SwitchOff", "DropOut", "Grow", "Shrink", "Pulsate", "Appear"}
    <3>1. n.opacity = style.opacity
      BY <2>3 DEF FinishesWell, Style!FadesIn, Style!Fades
    <3>2. "opacity" \notin Style!Puts(kind) \cup Style!Finds(kind, stage) \cup EndsAt(kind)
      BY <2>3 DEF Style!Puts, Style!Finds, EndsAt
    <3> QED
      BY <1>1, <3>1, <3>2
  <2> QED
    BY <2>1, <2>2, <2>3
<1>2. CASE a = "height"
  <2>1. CASE kind \in {"Grow", "Shrink", "Fold"}
    BY <1>2, <2>1 DEF FinishesWell, Style!Puts
  <2>2. CASE kind \notin {"Grow", "Shrink", "Fold"}
    <3>1. n.height = r.height
      BY <2>2 DEF FinishesWell
    <3>2. "height" \notin Style!Puts(kind) \cup EndsAt(kind)
      BY <2>2 DEF Style!Puts, EndsAt
    <3>3. CASE Style!Restores(kind, stage)
      BY <1>2, <3>1, <3>2, <3>3 DEF Style!Finds
    <3>4. CASE ~Style!Restores(kind, stage)
      <4>1. r.height = style.height
        BY <2>2, <3>4 DEF Style!Restores
      <4> QED
        BY <1>2, <3>1, <3>2, <3>4, <4>1 DEF Style!Finds
    <3> QED
      BY <3>3, <3>4
  <2> QED
    BY <2>1, <2>2
<1>3. CASE a = "top"
  <2>1. CASE kind \in {"DropOut", "Shake", "Grow", "Shrink", "Fold"}
    BY <1>3, <2>1 DEF FinishesWell, Style!Puts
  <2>2. CASE kind \notin {"DropOut", "Shake", "Grow", "Shrink", "Fold"}
    <3>1. n.top \in {r.top, "own"}
      BY <2>2 DEF FinishesWell
    <3>2. "top" \notin Style!Puts(kind) \cup EndsAt(kind)
      BY <2>2 DEF Style!Puts, EndsAt
    <3>3. CASE Style!Restores(kind, stage)
      BY <1>3, <3>1, <3>2, <3>3, OwnValues DEF Style!Finds
    <3>4. CASE ~Style!Restores(kind, stage)
      <4>1. ~Style!MovesIn(kind, stage) /\ kind # "Puff"
        BY <2>2, <3>4 DEF Style!Restores, Style!MovesIn, Style!Moves, Style!ScalesIn,
          Style!Scales, Style!Chained
      <4>2. r.top = style.top
        BY <3>4, <4>1
      <4> QED
        BY <1>3, <3>1, <3>2, <3>4, <4>2, OwnValues DEF Style!Finds
    <3> QED
      BY <3>3, <3>4
  <2> QED
    BY <2>1, <2>2
<1>4. CASE a = "bottom"
  <2>1. kind # "SlideUp"
    BY <1>4 DEF Style!Misplaced
  <2>2. n.bottom \in {style.bottom, "own"}
    BY <2>1 DEF FinishesWell
  <2>3. "bottom" \notin Style!Puts(kind) \cup Style!Finds(kind, stage) \cup EndsAt(kind)
    BY DEF Style!Puts, Style!Finds, EndsAt
  <2> QED
    BY <1>4, <2>2, <2>3, OwnValues
<1>5. CASE a = "childBottom"
  <2>1. CASE kind = "SlideDown"
    BY <1>5, <2>1 DEF FinishesWell, Style!Puts
  <2>2. CASE kind = "SlideUp"
    <3>1. style.madeChild
      BY <1>5, <2>2 DEF Style!Misplaced
    <3>2. n.childBottom = "own"
      BY <2>2, <3>1 DEF FinishesWell, Dressed
    <3> QED
      BY <1>5, <3>2, OwnValues
  <2>3. CASE kind \notin Style!Slides
    <3>1. n.childBottom \in {style.childBottom, "own"}
      BY <2>3 DEF FinishesWell, Style!Slides
    <3>2. "childBottom" \notin Style!Puts(kind) \cup Style!Finds(kind, stage) \cup EndsAt(kind)
      BY <2>3 DEF Style!Puts, Style!Finds, EndsAt, Style!Slides
    <3> QED
      BY <1>5, <3>1, <3>2, OwnValues
  <2> QED
    BY <2>1, <2>2, <2>3 DEF Style!Slides
<1> QED
  BY <1>1, <1>2, <1>3, <1>4, <1>5 DEF Style!Animated

LEMMA LastComesBack ==
  ASSUME StyleInv, ComesBack, NEW i \in DOMAIN live, live[i].running,
         Style!Chained(live[i].kind) => live[i].stage # 1,
         NEW r, r = LET drawn == Style!Drawn(live[i].kind, live[i].stage, style,
                                           Style!LastOpacity(live[i].kind))
                  IN  IF Style!Restores(live[i].kind, live[i].stage)
                      THEN Style!PutBox(drawn, live[i].found) ELSE drawn,
         live' = Style!RemoveAt(live, i),
         style' = Style!Finished(live[i].kind, r, live[i].saved),
         lost' = lost \cup Style!Misplaced(live[i].kind),
         UNCHANGED <<styleOptions, own>>
  PROVE  ComesBack'
<1> DEFINE k == live[i].kind
           stage == live[i].stage
           e == live[i]
<1>1. /\ style \in Styles /\ own \in Style!Original
      /\ live \in Seq(Starteds) /\ DOMAIN live = 1..Len(live)
      /\ k \in Style!AllKinds /\ stage \in 1..2 /\ e.found \in Keeping /\ e.saved \in Keeping
  BY LiveFacts
<1>2. /\ Dressed(style, r)
      /\ r.opacity = IF Style!FadesIn(k, stage) THEN Style!LastOpacity(k) ELSE style.opacity
      /\ r.bottom \in {style.bottom, "own"}
      /\ r.childBottom \in {style.childBottom, "own"} \/ k \in Style!Slides
      /\ Style!Restores(k, stage) => r.height = e.found.height /\ r.top = e.found.top
      /\ ~Style!Restores(k, stage) =>
              /\ r.height = IF Style!ScalesIn(k, stage) THEN "mid" ELSE style.height
              /\ r.top = style.top \/ Style!MovesIn(k, stage) \/ k = "Puff"
  BY <1>1, LastFrame
<1>3. FinishesWell(k, r, style', e.saved)
  <2>1. k = "Puff" => e.saved.position = own.position /\ ~r.madePositioned
    BY <1>2, LiveOne DEF Returns, Dressed
  <2>2. r \in Styles
    BY <1>2 DEF Dressed
  <2> QED
    BY <1>1, <2>1, <2>2, FinishedKeeps
<1>4. stage = 2 => Style!Chained(k)
  BY DEF StyleInv
<1>5. /\ WillPut(e) = Style!Puts(k) \cup Style!Finds(k, stage) \cup EndsAt(k)
      /\ \A a \in Style!Puts(k) \ lost : e.saved[a] = own[a]
      /\ \A a \in Style!Finds(k, stage) \ lost : e.found[a] = own[a]
  BY DEF WillPut, ComesBack, KeptOwn
<1>6. lost' = lost \cup Style!Misplaced(k) /\ (Style!Chained(k) => stage # 1)
  OBVIOUS
<1>7. PICK n \in Seq(Starteds) : /\ n = live' /\ Len(n) = Len(live) - 1
                                 /\ \A j \in 1..Len(n) : n[j] = live[IF j < i THEN j ELSE j + 1]
  <2>1. live' = List!RemoveAt(live, i)
    BY DEF Style!RemoveAt, List!RemoveAt
  <2>2. i \in 1..Len(live)
    BY <1>1
  <2> QED
    BY <1>1, <2>1, <2>2, TakenOut
<1> HIDE DEF k, stage, e
<1>8. /\ \A j \in DOMAIN n : \E m \in DOMAIN live : m # i /\ n[j] = live[m]
      /\ \A m \in DOMAIN live : m # i => \E j \in DOMAIN n : n[j] = live[m]
  <2>1. i \in 1..Len(live) /\ Len(n) = Len(live) - 1
    BY <1>1, <1>7
  <2>2. \A j \in 1..Len(n) : n[j] = live[IF j < i THEN j ELSE j + 1]
    BY <1>7
  <2> QED
    BY ONLY <1>1, <2>1, <2>2, n \in Seq(Starteds), LeftWithout
<1>9. \A j \in DOMAIN n : KeptOwn(n[j])'
  <2> SUFFICES ASSUME NEW j \in DOMAIN n PROVE KeptOwn(n[j])'
    OBVIOUS
  <2>1. PICK m \in DOMAIN live : n[j] = live[m]
    BY <1>8
  <2>2. KeptOwn(live[m])
    BY DEF ComesBack
  <2> QED
    BY <1>6, <2>1, <2>2 DEF KeptOwn
<1>10. ASSUME NEW a \in Style!Animated \ lost'
       PROVE  style'[a] = own[a] \/ \E j \in DOMAIN n : a \in WillPut(n[j])
  <2> SUFFICES ASSUME \A j \in DOMAIN n : a \notin WillPut(n[j])
               PROVE  style'[a] = own[a]
    OBVIOUS
  <2>1. \A m \in DOMAIN live : m # i => a \notin WillPut(live[m])
    BY <1>8
  <2>2. style[a] = own[a] \/ a \in WillPut(e)
    BY <1>6, <1>10, <2>1 DEF ComesBack, e
  <2>3. \/ a \in Style!Puts(k) /\ style'[a] = e.saved[a]
        \/ a \in Style!Finds(k, stage) /\ style'[a] = e.found[a]
        \/ a \notin WillPut(e) /\ style'[a] = style[a]
        \/ style'[a] = own[a]
    <3>1. a \in Style!Animated \ Style!Misplaced(k)
      BY <1>6, <1>10
    <3> QED
      BY <1>1, <1>2, <1>3, <1>4, <1>5, <1>6, <3>1, EndLeaves
  <2> QED
    BY <1>5, <1>6, <1>10, <2>2, <2>3
<1>11. ASSUME styleOptions.live <= 1
       PROVE  /\ lost' \subseteq {"bottom", "childBottom"}
              /\ own.childPosition = "static" => "childBottom" \notin lost'
              /\ DOMAIN n = {}
  <2>1. \A m \in DOMAIN live : m = i
    BY <1>11, LiveOne
  <2>2. DOMAIN n = {}
    BY <1>8, <2>1
  <2>3. own.childPosition = "static" /\ k = "SlideUp" => style.madeChild
    BY <1>11 DEF ComesBack, k
  <2>4. own.childPosition = "static" => "childBottom" \notin Style!Misplaced(k)
    BY <2>3 DEF Style!Misplaced
  <2> QED
    BY <1>6, <1>11, <2>2, <2>4, Within DEF ComesBack
<1> QED
  BY <1>7, <1>9, <1>10, <1>11 DEF ComesBack

LEMMA ComesBackSteps == StyleInv /\ ComesBack /\ [Style!Next]_styleVars => ComesBack'
<1> SUFFICES ASSUME StyleInv, ComesBack, [Style!Next]_styleVars PROVE ComesBack'
  OBVIOUS
<1>1. /\ styleOptions \in StyleOptions /\ pair \in styleOptions.togglable
      /\ styleOptions.live \in Nat /\ Len(live) \in Nat /\ live \in Seq(Starteds)
  BY LiveFacts
<1>2. CASE Style!Direct
  <2>1. PICK kind \in styleOptions.kinds : Style!Create(kind, TRUE)
    BY <1>2 DEF Style!Direct
  <2>2. kind \in Style!AllKinds
    BY <1>1, StyleAssumed
  <2>3. Len(live) < styleOptions.live
    BY <1>2 DEF Style!Direct
  <2>4. styleOptions.live <= 1 => live = << >>
    BY <1>1, <2>3
  <2> QED
    BY <2>1, <2>2, <2>4, CreateComesBack
<1>3. CASE Style!Toggle
  <2>1. PICK kind : /\ kind \in {Style!Pairs[pair].show, Style!Pairs[pair].hide}
                    /\ Style!Create(kind, live = << >>)
    BY <1>3 DEF Style!Toggle, Style!BelowLimit
  <2>2. kind \in Style!AllKinds
    BY <1>1, <2>1, PairOf DEF Style!AllKinds
  <2>3. PICK admitted \in BOOLEAN : admitted = (live = << >>)
    OBVIOUS
  <2> QED
    BY <2>1, <2>2, <2>3, CreateComesBack
<1>4. CASE Style!Begin
  BY <1>4, BeginComesBack
<1>5. CASE Style!Frame
  BY <1>5, FrameComesBack
<1>6. CASE Style!End
  <2>1. PICK i \in DOMAIN live :
          LET e == live[i]
              drawn == Style!Drawn(e.kind, e.stage, style, Style!LastOpacity(e.kind))
              restored == IF Style!Restores(e.kind, e.stage) THEN Style!PutBox(drawn, e.found) ELSE drawn
          IN  /\ e.running
              /\ IF Style!Chained(e.kind) /\ e.stage = 1
                 THEN /\ live' = [live EXCEPT ![i] = [e EXCEPT !.stage = 2, !.running = FALSE]]
                      /\ style' = restored
                      /\ UNCHANGED <<last, lost>>
                 ELSE /\ live' = Style!RemoveAt(live, i)
                      /\ style' = Style!Finished(e.kind, restored, e.saved)
                      /\ last' = {e.kind}
                      /\ lost' = lost \cup Style!Misplaced(e.kind)
              /\ UNCHANGED <<styleOptions, pair, own, created>>
    BY <1>6 DEF Style!End
  <2>2. CASE Style!Chained(live[i].kind) /\ live[i].stage = 1
    BY <2>1, <2>2, ChainComesBack
  <2>3. CASE ~(Style!Chained(live[i].kind) /\ live[i].stage = 1)
    <3>1. PICK r : r = LET drawn == Style!Drawn(live[i].kind, live[i].stage, style,
                                           Style!LastOpacity(live[i].kind))
                  IN  IF Style!Restores(live[i].kind, live[i].stage)
                      THEN Style!PutBox(drawn, live[i].found) ELSE drawn
      OBVIOUS
    <3> QED
      BY <2>1, <2>3, <3>1, LastComesBack
  <2> QED
    BY <2>2, <2>3
<1>7. CASE UNCHANGED styleVars
  BY <1>7 DEF styleVars, ComesBack, KeptOwn
<1> QED
  BY <1>2, <1>3, <1>4, <1>5, <1>6, <1>7 DEF Style!Next

\* The timer of a queue runs exactly while there are effects; an effect that has told
\* its callback it is over was drawn in full, unless a callback had cancelled it in
\* the same pass; and what was added at the end waits.  When no effect is left, the
\* element is clipped and positioned as the page gave it, and has its own size, place
\* and opacity again except what an effect kept in the middle of another's animation
\* and what SlideUp changes; toggle clips it meanwhile and leaves it as it was asked
\* to (effects.js).
THEOREM EffectsAreSound == AllSpec => []EffectsSound
<1>1. Queue!Spec => []QueueInv
  <2>1. QueueInv /\ [Queue!Next]_(Queue!vars) => QueueInv'
    BY QueueSteps DEF Queue!vars, queueVars
  <2> QED
    BY <2>1, QueueStarts, PTL DEF Queue!Spec
<1>2. Style!Spec => [](StyleInv /\ ComesBack)
  <2>1. Style!Init => ComesBack
    <3> SUFFICES ASSUME Style!Init PROVE ComesBack
      OBVIOUS
    <3>1. style = own /\ live = << >> /\ lost = {}
      BY DEF Style!Init
    <3> QED
      BY <3>1 DEF ComesBack
  <2>2. StyleInv /\ ComesBack /\ [Style!Next]_(Style!vars) => (StyleInv /\ ComesBack)'
    BY StyleSteps, ComesBackSteps DEF Style!vars, styleVars
  <2> QED
    BY <2>1, <2>2, StyleStarts, PTL DEF Style!Spec
<1>3. QueueInv => Queue!TypeOK /\ Queue!TimerIffEffects /\ Queue!EndsAtFull /\ Queue!EndWaits
  <2> SUFFICES ASSUME QueueInv PROVE Queue!EndsAtFull /\ Queue!EndWaits
    BY DEF QueueInv
  <2>1. Queue!EndsAtFull
    BY DEF QueueInv, Queue!EndsAtFull
  <2>2. ASSUME NEW e \in Queue!Effects, e \in Queue!Queued, state[e] = "running", NEW f \in before[e]
        PROVE  state[f] = "finished"
    <3>1. PICK j \in DOMAIN effects : effects[j] = e
      BY <2>2, QueueFacts
    <3> QED
      BY <2>2, <3>1 DEF QueueInv, QueueOrder
  <2> QED
    BY <2>1, <2>2 DEF Queue!EndWaits
<1>4. StyleInv /\ ComesBack =>
                  /\ Style!TypeOK /\ Style!Restored /\ Style!NoTraceLeft
                  /\ Style!ClippedWhileScaled /\ Style!ShownAsAsked
  <2> SUFFICES ASSUME StyleInv, ComesBack
               PROVE  /\ Style!Restored /\ Style!NoTraceLeft
                      /\ Style!ClippedWhileScaled /\ Style!ShownAsAsked
    BY DEF StyleInv
  <2>1. styleOptions.live \in Nat /\ own \in Style!Original /\ live \in Seq(Starteds)
    BY LiveFacts
  <2>3. Style!NoTraceLeft
    <3> SUFFICES ASSUME live = << >>
                 PROVE  /\ style.overflow = own.overflow /\ style.madeClipping = "none"
                        /\ style.position = own.position /\ ~style.madePositioned
                        /\ style.childPosition = own.childPosition /\ ~style.madeChild
      BY DEF Style!NoTraceLeft, Style!Idle
    <3>1. \A kinds : ~Undoer(kinds)
      BY DEF Undoer
    <3>2. /\ style.madeClipping = "none" /\ ~style.madePositioned /\ ~style.madeChild
      BY <3>1 DEF StyleInv
    <3>3. style.position # "absolute"
      BY <2>1 DEF StyleInv, Lone
    <3>4. own.overflow # "none"
      BY <2>1 DEF Style!Original
    <3> QED
      BY <3>2, <3>3, <3>4 DEF StyleInv, Undoable
  <2>4. Style!Restored
    BY DEF ComesBack, Style!Restored, Style!Idle
  <2>5. Style!ClippedWhileScaled
    BY DEF Style!ClippedWhileScaled, StyleInv, PairInv, Undoable
  <2>6. Style!ShownAsAsked
    BY DEF Style!ShownAsAsked, StyleInv, PairInv, Style!Idle
  <2> QED
    BY <2>3, <2>4, <2>5, <2>6
<1> QED
  BY <1>1, <1>2, <1>3, <1>4, EachAlone, PTL DEF EffectsSound

\* No effect is drawn once it is over or cancelled, not even one that a callback
\* cancels before the pass under way has reached it (effects.js).
THEOREM NoFramesAfterEnd == AllSpec => Queue!NoFrameAfterEnd
<1>1. QueueInv /\ [Queue!Next]_(Queue!vars) => QueueInv'
  BY QueueSteps DEF Queue!vars, queueVars
<1>2. QueueInv /\ [Queue!Next]_(Queue!vars) =>
        [\A e \in Queue!Effects : state[e] = "finished" =>
           frame'[e] = frame[e] /\ full'[e] = full[e]]_(Queue!vars)
  <2> SUFFICES ASSUME QueueInv, Queue!Next, NEW e \in Queue!Effects, state[e] = "finished"
               PROVE  frame'[e] = frame[e] /\ full'[e] = full[e]
    OBVIOUS
  <2>1. /\ frame \in [Queue!Effects -> 0..queueOptions.time]
        /\ full \in [Queue!Effects -> BOOLEAN]
    BY DEF QueueInv, Queue!TypeOK
  <2>2. ASSUME Queue!Updates(Head(pass)) PROVE Head(pass) # e
    BY <2>2 DEF Queue!Updates
  <2>3. CASE Queue!Render
    <3>1. \/ /\ Queue!Updates(Head(pass))
             /\ frame' = [frame EXCEPT ![Head(pass)] = now - startOn[Head(pass)]]
             /\ full' = [full EXCEPT ![Head(pass)] = FALSE]
          \/ UNCHANGED <<frame, full>>
      BY <2>3 DEF Queue!Render, Queue!Visited
    <3> QED
      BY <2>1, <2>2, <3>1
  <2>4. CASE Queue!Finish
    <3>1. /\ frame' = frame
          /\ \/ full' = full
             \/ /\ Queue!Updates(Head(pass))
                /\ full' = [full EXCEPT ![Head(pass)] = Queue!DrawnInFull(Head(pass))]
      BY <2>4 DEF Queue!Finish, Queue!Visited
    <3> QED
      BY <2>1, <2>2, <3>1
  <2>5. CASE Queue!Add \/ Queue!AfterFinish \/ Queue!Tick \/ Queue!Loop \/ Queue!Wait \/ Queue!Cancel
    BY <2>5 DEF Queue!Add, Queue!AfterFinish, Queue!Tick, Queue!Loop, Queue!Wait, Queue!Cancel
  <2> QED
    BY <2>3, <2>4, <2>5 DEF Queue!Next
<1> QED
  BY <1>1, <1>2, QueueStarts, EachAlone, PTL DEF Queue!Spec, Queue!NoFrameAfterEnd
=============================================================================
