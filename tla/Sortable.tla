------------------------------ MODULE Sortable ------------------------------
(***************************************************************************)
(* Sortable lists of dragdrop.js: dragging an item over the others moves   *)
(* it through its list and into other lists, and at the end of the drag    *)
(* the page is told of the lists whose order has changed (onUpdate).       *)
(* DragDrop models the drag itself.  A clone that keeps the place of the   *)
(* dragged item is a child of the list, with the id of the item.           *)
(***************************************************************************)
EXTENDS Naturals, Sequences, SequencesExt

CONSTANTS
  Lists, Items,
  First,          \* the lists at the beginning
  ListOptions,    \* the options that the page may give
  MaxDrags,       \* bound: drags and calls of setSequence
  NewSequences    \* arguments of setSequence

None == "none"
Clone == "clone"

\* Containment, by which items may go to every list or stay in theirs; lists that
\* take items which are over no item of them; a clone and a marker.  An item is
\* in one place, and setSequence is called with all items: it loses the others.
SortableAssumption ==
  /\ First \in [Lists -> Seq(Items)] /\ None \notin Items /\ Clone \notin Items
  /\ \A i \in Items : \E l \in Lists : \E k \in DOMAIN First[l] :
       \A m \in Lists : \A j \in DOMAIN First[m] : First[m][j] = i <=> m = l /\ j = k
  /\ ListOptions \subseteq [shared : BOOLEAN, dropOnEmpty : BOOLEAN, ghosting : BOOLEAN]
  /\ \A new \in NewSequences : new \in Seq(Items) /\ Items \subseteq ToSet(new)
  /\ MaxDrags \in Nat

VARIABLES
  options,
  order,       \* the children of each list
  dragged, drags,
  lastValue,   \* of the observer of each list
  marker,      \* the drop marker is shown
  told,        \* the order of each list that the page knows
  updated      \* the lists that the page was told of at the end of the last drag

vars == <<options, order, dragged, drags, lastValue, marker, told, updated>>

Init ==
  /\ options \in ListOptions
  /\ order = First
  /\ dragged = None /\ drags = 0
  /\ lastValue = First
  /\ marker = FALSE
  /\ told = First
  /\ updated = {}

-----------------------------------------------------------------------------
(* Faulty variants of the helpers below; no action uses them. *)

AsCreated(l, o) == lastValue[l]

-----------------------------------------------------------------------------
ParentOf(i) == CHOOSE l \in Lists : Contains(order[l], i)

\* serialize: the ids of the children, and a clone has the id of its item.
ValueAtStart(l, o) == [k \in DOMAIN o[l] |-> IF o[l][k] = Clone THEN dragged' ELSE o[l][k]]

PlaceOf(s, x) == CHOOSE k \in DOMAIN s : s[k] = x

WithClone(i) ==
  [l \in Lists |-> IF options.ghosting /\ Contains(order[l], i)
                   THEN InsertAt(order[l], PlaceOf(order[l], i), Clone) ELSE order[l]]

\* The observers of all lists hear of the start, after the clone was inserted.
OnStart(i) ==
  /\ dragged = None /\ drags < MaxDrags
  /\ drags' = drags + 1
  /\ dragged' = i
  /\ order' = WithClone(i)
  /\ lastValue' = [l \in Lists |-> ValueAtStart(l, order')]
  /\ UNCHANGED <<options, marker, told, updated>>

\* A child is in one place.
Without(o, i) ==
  [l \in Lists |-> IF Contains(o[l], i) THEN RemoveAt(o[l], PlaceOf(o[l], i)) ELSE o[l]]

\* insertBefore takes the dragged item from where it was.
Moved(o, x, before) ==
  LET rest == Without(o, dragged) IN
  [l \in Lists |->
    IF Contains(rest[l], x)
    THEN InsertAt(rest[l], PlaceOf(rest[l], x) + IF before THEN 0 ELSE 1, dragged)
    ELSE rest[l]]

Appended(o, l) ==
  IF Contains(o[l], dragged) THEN o
  ELSE [Without(o, dragged) EXCEPT ![l] = Append(@, dragged)]

\* isContained, for the droppables of list l.
Contained(l) == options.shared \/ ParentOf(dragged) = l

\* A mouse move over list l: onEmptyHover of the list, then onHover of the item
\* under the pointer.
Hover(l) ==
  /\ dragged # None
  /\ Contained(l)
  /\ LET entered == IF options.dropOnEmpty THEN Appended(order, l) ELSE order
     IN \/ options.dropOnEmpty /\ order' = entered /\ UNCHANGED marker
        \/ \E x \in ToSet(order[l]) \ {dragged, Clone}, before \in BOOLEAN :
             order' = Moved(entered, x, before) /\ marker' = options.ghosting
  /\ UNCHANGED <<options, dragged, drags, lastValue, told, updated>>

MarkerAfter == FALSE
HasChanged(l, o) == lastValue[l] # o[l]

\* The clone is removed before the observers hear of the end.
OnEnd ==
  /\ dragged # None
  /\ order' = Without(order, Clone)
  /\ dragged' = None
  /\ marker' = MarkerAfter
  /\ updated' = {l \in Lists : HasChanged(l, order')}
  /\ told' = [l \in Lists |-> IF HasChanged(l, order') THEN order'[l] ELSE told[l]]
  /\ UNCHANGED <<options, drags, lastValue>>

\* The items of the list that the argument names, each where it names it first.
Named(l, new) == ToSet(new) \cap ToSet(order[l])
NamedBefore(new, i, j) == \E a \in DOMAIN new : new[a] = i /\ \A b \in 1..a : new[b] # j
InSequence(l, new) ==
  {s \in SeqOf(Named(l, new), Len(new)) :
     /\ ToSet(s) = Named(l, new)
     /\ \A j, k \in DOMAIN s : j < k => NamedBefore(new, s[j], s[k])}

\* The page sets an order, which it knows then.
SetSequence(l, new) ==
  /\ dragged = None /\ drags < MaxDrags
  /\ drags' = drags + 1
  /\ \E s \in InSequence(l, new) : order' = [order EXCEPT ![l] = s]
  /\ told' = [told EXCEPT ![l] = order'[l]]
  /\ UNCHANGED <<options, dragged, lastValue, marker, updated>>

\* The page makes the list sortable anew.
Create(l) ==
  /\ dragged = None
  /\ lastValue' = [lastValue EXCEPT ![l] = order[l]]
  /\ UNCHANGED <<options, order, dragged, drags, marker, told, updated>>

Next ==
  \/ \E i \in Items : OnStart(i)
  \/ OnEnd
  \/ \E l \in Lists : Hover(l) \/ Create(l) \/ \E new \in NewSequences : SetSequence(l, new)

Spec == Init /\ [][Next]_vars

-----------------------------------------------------------------------------
TypeOK ==
  /\ options \in ListOptions
  /\ order \in [Lists -> Seq(Items \cup {Clone})] /\ lastValue \in [Lists -> Seq(Items)]
  /\ dragged \in Items \cup {None} /\ drags \in 0..MaxDrags
  /\ marker \in BOOLEAN /\ told \in [Lists -> Seq(Items)] /\ updated \subseteq Lists

\* Whatever it is dragged over, every item is in one list, once.
ItemsConserved ==
  \A i \in Items :
    /\ \E l \in Lists : Contains(order[l], i)
    /\ \A l, m \in Lists : \A j \in DOMAIN order[l], k \in DOMAIN order[m] :
         order[l][j] = i /\ order[m][k] = i => l = m /\ j = k

\* Between drags the page knows the order of every list, also of the one that
\* an item was taken from, and of one whose order it has set itself.
PageKnowsOrder == dragged = None => told = order

\* The page is only told of lists whose order has changed (a clone apart, which
\* makes every order look changed).
ToldOfChanges ==
  ~options.ghosting /\ dragged # None /\ dragged' = None => \A l \in updated' : told'[l] # told[l]

\* Without containment no item leaves its list.
StayInList ==
  ~options.shared => \A l \in Lists, i \in Items : Contains(order[l], i) => Contains(order'[l], i)

\* The clone and the marker go when the drag ends.
NoGhosts == dragged = None => ~marker /\ \A l \in Lists : ~Contains(order[l], Clone)
=============================================================================
