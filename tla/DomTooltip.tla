---------------------------- MODULE DomTooltip ----------------------------
(***************************************************************************)
(* The tooltips of domTT.js with domTT_drag.js, fadomatic.js and domLib.js *)
(* for the elements of a page: events of the mouse and timers make a tip   *)
(* pending, active and inactive, it fades, and a list of the page (which   *)
(* the browser draws over everything) is hidden while a tip is over it.    *)
(* A tip is kept under the id of its owner.  It is put beside the mouse in *)
(* a direction, corrected at the edges of the page.                        *)
(***************************************************************************)
EXTENDS Integers, FiniteSets

CONSTANTS
  Owners,               \* elements with a tip
  TipOptions,           \* the options that are tried
  Width, Height,        \* of a tip
  OffsetX, OffsetY,     \* domTT_offsetX, domTT_offsetY
  MouseHeight,          \* domTT_mouseHeight
  Padding,              \* domTT_screenEdgePadding
  MaxOpacity,           \* bound: steps of a fade
  MaxTimers             \* bound: timers that wait to show one tip

\* Options: the events that activate; greasy, sticky or velcro; closeAction is
\* destroy; a lifetime is given; the tip trails the mouse, now or a moment later;
\* domTT_oneOnly; the direction; and the size of the window, which is not scrolled.
Options ==
  [events : SUBSET {"mouseover", "click"}, type : {"greasy", "sticky", "velcro"},
   fade : {"neither", "in", "out", "both"}, destroy : BOOLEAN, lifetime : BOOLEAN,
   trail : {"none", "now", "lazy"}, oneOnly : BOOLEAN,
   direction : {"northeast", "northwest", "north", "southwest", "southeast", "south"},
   width : Nat, height : Nat]

DomTooltipAssumption ==
  /\ "none" \notin Owners /\ "page" \notin Owners
  /\ TipOptions \subseteq Options
  /\ {Width, Height, OffsetX, OffsetY, MouseHeight, Padding} \subseteq Nat
  /\ Padding <= MouseHeight     \* 4, and 13 or 19
  /\ MaxOpacity \in Nat \ {0} /\ MaxTimers \in Nat \ {0}

VARIABLES
  options,              \* of every tip; they never change
  tips,                 \* of each owner: the options, the node and the timers
  over,                 \* where the mouse is: an owner, its tip or the page
  lastOpened,           \* domTT_lastOpened
  dragged,              \* the owner whose tip is dragged, or none
  mouse                 \* the coordinates of the mouse

vars == <<options, tips, over, lastOpened, dragged, mouse>>
rest == <<options, mouse>>

Page == <<"page", "page">>

\* No tip: status none.  Timers: old ones that no variable remembers any more,
\* and the one in activateTimeout or lifetimeTimeout.
NoTip ==
  [status |-> "none", eventType |-> "", destroy |-> FALSE,
   activateTimeout |-> FALSE, oldTimeouts |-> 0, lifetimeTimeout |-> FALSE, trails |-> 0,
   display |-> FALSE, opacity |-> 0, fading |-> "no",
   hides |-> FALSE]

Init ==
  /\ options \in TipOptions
  /\ mouse = [x |-> 0, y |-> 0]
  /\ tips = [o \in Owners |-> NoTip]
  /\ over = Page /\ lastOpened = "none" /\ dragged = "none"

-----------------------------------------------------------------------------
(* Faulty variants of the helpers below; no action uses them. *)

ListKept(t) == t

FadeOutStays(t) ==
  IF t.fading = "in" /\ t.opacity < MaxOpacity THEN [t EXCEPT !.opacity = t.opacity + 1]
  ELSE [t EXCEPT !.fading = "no"]

-----------------------------------------------------------------------------
\* domLib_detectCollisions of a tip at a place: over the list, near it or far
\* away.  A tip that is not displayed has no size.
Collided(t, place) ==
  IF ~t.display \/ place = "far" THEN t ELSE [t EXCEPT !.hides = place = "over"]

\* The same to recover what the tip has hidden.
Recovered(t) == [t EXCEPT !.hides = FALSE]

\* _beginFade stops the fade in progress.
BeginFade(t, way) == [t EXCEPT !.fading = way]

\* _tickFade: a step, or the end of the fade.
Faded(t) ==
  CASE t.fading = "in" /\ t.opacity < MaxOpacity -> [t EXCEPT !.opacity = t.opacity + 1]
    [] t.fading = "out" /\ t.opacity > 0 -> [t EXCEPT !.opacity = t.opacity - 1]
    [] OTHER -> [t EXCEPT !.fading = "no"]

ClearLifetime(t) == [t EXCEPT !.lifetimeTimeout = FALSE]

\* domTT_show of a pending tip.
Unhidden(t) ==
  LET u == [t EXCEPT !.status = "active", !.display = TRUE]
  IN CASE options.fade = "neither" -> [u EXCEPT !.opacity = MaxOpacity]
       [] options.fade = "out" -> [u EXCEPT !.fading = "no"]
       [] OTHER -> BeginFade(u, "in")

StartLifetime(t) ==
  IF options.type = "greasy" /\ options.lifetime THEN [t EXCEPT !.lifetimeTimeout = TRUE] ELSE t

\* domTT_show: without a tip there is an error; a tip that is not pending only
\* moves.  Fadomatic has no method halt, and for a tip that only fades out this
\* error ends the call.
Shown(t, place) ==
  IF t.status = "none" THEN t
  ELSE IF t.status # "pending" THEN Collided(t, place)
  ELSE IF options.fade = "out" THEN Unhidden(t)
  ELSE Collided(StartLifetime(Unhidden(t)), place)

\* Closing of an active tip: the node fades, is hidden or is removed.
Hidden(t) ==
  IF t.destroy THEN [NoTip EXCEPT !.oldTimeouts = t.oldTimeouts + (IF t.activateTimeout THEN 1 ELSE 0),
                                  !.trails = t.trails, !.hides = t.hides]
  ELSE CASE options.fade = "neither" -> [t EXCEPT !.status = "inactive", !.display = FALSE]
         [] options.fade = "in" -> [t EXCEPT !.status = "inactive", !.fading = "no", !.opacity = 0]
         [] OTHER -> [BeginFade(t, "out") EXCEPT !.status = "inactive"]

\* The creation of a pending tip is cancelled.
Cancelled(t) == [t EXCEPT !.status = "inactive", !.activateTimeout = FALSE]

\* domTT_deactivate
Deactivated(t) ==
  CASE t.status = "pending" -> Cancelled(t)
    [] t.status = "active" -> Hidden(Recovered(ClearLifetime(t)))
    [] OTHER -> t

\* A new timer for domTT_runShow; with no delay it runs at once.
Timer(t, delay, place) ==
  LET u == [t EXCEPT !.status = "pending"]
  IN IF ~delay THEN Shown([u EXCEPT !.oldTimeouts = @ + (IF t.activateTimeout THEN 1 ELSE 0),
                                    !.activateTimeout = FALSE], place)
     ELSE [u EXCEPT !.oldTimeouts = @ + (IF t.activateTimeout THEN 1 ELSE 0),
                    !.activateTimeout = TRUE]

\* domTT_create: a new tip with the id of the one before.
Created(t, event) ==
  [NoTip EXCEPT !.status = "inactive", !.eventType = event, !.destroy = options.destroy,
                !.oldTimeouts = t.oldTimeouts + (IF t.activateTimeout THEN 1 ELSE 0),
                !.trails = t.trails, !.hides = t.hides]

Delay(event) == event # "click"

\* domTT_activate for the owner of a tip.  A greasy tip of another event is to
\* be destroyed; a tip that is pending or active already stays.
Activated(t, event, place) ==
  LET another == t.status # "none" /\ t.eventType # event
      old == IF another /\ options.type = "greasy" THEN Deactivated([t EXCEPT !.destroy = TRUE]) ELSE t
  IN CASE ~another /\ t.status = "inactive" -> Timer(t, Delay(event), place)
       [] ~another /\ t.status \in {"pending", "active"} -> t
       [] another /\ options.type # "greasy" /\ t.status # "inactive" -> t
       [] OTHER -> Timer(Created(old, event), Delay(event), place)

\* With domTT_oneOnly the tip that was opened last is closed first.
CloseLast(ts, o) ==
  IF options.oneOnly /\ lastOpened \in Owners
  THEN [ts EXCEPT ![lastOpened] = Deactivated(@)] ELSE ts

\* domTT_mouseout of an owner.
LeftOwner(t) ==
  IF t.status # "none" /\ (options.type = "greasy" \/ t.status # "active") THEN Deactivated(t) ELSE t

\* The mouse leaves the element where it is; a velcro tip closes itself.
Left(ts) ==
  IF over = Page THEN ts
  ELSE IF over[2] = "owner" THEN [ts EXCEPT ![over[1]] = LeftOwner(@)]
  ELSE IF options.type = "velcro" THEN [ts EXCEPT ![over[1]] = Deactivated(@)] ELSE ts

-----------------------------------------------------------------------------
(* Where a tip is put. *)

West == {"northwest", "southwest"}
East == {"northeast", "southeast"}
North == {"northeast", "northwest", "north"}

\* domTT_create: the offsets from the mouse.
OffsetLeft(d) ==
  IF d \in East THEN OffsetX ELSE IF d \in West THEN -Width - OffsetX ELSE -(Width \div 2)
OffsetTop(d) == IF d \in North THEN -Height - OffsetY ELSE OffsetY

\* clearMouse: below the mouse.
MouseOffset(d) == IF d \in North THEN 0 ELSE MouseHeight

\* domTT_correctEdgeBleed: off the right, then off the left.
CorrectedLeft(x) ==
  LET edge == options.width - Padding
      x1 == IF x + Width - edge > 0 THEN edge - Width ELSE x
  IN IF x1 < Padding THEN Padding ELSE x1

\* Off the bottom it is flipped to the north, with the offset of its direction.
Flipped(y, d) ==
  IF y + Height - (options.height - Padding) > 0 THEN mouse.y - Height - OffsetTop(d) ELSE y

\* Then, off the top, to the south.
CorrectedTop(y, d) ==
  LET y1 == Flipped(y, d) IN IF y1 < Padding THEN mouse.y + MouseHeight + OffsetTop(d) ELSE y1

X == CorrectedLeft(mouse.x + OffsetLeft(options.direction))
Y == CorrectedTop(mouse.y + OffsetTop(options.direction) + MouseOffset(options.direction),
                  options.direction)

-----------------------------------------------------------------------------
Places == {"over", "near", "far"}
Waiting(t) == t.oldTimeouts + t.trails + (IF t.activateTimeout THEN 1 ELSE 0)
Room(o) == Waiting(tips[o]) < MaxTimers

-----------------------------------------------------------------------------
MouseOver(o, place) ==
  /\ dragged = "none" /\ over # <<o, "owner">> /\ Room(o)
  /\ over' = <<o, "owner">>
  /\ IF "mouseover" \in options.events
     THEN /\ tips' = [CloseLast(Left(tips), o) EXCEPT ![o] = Activated(@, "mouseover", place)]
          /\ lastOpened' = o
     ELSE tips' = Left(tips) /\ UNCHANGED lastOpened
  /\ UNCHANGED <<dragged, rest>>

Click(o, place) ==
  /\ over = <<o, "owner">> /\ "click" \in options.events /\ Room(o)
  /\ tips' = [CloseLast(tips, o) EXCEPT ![o] = Activated(@, "click", place)]
  /\ lastOpened' = o
  /\ UNCHANGED <<over, dragged, rest>>

\* The mouse goes to a tip, which may be next to its owner, or to the page.
MouseOut(to) ==
  /\ dragged = "none" /\ over # to
  /\ to # Page => tips[to[1]].status = "active"
  /\ tips' = Left(tips)
  /\ over' = to
  /\ UNCHANGED <<lastOpened, dragged, rest>>

\* domTT_mousemove: an active tip trails the mouse, at once or later.
MouseMove(o, place) ==
  /\ over = <<o, "owner">> /\ options.trail # "none" /\ tips[o].status = "active"
  /\ IF options.trail = "now" THEN tips' = [tips EXCEPT ![o] = Shown(@, place)]
     ELSE Room(o) /\ tips' = [tips EXCEPT ![o].trails = @ + 1]
  /\ UNCHANGED <<over, lastOpened, dragged, rest>>

\* Timers for domTT_runShow; of those of an activation the oldest is first.
RunShow(o, place) ==
  /\ LET t == tips[o] IN
       \/ /\ t.oldTimeouts > 0
          /\ tips' = [tips EXCEPT ![o] = Shown([t EXCEPT !.oldTimeouts = t.oldTimeouts - 1], place)]
       \/ /\ t.oldTimeouts = 0 /\ t.activateTimeout
          /\ tips' = [tips EXCEPT ![o] = Shown([t EXCEPT !.activateTimeout = FALSE], place)]
       \/ /\ t.trails > 0
          /\ tips' = [tips EXCEPT ![o] = Shown([t EXCEPT !.trails = t.trails - 1], place)]
  /\ UNCHANGED <<over, lastOpened, dragged, rest>>

RunDeactivate(o) ==
  /\ tips[o].lifetimeTimeout
  /\ tips' = [tips EXCEPT ![o] = Deactivated([@ EXCEPT !.lifetimeTimeout = FALSE])]
  /\ UNCHANGED <<over, lastOpened, dragged, rest>>

Tick(o) ==
  /\ tips[o].fading # "no"
  /\ tips' = [tips EXCEPT ![o] = Faded(tips[o])]
  /\ UNCHANGED <<over, lastOpened, dragged, rest>>

\* The link of a sticky tip, or a click on a velcro one.
CloseTip(o) ==
  /\ over = <<o, "tip">> /\ options.type \in {"sticky", "velcro"} /\ dragged = "none"
  /\ tips' = [tips EXCEPT ![o] = Deactivated(@)]
  /\ over' = Page
  /\ UNCHANGED <<lastOpened, dragged, rest>>

\* A click of the page for domTT_closeAll.
CloseAll ==
  /\ over = Page
  /\ tips' = [o \in Owners |-> Deactivated(tips[o])]
  /\ UNCHANGED <<over, lastOpened, dragged, rest>>

DragStart(o) ==
  /\ options.type = "sticky" /\ over = <<o, "tip">> /\ dragged = "none"
  /\ dragged' = o
  /\ UNCHANGED <<tips, over, lastOpened, rest>>

DragUpdate(place) ==
  /\ dragged # "none"
  /\ tips' = [tips EXCEPT ![dragged] = Collided(@, place)]
  /\ UNCHANGED <<over, lastOpened, dragged, rest>>

DragStop == dragged # "none" /\ dragged' = "none" /\ UNCHANGED <<tips, over, lastOpened, rest>>

\* The mouse goes over the page.
MoveRight ==
  /\ mouse.x < options.width /\ mouse' = [mouse EXCEPT !.x = @ + 1]
  /\ UNCHANGED <<options, tips, over, lastOpened, dragged>>
MoveDown ==
  /\ mouse.y < options.height /\ mouse' = [mouse EXCEPT !.y = @ + 1]
  /\ UNCHANGED <<options, tips, over, lastOpened, dragged>>

Next ==
  \/ \E o \in Owners, place \in Places :
       MouseOver(o, place) \/ Click(o, place) \/ MouseMove(o, place) \/ RunShow(o, place)
  \/ \E o \in Owners : RunDeactivate(o) \/ Tick(o) \/ CloseTip(o) \/ DragStart(o)
  \/ \E to \in {Page} \cup (Owners \X {"tip"}) : MouseOut(to)
  \/ \E place \in Places : DragUpdate(place)
  \/ CloseAll \/ DragStop \/ MoveRight \/ MoveDown

Spec == Init /\ [][Next]_vars

\* Timers and intervals of the browser run.
Fairness == \A o \in Owners :
    WF_vars(Tick(o)) /\ WF_vars(\E place \in Places : RunShow(o, place)) /\ WF_vars(RunDeactivate(o))

FairSpec == Spec /\ Fairness

-----------------------------------------------------------------------------
Tip ==
  [status : {"none", "inactive", "pending", "active"}, eventType : {"", "mouseover", "click"},
   destroy : BOOLEAN, activateTimeout : BOOLEAN, oldTimeouts : Nat, lifetimeTimeout : BOOLEAN,
   trails : Nat, display : BOOLEAN, opacity : 0..MaxOpacity, fading : {"no", "in", "out"},
   hides : BOOLEAN]

TypeOK ==
  /\ options \in TipOptions
  /\ tips \in [Owners -> Tip] /\ \A o \in Owners : Waiting(tips[o]) <= MaxTimers
  /\ over = Page \/ over \in Owners \X {"owner", "tip"}
  /\ lastOpened \in Owners \cup {"none"} /\ dragged \in Owners \cup {"none"}
  /\ mouse \in [x : 0..options.width, y : 0..options.height]

\* A timer that waits to show a tip is the one of the present activation, and
\* one that waits to close it is the one of the present showing.
TimersBelong ==
  options.trail # "lazy" =>
    \A o \in Owners :
      /\ tips[o].oldTimeouts = 0 /\ tips[o].trails = 0
      /\ tips[o].activateTimeout <=> tips[o].status = "pending"
      /\ tips[o].lifetimeTimeout => tips[o].status = "active"

\* A greasy tip is there only while the mouse is on its owner.
GreasyFollowsMouse ==
  options.type = "greasy" =>
    \A o \in Owners : tips[o].status \in {"pending", "active"} => over = <<o, "owner">>

\* A sticky or velcro tip stays while the mouse is on it, and a sticky one also
\* while it is dragged.
HeldIsActive ==
  /\ \A o \in Owners :
       options.type # "greasy" /\ over = <<o, "tip">> => tips[o].status = "active"
  /\ dragged # "none" => options.type = "sticky" /\ over = <<dragged, "tip">>

\* No two tips are open, or about to open, at a time.
OneTip ==
  options.oneOnly =>
    \A o \in Owners : tips[o].status \in {"pending", "active"} => o = lastOpened

\* The list is hidden only while a tip is active (and was last found over it),
\* unless a late move finds a tip that fades out.
ListIsBack ==
  (options.trail = "lazy" => options.fade = "neither") =>
    \A o \in Owners : tips[o].hides => tips[o].status = "active"

\* An active tip can be seen, or fades in, unless its fader failed.
ActiveIsSeen ==
  options.fade # "out" =>
    \A o \in Owners : tips[o].status = "active" =>
      tips[o].display /\ (tips[o].opacity > 0 \/ tips[o].fading = "in")

\* An inactive tip cannot be seen, or fades out.
InactiveIsUnseen ==
  \A o \in Owners : tips[o].status # "active" =>
    \/ ~tips[o].display \/ tips[o].opacity = 0 \/ tips[o].fading = "out"

\* A tip that fits is between the left and the right edge, and one with room
\* below the mouse, or above a mouse that is on the page, between the others.
RoomBelow == mouse.y + MouseHeight + OffsetY + Height <= options.height - Padding
RoomAbove == mouse.y - Height - OffsetY >= Padding /\ mouse.y - OffsetY <= options.height - Padding

OnPage ==
  /\ Width + 2 * Padding <= options.width => X >= Padding /\ X + Width <= options.width - Padding
  /\ options.direction \notin North /\ (RoomBelow \/ RoomAbove)
       => Y >= Padding /\ Y + Height <= options.height - Padding

\* The tip is above or below the mouse, on either side of the edges, and never
\* under it.
BesideMouse ==
  options.direction \notin North =>
    Y + Height + OffsetY <= mouse.y \/ Y >= mouse.y + MouseHeight + OffsetY

\* While the mouse stays, a pending tip becomes active, and a tip that fades
\* out cannot be seen in the end, unless it is activated again.
PendingIsShown ==
  \A o \in Owners : tips[o].status = "pending" ~>
    (tips[o].status = "active" \/ over # <<o, "owner">> \/ lastOpened # o)
FadeOutEnds ==
  \A o \in Owners : (tips[o].status = "inactive" /\ tips[o].fading = "out") ~>
    (tips[o].status # "inactive" \/ tips[o].opacity = 0)
=============================================================================
