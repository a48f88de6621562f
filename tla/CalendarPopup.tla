--------------------------- MODULE CalendarPopup ---------------------------
(***************************************************************************)
(* The pop-up calendars of calendar.js and calendar-setup.js as the mouse  *)
(* and the keyboard see them: what is shown, pressed, dragged and          *)
(* highlighted, the combos that appear when a button is held, and the      *)
(* listeners on the document.  Static state: Calendar._C and               *)
(* _dynarch_popupCalendar.  One mouse button is used.                      *)
(***************************************************************************)
EXTENDS Naturals, FiniteSets

CONSTANTS
  MaxOpens,             \* bound: calendars that are opened
  PopupParams           \* the parameters that are tried: option cache, one calendar
                        \* for all fields; and eventName is focus, so that it opens
                        \* without a click elsewhere

CalendarPopupAssumption ==
  /\ MaxOpens \in Nat \ {0}
  /\ PopupParams \subseteq [cache : BOOLEAN, focus : BOOLEAN]

None == 0
Calendars == 1..MaxOpens
\* Cells of the table: a day, or the x or Today, the buttons for months and for
\* years, and the title.
Elements == {"day", "month", "year", "title"}
Page == <<None, "page">>

VARIABLES
  params,               \* of setup; they never change
  opens,                \* calendars opened so far
  shown, popup,         \* the visible calendars, and _dynarch_popupCalendar
  listening,            \* listeners for keys and for the mouse on the document
  C,                    \* Calendar._C, the calendar of the pressed element
  activeDiv, timeout,   \* of each calendar; a timeout is pending or None
  combos,               \* the combos that each calendar shows
  dragging,             \* the calendars that are dragged
  hilite,               \* the elements with this class
  over, pressed,        \* where the mouse is, and whether it is pressed
  covers, visible       \* the calendars over a list of the page; its visibility

document == <<shown, popup, listening, visible>>
press == <<C, activeDiv, timeout, combos, dragging>>
rest == <<params, opens>>
vars == <<rest, document, press, hilite, over, pressed, covers>>

Targets ==
  {Page} \cup {<<c, e>> : c \in shown, e \in Elements}
         \cup {<<c, "item">> : c \in {d \in shown : combos[d] # {}}}

Init ==
  /\ params \in PopupParams
  /\ opens = 0 /\ shown = {} /\ popup = None /\ listening = FALSE
  /\ C = None
  /\ activeDiv = [c \in Calendars |-> "none"]
  /\ timeout = [c \in Calendars |-> "none"]
  /\ combos = [c \in Calendars |-> {}]
  /\ dragging = {} /\ hilite = {}
  /\ over = Page /\ pressed = FALSE
  /\ covers \in SUBSET Calendars /\ visible = TRUE

-----------------------------------------------------------------------------
\* The element that the pressed mouse is moved to is the pressed one.
SameElement(a, b) == a = b

ClearTimeout(c) == timeout' = [timeout EXCEPT ![c] = "none"]
HideCombos(c) == combos' = [combos EXCEPT ![c] = {}]
DragEnd(c) == dragging' = dragging \ {c}

AddClass(elements) == hilite \cup elements
RemoveClass(elements) == hilite \ elements

\* show takes the classes hilite and active from every cell.
ClearClasses(c) == hilite' = RemoveClass({h \in hilite : h[1] = c})

\* hideShowCovered of a calendar: it looks at no other one.
HideShowCovered(c, isShown) == visible' = ~(isShown /\ c \in covers)

\* hide; the mouse is over the page then.
Hide(c) ==
  /\ shown' = shown \ {c}
  /\ listening' = FALSE
  /\ UNCHANGED popup
  /\ over' = IF over[1] = c THEN Page ELSE over

Close(c) == Hide(c) /\ HideShowCovered(c, FALSE)

\* showAtElement, which calls showAt and show; where it is put is left out.
ShowAtElement(c) ==
  /\ shown' = shown \cup {c} /\ popup' = c /\ listening' = TRUE
  /\ ClearClasses(c)
  /\ HideShowCovered(c, TRUE)

\* The trigger of a field; by a click, the mouse was pressed outside before.
Trigger ==
  LET c == IF params.cache THEN 1 ELSE opens + 1 IN
  /\ opens < MaxOpens /\ ~pressed
  /\ params.focus \/ shown = {}
  /\ opens' = opens + 1
  /\ ShowAtElement(c)
  /\ UNCHANGED <<params, press, over, pressed, covers>>

\* Mouse down outside the calendar that was opened last: _checkCalendar.  The
\* event is stopped, so nothing is pressed.
PressOutside ==
  /\ ~pressed /\ listening /\ over[1] # popup
  /\ Close(popup)
  /\ UNCHANGED <<rest, press, hilite, pressed, covers>>

\* dayMouseDown
Press ==
  LET c == over[1] e == over[2] IN
  /\ ~pressed /\ c # None
  /\ listening => c = popup
  /\ pressed' = TRUE
  /\ C' = c
  /\ activeDiv' = [activeDiv EXCEPT ![c] = e]
  /\ timeout' = [timeout EXCEPT ![c] = IF e \in {"month", "year"} THEN e ELSE "none"]
  /\ IF e = "title" THEN dragging' = dragging \cup {c} /\ UNCHANGED hilite
     ELSE hilite' = AddClass({over}) /\ UNCHANGED dragging
  /\ UNCHANGED <<rest, document, combos, over, covers>>

\* 250 ms after the press: showMonthsCombo, showYearsCombo.
Timeout(c) ==
  /\ timeout[c] # "none"
  /\ ClearTimeout(c)
  /\ combos' = IF C = None THEN combos ELSE [combos EXCEPT ![C] = @ \cup {timeout[c]}]
  /\ UNCHANGED <<rest, document, C, activeDiv, dragging, hilite, over, pressed, covers>>

\* The mouse moves to another element: dayMouseOut and dayMouseOver, or
\* tableMouseOver while an element is pressed.
Move(to) ==
  /\ to # over
  /\ C \in dragging => to = Page
  /\ over' = to
  /\ hilite' = IF C = None
               THEN RemoveClass({over}) \cup {t \in {to} : t[2] \in Elements \ {"title"}}
               ELSE IF C \in dragging THEN hilite
               ELSE IF SameElement(to, <<C, activeDiv[C]>>) THEN AddClass({to})
               ELSE RemoveClass({<<C, activeDiv[C]>>})
  /\ UNCHANGED <<rest, document, press, pressed, covers>>

\* calDragIt: what is covered is found before the calendar moves.
Drag(now) ==
  /\ C \in dragging
  /\ HideShowCovered(C, C \in shown)
  /\ covers' = IF now THEN covers \cup {C} ELSE covers \ {C}
  /\ UNCHANGED <<rest, shown, popup, listening, press, hilite, over, pressed>>

\* cellClick by the mouse may close the calendar: on a day with singleClick or for
\* the second time, on the x, and on Today when it is the date already.
Closes(c) == over = <<c, "day">> /\ activeDiv[c] = "day"

\* What is clicked may build the days again, which takes their highlight.
HiliteAfterClick(c) == {hilite, RemoveClass({<<c, "day">>})}

\* Mouse up: tableMouseUp, and calDragEnd around it.
Release ==
  /\ pressed
  /\ pressed' = FALSE
  /\ ClearTimeout(C) /\ HideCombos(C) /\ DragEnd(C)
  /\ C' = None
  /\ \/ Closes(C) /\ Close(C)
     \/ /\ UNCHANGED <<shown, popup, listening>>
        /\ over' = IF over[2] = "item" THEN Page ELSE over
        /\ IF C \in dragging THEN HideShowCovered(C, C \in shown) ELSE UNCHANGED visible
  /\ hilite' \in HiliteAfterClick(C)
  /\ UNCHANGED <<rest, activeDiv, covers>>

\* _keyEvent: Escape closes, and the other keys build the days again.
Escape ==
  /\ listening
  /\ Close(popup)
  /\ UNCHANGED <<rest, press, hilite, pressed, covers>>

Arrow ==
  /\ listening
  /\ hilite' = RemoveClass({<<popup, "day">>})
  /\ UNCHANGED <<rest, document, press, over, pressed, covers>>

Next ==
  \/ Trigger \/ PressOutside \/ Press \/ Release \/ Escape \/ Arrow
  \/ \E c \in Calendars : Timeout(c)
  \/ \E to \in Targets : Move(to)
  \/ \E now \in BOOLEAN : Drag(now)

Spec == Init /\ [][Next]_vars

-----------------------------------------------------------------------------
TypeOK ==
  /\ params \in PopupParams
  /\ opens \in 0..MaxOpens /\ shown \subseteq Calendars /\ popup \in Calendars \cup {None}
  /\ {listening, pressed, visible} \subseteq BOOLEAN
  /\ C \in Calendars \cup {None}
  /\ activeDiv \in [Calendars -> Elements \cup {"none", "item"}]
  /\ timeout \in [Calendars -> {"none", "month", "year"}]
  /\ combos \in [Calendars -> SUBSET {"month", "year"}]
  /\ dragging \subseteq Calendars /\ covers \subseteq Calendars
  /\ over = Page \/ over \in Calendars \X (Elements \cup {"item"})

\* A combo is shown by the calendar whose button is held, and it is the combo
\* of that button, even when a key closes the calendar or the timer is late.
ComboOfPressed ==
  \A c \in Calendars : combos[c] # {} => C = c /\ combos[c] = {activeDiv[c]}

\* When the mouse is released nothing is pressed, dragged or waited for.
ReleaseEndsAll ==
  ~pressed => /\ C = None /\ dragging = {}
              /\ \A c \in Calendars : combos[c] = {} /\ timeout[c] = "none"

\* Of the calendars that are shown only the element under the mouse is
\* highlighted, when none is pressed.
HiliteFollowsMouse == ~pressed => \A h \in hilite : h[1] \in shown => h = over

\* Calendars of their own that open on focus may be shown together.
OneShown == params.focus => params.cache

\* A list of the page is hidden just while a calendar is over it, except on the
\* way of a drag.
CoveredIsHidden == OneShown /\ dragging = {} => (visible <=> shown \cap covers = {})

\* The keys go to a calendar that is shown.
KeysReachShown == listening => popup \in shown

\* No calendar is left that neither a key nor a click outside can close.
ShownListens == OneShown /\ shown # {} => listening
=============================================================================
