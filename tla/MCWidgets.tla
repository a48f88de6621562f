------------------------------ MODULE MCWidgets ------------------------------
(***************************************************************************)
(* The tips of a page, and the calendar, as a grid of dates, as a pop-up   *)
(* and as a reader of dates, side by side: `part' names the one that       *)
(* moves, with its options, and the others rest.                           *)
(***************************************************************************)
EXTENDS CivilDate

CONSTANTS
  Owners, TipOptions, Width, Height, OffsetX, OffsetY, MouseHeight, Padding, MaxOpacity,
  MaxTimers,
  MinYear, MaxYear, Today, Firsts, FirstDays, NavParams,
  MaxOpens, PopupParams,
  FirstDay, DayCount, Formats, Now

VARIABLES
  part,
  options, tips, tipOver, lastOpened, dragged, mouse,
  navParams, cal, dateClicked, field, open, commands,
  popupParams, opens, shown, popup, listening, C, activeDiv, timeout, combos, dragging, hilite,
  over, pressed, covers, visible,
  moment, format, day

-----------------------------------------------------------------------------
(* Two elements with tips of each type; and tips on a page with edges,     *)
(* which are not activated.                                                *)

Greasy ==
  [events |-> {"mouseover", "click"}, type |-> "greasy", fade |-> "both", destroy |-> FALSE,
   lifetime |-> TRUE, trail |-> "now", oneOnly |-> FALSE,
   direction |-> "south", width |-> 0, height |-> 0]
Sticky ==
  [Greasy EXCEPT !.type = "sticky", !.fade = "in", !.destroy = TRUE, !.lifetime = FALSE,
                 !.trail = "none", !.oneOnly = TRUE]
Velcro ==
  [Greasy EXCEPT !.type = "velcro", !.fade = "neither", !.lifetime = FALSE, !.trail = "none"]
Lazy ==
  [Greasy EXCEPT !.events = {"mouseover"}, !.fade = "neither", !.lifetime = FALSE,
                 !.trail = "lazy"]
Placed(d) == [Velcro EXCEPT !.events = {}, !.direction = d, !.width = 30, !.height = 30]
TypesAndPlaces ==
  {Greasy, Sticky, Velcro, Lazy} \cup {Placed(d) : d \in {"southwest", "southeast", "south"}}

Tips == INSTANCE DomTooltip WITH over <- tipOver

-----------------------------------------------------------------------------
(* Two years, one of them a leap year; the week begins on a Sunday or on a *)
(* Monday.  Disabled dates: the end of a month and the first of the next.  *)

AnyDay == Date(2004, 0, 1)
LeapDay == Date(2004, 1, 29)
ThreeDays == {AnyDay, LeapDay, Date(2005, 11, 31)}

Plain == [showsOthers |-> FALSE, electric |-> FALSE, singleClick |-> TRUE,
          disabled |-> {}, commands |-> 2]
Others == [showsOthers |-> TRUE, electric |-> TRUE, singleClick |-> FALSE,
           disabled |-> {}, commands |-> 2]
Some == [showsOthers |-> FALSE, electric |-> TRUE, singleClick |-> TRUE,
         disabled |-> {LeapDay, Date(2004, 2, 1)}, commands |-> 3]
PlainOthersOrSome == {Plain, Others, Some}

Grid == INSTANCE CalendarNav WITH params <- navParams

\* A calendar for each field, or one for all fields that opens on focus.
Each == [cache |-> FALSE, focus |-> FALSE]
Cached == [cache |-> TRUE, focus |-> TRUE]
EachOrCached == {Each, Cached}

Popup == INSTANCE CalendarPopup WITH params <- popupParams

\* Four months of dates, over the end of a year and a leap day.
December == Date(2003, 11, 20)
FiveFormats ==
  {<<"%Y", "%m", "%d">>, <<"%d", "%m", "%y", "%H", "%M">>,
   <<"%A", "%e", "%B", "%Y", "%l", "%M", "%P">>, <<"%b", "%d", "%Y">>,
   <<"%Y", "%m", "%d", "%k", "%M">>}
JuneMorning == [y |-> 2005, m |-> 5, d |-> 15, h |-> 10, min |-> 30]

Reader == INSTANCE CalendarParse

-----------------------------------------------------------------------------
ASSUME WidgetsAssumption ==
  /\ Tips!DomTooltipAssumption
  /\ Grid!CalendarNavAssumption
  /\ Popup!CalendarPopupAssumption
  /\ Reader!CalendarParseAssumption

tipVars == <<options, tips, tipOver, lastOpened, dragged, mouse>>
gridVars == <<navParams, cal, dateClicked, field, open, commands>>
popupVars == <<popupParams, opens, shown, popup, listening, C, activeDiv, timeout, combos,
               dragging, hilite, over, pressed, covers, visible>>
readerVars == <<moment, format, day>>
allVars == <<part, tipVars, gridVars, popupVars, readerVars>>

Parts == {"tips", "grid", "popup", "reader"}

\* What rests has one of its initial states.
AllInit ==
  /\ part \in Parts
  /\ Tips!Init /\ (part = "tips" \/ options = CHOOSE o \in TipOptions : TRUE)
  /\ Grid!Init
  /\ \/ part = "grid"
     \/ /\ navParams = CHOOSE p \in NavParams : TRUE
        /\ field = CHOOSE d \in Firsts : TRUE
        /\ cal.firstDayOfWeek = CHOOSE f \in FirstDays : TRUE
  /\ Popup!Init
  /\ part = "popup" \/ (popupParams = (CHOOSE p \in PopupParams : TRUE) /\ covers = {})
  /\ Reader!Init /\ (part = "reader" \/ format = CHOOSE f \in Formats : TRUE)

Moves(p) ==
  /\ part = p
  /\ IF p = "tips" THEN Tips!Next ELSE UNCHANGED tipVars
  /\ IF p = "grid" THEN Grid!Next ELSE UNCHANGED gridVars
  /\ IF p = "popup" THEN Popup!Next ELSE UNCHANGED popupVars
  /\ IF p = "reader" THEN Reader!Next ELSE UNCHANGED readerVars
  /\ UNCHANGED part

AllNext == \E p \in Parts : Moves(p)

\* Timers run; of tips that rest nothing is asked.
AllSpec == AllInit /\ [][AllNext]_allVars /\ Tips!Fairness

-----------------------------------------------------------------------------
\* Timers belong to the present showing of a tip, a tip can be seen just while
\* it is active, the list it covers comes back, and domTT_oneOnly leaves one
\* tip; a tip is on the page and beside the mouse; the grid shows the
\* calendar's month and its date, within its years; a combo, a highlight and a
\* drag belong to the pressed button, what a calendar covers is hidden, and one
\* that is shown can be closed.
WidgetsSound ==
  /\ Tips!TypeOK /\ Tips!TimersBelong /\ Tips!HeldIsActive /\ Tips!GreasyFollowsMouse
  /\ Tips!OneTip /\ Tips!ListIsBack /\ Tips!ActiveIsSeen /\ Tips!InactiveIsUnseen
  /\ Tips!OnPage /\ Tips!BesideMouse
  /\ Grid!TypeOK /\ Grid!WithinYears /\ Grid!CellShowsDate /\ Grid!GridIsComplete
  /\ Popup!TypeOK /\ Popup!ComboOfPressed /\ Popup!ReleaseEndsAll /\ Popup!HiliteFollowsMouse
  /\ Popup!CoveredIsHidden /\ Popup!ShownListens /\ Popup!KeysReachShown

\* A date that was printed is read again, and its hour unless it is midnight and
\* was printed with %k.
DatesAreRead ==
  Reader!TypeOK /\ Reader!StoredIsRead /\ Reader!HalfDayIsRead /\ Reader!DayAndMonthAreGuessed

\* Arrows move the date by a day or a week over every border, buttons by a
\* month; what is picked is kept, and no click picks a disabled date.
WidgetsMove ==
  [][/\ Grid!ArrowMovesByStep
     /\ Grid!MonthMovesByOne
     /\ Grid!PickIsKept
     /\ Grid!NoCellIsDisabled]_allVars

\* A tip that is pending is shown, and one that fades out ends unseen.
TipsEnd == part = "tips" => Tips!PendingIsShown /\ Tips!FadeOutEnds
=============================================================================
