---------------------------- MODULE CalendarNav ----------------------------
(***************************************************************************)
(* Navigation in the calendar of calendar.js, set up by calendar-setup.js  *)
(* for a field: the grid of six weeks, the buttons, the combos and the     *)
(* keys.  A cell of the grid is <<column, row>>.  A disabled cell keeps    *)
(* the date of an earlier grid (caldate); of these dates only the one of   *)
(* the selected cell is ever read again, and it is kept in elDate.         *)
(***************************************************************************)
EXTENDS CivilDate

CONSTANTS
  MinYear, MaxYear,     \* setRange
  Today, Firsts,        \* today's date, and the dates the field may begin with
  FirstDays,            \* the days a week may begin with
  NavParams             \* the parameters that are tried: options showOthers, electric
                        \* and singleClick, the dates that getDateStatus disables,
                        \* and, a bound, the number of clicks and keys

CalendarNavAssumption ==
  /\ MinYear \in Nat /\ MaxYear \in Nat /\ MinYear <= MaxYear
  /\ IsDate(Today) /\ \A d \in Firsts : IsDate(d) /\ d.y \in MinYear..MaxYear
  /\ FirstDays \subseteq 0..6
  /\ \A p \in NavParams :
       /\ DOMAIN p = {"showsOthers", "electric", "singleClick", "disabled", "commands"}
       /\ {p.showsOthers, p.electric, p.singleClick} \subseteq BOOLEAN
       /\ p.commands \in Nat

Cells == (0..6) \X (0..5)
None == <<>>

VARIABLES
  params,       \* of setup; they never change
  cal,          \* the calendar: its date, the month of the grid (the first of
                \* it), firstDayOfWeek, currentDateEl (el) and the caldate of el
  dateClicked,
  field,        \* the date in the field
  open,
  commands

vars == <<params, cal, dateClicked, field, open, commands>>

-----------------------------------------------------------------------------
(* Faulty variants of the helpers below; no action uses them. *)

SevenForAll(k) == IF k \in {"left", "up"} THEN -7 ELSE 7

-----------------------------------------------------------------------------
\* The first day of the grid: the first day of the week of the first.
Start(c) == DaysOf(c.grid) - ((WeekDay(c.grid) - c.firstDayOfWeek) % 7)

CellDate(c, p) == FromDays(Start(c) + 7 * p[2] + p[1])

OtherMonth(c, p) == CellDate(c, p).m # c.grid.m

CellDisabled(c, p) == (OtherMonth(c, p) /\ ~params.showsOthers) \/ CellDate(c, p) \in params.disabled

InYears(d) ==
  IF d.y < MinYear THEN SetFullYear(d, MinYear)
  ELSE IF d.y > MaxYear THEN SetFullYear(d, MaxYear) ELSE d

CellOf(c, d) == LET n == DaysOf(d) - Start(c) IN <<n % 7, n \div 7>>

\* _init: the grid of a month; the cell of the date becomes the selected one
\* unless it is disabled, and the selected cell has a new date unless it is
\* disabled now.
GridOf(c, fdow, d) ==
  [c EXCEPT !.date = d, !.grid = Date(d.y, d.m, 1), !.firstDayOfWeek = fdow]
Selectable(c, p) == IF CellDisabled(c, p) THEN c.el ELSE p
Marked(c, p) ==
  [c EXCEPT !.el = p,
            !.elDate = IF p = None \/ CellDisabled(c, p) THEN @ ELSE CellDate(c, p)]
WithSelected(c) == Marked(c, Selectable(c, CellOf(c, c.date)))

Initialised(c, fdow, newDate) == WithSelected(GridOf(c, fdow, InYears(newDate)))

\* setDate
SetTo(c, newDate) ==
  IF newDate = c.date THEN c ELSE Initialised(c, c.firstDayOfWeek, newDate)

\* A date was clicked, and not just a month.
IsClicked(c, p) == ~(OtherMonth(c, p) /\ params.showsOthers)

\* cellClick on a cell with this date.
Picked(c, p, caldate) ==
  [c EXCEPT !.date = SetDateOnly(@, caldate),
            !.el = IF c.el = None THEN @ ELSE p,
            !.elDate = IF c.el = None THEN @ ELSE caldate]

InitialisedAgain(c) == Initialised(c, c.firstDayOfWeek, c.date)

CellClicked(c, p, caldate) ==
  IF IsClicked(c, p) THEN Picked(c, p, caldate) ELSE InitialisedAgain(Picked(c, p, caldate))

\* A calendar that was created for a date.
Created(d, fdow) ==
  Initialised([date |-> d, grid |-> d, firstDayOfWeek |-> fdow, el |-> None, elDate |-> d],
              fdow, d)

Init ==
  /\ params \in NavParams
  /\ field \in Firsts
  /\ \E fdow \in FirstDays : cal = Created(field, fdow)
  /\ dateClicked = FALSE
  /\ open = FALSE
  /\ commands = 0

-----------------------------------------------------------------------------
\* callHandler and the onSelect of calendar-setup.js
OnSelect(clicked, close) ==
  /\ field' = IF clicked \/ params.electric THEN cal'.date ELSE field
  /\ open' = ~(close \/ (clicked /\ params.singleClick))

\* cellClick by the mouse; without a selected cell a date is only toggled, for
\* a calendar of many dates.
ClickCell(p) ==
  /\ open /\ ~CellDisabled(cal, p)
  /\ cal' = CellClicked(cal, p, CellDate(cal, p))
  /\ dateClicked' = IsClicked(cal, p)
  /\ IF cal.el = None /\ IsClicked(cal, p) THEN UNCHANGED <<field, open>>
     ELSE OnSelect(IsClicked(cal, p), cal.el = p)

\* The date that a button leads to: years, months, today (0).
Navigated(d, n) ==
  CASE n = -2 -> IF d.y > MinYear THEN SetFullYear(d, d.y - 1) ELSE d
    [] n = 2  -> IF d.y < MaxYear THEN SetFullYear(d, d.y + 1) ELSE d
    [] n = -1 -> IF d.m > 0 THEN ToMonth(d, d.m - 1)
                 ELSE IF d.y > MinYear THEN ToMonth(SetFullYear(d, d.y - 1), 11) ELSE d
    [] n = 1  -> IF d.m < 11 THEN ToMonth(d, d.m + 1)
                 ELSE IF d.y < MaxYear THEN ToMonth(SetFullYear(d, d.y + 1), 0) ELSE d
    [] OTHER  -> SetDateOnly(d, Today)

\* cellClick on a button, by the mouse or by a key (which does not tell the page).
Button(n, mouse) ==
  LET newDate == Navigated(cal.date, n)
      same == newDate = cal.date
  IN /\ open
     /\ dateClicked' = FALSE
     /\ IF n = 0 /\ newDate \in params.disabled THEN UNCHANGED <<cal, field, open>>
        ELSE /\ cal' = SetTo(cal, newDate)
             /\ IF mouse /\ (~same \/ n = 0) THEN OnSelect(FALSE, same)
                ELSE UNCHANGED <<field, open>>

\* tableMouseUp over a month or a year of a combo.
Combo(newDate) ==
  /\ open /\ newDate # cal.date
  /\ cal' = SetTo(cal, newDate)
  /\ dateClicked' = FALSE
  /\ OnSelect(FALSE, FALSE)

\* cellClick on the name of a day.
SetFirstDayOfWeek(fdow) ==
  /\ open
  /\ dateClicked' = FALSE
  /\ cal' = Initialised(cal, fdow, cal.date)
  /\ UNCHANGED <<field, open>>

Step(k) == CASE k = "left" -> -1 [] k = "right" -> 1 [] k = "up" -> -7 [] k = "down" -> 7

Moved(c, k) == SetTo(c, FromDays(DaysOf(c.date) + Step(k)))

\* The cell that an arrow leads to from the selected one; beyond the first and
\* the last week of the grid it is the selected one of the grid after the step.
ArrowCell(k) ==
  LET n == 7 * cal.el[2] + cal.el[1] + Step(k)
  IN IF n \in 0..41 THEN <<n % 7, n \div 7>> ELSE None

\* _keyEvent, an arrow: from a disabled cell it goes on by the step.
ArrowTo(k, c, p) ==
  IF CellDisabled(c, p)
  THEN cal' = Moved(c, k) /\ UNCHANGED dateClicked
  ELSE /\ cal' = CellClicked(c, p, CellDate(c, p))
       /\ dateClicked' = IsClicked(c, p)

Arrow(k) ==
  /\ open /\ cal.el # None
  /\ IF ArrowCell(k) = None THEN \E c \in {Moved(cal, k)} : ArrowTo(k, c, c.el)
     ELSE ArrowTo(k, cal, ArrowCell(k))
  /\ UNCHANGED <<field, open>>

\* Enter clicks the selected cell, which is then clicked for the second time.
Enter ==
  /\ open /\ cal.el # None
  /\ cal' = CellClicked(cal, cal.el, cal.elDate)
  /\ dateClicked' = IsClicked(cal, cal.el)
  /\ IF CellDisabled(cal, cal.el) THEN open' = FALSE /\ UNCHANGED field
     ELSE OnSelect(IsClicked(cal, cal.el), TRUE)

\* Escape, or a click outside.
Escape == open /\ open' = FALSE /\ UNCHANGED <<cal, dateClicked, field>>

\* The trigger creates a new calendar for the date of the field.
Trigger ==
  /\ ~open
  /\ open' = TRUE
  /\ \E fdow \in FirstDays : cal' = Created(field, fdow)
  /\ dateClicked' = FALSE
  /\ UNCHANGED field

Buttons == {-2, -1, 0, 1, 2}
Keys == {"left", "right", "up", "down"}

Command ==
  \/ \E p \in Cells : ClickCell(p)
  \/ \E n \in Buttons, mouse \in BOOLEAN : Button(n, mouse)
  \/ \E m \in 0..11 : m # cal.date.m /\ Combo(SetMonth(cal.date, m))
  \/ \E y \in MinYear..MaxYear : Combo(SetFullYear(cal.date, y))
  \/ \E fdow \in FirstDays : SetFirstDayOfWeek(fdow)
  \/ \E k \in Keys : Arrow(k)
  \/ Enter \/ Escape

Next ==
  /\ \/ commands < params.commands /\ Command /\ commands' = commands + 1
     \/ Trigger /\ UNCHANGED commands
  /\ UNCHANGED params

Spec == Init /\ [][Next]_vars

-----------------------------------------------------------------------------
TypeOK ==
  /\ params \in NavParams
  /\ DOMAIN cal = {"date", "grid", "firstDayOfWeek", "el", "elDate"}
  /\ \A d \in {cal.date, cal.grid, cal.elDate, field} : IsDate(d)
  /\ cal.firstDayOfWeek \in 0..6
  /\ cal.el \in Cells \cup {None}
  /\ dateClicked \in BOOLEAN /\ open \in BOOLEAN /\ commands \in 0..params.commands

\* With disabled dates and the days of other months, a cell of the next year
\* that was selected may come back.
KeepsYears == params.disabled = {} \/ ~params.showsOthers

\* The calendar never leaves the years it was given, whichever way it is asked
\* to go, and neither does the field.
WithinYears ==
  KeepsYears => cal.date.y \in MinYear..MaxYear /\ field.y \in MinYear..MaxYear

\* The cell that looks selected is the one of the date, and the grid is that of
\* its month (unless dates are disabled).
CellShowsDate ==
  params.disabled = {} =>
    /\ cal.grid = Date(cal.date.y, cal.date.m, 1)
    /\ cal.el # None /\ CellDate(cal, cal.el) = cal.date
    /\ cal.elDate = cal.date

\* The six weeks begin on the day that weeks begin with, and show every day of
\* the month.
GridIsComplete ==
  /\ WeekDay(FromDays(Start(cal))) = cal.firstDayOfWeek
  /\ Start(cal) <= DaysOf(cal.grid)
  /\ DaysOf(cal.grid) + GetMonthDays(cal.grid.y, cal.grid.m) <= Start(cal) + 42

\* An arrow moves by a day or a week, over every border of weeks and months,
\* until the years end.
ArrowMovesByStep ==
  \A k \in Keys :
    LET days == [left |-> -1, right |-> 1, up |-> -7, down |-> 7]
        to == FromDays(DaysOf(cal.date) + days[k])
    IN params.disabled = {} /\ Arrow(k) /\ to.y \in MinYear..MaxYear => cal'.date = to

\* A button for months leads to the month before or after, on the same day or
\* its last one.
MonthMovesByOne ==
  \A n \in {-1, 1} :
    KeepsYears /\ Button(n, TRUE) /\ cal'.date # cal.date =>
      /\ 12 * cal'.date.y + cal'.date.m = 12 * cal.date.y + cal.date.m + n
      /\ cal'.date.d \in {cal.date.d, GetMonthDays(cal'.date.y, cal'.date.m)}

\* What the user picks, by a click or by Enter, is what the field holds when
\* that closes the calendar (unless dates are disabled).
PickIsKept ==
  params.disabled = {} /\ open /\ ~open' /\ dateClicked' /\ ~Escape => field' = cal'.date

\* Whatever dates are disabled: a disabled date gets into the field only by
\* the buttons and the combos, never by a click on a cell or by Enter.
NoCellIsDisabled == field' \in params.disabled /\ field' # field => ~dateClicked'
=============================================================================
