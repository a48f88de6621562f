----------------------------- MODULE CivilDate -----------------------------
(***************************************************************************)
(* Dates as calendar.js uses them: the Date object of the browser (days    *)
(* that overflow go to the next month) and the patches of calendar.js.  A  *)
(* date has a year y, a month m from 0 to 11 and a day d.                  *)
(***************************************************************************)
EXTENDS Integers

Date(y, m, d) == [y |-> y, m |-> m, d |-> d]

\* Days since the first of March of the year 0, in the Gregorian calendar.
Days(y, m, d) ==
  LET y1 == IF m < 2 THEN y - 1 ELSE y
      m1 == (m + 10) % 12
  IN 365 * y1 + (y1 \div 4) - (y1 \div 100) + (y1 \div 400) + ((153 * m1 + 2) \div 5) + d - 1

DaysOf(date) == Days(date.y, date.m, date.d)

FromDays(n) ==
  LET era == n \div 146097
      day == n % 146097
      yoe == (day - (day \div 1460) + (day \div 36524) - (day \div 146096)) \div 365
      doy == day - (365 * yoe + (yoe \div 4) - (yoe \div 100))
      m1 == (5 * doy + 2) \div 153
      m == (m1 + 2) % 12
  IN Date(era * 400 + yoe + (IF m < 2 THEN 1 ELSE 0), m, doy - ((153 * m1 + 2) \div 5) + 1)

\* getDay: 0 is Sunday.
WeekDay(date) == (DaysOf(date) + 3) % 7

\* The setters of the browser.
SetDate(date, d) == FromDays(Days(date.y, date.m, 1) + d - 1)
SetMonth(date, m) == FromDays(Days(date.y, m, 1) + date.d - 1)
OldSetFullYear(date, y) == FromDays(Days(y, date.m, 1) + date.d - 1)

-----------------------------------------------------------------------------
MD == <<31, 28, 31, 30, 31, 30, 31, 31, 30, 31, 30, 31>>

GetMonthDays(y, m) ==
  IF y % 4 = 0 /\ (y % 100 # 0 \/ y % 400 = 0) /\ m = 1 THEN 29 ELSE MD[m + 1]

IsDate(d) ==
  /\ d = Date(d.y, d.m, d.d)
  /\ d.y \in Int /\ d.m \in 0..11 /\ d.d \in 1..GetMonthDays(d.y, d.m)

\* setFullYear, as patched: a day that the year does not have becomes the 28th.
SetFullYear(date, y) ==
  OldSetFullYear(IF OldSetFullYear(date, y).m # date.m THEN SetDate(date, 28) ELSE date, y)

\* From the first of the month, so that nothing overflows on the way.
SetDateOnly(date, other) ==
  SetDate(SetMonth(SetFullYear(SetDate(date, 1), other.y), other.m), other.d)

\* The local function setMonth of cellClick.
ToMonth(date, m) ==
  LET max == GetMonthDays(date.y, m)
  IN SetMonth(IF date.d > max THEN SetDate(date, max) ELSE date, m)
=============================================================================
