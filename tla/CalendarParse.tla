--------------------------- MODULE CalendarParse ---------------------------
(***************************************************************************)
(* Date.print and Date.parseDate of calendar.js: the field keeps a date as *)
(* text, and the calendar opens with the date that it reads from the text. *)
(* A text is a sequence of words: numbers, names of months (or the first   *)
(* letters of one), am or pm, and other words.                             *)
(***************************************************************************)
EXTENDS CivilDate, SequencesExt

CONSTANTS
  FirstDay,             \* the first date
  DayCount,             \* bound: number of dates
  Formats,              \* sequences of conversions
  Now                   \* the present moment

CalendarParseAssumption == DayCount \in Nat /\ DOMAIN Now = {"y", "m", "d", "h", "min"}

VARIABLES
  moment,               \* the date and the time of the calendar
  format,
  day                   \* number of the date

vars == <<moment, format, day>>

NaN == -1000000

\* What the conversions show besides numbers and months.
Word(k, v) == [kind |-> k, value |-> v]
Number(n) == Word("number", n)

-----------------------------------------------------------------------------
HourOfTwelve(hr) == Number(IF hr % 12 = 0 THEN 12 ELSE hr % 12)

\* print: the hour 0 of %k counts as missing, and "k" is all that is left of it.
PrintWord(x, conversion) ==
  CASE conversion \in {"%d", "%e"} -> Number(x.d)
    [] conversion = "%m" -> Number(x.m + 1)
    [] conversion \in {"%b", "%B"} -> Word("month", x.m)
    [] conversion = "%Y" -> Number(x.y)
    [] conversion = "%y" -> Number(x.y % 100)
    [] conversion = "%H" -> Number(x.h)
    [] conversion = "%k" -> IF x.h = 0 THEN Word("other", 0) ELSE Number(x.h)
    [] conversion \in {"%I", "%l"} -> HourOfTwelve(x.h)
    [] conversion \in {"%p", "%P"} -> Word("half", x.h \div 12)
    [] conversion = "%M" -> Number(x.min)
    [] OTHER -> Word("other", 0)

PrintDate(x, f) == [i \in DOMAIN f |-> PrintWord(x, f[i])]

ParseInt(w) == IF w.kind = "number" THEN w.value ELSE NaN

\* Two figures are a year from 1930 to 2029.
FullYear(y) ==
  IF y # NaN /\ y < 100 THEN (IF y > 29 THEN y + 1900 ELSE y + 2000) ELSE y

MonthOf(n) == IF n = NaN THEN NaN ELSE n - 1

\* A faulty variant of Half, which no action uses: noon is not told apart.
NoonMissed(hr, pm) ==
  IF pm THEN hr + 12 ELSE IF hr >= 12 THEN hr - 12 ELSE hr

\* am and pm change the hour that was read before.
Half(hr, pm) ==
  IF pm THEN (IF hr < 12 THEN hr + 12 ELSE hr) ELSE IF hr >= 12 THEN hr - 12 ELSE hr

\* One word of parseDate, for its conversion.
Read(st, w, conversion) ==
  CASE conversion \in {"%d", "%e"} -> [st EXCEPT !.d = ParseInt(w)]
    [] conversion = "%m" -> [st EXCEPT !.m = MonthOf(ParseInt(w))]
    [] conversion \in {"%Y", "%y"} -> [st EXCEPT !.y = FullYear(ParseInt(w))]
    [] conversion \in {"%b", "%B"} -> IF w.kind = "month" THEN [st EXCEPT !.m = w.value] ELSE st
    [] conversion \in {"%H", "%I", "%k", "%l"} -> [st EXCEPT !.h = ParseInt(w)]
    [] conversion \in {"%p", "%P"} ->
         IF w.kind = "half" /\ st.h # NaN THEN [st EXCEPT !.h = Half(st.h, w.value = 1)] ELSE st
    [] conversion = "%M" -> [st EXCEPT !.min = ParseInt(w)]
    [] OTHER -> st

Nothing == [y |-> 0, m |-> -1, d |-> 0, h |-> 0, min |-> 0]

\* What is not a number is taken from the present moment.
OrNow(st) == [f \in DOMAIN st |-> IF st[f] = NaN THEN Now[f] ELSE st[f]]

ReadAll(text, f) ==
  OrNow(FoldLeft(LAMBDA st, i : Read(st, text[i], IF i \in DOMAIN f THEN f[i] ELSE "none"),
                 Nothing, [i \in DOMAIN text |-> i]))

\* The name of a month after a number that was taken for the month.
MonthNamed(st, t) ==
  IF st.m # -1 THEN [st EXCEPT !.d = st.m + 1, !.m = t] ELSE [st EXCEPT !.m = t]

\* One word without the format: a small number is the month, a large one the year.
Guess(st, w) ==
  CASE w.kind = "month" -> MonthNamed(st, w.value)
    [] w.kind # "number" -> st
    [] w.value <= 12 /\ st.m = -1 -> [st EXCEPT !.m = w.value - 1]
    [] w.value > 31 /\ st.y = 0 -> [st EXCEPT !.y = FullYear(w.value)]
    [] st.d = 0 -> [st EXCEPT !.d = w.value]
    [] OTHER -> st

\* new Date(y, m, d, h, min): a day that the month does not have goes on.
Moment(st) ==
  LET date == FromDays(Days(st.y, st.m, 1) + st.d - 1)
  IN [y |-> date.y, m |-> date.m, d |-> date.d, h |-> st.h, min |-> st.min]

ParseDate(text, f) ==
  LET read == ReadAll(text, f)
      guess == FoldLeft(Guess, [Nothing EXCEPT !.h = read.h, !.min = read.min], text)
  IN IF read.y # 0 /\ read.m # -1 /\ read.d # 0 THEN Moment(read)
     ELSE IF guess.m # -1 /\ guess.d # 0
     THEN Moment(IF guess.y = 0 THEN [guess EXCEPT !.y = Now.y] ELSE guess)
     ELSE Now

-----------------------------------------------------------------------------
At(date, h) == [y |-> date.y, m |-> date.m, d |-> date.d, h |-> h, min |-> 5]

Init ==
  /\ moment = At(FirstDay, 0)
  /\ format \in Formats
  /\ day = 0

NextHour ==
  /\ moment.h < 23
  /\ moment' = [moment EXCEPT !.h = @ + 1]
  /\ UNCHANGED <<format, day>>

NextDay ==
  /\ moment.h = 23 /\ day < DayCount
  /\ day' = day + 1
  /\ moment' = At(FromDays(DaysOf(FirstDay) + day'), 0)
  /\ UNCHANGED format

Next == NextHour \/ NextDay

Spec == Init /\ [][Next]_vars

-----------------------------------------------------------------------------
Has(f, conversions) == \E i \in DOMAIN f : f[i] \in conversions

\* What a format says of the moment.  %k says nothing of midnight, which becomes the
\* present hour; %H and %I with %p do.
SaidHour(x, f) ==
  IF Has(f, {"%k"}) /\ x.h = 0 THEN Now.h
  ELSE IF Has(f, {"%H", "%k"}) \/ Has(f, {"%p", "%P"}) THEN x.h ELSE 0

Said(x, f) ==
  [x EXCEPT !.h = SaidHour(x, f), !.min = IF Has(f, {"%M"}) THEN @ ELSE 0]

TypeOK ==
  /\ moment.m \in 0..11 /\ moment.d \in 1..GetMonthDays(moment.y, moment.m)
  /\ moment.h \in 0..23 /\ moment.min \in 0..59
  /\ format \in Formats /\ day \in 0..DayCount

\* The calendar opens with the moment that it stored: reading with the format
\* what was printed with it gives the moment again, as far as the format says; the
\* one hour that is stored and not read again is midnight with %k.
StoredIsRead == ParseDate(PrintDate(moment, format), format) = Said(moment, format)

\* The hour that am and pm need is read before them, and noon and midnight are
\* told apart.
HalfDayIsRead ==
  LET f == <<"%Y", "%m", "%d", "%I", "%M", "%p">>
  IN ParseDate(PrintDate(moment, f), f) = moment

\* A day and the name of a month, in either order, are found although the
\* format expects a whole date in numbers.
DayAndMonthAreGuessed ==
  LET f == <<"%Y", "%m", "%d">>
      d == Number(moment.d)
      m == Word("month", moment.m)
      there == [moment EXCEPT !.y = Now.y, !.h = 0, !.min = 0]
  IN moment.d <= 28 => ParseDate(<<d, m>>, f) = there /\ ParseDate(<<m, d>>, f) = there
=============================================================================
