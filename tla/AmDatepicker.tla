---------------------------- MODULE AmDatepicker -----------------------------
(* The datepicker of Amaze UI on an input: a picker with a pane of days, of        *)
(* months and of years.  It keeps the date chosen and the month in view; a click on *)
(* a cell is turned into a date by the number and the class the cell has, and the    *)
(* month in view is moved by the arithmetic of Date.                                 *)
EXTENDS Integers, FiniteSets

CONSTANTS
  Today,       \* the date of the browser
  Typed,       \* what the user types: a date, which may not be in the calendar, or NoDate
  Modes,       \* the options: records of viewMode (start) and minViewMode (min)
  WeekStart,   \* the first day of the week, 0 for Sunday
  PickYears,   \* bound: the years that are clicked
  MaxPicks     \* bound: clicks and other changes

\* An input that holds no complete date.
NoDate == [y |-> 0, m |-> 0, d |-> 0]

\* IsLeapYear and getDaysInMonth(); months count from 0.
IsLeapYear(y) == (y % 4 = 0 /\ y % 100 # 0) \/ y % 400 = 0
DaysInMonth(y, m) ==
  IF m = 1 THEN IF IsLeapYear(y) THEN 29 ELSE 28
  ELSE IF m \in {3, 5, 8, 10} THEN 30 ELSE 31

\* new Date(y, m, d): a month before the first or behind the last is one of another
\* year, and days beyond the month's last run on into the next months.
InYear(y, m, d) == [y |-> y + (m \div 12), m |-> m % 12, d |-> d]
RunOn(t) ==
  LET days == DaysInMonth(t.y, t.m)
  IN  IF t.d > days THEN InYear(t.y, t.m + 1, t.d - days) ELSE t
NewDate(y, m, d) == RunOn(RunOn(InYear(y, m, d)))

\* getDay(), of every day of the calendar that Date counts by.
DaysBefore == <<0, 31, 59, 90, 120, 151, 181, 212, 243, 273, 304, 334>>
GetDay(t) ==
  LET leap == IF IsLeapYear(t.y) /\ t.m > 1 THEN 1 ELSE 0
      y     == t.y - 1
      years == 365 * t.y + (y \div 4) - (y \div 100) + (y \div 400)
  IN  (years + DaysBefore[t.m + 1] + leap + t.d - 1) % 7

\* Today is a day of the calendar.  What is typed need not be, but has days that RunOn,
\* twice, brings into a month, and a year that Date takes as it is: one below 100,
\* which it counts from 1900, is not modelled.
DatepickerAssumption ==
  /\ Today \in [y : Nat, m : 0 .. 11, d : 1 .. 31]
  /\ Today.d <= DaysInMonth(Today.y, Today.m)
  /\ Typed \subseteq [y : Nat \ (0 .. 99), m : Nat, d : 1 .. 72] \cup {NoDate}
  /\ PickYears \subseteq Nat \ (0 .. 99)
  /\ Modes \subseteq [start : 0 .. 2, min : 0 .. 2]
  /\ WeekStart \in 0 .. 6 /\ MaxPicks \in Nat
ASSUME DatepickerAssumption

\* options: of the picker; text: what the input holds; date, viewDate, mode: the fields
\* date, viewDate and viewMode; open: the picker is seen; listening: some open() has
\* set a handler at the document, which no close() removes.
\* History: meant, the day the last click was made on; month, the month the user has
\* gone to, as a number; typed, the input was written to since set() did.
VARIABLES options, text, date, viewDate, mode, open, listening, meant, month, typed, picks

dateVars ==
  <<options, text, date, viewDate, mode, open, listening, meant, month, typed, picks>>

MonthNumber(t) == 12 * t.y + t.m

\* parseDate(): what has not all its parts is today.
ParseDate(s) == IF s = NoDate THEN Today ELSE NewDate(s.y, s.m, s.d)

FirstOf(t) == NewDate(t.y, t.m, 1)

DatepickerTypeOK ==
  /\ options \in Modes /\ mode \in 0 .. 2
  /\ \A t \in {date, viewDate} : t.m \in 0 .. 11 /\ t.d \in 1 .. DaysInMonth(t.y, t.m)
  /\ {open, listening, typed} \subseteq BOOLEAN
  /\ picks \in 0 .. MaxPicks

DatepickerInit ==
  /\ options \in Modes /\ text \in Typed
  /\ date = ParseDate(text) /\ viewDate = FirstOf(date)
  /\ mode = options.start
  /\ open = FALSE /\ listening = FALSE
  /\ meant = NoDate /\ month = MonthNumber(viewDate) /\ typed = TRUE
  /\ picks = 0

-----------------------------------------------------------------------------
(* The pane of days, as fill() makes it: 42 days, from the last first day of a week *)
(* in the month before on.                                                         *)

FirstCell ==
  LET prev == NewDate(viewDate.y, viewDate.m - 1, 28)
      last == [prev EXCEPT !.d = DaysInMonth(prev.y, prev.m)]
  IN  [last EXCEPT !.d = @ - ((GetDay(last) - WeekStart + 7) % 7)]

Cell(i) == LET first == FirstCell IN NewDate(first.y, first.m, first.d + i)

\* Mutant: a cell's class goes by the month alone.
ClassByMonth(t) ==
  IF t.m < viewDate.m THEN "old" ELSE IF t.m > viewDate.m THEN "new" ELSE "day"

\* The class of the cell of day t.
Class(t) ==
  CASE (t.m < viewDate.m /\ t.y = viewDate.y) \/ t.y < viewDate.y -> "old"
    [] (t.m > viewDate.m /\ t.y = viewDate.y) \/ t.y > viewDate.y -> "new"
    [] OTHER -> "day"

Pick == picks < MaxPicks /\ picks' = picks + 1

\* set(): the input gets the date.
SetText == text' = date' /\ typed' = FALSE

\* Mutant: the last pane is not the last.
ShowModeUnbounded(dir) == mode' = IF mode + dir < options.min THEN options.min ELSE mode + dir

\* showMode(dir)
ShowMode(dir) ==
  LET most == IF mode + dir > 2 THEN 2 ELSE mode + dir
  IN  mode' = IF most < options.min THEN options.min ELSE most

ShowMonth(t) == viewDate' = t /\ month' = MonthNumber(t)

-----------------------------------------------------------------------------
\* open(): a click on the input, or a call.
OpenPicker ==
  /\ ~open /\ open' = TRUE
  /\ listening' = TRUE
  /\ UNCHANGED <<options, text, date, viewDate, mode, meant, month, typed, picks>>

\* close() is called by the handlers at the document, of a picker that is seen or not.
ClickElsewhere ==
  /\ listening /\ open' = FALSE
  /\ mode' = options.start
  /\ UNCHANGED <<options, text, date, viewDate, listening, meant, month, typed, picks>>

\* click() on the head of a pane: the pane above,
ClickSwitch ==
  /\ open /\ Pick
  /\ ShowMode(1)
  /\ UNCHANGED <<options, text, date, viewDate, open, listening, meant, month, typed>>

\* or the month, the year or the ten years before or after, by setMonth() and
\* setFullYear(); the input gets the date even so.
ClickArrow(dir) ==
  /\ open /\ Pick
  /\ LET months == CASE mode = 0 -> 1 [] mode = 1 -> 12 [] mode = 2 -> 120
     IN  /\ viewDate' = NewDate(viewDate.y, viewDate.m + dir * months, viewDate.d)
         /\ month' = month + dir * months
  /\ date' = date /\ SetText
  /\ UNCHANGED <<options, mode, open, listening, meant>>

\* A month or a year chosen is a date chosen, with the day of the month in view.
Chosen(t) ==
  /\ viewDate' = t /\ date' = t
  /\ meant' = t
  /\ ShowMode(-1)
  /\ SetText
  /\ UNCHANGED <<options, open, listening>>

ClickMonth(m) ==
  /\ open /\ mode = 1 /\ Pick
  /\ month' = 12 * viewDate.y + m
  /\ Chosen(NewDate(viewDate.y, m, viewDate.d))

ClickYear(y) ==
  /\ open /\ mode = 2 /\ Pick
  /\ month' = 12 * y + viewDate.m
  /\ Chosen(NewDate(y, viewDate.m, viewDate.d))

\* A day: the number the cell shows, in the month its class tells.  The day of the
\* month in view is one that every month has.  The picker closes (autoClose).
ClickDay(i) ==
  /\ open /\ mode = 0 /\ Pick
  /\ LET day == Cell(i).d
         m   == viewDate.m + CASE Class(Cell(i)) = "old" -> -1
                               [] Class(Cell(i)) = "new" -> 1
                               [] OTHER -> 0
     IN  /\ date' = NewDate(viewDate.y, m, day)
         /\ ShowMonth(NewDate(viewDate.y, m, IF day < 28 THEN day ELSE 28))
  /\ meant' = Cell(i)
  /\ SetText
  /\ open' = FALSE /\ mode' = options.start
  /\ UNCHANGED <<options, listening>>

\* update(), by every key released in the input or called with a date: the input
\* is left as it is.
Update(s, inInput) ==
  /\ Pick
  /\ text' = IF inInput THEN s ELSE text
  /\ date' = ParseDate(s) /\ ShowMonth(FirstOf(date'))
  /\ meant' = NoDate /\ typed' = TRUE
  /\ UNCHANGED <<options, mode, open, listening>>

\* setValue()
SetValue(s) ==
  /\ Pick
  /\ date' = ParseDate(s) /\ ShowMonth(FirstOf(date'))
  /\ meant' = NoDate
  /\ SetText
  /\ UNCHANGED <<options, mode, open, listening>>

DatepickerNext ==
  \/ OpenPicker \/ ClickElsewhere \/ ClickSwitch
  \/ \E dir \in {-1, 1} : ClickArrow(dir)
  \/ \E m \in 0 .. 11 : ClickMonth(m)
  \/ \E y \in PickYears : ClickYear(y)
  \/ \E i \in 0 .. 41 : ClickDay(i)
  \/ \E s \in Typed : SetValue(s) \/ \E inInput \in BOOLEAN : Update(s, inInput)

DatepickerSpec == DatepickerInit /\ [][DatepickerNext]_dateVars

-----------------------------------------------------------------------------
\* The day that was clicked is the date the picker has, and the date the input
\* shows; the arrows lead through the months without leaving one out, from any
\* day; and the pane of days shows every day of the month in view once, in whole
\* weeks.
DateAsPicked ==
  /\ meant # NoDate => date = meant
  /\ ~typed => text = date
  /\ MonthNumber(viewDate) = month
  /\ \A i \in 0 .. 41 : GetDay(Cell(i)) = (WeekStart + i) % 7
  /\ LET shown == {Cell(i) : i \in 0 .. 41}
     IN  /\ Cardinality(shown) = 42
         /\ \A d \in 1 .. DaysInMonth(viewDate.y, viewDate.m) :
              [viewDate EXCEPT !.d = d] \in shown
=============================================================================
