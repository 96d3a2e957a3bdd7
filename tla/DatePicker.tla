---------------------------- MODULE DatePicker ----------------------------
(* DatePickerControl.vue: the picker of a date, a month or a year from which  *)
(* the traffic views take their selection.  A date is [y, m, d]; a month has  *)
(* d = 0 and a year m = 0 too.  What a popup shows is computed from the view, *)
(* the year and month it was stepped to.                                      *)
EXTENDS Integers, Sequences

CONSTANTS MinYear, MaxYear,  \* MIN_YEAR, MAX_YEAR
          Years,             \* bound: years the view is stepped to
          Days,              \* bound: dates the clock or the value may have
          MaxNights          \* bound: midnights

CalendarAssumption == /\ MinYear \in Nat \ {0} /\ MaxYear \in Nat /\ MaxNights \in Nat
                      /\ Days \subseteq [y : MinYear..MaxYear, m : 1..12, d : 1..31]

VARIABLES
  type,      \* "date", "month" or "year"
  value,     \* modelValue
  open,
  clock,     \* the day of the last opening, which "today" is taken from
  now,       \* the day it is, in the zone of the data
  viewYear, viewMonth,
  nights     \* midnights so far

vars == <<type, value, open, clock, now, viewYear, viewMonth, nights>>

InRange(y) == y >= MinYear /\ y <= MaxYear

-----------------------------------------------------------------------------
(* The Date of JavaScript, as far as the picker uses it. *)

Leap(y) == (y % 4 = 0 /\ y % 100 # 0) \/ y % 400 = 0

DaysInMonth(y, m) == IF m = 2 THEN (IF Leap(y) THEN 29 ELSE 28)
                     ELSE IF m \in {4, 6, 9, 11} THEN 30 ELSE 31

\* getDay() of the first of a month, Monday being 0: the days since 1 January of the year 1.
DayOfYear(y, m) == 31 * (m - 1) - (IF m <= 2 THEN 0 ELSE (4 * m + 23) \div 10 - (IF Leap(y) THEN 1 ELSE 0))
FirstWeekday(y, m) == (365 * (y - 1) + (y - 1) \div 4 - (y - 1) \div 100 + (y - 1) \div 400 + DayOfYear(y, m)) % 7

\* The value a picker of a type takes from a day.
Cut(t, day) == [y |-> day.y, m |-> IF t = "year" THEN 0 ELSE day.m, d |-> IF t = "date" THEN day.d ELSE 0]

-----------------------------------------------------------------------------
(* What the popup shows. *)

Previous(y, m) == IF m = 1 THEN [y |-> y - 1, m |-> 12] ELSE [y |-> y, m |-> m - 1]
Following(y, m) == IF m = 12 THEN [y |-> y + 1, m |-> 1] ELSE [y |-> y, m |-> m + 1]

\* A defect: days beyond the range can be picked.
Cell_Enabled(month, day, outside) ==
  [iso |-> [y |-> month.y, m |-> month.m, d |-> day], outside |-> outside, disabled |-> FALSE]

\* The cell of a day: days of the neighbouring months are shown, not all can be picked.
Cell(month, day, outside) ==
  [iso |-> [y |-> month.y, m |-> month.m, d |-> day], outside |-> outside,
   disabled |-> outside /\ ~InRange(month.y)]

\* calendarDays: the last days of the month before, the month, and what fills six weeks.
CalendarDays(y, m) ==
  LET offset == FirstWeekday(y, m)
      length == DaysInMonth(y, m)
      before == Previous(y, m)
      after  == Following(y, m)
  IN  [i \in 1..42 |->
        IF i <= offset THEN Cell(before, DaysInMonth(before.y, before.m) - offset + i, TRUE)
        ELSE IF i <= offset + length THEN Cell([y |-> y, m |-> m], i - offset, FALSE)
        ELSE Cell(after, i - offset - length, TRUE)]

\* yearStart and yearGrid: twelve years from a multiple of twelve.
YearStart(y) == (y \div 12) * 12
YearGrid(y) == [i \in 1..12 |-> [iso |-> [y |-> YearStart(y) + i - 1, m |-> 0, d |-> 0],
                                 disabled |-> ~InRange(YearStart(y) + i - 1)]]

Enabled(cells) == {cells[i].iso : i \in {j \in DOMAIN cells : ~cells[j].disabled}}

\* The values the buttons of the open popup commit.
Offered ==
  CASE type = "date"  -> Enabled(CalendarDays(viewYear, viewMonth))
    [] type = "month" -> {[y |-> viewYear, m |-> m, d |-> 0] : m \in 1..12}
    [] OTHER -> Enabled(YearGrid(viewYear))

-----------------------------------------------------------------------------
\* syncFromValue: a value out of range, or without a month, gives way to today's.
SyncedYear(v, today)  == IF v.y # 0 /\ InRange(v.y) THEN v.y ELSE today.y
SyncedMonth(v, today) == IF v.m \in 1..12 THEN v.m ELSE today.m

Init ==
  /\ type \in {"date", "month", "year"} /\ now \in Days
  /\ \E d \in Days : value = Cut(type, d)
  /\ open = FALSE /\ clock = now
  /\ viewYear = now.y /\ viewMonth = now.m /\ nights = 0

\* The watcher: on opening the clock is read anew and the view follows the value.
Open ==
  /\ ~open /\ open' = TRUE /\ clock' = now
  /\ viewYear' = SyncedYear(value, now) /\ viewMonth' = SyncedMonth(value, now)
  /\ UNCHANGED <<type, value, now, nights>>

Dismiss == open /\ open' = FALSE /\ UNCHANGED <<type, value, clock, now, viewYear, viewMonth, nights>>

\* stepMonth(delta), behind its button's condition.
StepMonth(delta) ==
  /\ open /\ type = "date"
  /\ IF delta < 0 THEN ~(viewYear <= MinYear /\ viewMonth = 1)
                  ELSE ~(viewYear >= MaxYear /\ viewMonth = 12)
  /\ LET to == IF delta < 0 THEN Previous(viewYear, viewMonth) ELSE Following(viewYear, viewMonth)
     IN  /\ IF InRange(to.y) THEN viewYear' = to.y /\ viewMonth' = to.m
                             ELSE UNCHANGED <<viewYear, viewMonth>>
         /\ to.y \in Years
  /\ UNCHANGED <<type, value, open, clock, now, nights>>

\* stepYear(delta): by one, or by twelve where years are picked; stopped at the ends.
Clamped(y) == IF y < MinYear THEN MinYear ELSE IF y > MaxYear THEN MaxYear ELSE y
StepYear(back) ==
  /\ open
  /\ IF type = "year"
       THEN IF back THEN YearStart(viewYear) > MinYear ELSE YearStart(viewYear) + 11 < MaxYear
       ELSE IF back THEN viewYear > MinYear ELSE viewYear < MaxYear
  /\ LET delta == (IF back THEN -1 ELSE 1) * (IF type = "year" THEN 12 ELSE 1)
     IN  viewYear' = Clamped(viewYear + delta)
  /\ viewYear' \in Years
  /\ UNCHANGED <<type, value, open, clock, now, viewMonth, nights>>

\* commit(val): a cell, or the quick button, which takes the day of the last opening.
Commit(v) ==
  /\ open /\ open' = FALSE /\ value' = v
  /\ UNCHANGED <<type, clock, now, viewYear, viewMonth, nights>>

Pick == \E v \in Offered : v \in {Cut(type, d) : d \in Days} /\ Commit(v)
SelectQuickToday == Commit(Cut(type, clock))

Midnight ==
  /\ nights < MaxNights /\ nights' = nights + 1
  /\ now' = IF now.d < DaysInMonth(now.y, now.m) THEN [now EXCEPT !.d = @ + 1]
            ELSE LET next == Following(now.y, now.m) IN [y |-> next.y, m |-> next.m, d |-> 1]
  /\ InRange(now'.y)
  /\ UNCHANGED <<type, value, open, clock, viewYear, viewMonth>>

Next == \/ Open \/ Dismiss \/ Pick \/ SelectQuickToday \/ Midnight
        \/ \E delta \in {-1, 1} : StepMonth(delta)
        \/ \E back \in BOOLEAN : StepYear(back)

Spec == Init /\ [][Next]_vars

-----------------------------------------------------------------------------
Cuts == {Cut(type, d) : d \in Days}

TypeOK ==
  /\ type \in {"date", "month", "year"} /\ open \in BOOLEAN /\ nights \in 0..MaxNights
  /\ InRange(viewYear) /\ viewMonth \in 1..12
  /\ value.y \in MinYear..MaxYear /\ clock.y \in MinYear..MaxYear

\* A reference for the weekday of a day, Sunday being 0 (Sakamoto).
Weekday(day) ==
  LET y == IF day.m < 3 THEN day.y - 1 ELSE day.y
  IN  (y + y \div 4 - y \div 100 + y \div 400
         + <<0, 3, 2, 5, 0, 3, 5, 1, 4, 6, 2, 4>>[day.m] + day.d) % 7

\* Two days that follow one another.
Consecutive(a, b) ==
  \/ b = [a EXCEPT !.d = @ + 1]
  \/ /\ b.d = 1 /\ a.d = DaysInMonth(a.y, a.m)
     /\ 12 * b.y + b.m = 12 * a.y + a.m + 1

\* Whatever month the view was stepped to, at the ends of the range, across years and
\* leap days, the grid is six weeks of consecutive days under their weekdays, from a
\* Monday on, and holds the whole month.
GridIsTheCalendar ==
  open /\ type = "date" =>
    LET cells == CalendarDays(viewYear, viewMonth)
    IN  /\ Weekday(cells[1].iso) = 1
        /\ \A i \in 1..41 : Consecutive(cells[i].iso, cells[i + 1].iso)
        /\ {cells[i].iso.d : i \in {j \in 1..42 : ~cells[j].outside}} = 1..DaysInMonth(viewYear, viewMonth)
        /\ \A i \in 1..42 : cells[i].outside <=> cells[i].iso.m # viewMonth

\* validSelection of the traffic views
Valid(v) == /\ v.y \in MinYear..MaxYear
            /\ v.m \in IF type = "year" THEN {0} ELSE 1..12
            /\ v.d \in IF type = "date" THEN 1..31 ELSE {0}

\* The picker offers nothing the traffic views would reject, at the ends of the
\* range included, where the grids reach beyond it.
OfferedIsValid == open => \A v \in Offered \cup {value} : Valid(v)

=============================================================================
