--------------------------- MODULE ResetSchedule ---------------------------
(* internal/traffic: the monthly resets of a billing period (tracker.go) and   *)
(* the period that contains the present moment (periodStart, network.go), over *)
(* short months, leap years and daylight saving.  Instants are half hours of    *)
(* UTC since the first of January of FirstYear, wall clocks half hours since    *)
(* the same of the calendar, and months are numbered on from that one.          *)
EXTENDS Integers, FiniteSetsExt

CONSTANTS
  FirstYear,
  LastMonth,   \* bound: months considered
  Zones,       \* each the offset it begins with, and that from each of its changes on
  ResetDays, ResetHours,  \* ResetConfig.Day and Hour
  Away         \* how long the panel may be off or asleep

Day == 48     \* half hours

VARIABLES zone, day, hour,   \* the schedule
          now,               \* the clock
          period             \* what periodStart last returned: start and next

vars == <<zone, day, hour, now, period>>
-----------------------------------------------------------------------------
(* The calendar, and package time *)

Leap(year) == year % 4 = 0 /\ (year % 100 # 0 \/ year % 400 = 0)
Before == <<0, 31, 59, 90, 120, 151, 181, 212, 243, 273, 304, 334>>

\* The days before a month, and in one.
DaysBefore[month \in Nat] ==
  LET year == FirstYear + month \div 12
      leaps == Cardinality({y \in FirstYear..(year - 1) : Leap(y)})
  IN 365 * (month \div 12) + leaps + Before[(month % 12) + 1]
       + IF month % 12 >= 2 /\ Leap(year) THEN 1 ELSE 0

Length(month) == DaysBefore[month + 1] - DaysBefore[month]

\* The month, the day and the time of day of a wall clock.
Civil[wall \in Nat] ==
  LET days == wall \div Day
      month == CHOOSE m \in (days \div 31)..(days \div 28) :
                 DaysBefore[m] <= days /\ days < DaysBefore[m + 1]
  IN [month |-> month, day |-> days - DaysBefore[month] + 1, clock |-> wall % Day]

Changes(z) == {c.at : c \in z.changes}

\* A zone's offset in force at an instant, and its wall clock.
Offsets(z) ==
  [utc \in Int |-> LET past == {at \in Changes(z) : at <= utc}
                  IN IF past = {} THEN z.offset
                     ELSE (CHOOSE c \in z.changes : c.at = Max(past)).offset]

In(z, utc) == Civil[utc + Offsets(z)[utc]]

\* What time.Date makes of a wall clock: it is looked up as if it were UTC, and again as
\* UTC when the offset found is not in force there.
FromWall(z) ==
  [wall \in Int |-> LET utc == wall - Offsets(z)[wall]
                       found == \A at \in Changes(z) : at <= wall <=> at <= utc
                   IN IF found THEN utc ELSE wall - Offsets(z)[utc]]

\* Of a day that may be past the ends of its month.
Date(z, month, d, clock) == FromWall(z)[(DaysBefore[month] + d - 1) * Day + clock]

\* A zone whose clocks go forward at midnight of a first of a month, west of Greenwich,
\* is left out: there time.Date gives the last of the month before.
ScheduleAssumption ==
  /\ ResetDays \subseteq 1..31 /\ ResetHours \subseteq 0..23 /\ LastMonth \in Nat /\ FirstYear \in Nat
  /\ \A z \in Zones : \A month \in 1..(LastMonth + 2) : In(z, Date(z, month, 1, 0)).month = month
-----------------------------------------------------------------------------
(* The resets *)

\* In a month of the zone's calendar; the day is clamped to the last of the month.
monthlyResetIn[month \in Nat] ==
  LET first == In(zone, Date(zone, month, 1, 0))
      lastDay == In(zone, Date(zone, first.month + 1, first.day - 1, first.clock)).day
  IN Date(zone, first.month, Min({day, lastDay}), hour * 2)

\* Defect: a reset that is due this very moment is still to come.
NextMonthlyReset_NotAfter(after) ==
  LET month == In(zone, after).month
  IN IF monthlyResetIn[month] >= after THEN monthlyResetIn[month] ELSE monthlyResetIn[month + 1]

\* The first reset after a moment.
NextMonthlyReset(after) ==
  LET month == In(zone, after).month
  IN IF monthlyResetIn[month] > after THEN monthlyResetIn[month] ELSE monthlyResetIn[month + 1]

\* The one before a reset that NextMonthlyReset returned.
PreviousMonthlyReset(next) == monthlyResetIn[In(zone, next).month - 1]

periodStart(at) ==
  LET next == NextMonthlyReset(at) IN [start |-> PreviousMonthlyReset(next), next |-> next]
-----------------------------------------------------------------------------
(* The clock, at the moments something happens around *)

\* Of the month a moment is in and the two next to it.
Around(at) == LET month == In(zone, at).month IN (month - 1)..(month + 1)
Resets(at) == {monthlyResetIn[month] : month \in Around(at)}
Moments(at) ==
  {next + d : next \in Resets(at) \cup Changes(zone), d \in {-1, 0, 1}}
    \cup {Date(zone, month, 1, 0) + d : month \in Around(at), d \in {-1, 0}}

Begin == DaysBefore[1] * Day + Day \div 2   \* noon of the first of the second month
End == DaysBefore[LastMonth] * Day

Init ==
  /\ zone \in Zones /\ day \in ResetDays /\ hour \in ResetHours
  /\ now = Begin /\ period = periodStart(Begin)

\* The next sample, or the first one after the panel was away.
Sample ==
  /\ \E long \in Away :
       LET later == {at \in Moments(now + long) : at > now + long /\ at <= End}
       IN later # {} /\ now' = Min(later)
  /\ period' = periodStart(now')
  /\ UNCHANGED <<zone, day, hour>>

Next == Sample

Spec == Init /\ [][Next]_vars
-----------------------------------------------------------------------------
\* Types of the variables.
TypeOK ==
  /\ zone \in Zones /\ day \in ResetDays /\ hour \in ResetHours
  /\ now \in Begin..End /\ period.start \in Int /\ period.next \in Int

\* The period contains the moment it was asked for: "the first reset strictly after", and
\* the last one not after; whatever the months' lengths and the changes of the clocks.
PeriodContainsNow ==
  /\ period.start <= now /\ now < period.next
  /\ ~\E at \in Resets(now) : period.start < at /\ at < period.next

\* A reset is at the hour asked for of the day asked for, or of the last day of a shorter
\* month; where the clocks go over that hour, it is an hour off at most.
ResetsAsAsked ==
  \A next \in {period.start, period.next} :
    LET month == In(zone, next).month
        asked == (DaysBefore[month] + Min({day, Length(month)}) - 1) * Day + hour * 2
        Shown(utc) == utc + Offsets(zone)[utc]
        skipped == \A utc \in (next - 4)..(next + 4) : Shown(utc) # asked
    IN Shown(next) = asked \/ (skipped /\ Shown(next) \in (asked - 2)..(asked + 2))

\* No moment is in two periods, and none in no period: the next is the same, or begins where
\* the one before ended, or, after a while away, later.
Tiles == \/ period' = period
         \/ period'.start = period.next
         \/ period'.start > period.next /\ now' > now + 27 * Day
PeriodsTile == [][Tiles]_vars
=============================================================================
