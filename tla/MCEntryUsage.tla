---------------------------- MODULE MCEntryUsage ----------------------------
(* The entry host's usage for TLC.  A behaviour is one of its "scene" from    *)
(* the start on, the rest stays as it begins: the period's usage, with few    *)
(* accidents on any interface or with more on one (EntryUsage), vnStat's      *)
(* nested buckets and the index that sums them (BucketIndex), or the schedule *)
(* that gives the period (ResetSchedule).                                     *)
EXTENDS EntryUsage

CONSTANTS
  FewEvents,   \* bound: events where the interface changes
  LastTick, Creations, BucketZones, Keeps, Outages,                     \* BucketIndex
  FirstYear, LastMonth, Zones, ResetDays, ResetHours, Away          \* ResetSchedule

VARIABLES
  scene,
  created, iUpdated, bucketZone, keep, iRecorded, rows, down,
  zone, day, hour, rNow, period

iVars == <<created, iUpdated, bucketZone, keep, iRecorded, rows, down>>
rVars == <<zone, day, hour, rNow, period>>

I == INSTANCE BucketIndex WITH
       Zones <- BucketZones, updated <- iUpdated, zone <- bucketZone, recorded <- iRecorded
R == INSTANCE ResetSchedule WITH now <- rNow

ASSUME MCAssumption == I!IndexAssumption /\ R!ScheduleAssumption

-----------------------------------------------------------------------------
\* No reset, and one at the second bucket.
MCSchedules == {{}, {8}}
MCMonthly == {8}

\* Buckets that are all kept, and retentions the shorter the narrower the bucket.
MCKeeps == {<<20, 20, 20>>, <<20, 10, 5>>}

\* Half hour "clock" of a day of a month, counted from January 2027 to the end of 2028.
At(month, d, clock) ==
  LET before == <<0, 31, 59, 90, 120, 151, 181, 212, 243, 273, 304, 334>>[(month % 12) + 1]
  IN (365 * (month \div 12) + before + (IF month > 13 THEN 1 ELSE 0) + d - 1) * 48 + clock
Change(month, d, clock, offset) == [at |-> At(month, d, clock), offset |-> offset]

\* UTC; Berlin; New York; Santiago and Beirut, whose clocks go at midnight; Adelaide, half
\* an hour off and south of the equator: 2027 and 2028, a leap year.
MCZones ==
  {[offset |-> 0,   changes |-> {}],
   [offset |-> 2,   changes |-> {Change(2, 28, 2, 4), Change(9, 31, 2, 2),
                                 Change(14, 26, 2, 4), Change(21, 29, 2, 2)}],
   [offset |-> -10, changes |-> {Change(2, 14, 14, -8), Change(10, 7, 12, -10),
                                 Change(14, 12, 14, -8), Change(22, 5, 12, -10)}],
   [offset |-> -6,  changes |-> {Change(3, 4, 6, -8), Change(8, 5, 8, -6),
                                 Change(15, 2, 6, -8), Change(20, 3, 8, -6)}],
   [offset |-> 4,   changes |-> {Change(2, 27, 44, 6), Change(9, 30, 42, 4),
                                 Change(14, 25, 44, 6), Change(21, 28, 42, 4)}],
   [offset |-> 21,  changes |-> {Change(3, 3, 33, 19), Change(9, 2, 33, 21),
                                 Change(15, 1, 33, 19), Change(20, 30, 33, 21)}]}

\* One beginning of the index and of the schedule is enough where they do not run.
MCInit ==
  /\ scene \in {"entry", "losses", "index", "schedule"} /\ Init /\ I!Init /\ R!Init
  /\ scene = "index" \/ (created = 1 /\ bucketZone = 0 /\ keep = <<20, 20, 20>>)
  /\ scene = "schedule" \/ (zone.offset = 0 /\ day = 1 /\ hour = 0)

\* It takes three accidents before the panel loses what it held of a renewed period: another
\* schedule, a sample that is not saved, and a bucket that vnStat prunes before the next one.
\* Core samples and manual resets have no part in it.
EntryNext ==
  /\ Next
  /\ IF scene = "entry" THEN events' <= FewEvents
     ELSE iface' = iface /\ proxyMarks' = <<>> /\ ~resetting'

MCNext ==
  /\ UNCHANGED scene
  /\ IF scene \in {"entry", "losses"} THEN EntryNext ELSE UNCHANGED vars
  /\ IF scene = "index"    THEN I!Next ELSE UNCHANGED iVars
  /\ IF scene = "schedule" THEN R!Next ELSE UNCHANGED rVars

MCSpec == MCInit /\ [][MCNext]_<<scene, vars, iVars, rVars>>

-----------------------------------------------------------------------------
\* The index counts every byte of a request that a bucket of any width lying within it
\* holds, once, and flags the rest (vnstat.go); the present moment is in the period, which
\* begins and ends at the resets asked for, and one period ends where the next begins, over
\* short months, changes of the clocks and times the panel was away (tracker.go, periodStart).
PeriodsAreExact ==
  /\ [](scene = "index"    => I!TypeOK /\ I!SumIsExact /\ I!CoverageAgrees)
  /\ [](scene = "schedule" => R!TypeOK /\ R!PeriodContainsNow /\ R!ResetsAsAsked)
  /\ [][scene = "schedule" => R!Tiles]_<<scene, rVars>>

=============================================================================
