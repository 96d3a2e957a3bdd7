---------------------------- MODULE BucketIndex ----------------------------
(* internal/nettraffic/vnstat.go: vnStat's day, hour and five-minute buckets   *)
(* and the index that sums them over the part of time a period or a day of     *)
(* the history asks for, each byte from the widest bucket that holds no other.  *)
(* Widths and times are scaled, a bucket holding two of the next width and the  *)
(* narrowest two ticks.  Bytes are told apart by the tick they came in: a sum    *)
(* says which it counts, and which it counts more than once.                    *)
EXTENDS Integers, FiniteSetsExt

CONSTANTS
  LastTick,  \* bound: the last tick
  Creations, \* when the database may have been created
  Zones,     \* the zones vnStat's days and hours may be those of, in ticks
  Keeps,     \* retentions, each the age at which the buckets of every level go
  Outages    \* how long vnStat may be down, once

widths == <<8, 4, 2>>     \* day, hour, five minutes
Levels == 1..3
Ticks == 0..LastTick

IndexAssumption ==
  /\ LastTick \in Nat /\ Creations \subseteq Ticks \ {0} /\ Zones \subseteq Nat
  /\ Outages \subseteq Nat \ {0} /\ \A keep \in Keeps : keep \in [Levels -> Nat]

VARIABLES created, updated,   \* the database's
          zone, keep,         \* vnStat's settings
          recorded,           \* the ticks whose bytes vnStat has recorded
          rows,               \* the starts of the buckets it has, per level
          down                \* it was down

vars == <<created, updated, zone, keep, recorded, rows, down>>

\* The bucket of a width that tick t falls in, by the calendar of vnStat's zone.
Slot(t, width) == ((t - zone) \div width) * width + zone

Init ==
  /\ created \in Creations /\ updated = created
  /\ zone \in Zones /\ keep \in Keeps
  /\ recorded = {} /\ rows = [level \in Levels |-> {}] /\ down = FALSE

\* vnStat saves a tick in the buckets it belongs to, and drops those past their retention.
Tick ==
  /\ updated < LastTick
  /\ updated' = updated + 1
  /\ recorded' = recorded \cup {updated}
  /\ rows' = [level \in Levels |->
                {b \in rows[level] \cup {Slot(updated, widths[level])} : updated - b < keep[level]}]
  /\ UNCHANGED <<created, zone, keep, down>>

\* vnStat is down, and what passes meanwhile is in no bucket.
Outage ==
  /\ ~down /\ down' = TRUE
  /\ \E long \in Outages : updated + long <= LastTick /\ updated' = updated + long
  /\ UNCHANGED <<created, zone, keep, recorded, rows>>

Next == Tick \/ Outage

Spec == Init /\ [][Next]_vars
-----------------------------------------------------------------------------
(* Parse, NewIndex *)

\* Buckets that do not begin at a multiple of their width are left out: the days, and the
\* hours, of a zone that is not a whole number of them from UTC.
lookup == [level \in Levels |-> {b \in rows[level] : b % widths[level] = 0}]

Opens(b) == Max({b, created})
Closes(level, b) == Min({b + widths[level], updated})

Bytes(level, b) == {t \in recorded : b <= t /\ t < b + widths[level]}

HasCoverage(start, end) ==
  \E level \in Levels : \E b \in lookup[level] :
    /\ Opens(b) < Closes(level, b)
    /\ start <= Opens(b) /\ Opens(b) < end /\ Closes(level, b) <= end

None == [counted |-> {}, twice |-> {}, partial |-> FALSE]
Unresolved == [None EXCEPT !.partial = TRUE]
Plus(x, y) == [counted |-> x.counted \cup y.counted,
               twice |-> x.twice \cup y.twice \cup (x.counted \cap y.counted),
               partial |-> x.partial \/ y.partial]

\* Defect: a bucket is taken when the request begins before it ends.
Whole_Begins(level, at, left, right) == at \in lookup[level] /\ right = Closes(level, at)

\* A bucket is taken when the request has all of it that the database has.
Whole(level, at, left, right) ==
  at \in lookup[level] /\ left = Opens(at) /\ right = Closes(level, at)

\* The closure sum of Index.Sum, over [a, z) from one level on: what no bucket of the level
\* has as a whole is left to the next.
Pieces(a, z, level, Narrower(_, _)) ==
  LET width == widths[level]
      touched == {at \in ((a \div width) * width)..(z - 1) : at % width = 0}
      Piece(at) ==
        LET left == Max({at, a, created})
            right == Min({at + width, z, updated})
        IN CASE right <= left -> None
             [] right > left /\ Whole(level, at, left, right) -> [None EXCEPT !.counted = Bytes(level, at)]
             [] OTHER -> Narrower(left, right)
  IN MapThenFoldSet(Plus, None, Piece, LAMBDA S : Max(S), touched)

fives(a, z) == Pieces(a, z, 3, LAMBDA left, right : Unresolved)
hours(a, z) == Pieces(a, z, 2, fives)
days(a, z)  == Pieces(a, z, 1, hours)

Sum(start, end) ==
  LET from == Max({start, created})
      to == Min({end, updated})
      early == start < created
  IN CASE end <= start -> None
       [] end > start /\ to <= from -> [None EXCEPT !.partial = early \/ updated < start]
       [] OTHER -> LET s == days(from, to) IN [s EXCEPT !.partial = @ \/ early]
-----------------------------------------------------------------------------
\* Types of the variables.
TypeOK ==
  /\ created \in Creations /\ updated \in created..LastTick /\ zone \in Zones /\ keep \in Keeps
  /\ recorded \subseteq created..(updated - 1) /\ down \in BOOLEAN
  /\ \A level \in Levels : \A b \in rows[level] : (b - zone) % widths[level] = 0

\* The ticks of [from, to) that some bucket of any width holds which lies within.
Resolvable(from, to) ==
  {t \in from..(to - 1) : \E level \in Levels : \E b \in lookup[level] :
     /\ Opens(b) <= t /\ t < Closes(level, b) /\ from <= Opens(b) /\ Closes(level, b) <= to}

\* For every request, those that begin a tick before the database or end one after it
\* among them: a sum counts each byte of it that any bucket lying within it holds,
\* once, and none from outside; and it is flagged partial exactly when the request begins
\* before the database or a part of it is in no such bucket.
SumIsExact ==
  \A start \in (created - 1)..updated : \A end \in (start + 1)..(updated + 1) :
    LET from == Max({start, created})
        to == Min({end, updated})
        found == Resolvable(from, to)
        s == Sum(start, end)
    IN from < to =>
         /\ s.counted = found \cap recorded /\ s.twice = {}
         /\ s.partial <=> (start < created \/ found # from..(to - 1))

\* A day of the history that is said to have no data hides no bytes, and one that is said
\* to have some is not empty for want of a bucket.
CoverageAgrees ==
  \A start \in (created - 1)..updated : \A end \in (start + 1)..(updated + 1) :
    LET from == Max({start, created})
        to == Min({end, updated})
    IN HasCoverage(start, end) <=> from < to /\ Resolvable(from, to) # {}
=============================================================================
