---------------------------- MODULE HistoryView ----------------------------
(* The traffic history tab, TrafficHistory.vue: daily rows of a month or      *)
(* monthly rows of a year, loaded on selection, on request and every minute.  *)
(* A load keeps whether it "counts": its id is still that of the latest.      *)
EXTENDS Naturals, FiniteSets

CONSTANTS Periods,  \* bound: values of the month picker and of the year picker
          MaxLoads  \* bound: loads in flight at once

PeriodsAssumption == Periods \subseteq Nat \ {0} /\ 1 \in Periods

VARIABLES
  mode, picked,   \* granularity; per granularity, the period picked
  shown,          \* the selection whose rows are shown, or Nothing
  loads,          \* the load()s in flight: [of, answer, counts]
  loading, error, initialized,
  today,          \* the period the server's zone is in
  straddled       \* history: the first answer came in another period than it was made in

vars == <<mode, picked, shown, loads, loading, error, initialized, today, straddled>>

Modes   == {"day", "month"}
Nothing == [mode |-> "none", period |-> 0]
Current == [mode |-> "day", period |-> 0]   \* no range sent: the server takes the current one
Selection == [mode |-> mode, period |-> picked[mode]]

NewLoad(of) == [of |-> of, answer |-> Nothing, counts |-> TRUE]

\* ++request: no load in flight counts any more.
Superseded == {[l EXCEPT !.counts = FALSE] : l \in loads}

\* load(background), for what is selected once the caller is done.
Load(background, of) ==
  /\ Cardinality(loads) < MaxLoads
  /\ loads' = Superseded \cup {NewLoad(IF initialized THEN of ELSE Current)}
  /\ loading' = (loading \/ ~background)
  /\ error' = (error /\ background)

Init ==
  /\ mode = "day" /\ picked = [m \in Modes |-> 1]
  /\ shown = Nothing /\ loads = {NewLoad(Current)}   \* onMounted: load()
  /\ loading = TRUE /\ error = FALSE /\ initialized = FALSE
  /\ today = 1 /\ straddled = FALSE

\* Midnight on the last of the month, in the zone of the server.
PeriodEnds ==
  /\ today + 1 \in Periods /\ today' = today + 1
  /\ UNCHANGED <<mode, picked, shown, loads, loading, error, initialized, straddled>>

Poll ==
  /\ Load(TRUE, Selection)
  /\ UNCHANGED <<mode, picked, shown, initialized, today, straddled>>

\* The refresh button, disabled while a load shows.
Refresh ==
  /\ ~loading /\ Load(FALSE, Selection)
  /\ UNCHANGED <<mode, picked, shown, initialized, today, straddled>>

\* select(value)
Select(m) ==
  /\ initialized /\ m # mode /\ mode' = m
  /\ Load(FALSE, [mode |-> m, period |-> picked[m]])
  /\ UNCHANGED <<picked, shown, initialized, today, straddled>>

\* changeMonth(), when the picker emitted another period.
ChangeMonth(p) ==
  /\ initialized /\ p # picked[mode] /\ picked' = [picked EXCEPT ![mode] = p]
  /\ Load(FALSE, [mode |-> mode, period |-> p])
  /\ UNCHANGED <<mode, shown, initialized, today, straddled>>

\* The server answers for the range it was sent.
Answer(l) ==
  /\ l.answer = Nothing
  /\ loads' = (loads \ {l}) \cup
       {[l EXCEPT !.answer = IF l.of = Current THEN [Current EXCEPT !.period = today] ELSE l.of]}
  /\ UNCHANGED <<mode, picked, shown, loading, error, initialized, today, straddled>>

\* The first answer also sets both pickers, to the period of its zone by now.
Arrive(l) ==
  /\ l.answer # Nothing /\ l.counts
  /\ loads' = loads \ {l} /\ shown' = l.answer
  /\ initialized' = TRUE /\ error' = FALSE /\ loading' = FALSE
  /\ IF initialized THEN straddled' = FALSE /\ UNCHANGED picked
     ELSE /\ picked' = [m \in Modes |-> today]
          /\ straddled' = (l.answer.period # today)
  /\ UNCHANGED <<mode, today>>

Fail(l) ==
  /\ l.counts /\ loads' = loads \ {l}
  /\ error' = TRUE /\ loading' = FALSE
  /\ UNCHANGED <<mode, picked, shown, initialized, today, straddled>>

\* id # request: the end of a superseded load touches nothing.
Ignore(l) ==
  /\ ~l.counts /\ loads' = loads \ {l}
  /\ UNCHANGED <<mode, picked, shown, loading, error, initialized, today, straddled>>

Next == \/ PeriodEnds \/ Poll \/ Refresh
        \/ \E l \in loads : Answer(l) \/ Arrive(l) \/ Fail(l) \/ Ignore(l)
        \/ \E m \in Modes : Select(m)
        \/ \E p \in Periods : ChangeMonth(p)

Spec == Init /\ [][Next]_vars

-----------------------------------------------------------------------------
Selections == [mode : Modes, period : Periods] \cup {Nothing}

TypeOK ==
  /\ mode \in Modes /\ picked \in [Modes -> Periods] /\ shown \in Selections
  /\ loads \subseteq [of : Selections \cup {Current}, answer : Selections, counts : BOOLEAN]
  /\ Cardinality({l \in loads : l.counts}) <= 1
  /\ {loading, error, initialized, straddled} \subseteq BOOLEAN /\ today \in Periods

\* Rows are never passed off as those of another period: if the pickers say
\* something else than what is shown, a load or an error shows too, in whatever
\* order selections, minute polls, refreshes and their answers overlap.  The one
\* exception lasts from a first answer that midnight overtook to the next answer.
ShownIsSelected == shown # Nothing /\ shown # Selection => loading \/ error \/ straddled

=============================================================================
