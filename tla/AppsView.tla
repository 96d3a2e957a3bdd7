----------------------------- MODULE AppsView -----------------------------
(* The applications tab, TrafficApps.vue: the usage of a day or of a month,   *)
(* loaded on selection, on request and every ten seconds, cleared on the      *)
(* server, and exported as the page shows it.                                 *)
(* What the server has recorded of a period is numbered by the clears before  *)
(* it ("gen"); the applications of it are those of a class each.              *)
EXTENDS Naturals, FiniteSets

CONSTANTS Periods,   \* bound: values of the day picker and of the month picker
          Tables,    \* sets of applications, [id, category], an answer may list
          MaxGen,    \* bound: clears
          MaxLoads   \* bound: loads in flight at once

AppsAssumption == /\ Periods \subseteq Nat \ {0} /\ 1 \in Periods
                  /\ MaxGen \in Nat /\ MaxLoads \in Nat \ {0}

VARIABLES
  gen,                 \* clears the server has done
  period, picked,      \* period; per kind of period, the one picked
  data,                \* what is shown: [of, gen, apps], or Nothing
  loads,               \* the load()s in flight: [of, answer, counts, clears]
  loading, error, initialized,
  clearing,            \* clearStats(): "no", "sent", "served" or "load"
  today, straddled,    \* as for the history tab: a first answer that midnight overtook
  acked                \* history: the clears the user was told of

vars == <<gen, period, picked, data, loads, loading, error, initialized, clearing,
          today, straddled, acked>>

Kinds   == {"day", "month"}
Nothing == [none |-> TRUE]
Current == [kind |-> "day", period |-> 0]   \* no date sent: the server takes the current one
Selection == [kind |-> period, period |-> picked[period]]

NewLoad(of, clears) == [of |-> of, answer |-> Nothing, counts |-> TRUE, clears |-> clears]

\* ++request: no load in flight counts any more.
Superseded == {[l EXCEPT !.counts = FALSE] : l \in loads}

\* load(background), for what is selected once the caller is done; clears: for clearStats().
Load(background, of, clears) ==
  /\ Cardinality(loads) < MaxLoads
  /\ loads' = Superseded \cup {NewLoad(IF initialized THEN of ELSE Current, clears)}
  /\ loading' = (loading \/ ~background)
  /\ error' = (error /\ background)

Init ==
  /\ gen = 0 /\ period = "day" /\ picked = [k \in Kinds |-> 1]
  /\ data = Nothing /\ loads = {NewLoad(Current, FALSE)}   \* onMounted: load()
  /\ loading = TRUE /\ error = FALSE /\ initialized = FALSE /\ clearing = "no"
  /\ today = 1 /\ straddled = FALSE /\ acked = 0

\* Midnight in the zone of the server.
PeriodEnds ==
  /\ today + 1 \in Periods /\ today' = today + 1
  /\ UNCHANGED <<gen, period, picked, data, loads, loading, error, initialized, clearing,
                 straddled, acked>>

\* A defect: the timer waits for "loading" to end.
Poll_Waits ==
  /\ ~loading /\ Load(TRUE, Selection, FALSE)
  /\ UNCHANGED <<gen, period, picked, data, initialized, clearing, today, straddled, acked>>

\* The ten-second timer.
Poll ==
  /\ Load(TRUE, Selection, FALSE)
  /\ UNCHANGED <<gen, period, picked, data, initialized, clearing, today, straddled, acked>>

\* The refresh button, disabled while a load shows.
Refresh ==
  /\ ~loading /\ Load(FALSE, Selection, FALSE)
  /\ UNCHANGED <<gen, period, picked, data, initialized, clearing, today, straddled, acked>>

SelectPeriod(k) ==
  /\ initialized /\ k # period /\ period' = k
  /\ Load(FALSE, [kind |-> k, period |-> picked[k]], FALSE)
  /\ UNCHANGED <<gen, picked, data, initialized, clearing, today, straddled, acked>>

\* changeDate(), when the picker emitted another value.
ChangeDate(p) ==
  /\ initialized /\ p # picked[period] /\ picked' = [picked EXCEPT ![period] = p]
  /\ Load(FALSE, [kind |-> period, period |-> p], FALSE)
  /\ UNCHANGED <<gen, period, data, initialized, clearing, today, straddled, acked>>

\* The server answers for the date it was sent, with what it recorded since the last clear.
Answer(l) ==
  /\ l.answer = Nothing
  /\ \E apps \in Tables : loads' = (loads \ {l}) \cup
       {[l EXCEPT !.answer = [gen |-> gen, apps |-> apps,
          of |-> IF l.of = Current THEN [Current EXCEPT !.period = today] ELSE l.of]]}
  /\ UNCHANGED <<gen, period, picked, data, loading, error, initialized, clearing,
                 today, straddled, acked>>

\* The end of the load() that clearStats() awaits, superseded or not, ends the clearing.
Ends(l) == /\ loads' = loads \ {l}
           /\ clearing' = IF l.clears THEN "no" ELSE clearing

\* A defect: the answer to a superseded load is shown.
Arrive_Any(l) ==
  /\ l.answer # Nothing
  /\ Ends(l) /\ data' = l.answer
  /\ initialized' = TRUE /\ error' = FALSE /\ loading' = FALSE
  /\ IF initialized THEN straddled' = FALSE /\ UNCHANGED picked
     ELSE /\ picked' = [k \in Kinds |-> today]
          /\ straddled' = (l.answer.of.period # today)
  /\ UNCHANGED <<gen, period, today, acked>>

\* The first answer also sets both pickers, to the date of its zone by now.
Arrive(l) ==
  /\ l.answer # Nothing /\ l.counts
  /\ Ends(l) /\ data' = l.answer
  /\ initialized' = TRUE /\ error' = FALSE /\ loading' = FALSE
  /\ IF initialized THEN straddled' = FALSE /\ UNCHANGED picked
     ELSE /\ picked' = [k \in Kinds |-> today]
          /\ straddled' = (l.answer.of.period # today)
  /\ UNCHANGED <<gen, period, today, acked>>

Fail(l) ==
  /\ l.counts /\ Ends(l)
  /\ error' = TRUE /\ loading' = FALSE
  /\ UNCHANGED <<gen, period, picked, data, initialized, today, straddled, acked>>

\* id # request: the end of a superseded load touches nothing it shows.
Ignore(l) ==
  /\ ~l.counts /\ Ends(l)
  /\ UNCHANGED <<gen, period, picked, data, loading, error, initialized, today, straddled, acked>>

-----------------------------------------------------------------------------
(* clearStats() *)

\* Its button is there when applications are listed.  No load counts from here on.
Clear ==
  /\ clearing = "no" /\ data # Nothing /\ data.apps # {}
  /\ clearing' = "sent" /\ loads' = Superseded
  /\ UNCHANGED <<gen, period, picked, data, loading, error, initialized, today, straddled, acked>>

ClearServed ==
  /\ clearing = "sent" /\ gen < MaxGen
  /\ clearing' = "served" /\ gen' = gen + 1
  /\ UNCHANGED <<period, picked, data, loads, loading, error, initialized, today, straddled, acked>>

\* The user is told, and what is left is loaded.
Cleared ==
  /\ clearing = "served" /\ clearing' = "load" /\ acked' = gen
  /\ Load(FALSE, Selection, TRUE)
  /\ UNCHANGED <<gen, period, picked, data, initialized, today, straddled>>

\* Refused, or its answer lost: the user is told that.
ClearFails ==
  /\ clearing \in {"sent", "served"} /\ clearing' = "no"
  /\ UNCHANGED <<gen, period, picked, data, loads, loading, error, initialized, today, straddled, acked>>

-----------------------------------------------------------------------------
(* exportJSON(): the applications shown, in three groups. *)

UnmatchedSites(apps)    == {a \in apps : a.category = "site"}
EcosystemServices(apps) == {a \in apps : a.category \in {"ecosystem", "cdn"}}
MatchedApps(apps)       == {a \in apps : a.category \notin {"site", "ecosystem", "cdn"}}

Groups(apps) == <<UnmatchedSites(apps), EcosystemServices(apps), MatchedApps(apps)>>

-----------------------------------------------------------------------------
Next == \/ PeriodEnds \/ Poll \/ Refresh
        \/ \E l \in loads : Answer(l) \/ Arrive(l) \/ Fail(l) \/ Ignore(l)
        \/ Clear \/ ClearServed \/ Cleared \/ ClearFails
        \/ \E k \in Kinds : SelectPeriod(k)
        \/ \E p \in Periods : ChangeDate(p)

\* The load that counts is over, one way or the other.
LoadOver == \E l \in loads : Arrive(l) \/ Fail(l)
Dropped  == \E l \in loads : Ignore(l)

\* The timer keeps firing; a request that is made again and again is in the end
\* answered, or given up, before the next poll supersedes it; a superseded one ends.
Fairness == /\ WF_vars(Poll) /\ SF_vars(LoadOver) /\ WF_vars(Dropped)

Spec == Init /\ [][Next]_vars
FairSpec == Spec /\ Fairness

Answers == [of : [kind : Kinds, period : Periods], gen : 0..MaxGen, apps : Tables]

TypeOK ==
  /\ gen \in 0..MaxGen /\ acked \in 0..gen
  /\ period \in Kinds /\ picked \in [Kinds -> Periods] /\ today \in Periods
  /\ data \in Answers \cup {Nothing} /\ Cardinality(loads) <= MaxLoads
  /\ {loading, error, initialized, straddled} \subseteq BOOLEAN
  /\ clearing \in {"no", "sent", "served", "load"}
  /\ Cardinality({l \in loads : l.counts}) <= 1

\* Usage the user was told is cleared does not come back: only while the load after
\* the clear is awaited, or its failure shows, may the page still list older figures,
\* whatever polls and selections were in flight around the clear.
ClearedStaysCleared == data # Nothing /\ data.gen < acked => loading \/ error

\* The usage of one period is never passed off as that of another: if the pickers say
\* something else than what is shown, a load or an error shows too, in whatever order
\* selections, ten-second polls, refreshes, clears and their answers overlap.  The one
\* exception lasts from a first answer that midnight overtook to the next answer.
ShownIsSelected == data # Nothing /\ data.of # Selection => loading \/ error \/ straddled

\* "Loading" does not stay for ever, although a clear supersedes the load that
\* raised it and, when it fails, starts none.
LoadingEnds == loading ~> ~loading

\* An export lists each application that is shown exactly once.
ExportIsTheTable ==
  data # Nothing => \A a \in data.apps :
    \E i \in 1..3 : a \in Groups(data.apps)[i] /\ \A j \in (1..3) \ {i} : a \notin Groups(data.apps)[j]

=============================================================================
