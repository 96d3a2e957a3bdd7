--------------------------- MODULE SettingsPage ---------------------------
(* The settings page, SettingsView.vue, against the handlers that save its    *)
(* two sections.  The page holds one copy of all settings; each section has   *)
(* a button of its own, and nothing keeps two saves from overlapping.         *)
EXTENDS Naturals, FiniteSets

CONSTANTS MaxValue,  \* bound: values of a section
          MaxPuts    \* bound: saves in flight at once

VARIABLES
  saved,    \* the server's configuration, per section
  settings, \* the page's copy, or Nothing while it loads
  load,     \* load(): "sent", the copy it is answered with, or "over"
  puts,     \* the saves in flight: [section, body, served]
  asked     \* history: per section, the values somebody saved in that section

vars == <<saved, settings, load, puts, asked>>

Sections == {"traffic", "outbound"}
Values   == 0..MaxValue
Copies   == [Sections -> Values]
Nothing  == [none |-> TRUE]

Init ==
  /\ saved = [s \in Sections |-> 0] /\ settings = Nothing
  /\ load = [phase |-> "sent", copy |-> Nothing] /\ puts = {}
  /\ asked = [s \in Sections |-> {0}]

\* getSettings, and load() that awaits it once, when the page is mounted.
LoadServed ==
  /\ load.phase = "sent" /\ load' = [phase |-> "answered", copy |-> saved]
  /\ UNCHANGED <<saved, settings, puts, asked>>

Loaded ==
  /\ load.phase = "answered" /\ settings' = load.copy
  /\ load' = [phase |-> "over", copy |-> Nothing]
  /\ UNCHANGED <<saved, puts, asked>>

\* The user changes a field of a section.
Edit(s, v) ==
  /\ settings # Nothing /\ settings' = [settings EXCEPT ![s] = v]
  /\ UNCHANGED <<saved, load, puts, asked>>

-----------------------------------------------------------------------------
\* A defect: a button sends the whole copy.
Body_All(s) == settings

\* What a section's button sends: its own part of the page's copy.
Body(s) == [x \in {s} |-> settings[x]]

\* saveTraffic and saveOutbound
Save(s) ==
  /\ settings # Nothing /\ Cardinality(puts) < MaxPuts
  /\ puts' = puts \cup {[section |-> s, body |-> Body(s), served |-> FALSE]}
  /\ asked' = [asked EXCEPT ![s] = @ \cup {settings[s]}]
  /\ UNCHANGED <<saved, settings, load>>

\* updateTrafficSettings and updateOutboundSettings: what the body names is
\* replaced in the configuration as it is now, or nothing is.
PutServed(p) ==
  /\ ~p.served
  /\ puts' = (puts \ {p}) \cup {[p EXCEPT !.served = TRUE]}
  /\ \/ saved' = [s \in Sections |-> IF s \in DOMAIN p.body THEN p.body[s] ELSE saved[s]]
     \/ saved' = saved
  /\ UNCHANGED <<settings, load, asked>>

\* The answer, or its loss: the page keeps its copy either way.
PutEnds(p) ==
  /\ puts' = puts \ {p}
  /\ UNCHANGED <<saved, settings, load, asked>>

\* Another tab or the command line saves a section.
SavedElsewhere(s, v) ==
  /\ v # saved[s] /\ saved' = [saved EXCEPT ![s] = v]
  /\ asked' = [asked EXCEPT ![s] = @ \cup {v}]
  /\ UNCHANGED <<settings, load, puts>>

Next ==
  \/ LoadServed \/ Loaded
  \/ \E s \in Sections : Save(s) \/ \E v \in Values : Edit(s, v) \/ SavedElsewhere(s, v)
  \/ \E p \in puts : PutServed(p) \/ PutEnds(p)

Spec == Init /\ [][Next]_vars

-----------------------------------------------------------------------------
TypeOK ==
  /\ saved \in Copies /\ settings \in Copies \cup {Nothing}
  /\ load.phase \in {"sent", "answered", "over"} /\ Cardinality(puts) <= MaxPuts
  /\ asked \in [Sections -> SUBSET Values]

\* "Each section saves independently": no save, however saves of this page and of
\* others overlap, puts into a section a value nobody saved in that section, such as
\* an edit whose own button was not pressed.
SectionsSaveAlone == \A s \in Sections : saved[s] \in asked[s]

=============================================================================
