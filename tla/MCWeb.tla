------------------------------- MODULE MCWeb -------------------------------
(* The web interface for TLC.  App.vue mounts one page at a time, a page      *)
(* begins anew whenever it is mounted, and what an unmounted page still        *)
(* waits for reaches nothing: the parts of the interface run one at a time     *)
(* and share no state but the session.  A behaviour of this module is one of   *)
(* one of them, its "scene", from its mount on; the others stay as they begin.  *)
(* The session is in MCLogin, the update dialog in MCPanelUpdate.             *)
EXTENDS Integers, FiniteSets

CONSTANTS
  Formats, AutoFormat, MaxVer, MaxUrl,           \* DashboardView
  Keys, MaxListVer, MaxField,                    \* EgressView
  Interval, Timeout, StaleAge,                   \* TrafficPage
  Periods, MaxLoads,                             \* HistoryView, AppsView, DashboardView
  Tables, MaxGen,                                \* AppsView
  MinYear, MaxYear, Years, Days, MaxNights,      \* DatePicker
  MaxValue, MaxPuts,                             \* SettingsPage
  Widths, MaxWidth, Largest, Smallest, Step, MaxLength  \* QrCard

VARIABLES
  scene,  \* the page, or part of one, this behaviour is about
  dServer, dShown, format, qr, dLoads, select, post, refreshing, dDialog, dAcked,
  eServer, items, eLoads, task, late, form, publicKey, keys, eDialog, eFailure, eAcked, kept, stands,
  untilPoll, waited, age, seen, tFailure,
  mode, hPicked, hShown, hLoads, hLoading, hError, hInitialized, hToday, hStraddled,
  gen, period, aPicked, data, aLoads, aLoading, aError, aInitialized, clearing, aToday,
  aStraddled, aAcked,
  type, value, open, clock, now, viewYear, viewMonth, nights,
  saved, settings, load, puts, asked,
  name

dVars == <<dServer, dShown, format, qr, dLoads, select, post, refreshing, dDialog, dAcked>>
eVars == <<eServer, items, eLoads, task, late, form, publicKey, keys, eDialog, eFailure, eAcked, kept, stands>>
tVars == <<untilPoll, waited, age, seen, tFailure>>
hVars == <<mode, hPicked, hShown, hLoads, hLoading, hError, hInitialized, hToday, hStraddled>>
aVars == <<gen, period, aPicked, data, aLoads, aLoading, aError, aInitialized, clearing, aToday,
           aStraddled, aAcked>>
pVars == <<type, value, open, clock, now, viewYear, viewMonth, nights>>
gVars == <<saved, settings, load, puts, asked>>
qVars == <<name>>
vars == <<scene, dVars, eVars, tVars, hVars, aVars, pVars, gVars, qVars>>

D == INSTANCE DashboardView WITH
       server <- dServer, shown <- dShown, loads <- dLoads, dialog <- dDialog, acked <- dAcked
E == INSTANCE EgressView WITH
       server <- eServer, loads <- eLoads, dialog <- eDialog, failure <- eFailure,
       acked <- eAcked, MaxVer <- MaxListVer
T == INSTANCE TrafficPage WITH
       failure <- tFailure
H == INSTANCE HistoryView WITH
       picked <- hPicked, shown <- hShown, loads <- hLoads, loading <- hLoading,
       error <- hError, initialized <- hInitialized, today <- hToday, straddled <- hStraddled
A == INSTANCE AppsView WITH
       picked <- aPicked, loads <- aLoads, loading <- aLoading, error <- aError,
       initialized <- aInitialized, today <- aToday, straddled <- aStraddled, acked <- aAcked
P == INSTANCE DatePicker
G == INSTANCE SettingsPage
Q == INSTANCE QrCard

ASSUME WebAssumption ==
  /\ AutoFormat \in Formats /\ MaxVer \in Nat /\ MaxUrl \in Nat \ {0}
  /\ MaxListVer \in Nat /\ MaxField \in Nat \ {0}
  /\ T!PollAssumption /\ H!PeriodsAssumption /\ A!AppsAssumption
  /\ P!CalendarAssumption
  /\ MaxValue \in Nat /\ MaxPuts \in Nat

\* One table, with an application of every class an export tells apart.
MCTables == {{[id |-> 1, category |-> "site"], [id |-> 2, category |-> "ecosystem"],
              [id |-> 3, category |-> "cdn"], [id |-> 4, category |-> "video"]}}

Day(y, m, d) == [y |-> y, m |-> m, d |-> d]

\* The ends of the range, the end of a year, leap days and the day before one that is not.
MCDays == {Day(1970, 1, 1), Day(1999, 12, 31), Day(2024, 2, 29), Day(2100, 2, 28), Day(9999, 12, 31)}

\* What the views of those days are stepped to, by months, years and twelves.
MCYears == (1970..1972) \cup (1980..1982) \cup (1998..2001)
           \cup {2011, 2012, 2023, 2024, 2025, 2036, 2099, 2100, 2101, 9987, 9998, 9999}

Scenes == {"dashboard", "egress", "traffic", "history", "apps", "picker", "settings", "card"}

\* One beginning of the picker is enough where it does not run.
MCInit ==
  /\ scene \in Scenes
  /\ D!Init /\ E!Init /\ T!Init /\ H!Init /\ A!Init /\ P!Init /\ G!Init /\ Q!Init
  /\ scene = "picker" \/ (type = "year" /\ now = Day(1970, 1, 1) /\ value.y = 1970)

MCNext ==
  /\ UNCHANGED scene
  /\ IF scene = "dashboard" THEN D!Next ELSE UNCHANGED dVars
  /\ IF scene = "egress"    THEN E!Next ELSE UNCHANGED eVars
  /\ IF scene = "traffic"   THEN T!Next ELSE UNCHANGED tVars
  /\ IF scene = "history"   THEN H!Next ELSE UNCHANGED hVars
  /\ IF scene = "apps"      THEN A!Next ELSE UNCHANGED aVars
  /\ IF scene = "picker"    THEN P!Next ELSE UNCHANGED pVars
  /\ IF scene = "settings"  THEN G!Next ELSE UNCHANGED gVars
  /\ IF scene = "card"      THEN Q!Next ELSE UNCHANGED qVars

\* The fairness AppsView states, where it runs.
MCFairness == /\ WF_aVars(scene = "apps" /\ A!Poll) /\ SF_aVars(scene = "apps" /\ A!LoadOver)
              /\ WF_aVars(scene = "apps" /\ A!Dropped)

MCSpec == MCInit /\ [][MCNext]_vars /\ MCFairness

-----------------------------------------------------------------------------
\* Neither the overview's figures nor the list of gateways ever gives way to an older
\* one, or to one from before a change the user was told is made, however the answers
\* to polls, refreshes and changes overtake one another; and a QR code put on the overview
\* is in the format selected at that moment (DashboardView, EgressView).
NothingOlder == [][/\ scene = "dashboard" => D!TypeOK /\ D!NothingOlder /\ D!NoOtherFormat
                   /\ scene = "egress"    => E!NothingOlder]_vars

\* The public key the gateway form shows is that of its private key, whatever is
\* typed, generated, derived, closed and opened while keys are on their way.
KeysMatch == scene = "egress" => E!TypeOK /\ E!KeysMatch

\* A gateway's field goes back to a value from before the one the user was told is
\* saved only from a list the page knows it failed to reload, or by a change it had given
\* up (EgressView).
SavedIsKept == [][scene = "egress" => E!SavedIsKept]_vars

\* The traffic page warns of an outage a poll after it has come to be one, and of one it
\* began with; the history and the applications are those of the period selected, or a
\* load or an error shows, usage the user was told is cleared stays cleared, and an export
\* is what is listed, whatever selections, polls, refreshes, clears and midnights overlap
\* (ServerView, TrafficHistory, TrafficApps).
TabsAreTrue ==
  /\ scene = "traffic" => T!TypeOK /\ T!OutageShown
  /\ scene = "history" => H!TypeOK /\ H!ShownIsSelected
  /\ scene = "apps"    => A!TypeOK /\ A!ShownIsSelected /\ A!ClearedStaysCleared /\ A!ExportIsTheTable

\* "Loading" does not stay for ever on the applications tab, although a clear
\* supersedes the load that raised it and, when it fails, starts none.
LoadingEnds == scene = "apps" => A!LoadingEnds

\* The date picker's grid is the calendar, and it offers no value the views reject.
PickerIsSound == scene = "picker" => P!TypeOK /\ P!GridIsTheCalendar /\ P!OfferedIsValid

\* No save puts into a section of the settings a value nobody saved in that section.
SectionsSaveAlone == scene = "settings" => G!TypeOK /\ G!SectionsSaveAlone

\* The title under a QR code fits in two lines and loses nothing without an ellipsis.
TitleFits == scene = "card" => Q!TitleFits

=============================================================================
