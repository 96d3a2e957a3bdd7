-------------------------- MODULE DashboardView --------------------------
(* The overview page: DashboardView.vue with its calibration dialog,         *)
(* CalibrateUsageModal.vue.  Polls, refreshes, resets, calibrations, format  *)
(* switches and QR renders overlap; the page must not go back in time.       *)
(* The revision counters are compared with their current value and nothing   *)
(* else, so a load keeps "latest": nobody has advanced the counter since.    *)
EXTENDS Naturals, FiniteSets

CONSTANTS Formats,  \* subscription formats, of which AutoFormat is the first shown
          AutoFormat,
          MaxVer,   \* bound: changes of what the server reports
          MaxLoads, \* bound: loads in flight at once
          MaxUrl    \* bound: subscription addresses in succession

VARIABLES
  server,      \* what /api/dashboard reports now: [ver, url]
  shown,       \* data, or Nothing
  format, qr,  \* subFormat; the card shown: [url, format] or Nothing
  loads,       \* origin -> the load() it awaits, or Idle
  select,      \* the format switch whose card is being drawn and still counts, or Nothing
  post,        \* mutate(): the request it awaits
  refreshing,  \* refreshTraffic(): "no", "load" or "server"
  dialog,      \* the calibration dialog and its request
  acked        \* history: the newest change the user was told is made

vars == <<server, shown, format, qr, loads, select, post, refreshing, dialog, acked>>

Nothing == [none |-> TRUE]
Idle    == [phase |-> "idle"]
Origins == {"poll", "refresh", "mutate", "calibrate"}
Quiet   == [phase |-> "no", ver |-> 0]

Snapshots == [ver : 0..MaxVer, url : 1..MaxUrl]
Cards     == [url : 1..MaxUrl, format : Formats]

mutating == post.phase # "no" \/ loads["mutate"] # Idle
pending  == \E o \in Origins : loads[o] # Idle

\* ++revision: no load in flight is the latest any more.
Superseded(ls) == [o \in Origins |-> IF ls[o] = Idle THEN Idle ELSE [ls[o] EXCEPT !.latest = FALSE]]

\* ++qrRevision: no card being drawn for a load is the latest any more.
CardsSuperseded(ls) == [o \in Origins |-> IF ls[o] = Idle THEN Idle ELSE [ls[o] EXCEPT !.drawn = FALSE]]

NewLoad == [phase |-> "sent", latest |-> TRUE, snap |-> Nothing, card |-> Nothing, drawn |-> FALSE]
Room == Cardinality({o \in Origins : loads[o] # Idle}) < MaxLoads

\* A defect: a new load does not outdate those in flight.
Loading_Unordered(o) == [loads EXCEPT ![o] = NewLoad]

\* load() begins.
Loading(o) == [Superseded(loads) EXCEPT ![o] = NewLoad]

Init ==
  /\ server = [ver |-> 0, url |-> 1]
  /\ shown = Nothing /\ format = AutoFormat /\ qr = Nothing
  /\ loads = [o \in Origins |-> IF o = "poll" THEN NewLoad ELSE Idle]  \* onMounted(poll)
  /\ select = Nothing /\ post = Quiet /\ refreshing = "no" /\ dialog = [Quiet EXCEPT !.phase = "closed"]
  /\ acked = 0

-----------------------------------------------------------------------------
(* The server. *)

\* Traffic, other tabs and the command line change what is reported, the
\* subscription address among it.
ServerChanges ==
  /\ \/ server.ver < MaxVer /\ server' = [server EXCEPT !.ver = @ + 1]
     \/ server.url < MaxUrl /\ server' = [server EXCEPT !.url = @ + 1]
  /\ UNCHANGED <<shown, format, qr, loads, select, post, refreshing, dialog, acked>>

Answer(o) ==
  /\ loads[o].phase = "sent"
  /\ loads' = [loads EXCEPT ![o].phase = "answered", ![o].snap = server]
  /\ UNCHANGED <<server, shown, format, qr, select, post, refreshing, dialog, acked>>

\* A reset, a restart or a calibration takes effect before its answer arrives.
Takes ==
  /\ server.ver < MaxVer /\ server' = [server EXCEPT !.ver = @ + 1]
  /\ \/ /\ post.phase = "sent" /\ post' = [phase |-> "served", ver |-> server.ver + 1]
        /\ UNCHANGED dialog
     \/ /\ dialog.phase = "sent" /\ dialog' = [phase |-> "served", ver |-> server.ver + 1]
        /\ UNCHANGED post
  /\ UNCHANGED <<shown, format, qr, loads, select, refreshing, acked>>

-----------------------------------------------------------------------------
(* load(). *)

\* finally and what the caller of load() does next; ok: it did not throw.
Over(o, ok) ==
  refreshing' = IF o # "refresh" THEN refreshing ELSE IF ok THEN "server" ELSE "no"

\* After the awaits of load(): published if nothing superseded it meanwhile.
Publish(o, ls, card, counts) ==
  /\ loads' = [ls EXCEPT ![o] = Idle]
  /\ IF ls[o].latest
       THEN /\ shown' = ls[o].snap 
            /\ qr' = IF counts THEN card ELSE qr
       ELSE UNCHANGED <<shown, qr>>
  /\ Over(o, TRUE)

SameAddress(snap) == shown # Nothing /\ shown.url = snap.url

\* The answer arrives.  Only a new address makes load() draw a card, in the
\* format selected by now, and every card drawn before stops counting.
Arrive(o) ==
  /\ loads[o].phase = "answered"
  /\ IF SameAddress(loads[o].snap)
       THEN Publish(o, loads, Nothing, FALSE) /\ UNCHANGED select
       ELSE /\ loads' = [CardsSuperseded(loads) EXCEPT
                           ![o].phase = "drawing", ![o].drawn = TRUE,
                           ![o].card = [url |-> loads[o].snap.url, format |-> format]]
            /\ select' = Nothing
            /\ UNCHANGED <<shown, qr, refreshing>>
  /\ UNCHANGED <<server, format, post, dialog, acked>>

Drawn(o) ==
  /\ loads[o].phase = "drawing"
  /\ Publish(o, loads, loads[o].card, loads[o].drawn)
  /\ UNCHANGED <<server, format, select, post, dialog, acked>>

\* No connection, ten seconds without an answer, or a card that cannot be drawn.
LoadFails(o) ==
  /\ loads[o] # Idle
  /\ loads' = [loads EXCEPT ![o] = Idle]
  /\ Over(o, FALSE)
  /\ UNCHANGED <<server, shown, format, qr, select, post, dialog, acked>>

-----------------------------------------------------------------------------
(* What starts loads. *)

\* The five-second timer.
Poll ==
  /\ ~pending /\ ~mutating
  /\ loads' = Loading("poll")
  /\ UNCHANGED <<server, shown, format, qr, select, post, refreshing, dialog, acked>>

RefreshTraffic ==
  /\ shown # Nothing /\ refreshing = "no" /\ ~mutating /\ Room
  /\ refreshing' = "load"
  /\ loads' = Loading("refresh")
  /\ UNCHANGED <<server, shown, format, qr, select, post, dialog, acked>>

\* loadServer(), which refreshTraffic() awaits last, has its answer or gives up.
RefreshDone ==
  /\ refreshing = "server" /\ refreshing' = "no"
  /\ UNCHANGED <<server, shown, format, qr, loads, select, post, dialog, acked>>

\* mutate(): reset or restart; the loads in flight are superseded at once.
Mutate ==
  /\ shown # Nothing /\ ~mutating
  /\ post' = [phase |-> "sent", ver |-> 0]
  /\ loads' = Superseded(loads)
  /\ UNCHANGED <<server, shown, format, qr, select, refreshing, dialog, acked>>

MutateDone ==
  /\ post.phase = "served" /\ post' = Quiet /\ Room
  /\ acked' = IF post.ver > acked THEN post.ver ELSE acked
  /\ loads' = Loading("mutate")
  /\ UNCHANGED <<server, shown, format, qr, select, refreshing, dialog>>

MutateFails ==
  /\ post.phase \in {"sent", "served"} /\ post' = Quiet
  /\ UNCHANGED <<server, shown, format, qr, loads, select, refreshing, dialog, acked>>

\* The calibration dialog: opened, closed at any time, submitted, answered.
CalibrateOpen ==
  /\ shown # Nothing /\ dialog.phase = "closed" /\ dialog' = [phase |-> "open", ver |-> 0]
  /\ UNCHANGED <<server, shown, format, qr, loads, select, post, refreshing, acked>>

\* A closed dialog is unmounted: the page no longer hears how its request ends.
CalibrateClose ==
  /\ dialog.phase # "closed" /\ dialog' = [phase |-> "closed", ver |-> 0]
  /\ server' = IF dialog.phase = "sent" /\ server.ver < MaxVer
               THEN [server EXCEPT !.ver = @ + 1] ELSE server
  /\ UNCHANGED <<shown, format, qr, loads, select, post, refreshing, acked>>

CalibrateSubmit ==
  /\ dialog.phase = "open" /\ dialog' = [phase |-> "sent", ver |-> 0]
  /\ UNCHANGED <<server, shown, format, qr, loads, select, post, refreshing, acked>>

Calibrated ==
  /\ dialog.phase = "served" /\ loads["calibrate"] = Idle /\ Room
  /\ dialog' = [phase |-> "closed", ver |-> 0]
  /\ acked' = IF dialog.ver > acked THEN dialog.ver ELSE acked
  /\ loads' = Loading("calibrate")
  /\ UNCHANGED <<server, shown, format, qr, select, post, refreshing>>

CalibrateFails ==
  /\ dialog.phase \in {"sent", "served"} /\ dialog' = [phase |-> "open", ver |-> 0]
  /\ UNCHANGED <<server, shown, format, qr, loads, select, post, refreshing, acked>>

-----------------------------------------------------------------------------
(* selectSubFormat(). *)

\* A defect: a switch of the format does not outdate the cards being drawn.
SelectSubFormat_Unordered(f) ==
  /\ shown # Nothing /\ format' = f
  /\ select' = [url |-> shown.url, format |-> f]
  /\ UNCHANGED <<server, shown, qr, loads, post, refreshing, dialog, acked>>

SelectSubFormat(f) ==
  /\ shown # Nothing /\ format' = f
  /\ select' = [url |-> shown.url, format |-> f]
  /\ loads' = CardsSuperseded(loads)
  /\ UNCHANGED <<server, shown, qr, post, refreshing, dialog, acked>>

SelectDrawn ==
  /\ select # Nothing /\ qr' = select /\ select' = Nothing
  /\ UNCHANGED <<server, shown, format, loads, post, refreshing, dialog, acked>>

Next ==
  \/ ServerChanges \/ Takes
  \/ \E o \in Origins : Answer(o) \/ Arrive(o) \/ Drawn(o) \/ LoadFails(o)
  \/ Poll \/ RefreshTraffic \/ RefreshDone \/ Mutate \/ MutateDone \/ MutateFails
  \/ CalibrateOpen \/ CalibrateClose \/ CalibrateSubmit \/ Calibrated \/ CalibrateFails
  \/ \E f \in Formats : SelectSubFormat(f)
  \/ SelectDrawn

Spec == Init /\ [][Next]_vars

-----------------------------------------------------------------------------
TypeOK ==
  /\ server \in Snapshots /\ shown \in Snapshots \cup {Nothing}
  /\ format \in Formats /\ qr \in Cards \cup {Nothing} /\ select \in Cards \cup {Nothing}
  /\ \A o \in Origins : loads[o] = Idle \/ loads[o].phase \in {"sent", "answered", "drawing"}
  /\ post.phase \in {"no", "sent", "served"} /\ refreshing \in {"no", "load", "server"}
  /\ dialog.phase \in {"closed", "open", "sent", "served"}
  /\ acked \in 0..MaxVer

\* Figures older than a reset, a restart or a calibration the user was told is
\* made never replace what the page shows, and figures never give way to older
\* ones, however the answers to overlapping requests are ordered.
NothingOlder ==
  shown' # shown => /\ shown'.ver >= acked
                    /\ shown # Nothing => shown'.ver >= shown.ver

\* A card put on the page is in the format selected at that moment: neither a slower
\* render of another format nor one that a load began earlier takes its place.
NoOtherFormat == qr' # qr => qr'.format = format'

=============================================================================
