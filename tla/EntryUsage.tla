---------------------------- MODULE EntryUsage ----------------------------
(***************************************************************************)
(* The usage of the entry host's billing period, as internal/traffic       *)
(* derives it from vnStat: network.go samples the daemon's database, keeps *)
(* the period's bytes and estimates from the proxy counters what vnStat    *)
(* has not saved yet; network_history.go keeps the sources and their       *)
(* buckets in traffic.db and sums them.                                    *)
(*                                                                         *)
(* Around it move the interface, vnStat (which looks at the counters from  *)
(* time to time, may lose its database, may be set back, and prunes), the  *)
(* settings (interface and reset schedule), the saves and the death of the *)
(* panel.                                                                  *)
(*                                                                         *)
(* RX and TX are one count, vnStat's three bucket widths one, and billing  *)
(* factors and calibration are left out.  Clock readings are odd; buckets  *)
(* and periods begin at multiples of Width, so that no two instants that   *)
(* are compared fall together by accident.  0 is Go's zero time.           *)
(***************************************************************************)
EXTENDS Integers, FiniteSetsExt, SequencesExt

CONSTANTS
  Ifaces,      \* interfaces vnStat watches
  Home,        \* the one configured first
  Schedules,   \* reset schedules, each the set of resets still ahead; {}: none
  Monthly,     \* the one configured first
  Horizon,     \* bound: the last clock reading
  MaxBytes,    \* bound: bytes on the configured interface
  Foreign,     \* bytes the others carry from one look of vnStat to the next
  MaxEvents    \* bound: accidents and changes of the settings

Width == 4                   \* of a bucket
networkStaleAfter == 2
proxyMarkWindow == 4
Start == Width + 1           \* the first clock reading

ASSUME EntryAssumption ==
  /\ Home \in Ifaces /\ Monthly \in Schedules
  /\ {Horizon, MaxBytes, Foreign, MaxEvents} \subseteq Nat /\ Start <= Horizon
  /\ \A S \in Schedules : S \subseteq Nat /\ \A b \in S : b % Width = 0 /\ b > Start

VARIABLES
  now,        \* the clock, shared by vnStat and the panel
  iface,      \* the settings: VnStatInterface
  schedule,   \*               Reset
  vn,         \* vnStat's database, per interface: created, total, rows
  updated,    \* the time of its last save
  fresh,      \* bytes on the configured interface since then
  carried,    \* bytes it ever carried, all of them sing-box's
  total,      \* State.Total(): those the core samples have brought in
  proxyMarks, \* Tracker.proxyMarks
  st,         \* State.Network[entry]
  pending,    \* Tracker.pendingNetwork[entry]
  read,       \* the snapshot SampleNetwork is working on
  resetting,  \* a manual reset has taken its sample
  db,         \* traffic.db: the checkpoint and network_source with its buckets
  recorded,   \* ghost: carried bytes vnStat has ever recorded
  inSlot,     \* ghost: the same, per bucket
  past,       \* ghost: what was so at vnStat's saves and at bucket boundaries
  astray,     \* ghost: vnStat was set back, or pruned a bucket SBM held half full
  events      \* accidents and changes so far

environment == <<iface, schedule, vn, updated, fresh, carried>>
panel == <<total, proxyMarks, st, pending, read, resetting>>
ghosts == <<recorded, inSlot, past, astray>>
vars == <<now, environment, panel, db, ghosts, events>>

Slot(at) == at - (at % Width)
Slots == {Slot(at) : at \in 0..Horizon}
Beyond == Horizon + Width
Later(a, b) == IF a < b THEN b ELSE a
Earlier(a, b) == IF b < a THEN b ELSE a

(***************************************************************************)
(* Buckets, nettraffic/vnstat.go: a snapshot has created, updated and rows *)
(***************************************************************************)
Opens(s, b) == Later(b, s.created)
Closes(s, b) == Earlier(b + Width, s.updated)

HasCoverage(s, start, end) ==
  \E b \in DOMAIN s.rows : /\ Opens(s, b) < Closes(s, b)
                           /\ start <= Opens(s, b) /\ Closes(s, b) <= end

SumOf(f, which) == MapThenSumSet(LAMBDA x : f[x], which)

\* Index.Sum: whole buckets only; what they do not resolve is flagged.
Sum(s, start, end) ==
  LET from == Later(start, s.created)
      to == Earlier(end, s.updated)
      touched == {b \in Slots : Later(b, from) < Earlier(b + Width, to)}
      whole == {b \in touched \cap DOMAIN s.rows :
                  Later(b, from) = Opens(s, b) /\ Earlier(b + Width, to) = Closes(s, b)}
  IN IF end <= start THEN [bytes |-> 0, partial |-> FALSE]
     ELSE IF to <= from
     THEN [bytes |-> 0, partial |-> start < s.created \/ s.updated < start]
     ELSE [bytes |-> SumOf(s.rows, whole),
           partial |-> start < s.created \/ whole # touched]

(***************************************************************************)
(* Sources, network_history.go                                             *)
(***************************************************************************)
\* networkSince: the source counts from available on; the prefix of the
\* bucket that contains it is subtracted.
networkSince(s, available, prefix) ==
  [created |-> Later(s.created, available), updated |-> s.updated,
   rows |-> [b \in DOMAIN s.rows |->
               IF b \in DOMAIN prefix THEN Later(0, s.rows[b] - prefix[b])
               ELSE s.rows[b]]]

\* The saved sources that overlap [start, end), but for one generation.
networkSources(sources, exclude, start, end) ==
  {[generation |-> g, available |-> sources[g].available, ended |-> sources[g].ended,
    snapshot |-> networkSince(sources[g], sources[g].available, sources[g].prefix)] :
     g \in {g \in DOMAIN sources \ {exclude} :
              /\ sources[g].available < end
              /\ sources[g].ended = 0 \/ sources[g].ended > start}}

\* What of [start, end) a source answers for.
From(s, start) == Later(start, s.available)
To(s, end) == Min({end, s.snapshot.updated} \cup ({s.ended} \ {0}))
Answering(sources, start, end) ==
  {s \in sources : /\ From(s, start) < To(s, end)
                   /\ HasCoverage(s.snapshot, From(s, start), To(s, end))}

\* Mutant: gaps are looked for at the end only.
Gap_AtTheEnd(answering, start, end) ==
  start < end /\ \A s \in answering : To(s, end) < end

\* An instant nobody answers for.
Gap(answering, start, end) ==
  \E at \in start..(end - 1) :
    \A s \in answering : at \notin From(s, start)..(To(s, end) - 1)

sumNetworkSources(sources, start, end) ==
  LET answering == Answering(sources, start, end)
      sum == [s \in answering |-> Sum(s.snapshot, From(s, start), To(s, end))]
  IN [bytes |-> SumOf([s \in answering |-> sum[s].bytes], answering),
      available |-> answering # {},
      partial |-> (\E s \in answering : sum[s].partial) \/ Gap(answering, start, end)]

NoRows == <<>>
Overlay(old, new) == [b \in DOMAIN old \cup DOMAIN new |->
                        IF b \in DOMAIN new THEN new[b] ELSE old[b]]

\* saveNetworks: the newest record closes the other generations.
saveNetworks(sources, r) ==
  LET close(s) == IF s.ended = 0 THEN [s EXCEPT !.ended = r.available] ELSE s
      new == [created |-> r.snapshot.created, available |-> r.available, ended |-> 0,
              updated |-> 0, rows |-> NoRows, prefix |-> NoRows]
      row == IF r.generation \in DOMAIN sources THEN sources[r.generation] ELSE new
  IN [g \in DOMAIN sources \cup {r.generation} |->
        IF g # r.generation THEN close(sources[g])
        ELSE [row EXCEPT !.updated = r.snapshot.updated,
                         !.rows = Overlay(@, r.snapshot.rows),
                         !.prefix = Overlay(r.prefix, @)]]

NoRecord == [generation |-> 0]
NoRead == [iface |-> "none"]

\* NetworkTrafficState before the first sample.
NewState ==
  [generation |-> 0, origin |-> "none", created |-> 0, updated |-> 0, last |-> 0,
   rx |-> 0, carry |-> 0, baseline |-> 0, manual |-> FALSE, partial |-> FALSE,
   available |-> FALSE, status |-> "none", reset |-> {0}, period |-> 0, next |-> 0,
   recordedFrom |-> 0, source |-> 0, anchor |-> 0, anchorAt |-> 0, anchorKnown |-> FALSE]

Truth == [seen |-> recorded, sampled |-> total]

Init ==
  /\ now = Start /\ iface = Home /\ schedule = Monthly
  /\ vn = [i \in Ifaces |-> [created |-> 1, total |-> 2, rows |-> [b \in {0, Width} |-> 1]]]
  /\ updated = Start
  /\ fresh = 0 /\ carried = 0
  /\ total = 0 /\ proxyMarks = <<>> /\ st = NewState
  /\ pending = NoRecord /\ read = NoRead /\ resetting = FALSE
  /\ db = [st |-> NewState, total |-> 0, sources |-> <<>>]
  /\ recorded = 0 /\ inSlot = [b \in Slots |-> 0] /\ astray = FALSE
  /\ past = [at \in Start..Horizon |-> [seen |-> 0, sampled |-> 0]]
  /\ events = 0

(***************************************************************************)
(* The surroundings                                                        *)
(*                                                                         *)
(* While SampleNetwork works on a snapshot, which takes a fraction of a    *)
(* clock step, only the settings, the core samples, the saves and a crash  *)
(* interfere: it has its own copy of vnStat's data.                        *)
(***************************************************************************)
Idle == read = NoRead

Tick ==
  /\ Idle /\ now + 2 <= Horizon
  /\ now' = now + 2
  /\ past' = [past EXCEPT ![now + 1] = Truth]
  /\ UNCHANGED <<environment, panel, db, recorded, inSlot, astray, events>>

\* sing-box relays a byte through the configured interface; all other traffic
\* is on the other interfaces, it never enters the estimate.
Carry ==
  /\ Idle /\ carried < MaxBytes
  /\ carried' = carried + 1 /\ fresh' = fresh + 1
  /\ UNCHANGED <<now, iface, schedule, vn, updated, panel, db, ghosts, events>>

\* vnStat saves what it saw since its last look, in the current bucket; once
\* per clock reading, and not at the one at which SBM turned to another source.
Records ==
  /\ Idle /\ updated < now /\ st.source # now
  /\ LET delta(i) == IF i = iface THEN fresh ELSE Foreign
         grown(i, rows) == delta(i) + (IF Slot(now) \in DOMAIN rows THEN rows[Slot(now)] ELSE 0)
     IN vn' = [i \in Ifaces |->
                 [vn[i] EXCEPT !.total = @ + delta(i),
                               !.rows = Overlay(@, [b \in {Slot(now)} |-> grown(i, @)])]]
  /\ updated' = now /\ fresh' = 0
  /\ recorded' = recorded + fresh
  /\ inSlot' = [inSlot EXCEPT ![Slot(now)] = @ + fresh]
  /\ past' = [past EXCEPT ![now] = [seen |-> recorded + fresh, sampled |-> total]]
  /\ UNCHANGED <<now, iface, schedule, carried, panel, db, astray, events>>

TakenRows == {db.sources[g].rows : g \in DOMAIN db.sources}
               \cup {p.snapshot.rows : p \in {pending} \ {NoRecord}}

Event == events < MaxEvents /\ events' = events + 1

\* What befalls vnStat before SBM's first sample only changes what that finds.
Accident == Idle /\ st.generation # 0 /\ Event

\* The database is lost and the daemon starts another.
Recreate ==
  /\ Accident /\ updated < now
  /\ vn' = [i \in Ifaces |-> [created |-> now, total |-> 0, rows |-> NoRows]]
  /\ updated' = now /\ fresh' = 0
  /\ past' = [past EXCEPT ![now] = Truth]
  /\ UNCHANGED <<now, iface, schedule, carried, panel, db, recorded,
                 inSlot, astray>>

\* It is put back to a state with a byte less.
SetBack ==
  /\ Accident
  /\ \E b \in DOMAIN vn[iface].rows :
       /\ vn[iface].rows[b] > 0
       /\ vn' = [vn EXCEPT ![iface].rows[b] = @ - 1, ![iface].total = @ - 1]
  /\ astray' = TRUE
  /\ UNCHANGED <<now, iface, schedule, updated, fresh, carried, panel, db,
                 recorded, inSlot, past>>

\* An old bucket passes vnStat's retention, perhaps after SBM took it half full.
Prune ==
  /\ Accident
  /\ \E b \in DOMAIN vn[iface].rows \ {Slot(updated)} :
       /\ vn' = [vn EXCEPT ![iface].rows = [a \in DOMAIN @ \ {b} |-> @[a]]]
       /\ astray' = (astray \/ \E rows \in TakenRows :
                                  b \in DOMAIN rows /\ rows[b] # vn[iface].rows[b])
  /\ UNCHANGED <<now, iface, schedule, updated, fresh, carried, panel, db,
                 recorded, inSlot, past>>

\* The settings page.  What the old interface carried since the last look is
\* no longer asked for.  The interface is changed once SBM has saved a sample of
\* the present one: it does not notice one that was away in between.
Configure ==
  /\ Event
  /\ iface' \in Ifaces /\ schedule' \in Schedules
  /\ (iface' = iface) # (schedule' = schedule)
  /\ iface' # iface => st.origin = iface /\ db.st.origin = iface
  /\ fresh' = IF iface' = iface THEN fresh ELSE 0
  /\ UNCHANGED <<now, vn, updated, carried, panel, db, ghosts>>

(***************************************************************************)
(* Saving: the tracker saves every five seconds, and after every sample of *)
(* vnStat, so a change is saved with it unless the save fails or the panel *)
(* dies first                                                              *)
(***************************************************************************)
Checkpoint(s, t, r) == [st |-> s, total |-> t,
                        sources |-> IF r = NoRecord THEN db.sources
                                    ELSE saveNetworks(db.sources, r)]

Saved(s, t, r) == /\ db' = Checkpoint(s, t, r) /\ pending' = NoRecord
                  /\ UNCHANGED events
NotSaved(r) == Event /\ pending' = r /\ UNCHANGED db

Persist ==
  /\ db # Checkpoint(st, total, pending)
  /\ Saved(st, total, pending)
  /\ UNCHANGED <<now, environment, total, proxyMarks, st, read, resetting, ghosts>>

Crash ==
  /\ Event
  /\ st' = db.st /\ total' = db.total
  /\ proxyMarks' = <<>> /\ pending' = NoRecord /\ read' = NoRead /\ resetting' = FALSE
  /\ UNCHANGED <<now, environment, db, ghosts>>

(***************************************************************************)
(* The core samples, tracker.go                                            *)
(***************************************************************************)
\* The marks before the first that is young enough go, but never the last.
Trimmed(marks) ==
  LET first == Min({Len(marks)} \cup {n \in DOMAIN marks : now - marks[n].at <= proxyMarkWindow})
  IN SubSeq(marks, first, Len(marks))

\* applySample as far as it concerns the marks; a sample that would leave
\* everything as it is is left out.
ApplySample ==
  /\ total' = carried
  /\ carried # total \/ \A n \in DOMAIN proxyMarks : proxyMarks[n].at < now
  /\ proxyMarks' = Trimmed(Append(proxyMarks, [at |-> now, total |-> carried]))
  /\ st' = IF st.generation # 0 /\ ~st.anchorKnown
           THEN [st EXCEPT !.anchor = carried, !.anchorKnown = TRUE] ELSE st
  /\ Saved(st', total', pending) \/ NotSaved(pending)
  /\ UNCHANGED <<now, environment, read, resetting, ghosts>>

\* Mutant: the estimate always begins at vnStat's save.
AnchorAt_Save(s) == s.updated

\* The instant the estimate begins: the later of vnStat's save and the start of
\* the period.
AnchorAt(s) == Later(s.updated, s.period)

\* anchorProxyLocked, which looks at t.state again.
anchorProxy(s) ==
  LET before == {n \in DOMAIN proxyMarks : proxyMarks[n].at <= AnchorAt(s)}
      set(a, known) ==
        [s EXCEPT !.anchorAt = AnchorAt(s), !.anchor = a, !.anchorKnown = known]
  IN IF st.anchorKnown /\ st.anchorAt = AnchorAt(s) THEN set(st.anchor, TRUE)
     ELSE IF before # {} THEN set(proxyMarks[Max(before)].total, TRUE)
     ELSE IF proxyMarks # <<>> THEN set(proxyMarks[1].total, TRUE)
     ELSE set(0, FALSE)

(***************************************************************************)
(* SampleNetwork, step by step; r is the snapshot with its request         *)
(***************************************************************************)
SameSource(s, r) ==
  s.generation # 0 /\ s.origin = r.iface /\ s.created = r.snapshot.created
Generation(s, r) == IF SameSource(s, r) THEN s.generation ELSE s.generation + 1
Stale(r) == now - r.snapshot.updated > networkStaleAfter

SavedRows(g) == IF g \in DOMAIN db.sources THEN db.sources[g].rows ELSE NoRows
SavedPrefix(g) == IF g \in DOMAIN db.sources THEN db.sources[g].prefix ELSE NoRows

Backwards(s, r) ==
  SameSource(s, r) /\ (r.snapshot.updated < s.updated \/ r.snapshot.total < s.last)
BucketBackwards(s, r) ==
  \E b \in DOMAIN r.snapshot.rows \cap DOMAIN SavedRows(Generation(s, r)) :
    r.snapshot.rows[b] < SavedRows(Generation(s, r))[b]

\* periodStart; a schedule's first reset is preceded by one before all records.
previousReset(S) == Max({b \in S : b <= now} \cup {1})
nextReset(S) == Min({b \in S : b > now} \cup {Beyond})

resetChanged(s, r) == s.reset # r.schedule
periodChanged(s, r) == /\ s.generation # 0 /\ r.schedule # {}
                       /\ s.next # 0 /\ s.next <= now
Renews(s, r) == s.generation = 0 \/ resetChanged(s, r) \/ periodChanged(s, r)

\* Mutant: the baseline of the last manual reset lives on in a new period.
Renewed_StaysManual(s, r) ==
  IF ~Renews(s, r) THEN s
  ELSE [s EXCEPT !.carry = 0,
          !.period = IF r.schedule # {}
                     THEN Later(previousReset(r.schedule), s.recordedFrom)
                     ELSE IF @ = 0 THEN r.snapshot.created ELSE @]

\* A new period, or the same one under another schedule.
Renewed(s, r) ==
  IF ~Renews(s, r) THEN s
  ELSE [s EXCEPT !.manual = FALSE, !.carry = 0,
          !.period = IF r.schedule # {}
                     THEN Later(previousReset(r.schedule), s.recordedFrom)
                     ELSE IF @ = 0 THEN r.snapshot.created ELSE @]

\* Nothing from before the first sample counts.
FirstSample(s, r) ==
  [s EXCEPT !.recordedFrom = r.snapshot.updated, !.period = r.snapshot.updated,
            !.source = r.snapshot.updated, !.manual = TRUE,
            !.baseline = r.snapshot.total, !.carry = 0]

\* What prev holds of a period that begins at period, once prev's source is gone.
Kept(prev, r, period) ==
  LET sum == sumNetworkSources(networkSources(db.sources, 0, period, prev.updated),
                               period, prev.updated)
  IN IF ~Renews(prev, r) THEN [bytes |-> prev.rx]
     ELSE IF sum.partial /\ period <= prev.period
     THEN [bytes |-> Later(sum.bytes, prev.rx)]
     ELSE [bytes |-> sum.bytes]

\* A recreated database of the same interface is read from its creation.
Recreated(prev, r) == prev.origin = r.iface /\ r.snapshot.created > prev.updated

\* What of the new source's total is not the period's: of a recreated database
\* what is older than the period, of another interface everything so far.
Baseline(s, prev, r) ==
  LET old == Sum(r.snapshot, Later(s.period, s.recordedFrom), r.snapshot.updated).bytes
  IN r.snapshot.total - (IF Recreated(prev, r) THEN old ELSE 0)

SwitchSource(s, prev, r) ==
  LET kept == Kept(prev, r, s.period).bytes
  IN [s EXCEPT !.rx = kept, !.carry = kept, !.manual = TRUE, !.partial = TRUE,
        !.source = IF Recreated(prev, r) THEN r.snapshot.created ELSE now,
        !.baseline = Baseline(s, prev, r)]

\* Mutant: an unsaved prefix is forgotten with the next sample.
UnsavedPrefix_Forgotten(prev) == NoRows

\* The rows that contain the first instant of a source; an unsaved prefix is
\* taken over into the next record.
UnsavedPrefix(prev) ==
  IF pending.generation = prev.generation THEN pending.prefix ELSE NoRows

Prefix(prev, s, r) ==
  IF SameSource(prev, r) THEN UnsavedPrefix(prev)
  ELSE [b \in {b \in DOMAIN r.snapshot.rows : /\ s.source > r.snapshot.created
                                              /\ b <= s.source /\ s.source < b + Width}
          |-> r.snapshot.rows[b]]

\* The bytes of the period from all sources that cover it.
FromBuckets(prev, s, r) ==
  LET g == Generation(prev, r)
      merged == [r.snapshot EXCEPT !.rows = Overlay(SavedRows(g), @)]
      current == [generation |-> g, available |-> s.source, ended |-> 0,
                  snapshot |-> networkSince(merged, s.source,
                                 Overlay(Prefix(prev, s, r), SavedPrefix(g)))]
      others == {[o EXCEPT !.ended = IF @ = 0 \/ @ > s.source THEN s.source ELSE @] :
                   o \in {o \in networkSources(db.sources, g, s.period, s.source) :
                            s.source > s.period}}
  IN sumNetworkSources(others \cup {current}, s.period, r.snapshot.updated)

\* Mutant: a missing bucket takes back what was counted.
Held_Never(prev, r, rx) == FALSE

\* In an unchanged period a missing bucket takes back nothing.
Held(prev, r, rx) == ~Renews(prev, r) /\ rx < prev.rx

Measured(prev, s, r) ==
  IF s.manual
  THEN [s EXCEPT !.rx = s.carry + Later(0, r.snapshot.total - s.baseline),
                 !.available = TRUE]
  ELSE LET sum == FromBuckets(prev, s, r)
           rx == IF sum.partial /\ resetChanged(prev, r) /\ s.period <= prev.period
                 THEN Later(sum.bytes, prev.rx) ELSE sum.bytes
           held == Held(prev, r, rx)
       IN [s EXCEPT !.rx = IF held THEN prev.rx ELSE rx,
                    !.partial = sum.partial \/ held,
                    !.available = sum.available \/ r.snapshot.updated = s.period]

Settled(prev, s, r) ==
  [s EXCEPT !.generation = Generation(prev, r), !.origin = r.iface,
     !.created = r.snapshot.created, !.updated = r.snapshot.updated,
     !.last = r.snapshot.total, !.reset = r.schedule,
     !.next = IF r.schedule = {} THEN 0 ELSE nextReset(r.schedule),
     !.status = IF s.available /\ ~Stale(r) THEN "healthy" ELSE "interrupted"]

\* Which source the sample is from.
Sourced(prev, r) ==
  LET s == Renewed(prev, r)
  IN IF prev.generation = 0 THEN FirstSample(s, r)
     ELSE IF SameSource(prev, r) THEN s ELSE SwitchSource(s, prev, r)

Sampled(prev, r) ==
  LET s == Sourced(prev, r) IN anchorProxy(Settled(prev, Measured(prev, s, r), r))

NetworkFailure == st' = [st EXCEPT !.status = "interrupted"]

\* A sample of the poller that would find everything as it left it.
NothingNew == /\ SameSource(st, [iface |-> iface, snapshot |-> vn[iface]])
              /\ st.updated = updated /\ st.last = vn[iface].total
              /\ st.reset = schedule /\ (st.next = 0 \/ now < st.next)
              /\ st.status = IF now - updated > networkStaleAfter
                             THEN "interrupted" ELSE "healthy"

Reads(asked) == read' = [iface |-> iface, schedule |-> schedule, asked |-> asked,
                         snapshot |-> [created |-> vn[iface].created, updated |-> updated,
                                       total |-> vn[iface].total, rows |-> vn[iface].rows]]

\* SampleNetwork reads the settings and vnStat, for the poller or for a reset.
ReadSample ==
  /\ Idle
  /\ \/ ~NothingNew /\ UNCHANGED events /\ Reads(FALSE)
     \/ ~resetting /\ Event /\ Reads(TRUE)
  /\ UNCHANGED <<now, environment, total, proxyMarks, st, pending, resetting, db, ghosts>>

\* vnStat or traffic.db cannot be read.
SampleFails ==
  /\ ~Idle /\ Event
  /\ read' = NoRead /\ NetworkFailure
  /\ UNCHANGED <<now, environment, total, proxyMarks, pending, resetting, db, ghosts>>

Outdated == read.iface # iface \/ read.schedule # schedule

\* The settings changed meanwhile: no error, and a reset goes on.
DropSample ==
  /\ ~Idle /\ Outdated
  /\ read' = NoRead /\ resetting' = (resetting \/ read.asked)
  /\ UNCHANGED <<now, environment, total, proxyMarks, st, pending, db, ghosts, events>>

Refused(r) == \/ Backwards(st, r) \/ BucketBackwards(st, r)
              \/ ~SameSource(st, r) /\ Stale(r)

RefuseSample ==
  /\ ~Idle /\ ~Outdated /\ Refused(read)
  /\ read' = NoRead /\ NetworkFailure
  /\ UNCHANGED <<now, environment, total, proxyMarks, pending, resetting, db, ghosts, events>>

PublishSample ==
  /\ ~Idle /\ ~Outdated /\ ~Refused(read)
  /\ read' = NoRead
  /\ st' = Sampled(st, read)
  /\ LET r == [generation |-> st'.generation, snapshot |-> read.snapshot,
               available |-> st'.source, prefix |-> Prefix(st, Sourced(st, read), read)]
     IN \/ Saved(st', total, r) /\ resetting' = (resetting \/ read.asked)
        \/ NotSaved(r) /\ UNCHANGED resetting
  /\ UNCHANGED <<now, environment, total, proxyMarks, ghosts>>

\* resetNetwork after its sample.
ManualReset ==
  /\ resetting /\ Idle
  /\ resetting' = FALSE
  /\ IF st.status = "healthy"
     THEN /\ st' = [st EXCEPT !.manual = TRUE, !.baseline = st.last, !.carry = 0, !.rx = 0,
                              !.partial = FALSE, !.period = st.updated]
          /\ Saved(st', total, pending) \/ NotSaved(pending)
     ELSE UNCHANGED <<st, pending, db, events>>
  /\ UNCHANGED <<now, environment, total, proxyMarks, read, ghosts>>

\* NetworkHistory, for one bucket instead of a day: all saved sources since the
\* first, up to now.
NetworkHistory(b) ==
  LET left == Later(b, Min({db.sources[g].available : g \in DOMAIN db.sources}))
      right == Earlier(b + Width, now)
  IN IF db.sources = <<>> \/ right <= left THEN 0
     ELSE sumNetworkSources(networkSources(db.sources, 0, b, right), left, right).bytes

Next == \/ Tick \/ Carry \/ Records \/ Recreate \/ SetBack \/ Prune \/ Configure
        \/ ApplySample \/ ReadSample \/ SampleFails \/ DropSample \/ RefuseSample
        \/ PublishSample \/ ManualReset \/ Persist \/ Crash

Spec == Init /\ [][Next]_vars

TypeOK ==
  /\ now \in Start..Horizon /\ updated \in Start..now
  /\ iface \in Ifaces /\ schedule \in Schedules
  /\ {carried, total, recorded, fresh} \subseteq 0..MaxBytes
  /\ st.rx \in 0..MaxBytes /\ st.generation \in 0..(MaxEvents + 1)
  /\ pending.generation \in {0, st.generation}

\* Within a billing period the measured usage never falls: whatever becomes of
\* vnStat's database, its buckets, the interface and the schedule, a sample
\* whose period begins no later than the one before keeps what was counted, and
\* no quota stop is lifted by missing records.  (A crash goes back to the last
\* save, and a manual reset starts again; and once vnStat was set back or pruned
\* a bucket that SBM held half full, another schedule may find less.)
MeasuredNeverFalls ==
  [][st.generation # 0 /\ st'.period <= st.period /\ st'.rx < st.rx
       => \/ Crash \/ ManualReset
          \/ astray /\ st'.reset # st.reset]_vars

\* The measured usage is of bytes vnStat recorded on the configured interface
\* since the period began: neither what the databases held before SBM's first
\* sample, nor another period's bytes, nor any byte twice.
NothingInvented ==
  /\ TypeOK
  /\ st.generation # 0 =>
       st.rx <= Later(0, past[st.updated].seen - past[st.period].seen)

\* A figure not flagged partial is the whole truth, unless vnStat was set back or
\* pruned a bucket that SBM held half full.
ExactWhenComplete ==
  st.generation # 0 /\ st.available /\ ~st.partial /\ ~astray /\ st.period <= st.updated
    => st.rx = past[st.updated].seen - past[st.period].seen

\* The estimate that is added to the measured usage holds no proxy byte a core
\* sample had already brought in when vnStat saved, or when the period began.
EstimateCountsOnce ==
  st.generation # 0 /\ st.anchorKnown =>
    Later(0, total - st.anchor)
      <= carried - past[Later(st.updated, st.period)].sampled

\* The history sums the same sources: no bucket of it reports more than vnStat
\* recorded then on the interface that was configured.
HistoryWithinRecorded ==
  \A b \in {b \in Slots : b < now} : NetworkHistory(b) <= inSlot[b]
=============================================================================
