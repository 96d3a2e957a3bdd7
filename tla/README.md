# A verification development for SBM

SBM is a panel for one sing-box proxy on one host.  A Go process
(`cmd/sbm-panel`) serves a web interface, renders the sing-box configuration,
counts traffic and stops the proxy when a quota is used up; `web/` is that interface,
a Vue application in the browser; `install.sh` installs and updates the panel.  This
directory holds TLA+ modules of the parts of the system whose
correctness depends on the order of events, TLC configurations that check them on
small instances, and proofs for all instances that TLAPS checks.

All paths below are relative to the repository.

## 1. Inventory

| Component | Code | State it keeps | What makes it correct | Here |
|---|---|---|---|---|
| Proxy byte accounting | `internal/traffic/tracker.go`, `history.go` | period totals, baseline (last counters and process generation), pending history rows, SQLite checkpoint, JSON mirror | every byte once, none skipped, history equal to what was counted, across core and panel restarts | `ProxyAccounting`, `UsageLedger` |
| Quota control | `tracker.go` (`Run`, `reconcileCore`), `network.go`, handlers in `internal/server/server.go` | `QuotaExceeded`, the service | over the limit the core is stopped, below it the core runs; missing data lifts no stop | `QuotaControl` |
| Configuration changes, gateway pauses | `server.go` (`mutateChange`, `ReconcileGatewayPauses`), `internal/core/manager.go`, `internal/traffic/egress.go`, `runConfig` in `cmd/sbm-panel/main.go` | saved configuration, core's file and backup, running core, applied pauses | file = rendering of what is saved; a failed change leaves nothing; pauses take effect | `ConfigApply` |
| Gateway accounting | `internal/traffic/accounting.go`, `egress.go` | iptables chains, rules and jumps; per-gateway baselines; the pending flag | kernel counters counted once over rule changes, reboots and crashes; a gateway called healthy is counted; nothing is left in the kernel | `GatewayAccounting` |
| Panel update | `internal/panelupdate/manager.go`, `internal/server/panel_update.go`, `run_panel_update` in `install.sh` | lock, status file, transient unit, panel and script and their backups | one update at a time, the status is true, no lasting "running", a failed update leaves the old panel | `PanelUpdate` |
| Login limiter | `internal/auth/session.go` | failures, windows and blocks per address; logins in progress | budget never exceeded by overlapping logins, blocks stand, table bounded | `LoginLimiter` |
| vnStat usage | `internal/traffic/network.go`, `network_history.go`, sums of `internal/nettraffic/vnstat.go` | source generation, period, carry, baseline, proxy anchor; saved sources with their buckets and prefixes | usage never falls within a period, no bytes of another database, exact unless flagged, the estimate counts nothing twice | `EntryUsage` |
| vnStat reader and index | `internal/nettraffic/vnstat.go` | none | a sum counts each byte of the interval once and flags what no bucket resolves | `BucketIndex` |
| App attribution | `internal/traffic/apps.go` | open connections and their counters, pending rows, tables | app totals add up to the proxy total; no byte of a connection is attributed twice | `AppAttribution` |
| JSON store | `internal/store/json.go`, `config.go` | file and backup | an undamaged file has every acknowledged change; a damaged one costs those of one save | `JSONFile` |
| Locks | all of `internal/traffic` and `internal/server`, `internal/core/manager.go` | ten locks | nobody waits in a circle; enforcement never waits for iptables or for an application | `LockOrder` |
| Monthly reset | `tracker.go` (`NextMonthlyReset`, `UpdateSchedule`), `periodStart` in `network.go` | next reset time | one reset per month at the configured local time; every moment is in one period | `ResetSchedule` |
| Protocol drivers, egress credentials, renderer | `internal/protocol`, `internal/core/render.go` | none | a pure function of the configuration | later |
| Web session | `web/src/App.vue`, `api.ts`, `views/LoginView.vue`; cookies of `internal/auth/session.go` | cookie, CSRF token, user, page, "expired"; the sessions the server accepts | token and cookie belong together; the end of a session is noticed; a sign-out is not taken for an expiry | `WebSession` |
| Overview page | `views/DashboardView.vue`, `components/CalibrateUsageModal.vue` | figures, QR code and format, revision counters, dialogs | nothing older replaces what is shown, or comes back after a change; the code is in the selected format | `DashboardView` |
| Gateways page | `views/EgressView.vue` | polled list, form and keys, list and key revisions | the same for the list; the public key is that of the private key; no saved field is written back | `EgressView` |
| Traffic page | `views/ServerView.vue`, `poll-status.ts` | unit, age of the last success | stale figures are marked as such | `TrafficPage` |
| History tab | `components/TrafficHistory.vue` | selection, rows, request number | rows are those of the selection | `HistoryView` |
| Applications tab | `components/TrafficApps.vue` | selection, table, request number | cleared usage stays cleared, loading ends, an export is the table | `AppsView` |
| Date picker | `components/DatePickerControl.vue` | value, view | the grid is the calendar, and what it offers is valid | `DatePicker` |
| Settings page | `views/SettingsView.vue`, `updateTrafficSettings` and `updateOutboundMode` in `server.go` | one copy of all settings | a section's button saves that section | `SettingsPage` |
| Update dialog | `components/PanelUpdate.vue` | job, release, timer, reconnecting | a running job is watched, and shown as running no longer than it runs | `UpdateDialog` |
| QR card | `qr.ts` | none | the title fits and loses nothing unseen | `QrCard` |
| Protocols page | `views/ProtocolsView.vue` | list, form | as for gateways, without their guard | planned |
| Subscription, SQL of the history queries, system information, health, geo, release check | `internal/server`, `internal/systeminfo`, ... | short caches | - | not modelled: read-only |
| Texts and controls (`*i18n.ts`, `Modal`, `SelectControl`, ...), the rest of the installer | `web/`, `install.sh` | - | - | not modelled: no state, or sequential administration |

How they interact.  Goroutines of one process share a `Tracker`: the poll loop
(`Tracker.Run`, every second), one vnStat worker (every 30 s), the gateway sampler
(every 5 s), `WatchGatewayPauses`, and one goroutine per HTTP request.  They
serialise on `mutationMu` (configuration changes), `gatewayMu`, `sampleMu` (core
readings), `networkLock` (vnStat), `controlMu` (systemctl) and `persistMu`
(saves), in that order, with `Tracker.mu` for single accesses to the state.
Other actors are sing-box itself, which restarts when asked and when it fails,
systemd, vnStat, the kernel's counters, and other processes: command-line
invocations of the same binary, which share the files but none of the locks, and
the update worker, a Bash process that replaces the binary and shares one lock
file and one status file with it.

The interface is single-threaded, but every `await` lets other handlers run, and
requests are answered in any order or not at all.  `App.vue` mounts one page at a time; a page
polls on a timer, loads on request and after each change, and an unmounted page's
answers reach nothing.  What must not be applied is told by a counter taken before the
request and compared after it (`revision`, `qrRevision`, `listRevision`, `request`).  All pages share the
session: any 401 signs the tab out.  The update dialog asks the server that its own job restarts.

What is hard about it: two readers of one counter; counters that restart at zero
with nothing but a smaller value or another identity to tell; saves that
take three steps while samples go on; a flag tested before and acted on after a
slow external command; a transaction over a file, a service and a JSON document
whose every step can fail; a sequence of iptables commands that stops half-way; a
worker that outlives, restarts and replaces the program that started it; a panel
that dies between any two of these; in the browser, an answer that arrives after the change
or the selection it does not know of, a request that is superseded and whose spinner
nobody lowers, a 401 that belongs to the session before, a form filled from a row that is saved meanwhile.

## 2. Modules

An `MC...` module gives TLC its instances, a `...Proofs` module
holds the theorems of a component, or of all that one `MC...` module composes.  Several `MC...` modules run more than one thing:

* `MCWeb` runs eight parts of the interface.  They share nothing but the session, so a behaviour is
  about one of them, named by a variable `scene` that never changes; the rest keeps its initial value.
  Each property of the harness is a component's, for its scene.
* `MCLogin` does the same with the limiter and the web session, `MCPanelUpdate` with
  the worker and the dialog.
* So do `MCProxyAccounting` (the proxy total, the applications, a JSON file), `MCEntryUsage` (the usage,
  the index, the schedule) and `MCEnforcement` (`QuotaControl` and the locks).
* `MCConfigApply` runs `ConfigApply` twice: a `quiet` behaviour has one base
  configuration, passing faults and the module's fairness, and is asked for liveness; the other has all
  faults and events, and is asked for safety.

The type invariant of a component is a conjunct of one of its properties
in the run or proved (`...Proofs`).  A definition `X_Y` is a variant of `X` with a defect named by `Y`; it is used by
no specification, and serves to show that a property notices the defect.

**`ProxyAccounting`** (`tracker.go`, `history.go`).  The core is a sequence of
process generations that relay bytes up and down; `Sample` is split where
the code can be interrupted (generation, counters, generation and apply), a save into snapshot,
commit and subtract-and-mirror.  `PanelRestart` loses everything but the database.
`state.credited` and `state.counted` are ghosts: what was added to the totals per
generation and to the history per day.  `blind` marks that a baseline was moved by
a reading whose process could not be identified (`readCoreGeneration` returns ""); such a reading
is allowed whenever `ReliableIdentity` is FALSE.
`UsageLedger` is its abstract specification: usage is recorded, saved as a whole, and lost
back to the last save by a crash.

**`QuotaControl`**.  Every goroutine is a thread with a program counter.  A tick of the
poll loop is a sample (with the persist and `reconcileCore` it makes when the quota
is reached) or `ReconcileQuota`; the vnStat worker fetches, publishes, saves and
decides; an HTTP thread resets, calibrates, restarts the core or changes the limit.
`reconcileCore` is lock, read the flag, probe the service, command.  Usage is a
number the environment chooses, and the relation between the proxy estimate and
vnStat is the subject of `EntryUsage`.  The restart of an HTTP thread (`RestartCore`) is outside
`controlMu`, as in the code; when a stop was raised since its last look at the flag, the core runs under it.
`reported` is a ghost for errors that were returned or logged, `overtaken` for such a restart, which reports nothing.

**`ConfigApply`**.  One configuration change or one pause reconciliation runs at a time,
step by step: persist, decide, back up, install, restart, roll back, restore, settle.
`Render` is an uninterpreted record of configuration and pause.  Faults are a
constant set; a fault disables or enables the failing branch of a step.  One
gateway stands for all of them, since the code treats them by set equality.
The command-line apply (`cli`) runs the same `Manager.Apply` in another process, which shares none of the panel's locks:
read the configuration and the checkpoint, read the file, write the backup, install, restart, and when that
fails read the backup, which may be the panel's by now, write it over the file, which may be newer, and restart again.
Any step may fail or be the last, and the panel's steps come between any two.
Ghosts say where the panel cannot know better: `astray` (the file is not what it
remembers installing: another process wrote it, a roll-back could not write or put back a copy that was
another process's, the panel died in a change; `astrayBackup` is the same of the copy) and `loose` (the service was left alone under a quota stop when its
file changed, or a restart with the old file failed too, the panel's or the command's).

**`GatewayAccounting`** (`accounting.go`, `egress.go`).  `gatewayMu` is held from the first
iptables command of an operation to its save, so the panel has one program
counter; the kernel is the other actor.  `Plan` is the list of commands that
`Accounting.Sample` decides on from its first snapshot (chains, stale rules, missing rules,
jumps), executed one by one, each of which may fail with or without its effect; a
second snapshot must be complete to be read.  `Sampled` is `sampleGateways`:
entries, baselines and `CounterDelta`.  A configuration change is `BeginEgressChange`, save,
persist, apply, `CommitEgressChange`.  A counter is identified by a *life*, which
ends when the rule is deleted or the counter is zeroed; the panel only sees the rule's generation and
the boot identity.  `credited` and `skipped` are ghosts per life.  `Dirs` may be one
direction or both.  `touched`, `unsaved` and `astray` are ghosts for what the
properties must except: somebody changed the chains since the snapshot, the
last save failed, a rejected configuration could not be taken back or a jump was copied while commands ran.

**`PanelUpdate`** (`manager.go`, `run_panel_update` and its helpers in `install.sh`).
Three actors share a lock file and a status file: the launcher (`Start`: lock, probe of the
unit, status, `systemd-run`, probe again, status), the reader (`Status`: read, try the lock,
read again, probe) and at most two workers, one started by systemd and one by an
administrator.  A worker is the Bash script from `flock` to the exit trap: prepare, fetch
and copy, replace the panel, replace the script, announce, restart, check, roll back, check the
old panel, write the result.  `before` and `spoiled` are ghosts: the pair of files when
the worker took the lock, and whether a file could once not be put back.

**`LoginLimiter`**.  The whole of `Limiter`: `Begin` and its finish callback, with a clock.

**`EntryUsage`** (`network.go`, `network_history.go`, `vnstat.go`).  `SampleNetwork` reads
settings and vnStat (`ReadSample`), then drops, refuses or publishes what it read
(`DropSample`, `RefuseSample`, `SampleFails`, `PublishSample`); settings, core samples, saves and a crash may
come in between.  A published state is computed in the order of the code: renew the
period, choose the source, measure, settle, anchor the estimate.  `db.sources` is
`network_source` with `network_bucket` and `network_baseline`; `pending` is the record of
the last sample until a save takes it.  vnStat, per interface, is a creation time, a total and
rows; it looks at the counters (`Records`), starts an empty database (`Recreate`), is set back
(`SetBack`) and forgets (`Prune`).  Ghosts hold what vnStat ever recorded on the
configured interface, per bucket and at each of its saves, and what the core samples had
brought in by then; `astray` marks a database that was set back and a
bucket that vnStat pruned after SBM saved it half full, which no reader could see.

**`WebSession`** (`App.vue`, `api.ts`, `LoginView.vue`).  A session is a number that names its cookie and
its token.  Requests sit in slots: each carries the cookie and the token of the moment
it was sent, is served by the server at one moment (`Serve`, `ServeLogin`) and received at another
(`Receive`), or fails (`Fail`); a `Set-Cookie` takes effect when it is received.  `Receive` is what `api()` and the
awaiting handler do with an answer: take the token, sign out on a 401 of a request that was made
signed in, mount a page.  The server ends sessions on its own (`SessionEnds`: expiry, a password changed elsewhere).
`asked` is a ghost: the user signed out and has not signed in since.

**`DashboardView`**.  A load has an origin (poll, refresh, mutate, calibrate), is sent, answered and, when the address
is new, draws a code before it is applied; it keeps `latest` instead of its number, since a number is only ever compared with the
current one.  `select` is a format whose code is being drawn.  Figures are a version the server
advances, the address a number.  `acked` is the newest change the user was told of.

**`EgressView`**.  One gateway with one editable field.  `run()` is a task that is sent,
served and followed by its own load; the form is a copy of a row, `derive` and `generate` ask for keys.  `acked`,
`kept` and `stands` are ghosts: the newest state and field value the user was told are saved, and the newest such value that
no change the user made has overwritten since.  `late` is the field of a change that the page gave up, because its
request was cut off, and that the server may still get and serve (`LateServed`).

**`TrafficPage`** counts time in steps of 5 s: the timer, the timeout, the age of the figures and what
`poll-status` makes of it.  **`HistoryView`** and **`AppsView`** keep a set of loads in flight, of which at most one
counts; a poll, a refresh, a selection, or a clear supersedes it.  `straddled` marks a first answer, made without
a range, that midnight overtook.

**`UpdateDialog`**.  `check`, `install` and `readProgress` against a server that a job restarts: any read may
fail, the answer to the launch may be lost although the job runs.  Jobs may be launched elsewhere.

**`AppAttribution`** (`apps.go`).  A sample adds to the proxy total and gives the bytes of every open
connection since the last sample to a row, as `recordConnections` does, by what it remembers of the connection
(`active`); the rest is `Unattributed`.  A restarted panel only takes note of what is open (`SeedOnly`), a core that
restarted has new connections.  A save takes the rows in three steps as in `ProxyAccounting` and
folds all but the largest `MaxRows` into `Other`.  `relayed` is a ghost, per
application what its connections relayed; `from` is the total at the last clear.

**`JSONFile`** (`store/json.go`, `config.go`, `runAdmin`).  A document is the set of changes made to it.  A save is
read, check and rename of the copy, write and rename, sync, each of which may fail or be the last; two processes load
and save without a lock.  A power failure may take back renames whose directory was not synced (`primaries`, `backups`).
`acked`, `overwritten` and `overlapped` are ghosts: what somebody was told is saved, what another process
replaced without having read it, and what was saved by two at a time.

**`BucketIndex`** (`vnstat.go`).  vnStat opens buckets of three widths, in a zone of its own, prunes them by age
and may be down for a while; `lookup` is `NewIndex`; `Sum` is the code's recursion,
unrolled over its three widths.  Bytes are
told apart by the tick they came in, so that a sum says which it counts and which it counts twice.

**`ResetSchedule`** (`tracker.go`, `network.go`).  `time.Date` and `time.In` over zones whose clocks change, `monthlyResetIn`,
`NextMonthlyReset`, `PreviousMonthlyReset` and `periodStart`, asked at each moment something could change and after absences.

**`LockOrder`**.  An operation is what it locks and unlocks, in order, with the parts that a condition or an early return may
leave out (`Maybe`), and the commands it runs meanwhile (`Command`): iptables, and the application of a configuration.
Every handler, loop and worker of the panel that takes one of the ten locks is there, composed from the same functions as the code.

**`SettingsPage`**: one copy of the settings, two buttons, saves that overlap.  **`DatePicker`**: the
three pickers, what their arrows do at the ends of the range, and the grid of six weeks.  **`QrCard`**: the wrapping of a
title, character by character, into two lines in the largest size that holds it.

## 3. Runs

| Run | Asks | Bounds |
|---|---|---|
| `accounting` | no byte twice, none skipped; history exact, marks kept; implements `UsageLedger`; the applications add up (`SharesAddUp`); a file keeps what was acknowledged (`FilesAreSound`) | 2 samplers (symmetric), 2 generations, 2 bytes, 2 days, identity readable; 2 applications, 2 connections, 2 core processes, 3 bytes, 1 row kept; 2 changes, 2 processes, 2 damages, 1 power failure |
| `quota_safety` | no unnoticed disagreement; no stop lifted by missing data; `LocksNeverBlock` | 3 threads: poll loop, vnStat worker, one handler; one external event; locks: 1 thread that enforces, 2 others, any operations |
| `quota_requests` | overuse is stopped, service restored | poll loop and one handler, under fairness |
| `apply_file` | file matches what is saved and recorded; a running core runs that file; where failures pass, pauses take effect | 2 configurations (the first is one of them: nothing tells them apart), every fault, 3 events of the environment, a command-line apply among them, any step of which may fail; quiet behaviours: 1 configuration, failing checks and restarts, under fairness |
| `pauses_stop_lifted` | a statement of a comment that the code does not keep, see 6 | no faults, crossings of the limit and quota stops |
| `gateway_bytes` | no byte twice; what was read was credited | 1 gateway, 2 addresses, 1 direction, 3 lives, 3 bytes, 3 events; zeroed counters, reboots, failing commands and saves |
| `gateway_chains` | healthy means counted; nothing forgotten; in the end cleaned up | both directions, no bytes, 4 lives, 3 events; flushed chains, displaced and doubled jumps, failing commands, saves and roll-backs, under fairness |
| `update` | the status is true; a failure changes nothing; nobody is declared gone who is not; the dialog watches what it shows as running, and stops showing it | 3 releases of which one does not serve, every fault, 3 events (requests, kills, restarts, reboots); dialog: 2 jobs; under fairness |
| `login` | budgets, bounds, blocks; token and cookie match, no sign-out is an expiry, the end of a session is noticed | limiter: 3 addresses, 3 logins, budget 2, table of 2, 5 clock values; tab: 2 requests in flight, 2 sessions, 1 reload, under fairness |
| `entry_usage` | usage never falls; nothing of elsewhere; exact unless flagged; estimate and history count once; `PeriodsAreExact`: the index and the periods | 2 interfaces, a reset schedule and none, 2 buckets and 3 clock readings around the reset, 1 byte through sing-box and 1 on the other interface per look of vnStat, 2 events (database lost, set back or pruned after the first sample, change of settings, manual reset, failed read or save, crash), and 3 on one interface without core samples and manual resets; index: 18 ticks, widths 8, 4 and 2, days of two zones, 2 creations, 2 retentions, one outage; schedule: January 2027 to March 2029 in 6 zones, days 1, 5, 28 and 31, hours 0 and 2, absences of up to 73 days |
| `web` | `NothingOlder` (overview, gateways); `KeysMatch`, `SavedIsKept` (gateways); `TabsAreTrue` (traffic, history, applications); `LoadingEnds` (applications); `PickerIsSound`; `SectionsSaveAlone`; `TitleFits` | 2 formats, 2 addresses, 1 change; 2 keys, 2 changes of the list, 2 values of the field; poll every 3, timeout 2, stale after 3 steps of 5 s; 2 periods, 2 loads in flight, 1 clear, one table with an application of each class; 5 dates (ends of the range, a year's end, leap days) and 1 midnight; 2 values, 2 saves; names of up to 7 characters of widths 0, 1 and 2 on lines of 12, sizes 4 to 2 |
| `egress_save_reverted` | an assertion of a test that a failing reload breaks, see 6 | 1 key, 2 changes, 2 values |

Why these are enough: the hazards are about the order of two actors and one
failure between two steps, so two samplers, two generations, two days (one that is
being saved and one that began since), one request beside the two background
threads and two configurations (the old and the new) show each of them; the cfg files
name every bound.  Bytes are bounded in total: one for a baseline and one or two that pass it,
in the same or another generation or life.  A gateway needs one event to be
configured, one to change and one to be interrupted; an update one to be asked
for, one kill and one more actor.  Login needs three addresses for a table of two to overflow.
In the browser an answer overtakes one other: two loads, one change between them.  The periods of
the traffic page are those of the code, 15, 10 and 15 s.  The picker's days are those around which its arithmetic has
its cases; `MCYears` holds every year its steps reach from them.  A title of seven characters
of which some are wide fills two lines and needs the ellipsis.

Fairness.  Goroutines that hold no lock somebody else waits for for ever make
progress, because every external call has a deadline; Go mutexes are starvation
free and `select` picks at random among ready channels, hence strong fairness of a
thread's next step and of the 15 s tick.  That systemctl, iptables or a check
succeeds again and again is an assumption on the environment, stated in `Fairness`
of each module: without it nothing can be promised.  For an update, only that
commands and downloads end and that the page polls while the panel serves; none
needs to succeed.  In the browser, timers keep firing and each request ends, by its
answer or its `AbortSignal`; strong fairness of receiving an answer says that a server that is asked again and again
answers in the end, and for the applications tab that it does so within a poll's 10 s, since the next poll
supersedes the load.  Nothing is expected of the user.

Why the bounds of the pure parts are enough: the widths of the index are scaled, but each still holds two of the next, so
that a request begins and ends inside, at and across buckets of every width, and its lookups find them pruned, missing or split
by the zone; the schedule's zones have changes of the clocks on both hemispheres, at two in the night and at
midnight, a half-hour offset and a leap year.  Three threads close every circle
of up to three locks; one of four locks is not looked for.

Deadlock is checked everywhere but in `update`, where a worker killed after it installed a release that
does not serve leaves only an administrator to act, whose actions are bounded, and in
`entry_usage`, whose clocks end, and in `accounting`, where a panel whose only file is damaged before its first save does not start.

## 4. Proofs

The `*Proofs` modules hold theorems for every value of the constants that meets the
module's named assumption.  A module that proves about a composition (`MC...`) first shows that each of its behaviours is one of
every part (`LoginIsItsParts`, `WebIsItsParts`, `EnforcementIsItsParts`, `SceneIsAPart`), so that what the run checks,
and not only the part's own specification, is what is proved.  None of the properties below is inductive; what each
invariant adds is the argument.

* `ProxyAccountingProofs`.  `TypeCorrect`, `HistoryIsExact`, and under
  `ReliableIdentity` `CountedOnce` and `NoneSkipped`; `ImplementsLedger`.  The invariant adds
  what is known of every copy of the state - live, in a save, in the database - namely that its totals are the sum of its
  ghosts and its baseline is a value the generation did relay, and that a reading in progress
  lies between the baseline and what has been relayed.
  `MirrorAlwaysBehind` and `MarksAlwaysSurvive` add that totals only grow from the mirror through the table and the snapshot
  to the live state, and that a save that is committed is what the table holds (`SavingInv`).
  `FilesSoundInBothScenes` is about the files: each file a power failure may leave, and each place of a save,
  has what was acknowledged, and the copy lost no more than the damages there were (`FileInv`).
  `SharesAlwaysAddUp` has four parts (`AppInv`): what the open connections relayed, the
  process has (`CoreCounts`); the rows of the tables, of the save and of the buffer sum to the totals of
  the same moment (`RowsAddUp`); and what is still due to the open connections fits, application by application, beside what was listed and
  cleared - for the live state, and for the saved one from which a restarted panel would attribute anew
  (`NoneTwice`).  Applications are any finite set.
* `QuotaControlProofs`.  `TypeCorrect` and `NeverUnnoticedHolds`: the invariant relates
  program counters to the locks, and says of a core that runs under a stop without an error that a
  correction is on its way or a restart has overtaken the stop (`overtaken`).  `SavedStopAlwaysKept`.  `LocksNeverBlockHolds`: every operation takes its locks in the one order
  of `Rank`, which is shown of each path through each operation, and holds none that an enforcer
  may ask for while its command runs; so the highest lock of a circle has no owner, for any number of threads.
* `ConfigApplyProofs`.  `TypeCorrect`, `InstalledAlwaysMatches` and `RunningAlwaysSaved`.  The
  invariant says for each place of a change which of file and backup carries the
  rendering before and after the change, which makes the roll-back land on the
  recorded one, and that outside of a restart and a roll-back a service that runs, runs its file.  Every step of the command is a step
  of the same invariant: what it writes is `astray`, in the file and in the copy, until the panel writes again, and what
  it fails to restart is `loose`.
* `GatewayAccountingProofs`.  `NeverCountedTwice` and `EveryReadingCredited`: a baseline that still stands - same generation and
  boot, value not above the counter - was read from the very life whose rule is there, in memory as in the
  save, and lives nobody has seen have no credit (`BooksOK`); the commands still to be run never append a rule that is there (`TodoOK`).
  `NothingIsForgotten` and `HealthyGatewaysAreCounted` add that the commands left are enough to make the wanted chains from those
  there are (`TodoEnough`), and what memory and the save remember at each place of a change
  (`Remembers`).  For any finite set of gateways, any addresses, and any number of lives, bytes and events.
* `LoginProofs`.  `TypeCorrect`, `BudgetAlwaysKept`, `TableAlwaysBounded`,
  `BlockAlwaysHolds`, from one invariant that counts slots by address; `TokenAlwaysMatches` and `SignOutNeverExpires`,
  for slots and sessions that are numbers.  A late answer is the danger, so the invariant says for every
  request what its answer, if it has one, would do: which cookie it sets, whose token it carries, and
  that no request of a session that was signed out of is left that could report an
  expiry.  `LoginsAlwaysLimited` and `SessionIsAlwaysTrue` are the two properties of `login`.
* `PanelUpdateProofs`.  `TypeCorrect` (with it: whoever works holds the lock),
  `StatusAlwaysTracksWork`, `SuccessIsInstalled`, `RollBackIsRestored`,
  `FailureChangesNothing` and `InterruptionMeansGone`, together `StatusAlwaysTrue`, which the
  run checks, for any set of releases and faults and any number of kills and reboots.  What a status says was established several steps
  before it is written, so the invariant says for each place of the worker what is installed,
  what the backups hold, what the script's flags are and which panel runs.  `SpinnerAlwaysWatched` is the dialog's.
* `WebProofs`, the pages.  At most one load still counts, and its answer, once there, is no older than what is shown
  nor than what the user was told (`NothingOlderOnThePages`); a load that
  counts is of what is selected, and knows of every clear (`TabsAreTrueOnThePage`, for the applications `AppsAreSelected`); the age of figures was looked at when
  the timer fired or a request ended, whichever was later (`PollInv`); a field the user was told of is in every row that is
  not known to be stale (`SavedIsKeptOnThePage`); a key under way is that of the form it will be shown
  in (`KeysMatchOnThePage`); what a save carries for its section is what its button
  was pressed with (`SectionsSaveAloneOnThePage`); and every day the picker knows is a date whose year is in
  range (`PickerIsSoundOnThePage`), for any range of years.
* `EntryUsageProofs`.  `EstimateCountsOnceInTheScenes`: a mark holds everything sampled before the next one
  (`MarksHold`), and an anchor, live and saved, holds everything sampled up to its instant or later (`Anchored`); an instant that does
  not come again cannot be added to (`Settles`).
  `UsageIsNeverInvented`, `CompleteUsageIsExact`, `HistoryIsRecorded` and `MeasuredUsageNeverFalls`, together
  `UsageHoldsInTheScenes`, are about sums over buckets that several sources share.  `UsageInv` compares every bucket the panel may
  ever sum - in vnStat's database, in `traffic.db`, in a record still to be saved - with what
  vnStat recorded on the configured interface between two instants: the bucket holds no more than
  that of the part its source answers for, and exactly that unless something went `astray`.  The
  sources answer for stretches that lie apart, and the figures of the state and of the checkpoint are sums of such stretches.
  That this is kept takes four more facts: a source ended before the next begins, even where a crash made the
  panel forget it; a recreated database begins after all that was taken of the old one; what vnStat pruned was whole when it was
  taken; and a generation is numbered anew at most once an accident.  For any interfaces, schedules,
  clock readings, bytes and number of accidents.

Sums.  What a recursive definition computes cannot be proved here by induction over a predicate.  `SharesAlwaysAddUp` needs no
more than sums over finite sets, and these have their own lemmas in `ProxyAccountingProofs`: the
least natural number that would be a counterexample, and a set of subsets in place of the predicate, give
`SubsetInduction` and `RecIs`, and from those what a sum does when a value changes (`TotalChanged`), a member joins (`TotalAdds`), values are
compared (`TotalWithin`, `TotalLess`) or connections are grouped by application (`TotalGrouped`).
`EntryUsageProofs` has the same induction for sums over buckets and sources, and from it what intervals that lie apart hold
together: at most what lies between the first and the last instant (`SumWithin`), and without a gap all of it (`SumCovers`).

The proofs changed the models in six places, each checked again.  `SavedIsKept` compared with the newest value ever acknowledged,
and with three values it failed once a change that the user knew to start from an old list had been acknowledged in between; it now compares with
what still stands (`stands`).  `OutageShown` promised the warning after an interval and a timeout and held only because the steps
of 5 s hid the difference: figures go unlooked-at until the poll after the one at which
they were not yet old, an interval and the stale age.  A trimmed list of marks keeps its last one however old it is, as the code does
(`Trimmed`).  `HealthyIsCounted` holds of every gateway shown
as healthy, not only of one whose last reading was of its present address; what remains is a rejected configuration that stays (`astray`).
vnStat does not save at the clock reading at which SBM turned to another source (`Records`): what it recorded in such a save would lie before and after
an instant that in the code has a position within the second, and in the model is one number.
And `MeasuredNeverFalls` excepts another schedule after vnStat was set back or pruned a bucket that SBM held half full: the new
period is summed from what is left, none of it is flagged, and it may be less than what was counted.

Only model-checked: everything under fairness (`PausesFollowUsage` and the other liveness properties; liveness and ENABLED are beyond the
prover); `PeriodsAreExact`, about three nested widths and calendars with daylight saving;
`TitleFits`, about a wrapping that is computed by folds.

## 5. Abstractions

* Two systemctl commands overlap only as far as their effects do; a command that reports
  failure may have had its effect.
* `captureTraffic` at the start of a handler is a sample of its own thread before the
  handler's request.
* `ProxyAccounting` leaves out the monthly roll-over, and the buffers for hours,
  gateways, apps and vnStat rows that a save carries with the days in the same
  transaction and the same way.
* A reading without generation can count bytes twice or skip them (a core
  that restarted unnoticed with larger counters cannot be told apart); the ghosts
  say where the properties stop to apply, and the proofs assume `ReliableIdentity`.
* `MutateDecide` takes the configuration for applied when its rendering did not change; an apply under a stop that was raised
  after its caller read the flag (`flag` in `ConfigApply`) starts the core as `RestartCore` does in `QuotaControl`.
* The command of `ConfigApply` reads the configuration and the checkpoint in one step, and there is one at a time.
* `quota_requests` leaves the vnStat worker out: with it the state space is beyond a liveness check.
* `ConfigApply` assumes that a core file exists (`hadOld`), and leaves out the host firewall
  and the health cache, which a change touches after it is done.
* `GatewayAccounting` takes iptables as external: a command acts on the chains or is
  refused.  A counter that was zeroed under its rule and has passed its last
  reading again hides bytes, which no reader could see; `skipped` accounts for them.
  `Accounting.Sample` does not repair a jump that is copied while its commands run; `astray` excepts it.
* `PanelUpdate` takes a kill as a SIGKILL of the whole unit or, from the menu, of the shell alone,
  whose child (the finishing script) may live on with the lock; downloads and verification are one
  step; phases and times of the status are only shown and are left out.
* `EntryUsage` counts RX and TX as one, has one bucket width (`BucketIndex` has three), and leaves out billing factors and
  calibration.  All traffic of the configured interface is sing-box's.  Clock readings fall between bucket
  boundaries, so a reset at the very instant of a sample is not exercised.  vnStat does not save
  at the reading at which SBM turned to another source (section 4).  The clock and vnStat stand still
  while a snapshot is worked on, which takes a fraction of a clock step; a save comes with its change or
  fails, which is an event.  The interface is changed only after a sample of the present one was saved:
  `SampleNetwork` cannot notice an interface that was away and back between two samples.  Samples of the
  poller that would find everything as it was are left out.
* `ConfigApply` has no recovery for a panel that dies in a change: the core keeps the
  file of a configuration that was not saved, or the other way round, until the next change or restart applies (`astray`).
* The pages are their state and what arrives when.  Figures, lists and tables are version numbers; texts, toasts,
  charts and layout are left out.  The update dialog aside, a page belongs to one tab: what another tab does to the
  server is a new version of what is listed, and in `EgressView` never a save of the field, of which the last writer wins.  What a page unmounts is not represented, a mount is the beginning.
  `DashboardView` leaves out the server's status (`loadServer`), which has no counter and nothing to compare with.
  `EgressView` has one gateway and one field that stands for all that can be edited; the form's copy
  of the rest travels with it.  The list is never empty, so the button of an empty list (`EgressView.vue:103`), which unlike the one of the page's head is not
  disabled while a change runs, has no part.  `SettingsPage` has the two sections that share a copy.
* `AppAttribution` has one direction and one table for the two of each, takes a sample as one step and the
  core's answer as one consistent reading of its total and its connections.
* `JSONFile` takes a directory whose sync fails for one that was synced (the code ignores it), and damages a file between saves only.
* `ResetSchedule` leaves out `UpdateSchedule`, which computes the same reset when the settings change.
* `LockOrder` allows every combination of its conditions, so some of its paths cannot happen; it leaves out locks under which nothing
  else is waited for (`Tracker.mu`, those of the stores, the rules, the release check and the limiter), `ReconcileGateways`,
  which runs before the loops start, and deadlines.
* `DatePicker` takes JavaScript's `Date` as the Gregorian calendar that its local
  constructor computes with, and `QrCard` takes `measureText` as a sum over the characters.
* A 401 in `WebSession` comes from the cookie alone; a wrong token is answered 403 as in the server's middleware.
* Two things `EntryUsage` shows and its properties except.  A bucket that SBM saved half full, and that vnStat
  pruned before the next sample, is summed as a whole one and nothing is flagged (`astray`), although
  `internal/nettraffic/vnstat.go:197` says that missing fragments are.  And `resetNetwork` goes on with the
  last sample when its own was dropped because the settings changed meanwhile (`DropSample`), although
  `network.go:341` asks for a fresh one; what was recorded in between is then counted in the new period,
  which begins at that last sample.

## 6. Where comments and code part

* `internal/traffic/egress.go:149` says that the recorded pauses are those of the
  running core.  Under a quota stop a change installs the file without a restart
  and records it; if the stop is lifted before the core was stopped, the core that
  kept running has the old pauses and nothing restarts it (`pauses_stop_lifted`).
* `web/scripts/egress-race-unit.mjs:49` asserts that a later change of a gateway does not write
  an old field back.  The page keeps this by reloading after each change; when that reload fails, the row from
  before the save stays and its switch sends the whole of it (`egress_save_reverted`).  With that
  exception the property holds (`SavedIsKept`).
* `cmd/sbm-panel/main.go:184` says that a running panel corrects the pauses a command-line apply
  rendered.  It compares with its own record only, so it does not when the command
  read the checkpoint before the gateway crossed its limit and installed after the panel had: the core runs without a pause that
  is recorded as applied, until the next change.  `ConfigApply` has the behaviour; its properties except it (`astray`), and no run is kept for it.
* The same command shares no lock with the panel in any other step.  When its restart fails, it writes the copy it finds over the file, which
  the panel may have installed and recorded meanwhile, and restarts again; when that fails too, or a step cannot write, the file or the
  process of the command stays.  The panel does not look.  `InstalledMatches` and `CoreRunsSaved` except this (`astray`, `loose`) until
  the panel applies its next change, which ends it.
* The restart button looks at the flag a last time (`server.go:593`), saves, and restarts the core outside `controlMu` (`:601`); `Manager.Apply` does
  so with the flag its caller read (`:814`, `:848`).  A stop raised and enforced in between is undone, the answer is 200, and no error is logged.  The next
  `ReconcileQuota` of the loop, within 15 s, stops the core again (`OveruseStopped`); until then it is the exception `overtaken` of `NeverUnnoticed`.
* A change of a gateway whose request is cut off is given up by the page, but may be served after the user has saved another: the older value is then
  written back, although no reload failed (`late`, an exception of `SavedIsKept`; `api.ts:31` only knows that no answer came).
* When the answer to a launch is lost while the read made on mount is under way, `install` does not read again (`PanelUpdate.vue:43`), and if that read answers with a
  failed job of before, the dialog shows it as the outcome and stops its timer (`:55`) although the new job runs.  Trying again finds the job.  `SpinnerIsWatched` is about jobs shown as running and
  does not forbid it.
* Both sections of the settings are sent as they were loaded when the page was mounted, so one tab undoes what another saved in the same section; `SectionsSaveAlone` is about one tab.
* `sbm-panel admin` and the running panel save `config.json` without a lock, each what it loaded last: the last writer
  replaces the other's change (`overwritten` in `JSONFile`).
* Usage that is cleared less than a save before a crash comes back as unattributed: the clear deletes the tables at once, and the
  total goes back to the last save (`from` in `AppAttribution`).
* `time.Date` moves a wall clock that does not exist by the width of the gap; to which side depends on the zone.  West of Greenwich, a gap at midnight of a
  first makes it the last of the month before, and `NextMonthlyReset` could return a reset that is past (excluded by
  `ScheduleAssumption`); at midnight of another reset day the reset comes an hour early, on the day before (`ResetsAsAsked` allows an hour).
* `DashboardView` has, and its properties do not forbid, that a format selected while a load draws the code of a new
  address leaves the code of the old one: `selectSubFormat` (`DashboardView.vue:110`) takes the address from the figures still
  shown, and the load (`:133`) then drops its own drawing.  The next selection or address corrects it.

## 7. Plan

In this order:

1. `ProtocolsView`: the list and form of `EgressView` without its guard, against the handlers of inbounds.
2. `EgressCredentials` (`internal/protocol/egress.go`): the credentials that survive edits of gateways and inbounds.
3. `UpdateSchedule` in `ResetSchedule`, and the proxy-only period in `ProxyAccounting`.
4. Proofs: `QrCard` (`TitleFits`), the periods of `ResetSchedule`, and the new modules as they come.
