---------------------------- MODULE QuotaControl ----------------------------
(***************************************************************************)
(* internal/traffic: raising and lifting the quota stop, and making the    *)
(* sing-box service follow it.                                             *)
(*                                                                         *)
(* The poll loop, the vnStat worker and the HTTP handlers all measure      *)
(* usage, write the QuotaExceeded flag under t.mu and then reconcile the   *)
(* service with it under controlMu.  Between the reading of the limit, the *)
(* decision, the save and the systemctl command every one of them can be   *)
(* overtaken by the others; a command or a save may fail; the panel may    *)
(* die and be opened on its last save; the service may fail by itself.     *)
(*                                                                         *)
(* Usage is the billed entry usage, estimate included (entryUsageLocked).  *)
(***************************************************************************)
EXTENDS Naturals

CONSTANTS
  Poll,        \* the loop of Tracker.Run, and the startup code of runServe
  Workers,     \* the vnStat worker, runNetworkSource
  Handlers,    \* goroutines serving HTTP requests
  Nobody,      \* "the mutex is free"
  MaxUsage,    \* bound: billed usage considered, in units of the limits
  MaxEvents    \* bound: HTTP requests and panel restarts considered

Threads == {Poll} \cup Workers \cup Handlers
Usages  == 0..MaxUsage
NoLimit == 0
Limits  == {NoLimit} \cup 1..MaxUsage

ASSUME QuotaAssumption == /\ Nobody \notin Threads
                          /\ Poll \notin Workers \cup Handlers
                          /\ Workers \cap Handlers = {}
                          /\ MaxUsage \in Nat \ {0}
                          /\ MaxEvents \in Nat

VARIABLES
  usage,        \* billed entry usage, as entryUsageLocked computes it
  source,       \* vnStat: nothing recorded yet; no data for this period; last
                \* saved counters shown; healthy
  limit,        \* the stop threshold in the configuration, 0 for none
  exceeded,     \* Tracker.state.QuotaExceeded
  core,         \* the sing-box unit runs
  sampleMu,     \* holder of Tracker.sampleMu
  networkLock,  \* holder of the lock of the entry source
  controlMu,    \* holder of Tracker.controlMu
  shouldExceed, \* the flag as the holder of controlMu read it
  pc,           \* where every goroutine is
  seen,         \* the limit it has read from the configuration
  after,        \* what it does when its call returns
  db,           \* the checkpoint a new panel process starts from
  reported,     \* history: an error was returned, the unit failed by itself or the
                \* panel was opened, since a reconciliation last finished with the
                \* current flag
  overtaken,    \* history: since then a restart has started the core under a stop
                \* that was raised after the restart had looked
  events        \* history: requests and panel restarts so far

measured == <<usage, source>>
mutexes  == <<sampleMu, networkLock, controlMu, shouldExceed>>
outside  == <<limit, core, db, reported, overtaken, events>>
vars == <<usage, source, limit, exceeded, core, sampleMu, networkLock, controlMu,
          shouldExceed, pc, seen, after, db, reported, overtaken, events>>

Places == {"idle", "sample", "apply", "want", "fetch", "saveControl", "saveQuota",
           "saveZeroed", "saveRestart", "scheduled", "quota", "decide", "control",
           "probe", "command", "zero", "restart"}

Saved == [usage |-> usage, source |-> source, exceeded |-> exceeded]

\* A panel that has just been opened: runServe samples vnStat and reconciles
\* before it starts the workers.
Opened ==
  /\ sampleMu' = Nobody /\ networkLock' = Nobody /\ controlMu' = Nobody
  /\ shouldExceed' = FALSE
  /\ pc' = [t \in Threads |-> IF t = Poll THEN "want" ELSE "idle"]
  /\ seen' = [t \in Threads |-> NoLimit]
  /\ after' = [t \in Threads |-> IF t = Poll THEN "quota" ELSE "return"]

Init ==
  /\ usage = 0
  /\ source = "none"
  /\ limit \in Limits
  /\ exceeded = FALSE
  /\ core \in BOOLEAN
  /\ sampleMu = Nobody /\ networkLock = Nobody /\ controlMu = Nobody
  /\ shouldExceed = FALSE
  /\ pc = [t \in Threads |-> IF t = Poll THEN "want" ELSE "idle"]
  /\ seen = [t \in Threads |-> NoLimit]
  /\ after = [t \in Threads |-> IF t = Poll THEN "quota" ELSE "return"]
  /\ db = Saved
  /\ reported = TRUE
  /\ overtaken = FALSE
  /\ events = 0

At(t, place)   == pc[t] = place
Goes(t, place) == pc' = [pc EXCEPT ![t] = place]

\* The deferred unlocks of a call that returns.
Unlocks(t) ==
  /\ sampleMu' = IF sampleMu = t THEN Nobody ELSE sampleMu
  /\ networkLock' = IF networkLock = t THEN Nobody ELSE networkLock
  /\ controlMu' = IF controlMu = t THEN Nobody ELSE controlMu
  /\ shouldExceed' = IF controlMu = t THEN FALSE ELSE shouldExceed

Finishes(t, place) ==
  /\ Goes(t, place)
  /\ Unlocks(t)
  /\ seen' = [seen EXCEPT ![t] = NoLimit]
  /\ after' = [after EXCEPT ![t] = "return"]

\* A call returns: the handler zeroes the period or reconciles, if that is what
\* it called SampleNetwork for.
Returns(t) == Finishes(t, CASE after[t] = "zero"   -> "zero"
                            [] after[t] = "quota"  -> "quota"
                            [] after[t] = "return" -> "idle")

\* The same with an error, which stops resets and calibrations only.
Fails(t) == Finishes(t, IF after[t] = "quota" THEN "quota" ELSE "idle")

Request(t) == /\ t \in Handlers
              /\ events < MaxEvents
              /\ events' = events + 1

-----------------------------------------------------------------------------
(* Tracker.Sample, as far as the quota goes *)

SampleBegin(t) ==
  /\ At(t, "idle")
  /\ sampleMu = Nobody
  /\ \/ t = Poll /\ UNCHANGED events
     \/ Request(t)
  /\ sampleMu' = t
  /\ Goes(t, "sample")
  /\ UNCHANGED <<measured, exceeded, networkLock, controlMu, shouldExceed, seen, after,
                 limit, core, db, reported, overtaken>>

\* ErrSampleUnavailable: Run reconciles at once, unless the stop explains it.
SampleUnavailable(t) ==
  /\ At(t, "sample")
  /\ Finishes(t, IF t = Poll /\ ~exceeded THEN "quota" ELSE "idle")
  /\ UNCHANGED <<measured, exceeded, outside>>

SampleRead(t) ==
  /\ At(t, "sample")
  /\ seen' = [seen EXCEPT ![t] = limit]
  /\ Goes(t, "apply")
  /\ UNCHANGED <<measured, exceeded, mutexes, after, outside>>

\* networkOverLimitLocked
OverLimit(used, stop) == stop # NoLimit /\ source # "none" /\ used >= stop

\* A core sample may raise the stop, never lift it.
SampleApply(t) ==
  /\ At(t, "apply")
  /\ usage' \in IF source = "none" THEN {usage} ELSE usage..MaxUsage
  /\ LET over == OverLimit(usage', seen[t]) IN
       /\ exceeded' = (exceeded \/ over)
       /\ IF over
          THEN /\ Goes(t, "saveControl")
               /\ seen' = [seen EXCEPT ![t] = NoLimit]
               /\ UNCHANGED <<mutexes, after>>
          ELSE Returns(t)
  /\ UNCHANGED <<source, outside>>

-----------------------------------------------------------------------------
(* Tracker.SampleNetwork *)

VnStatBegin(t) ==
  /\ At(t, "idle")
  /\ Goes(t, "want")
  /\ UNCHANGED <<measured, exceeded, mutexes, seen, after, outside>>

VnStatLock(t) ==
  /\ At(t, "want")
  /\ networkLock = Nobody
  /\ networkLock' = t
  /\ Goes(t, "fetch")
  /\ UNCHANGED <<measured, exceeded, sampleMu, controlMu, shouldExceed, seen, after, outside>>

\* networkFailure: the last saved counters stay in force.
VnStatFail(t) ==
  /\ At(t, "fetch")
  /\ source' = IF source = "healthy" THEN "stale" ELSE source
  /\ Fails(t)
  /\ UNCHANGED <<usage, exceeded, outside>>

\* The interface or the reset rule changed during the query: not an error.
VnStatDiscard(t) ==
  /\ At(t, "fetch")
  /\ Returns(t)
  /\ UNCHANGED <<measured, exceeded, outside>>

\* New counters, a new period, a new source: usage is measured again.
VnStatApply(t) ==
  /\ At(t, "fetch")
  /\ usage' \in Usages
  /\ source' \in {"missing", "stale", "healthy"}
  /\ Goes(t, "saveQuota")
  /\ UNCHANGED <<exceeded, mutexes, seen, after, outside>>

-----------------------------------------------------------------------------
(* Tracker.persist, at the places where a decision depends on it *)

SaveOk(t) ==
  /\ pc[t] \in {"saveControl", "saveQuota", "saveZeroed", "saveRestart"}
  /\ db' = Saved
  /\ Goes(t, CASE At(t, "saveControl") -> "control"
               [] At(t, "saveRestart") -> "restart"
               [] At(t, "saveQuota")   -> "quota"
               [] At(t, "saveZeroed")  -> "quota")
  /\ UNCHANGED <<measured, exceeded, mutexes, seen, after, limit, core, reported, overtaken,
                 events>>

\* Enforcement goes on after a failed save; the error is returned later.
SaveFailed(t) ==
  /\ pc[t] \in {"saveControl", "saveQuota"}
  /\ Goes(t, IF At(t, "saveControl") THEN "control" ELSE "quota")
  /\ after' = [after EXCEPT ![t] = IF @ = "zero" THEN "return" ELSE @]
  /\ UNCHANGED <<measured, exceeded, mutexes, seen, outside>>

\* A reset, a calibration and a restart give up instead, and say so.
SaveRefused(t) ==
  /\ pc[t] \in {"saveZeroed", "saveRestart"}
  /\ Fails(t)
  /\ reported' = TRUE
  /\ UNCHANGED <<measured, exceeded, limit, core, db, overtaken, events>>

-----------------------------------------------------------------------------
(* Tracker.ReconcileQuota *)

\* The 15 second ticker of Run.
Tick ==
  /\ At(Poll, "idle")
  /\ Goes(Poll, "quota")
  /\ UNCHANGED <<measured, exceeded, mutexes, seen, after, outside>>

QuotaRead(t) ==
  /\ At(t, "quota")
  /\ seen' = [seen EXCEPT ![t] = limit]
  /\ Goes(t, "decide")
  /\ UNCHANGED <<measured, exceeded, mutexes, after, outside>>

\* Defects: a stop is never lifted; missing vnStat data lifts it.
Decision_Sticky(stop) == stop # NoLimit /\ (usage >= stop \/ exceeded)

Decision_ForgetsStop(stop) == stop # NoLimit /\ usage >= stop

\* Missing source data must not clear a safety stop.
Decision(stop) ==
  /\ stop # NoLimit
  /\ usage >= stop \/ (source \in {"none", "missing"} /\ exceeded)

\* A defect: the core is reconciled only when the flag has changed.
QuotaDecide_OnChange(t) ==
  /\ At(t, "decide")
  /\ exceeded' = Decision(seen[t])
  /\ IF exceeded' = exceeded
     THEN Returns(t)
     ELSE /\ Goes(t, "saveControl")
          /\ seen' = [seen EXCEPT ![t] = NoLimit]
          /\ UNCHANGED <<mutexes, after>>
  /\ UNCHANGED <<measured, outside>>

\* Only a change is saved; the core is reconciled in any case.
QuotaDecide(t) ==
  /\ At(t, "decide")
  /\ exceeded' = Decision(seen[t])
  /\ Goes(t, IF exceeded' # exceeded THEN "saveControl" ELSE "control")
  /\ seen' = [seen EXCEPT ![t] = NoLimit]
  /\ UNCHANGED <<measured, mutexes, after, outside>>

-----------------------------------------------------------------------------
(* Tracker.reconcileCore *)

\* A defect: the flag is read, and then controlMu is waited for.
ControlEnter_FlagFirst(t) ==
  /\ At(t, "control")
  /\ controlMu = Nobody
  /\ controlMu' = t
  /\ shouldExceed' \in BOOLEAN
  /\ Goes(t, "probe")
  /\ UNCHANGED <<measured, exceeded, sampleMu, networkLock, seen, after, outside>>

\* controlMu is taken first and the flag is read under it.
ControlEnter(t) ==
  /\ At(t, "control")
  /\ controlMu = Nobody
  /\ controlMu' = t
  /\ shouldExceed' = exceeded
  /\ Goes(t, "probe")
  /\ UNCHANGED <<measured, exceeded, sampleMu, networkLock, seen, after, outside>>

\* Nothing is left to report once the flag that was enforced is the current one.
Settled ==
  /\ reported' = (reported /\ shouldExceed # exceeded)
  /\ overtaken' = (overtaken /\ shouldExceed # exceeded)

\* core.Active answers.
ProbeAnswered(t) ==
  /\ At(t, "probe")
  /\ IF core = ~shouldExceed
     THEN Returns(t) /\ Settled
     ELSE Goes(t, "command") /\ UNCHANGED <<mutexes, seen, after, reported, overtaken>>
  /\ UNCHANGED <<measured, exceeded, limit, core, db, events>>

\* systemd cannot be asked: a stop is issued all the same, a start is not.
ProbeUnreadable(t) ==
  /\ At(t, "probe")
  /\ IF shouldExceed
     THEN Goes(t, "command") /\ UNCHANGED <<mutexes, seen, after, reported>>
     ELSE Fails(t) /\ reported' = TRUE
  /\ UNCHANGED <<measured, exceeded, limit, core, db, overtaken, events>>

CommandDone(t) ==
  /\ At(t, "command")
  /\ core' = ~shouldExceed
  /\ Returns(t)
  /\ Settled
  /\ UNCHANGED <<measured, exceeded, limit, db, events>>

\* systemctl reports an error, or its caller goes away; it may have worked.
CommandFailed(t) ==
  /\ At(t, "command")
  /\ core' \in {core, ~shouldExceed}
  /\ Fails(t)
  /\ reported' = TRUE
  /\ UNCHANGED <<measured, exceeded, limit, db, overtaken, events>>

-----------------------------------------------------------------------------
(* HTTP handlers *)

\* resetTraffic and calibrateTraffic start from a fresh vnStat sample.
ZeroRequest(t) ==
  /\ At(t, "idle")
  /\ Request(t)
  /\ Goes(t, "want")
  /\ after' = [after EXCEPT ![t] = "zero"]
  /\ UNCHANGED <<measured, exceeded, mutexes, seen, limit, core, db, reported, overtaken>>

\* The source broke down after that sample.
ZeroRejected(t) ==
  /\ At(t, "zero")
  /\ networkLock = Nobody
  /\ source # "healthy"
  /\ Goes(t, "idle")
  /\ UNCHANGED <<measured, exceeded, mutexes, seen, after, outside>>

\* resetNetwork lifts the stop; what is left of usage is the estimate.
ResetApply(t) ==
  /\ At(t, "zero")
  /\ networkLock = Nobody
  /\ source = "healthy"
  /\ networkLock' = t
  /\ usage' \in Usages
  /\ exceeded' = FALSE
  /\ Goes(t, "saveZeroed")
  /\ UNCHANGED <<source, sampleMu, controlMu, shouldExceed, seen, after, outside>>

\* CalibrateEntryUsage sets usage and leaves the stop to ReconcileQuota.
CalibrateApply(t) ==
  /\ At(t, "zero")
  /\ networkLock = Nobody
  /\ source = "healthy"
  /\ networkLock' = t
  /\ usage' \in Usages
  /\ Goes(t, "saveZeroed")
  /\ UNCHANGED <<source, exceeded, sampleMu, controlMu, shouldExceed, seen, after, outside>>

\* updateTrafficSettings: the new limit is in force once saveConfig returns.
SettingsRequest(t) ==
  /\ At(t, "idle")
  /\ Request(t)
  /\ limit' \in Limits
  /\ Goes(t, "scheduled")
  /\ after' = [after EXCEPT ![t] = "quota"]
  /\ UNCHANGED <<measured, exceeded, mutexes, seen, core, db, reported, overtaken>>

\* UpdateSchedule saves; if that fails the handler returns at once.
ScheduleSaved(t) ==
  /\ At(t, "scheduled")
  /\ db' = Saved
  /\ Goes(t, "want")
  /\ UNCHANGED <<measured, exceeded, mutexes, seen, after, limit, core, reported, overtaken,
                 events>>

ScheduleRefused(t) ==
  /\ At(t, "scheduled")
  /\ Finishes(t, "idle")
  /\ UNCHANGED <<measured, exceeded, outside>>

\* restart, and Manager.Apply with the flag its caller read: the last look at
\* the flag, the save, and a command that controlMu does not order.  A stop that
\* is raised and enforced in between is undone, and nobody is told.
RestartRequest(t) ==
  /\ At(t, "idle")
  /\ Request(t)
  /\ ~exceeded
  /\ Goes(t, "saveRestart")
  /\ UNCHANGED <<measured, exceeded, mutexes, seen, after, limit, core, db, reported, overtaken>>

RestartCore(t) ==
  /\ At(t, "restart")
  /\ core' = TRUE
  /\ overtaken' = (overtaken \/ exceeded)
  /\ Goes(t, "idle")
  /\ UNCHANGED <<measured, exceeded, mutexes, seen, after, limit, db, reported, events>>

RestartFailed(t) ==
  /\ At(t, "restart")
  /\ core' \in BOOLEAN
  /\ reported' = TRUE
  /\ Goes(t, "idle")
  /\ UNCHANGED <<measured, exceeded, mutexes, seen, after, limit, db, overtaken, events>>

-----------------------------------------------------------------------------
(* The world *)

\* systemd gave up restarting the core.
CoreFails ==
  /\ core
  /\ core' = FALSE
  /\ reported' = TRUE
  /\ UNCHANGED <<measured, exceeded, mutexes, pc, seen, after, limit, db, overtaken,
                 events>>

PanelRestart ==
  /\ events < MaxEvents
  /\ events' = events + 1
  /\ usage' = db.usage
  /\ source' = db.source
  /\ exceeded' = db.exceeded
  /\ reported' = TRUE
  /\ overtaken' = FALSE
  /\ Opened
  /\ UNCHANGED <<limit, core, db>>

-----------------------------------------------------------------------------
Reconciling(t) ==
  \/ ControlEnter(t)
  \/ ProbeAnswered(t)
  \/ ProbeUnreadable(t)
  \/ CommandDone(t)
  \/ CommandFailed(t)

\* What a goroutine that has begun an operation does next.
Continue(t) ==
  \/ SampleUnavailable(t)
  \/ SampleRead(t)
  \/ SampleApply(t)
  \/ VnStatLock(t)
  \/ VnStatFail(t)
  \/ VnStatDiscard(t)
  \/ VnStatApply(t)
  \/ SaveOk(t)
  \/ SaveFailed(t)
  \/ SaveRefused(t)
  \/ QuotaRead(t)
  \/ QuotaDecide(t)
  \/ Reconciling(t)
  \/ ZeroRejected(t)
  \/ ResetApply(t)
  \/ CalibrateApply(t)
  \/ ScheduleSaved(t)
  \/ ScheduleRefused(t)
  \/ RestartCore(t)
  \/ RestartFailed(t)

Begin(t) ==
  \/ SampleBegin(t)
  \/ ZeroRequest(t)
  \/ SettingsRequest(t)
  \/ RestartRequest(t)

Next ==
  \/ Tick
  \/ \E t \in Workers : VnStatBegin(t)
  \/ \E t \in Threads : Begin(t) \/ Continue(t)
  \/ CoreFails
  \/ PanelRestart

Spec == Init /\ [][Next]_vars

(***************************************************************************)
(* Goroutines run and mutexes are not starved; select picks among ready    *)
(* tickers at random, so the 15 second one is served again and again; and  *)
(* systemctl, asked again and again by the loop, answers and obeys again   *)
(* and again.                                                              *)
(***************************************************************************)
Fairness ==
  /\ \A t \in Threads : SF_vars(Continue(t))
  /\ SF_vars(Tick)
  /\ SF_vars(ProbeAnswered(Poll))
  /\ SF_vars(CommandDone(Poll))

FairSpec == Spec /\ Fairness

-----------------------------------------------------------------------------
(* Properties *)

\* Every variable keeps its shape, and whoever is inside a critical section
\* holds its mutex.
TypeOK ==
  /\ usage \in Usages
  /\ source \in {"none", "missing", "stale", "healthy"}
  /\ limit \in Limits
  /\ exceeded \in BOOLEAN
  /\ core \in BOOLEAN
  /\ {sampleMu, networkLock, controlMu} \subseteq Threads \cup {Nobody}
  /\ shouldExceed \in BOOLEAN
  /\ pc \in [Threads -> Places]
  /\ seen \in [Threads -> Limits]
  /\ after \in [Threads -> {"return", "zero", "quota"}]
  /\ db \in [usage : Usages, source : {"none", "missing", "stale", "healthy"},
             exceeded : BOOLEAN]
  /\ reported \in BOOLEAN
  /\ overtaken \in BOOLEAN
  /\ events \in 0..MaxEvents
  /\ \A t \in Threads : /\ pc[t] \in {"sample", "apply"} => sampleMu = t
                        /\ pc[t] \in {"fetch", "saveZeroed"} => networkLock = t
                        /\ pc[t] \in {"probe", "command"} <=> controlMu = t

\* A goroutine on its way to reconcileCore, or inside it with the current flag.
Owes(t) ==
  \/ pc[t] \in {"saveControl", "saveQuota", "saveZeroed", "quota", "decide", "control"}
  \/ controlMu = t /\ shouldExceed = exceeded

\* The core never stands against the quota flag unnoticed: if it is down without
\* a stop, a goroutine is about to reconcile it with the current flag or an error
\* has been reported since they last agreed; and if it runs under a stop, the same
\* is true or a restart that had looked before the stop was raised has undone it,
\* which answers 200 and which the next reconciliation ends (reconcileCore,
\* tracker.go:349-378; restart, server.go:593-605).
NeverUnnoticed ==
  \/ core = ~exceeded
  \/ reported
  \/ \E t \in Threads : Owes(t)
  \/ core /\ exceeded /\ overtaken

\* A stop that has been saved is not lifted while vnStat has nothing on record
\* for the period, neither by a sample nor by opening the panel again, as long
\* as a limit is configured for everybody who looks (network.go:406-411).
SavedStopKept ==
  [][ /\ exceeded /\ db.exceeded
      /\ source \in {"none", "missing"}
      /\ \A t \in Threads : At(t, "decide") => seen[t] # NoLimit
      => exceeded' ]_vars

Over  == limit # NoLimit /\ usage >= limit /\ source # "none"
Under == source \in {"stale", "healthy"} /\ (limit = NoLimit \/ usage < limit)

\* When usage stays over the limit the core is stopped and stays stopped.
OveruseStopped == <>[]Over => <>[]~core

\* When usage is measured and stays under the limit the core comes back,
\* whatever stopped it.
ServiceRestored == <>[]Under => []<>core
=============================================================================
