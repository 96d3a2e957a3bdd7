---------------------------- MODULE ConfigApply ----------------------------
(***************************************************************************)
(* internal/server and internal/core: how a change of the business         *)
(* configuration, or a gateway crossing its hard limit, reaches the        *)
(* running sing-box.                                                       *)
(*                                                                         *)
(* One change at a time runs under mutationMu: it saves the configuration, *)
(* renders it, installs the file, restarts the service, and takes          *)
(* everything back when a step fails.  Around it, without that lock, the   *)
(* sampler moves gateways across their limit, the quota control stops and  *)
(* starts the service, systemd or the restart button reloads it, another   *)
(* process applies a rendering of its own ("config apply", which shares no *)
(* lock with the panel and may end anywhere), the panel may die.           *)
(*                                                                         *)
(* One gateway stands for all of them: it is over its hard limit or not.   *)
(* A rendering is what the core's file says: the part of the configuration *)
(* that shows in it, and whether the gateway is paused.                    *)
(***************************************************************************)
EXTENDS Naturals

CONSTANTS
  Bases,     \* what a configuration renders to, the pause aside
  Stopped,   \* the service does not run
  Faults,    \* steps that may fail
  Events,    \* what may happen besides sampling, ticks and reloads
  MaxEvents  \* bound: how many of those are considered

FaultKinds == {"replace", "save", "check", "restart", "rollback", "restore", "load"}
EventKinds == {"mutate", "cross", "quota", "cli", "crash"}
Businesses == [base : Bases, limited : BOOLEAN]
Renderings == [base : Bases, paused : BOOLEAN]

ASSUME ConfigAssumption == /\ Faults \subseteq FaultKinds
                           /\ Events \subseteq EventKinds
                           /\ MaxEvents \in Nat
                           /\ Stopped \notin Renderings

VARIABLES
  business,   \* ConfigStore: the saved configuration, and whether it has a hard limit
  file,       \* the core's configuration file
  backup,     \* its .bak copy
  running,    \* the rendering the service runs with, or Stopped
  over,       \* the gateway's usage is past the limit
  applied,    \* Tracker.state.AppliedGatewayPauses
  saved,      \* over and applied as last checkpointed
  exceeded,   \* Tracker.state.QuotaExceeded
  pc,         \* where the holder of mutationMu is
  kind,       \* what it runs: mutateChange or ReconcileGatewayPauses
  old,        \* the configuration before the change
  wanted,     \* the rendering being applied
  flag,       \* QuotaExceeded as passed to Manager.Apply
  signal,     \* the channel pauseSignal holds a value
  cli,        \* a "config apply" command under way: where it is, the rendering it
              \* installs and the file it has read; or none
  astray,     \* history: the file may not be what the panel remembers installing
  astrayBackup, \* history: the same of the backup
  loose,      \* history: the service was left alone when its file changed, or a
              \* restart with the old file failed
  events      \* history: events so far

core   == <<file, backup, running, loose, astrayBackup>>
memory == <<applied, exceeded>>
change == <<kind, old, wanted, flag>>
vars == <<business, file, backup, running, over, applied, saved, exceeded, pc, kind,
          old, wanted, flag, signal, cli, astray, astrayBackup, loose, events>>

Render(b, pause) == [base |-> b.base, paused |-> pause]

\* DesiredGatewayPauses.
Desired == over /\ business.limited

Idle == pc = "idle"

\* The change returns; its locals are gone.
Returns == /\ pc' = "idle" /\ kind' = "mutate"
           /\ old' = business' /\ wanted' = Render(business', FALSE) /\ flag' = FALSE

Event(k) == k \in Events /\ events < MaxEvents /\ events' = events + 1

\* A reading of the gateway's counters.
Readings == IF "cross" \in Events THEN BOOLEAN ELSE {over}

\* Persist, with the values of the next state.
Persist == \/ saved' = [over |-> over', applied |-> applied']
           \/ "save" \in Faults /\ saved' = saved

\* systemctl restart, or the wait for an active unit, fails: the service may
\* still run as before, be down, or run with the new file.
Unclear == running' \in {running, Stopped, file}

Init ==
  /\ business \in Businesses
  /\ over = FALSE /\ applied = FALSE
  /\ saved = [over |-> FALSE, applied |-> FALSE]
  /\ file = Render(business, FALSE) /\ backup = file
  /\ running = file
  /\ exceeded = FALSE
  /\ pc = "idle" /\ kind = "mutate"
  /\ old = business /\ wanted = Render(business, FALSE) /\ flag = FALSE
  /\ signal = FALSE
  /\ cli = {}
  /\ astray = FALSE /\ astrayBackup = FALSE /\ loose = FALSE
  /\ events = 0

-----------------------------------------------------------------------------
(* Server.mutateChange.                                                    *)

\* mutationMu and gatewayMu are taken and the gateways sampled.
Begins == /\ Idle
          /\ Event("mutate")
          /\ over' \in Readings

\* The change is refused, or its configuration cannot be saved.
MutateRefused ==
  /\ Begins
  /\ UNCHANGED <<business, core, memory, saved, pc, change, signal, cli, astray>>

\* The new configuration is saved.
MutateSaved(b) ==
  /\ Begins
  /\ business' = b
  /\ pc' = "persist" /\ kind' = "mutate" /\ old' = business
  /\ UNCHANGED <<core, memory, saved, wanted, flag, signal, cli, astray>>

\* Put the old configuration back; that save may fail as well, unnoticed.
Reverts ==
  /\ \/ business' = old /\ astray' = astray
     \/ "replace" \in Faults /\ business' = business /\ astray' = TRUE
  /\ Returns

\* The traffic state is saved, or the change is taken back.
MutatePersist ==
  /\ pc = "persist"
  /\ \/ /\ saved' = [over |-> over, applied |-> applied]
        /\ pc' = "decide"
        /\ UNCHANGED <<business, change, astray>>
     \/ /\ "save" \in Faults
        /\ saved' = saved
        /\ Reverts
  /\ UNCHANGED <<core, over, memory, signal, cli, events>>

\* Compare what the core runs with what it should run.  Edited inbounds are
\* applied even when the rendering stays as it is.
MutateDecide ==
  LET now   == Render(old, applied)
      after == Render(business, Desired)
  IN /\ pc = "decide"
     /\ \/ pc' = "apply" /\ wanted' = after /\ flag' = exceeded
        \/ now = after /\ pc' = "commit" /\ UNCHANGED <<wanted, flag>>
     /\ UNCHANGED <<business, core, over, memory, saved, kind, old, signal, cli, astray, events>>

\* CommitEgressChange samples once more and saves.
MutateCommit ==
  /\ pc = "commit"
  /\ over' \in Readings
  /\ applied' = applied
  /\ Persist
  /\ UNCHANGED <<business, core, exceeded, signal, cli, astray, events>>
  /\ Returns

-----------------------------------------------------------------------------
(* Server.ReconcileGatewayPauses, started by WatchGatewayPauses.           *)

PausesBegin ==
  /\ Idle
  /\ signal
  /\ signal' = FALSE
  /\ \/ Desired = applied /\ UNCHANGED <<pc, change>>
     \/ /\ Desired # applied
        /\ pc' = "apply" /\ kind' = "pauses"
        /\ old' = business /\ wanted' = Render(business, Desired) /\ flag' = exceeded
  /\ UNCHANGED <<business, core, over, memory, saved, cli, astray, events>>

-----------------------------------------------------------------------------
(* Manager.Apply and what its callers do with its result.                  *)

\* The caller of a failed Apply: a change takes its configuration back.
Fails == IF kind = "mutate" THEN Reverts
                            ELSE UNCHANGED <<business, astray>> /\ Returns

\* "sing-box check" refuses the candidate, or a file cannot be written: the backup,
\* or the configuration itself when there is a new backup.
ApplyRejected ==
  /\ pc \in {"apply", "install"}
  /\ "check" \in Faults
  /\ Fails
  /\ UNCHANGED <<core, over, memory, saved, signal, cli, events>>

\* The file is copied to the backup.
ApplyBacksUp ==
  /\ pc = "apply"
  /\ backup' = file /\ astrayBackup' = astray
  /\ pc' = "install"
  /\ UNCHANGED <<business, file, running, loose, over, memory, saved, change, signal, cli,
                 astray, events>>

\* A defect: the applied pauses are recorded before the result of Apply is known.
ApplyInstall_RecordsFirst ==
  /\ pc = "install"
  /\ file' = wanted /\ astray' = FALSE
  /\ applied' = wanted.paused
  /\ loose' = (loose \/ (flag /\ running # Stopped))
  /\ pc' = IF flag THEN "settle" ELSE "restart"
  /\ UNCHANGED <<business, backup, running, over, exceeded, saved, change, signal, cli,
                 astrayBackup, events>>

\* The candidate replaces the file.  Under a quota stop the service is left alone.
ApplyInstall ==
  /\ pc = "install"
  /\ file' = wanted /\ astray' = FALSE
  /\ loose' = (loose \/ (flag /\ running # Stopped))
  /\ pc' = IF flag THEN "settle" ELSE "restart"
  /\ UNCHANGED <<business, backup, running, over, memory, saved, change, signal, cli,
                 astrayBackup, events>>

RestartOk ==
  /\ pc = "restart"
  /\ running' = file /\ loose' = FALSE
  /\ pc' = "settle"
  /\ UNCHANGED <<business, file, backup, over, memory, saved, change, signal, cli,
                 astray, astrayBackup, events>>

RestartFails ==
  /\ pc = "restart"
  /\ "restart" \in Faults
  /\ Unclear
  /\ pc' = "rollback"
  /\ UNCHANGED <<business, file, backup, loose, over, memory, saved, change, signal, cli,
                 astray, astrayBackup, events>>

\* The backup becomes the file again.
RollbackOk ==
  /\ pc = "rollback"
  /\ file' = backup
  /\ astray' = astrayBackup
  /\ pc' = "restore"
  /\ UNCHANGED <<business, backup, running, loose, over, memory, saved, change, signal, cli,
                 astrayBackup, events>>

\* It cannot be read or written: the candidate stays installed.
RollbackFails ==
  /\ pc = "rollback"
  /\ "rollback" \in Faults
  /\ business' \in IF kind = "mutate" THEN {old} \cup {b \in {business} : "replace" \in Faults}
                                      ELSE {business}
  /\ astray' = TRUE
  /\ Returns
  /\ UNCHANGED <<core, over, memory, saved, signal, cli, events>>

\* A defect: the service is not restarted after the old file is put back.
Restore_FileOnly ==
  /\ pc = "restore"
  /\ running' = running /\ loose' = FALSE
  /\ Fails
  /\ UNCHANGED <<file, backup, astrayBackup, over, memory, saved, signal, cli, events>>

\* The service is restarted with the restored file, or that fails too; either
\* way Apply has failed.
Restore ==
  /\ pc = "restore"
  /\ \/ running' = file /\ loose' = FALSE
     \/ "restore" \in Faults /\ Unclear /\ loose' = TRUE
  /\ Fails
  /\ UNCHANGED <<file, backup, astrayBackup, over, memory, saved, signal, cli, events>>

\* SetAppliedGatewayPauses.
Settle ==
  /\ pc = "settle"
  /\ applied' = wanted.paused
  /\ over' = over
  /\ Persist
  /\ UNCHANGED <<business, core, exceeded, signal, cli, astray, events>>
  /\ IF kind = "mutate" THEN pc' = "commit" /\ UNCHANGED change ELSE Returns

-----------------------------------------------------------------------------
(* The sampler, the quota control and the service.                         *)

\* A defect: a failed reconciliation is not tried again, as the sampler signals only when the
\* gateway crosses its limit.
Sample_SignalsOnce ==
  /\ Idle \/ kind = "pauses"
  /\ \/ over' = over /\ UNCHANGED events
     \/ over' = ~over /\ Event("cross")
  /\ applied' = applied
  /\ Persist
  /\ UNCHANGED <<business, core, exceeded, pc, change, cli, astray>>
  /\ signal' = (signal \/ (over' # over /\ Desired' # applied))

\* SampleGateways, ResetGateway and CalibrateGateway: a new reading, a save, and
\* a signal when the set of paused gateways should change.  A change holds
\* gatewayMu from end to end.
Sample ==
  /\ Idle \/ kind = "pauses"
  /\ \/ over' = over /\ UNCHANGED events
     \/ over' = ~over /\ Event("cross")
  /\ applied' = applied
  /\ Persist
  /\ UNCHANGED <<business, core, exceeded, pc, change, cli, astray>>
  /\ signal' = (signal \/ Desired' # applied)

\* The quota stop is raised or lifted.
QuotaTurns ==
  /\ Event("quota")
  /\ exceeded' = ~exceeded
  /\ UNCHANGED <<business, core, over, applied, saved, pc, change, signal, cli, astray>>

\* reconcileCore makes the service follow it.
QuotaEnforced ==
  /\ running' = IF exceeded THEN Stopped
                ELSE IF running = Stopped THEN file ELSE running
  /\ loose' = (loose /\ ~exceeded /\ running # Stopped)
  /\ UNCHANGED <<business, file, backup, over, memory, saved, pc, change, signal, cli,
                 astray, astrayBackup, events>>

\* systemd restarts a service that died; the restart handler holds no lock.
Reload ==
  /\ running # Stopped \/ ~exceeded
  /\ running' = file /\ loose' = FALSE
  /\ UNCHANGED <<business, file, backup, over, memory, saved, pc, change, signal, cli,
                 astray, astrayBackup, events>>

-----------------------------------------------------------------------------
(* Another process: sbm-panel config apply [--no-start].  It runs          *)
(* Manager.Apply as well, under a lock of its own.                         *)

\* It reads the configuration and the checkpoint, in which case the paused
\* gateways stay paused, or no checkpoint at all.
CliReads ==
  /\ Event("cli")
  /\ cli = {}
  /\ \E p \in {saved.over /\ business.limited} \cup {f \in {FALSE} : "load" \in Faults} :
       LET r == Render(business, p) IN cli' = {[at |-> "check", wanted |-> r, old |-> r]}
  /\ UNCHANGED <<business, core, over, memory, saved, pc, change, signal, astray>>

\* The command c goes on from one place to another, and forgets what it has read.
CliGoes(c, from, to) ==
  c \in cli /\ c.at = from /\ cli' = {[c EXCEPT !.at = to, !.old = c.wanted]}
CliEndsAt(c, place)  == c \in cli /\ c.at = place /\ cli' = {}

\* What none of its steps touches.
Panel == <<business, over, memory, saved, pc, change, signal, events>>

\* Its candidate is accepted, and the file is read.
CliLooks(c) ==
  /\ c \in cli /\ c.at = "check"
  /\ cli' = {[c EXCEPT !.at = "backup", !.old = file]}
  /\ UNCHANGED <<Panel, core, astray>>

CliBacksUp(c) ==
  /\ CliGoes(c, "backup", "install")
  /\ backup' = c.old /\ astrayBackup' = TRUE
  /\ UNCHANGED <<Panel, file, running, loose, astray>>

\* Told not to start the service, it is done.
CliInstalls(c) ==
  /\ CliGoes(c, "install", "restart") \/ CliEndsAt(c, "install")
  /\ file' = c.wanted /\ astray' = TRUE
  /\ UNCHANGED <<Panel, backup, running, loose, astrayBackup>>

CliRestarts(c) ==
  /\ \/ CliEndsAt(c, "restart") /\ running' = file /\ loose' = FALSE
     \/ "restart" \in Faults /\ CliGoes(c, "restart", "rollback") /\ Unclear /\ loose' = loose
  /\ UNCHANGED <<Panel, file, backup, astray, astrayBackup>>

\* The backup is read: the one it wrote, or the panel's.
CliLooksBack(c) ==
  /\ c \in cli /\ c.at = "rollback"
  /\ cli' = {[c EXCEPT !.at = "restore", !.old = backup]}
  /\ UNCHANGED <<Panel, core, astray>>

\* It becomes the file, even if the panel has installed another by now.
CliRollsBack(c) ==
  /\ CliGoes(c, "restore", "again")
  /\ file' = c.old /\ astray' = TRUE
  /\ UNCHANGED <<Panel, backup, running, loose, astrayBackup>>

CliRestartsAgain(c) ==
  /\ CliEndsAt(c, "again")
  /\ \/ running' = file /\ loose' = FALSE
     \/ "restore" \in Faults /\ Unclear /\ loose' = TRUE
  /\ UNCHANGED <<Panel, file, backup, astray, astrayBackup>>

\* A step of it fails or it is interrupted, and leaves everything where it is.
CliEnds ==
  /\ cli # {}
  /\ cli' = {}
  /\ UNCHANGED <<Panel, core, astray>>

Cli(c) ==
  \/ CliLooks(c) \/ CliBacksUp(c) \/ CliInstalls(c) \/ CliRestarts(c)
  \/ CliLooksBack(c) \/ CliRollsBack(c) \/ CliRestartsAgain(c)

-----------------------------------------------------------------------------
(* The panel dies and is started again on what it saved.  runServe calls   *)
(* ReconcileGatewayPauses by itself.                                       *)
Crash ==
  /\ Event("crash")
  /\ over' = saved.over /\ applied' = saved.applied
  /\ astray' = (astray \/ ~Idle \/ applied' # applied)
  /\ signal' = TRUE
  /\ UNCHANGED <<business, core, exceeded, saved, cli>>
  /\ Returns

-----------------------------------------------------------------------------
Next ==
  \/ MutateRefused
  \/ \E b \in Businesses : MutateSaved(b)
  \/ MutatePersist \/ MutateDecide \/ MutateCommit
  \/ PausesBegin
  \/ ApplyRejected \/ ApplyBacksUp \/ ApplyInstall \/ RestartOk \/ RestartFails
  \/ RollbackOk \/ RollbackFails \/ Restore \/ Settle
  \/ Sample \/ QuotaTurns \/ QuotaEnforced \/ Reload
  \/ CliReads \/ (\E c \in cli : Cli(c)) \/ CliEnds
  \/ Crash

Spec == Init /\ [][Next]_vars

\* A change ends: every call it makes has a deadline.  The sampler and the quota
\* control run every few seconds.  A check and a restart do not fail for ever.
Fairness ==
  /\ WF_vars(MutatePersist) /\ WF_vars(MutateDecide) /\ WF_vars(MutateCommit)
  /\ WF_vars(PausesBegin)
  /\ SF_vars(ApplyBacksUp) /\ SF_vars(ApplyInstall)
  /\ WF_vars(pc = "restart" /\ (RestartOk \/ RestartFails))
  /\ SF_vars(RestartOk)
  /\ WF_vars(RollbackOk) /\ WF_vars(Restore) /\ WF_vars(Settle)
  /\ WF_vars(Sample) /\ WF_vars(QuotaEnforced)

FairSpec == Spec /\ Fairness

-----------------------------------------------------------------------------
Places == {"idle", "persist", "decide", "apply", "install", "restart", "rollback", "restore",
           "settle", "commit"}
CliPlaces == {"check", "backup", "install", "restart", "rollback", "restore", "again"}

\* Every variable has its type, and the rendering of a change in progress is that
\* of the configuration it has saved.
TypeOK ==
  /\ business \in Businesses /\ old \in Businesses
  /\ {file, backup, wanted} \subseteq Renderings
  /\ running \in Renderings \cup {Stopped}
  /\ {over, applied, exceeded, flag, signal, astray, astrayBackup, loose} \subseteq BOOLEAN
  /\ saved \in [over : BOOLEAN, applied : BOOLEAN]
  /\ pc \in Places /\ kind \in {"mutate", "pauses"}
  /\ cli \in SUBSET [at : CliPlaces, wanted : Renderings, old : Renderings]
  /\ events \in 0..MaxEvents
  /\ pc \in {"apply", "install", "restart", "rollback", "settle"} => wanted.base = business.base

\* Between changes the core's file is the rendering of the saved configuration
\* with the recorded pauses, however the changes before it ended: applied,
\* skipped, refused, rolled back, or lost with the panel after they were saved.
InstalledMatches == Idle /\ ~astray => file = Render(business, applied)

\* Between changes a service that runs, runs that rendering: a failed change
\* leaves nothing of itself in the core.  (An apply under a quota stop leaves the
\* service alone, and a restart with the old file may fail as well.)
CoreRunsSaved ==
  Idle /\ ~astray /\ ~loose /\ running # Stopped => running = Render(business, applied)

\* internal/traffic/egress.go:149: "AppliedGatewayPauses is the set of gateways
\* the running core rejects."
AppliedIsWhatRuns ==
  Idle /\ ~astray /\ ~exceeded /\ running # Stopped => running.paused = applied

\* A gateway that stays over its hard limit, or under it, is in the end paused, or
\* resumed, in the running core (ReconcileGatewayPauses).  (Not when a command-line
\* apply goes astray: the panel compares the set with its own record only.)
PausesTakeEffect ==
  \A p \in BOOLEAN :
     <>[](Desired = p) => <>[](running = Stopped \/ running.paused = p)

=============================================================================
