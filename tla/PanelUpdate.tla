---------------------------- MODULE PanelUpdate ----------------------------
(***************************************************************************)
(* Updates of the panel itself: the launcher and the status reader of the  *)
(* panel (internal/panelupdate/manager.go) and the worker, a Bash process  *)
(* that systemd or an administrator starts (run_panel_update in            *)
(* install.sh).  They share a lock file, a status file and, through        *)
(* systemd, the knowledge whether the unit of the web job is active.       *)
(*                                                                         *)
(* The worker replaces the program the launcher and the reader belong to,  *)
(* restarts it, and takes the old one back when the new one does not       *)
(* serve.  Any step of it may fail; the worker may be killed, the panel may *)
(* be restarted, the host rebooted.  Phases and times of the status, which *)
(* are only shown, are left out.                                           *)
(***************************************************************************)
EXTENDS Integers

CONSTANTS
  Versions,   \* the releases; the first is installed
  Broken,     \* the releases that do not serve once they run
  Faults,     \* what may fail: subset of AllFaults
  MaxEvents   \* bound: updates asked for, kills, restarts and reboots

AllFaults == {"write", "probe", "launch", "step", "restore", "health"}

ASSUME UpdateAssumption ==
  /\ Versions \subseteq Nat /\ 1 \in Versions
  /\ Broken \subseteq Versions \ {1}
  /\ Faults \subseteq AllFaults
  /\ MaxEvents \in Nat

VARIABLES
  bin, cmd,   \* the releases of the installed panel and manager script
  bak,        \* their backups
  running,    \* the release of the panel that runs
  spoiled,    \* ghost: whether a file could once not be put back
  file,       \* the status file; "before" is a ghost
  lock,       \* who holds the lock file
  job,        \* the workers
  launcher,   \* Manager.Start
  reader,     \* Manager.Status
  shown,      \* what it last reported
  events      \* how often the environment acted

installed == <<bin, cmd, bak, running, spoiled>>
panel == <<launcher, reader, shown>>
vars == <<installed, file, lock, job, panel, events>>

Jobs == {"web", "cli"}
Pair == [bin |-> bin, cmd |-> cmd]
Serving == running \notin Broken

\* A worker: its place, and the variables of the script.
Off == [pc |-> "off", target |-> 1, installed |-> FALSE, trap |-> FALSE,
        rolledBack |-> FALSE, failed |-> FALSE, before |-> [bin |-> 1, cmd |-> 1]]

Init ==
  /\ bin = 1 /\ cmd = 1 /\ running = 1 /\ spoiled = "no"
  /\ bak = [bin |-> 1, cmd |-> 1]
  /\ file = [state |-> "idle", target |-> 1, rolledBack |-> FALSE, before |-> Pair]
  /\ lock = "none"
  /\ job = [j \in Jobs |-> Off]
  /\ launcher = [pc |-> "idle", target |-> 1]
  /\ reader = "idle" /\ shown = "idle"
  /\ events = 0

Event == events < MaxEvents /\ events' = events + 1

\* systemctl is-active on the unit of the web job; it may fail to answer.
UnitActive == job["web"].pc # "off"
ProbeSaysActive == UnitActive
ProbeSaysNot == ~UnitActive \/ "probe" \in Faults

-----------------------------------------------------------------------------
(* Manager.Start.                                                          *)

Launching(pc) == launcher.pc = pc
LaunchGoes(pc) == launcher' = [launcher EXCEPT !.pc = pc]
LaunchEnds == LaunchGoes("idle") /\ lock' = "none"

LaunchLock ==
  /\ Event
  /\ Launching("idle") /\ Serving
  /\ lock = "none"
  /\ lock' = "launcher"
  /\ \E v \in Versions \ {1} : launcher' = [pc |-> "check", target |-> v]
  /\ UNCHANGED <<installed, file, job, reader, shown>>

LaunchCheck ==
  /\ Launching("check")
  /\ \/ ProbeSaysActive /\ LaunchEnds
     \/ ProbeSaysNot /\ LaunchGoes("save") /\ lock' = lock
  /\ UNCHANGED <<installed, file, job, reader, shown, events>>

LaunchWrites(state) ==
  file' = [state |-> state, target |-> launcher.target, rolledBack |-> FALSE, before |-> Pair]

LaunchSave ==
  /\ Launching("save")
  /\ \/ LaunchWrites("running") /\ LaunchGoes("run") /\ lock' = lock
     \/ "write" \in Faults /\ file' = file /\ LaunchEnds
  /\ UNCHANGED <<installed, job, reader, shown, events>>

Starts(j, v) == job' = [job EXCEPT ![j] = [Off EXCEPT !.pc = "waiting", !.target = v]]

\* systemd-run reports success once Bash runs; it may also start it and fail.
LaunchRun ==
  /\ Launching("run")
  /\ \/ ~UnitActive /\ Starts("web", launcher.target) /\ LaunchEnds
     \/ /\ "launch" \in Faults
        /\ \/ ~UnitActive /\ Starts("web", launcher.target)
           \/ job' = job
        /\ LaunchGoes("probe") /\ lock' = lock
     \/ UnitActive /\ job' = job /\ LaunchGoes("probe") /\ lock' = lock
  /\ UNCHANGED <<installed, file, reader, shown, events>>

LaunchProbe ==
  /\ Launching("probe")
  /\ \/ ProbeSaysActive /\ LaunchEnds
     \/ ProbeSaysNot /\ LaunchGoes("give_up") /\ lock' = lock
  /\ UNCHANGED <<installed, file, job, reader, shown, events>>

LaunchGivesUp ==
  /\ Launching("give_up")
  /\ LaunchWrites("failed") \/ ("write" \in Faults /\ file' = file)
  /\ LaunchGoes("idle")
  /\ lock' = IF lock = "launcher" THEN "none" ELSE lock
  /\ UNCHANGED <<installed, job, reader, shown, events>>

-----------------------------------------------------------------------------
(* Manager.Status, which the web interface polls.                          *)

ReaderEnds(what) == reader' = "idle" /\ shown' = what

Polls ==
  /\ reader = "idle" /\ Serving
  /\ IF file.state = "running" THEN reader' = "read" /\ shown' = shown
     ELSE ReaderEnds(file.state)
  /\ UNCHANGED <<installed, file, lock, job, launcher, events>>

TriesLock ==
  /\ reader = "read"
  /\ IF lock = "none" THEN lock' = "reader" /\ reader' = "locked" /\ shown' = shown
     ELSE lock' = lock /\ ReaderEnds("running")
  /\ UNCHANGED <<installed, file, job, launcher, events>>

ReadsAgain ==
  /\ reader = "locked"
  /\ IF file.state = "running" THEN lock' = lock /\ reader' = "asking" /\ shown' = shown
     ELSE lock' = "none" /\ ReaderEnds(file.state)
  /\ UNCHANGED <<installed, file, job, launcher, events>>

\* "Reboot, SIGKILL or a failed service must not leave a permanent spinner."
Asks ==
  /\ reader = "asking"
  /\ lock' = "none"
  /\ \/ ProbeSaysActive /\ ReaderEnds("running")
     \/ ProbeSaysNot /\ ReaderEnds("interrupted")
  /\ UNCHANGED <<installed, file, job, launcher, events>>

-----------------------------------------------------------------------------
(* The worker.                                                             *)

At(j, pc) == job[j].pc = pc
Goes(j, pc) == job' = [job EXCEPT ![j].pc = pc]
Works == UNCHANGED <<launcher, reader, shown, events>>

\* A step fails: errexit runs the trap panel_update_exit.
Fails(j) == job' = [job EXCEPT ![j].pc = "trap", ![j].trap = TRUE, ![j].failed = TRUE]

\* An administrator runs the update from the menu.
CliStarts ==
  /\ Event
  /\ At("cli", "off")
  /\ \E v \in Versions \ {1} : Starts("cli", v)
  /\ UNCHANGED <<installed, file, lock, panel>>

Acquires(j) ==
  /\ At(j, "waiting")
  /\ lock = "none" /\ lock' = j
  /\ job' = [job EXCEPT ![j].pc = "preparing", ![j].before = Pair]
  /\ UNCHANGED <<installed, file>> /\ Works

\* flock -w 10 runs out; the trap is not set yet.
TimesOut(j) ==
  /\ At(j, "waiting")
  /\ lock # "none"
  /\ Goes(j, "off")
  /\ UNCHANGED <<installed, file, lock>> /\ Works

Writes(j, state) ==
  file' = [state |-> state, target |-> job[j].target,
           rolledBack |-> job[j].rolledBack, before |-> job[j].before]

Prepares(j) ==
  /\ At(j, "preparing")
  /\ \/ Writes(j, "running") /\ Goes(j, "fetching")
     \/ Faults \cap {"write", "step"} # {} /\ file' = file /\ Fails(j)
  /\ UNCHANGED <<installed, lock>> /\ Works

\* Check the host, download, verify, and keep copies of what is installed.
Fetches(j) ==
  /\ At(j, "fetching")
  /\ \/ bak' = Pair /\ Goes(j, "replacing_panel")
     \/ "step" \in Faults /\ bak' = bak /\ Fails(j)
  /\ UNCHANGED <<bin, cmd, running, spoiled, file, lock>> /\ Works

ReplacesPanel(j) ==
  /\ At(j, "replacing_panel")
  /\ bin' = job[j].target
  /\ Goes(j, "replacing_script")
  /\ UNCHANGED <<cmd, bak, running, spoiled, file, lock>> /\ Works

ReplacesScript(j) ==
  /\ At(j, "replacing_script")
  /\ cmd' = job[j].target
  /\ job' = [job EXCEPT ![j].pc = "announcing", ![j].installed = TRUE]
  /\ UNCHANGED <<bin, bak, running, spoiled, file, lock>> /\ Works

\* restore_binary of both, the second only if wanted after the first failed.
Restores(both) ==
  \/ bin' = bak.bin /\ cmd' = bak.cmd /\ spoiled' = spoiled
  \/ /\ "restore" \in Faults
     /\ spoiled' = "yes"
     /\ \/ bin' = bak.bin /\ cmd' = cmd
        \/ bin' = bin /\ cmd' \in IF both THEN {cmd, bak.cmd} ELSE {cmd}

\* install_panel could not replace a file and puts back what it kept.
ReplacingFails(j) ==
  /\ At(j, "replacing_panel") \/ At(j, "replacing_script")
  /\ "step" \in Faults
  /\ Restores(TRUE)
  /\ Fails(j)
  /\ UNCHANGED <<bak, running, file, lock>> /\ Works

\* The status "restarting"; it may not be written, and the script ends.
Announces(j) ==
  /\ At(j, "announcing")
  /\ Goes(j, "finishing") \/ ("write" \in Faults /\ Fails(j))
  /\ UNCHANGED <<installed, file, lock>> /\ Works

\* A restart ends the launcher and the reader, and frees a lock of theirs.
PanelRestarts ==
  /\ running' = bin'
  /\ launcher' = [launcher EXCEPT !.pc = "idle"]
  /\ reader' = "idle" /\ shown' = shown
  /\ lock' = IF lock \in {"launcher", "reader"} THEN "none" ELSE lock

\* sbm --finish-panel-update, a process of its own, may fail before the restart.
Finishes(j) ==
  /\ At(j, "finishing")
  /\ UNCHANGED <<bin, cmd, bak, spoiled, file, events>>
  /\ \/ PanelRestarts /\ Goes(j, "checking")
     \/ "step" \in Faults /\ Goes(j, "rolling_back") /\ UNCHANGED <<running, launcher, reader, shown, lock>>

Healthy == Serving
Unhealthy == ~Serving \/ "health" \in Faults

\* A defect: a panel that was started is taken for one that serves.
Checks_Started(j) ==
  /\ At(j, "checking")
  /\ Goes(j, "ending")
  /\ UNCHANGED <<installed, file, lock>> /\ Works

Checks(j) ==
  /\ At(j, "checking")
  /\ \/ Healthy /\ Goes(j, "ending")
     \/ Unhealthy /\ Goes(j, "rolling_back")
  /\ UNCHANGED <<installed, file, lock>> /\ Works

\* Both files come back and the panel is restarted; perform_panel_update does it
\* when the new panel does not serve, the trap when that failed.
RollBackStops(j) ==
  IF job[j].trap THEN Goes(j, "ending") ELSE Fails(j)

RollsBack(j) ==
  /\ At(j, "rolling_back")
  /\ \/ /\ bin' = bak.bin /\ cmd' = bak.cmd /\ spoiled' = spoiled
        /\ PanelRestarts /\ Goes(j, "checking_old")
     \/ /\ "restore" \in Faults
        /\ Restores(FALSE) /\ <<bin', cmd'>> # <<bak.bin, bak.cmd>>
        /\ RollBackStops(j)
        /\ UNCHANGED <<running, launcher, reader, shown, lock>>
     \/ /\ "write" \in Faults /\ ~job[j].trap
        /\ Fails(j)
        /\ UNCHANGED <<bin, cmd, running, spoiled, launcher, reader, shown, lock>>
  /\ UNCHANGED <<bak, file, events>>

ChecksOld(j) ==
  /\ At(j, "checking_old")
  /\ \/ /\ Healthy
        /\ job' = [job EXCEPT ![j].pc = "ending", ![j].rolledBack = TRUE, ![j].failed = TRUE]
     \/ Unhealthy /\ RollBackStops(j)
  /\ UNCHANGED <<installed, file, lock>> /\ Works

\* panel_update_exit.
Traps(j) ==
  /\ At(j, "trap")
  /\ Goes(j, IF job[j].installed /\ ~job[j].rolledBack THEN "rolling_back" ELSE "ending")
  /\ UNCHANGED <<installed, file, lock>> /\ Works

Ends(j) ==
  /\ At(j, "ending")
  /\ \/ Writes(j, IF job[j].failed THEN "failed" ELSE "succeeded")
     \/ "write" \in Faults /\ file' = file
  /\ job' = [job EXCEPT ![j] = Off]
  /\ lock' = "none"
  /\ UNCHANGED installed /\ Works

-----------------------------------------------------------------------------
(* Kills, restarts and reboots.                                            *)

\* systemd kills the whole unit; the child of a killed shell lives on, with the
\* lock, and may still restart the panel.
Killed(j) ==
  /\ Event
  /\ ~At(j, "off") /\ ~At(j, "orphan")
  /\ IF j = "cli" /\ (At(j, "finishing") \/ At(j, "checking"))
     THEN Goes(j, "orphan") /\ lock' = lock
     ELSE job' = [job EXCEPT ![j] = Off] /\ lock' = IF lock = j THEN "none" ELSE lock
  /\ UNCHANGED <<installed, file, panel>>

OrphanEnds(j) ==
  /\ At(j, "orphan")
  /\ running' \in {running, bin}
  /\ launcher' = [launcher EXCEPT !.pc = "idle"] /\ reader' = "idle"
  /\ lock' = "none"
  /\ job' = [job EXCEPT ![j] = Off]
  /\ UNCHANGED <<bin, cmd, bak, spoiled, file, shown, events>>

PanelDies ==
  /\ Event
  /\ bin' = bin /\ PanelRestarts
  /\ UNCHANGED <<cmd, bak, spoiled, file, job>>

Reboots ==
  /\ Event
  /\ job' = [j \in Jobs |-> Off]
  /\ lock' = "none" /\ running' = bin
  /\ launcher' = [launcher EXCEPT !.pc = "idle"] /\ reader' = "idle"
  /\ UNCHANGED <<bin, cmd, bak, spoiled, file, shown>>

-----------------------------------------------------------------------------
Launch == LaunchCheck \/ LaunchSave \/ LaunchRun \/ LaunchProbe \/ LaunchGivesUp
Read == Polls \/ TriesLock \/ ReadsAgain \/ Asks
Work(j) ==
  \/ Acquires(j) \/ TimesOut(j) \/ Prepares(j) \/ Fetches(j)
  \/ ReplacesPanel(j) \/ ReplacesScript(j) \/ ReplacingFails(j) \/ Announces(j)
  \/ Finishes(j) \/ Checks(j) \/ RollsBack(j) \/ ChecksOld(j) \/ Traps(j) \/ Ends(j)
  \/ OrphanEnds(j)

Next ==
  \/ LaunchLock \/ Launch
  \/ Read
  \/ CliStarts
  \/ \E j \in Jobs : Work(j) \/ Killed(j)
  \/ PanelDies \/ Reboots

Spec == Init /\ [][Next]_vars

\* Commands and downloads end, and the page polls as long as the panel serves.
Fairness ==
  /\ WF_vars(Launch) /\ WF_vars(Read)
  /\ \A j \in Jobs : WF_vars(Work(j))

FairSpec == Spec /\ Fairness

-----------------------------------------------------------------------------
Places ==
  {"off", "waiting", "preparing", "fetching", "replacing_panel", "replacing_script",
   "announcing", "finishing", "checking", "rolling_back", "checking_old", "trap",
   "ending", "orphan"}
Pairs == [bin : Versions, cmd : Versions]
Workers == [pc : Places, target : Versions, installed : BOOLEAN, trap : BOOLEAN,
            rolledBack : BOOLEAN, failed : BOOLEAN, before : Pairs]

\* Every variable has its type, and whoever works holds the lock.
TypeOK ==
  /\ {bin, cmd, running} \subseteq Versions /\ bak \in Pairs /\ spoiled \in {"no", "yes"}
  /\ file \in [state : {"idle", "running", "succeeded", "failed"}, target : Versions,
               rolledBack : BOOLEAN, before : Pairs]
  /\ lock \in Jobs \cup {"none", "launcher", "reader"}
  /\ job \in [Jobs -> Workers]
  /\ launcher \in [pc : {"idle", "check", "save", "run", "probe", "give_up"}, target : Versions]
  /\ reader \in {"idle", "read", "locked", "asking"}
  /\ shown \in {"idle", "running", "succeeded", "failed", "interrupted"}
  /\ events \in 0..MaxEvents
  /\ \A j \in Jobs : job[j].pc \notin {"off", "waiting"} => lock = j

Changing(j) ==
  job[j].pc \in {"replacing_panel", "replacing_script", "announcing", "finishing",
                 "checking", "rolling_back", "checking_old", "orphan"}

\* While files are being replaced or the panel restarted for an update, the
\* status says so: a launcher whose systemd-run timed out does not report a
\* failure "while it installs files" (manager.go:96), no result is left over.
StatusTracksWork ==
  \A j \in Jobs : Changing(j) => file.state = "running"

\* A status of success stands for a panel and a script of the target release,
\* the panel running and serving, whatever was killed or failed since.
SucceededIsInstalled ==
  file.state = "succeeded" =>
    /\ bin = file.target /\ cmd = file.target
    /\ running = file.target /\ Serving

\* A status that claims a roll-back stands for the pair of files that was there
\* before the update, with that panel running and serving.
RolledBackIsRestored ==
  file.state = "failed" /\ file.rolledBack =>
    /\ Pair = file.before
    /\ running = bin /\ Serving

\* Unless a file could not be put back, an update that ended in failure changed
\* neither of them, at whichever step it failed.
FailedChangesNothing ==
  file.state = "failed" /\ spoiled = "no" => Pair = file.before

\* The reader never declares an update gone that has written its result or
\* holds the lock.
InterruptedMeansGone ==
  [][reader = "asking" /\ reader' = "idle" /\ shown' = "interrupted" =>
       file.state = "running" /\ lock \notin Jobs]_vars

\* What the status says is true: of who works, of what is installed and runs, of what
\* was put back and of what is gone, after any failure, kill, restart or reboot.
StatusIsTrue ==
  /\ [](TypeOK /\ StatusTracksWork /\ SucceededIsInstalled /\ RolledBackIsRestored
         /\ FailedChangesNothing)
  /\ InterruptedMeansGone

\* As long as the panel serves, the page does not show a running update for ever.
SpinnerEnds == <>[]Serving => []<>(shown # "running")
=============================================================================
