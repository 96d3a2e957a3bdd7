------------------------- MODULE PanelUpdateProofs -------------------------
(***************************************************************************)
(* PanelUpdate for every set of releases, every subset of them that does   *)
(* not serve, every set of faults and any number of events: the types and  *)
(* the discipline of the lock, and what each final status promises.        *)
(*                                                                         *)
(* What a status says was established several steps before it is written,  *)
(* so the invariant says for each place of the worker what is installed,   *)
(* what the backups hold and which panel runs.                             *)
(*                                                                         *)
(* And UpdateDialog, the page that watches a job, for any number of jobs:  *)
(* its spinner and its timer stand and fall together.                      *)
(***************************************************************************)
EXTENDS MCPanelUpdate, TLAPS

\* Whoever is past the lock holds it, and what was read under it still stands.
Locks ==
  /\ launcher.pc # "idle" => lock = "launcher"
  /\ reader \in {"locked", "asking"} => lock = "reader"
  /\ reader = "asking" => file.state = "running"

\* The part of the work before anything was replaced, before and after the
\* replacement was announced, and the way back.
Untouched == {"preparing", "fetching", "replacing_panel"}
Replaced == {"announcing", "finishing", "checking"}
Forward == {"waiting", "replacing_script"} \cup Untouched \cup Replaced
WayBack == {"rolling_back", "checking_old"}

\* What the script remembers at each place.
Remembers(w) ==
  /\ w.pc \in Forward => ~w.failed /\ ~w.trap /\ ~w.rolledBack
  /\ w.pc \in Forward \ Replaced => ~w.installed
  /\ w.pc \in Replaced \cup WayBack => w.installed
  /\ w.pc = "trap" => w.failed /\ w.trap /\ ~w.rolledBack
  /\ w.pc \in WayBack => ~w.rolledBack /\ (w.trap => w.failed)

\* The status at each place.
Announced(w) ==
  /\ w.pc \in {"fetching", "replacing_panel", "replacing_script", "orphan"} => file.state = "running"
  /\ w.pc \in {"trap"} \cup Replaced \cup WayBack /\ w.installed => file.state = "running"

\* What is installed at each place, and what could be put back.
Holds(w) ==
  /\ w.pc \in Untouched => Pair = w.before
  /\ w.pc \in {"replacing_panel", "replacing_script"} \cup Replaced \cup WayBack => bak = w.before
  /\ w.pc = "trap" /\ w.installed => bak = w.before
  /\ w.pc = "replacing_script" => bin = w.target
  /\ w.pc \in Replaced => bin = w.target /\ cmd = w.target
  /\ w.pc = "checking" => running = bin
  /\ w.pc = "checking_old" => Pair = w.before /\ running = bin

\* What is about to be reported.
Result(w) ==
  /\ w.pc = "ending" /\ ~w.failed =>
       bin = w.target /\ cmd = w.target /\ running = w.target /\ Serving
  /\ w.pc = "ending" /\ w.rolledBack =>
       w.failed /\ Pair = w.before /\ running = bin /\ Serving
  /\ spoiled = "no" /\ ((w.pc = "trap" /\ ~w.installed) \/ (w.pc = "ending" /\ w.failed)) =>
       Pair = w.before

Worker(w) == Remembers(w) /\ Announced(w) /\ Holds(w) /\ Result(w)

\* What was reported.
Reported ==
  /\ SucceededIsInstalled
  /\ RolledBackIsRestored
  /\ FailedChangesNothing

IInv == TypeOK /\ Locks /\ (\A j \in Jobs : Worker(job[j])) /\ Reported

-----------------------------------------------------------------------------
\* The initial state: nothing runs and nothing was reported.
LEMMA InitInvariant == Init => IInv
BY UpdateAssumption DEF Init, IInv, TypeOK, Locks, Worker, Remembers, Announced, Holds, Result,
  Reported, SucceededIsInstalled, RolledBackIsRestored, FailedChangesNothing,
  Pair, Pairs, Places, Workers, Off, Jobs, Forward, Untouched, Replaced, WayBack

\* While a worker works nobody else holds the lock.
LEMMA OneAtATime ==
  ASSUME IInv, NEW j \in Jobs, job[j].pc \notin {"off", "waiting"}
  PROVE  /\ lock = j
         /\ launcher.pc = "idle" /\ reader \in {"idle", "read"}
         /\ \A k \in Jobs \ {j} : job[k].pc \in {"off", "waiting"}
BY DEF IInv, TypeOK, Locks, Jobs

\* A worker that is off or waits is not concerned by what others do.
LEMMA Bystander ==
  ASSUME IInv, NEW k \in Jobs, job'[k] = job[k], job[k].pc \in {"off", "waiting"}
  PROVE  Worker(job[k])'
BY DEF IInv, Worker, Remembers, Announced, Holds, Result, Forward, Untouched, Replaced, WayBack

\* Nothing that was reported becomes wrong while an update is announced, or
\* while neither the status nor what is installed changes.
LEMMA ReportStands ==
  ASSUME IInv, file'.state = "running" \/ (file' = file /\ UNCHANGED installed)
  PROVE  Reported'
BY DEF IInv, Reported, SucceededIsInstalled, RolledBackIsRestored, FailedChangesNothing,
  installed, Pair, Serving

\* Whatever becomes of one worker that has the type of a worker.
LEMMA Typed ==
  ASSUME job \in [Jobs -> Workers], NEW j \in Jobs, NEW w \in Workers, job' = [job EXCEPT ![j] = w]
  PROVE  job' \in [Jobs -> Workers]
OBVIOUS

\* A failure leaves the types alone.
LEMMA FailsTyped ==
  ASSUME job \in [Jobs -> Workers], NEW j \in Jobs, Fails(j)
  PROVE  job' \in [Jobs -> Workers]
<1> DEFINE w == [job[j] EXCEPT !.pc = "trap", !.trap = TRUE, !.failed = TRUE]
<1>1. w \in Workers
  BY DEF Workers, Places
<1>2. job' = [job EXCEPT ![j] = w]
  BY DEF Fails
<1> QED
  BY <1>1, <1>2, Typed

\* So does a worker that goes on.
LEMMA GoesTyped ==
  ASSUME job \in [Jobs -> Workers], NEW j \in Jobs, NEW pc \in Places, Goes(j, pc)
  PROVE  job' \in [Jobs -> Workers]
BY DEF Goes, Workers

\* The mark of ReplacesScript leaves the types alone.
LEMMA MarkTyped ==
  ASSUME job \in [Jobs -> Workers], NEW j \in Jobs,
         job' = [job EXCEPT ![j].pc = "announcing", ![j].installed = TRUE]
  PROVE  job' \in [Jobs -> Workers]
<1> DEFINE w == [job[j] EXCEPT !.pc = "announcing", !.installed = TRUE]
<1>1. w \in Workers
  BY DEF Workers, Places
<1>2. job' = [job EXCEPT ![j] = w]
  OBVIOUS
<1> QED
  BY <1>1, <1>2, Typed

-----------------------------------------------------------------------------
(* The steps of the worker.                                                *)

\* The first status is written, or the script fails.
LEMMA StepPrepares ==
  ASSUME IInv, NEW j \in Jobs, Prepares(j)
  PROVE  IInv'
<1> USE DEF Prepares, At, Works, installed, Writes
<1>1. /\ lock = j /\ launcher.pc = "idle" /\ reader \in {"idle", "read"}
      /\ \A k \in Jobs \ {j} : job[k].pc \in {"off", "waiting"} /\ job'[k] = job[k]
      /\ job \in [Jobs -> Workers] /\ Worker(job[j]) /\ bak \in Pairs
  BY OneAtATime DEF Goes, Fails, IInv, TypeOK
<1>2. TypeOK'
  BY <1>1 DEF IInv, TypeOK, Goes, Fails, Pair, Pairs, Places, Workers, Jobs
<1>3. Locks'
  BY <1>1 DEF IInv, TypeOK, Locks
<1>4. Worker(job[j])'
  BY <1>1 DEF Worker, Remembers, Announced, Holds, Result, Goes, Fails, Pair, Serving, Workers,
    Forward, Untouched, Replaced, WayBack
<1>5. Reported'
  BY <1>1, ReportStands DEF Worker, Remembers, Announced, Replaced, WayBack
<1> QED
  BY <1>1, <1>2, <1>3, <1>4, <1>5, Bystander DEF IInv

\* The release is fetched and what is installed is copied.
LEMMA StepFetches ==
  ASSUME IInv, NEW j \in Jobs, Fetches(j)
  PROVE  IInv'
<1> USE DEF Fetches, At, Works, installed
<1>1. /\ lock = j /\ launcher.pc = "idle" /\ reader \in {"idle", "read"}
      /\ \A k \in Jobs \ {j} : job[k].pc \in {"off", "waiting"} /\ job'[k] = job[k]
      /\ job \in [Jobs -> Workers] /\ Worker(job[j]) /\ bak \in Pairs
  BY OneAtATime DEF Goes, Fails, IInv, TypeOK
<1>2. TypeOK'
  BY <1>1 DEF IInv, TypeOK, Goes, Fails, Pair, Pairs, Places, Workers, Jobs
<1>3. Locks'
  BY <1>1 DEF IInv, TypeOK, Locks
<1>4. Worker(job[j])'
  BY <1>1 DEF Worker, Remembers, Announced, Holds, Result, Goes, Fails, Pair, Serving, Workers,
    Forward, Untouched, Replaced, WayBack
<1>5. Reported'
  BY <1>1, ReportStands DEF Worker, Remembers, Announced, Replaced, WayBack
<1> QED
  BY <1>1, <1>2, <1>3, <1>4, <1>5, Bystander DEF IInv

\* The panel is replaced.
LEMMA StepReplacesPanel ==
  ASSUME IInv, NEW j \in Jobs, ReplacesPanel(j)
  PROVE  IInv'
<1> USE DEF ReplacesPanel, At, Works, installed
<1>1. /\ lock = j /\ launcher.pc = "idle" /\ reader \in {"idle", "read"}
      /\ \A k \in Jobs \ {j} : job[k].pc \in {"off", "waiting"} /\ job'[k] = job[k]
      /\ job \in [Jobs -> Workers] /\ Worker(job[j]) /\ bak \in Pairs
  BY OneAtATime DEF Goes, IInv, TypeOK
<1>2. TypeOK'
  BY <1>1 DEF IInv, TypeOK, Goes, Pair, Pairs, Places, Workers, Jobs
<1>3. Locks'
  BY <1>1 DEF IInv, TypeOK, Locks
<1>4. Worker(job[j])'
  BY <1>1 DEF Worker, Remembers, Announced, Holds, Result, Goes, Pair, Serving, Workers,
    Forward, Untouched, Replaced, WayBack
<1>5. Reported'
  BY <1>1, ReportStands DEF Worker, Remembers, Announced, Replaced, WayBack
<1> QED
  BY <1>1, <1>2, <1>3, <1>4, <1>5, Bystander DEF IInv

\* The script is replaced.
LEMMA StepReplacesScript ==
  ASSUME IInv, NEW j \in Jobs, ReplacesScript(j)
  PROVE  IInv'
<1> USE DEF ReplacesScript, At, Works, installed
<1>1. /\ lock = j /\ launcher.pc = "idle" /\ reader \in {"idle", "read"}
      /\ \A k \in Jobs \ {j} : job[k].pc \in {"off", "waiting"} /\ job'[k] = job[k]
      /\ job \in [Jobs -> Workers] /\ Worker(job[j]) /\ bak \in Pairs
  BY OneAtATime DEF IInv, TypeOK
<1>2. TypeOK'
  <2>1. job' \in [Jobs -> Workers]
    BY <1>1, MarkTyped DEF Places
  <2> QED
    BY <1>1, <2>1 DEF IInv, TypeOK, Pairs, Workers, Jobs
<1>3. Locks'
  BY <1>1 DEF IInv, TypeOK, Locks
<1>4. Worker(job[j])'
  <2>1. Remembers(job[j])'
    BY <1>1 DEF Worker, Remembers, Workers,
      Forward, Untouched, Replaced, WayBack
  <2>2. Announced(job[j])'
    BY <1>1 DEF Worker, Announced, Remembers, Workers,
      Forward, Untouched, Replaced, WayBack
  <2>3. Holds(job[j])'
    BY <1>1 DEF Worker, Holds, Remembers, Pair, Pairs, Workers,
      Forward, Untouched, Replaced, WayBack
  <2>4. Result(job[j])'
    BY <1>1 DEF Worker, Result, Holds, Remembers, Pair, Serving, Workers,
      Forward, Untouched, Replaced, WayBack
  <2> QED
    BY <2>1, <2>2, <2>3, <2>4 DEF Worker
<1>5. Reported'
  BY <1>1, ReportStands DEF Worker, Remembers, Announced, Replaced, WayBack
<1> QED
  BY <1>1, <1>2, <1>3, <1>4, <1>5, Bystander DEF IInv

\* A replacement fails and is undone as far as it can be.
LEMMA StepReplacingFails ==
  ASSUME IInv, NEW j \in Jobs, ReplacingFails(j)
  PROVE  IInv'
<1> USE DEF ReplacingFails, At, Works, installed, Restores
<1>1. /\ lock = j /\ launcher.pc = "idle" /\ reader \in {"idle", "read"}
      /\ \A k \in Jobs \ {j} : job[k].pc \in {"off", "waiting"} /\ job'[k] = job[k]
      /\ job \in [Jobs -> Workers] /\ Worker(job[j]) /\ bak \in Pairs
  BY OneAtATime DEF Fails, IInv, TypeOK
<1>2. TypeOK'
  <2>1. job' \in [Jobs -> Workers]
    BY <1>1, FailsTyped DEF Places
  <2> QED
    BY SMTT(60), <1>1, <2>1 DEF IInv, TypeOK, Fails, Pairs, Workers, Jobs
<1>3. Locks'
  BY <1>1 DEF IInv, TypeOK, Locks
<1>4. Worker(job[j])'
  <2>1. Remembers(job[j])'
    BY <1>1 DEF Worker, Remembers, Fails, Workers,
      Forward, Untouched, Replaced, WayBack
  <2>2. Announced(job[j])'
    BY <1>1 DEF Worker, Announced, Remembers, Fails, Workers,
      Forward, Untouched, Replaced, WayBack
  <2>3. Holds(job[j])'
    BY <1>1 DEF Worker, Holds, Remembers, Pair, Pairs, Fails, Workers,
      Forward, Untouched, Replaced, WayBack
  <2>4. Result(job[j])'
    BY <1>1 DEF Worker, Result, Holds, Remembers, Pair, Serving, Fails, Workers,
      Forward, Untouched, Replaced, WayBack
  <2> QED
    BY <2>1, <2>2, <2>3, <2>4 DEF Worker
<1>5. Reported'
  BY <1>1, ReportStands DEF Worker, Remembers, Announced, Replaced, WayBack
<1> QED
  BY <1>1, <1>2, <1>3, <1>4, <1>5, Bystander DEF IInv

\* The restart is announced, or the script fails.
LEMMA StepAnnounces ==
  ASSUME IInv, NEW j \in Jobs, Announces(j)
  PROVE  IInv'
<1> USE DEF Announces, At, Works, installed
<1>1. /\ lock = j /\ launcher.pc = "idle" /\ reader \in {"idle", "read"}
      /\ \A k \in Jobs \ {j} : job[k].pc \in {"off", "waiting"} /\ job'[k] = job[k]
      /\ job \in [Jobs -> Workers] /\ Worker(job[j]) /\ bak \in Pairs
  BY OneAtATime DEF Goes, Fails, IInv, TypeOK
<1>2. TypeOK'
  BY <1>1 DEF IInv, TypeOK, Goes, Fails, Pair, Pairs, Places, Workers, Jobs
<1>3. Locks'
  BY <1>1 DEF IInv, TypeOK, Locks
<1>4. Worker(job[j])'
  BY <1>1 DEF Worker, Remembers, Announced, Holds, Result, Goes, Fails, Pair, Serving, Workers,
    Forward, Untouched, Replaced, WayBack
<1>5. Reported'
  BY <1>1, ReportStands DEF Worker, Remembers, Announced, Replaced, WayBack
<1> QED
  BY <1>1, <1>2, <1>3, <1>4, <1>5, Bystander DEF IInv

\* The new script restarts the panel, or fails before.
LEMMA StepFinishes ==
  ASSUME IInv, NEW j \in Jobs, Finishes(j)
  PROVE  IInv'
<1> USE DEF Finishes, At, Works, installed, PanelRestarts
<1>1. /\ lock = j /\ launcher.pc = "idle" /\ reader \in {"idle", "read"}
      /\ \A k \in Jobs \ {j} : job[k].pc \in {"off", "waiting"} /\ job'[k] = job[k]
      /\ job \in [Jobs -> Workers] /\ Worker(job[j]) /\ bak \in Pairs
  BY OneAtATime DEF Goes, IInv, TypeOK
<1>2. TypeOK'
  BY <1>1 DEF IInv, TypeOK, Goes, Pair, Pairs, Places, Workers, Jobs
<1>3. Locks'
  BY <1>1 DEF IInv, TypeOK, Locks
<1>4. Worker(job[j])'
  BY <1>1 DEF Worker, Remembers, Announced, Holds, Result, Goes, Pair, Serving, Workers,
    Forward, Untouched, Replaced, WayBack
<1>5. Reported'
  BY <1>1, ReportStands DEF Worker, Remembers, Announced, Replaced, WayBack
<1> QED
  BY <1>1, <1>2, <1>3, <1>4, <1>5, Bystander DEF IInv

\* The panel is found to serve or not.
LEMMA StepChecks ==
  ASSUME IInv, NEW j \in Jobs, Checks(j)
  PROVE  IInv'
<1> USE DEF Checks, At, Works, installed, Healthy, Unhealthy
<1>1. /\ lock = j /\ launcher.pc = "idle" /\ reader \in {"idle", "read"}
      /\ \A k \in Jobs \ {j} : job[k].pc \in {"off", "waiting"} /\ job'[k] = job[k]
      /\ job \in [Jobs -> Workers] /\ Worker(job[j]) /\ bak \in Pairs
  BY OneAtATime DEF Goes, IInv, TypeOK
<1>2. TypeOK'
  BY <1>1 DEF IInv, TypeOK, Goes, Pair, Pairs, Places, Workers, Jobs
<1>3. Locks'
  BY <1>1 DEF IInv, TypeOK, Locks
<1>4. Worker(job[j])'
  BY <1>1 DEF Worker, Remembers, Announced, Holds, Result, Goes, Pair, Serving, Workers,
    Forward, Untouched, Replaced, WayBack
<1>5. Reported'
  BY <1>1, ReportStands DEF Worker, Remembers, Announced, Replaced, WayBack
<1> QED
  BY <1>1, <1>2, <1>3, <1>4, <1>5, Bystander DEF IInv

\* Files are put back and the panel restarted.
LEMMA StepRollsBack ==
  ASSUME IInv, NEW j \in Jobs, RollsBack(j)
  PROVE  IInv'
<1> USE DEF RollsBack, At, Works, installed, Restores, PanelRestarts, RollBackStops
<1>1. /\ lock = j /\ launcher.pc = "idle" /\ reader \in {"idle", "read"}
      /\ \A k \in Jobs \ {j} : job[k].pc \in {"off", "waiting"} /\ job'[k] = job[k]
      /\ job \in [Jobs -> Workers] /\ Worker(job[j]) /\ bak \in Pairs
  BY OneAtATime DEF Goes, Fails, IInv, TypeOK
<1>2. TypeOK'
  <2>1. job' \in [Jobs -> Workers]
    BY <1>1, GoesTyped, FailsTyped DEF Places
  <2> QED
    BY <1>1, <2>1 DEF IInv, TypeOK, Goes, Fails, Pairs, Workers, Jobs
<1>3. Locks'
  BY <1>1 DEF IInv, TypeOK, Locks
<1>4. Worker(job[j])'
  <2>1. Remembers(job[j])'
    BY <1>1 DEF Worker, Remembers, Goes, Fails, Workers,
      Forward, Untouched, Replaced, WayBack
  <2>2. Announced(job[j])'
    BY <1>1 DEF Worker, Announced, Remembers, Goes, Fails, Workers,
      Forward, Untouched, Replaced, WayBack
  <2>3. Holds(job[j])'
    BY <1>1 DEF Worker, Holds, Remembers, Pair, Pairs, Goes, Fails, Workers,
      Forward, Untouched, Replaced, WayBack
  <2>4. Result(job[j])'
    BY <1>1 DEF Worker, Result, Holds, Remembers, Pair, Serving, Goes, Fails, Workers,
      Forward, Untouched, Replaced, WayBack
  <2> QED
    BY <2>1, <2>2, <2>3, <2>4 DEF Worker
<1>5. Reported'
  BY <1>1, ReportStands DEF Worker, Remembers, Announced, Replaced, WayBack
<1> QED
  BY <1>1, <1>2, <1>3, <1>4, <1>5, Bystander DEF IInv

\* The old panel is found to serve or not.
LEMMA StepChecksOld ==
  ASSUME IInv, NEW j \in Jobs, ChecksOld(j)
  PROVE  IInv'
<1> USE DEF ChecksOld, At, Works, installed, Healthy, Unhealthy, RollBackStops
<1>1. /\ lock = j /\ launcher.pc = "idle" /\ reader \in {"idle", "read"}
      /\ \A k \in Jobs \ {j} : job[k].pc \in {"off", "waiting"} /\ job'[k] = job[k]
      /\ job \in [Jobs -> Workers] /\ Worker(job[j]) /\ bak \in Pairs
  BY OneAtATime DEF Goes, Fails, IInv, TypeOK
<1>2. TypeOK'
  BY <1>1 DEF IInv, TypeOK, Goes, Fails, Pair, Pairs, Places, Workers, Jobs
<1>3. Locks'
  BY <1>1 DEF IInv, TypeOK, Locks
<1>4. Worker(job[j])'
  BY <1>1 DEF Worker, Remembers, Announced, Holds, Result, Goes, Fails, Pair, Serving, Workers,
    Forward, Untouched, Replaced, WayBack
<1>5. Reported'
  BY <1>1, ReportStands DEF Worker, Remembers, Announced, Replaced, WayBack
<1> QED
  BY <1>1, <1>2, <1>3, <1>4, <1>5, Bystander DEF IInv

\* The trap decides whether to roll back.
LEMMA StepTraps ==
  ASSUME IInv, NEW j \in Jobs, Traps(j)
  PROVE  IInv'
<1> USE DEF Traps, At, Works, installed
<1>1. /\ lock = j /\ launcher.pc = "idle" /\ reader \in {"idle", "read"}
      /\ \A k \in Jobs \ {j} : job[k].pc \in {"off", "waiting"} /\ job'[k] = job[k]
      /\ job \in [Jobs -> Workers] /\ Worker(job[j]) /\ bak \in Pairs
  BY OneAtATime DEF Goes, IInv, TypeOK
<1>2. TypeOK'
  BY <1>1 DEF IInv, TypeOK, Goes, Pair, Pairs, Places, Workers, Jobs
<1>3. Locks'
  BY <1>1 DEF IInv, TypeOK, Locks
<1>4. Worker(job[j])'
  BY <1>1 DEF Worker, Remembers, Announced, Holds, Result, Goes, Pair, Serving, Workers,
    Forward, Untouched, Replaced, WayBack
<1>5. Reported'
  BY <1>1, ReportStands DEF Worker, Remembers, Announced, Replaced, WayBack
<1> QED
  BY <1>1, <1>2, <1>3, <1>4, <1>5, Bystander DEF IInv

-----------------------------------------------------------------------------
(* Where a worker begins and ends, and what happens around it.             *)

\* A worker is not concerned either by steps that leave the status and what is
\* installed alone.
LEMMA Undisturbed ==
  ASSUME IInv, NEW k \in Jobs, job'[k] = job[k], file' = file, UNCHANGED installed
  PROVE  Worker(job[k])'
BY DEF IInv, Worker, Remembers, Announced, Holds, Result, installed, Pair, Serving

\* A worker that is off or waits with nothing done promises nothing.
LEMMA Fresh ==
  ASSUME NEW k \in Jobs,
         job'[k].pc \in {"off", "waiting"},
         ~job'[k].failed, ~job'[k].trap, ~job'[k].rolledBack, ~job'[k].installed
  PROVE  Worker(job[k])'
BY DEF Worker, Remembers, Announced, Holds, Result, Forward, Untouched, Replaced, WayBack

\* A worker takes the lock.
LEMMA StepAcquires ==
  ASSUME IInv, NEW j \in Jobs, Acquires(j)
  PROVE  IInv'
<1> USE DEF Acquires, At, Works, installed
<1>1. job' \in [Jobs -> Workers]
  <2> DEFINE w == [job[j] EXCEPT !.pc = "preparing", !.before = Pair]
  <2>1. w \in Workers
    <3>1. Pair \in Pairs /\ job[j] \in Workers
      BY DEF IInv, TypeOK, Pair, Pairs
    <3> QED
      BY <3>1 DEF Workers, Places
  <2>2. job' = [job EXCEPT ![j] = w]
    OBVIOUS
  <2> QED
    BY <2>1, <2>2, Typed DEF IInv, TypeOK
<1>2. TypeOK'
  BY <1>1 DEF IInv, TypeOK, Pairs, Workers, Jobs
<1>3. Locks'
  BY DEF IInv, TypeOK, Locks, Jobs
<1>4. Worker(job[j])'
  BY DEF IInv, TypeOK, Workers, Worker, Remembers, Announced, Holds, Result, Pair,
    Forward, Untouched, Replaced, WayBack
<1>5. \A k \in Jobs \ {j} : Worker(job[k])'
  BY Undisturbed DEF IInv, TypeOK
<1>6. Reported'
  BY ReportStands
<1> QED
  BY <1>2, <1>3, <1>4, <1>5, <1>6 DEF IInv

\* A worker gives up waiting for the lock.
LEMMA StepTimesOut ==
  ASSUME IInv, NEW j \in Jobs, TimesOut(j)
  PROVE  IInv'
<1> USE DEF TimesOut, At, Works, installed
<1>1. job' \in [Jobs -> Workers]
  BY GoesTyped DEF IInv, TypeOK, Places
<1>2. TypeOK'
  BY <1>1 DEF IInv, TypeOK, Goes, Pairs, Workers, Jobs
<1>3. Locks'
  BY DEF IInv, TypeOK, Locks, Jobs
<1>4. Worker(job[j])'
  BY Fresh DEF IInv, TypeOK, Workers, Goes, Worker, Remembers, Forward, Replaced
<1>5. \A k \in Jobs \ {j} : Worker(job[k])'
  BY Undisturbed DEF IInv, TypeOK, Goes
<1>6. Reported'
  BY ReportStands
<1> QED
  BY <1>2, <1>3, <1>4, <1>5, <1>6 DEF IInv

\* A worker writes its result and ends.
LEMMA StepEnds ==
  ASSUME IInv, NEW j \in Jobs, Ends(j)
  PROVE  IInv'
<1> USE DEF Ends, At, Works, installed
<1>1. /\ lock = j /\ launcher.pc = "idle" /\ reader \in {"idle", "read"}
      /\ \A k \in Jobs \ {j} : job[k].pc \in {"off", "waiting"} /\ job'[k] = job[k]
  BY OneAtATime DEF IInv, TypeOK
<1>2. job' \in [Jobs -> Workers] /\ job'[j] = Off
  BY UpdateAssumption DEF IInv, TypeOK, Off, Workers, Places, Pairs
<1>3. TypeOK'
  BY <1>1, <1>2 DEF IInv, TypeOK, Writes, Off, Workers, Jobs
<1>4. Locks'
  BY <1>1 DEF IInv, TypeOK, Locks
<1>5. Worker(job[j])'
  BY <1>2, Fresh DEF Off
<1>6. Reported'
  BY ReportStands DEF IInv, TypeOK, Worker, Result, Workers, Writes, Reported,
    SucceededIsInstalled, RolledBackIsRestored, FailedChangesNothing, Pair, Serving
<1> QED
  BY <1>1, <1>3, <1>4, <1>5, <1>6, Bystander DEF IInv

\* What a killed shell left behind ends, and the panel may have been restarted.
LEMMA StepOrphanEnds ==
  ASSUME IInv, NEW j \in Jobs, OrphanEnds(j)
  PROVE  IInv'
<1> USE DEF OrphanEnds, At
<1>1. /\ lock = j /\ launcher.pc = "idle" /\ reader \in {"idle", "read"}
      /\ \A k \in Jobs \ {j} : job[k].pc \in {"off", "waiting"} /\ job'[k] = job[k]
  BY OneAtATime DEF IInv, TypeOK
<1>2. job' \in [Jobs -> Workers] /\ job'[j] = Off
  BY UpdateAssumption DEF IInv, TypeOK, Off, Workers, Places, Pairs
<1>3. TypeOK'
  BY <1>1, <1>2 DEF IInv, TypeOK, Off, Jobs
<1>4. Locks'
  BY <1>1 DEF IInv, TypeOK, Locks
<1>5. Worker(job[j])'
  BY <1>2, Fresh DEF Off
<1>6. Reported'
  BY ReportStands DEF IInv, Worker, Announced
<1> QED
  BY <1>1, <1>3, <1>4, <1>5, <1>6, Bystander DEF IInv

\* A worker is killed.
LEMMA StepKilled ==
  ASSUME IInv, NEW j \in Jobs, Killed(j)
  PROVE  IInv'
<1> USE DEF Killed, Event, At, panel, installed
<1>1. /\ job' \in [Jobs -> Workers]
      /\ job'[j].pc \in {"off", "orphan"}
      /\ \A k \in Jobs \ {j} : job'[k] = job[k]
  <2>1. Off \in Workers
    BY UpdateAssumption DEF Off, Workers, Places, Pairs
  <2>2. CASE Goes(j, "orphan")
    <3>1. job \in [Jobs -> Workers] /\ "orphan" \in Places
      BY DEF IInv, TypeOK, Places
    <3>2. job' \in [Jobs -> Workers]
      BY <2>2, <3>1, GoesTyped
    <3> QED
      BY <2>2, <3>1, <3>2 DEF Goes, Workers
  <2>3. CASE job' = [job EXCEPT ![j] = Off]
    BY <2>1, <2>3, Typed DEF IInv, TypeOK, Off
  <2> QED
    BY <2>2, <2>3
<1>2. job'[j].pc = "orphan" => lock' = j
  BY <1>1 DEF IInv, TypeOK, Goes, Off
<1>3. TypeOK'
  BY <1>1, <1>2, UpdateAssumption DEF IInv, TypeOK, Pairs, Jobs
<1>4. Locks'
  BY DEF IInv, TypeOK, Locks, Jobs
<1>5. Worker(job[j])'
  <2>1. CASE job'[j] = Off
    BY <2>1, Fresh DEF Off
  <2>2. CASE Goes(j, "orphan") /\ (At(j, "finishing") \/ At(j, "checking"))
    BY <2>2 DEF IInv, TypeOK, Goes, Worker, Remembers, Announced, Holds, Result, Workers,
      Forward, Untouched, Replaced, WayBack
  <2> QED
    BY <2>1, <2>2 DEF IInv, TypeOK
<1>6. \A k \in Jobs \ {j} : Worker(job[k])'
  BY <1>1, Undisturbed
<1>7. Reported'
  BY ReportStands
<1> QED
  BY <1>3, <1>4, <1>5, <1>6, <1>7 DEF IInv

\* A worker is started when there is none.
LEMMA Started ==
  ASSUME IInv, NEW j \in Jobs, NEW v \in Versions, Starts(j, v)
  PROVE  /\ job' \in [Jobs -> Workers]
         /\ job'[j].pc = "waiting" /\ Worker(job[j])'
         /\ \A k \in Jobs \ {j} : job'[k] = job[k]
<1>1. /\ job' \in [Jobs -> Workers]
      /\ job'[j] = [Off EXCEPT !.pc = "waiting", !.target = v]
  BY UpdateAssumption DEF IInv, TypeOK, Starts, Off, Workers, Places, Pairs
<1>2. Worker(job[j])'
  BY <1>1, Fresh DEF Off
<1> QED
  BY <1>1, <1>2 DEF Starts, Off, IInv, TypeOK

\* An administrator starts an update.
LEMMA StepCliStarts ==
  ASSUME IInv, CliStarts
  PROVE  IInv'
<1>1. PICK v \in Versions : Starts("cli", v)
  BY DEF CliStarts
<1>2. /\ job' \in [Jobs -> Workers]
      /\ job'["cli"].pc = "waiting" /\ Worker(job["cli"])'
      /\ \A k \in Jobs \ {"cli"} : job'[k] = job[k]
  BY <1>1, Started DEF Jobs
<1>3. TypeOK'
  BY <1>2, UpdateAssumption DEF CliStarts, Event, panel, installed, IInv, TypeOK, Pairs, Jobs
<1>4. Locks'
  BY DEF CliStarts, panel, IInv, Locks
<1>5. \A k \in Jobs : Worker(job[k])'
  BY <1>2, Undisturbed DEF CliStarts
<1>6. Reported'
  BY ReportStands DEF CliStarts
<1> QED
  BY <1>3, <1>4, <1>5, <1>6 DEF IInv

\* What the launcher writes has the type of a status.
LEMMA StatusTyped ==
  ASSUME NEW s \in {"running", "failed"}, NEW v \in Versions, NEW p \in Pairs
  PROVE  [state |-> s, target |-> v, rolledBack |-> FALSE, before |-> p]
           \in [state : {"idle", "running", "succeeded", "failed"}, target : Versions,
               rolledBack : BOOLEAN, before : Pairs]
OBVIOUS

\* Manager.Start.
LEMMA StepLaunch ==
  ASSUME IInv, LaunchLock \/ Launch
  PROVE  IInv'
<1> USE DEF Launching, LaunchGoes, LaunchEnds
<1>1. CASE LaunchLock
  <2>1. TypeOK'
    BY <1>1, UpdateAssumption DEF LaunchLock, Event, installed, IInv, TypeOK, Jobs, Pairs
  <2>2. Locks'
    BY <1>1 DEF LaunchLock, IInv, TypeOK, Locks, Jobs
  <2>3. \A k \in Jobs : Worker(job[k])'
    BY <1>1, Undisturbed DEF LaunchLock
  <2> QED
    BY <1>1, <2>1, <2>2, <2>3, ReportStands DEF LaunchLock, IInv
<1>2. CASE LaunchCheck \/ LaunchProbe
  <2>1. launcher.pc # "idle" /\ lock = "launcher"
    BY <1>2 DEF LaunchCheck, LaunchProbe, IInv, Locks
  <2>2. TypeOK'
    BY <1>2, <2>1 DEF LaunchCheck, LaunchProbe, installed, IInv, TypeOK, Jobs, Pairs
  <2>3. Locks'
    BY <1>2, <2>1 DEF LaunchCheck, LaunchProbe, IInv, TypeOK, Locks
  <2>4. \A k \in Jobs : Worker(job[k])'
    BY <1>2, Undisturbed DEF LaunchCheck, LaunchProbe
  <2> QED
    BY <1>2, <2>2, <2>3, <2>4, ReportStands DEF LaunchCheck, LaunchProbe, IInv
<1>3. CASE LaunchSave \/ LaunchGivesUp
  <2>1. /\ lock = "launcher" /\ launcher.pc # "idle" /\ reader \in {"idle", "read"}
        /\ \A k \in Jobs : job[k].pc \in {"off", "waiting"} /\ job'[k] = job[k]
    BY <1>3 DEF LaunchSave, LaunchGivesUp, IInv, TypeOK, Locks, Jobs
  <2>2. TypeOK'
    <3>1. Pair \in Pairs /\ Pairs' = Pairs
      BY DEF IInv, TypeOK, Pair, Pairs
    <3>2. file' \in [state : {"idle", "running", "succeeded", "failed"}, target : Versions,
                     rolledBack : BOOLEAN, before : Pairs]
      <4>1. launcher.target \in Versions
        BY DEF IInv, TypeOK
      <4>2. CASE LaunchWrites("running") \/ LaunchWrites("failed")
        <5>1. PICK s \in {"running", "failed"} :
                file' = [state |-> s, target |-> launcher.target, rolledBack |-> FALSE, before |-> Pair]
          BY <4>2 DEF LaunchWrites
        <5> QED
          BY <3>1, <4>1, <5>1, StatusTyped
      <4>3. CASE file' = file
        BY <4>3 DEF IInv, TypeOK
      <4> QED
        BY <1>3, <4>2, <4>3 DEF LaunchSave, LaunchGivesUp
    <3> QED
      BY <1>3, <2>1, <3>1, <3>2 DEF LaunchSave, LaunchGivesUp, installed, IInv, TypeOK, Jobs
  <2>3. Locks'
    BY <1>3, <2>1 DEF LaunchSave, LaunchGivesUp, IInv, TypeOK, Locks
  <2>4. Reported'
    BY <1>3, ReportStands DEF LaunchSave, LaunchGivesUp, LaunchWrites, installed, Reported,
      SucceededIsInstalled, RolledBackIsRestored, FailedChangesNothing, Pair
  <2> QED
    BY <2>1, <2>2, <2>3, <2>4, Bystander DEF IInv
<1>4. CASE LaunchRun
  <2>1. /\ lock = "launcher" /\ launcher.pc # "idle" /\ reader \in {"idle", "read"}
        /\ \A k \in Jobs : job[k].pc \in {"off", "waiting"}
    BY <1>4 DEF LaunchRun, IInv, TypeOK, Locks, Jobs
  <2>2. /\ job' \in [Jobs -> Workers]
        /\ \A k \in Jobs : job'[k].pc \in {"off", "waiting"} /\ Worker(job[k])'
    <3>1. CASE job' = job
      BY <2>1, <3>1, Bystander DEF IInv, TypeOK
    <3>2. CASE Starts("web", launcher.target)
      BY <2>1, <3>2, Started, Bystander DEF IInv, TypeOK, Jobs
    <3> QED
      BY <1>4, <3>1, <3>2 DEF LaunchRun
  <2>3. TypeOK'
    BY <1>4, <2>1, <2>2 DEF LaunchRun, installed, IInv, TypeOK, Jobs, Pairs
  <2>4. Locks'
    BY <1>4, <2>1 DEF LaunchRun, IInv, TypeOK, Locks
  <2> QED
    BY <1>4, <2>2, <2>3, <2>4, ReportStands DEF LaunchRun, IInv
<1> QED
  BY <1>1, <1>2, <1>3, <1>4 DEF Launch

\* Manager.Status.
LEMMA StepRead ==
  ASSUME IInv, Read
  PROVE  IInv'
<1>1. /\ UNCHANGED <<installed, file, job, launcher, events>>
  BY DEF Read, Polls, TriesLock, ReadsAgain, Asks
<1>2. \/ lock' = lock
      \/ lock = "none" /\ lock' = "reader"
      \/ lock = "reader" /\ lock' = "none"
  BY DEF Read, Polls, TriesLock, ReadsAgain, Asks, IInv, Locks
<1>3. TypeOK'
  BY <1>1, <1>2 DEF Read, Polls, TriesLock, ReadsAgain, Asks, ReaderEnds, IInv, TypeOK,
    installed, Jobs, Pairs
<1>4. Locks'
  BY <1>1 DEF Read, Polls, TriesLock, ReadsAgain, Asks, ReaderEnds, IInv, Locks
<1> QED
  BY <1>1, <1>3, <1>4, Undisturbed, ReportStands DEF IInv

\* The panel is restarted by somebody else.
LEMMA StepPanelDies ==
  ASSUME IInv, PanelDies
  PROVE  IInv'
<1> USE DEF PanelDies, PanelRestarts, Event
<1>1. TypeOK'
  BY UpdateAssumption DEF IInv, TypeOK, Jobs, Pairs
<1>2. Locks'
  BY DEF IInv, TypeOK, Locks
<1>3. \A k \in Jobs : Worker(job[k])'
  BY DEF IInv, Worker, Remembers, Announced, Holds, Result, Pair, Serving
<1>4. Reported'
  BY DEF IInv, Reported, SucceededIsInstalled, RolledBackIsRestored, FailedChangesNothing,
    Pair, Serving
<1> QED
  BY <1>1, <1>2, <1>3, <1>4 DEF IInv

\* The host is rebooted.
LEMMA StepReboots ==
  ASSUME IInv, Reboots
  PROVE  IInv'
<1> USE DEF Reboots, Event
<1>1. \A k \in Jobs : job'[k] = Off
  OBVIOUS
<1>2. TypeOK'
  BY UpdateAssumption DEF IInv, TypeOK, Jobs, Pairs, Off, Workers, Places
<1>3. Locks'
  BY DEF IInv, TypeOK, Locks
<1>4. \A k \in Jobs : Worker(job[k])'
  BY <1>1, Fresh DEF Off
<1>5. Reported'
  BY DEF IInv, Reported, SucceededIsInstalled, RolledBackIsRestored, FailedChangesNothing,
    Pair, Serving
<1> QED
  BY <1>2, <1>3, <1>4, <1>5 DEF IInv

-----------------------------------------------------------------------------
(* Every behaviour.                                                        *)

\* No step of anybody breaks the invariant.
LEMMA StepInvariant == IInv /\ [Next]_vars => IInv'
<1> SUFFICES ASSUME IInv, [Next]_vars PROVE IInv'
  OBVIOUS
<1>1. CASE UNCHANGED vars
  BY <1>1 DEF vars, installed, panel, IInv, TypeOK, Locks, Worker, Remembers, Announced, Holds,
    Result, Reported, SucceededIsInstalled, RolledBackIsRestored, FailedChangesNothing, Pair, Serving
<1>2. ASSUME NEW j \in Jobs, Work(j) PROVE IInv'
  BY <1>2, StepAcquires, StepTimesOut, StepPrepares, StepFetches, StepReplacesPanel,
    StepReplacesScript, StepReplacingFails, StepAnnounces, StepFinishes, StepChecks,
    StepRollsBack, StepChecksOld, StepTraps, StepEnds, StepOrphanEnds DEF Work
<1> QED
  BY <1>1, <1>2, StepKilled, StepLaunch, StepRead, StepCliStarts, StepPanelDies, StepReboots DEF Next

LEMMA Invariant == Spec => []IInv
BY InitInvariant, StepInvariant, PTL DEF Spec

\* Types, and whoever works holds the lock.
THEOREM TypeCorrect == Spec => []TypeOK
<1>1. IInv => TypeOK
  BY DEF IInv
<1> QED
  BY <1>1, Invariant, PTL

\* Files are replaced and the panel is restarted only under a status that says
\* an update is running (manager.go:96).
THEOREM StatusAlwaysTracksWork == Spec => []StatusTracksWork
<1>1. IInv => StatusTracksWork
  BY DEF IInv, Worker, Remembers, Announced, StatusTracksWork, Changing, Replaced, WayBack
<1> QED
  BY <1>1, Invariant, PTL

\* A status of success stands for the target release, installed and serving
\* (install.sh, perform_panel_update and panel_update_exit).
THEOREM SuccessIsInstalled == Spec => []SucceededIsInstalled
<1>1. IInv => SucceededIsInstalled
  BY DEF IInv, Reported
<1> QED
  BY <1>1, Invariant, PTL

\* A status that claims a roll-back stands for the pair of files there was
\* before, serving.
THEOREM RollBackIsRestored == Spec => []RolledBackIsRestored
<1>1. IInv => RolledBackIsRestored
  BY DEF IInv, Reported
<1> QED
  BY <1>1, Invariant, PTL

\* Unless a file could not be put back, a failed update changed neither of
\* them (install.sh, perform_panel_update and panel_update_exit).
THEOREM FailureChangesNothing == Spec => []FailedChangesNothing
<1>1. IInv => FailedChangesNothing
  BY DEF IInv, Reported
<1> QED
  BY <1>1, Invariant, PTL

\* The reader declares an update gone only while no worker holds the lock and
\* the status still says running (manager.go:131).
THEOREM InterruptionMeansGone == Spec => InterruptedMeansGone
<1> DEFINE Declares == reader = "asking" /\ reader' = "idle" /\ shown' = "interrupted"
           Gone == file.state = "running" /\ lock \notin Jobs
<1>1. IInv /\ [Next]_vars => [Declares => Gone]_vars
  BY DEF IInv, Locks, Jobs
<1>2. Spec => [][Declares => Gone]_vars
  BY <1>1, Invariant, PTL DEF Spec
<1> QED
  BY <1>2 DEF InterruptedMeansGone

\* What the status says is true (manager.go, install.sh), for any set of releases and
\* faults and any number of kills, restarts and reboots.
THEOREM StatusAlwaysTrue == Spec => StatusIsTrue
<1>1. Spec => [](TypeOK /\ StatusTracksWork /\ SucceededIsInstalled /\ RolledBackIsRestored
                  /\ FailedChangesNothing)
  BY TypeCorrect, StatusAlwaysTracksWork, SuccessIsInstalled, RollBackIsRestored,
     FailureChangesNothing, PTL
<1> QED
  BY <1>1, InterruptionMeansGone DEF StatusIsTrue

-----------------------------------------------------------------------------
(* The dialog. *)

\* A read in flight, and what watching a job comes to: the spinner has its timer.
Reading == [watching : BOOLEAN, recover : BOOLEAN, answer : U!States \cup {"none"},
            polling : BOOLEAN]
DialogInv == U!TypeOK /\ read \in Reading /\ U!SpinnerIsWatched

\* A read as it is begun.
LEMMA ReadsAreReading == ASSUME NEW w \in BOOLEAN, NEW r \in BOOLEAN
                         PROVE  U!Read(w, r) \in Reading
  BY DEF U!Read, Reading

\* The fields of a read, whichever it is.
LEMMA ReadingFields == ASSUME NEW r \in Reading
                       PROVE  /\ r.answer \in U!States \cup {"none"}
                              /\ {r.watching, r.recover, r.polling} \subseteq BOOLEAN
  BY DEF Reading

LEMMA DialogInit == U!Init => DialogInv
<1> SUFFICES ASSUME U!Init PROVE DialogInv
  OBVIOUS
<1>1. read \in Reading /\ timer = FALSE /\ uShown = "none" /\ open = FALSE /\ reconnecting = FALSE
      /\ release = "none" /\ checking = "quietly" /\ post = "no"
  BY ReadsAreReading DEF U!Init, U!Fresh
<1>2. uJob = "idle" /\ jobs \in 0..MaxJobs
  BY MCAssumption DEF U!Init, U!DialogAssumption
<1> QED
  BY <1>1, <1>2, ReadingFields DEF DialogInv, U!TypeOK, U!States, U!SpinnerIsWatched

\* Every end of a read leaves none in flight.
LEMMA ReadEnds == ASSUME DialogInv, U!ReadOver
                  PROVE  /\ read' \in Reading
                         /\ post' \in {"no", "sent", "launched", "refused", "recover"}
  BY DEF DialogInv, U!ReadOver, U!NoRead, Reading, U!TypeOK

\* A job is launched only while none runs, and never more than MaxJobs.
LEMMA LaunchCounts == ASSUME DialogInv, U!Launch
                      PROVE  uJob' \in U!States /\ jobs' \in 0..MaxJobs
  BY MCAssumption DEF U!DialogAssumption, DialogInv, U!Launch, U!TypeOK, U!States

LEMMA DialogStep == ASSUME DialogInv, [U!Next]_dialog PROVE DialogInv'
<1> USE DEF DialogInv, U!TypeOK, U!SpinnerIsWatched
<1>1. CASE U!LaunchedElsewhere
  BY <1>1, LaunchCounts DEF U!LaunchedElsewhere, Reading
<1>2. CASE U!JobEnds
  BY <1>2 DEF U!JobEnds, Reading, U!States
<1>3. CASE U!PostServed
  BY <1>3, LaunchCounts DEF U!PostServed, Reading
<1>4. CASE U!Answer
  BY <1>4 DEF U!Answer, Reading
<1>5. CASE U!Poll
  BY <1>5 DEF U!Poll, U!Read, Reading
<1>6. CASE U!ArriveRunning
  <2>1. read' \in Reading /\ post' \in {"no", "sent", "launched", "refused", "recover"}
    BY <1>6, ReadEnds DEF U!ArriveRunning
  <2> QED
    BY ZenonT(30), <1>6, <2>1 DEF U!ArriveRunning, Reading, U!States
<1>7. CASE U!ArriveOver
  <2>1. CASE read.watching /\ read.answer = "succeeded"
    <3>1. /\ read' \in Reading /\ timer' = FALSE /\ uShown' = "none" /\ open' = FALSE
          /\ reconnecting' = FALSE /\ release' = "none" /\ checking' = "quietly" /\ post' = "no"
      BY <1>7, <2>1, ReadsAreReading DEF U!ArriveOver, U!Fresh
    <3>2. UNCHANGED <<uJob, jobs>>
      BY <1>7 DEF U!ArriveOver
    <3> QED
      BY <3>1, <3>2, ReadingFields DEF U!States
  <2>2. CASE ~(read.watching /\ read.answer = "succeeded")
    <3>1. read' \in Reading /\ post' \in {"no", "sent", "launched", "refused", "recover"}
      BY <1>7, <2>2, ReadEnds DEF U!ArriveOver
    <3>2. uShown' \in {read.answer, uShown} /\ timer' \in {timer, FALSE}
      BY <1>7, <2>2 DEF U!ArriveOver
    <3>3. reconnecting' = FALSE /\ UNCHANGED <<uJob, jobs, open, release, checking>>
      BY <1>7, <2>2 DEF U!ArriveOver
    <3>4. timer' <=> uShown' = "running"
      BY <1>7, <2>2 DEF U!ArriveOver
    <3> QED
      BY <3>1, <3>2, <3>3, <3>4, ReadingFields DEF U!States
  <2> QED
    BY <2>1, <2>2
<1>8. CASE U!ReadFails
  <2>1. read' \in Reading /\ post' \in {"no", "sent", "launched", "refused", "recover"}
    BY <1>8, ReadEnds DEF U!ReadFails
  <2> QED
    BY <1>8, <2>1 DEF U!ReadFails, Reading
<1>9. CASE U!Install
  BY <1>9 DEF U!Install, Reading
<1>10. CASE U!Installed
  BY <1>10 DEF U!Installed, Reading, U!States
<1>11. CASE U!InstallFails
  <2>1. read' \in Reading /\ post' \in {"no", "recover"}
    BY <1>11, ReadsAreReading DEF U!InstallFails
  <2> QED
    BY <1>11, <2>1, ReadingFields DEF U!InstallFails
<1>12. CASE U!Check
  BY <1>12 DEF U!Check, Reading
<1>13. CASE U!Retry
  BY <1>13 DEF U!Retry, Reading
<1>14. CASE U!Checked
  BY <1>14 DEF U!Checked, Reading
<1>15. CASE U!Close
  BY <1>15 DEF U!Close, Reading
<1>16. CASE UNCHANGED dialog
  BY <1>16 DEF dialog, Reading
<1> QED
  BY <1>1, <1>2, <1>3, <1>4, <1>5, <1>6, <1>7, <1>8, <1>9, <1>10, <1>11, <1>12, <1>13, <1>14,
     <1>15, <1>16 DEF U!Next

\* Of the two parts, a behaviour is one of the dialog's when its scene says so, and the
\* dialog stays as it begins when it does not.
LEMMA DialogIsAPart == MCSpec => U!Init /\ [][U!Next]_dialog
<1>1. MCInit => U!Init
  BY DEF MCInit
<1>2. [MCNext]_<<scene, vars, dialog>> => [U!Next]_dialog
  BY DEF MCNext, dialog
<1> QED
  BY <1>1, <1>2, PTL DEF MCSpec

\* A job is shown as running exactly while the page keeps asking about it, in whatever
\* order launches, lost answers and reads from before a launch arrive (PanelUpdate.vue).
THEOREM SpinnerAlwaysWatched == MCSpec => []SpinnerIsWatched
<1>1. U!Init => DialogInv
  BY DialogInit
<1>2. DialogInv /\ [U!Next]_dialog => DialogInv'
  BY DialogStep
<1>3. DialogInv => SpinnerIsWatched
  BY DEF DialogInv, SpinnerIsWatched
<1> QED
  BY <1>1, <1>2, <1>3, DialogIsAPart, PTL
=============================================================================
