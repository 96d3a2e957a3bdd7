--------------------------- MODULE UpdateDialog ---------------------------
(* The update button and dialog of the overview page, PanelUpdate.vue: it     *)
(* checks for a release, launches a job on the server and watches the job     *)
(* across the restart of the very server it asks.  The job itself is the      *)
(* subject of module PanelUpdate; here it runs and ends.                      *)
EXTENDS Naturals

CONSTANT MaxJobs  \* bound: jobs, from this page and from the command line

DialogAssumption == MaxJobs \in Nat

VARIABLES
  job, jobs,     \* the state /api/update/status returns, of the jobs so far
  shown,         \* the state of job.value, "none" without one
  open, release, \* the dialog; "none", "current" or "newer"
  checking,      \* "no", "quietly" (on mount) or "aloud"
  post,          \* install(): "no", "sent", "launched", "refused" or "recover"
  read,          \* readProgress() in flight: [watching, recover, answer], or NoRead
  timer, reconnecting

vars == <<job, jobs, shown, open, release, checking, post, read, timer, reconnecting>>

NoRead  == [watching |-> FALSE, recover |-> FALSE, answer |-> "none", polling |-> FALSE]
Read(watching, recover) ==
  [watching |-> watching, recover |-> recover, answer |-> "none", polling |-> TRUE]

starting == post # "no"
running  == starting \/ shown = "running"

\* onMounted: check(false) and readProgress()
Fresh == [shown |-> "none", open |-> FALSE, release |-> "none", checking |-> "quietly",
          post |-> "no", read |-> Read(FALSE, FALSE), timer |-> FALSE, reconnecting |-> FALSE]

Init ==
  /\ job = "idle" /\ jobs = 0
  /\ shown = Fresh.shown /\ open = Fresh.open /\ release = Fresh.release
  /\ checking = Fresh.checking /\ post = Fresh.post /\ read = Fresh.read
  /\ timer = Fresh.timer /\ reconnecting = Fresh.reconnecting

-----------------------------------------------------------------------------
(* The server. *)

Launch == /\ job # "running" /\ job' = "running"
          /\ jobs < MaxJobs /\ jobs' = jobs + 1

\* From the menu, or another tab.
LaunchedElsewhere ==
  /\ Launch /\ UNCHANGED <<shown, open, release, checking, post, read, timer, reconnecting>>

JobEnds ==
  /\ job = "running" /\ job' \in {"failed", "succeeded"}
  /\ UNCHANGED <<jobs, shown, open, release, checking, post, read, timer, reconnecting>>

\* A launch is refused while a job runs, and may fail otherwise.
PostServed ==
  /\ post = "sent"
  /\ \/ Launch /\ post' = "launched"
     \/ UNCHANGED <<job, jobs>> /\ post' = "refused"
  /\ UNCHANGED <<shown, open, release, checking, read, timer, reconnecting>>

Answer ==
  /\ read.polling /\ read.answer = "none"
  /\ read' = [read EXCEPT !.answer = job]
  /\ UNCHANGED <<job, jobs, shown, open, release, checking, post, timer, reconnecting>>

-----------------------------------------------------------------------------
(* readProgress() *)

\* The timer; skipped while another read is in flight.
Poll ==
  /\ timer /\ ~read.polling /\ read' = Read(TRUE, FALSE)
  /\ UNCHANGED <<job, jobs, shown, open, release, checking, post, timer, reconnecting>>

\* polling is over, and so is the install() that awaited the read.
ReadOver == /\ read' = NoRead
            /\ post' = IF read.recover THEN "no" ELSE post

ArriveRunning ==
  /\ read.answer = "running" /\ ReadOver
  /\ shown' = read.answer /\ timer' = TRUE /\ reconnecting' = FALSE
  /\ open' = (open \/ shown # "running")
  /\ UNCHANGED <<job, jobs, release, checking>>

\* A defect: the timer goes on after the job is over.
ArriveOver_KeepsTimer ==
  /\ read.answer \notin {"none", "running"} /\ ReadOver /\ reconnecting' = FALSE
  /\ shown' = IF read.watching \/ read.answer = "failed" THEN read.answer ELSE shown
  /\ UNCHANGED <<job, jobs, open, release, checking, timer>>

\* A job that is over is shown if it was watched or failed; a success reloads the page.
ArriveOver ==
  /\ read.answer \notin {"none", "running"}
  /\ IF read.watching /\ read.answer = "succeeded"
       THEN /\ shown' = Fresh.shown /\ open' = Fresh.open /\ release' = Fresh.release
            /\ checking' = Fresh.checking /\ post' = Fresh.post /\ read' = Fresh.read
            /\ timer' = Fresh.timer /\ reconnecting' = Fresh.reconnecting
       ELSE /\ ReadOver /\ reconnecting' = FALSE
            /\ IF read.watching \/ read.answer = "failed"
                 THEN shown' = read.answer /\ timer' = FALSE
                 ELSE UNCHANGED <<shown, timer>>
            /\ UNCHANGED <<open, release, checking>>
  /\ UNCHANGED <<job, jobs>>

\* A defect: a lost answer ends the watching.
ReadFails_StopsTimer ==
  /\ read.polling /\ ReadOver
  /\ reconnecting' = (reconnecting \/ read.watching) /\ timer' = FALSE
  /\ UNCHANGED <<job, jobs, shown, open, release, checking>>

\* Lost, or aborted after five seconds: not a failure of the job.
ReadFails ==
  /\ read.polling /\ ReadOver
  /\ reconnecting' = (reconnecting \/ read.watching)
  /\ UNCHANGED <<job, jobs, shown, open, release, checking, timer>>

-----------------------------------------------------------------------------
(* install() *)

\* The button is offered in the open dialog when no job runs or has just failed.
Install ==
  /\ open /\ ~running /\ shown # "failed" /\ release = "newer"
  /\ post' = "sent"
  /\ UNCHANGED <<job, jobs, shown, open, release, checking, read, timer, reconnecting>>

Installed ==
  /\ post = "launched" /\ post' = "no"
  /\ shown' = "running" /\ timer' = TRUE
  /\ UNCHANGED <<job, jobs, open, release, checking, read, reconnecting>>

\* Refused, or the answer lost on its way: the job is read once, unless another
\* read is in flight, before the error is shown.
InstallFails ==
  /\ post \in {"sent", "launched", "refused"}
  /\ IF read.polling THEN post' = "no" /\ UNCHANGED read
                     ELSE post' = "recover" /\ read' = Read(FALSE, TRUE)
  /\ UNCHANGED <<job, jobs, shown, open, release, checking, timer, reconnecting>>

-----------------------------------------------------------------------------
(* check() and the dialog *)

\* The version button: while a job runs it only opens the dialog.
Check ==
  /\ checking = "no"
  /\ IF running THEN open' = TRUE /\ UNCHANGED checking
                ELSE checking' = "aloud" /\ UNCHANGED open
  /\ UNCHANGED <<job, jobs, shown, release, post, read, timer, reconnecting>>

\* Retry, after a failure: the failed job is forgotten and the release checked again.
Retry ==
  /\ open /\ ~starting /\ shown = "failed"
  /\ shown' = "none" /\ checking' = "aloud"
  /\ UNCHANGED <<job, jobs, open, release, post, read, timer, reconnecting>>

Checked ==
  /\ checking # "no" /\ checking' = "no"
  /\ \E r \in {"current", "newer", release} :
       /\ release' = r
       /\ open' = (open \/ (checking = "aloud" /\ r = "newer"))
  /\ UNCHANGED <<job, jobs, shown, post, read, timer, reconnecting>>

Close ==
  /\ open /\ open' = FALSE
  /\ UNCHANGED <<job, jobs, shown, release, checking, post, read, timer, reconnecting>>

Next ==
  \/ LaunchedElsewhere \/ JobEnds \/ PostServed \/ Answer
  \/ Poll \/ ArriveRunning \/ ArriveOver \/ ReadFails
  \/ Install \/ Installed \/ InstallFails
  \/ Check \/ Retry \/ Checked \/ Close

\* Jobs end, the timer fires, and a server that is asked again and again answers in the end.
Fairness == /\ WF_vars(JobEnds) /\ WF_vars(Poll) /\ SF_vars(Answer)
            /\ SF_vars(ArriveRunning \/ ArriveOver)

Spec == Init /\ [][Next]_vars
FairSpec == Spec /\ Fairness

-----------------------------------------------------------------------------
States == {"idle", "running", "failed", "succeeded"}

TypeOK ==
  /\ job \in States /\ jobs \in 0..MaxJobs /\ {shown, read.answer} \subseteq States \cup {"none"}
  /\ {open, timer, reconnecting, read.watching, read.recover, read.polling} \subseteq BOOLEAN
  /\ release \in {"none", "current", "newer"} /\ checking \in {"no", "quietly", "aloud"}
  /\ post \in {"no", "sent", "launched", "refused", "recover"}

\* A job is shown as running exactly while the page keeps asking about it: no
\* spinner is left without its timer and no timer without its spinner, in whatever
\* order launches, lost answers and reads from before the launch arrive.
SpinnerIsWatched == timer <=> shown = "running"

\* A job shown as running does not stay so: the restart of the server in its middle
\* and the requests lost to it do not leave the page waiting.
WatchingEnds == (shown = "running") ~> (shown # "running")

=============================================================================
