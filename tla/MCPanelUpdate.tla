--------------------------- MODULE MCPanelUpdate ---------------------------
(* Updates, for TLC: the worker with its launcher and reader, for three       *)
(* releases of which the last does not serve, and the dialog of the page,     *)
(* which knows of them what the status says.  A behaviour is one of the part  *)
(* its "scene" names; the other stays as it is.                               *)
EXTENDS PanelUpdate

CONSTANT MaxJobs  \* UpdateDialog

VARIABLES scene, uJob, jobs, uShown, open, release, checking, post, read, timer, reconnecting

dialog == <<uJob, jobs, uShown, open, release, checking, post, read, timer, reconnecting>>

U == INSTANCE UpdateDialog WITH job <- uJob, shown <- uShown

ASSUME MCAssumption == U!DialogAssumption

MCInit == scene \in {"worker", "dialog"} /\ Init /\ U!Init

MCNext ==
  /\ UNCHANGED scene
  /\ IF scene = "worker" THEN Next ELSE UNCHANGED vars
  /\ IF scene = "dialog" THEN U!Next ELSE UNCHANGED dialog

\* The fairness each part states for itself, where that part runs.
MCFairness ==
  /\ WF_vars(scene = "worker" /\ Launch) /\ WF_vars(scene = "worker" /\ Read)
  /\ \A j \in Jobs : WF_vars(scene = "worker" /\ Work(j))
  /\ WF_dialog(scene = "dialog" /\ U!JobEnds) /\ WF_dialog(scene = "dialog" /\ U!Poll)
  /\ SF_dialog(scene = "dialog" /\ U!Answer)
  /\ SF_dialog(scene = "dialog" /\ (U!ArriveRunning \/ U!ArriveOver))

MCSpec == MCInit /\ [][MCNext]_<<scene, vars, dialog>> /\ MCFairness

-----------------------------------------------------------------------------
\* A job is shown as running exactly while the page keeps asking about it: no spinner
\* is left without its timer and no timer without its spinner (PanelUpdate.vue).
SpinnerIsWatched == scene = "dialog" => U!TypeOK /\ U!SpinnerIsWatched

\* Nobody is shown a running update for ever: not by a status whose worker is gone,
\* as long as the panel serves, nor by a dialog whose requests the restart lost.
WatchingEnds ==
  /\ scene = "worker" => SpinnerEnds
  /\ scene = "dialog" => U!WatchingEnds
=============================================================================
