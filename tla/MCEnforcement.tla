--------------------------- MODULE MCEnforcement ---------------------------
(* Enforcing the quota, for TLC: QuotaControl, and the locks of the panel that *)
(* enforcement might have to wait for.  The two have no state in common, so a  *)
(* behaviour is one of the part its "scene" names; the other stays as it is.   *)
EXTENDS QuotaControl

CONSTANTS Enforcers, Others  \* LockOrder

VARIABLES scene, todo, holder

locks == <<todo, holder>>

K == INSTANCE LockOrder

ASSUME MCAssumption == K!LocksAssumption

\* One beginning of the control is enough where it does not run.
MCInit ==
  /\ scene \in {"control", "locks"} /\ Init /\ K!Init
  /\ scene = "control" \/ (limit = NoLimit /\ core = TRUE)

MCNext ==
  /\ UNCHANGED scene
  /\ IF scene = "control" THEN Next   ELSE UNCHANGED vars
  /\ IF scene = "locks"   THEN K!Next ELSE UNCHANGED locks

MCSpec == MCInit /\ [][MCNext]_<<scene, vars, locks>>

-----------------------------------------------------------------------------
\* The locks never leave threads waiting for one another, nor whoever counts or enforces
\* waiting for iptables or for an application of the configuration (Tracker.Run).
LocksNeverBlock == scene = "locks" => K!TypeOK /\ K!NoCircle /\ K!EnforcementIsNotDelayed
=============================================================================
