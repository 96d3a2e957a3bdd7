--------------------------- MODULE MCConfigApply ---------------------------
(* Instances of ConfigApply for TLC.  A behaviour is "quiet", with one base, *)
(* faults that pass and nothing but changes and crossings of the limit, and  *)
(* then shown to take its pauses to the core in the end; or it has two bases,*)
(* every fault and every event, and is then safe.                            *)
EXTENDS ConfigApply

CONSTANTS b1, b2

OneBase  == {b1}
TwoBases == {b1, b2}

NoFaults      == {}
AllFaults     == FaultKinds
PassingFaults == {"check", "restart"}

AllEvents     == EventKinds
QuietEvents   == {"mutate", "cross"}
QuotaEvents   == {"cross", "quota"}

VARIABLE quiet

Q == INSTANCE ConfigApply WITH Bases <- OneBase, Faults <- PassingFaults, Events <- QuietEvents

\* The bases differ in nothing, so that one of them may be the first.
MCInit == quiet \in BOOLEAN /\ (IF quiet THEN Q!Init ELSE Init) /\ business.base = b1

MCNext == UNCHANGED quiet /\ IF quiet THEN Q!Next ELSE Next

\* ConfigApply's fairness, for the quiet behaviours.
MCFairness ==
  /\ WF_vars(quiet /\ Q!MutatePersist) /\ WF_vars(quiet /\ Q!MutateDecide)
  /\ WF_vars(quiet /\ Q!MutateCommit) /\ WF_vars(quiet /\ Q!PausesBegin)
  /\ SF_vars(quiet /\ Q!ApplyBacksUp) /\ SF_vars(quiet /\ Q!ApplyInstall)
  /\ WF_vars(quiet /\ pc = "restart" /\ (Q!RestartOk \/ Q!RestartFails))
  /\ SF_vars(quiet /\ Q!RestartOk) /\ WF_vars(quiet /\ Q!RollbackOk)
  /\ WF_vars(quiet /\ Q!Restore) /\ WF_vars(quiet /\ Q!Settle)
  /\ WF_vars(quiet /\ Q!Sample) /\ WF_vars(quiet /\ Q!QuotaEnforced)

MCSpec == MCInit /\ [][MCNext]_<<quiet, vars>> /\ MCFairness

\* The component alone, with the base, the faults and the events of its configuration.
OpenSpec == quiet = FALSE /\ Init /\ [][MCNext]_<<quiet, vars>>

\* In a quiet behaviour a gateway that stays over its hard limit, or under it, is in
\* the end paused, or resumed, in the running core (ReconcileGatewayPauses).
PausesFollowUsage == quiet => PausesTakeEffect
=============================================================================
