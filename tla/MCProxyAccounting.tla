------------------------- MODULE MCProxyAccounting -------------------------
(* What the proxy relays, counted, attributed and saved, for TLC.  A          *)
(* behaviour is one of its "scene" from the start on, the rest stays as it    *)
(* begins: the totals and their history (ProxyAccounting, small instances),   *)
(* the applications they are attributed to (AppAttribution), or the files      *)
(* beside the database (JSONFile), which take no part in the counting.        *)
EXTENDS ProxyAccounting, TLC

CONSTANTS
  Apps, MaxConnections, MaxAppBytes, MaxRows,                          \* AppAttribution
  Processes, Commands, Changes, MaxDamages, MaxLosses, Absent, Broken  \* JSONFile

VARIABLES
  scene,
  aGeneration, aCount, open, app, aRelayed, aState, active, seeded, aPending, aSaving, aDb, from,
  primary, backup, primaries, backups, pc, fMemory, candidate, copy, acked, known,
  overwritten, overlapped, damages, losses

aVars == <<aGeneration, aCount, open, app, aRelayed, aState, active, seeded, aPending, aSaving,
           aDb, from>>
fVars == <<primary, backup, primaries, backups, pc, fMemory, candidate, copy, acked, known,
           overwritten, overlapped, damages, losses>>

A == INSTANCE AppAttribution WITH
       MaxBytes <- MaxAppBytes, generation <- aGeneration, count <- aCount, relayed <- aRelayed,
       state <- aState, pending <- aPending, saving <- aSaving, db <- aDb
F == INSTANCE JSONFile WITH memory <- fMemory

ASSUME MCAssumption == A!AppsAssumption /\ F!FilesAssumption

MCInit == scene \in {"accounting", "apps", "files"} /\ Init /\ A!Init /\ F!Init

MCNext ==
  /\ UNCHANGED scene
  /\ IF scene = "accounting" THEN Next   ELSE UNCHANGED vars
  /\ IF scene = "apps"       THEN A!Next ELSE UNCHANGED aVars
  /\ IF scene = "files"      THEN F!Next ELSE UNCHANGED fVars

MCSpec == MCInit /\ [][MCNext]_<<scene, vars, aVars, fVars>>

\* The poll loop and an HTTP handler run the same code.
Symmetry == Permutations(Samplers)

-----------------------------------------------------------------------------
\* The applications add up to the proxy total, and no byte of a connection is attributed
\* twice, over samples, saves, restarts and clears (apps.go, recordConnections).
SharesAddUp == scene = "apps" => A!TypeOK /\ A!SharesAddUp /\ A!AttributedOnce

\* The JSON file of the state never holds a total its database has not (persist); and a
\* JSON file keeps what was acknowledged over failed and interrupted saves and power
\* failures, and costs the changes of one save when it is damaged (json.go).
FilesAreSound ==
  /\ scene = "accounting" => MirrorNeverAhead
  /\ scene = "files"      => F!TypeOK /\ F!AckedIsLoaded /\ F!DamageCostsOneSave

=============================================================================
