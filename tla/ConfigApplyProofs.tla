------------------------- MODULE ConfigApplyProofs -------------------------
(***************************************************************************)
(* Theorems about ConfigApply, for every set of configurations, of faults  *)
(* and of events: type correctness, InstalledMatches - between changes the *)
(* core's file is the rendering of what the panel remembers - and          *)
(* CoreRunsSaved - a service that runs has that rendering in force.        *)
(*                                                                         *)
(* InstalledMatches says nothing of a change in progress.  Files, below,   *)
(* adds where the old rendering and the new one are at every step of it:   *)
(* the old one in the file until the installation, then in the backup; and *)
(* the rollback brings it back.                                            *)
(***************************************************************************)
EXTENDS ConfigApply, TLAPS

\* The configuration that is in force again when the change under way fails.
Prior == IF kind = "mutate" THEN old ELSE business

\* The file and the backup along a change.
Files ==
  /\ pc \in {"persist", "decide", "commit"} => kind = "mutate"
  /\ pc \in {"idle", "commit"} /\ ~astray => file = Render(business, applied)
  /\ pc \in {"persist", "decide", "apply", "install", "restore"} /\ ~astray =>
       file = Render(Prior, applied)
  /\ pc \in {"restart", "rollback", "settle"} /\ ~astray => file = wanted
  /\ pc \in {"install", "restart", "rollback"} /\ ~astrayBackup => backup = Render(Prior, applied)

\* A configuration and a pause make a rendering.
LEMMA Rendered ==
  ASSUME NEW b \in Businesses, NEW p \in BOOLEAN
  PROVE  /\ Render(b, p) \in Renderings
         /\ Render(b, p).base = b.base
BY DEF Render, Renderings, Businesses

\* A change that returns leaves its locals well typed.
LEMMA Forgotten ==
  ASSUME Returns, business' \in Businesses
  PROVE  /\ pc' = "idle" /\ kind' = "mutate" /\ flag' = FALSE
         /\ old' \in Businesses /\ wanted' \in Renderings
BY Rendered DEF Returns

\* The initial states have their types and the rendering of their configuration.
LEMMA InitialFiles == Init => TypeOK /\ Files
<1> SUFFICES ASSUME Init PROVE TypeOK /\ Files
  OBVIOUS
<1>1. file \in Renderings
  BY Rendered DEF Init
<1>2. /\ business \in Businesses /\ old \in Businesses
      /\ saved \in [over : BOOLEAN, applied : BOOLEAN]
      /\ cli \in SUBSET [at : CliPlaces, wanted : Renderings, old : Renderings]
      /\ events \in 0..MaxEvents
  BY ConfigAssumption DEF Init
<1>4. /\ backup \in Renderings /\ wanted \in Renderings /\ running \in Renderings
      /\ pc = "idle" /\ kind = "mutate"
  BY <1>1, <1>2, Rendered DEF Init
<1>5. {over, applied, exceeded, flag, signal, astray, astrayBackup, loose} \subseteq BOOLEAN
  BY DEF Init
<1>6. TypeOK
  BY <1>1, <1>2, <1>4, <1>5 DEF TypeOK, Places
<1>3. Files
  BY DEF Init, Files
<1> QED
  BY <1>6, <1>3

\* A command next to the panel touches nothing the panel keeps to itself.
LEMMA CliOutside == ASSUME NEW c \in cli, Cli(c) PROVE UNCHANGED Panel
BY DEF Cli, CliLooks, CliBacksUp, CliInstalls, CliRestarts, CliLooksBack, CliRollsBack,
       CliRestartsAgain

\* Every step keeps the types.
LEMMA TypeStep == TypeOK /\ [Next]_vars => TypeOK'
<1> SUFFICES ASSUME TypeOK, [Next]_vars PROVE TypeOK'
  OBVIOUS
<1> USE ConfigAssumption DEF TypeOK, Places, Renderings, Businesses
<1>1. CASE MutateRefused
  BY <1>1 DEF MutateRefused, Begins, Event, Idle, Readings, change, core, memory
<1>2. ASSUME NEW b \in Businesses, MutateSaved(b) PROVE TypeOK'
  BY <1>2 DEF MutateSaved, Begins, Event, Idle, Readings, core, memory
<1>3. CASE MutatePersist
  <2>1. saved' \in [over : BOOLEAN, applied : BOOLEAN]
    BY <1>3 DEF MutatePersist
  <2>2. business' \in Businesses /\ astray' \in BOOLEAN
    BY <1>3 DEF MutatePersist, Reverts
  <2>3. CASE pc' = "decide" /\ UNCHANGED change
    BY <1>3, <2>1, <2>2, <2>3 DEF MutatePersist, change, core, memory
  <2>4. CASE Reverts
    BY <1>3, <2>1, <2>2, <2>4, Forgotten DEF MutatePersist, Reverts, core, memory
  <2> QED
    BY <1>3, <2>3, <2>4 DEF MutatePersist
<1>4. CASE MutateDecide
  BY <1>4 DEF MutateDecide, Desired, Render, core, memory
<1>5. CASE MutateCommit
  BY <1>5, Forgotten DEF MutateCommit, Persist, Readings, core
<1>6. CASE PausesBegin
  <2>1. Desired \in BOOLEAN
    BY DEF Desired
  <2>2. /\ Render(business, Desired) \in Renderings
        /\ Render(business, Desired).base = business.base
    BY <2>1, Rendered
  <2> QED
    BY ZenonT(30), <1>6, <2>2 DEF PausesBegin, Idle, change, core, memory
<1>7. CASE ApplyRejected
  <2>1. Returns /\ business' \in Businesses /\ astray' \in BOOLEAN
    BY <1>7 DEF ApplyRejected, Fails, Reverts
  <2> QED
    BY <1>7, <2>1, Forgotten DEF ApplyRejected, core, memory
<1>8. CASE ApplyBacksUp \/ ApplyInstall
  BY <1>8 DEF ApplyBacksUp, ApplyInstall, change, memory
<1>9. CASE RestartOk
  BY <1>9 DEF RestartOk, change, memory
<1>10. CASE RestartFails
  BY <1>10 DEF RestartFails, Unclear, change, memory
<1>11. CASE RollbackOk
  BY <1>11 DEF RollbackOk, change, memory
<1>12. CASE RollbackFails
  BY <1>12, Forgotten DEF RollbackFails, core, memory
<1>13. CASE Restore
  <2>1. Returns /\ business' \in Businesses /\ astray' \in BOOLEAN
    BY <1>13 DEF Restore, Fails, Reverts
  <2>2. running' \in Renderings \cup {Stopped} /\ loose' \in BOOLEAN
    BY <1>13 DEF Restore, Unclear
  <2> QED
    BY <1>13, <2>1, <2>2, Forgotten DEF Restore, memory
<1>14. CASE Settle
  <2>1. applied' \in BOOLEAN /\ saved' \in [over : BOOLEAN, applied : BOOLEAN]
    BY <1>14 DEF Settle, Persist
  <2>2. CASE pc' = "commit" /\ UNCHANGED change
    BY <1>14, <2>1, <2>2 DEF Settle, change, core
  <2>3. CASE Returns
    BY <1>14, <2>1, <2>3, Forgotten DEF Settle, core
  <2> QED
    BY <1>14, <2>2, <2>3 DEF Settle
<1>15. CASE Sample
  <2>1. over' \in BOOLEAN /\ applied' \in BOOLEAN /\ events' \in 0..MaxEvents
    <3>1. events' \in 0..MaxEvents
      BY <1>15 DEF Sample, Event
    <3>2. over' = over \/ over' = ~over
      BY <1>15 DEF Sample
    <3>3. applied' = applied
      BY <1>15 DEF Sample
    <3> QED
      BY <3>1, <3>2, <3>3
  <2>2. saved' \in [over : BOOLEAN, applied : BOOLEAN]
    BY <1>15, <2>1 DEF Sample, Persist
  <2>3. signal' \in BOOLEAN
    BY <1>15 DEF Sample
  <2> QED
    BY <1>15, <2>1, <2>2, <2>3 DEF Sample, change, core
<1>16. CASE QuotaTurns
  BY <1>16 DEF QuotaTurns, Event, change, core
<1>17. CASE QuotaEnforced
  BY <1>17 DEF QuotaEnforced, change, memory
<1>18. CASE Reload
  BY <1>18 DEF Reload, change, memory
<1>19. CASE CliReads
  <2>1. \A p \in BOOLEAN : Render(business, p) \in Renderings
    BY Rendered
  <2>2. PICK p \in BOOLEAN :
          cli' = {[at |-> "check", wanted |-> Render(business, p), old |-> Render(business, p)]}
    BY <1>19 DEF CliReads
  <2>3. cli' \in SUBSET [at : CliPlaces, wanted : Renderings, old : Renderings]
    BY <2>1, <2>2 DEF CliPlaces
  <2> QED
    BY <1>19, <2>3 DEF CliReads, Event, change, core, memory
<1>20. ASSUME NEW c \in cli, Cli(c) PROVE TypeOK'
  <2>1. /\ cli' \in SUBSET [at : CliPlaces, wanted : Renderings, old : Renderings]
        /\ {file', backup'} \subseteq Renderings
        /\ running' \in Renderings \cup {Stopped}
        /\ {astray', astrayBackup', loose'} \subseteq BOOLEAN
    <3> USE DEF CliPlaces, CliGoes, CliEndsAt, core
    <3>1. CASE CliLooks(c) \/ CliLooksBack(c)
      BY <3>1 DEF CliLooks, CliLooksBack
    <3>2. CASE CliBacksUp(c)
      BY <3>2 DEF CliBacksUp
    <3>3. CASE CliInstalls(c) \/ CliRollsBack(c)
      BY <3>3 DEF CliInstalls, CliRollsBack
    <3>4. CASE CliRestarts(c)
      BY <3>4 DEF CliRestarts, Unclear
    <3>5. CASE CliRestartsAgain(c)
      BY <3>5 DEF CliRestartsAgain, Unclear
    <3> QED
      BY <1>20, <3>1, <3>2, <3>3, <3>4, <3>5 DEF Cli
  <2> QED
    BY <1>20, <2>1, CliOutside DEF Panel, change, memory
<1>21. CASE CliEnds
  BY <1>21 DEF CliEnds, Panel, change, core, memory
<1>22. CASE Crash
  BY <1>22, Forgotten DEF Crash, Event, Idle, core
<1>23. CASE UNCHANGED vars
  BY <1>23 DEF vars
<1> QED
  BY <1>1, <1>2, <1>3, <1>4, <1>5, <1>6, <1>7, <1>8, <1>9, <1>10, <1>11, <1>12, <1>13, <1>14, <1>15, <1>16, <1>17, <1>18, <1>19, <1>20, <1>21, <1>22, <1>23
     DEF Next

\* Every step keeps the old rendering where a failure finds it, and brings the
\* new one, or the old one, into the file by the time the change ends.
LEMMA FilesStep == TypeOK /\ Files /\ [Next]_vars => Files'
<1> SUFFICES ASSUME TypeOK, Files, [Next]_vars PROVE Files'
  OBVIOUS
<1> USE DEF TypeOK, Files, Prior, Places, Renderings, Businesses
<1>1. CASE MutateRefused
  BY <1>1 DEF MutateRefused, Begins, Event, Idle, Readings, change, core, memory, Render
<1>2. ASSUME NEW b \in Businesses, MutateSaved(b) PROVE Files'
  BY <1>2 DEF MutateSaved, Begins, Event, Idle, Readings, core, memory, Render
<1>3. CASE MutatePersist
  BY <1>3 DEF MutatePersist, Reverts, Returns, change, core, memory, Render
<1>4. CASE MutateDecide
  BY <1>4 DEF MutateDecide, Desired, Render, core, memory
<1>5. CASE MutateCommit
  BY <1>5 DEF MutateCommit, Persist, Readings, Returns, core, Render
<1>6. CASE PausesBegin
  BY <1>6 DEF PausesBegin, Desired, Idle, Render, change, core, memory
<1>7. CASE ApplyRejected
  BY <1>7 DEF ApplyRejected, Fails, Reverts, Returns, core, memory, Render
<1>8. CASE ApplyBacksUp \/ ApplyInstall
  BY <1>8 DEF ApplyBacksUp, ApplyInstall, change, memory, Render
<1>9. CASE RestartOk
  BY <1>9 DEF RestartOk, change, memory, Render
<1>10. CASE RestartFails
  BY <1>10 DEF RestartFails, Unclear, change, memory, Render
<1>11. CASE RollbackOk
  BY <1>11 DEF RollbackOk, change, memory, Render
<1>12. CASE RollbackFails
  BY <1>12 DEF RollbackFails, Returns, core, memory, Render
<1>13. CASE Restore
  BY <1>13 DEF Restore, Fails, Reverts, Returns, memory, Render
<1>14. CASE Settle
  BY <1>14 DEF Settle, Persist, Returns, change, core, Render
<1>15. CASE Sample
  BY <1>15 DEF Sample, Desired, Event, Idle, Persist, change, core, Render
<1>16. CASE QuotaTurns
  BY <1>16 DEF QuotaTurns, Event, change, core, Render
<1>17. CASE QuotaEnforced
  BY <1>17 DEF QuotaEnforced, change, memory, Render
<1>18. CASE Reload
  BY <1>18 DEF Reload, change, memory, Render
<1>19. CASE CliReads
  BY <1>19 DEF CliReads, Event, Render, change, core, memory
<1>20. ASSUME NEW c \in cli, Cli(c) PROVE Files'
  <2>1. UNCHANGED <<business, applied, pc, kind, old, wanted>>
    BY <1>20, CliOutside DEF Panel, change, memory
  <2>2. astray' \/ UNCHANGED <<file, astray>>
    BY <1>20 DEF Cli, CliLooks, CliBacksUp, CliInstalls, CliRestarts, CliLooksBack,
                 CliRollsBack, CliRestartsAgain, core
  <2>3. astrayBackup' \/ UNCHANGED <<backup, astrayBackup>>
    BY <1>20 DEF Cli, CliLooks, CliBacksUp, CliInstalls, CliRestarts, CliLooksBack,
                 CliRollsBack, CliRestartsAgain, core
  <2> QED
    BY <2>1, <2>2, <2>3 DEF Render
<1>21. CASE CliEnds
  BY <1>21 DEF CliEnds, Panel, change, core, memory, Render
<1>22. CASE Crash
  BY <1>22 DEF Crash, Event, Idle, Returns, core, Render
<1>23. CASE UNCHANGED vars
  BY <1>23 DEF vars, Render
<1> QED
  BY <1>1, <1>2, <1>3, <1>4, <1>5, <1>6, <1>7, <1>8, <1>9, <1>10, <1>11, <1>12, <1>13, <1>14, <1>15, <1>16, <1>17, <1>18, <1>19, <1>20, <1>21, <1>22, <1>23
     DEF Next

\* Every variable keeps its type, and a change in progress applies the
\* configuration it has saved (Server.mutateChange, Manager.Apply).
THEOREM TypeCorrect == Spec => []TypeOK
<1>1. Init => TypeOK
  BY InitialFiles
<1> QED
  BY <1>1, TypeStep, PTL DEF Spec

\* Whenever no change is under way, the core's file is the rendering of the saved
\* configuration with the recorded pauses, unless another process wrote it, the
\* panel died in a change, or a rollback could not write (internal/server/server.go
\* mutateChange and ReconcileGatewayPauses, internal/core/manager.go Apply).
THEOREM InstalledAlwaysMatches == Spec => []InstalledMatches
<1>1. Init => TypeOK /\ Files
  BY InitialFiles
<1>2. TypeOK /\ Files /\ [Next]_vars => (TypeOK /\ Files)'
  BY TypeStep, FilesStep
<1>3. Files => InstalledMatches
  BY DEF Files, InstalledMatches, Idle
<1> QED
  BY <1>1, <1>2, <1>3, PTL DEF Spec

\* Outside of a restart and a rollback a service that runs, runs its file.
RunsFile ==
  pc \notin {"restart", "rollback", "restore"} /\ ~astray /\ ~loose /\ running # Stopped =>
    running = file

\* Whatever changes the file restarts the service before the change ends, or
\* leaves a mark.
LEMMA RunsFileStep == TypeOK /\ RunsFile /\ [Next]_vars => RunsFile'
<1> SUFFICES ASSUME TypeOK, RunsFile, [Next]_vars PROVE RunsFile'
  OBVIOUS
<1> USE DEF RunsFile, core
<1>1. CASE MutateRefused
  BY <1>1 DEF MutateRefused, Begins, Idle
<1>2. ASSUME NEW b \in Businesses, MutateSaved(b) PROVE RunsFile'
  BY <1>2 DEF MutateSaved, Begins, Idle
<1>3. CASE MutatePersist
  BY <1>3 DEF MutatePersist, Reverts, Returns
<1>4. CASE MutateDecide
  BY <1>4 DEF MutateDecide
<1>5. CASE MutateCommit
  BY <1>5 DEF MutateCommit, Returns
<1>6. CASE PausesBegin
  BY <1>6 DEF PausesBegin, Idle
<1>7. CASE ApplyRejected
  BY <1>7 DEF ApplyRejected, Fails, Reverts, Returns
<1>8. CASE ApplyBacksUp \/ ApplyInstall
  BY <1>8 DEF ApplyBacksUp, ApplyInstall
<1>9. CASE RestartOk
  BY <1>9 DEF RestartOk
<1>10. CASE RestartFails
  BY <1>10 DEF RestartFails
<1>11. CASE RollbackOk
  BY <1>11 DEF RollbackOk
<1>12. CASE RollbackFails
  BY <1>12 DEF RollbackFails
<1>13. CASE Restore
  BY <1>13 DEF Restore, Fails, Reverts, Returns
<1>14. CASE Settle
  BY <1>14 DEF Settle, Returns
<1>15. CASE Sample
  BY <1>15 DEF Sample
<1>16. CASE QuotaTurns
  BY <1>16 DEF QuotaTurns
<1>17. CASE QuotaEnforced
  BY <1>17 DEF QuotaEnforced
<1>18. CASE Reload
  BY <1>18 DEF Reload
<1>19. CASE CliReads
  BY <1>19 DEF CliReads
<1>20. ASSUME NEW c \in cli, Cli(c) PROVE RunsFile'
  <2>1. pc' = pc
    BY <1>20, CliOutside DEF Panel
  <2>2. CASE UNCHANGED <<file, running, loose, astray>>
    BY <2>1, <2>2
  <2>3. CASE astray'
    BY <2>3
  <2>4. CASE CliRestarts(c) \/ CliRestartsAgain(c)
    BY <2>1, <2>4 DEF CliRestarts, CliRestartsAgain, Unclear
  <2> QED
    BY <1>20, <2>2, <2>3, <2>4 DEF Cli, CliLooks, CliBacksUp, CliInstalls, CliLooksBack, CliRollsBack
<1>21. CASE CliEnds
  BY <1>21 DEF CliEnds, Panel
<1>22. CASE Crash
  BY <1>22 DEF Crash, Idle, TypeOK
<1>23. CASE UNCHANGED vars
  BY <1>23 DEF vars
<1> QED
  BY <1>1, <1>2, <1>3, <1>4, <1>5, <1>6, <1>7, <1>8, <1>9, <1>10, <1>11, <1>12, <1>13, <1>14, <1>15, <1>16, <1>17, <1>18, <1>19, <1>20, <1>21, <1>22, <1>23
     DEF Next

\* Whenever no change is under way, a service that runs has the saved
\* configuration and the recorded pauses in force, unless a quota stop or a
\* second failing restart kept it from its file (internal/core/manager.go Apply).
THEOREM RunningAlwaysSaved == Spec => []CoreRunsSaved
<1>1. Init => TypeOK /\ Files /\ RunsFile
  BY InitialFiles DEF Init, RunsFile
<1>2. TypeOK /\ Files /\ RunsFile /\ [Next]_vars => (TypeOK /\ Files /\ RunsFile)'
  BY TypeStep, FilesStep, RunsFileStep
<1>3. Files /\ RunsFile => CoreRunsSaved
  BY DEF Files, RunsFile, CoreRunsSaved, Idle
<1> QED
  BY <1>1, <1>2, <1>3, PTL DEF Spec

=============================================================================
