------------------------- MODULE QuotaControlProofs -------------------------
(***************************************************************************)
(* Enforcing the quota: theorems about QuotaControl, and about the order   *)
(* of the locks enforcement might have to wait for (LockOrder).            *)
(*                                                                         *)
(* The core never stands against the quota flag unnoticed, for every set   *)
(* of goroutines and every usage.  NeverUnnoticed is not inductive: a      *)
(* goroutine inside reconcileCore acts on the flag it read there, so the   *)
(* invariant also says that somebody answers for that flag once it is out  *)
(* of date.                                                                *)
(*                                                                         *)
(* No threads wait for one another in a circle, and enforcement waits for  *)
(* no command, for every set of threads.  Neither is inductive: what a     *)
(* thread may wait for depends on the steps it still has to do.  The       *)
(* invariant says that the locks a thread holds are those from which its   *)
(* remaining steps, whichever branches they take, lock upwards in one      *)
(* fixed order, unlock only what is held, run a command under no lock of   *)
(* counting and end with nothing held.  The lemmas about the operations    *)
(* show it of each as it begins, by how it is put together.                *)
(***************************************************************************)
EXTENDS MCEnforcement, SequenceTheorems, TLAPS

\* Places from which a goroutine goes on to take controlMu.
OnTheWay == {"saveControl", "saveQuota", "saveZeroed", "quota", "decide", "control"}

\* Somebody will answer for the flag, or somebody has been told.
Answered == reported \/ \E t \in Threads : Owes(t)

ControlInv ==
  /\ core = ~exceeded \/ Answered \/ (core /\ exceeded /\ overtaken)
  /\ controlMu # Nobody /\ shouldExceed # exceeded => Answered

-----------------------------------------------------------------------------
(* TypeOK *)

\* TypeOK but for the mutexes of every goroutine.
Shapes ==
  /\ usage \in Usages
  /\ source \in {"none", "missing", "stale", "healthy"}
  /\ limit \in Limits
  /\ exceeded \in BOOLEAN
  /\ core \in BOOLEAN
  /\ {sampleMu, networkLock, controlMu} \subseteq Threads \cup {Nobody}
  /\ shouldExceed \in BOOLEAN
  /\ pc \in [Threads -> Places]
  /\ seen \in [Threads -> Limits]
  /\ after \in [Threads -> {"return", "zero", "quota"}]
  /\ db \in [usage : Usages, source : {"none", "missing", "stale", "healthy"},
             exceeded : BOOLEAN]
  /\ reported \in BOOLEAN
  /\ overtaken \in BOOLEAN
  /\ events \in 0..MaxEvents

\* Whoever is inside a critical section holds its mutex.
Inside ==
  \A t \in Threads : /\ pc[t] \in {"sample", "apply"} => sampleMu = t
                     /\ pc[t] \in {"fetch", "saveZeroed"} => networkLock = t
                     /\ pc[t] \in {"probe", "command"} <=> controlMu = t

\* TypeOK in the two parts that are shown apart.
LEMMA TypeParts == TypeOK <=> Shapes /\ Inside
  BY DEF TypeOK, Shapes, Inside

\* A call that ends gives back every mutex and stays well typed.
LEMMA FinishTypes ==
  ASSUME Shapes, Inside, NEW t \in Threads, NEW place \in {"idle", "zero", "quota"},
         Finishes(t, place)
  PROVE  /\ {sampleMu', networkLock', controlMu'} \subseteq Threads \cup {Nobody}
         /\ shouldExceed' \in BOOLEAN
         /\ pc' \in [Threads -> Places]
         /\ seen' \in [Threads -> Limits]
         /\ after' \in [Threads -> {"return", "zero", "quota"}]
         /\ Inside'
<1>1. NoLimit \in Limits /\ place \in Places /\ Nobody \notin Threads
  BY QuotaAssumption DEF Limits, Places
<1>2. /\ pc' \in [Threads -> Places] /\ seen' \in [Threads -> Limits]
      /\ after' \in [Threads -> {"return", "zero", "quota"}]
  BY <1>1 DEF Shapes, Finishes, Goes
<1>3. {sampleMu', networkLock', controlMu'} \subseteq Threads \cup {Nobody}
  BY DEF Shapes, Finishes, Unlocks
<1>4. shouldExceed' \in BOOLEAN
  BY DEF Shapes, Finishes, Unlocks
<1>5. Inside'
  BY <1>1 DEF Shapes, Inside, Finishes, Unlocks, Goes
<1>6. QED
  BY <1>2, <1>3, <1>4, <1>5

\* Where Returns and Fails go.
LEMMA Ends ==
  ASSUME Shapes, NEW t \in Threads
  PROVE  /\ Returns(t) => \E place \in {"idle", "zero", "quota"} : Finishes(t, place)
         /\ Fails(t) => \E place \in {"idle", "zero", "quota"} : Finishes(t, place)
<1>1. after[t] \in {"return", "zero", "quota"}
  BY DEF Shapes
<1>2. QED
  BY <1>1 DEF Returns, Fails

\* A step of Sample keeps the types.
LEMMA SampleTypes ==
  ASSUME TypeOK, NEW t \in Threads,
         \/ SampleBegin(t) \/ SampleUnavailable(t) \/ SampleRead(t) \/ SampleApply(t)
  PROVE  TypeOK'
<1>1. Shapes /\ Inside
  BY TypeParts
<1>2. SUFFICES Shapes' /\ Inside'
  BY DEF TypeOK, Shapes, Inside
<1>3. NoLimit \in Limits /\ Nobody \notin Threads /\ MaxUsage \in Nat /\ MaxEvents \in Nat
  BY QuotaAssumption DEF Limits
<1>4. CASE SampleBegin(t)
  <2>1. Shapes'
    BY <1>1, <1>3, <1>4 DEF SampleBegin, Request, Goes, At, Shapes, Places, measured, mutexes, outside, Usages
  <2>2. Inside'
    BY <1>1, <1>3, <1>4 DEF SampleBegin, Goes, At, Shapes, Inside, mutexes
  <2>3. QED
    BY <2>1, <2>2
<1>5. CASE SampleUnavailable(t)
  <2>1. PICK place \in {"idle", "zero", "quota"} : Finishes(t, place)
    BY <1>5 DEF SampleUnavailable
  <2>2. QED
    BY <1>1, <1>3, <2>1, <1>5, FinishTypes DEF SampleUnavailable, Shapes, measured, mutexes, outside
<1>6. CASE SampleRead(t)
  <2>1. Shapes'
    BY <1>1, <1>3, <1>6 DEF SampleRead, Goes, At, Shapes, Places, measured, mutexes, outside, Usages
  <2>2. Inside'
    BY <1>1, <1>3, <1>6 DEF SampleRead, Goes, At, Shapes, Inside, mutexes
  <2>3. QED
    BY <2>1, <2>2
<1>7. CASE SampleApply(t)
  <2>1. usage' \in Usages /\ exceeded' \in BOOLEAN
    BY <1>1, <1>3, <1>7 DEF SampleApply, Shapes, Usages, OverLimit
  <2>2. CASE OverLimit(usage', seen[t])
    <3>1. Shapes'
      BY <1>1, <1>3, <2>1, <2>2, <1>7 DEF SampleApply, Goes, Shapes, Places, mutexes, outside
    <3>2. Inside'
      BY <1>1, <2>2, <1>7 DEF SampleApply, Goes, At, Shapes, Inside, mutexes
    <3>3. QED
      BY <3>1, <3>2
  <2>3. CASE ~OverLimit(usage', seen[t])
    <3>1. PICK place \in {"idle", "zero", "quota"} : Finishes(t, place)
      BY <1>1, <2>3, <1>7, Ends DEF SampleApply
    <3>2. QED
      BY <1>1, <2>1, <2>3, <3>1, <1>7, FinishTypes DEF SampleApply, Shapes, outside
  <2>4. QED
    BY <2>2, <2>3
<1>8. QED
  BY <1>4, <1>5, <1>6, <1>7

\* A step of SampleNetwork keeps the types.
LEMMA VnStatTypes ==
  ASSUME TypeOK, NEW t \in Threads,
         \/ VnStatBegin(t) \/ VnStatLock(t) \/ VnStatFail(t) \/ VnStatDiscard(t)
         \/ VnStatApply(t)
  PROVE  TypeOK'
<1>1. Shapes /\ Inside
  BY TypeParts
<1>2. SUFFICES Shapes' /\ Inside'
  BY DEF TypeOK, Shapes, Inside
<1>3. NoLimit \in Limits /\ Nobody \notin Threads /\ MaxUsage \in Nat /\ MaxEvents \in Nat
  BY QuotaAssumption DEF Limits
<1>4. CASE VnStatBegin(t)
  <2>1. Shapes'
    BY <1>1, <1>3, <1>4 DEF VnStatBegin, Goes, At, Shapes, Places, measured, mutexes, outside, Usages
  <2>2. Inside'
    BY <1>1, <1>3, <1>4 DEF VnStatBegin, Goes, At, Shapes, Inside, mutexes
  <2>3. QED
    BY <2>1, <2>2
<1>5. CASE VnStatLock(t)
  <2>1. Shapes'
    BY <1>1, <1>3, <1>5 DEF VnStatLock, Goes, At, Shapes, Places, measured, mutexes, outside, Usages
  <2>2. Inside'
    BY <1>1, <1>3, <1>5 DEF VnStatLock, Goes, At, Shapes, Inside, mutexes
  <2>3. QED
    BY <2>1, <2>2
<1>6. CASE VnStatFail(t)
  <2>1. PICK place \in {"idle", "zero", "quota"} : Finishes(t, place)
    BY <1>1, <1>6, Ends DEF VnStatFail
  <2>2. QED
    BY <1>1, <1>3, <2>1, <1>6, FinishTypes DEF VnStatFail, Shapes, measured, mutexes, outside
<1>7. CASE VnStatDiscard(t)
  <2>1. PICK place \in {"idle", "zero", "quota"} : Finishes(t, place)
    BY <1>1, <1>7, Ends DEF VnStatDiscard
  <2>2. QED
    BY <1>1, <1>3, <2>1, <1>7, FinishTypes DEF VnStatDiscard, Shapes, measured, mutexes, outside
<1>8. CASE VnStatApply(t)
  <2>1. Shapes'
    BY <1>1, <1>3, <1>8 DEF VnStatApply, Goes, At, Shapes, Places, measured, mutexes, outside, Usages
  <2>2. Inside'
    BY <1>1, <1>3, <1>8 DEF VnStatApply, Goes, At, Shapes, Inside, mutexes
  <2>3. QED
    BY <2>1, <2>2
<1>9. QED
  BY <1>4, <1>5, <1>6, <1>7, <1>8

\* A save, a decision or a tick keeps the types.
LEMMA QuotaTypes ==
  ASSUME TypeOK, NEW t \in Threads,
         \/ SaveOk(t) \/ SaveFailed(t) \/ SaveRefused(t) \/ QuotaRead(t)
         \/ QuotaDecide(t)
  PROVE  TypeOK'
<1>1. Shapes /\ Inside
  BY TypeParts
<1>2. SUFFICES Shapes' /\ Inside'
  BY DEF TypeOK, Shapes, Inside
<1>3. NoLimit \in Limits /\ Nobody \notin Threads /\ MaxUsage \in Nat /\ MaxEvents \in Nat
  BY QuotaAssumption DEF Limits
<1>4. CASE SaveOk(t)
  <2>1. Shapes'
    BY <1>1, <1>3, <1>4 DEF SaveOk, Saved, Goes, At, Shapes, Places, measured, mutexes, outside, Usages
  <2>2. Inside'
    BY <1>1, <1>3, <1>4 DEF SaveOk, Goes, At, Shapes, Inside, mutexes
  <2>3. QED
    BY <2>1, <2>2
<1>5. CASE SaveFailed(t)
  <2>1. Shapes'
    BY <1>1, <1>3, <1>5 DEF SaveFailed, Goes, At, Shapes, Places, measured, mutexes, outside, Usages
  <2>2. Inside'
    BY <1>1, <1>3, <1>5 DEF SaveFailed, Goes, At, Shapes, Inside, mutexes
  <2>3. QED
    BY <2>1, <2>2
<1>6. CASE SaveRefused(t)
  <2>1. PICK place \in {"idle", "zero", "quota"} : Finishes(t, place)
    BY <1>1, <1>6, Ends DEF SaveRefused
  <2>2. QED
    BY <1>1, <1>3, <2>1, <1>6, FinishTypes DEF SaveRefused, Shapes, measured, mutexes, outside
<1>7. CASE QuotaRead(t)
  <2>1. Shapes'
    BY <1>1, <1>3, <1>7 DEF QuotaRead, Goes, At, Shapes, Places, measured, mutexes, outside, Usages
  <2>2. Inside'
    BY <1>1, <1>3, <1>7 DEF QuotaRead, Goes, At, Shapes, Inside, mutexes
  <2>3. QED
    BY <2>1, <2>2
<1>8. CASE QuotaDecide(t)
  <2>1. Shapes'
    BY <1>1, <1>3, <1>8 DEF QuotaDecide, Decision, Goes, At, Shapes, Places, measured, mutexes, outside, Usages
  <2>2. Inside'
    BY <1>1, <1>3, <1>8 DEF QuotaDecide, Goes, At, Shapes, Inside, mutexes
  <2>3. QED
    BY <2>1, <2>2
<1>9. QED
  BY <1>4, <1>5, <1>6, <1>7, <1>8

\* A step of reconcileCore keeps the types.
LEMMA ControlTypes ==
  ASSUME TypeOK, NEW t \in Threads,
         \/ ControlEnter(t) \/ ProbeAnswered(t) \/ ProbeUnreadable(t) \/ CommandDone(t)
         \/ CommandFailed(t)
  PROVE  TypeOK'
<1>1. Shapes /\ Inside
  BY TypeParts
<1>2. SUFFICES Shapes' /\ Inside'
  BY DEF TypeOK, Shapes, Inside
<1>3. NoLimit \in Limits /\ Nobody \notin Threads /\ MaxUsage \in Nat /\ MaxEvents \in Nat
  BY QuotaAssumption DEF Limits
<1>4. CASE ControlEnter(t)
  <2>1. Shapes'
    BY <1>1, <1>3, <1>4 DEF ControlEnter, Goes, At, Shapes, Places, measured, mutexes, outside, Usages
  <2>2. Inside'
    BY <1>1, <1>3, <1>4 DEF ControlEnter, Goes, At, Shapes, Inside, mutexes
  <2>3. QED
    BY <2>1, <2>2
<1>5. CASE ProbeAnswered(t)
  <2>1. CASE core = ~shouldExceed
    <3>1. PICK place \in {"idle", "zero", "quota"} : Finishes(t, place)
      BY <1>1, <2>1, <1>5, Ends DEF ProbeAnswered
    <3>2. QED
      BY <1>1, <1>3, <2>1, <3>1, <1>5, FinishTypes DEF ProbeAnswered, Settled, Shapes, measured, mutexes, outside
  <2>2. CASE ~(core = ~shouldExceed)
    <3>1. Shapes'
      BY <1>1, <2>2, <1>5 DEF ProbeAnswered, Goes, Shapes, Places, measured, mutexes, outside
    <3>2. Inside'
      BY <1>1, <2>2, <1>5 DEF ProbeAnswered, Goes, At, Shapes, Inside, mutexes
    <3>3. QED
      BY <3>1, <3>2
  <2>3. QED
    BY <2>1, <2>2
<1>6. CASE ProbeUnreadable(t)
  <2>1. CASE ~shouldExceed
    <3>1. PICK place \in {"idle", "zero", "quota"} : Finishes(t, place)
      BY <1>1, <2>1, <1>6, Ends DEF ProbeUnreadable
    <3>2. QED
      BY <1>1, <1>3, <2>1, <3>1, <1>6, FinishTypes DEF ProbeUnreadable, Shapes, measured, mutexes, outside
  <2>2. CASE ~(~shouldExceed)
    <3>1. Shapes'
      BY <1>1, <2>2, <1>6 DEF ProbeUnreadable, Goes, Shapes, Places, measured, mutexes, outside
    <3>2. Inside'
      BY <1>1, <2>2, <1>6 DEF ProbeUnreadable, Goes, At, Shapes, Inside, mutexes
    <3>3. QED
      BY <3>1, <3>2
  <2>3. QED
    BY <2>1, <2>2
<1>7. CASE CommandDone(t)
  <2>1. PICK place \in {"idle", "zero", "quota"} : Finishes(t, place)
    BY <1>1, <1>7, Ends DEF CommandDone
  <2>2. QED
    BY <1>1, <1>3, <2>1, <1>7, FinishTypes DEF CommandDone, Settled, Shapes, measured, mutexes, outside
<1>8. CASE CommandFailed(t)
  <2>1. PICK place \in {"idle", "zero", "quota"} : Finishes(t, place)
    BY <1>1, <1>8, Ends DEF CommandFailed
  <2>2. QED
    BY ZenonT(30), <1>1, <1>3, <2>1, <1>8, FinishTypes DEF CommandFailed, Shapes, measured, mutexes, outside
<1>9. QED
  BY <1>4, <1>5, <1>6, <1>7, <1>8

\* A step of a handler keeps the types.
LEMMA RequestTypes ==
  ASSUME TypeOK, NEW t \in Threads,
         \/ ZeroRequest(t) \/ ZeroRejected(t) \/ ResetApply(t) \/ CalibrateApply(t)
         \/ SettingsRequest(t) \/ ScheduleSaved(t) \/ ScheduleRefused(t) \/ RestartRequest(t)
         \/ RestartCore(t) \/ RestartFailed(t)
  PROVE  TypeOK'
<1>1. Shapes /\ Inside
  BY TypeParts
<1>2. SUFFICES Shapes' /\ Inside'
  BY DEF TypeOK, Shapes, Inside
<1>3. NoLimit \in Limits /\ Nobody \notin Threads /\ MaxUsage \in Nat /\ MaxEvents \in Nat
  BY QuotaAssumption DEF Limits
<1>4. CASE ZeroRequest(t)
  <2>1. Shapes'
    BY <1>1, <1>3, <1>4 DEF ZeroRequest, Request, Goes, At, Shapes, Places, measured, mutexes, outside, Usages
  <2>2. Inside'
    BY <1>1, <1>3, <1>4 DEF ZeroRequest, Goes, At, Shapes, Inside, mutexes
  <2>3. QED
    BY <2>1, <2>2
<1>5. CASE ZeroRejected(t)
  <2>1. Shapes'
    BY <1>1, <1>3, <1>5 DEF ZeroRejected, Goes, At, Shapes, Places, measured, mutexes, outside, Usages
  <2>2. Inside'
    BY <1>1, <1>3, <1>5 DEF ZeroRejected, Goes, At, Shapes, Inside, mutexes
  <2>3. QED
    BY <2>1, <2>2
<1>6. CASE ResetApply(t)
  <2>1. Shapes'
    BY <1>1, <1>3, <1>6 DEF ResetApply, Goes, At, Shapes, Places, measured, mutexes, outside, Usages
  <2>2. Inside'
    BY <1>1, <1>3, <1>6 DEF ResetApply, Goes, At, Shapes, Inside, mutexes
  <2>3. QED
    BY <2>1, <2>2
<1>7. CASE CalibrateApply(t)
  <2>1. Shapes'
    BY <1>1, <1>3, <1>7 DEF CalibrateApply, Goes, At, Shapes, Places, measured, mutexes, outside, Usages
  <2>2. Inside'
    BY <1>1, <1>3, <1>7 DEF CalibrateApply, Goes, At, Shapes, Inside, mutexes
  <2>3. QED
    BY <2>1, <2>2
<1>8. CASE SettingsRequest(t)
  <2>1. Shapes'
    BY <1>1, <1>3, <1>8 DEF SettingsRequest, Request, Goes, At, Shapes, Places, measured, mutexes, outside, Usages
  <2>2. Inside'
    BY <1>1, <1>3, <1>8 DEF SettingsRequest, Goes, At, Shapes, Inside, mutexes
  <2>3. QED
    BY <2>1, <2>2
<1>9. CASE ScheduleSaved(t)
  <2>1. Shapes'
    BY <1>1, <1>3, <1>9 DEF ScheduleSaved, Saved, Goes, At, Shapes, Places, measured, mutexes, outside, Usages
  <2>2. Inside'
    BY <1>1, <1>3, <1>9 DEF ScheduleSaved, Goes, At, Shapes, Inside, mutexes
  <2>3. QED
    BY <2>1, <2>2
<1>10. CASE ScheduleRefused(t)
  <2>1. PICK place \in {"idle", "zero", "quota"} : Finishes(t, place)
    BY <1>10 DEF ScheduleRefused
  <2>2. QED
    BY <1>1, <1>3, <2>1, <1>10, FinishTypes DEF ScheduleRefused, Shapes, measured, mutexes, outside
<1>11. CASE RestartRequest(t)
  <2>1. Shapes'
    BY <1>1, <1>3, <1>11 DEF RestartRequest, Request, Goes, At, Shapes, Places, measured, mutexes, outside, Usages
  <2>2. Inside'
    BY <1>1, <1>3, <1>11 DEF RestartRequest, Goes, At, Shapes, Inside, mutexes
  <2>3. QED
    BY <2>1, <2>2
<1>12. CASE RestartCore(t)
  <2>1. Shapes'
    BY <1>1, <1>3, <1>12 DEF RestartCore, Goes, At, Shapes, Places, measured, mutexes, outside, Usages
  <2>2. Inside'
    BY <1>1, <1>3, <1>12 DEF RestartCore, Goes, At, Shapes, Inside, mutexes
  <2>3. QED
    BY <2>1, <2>2
<1>13. CASE RestartFailed(t)
  <2>1. Shapes'
    BY <1>1, <1>3, <1>13 DEF RestartFailed, Goes, At, Shapes, Places, measured, mutexes, outside, Usages
  <2>2. Inside'
    BY <1>1, <1>3, <1>13 DEF RestartFailed, Goes, At, Shapes, Inside, mutexes
  <2>3. QED
    BY <2>1, <2>2
<1>14. QED
  BY <1>4, <1>5, <1>6, <1>7, <1>8, <1>9, <1>10, <1>11, <1>12, <1>13

\* Every step keeps the types.
LEMMA TypeStep == TypeOK /\ [Next]_vars => TypeOK'
<1>1. SUFFICES ASSUME TypeOK, [Next]_vars PROVE TypeOK'
  OBVIOUS
<1>2. Shapes /\ Inside
  BY <1>1, TypeParts
<1>3. Poll \in Threads /\ NoLimit \in Limits /\ Nobody \notin Threads /\ MaxEvents \in Nat
  BY QuotaAssumption DEF Threads, Limits
<1>4. CASE Tick
  <2>1. Shapes'
    BY <1>2, <1>3, <1>4 DEF Tick, Goes, At, Shapes, Places, measured, mutexes, outside
  <2>2. Inside'
    BY <1>2, <1>3, <1>4 DEF Tick, Goes, At, Shapes, Inside, mutexes
  <2>3. QED
    BY <2>1, <2>2 DEF TypeOK, Shapes, Inside
<1>5. CASE \E t \in Threads : Begin(t) \/ Continue(t)
  BY <1>1, <1>5, SampleTypes, VnStatTypes, QuotaTypes, ControlTypes, RequestTypes
     DEF Begin, Continue, Reconciling
<1>6. CASE CoreFails
  BY <1>1, <1>6 DEF CoreFails, TypeOK, measured, mutexes
<1>7. CASE PanelRestart
  <2>1. Shapes'
    <3>1. usage' \in Usages /\ source' \in {"none", "missing", "stale", "healthy"}
            /\ exceeded' \in BOOLEAN
      BY <1>2, <1>7 DEF PanelRestart, Shapes
    <3>2. /\ pc' \in [Threads -> Places] /\ seen' \in [Threads -> Limits]
          /\ after' \in [Threads -> {"return", "zero", "quota"}]
      BY <1>3, <1>7 DEF PanelRestart, Opened, Places
    <3>3. {sampleMu', networkLock', controlMu'} \subseteq Threads \cup {Nobody}
            /\ shouldExceed' \in BOOLEAN
      BY <1>7 DEF PanelRestart, Opened
    <3>4. events' \in 0..MaxEvents /\ UNCHANGED <<limit, core, db>>
      BY <1>2, <1>3, <1>7 DEF PanelRestart, Shapes
    <3>5. reported' \in BOOLEAN /\ overtaken' \in BOOLEAN
      BY <1>7 DEF PanelRestart
    <3>6. QED
      BY <1>2, <3>1, <3>2, <3>3, <3>4, <3>5 DEF Shapes
  <2>2. Inside'
    BY <1>2, <1>3, <1>7 DEF PanelRestart, Opened, Inside
  <2>3. QED
    BY <2>1, <2>2 DEF TypeOK, Shapes, Inside
<1>8. CASE \E t \in Workers : VnStatBegin(t)
  BY <1>1, <1>8, VnStatTypes DEF Threads
<1>9. CASE UNCHANGED vars
  BY <1>1, <1>9 DEF TypeOK, vars
<1>10. QED
  BY <1>1, <1>4, <1>5, <1>6, <1>7, <1>8, <1>9 DEF Next

\* A panel that has just been opened is well typed.
LEMMA InitTypes == Init => TypeOK
<1>1. Poll \in Threads /\ NoLimit \in Limits /\ Nobody \notin Threads
        /\ 0 \in Usages /\ MaxEvents \in Nat
  BY QuotaAssumption DEF Threads, Limits, Usages
<1>2. SUFFICES ASSUME Init PROVE Shapes /\ Inside
  BY TypeParts
<1>3. pc \in [Threads -> Places] /\ seen \in [Threads -> Limits]
        /\ after \in [Threads -> {"return", "zero", "quota"}]
  BY <1>1, <1>2 DEF Init, Places
<1>4. db \in [usage : Usages, source : {"none", "missing", "stale", "healthy"},
              exceeded : BOOLEAN]
  BY <1>1, <1>2 DEF Init, Saved
<1>5. {sampleMu, networkLock, controlMu} \subseteq Threads \cup {Nobody}
        /\ shouldExceed \in BOOLEAN /\ exceeded \in BOOLEAN /\ core \in BOOLEAN
        /\ reported \in BOOLEAN /\ overtaken \in BOOLEAN /\ limit \in Limits
  BY <1>2 DEF Init
<1>6. usage \in Usages /\ source \in {"none", "missing", "stale", "healthy"}
        /\ events \in 0..MaxEvents
  BY <1>1, <1>2 DEF Init
<1>7. Inside
  BY <1>1, <1>2 DEF Init, Inside
<1>8. QED
  BY <1>3, <1>4, <1>5, <1>6, <1>7 DEF Shapes

\* Every variable keeps its shape, and whoever is inside a critical section of
\* Sample, SampleNetwork, resetNetwork or reconcileCore holds its mutex.
THEOREM TypeCorrect == Spec => []TypeOK
  BY InitTypes, TypeStep, PTL DEF Spec

-----------------------------------------------------------------------------
(* NeverUnnoticed *)

\* A goroutine on its way to controlMu answers for whatever has happened.
LEMMA Owing ==
  ASSUME NEW t \in Threads, pc'[t] \in OnTheWay
  PROVE  ControlInv'
  BY DEF ControlInv, Answered, Owes, OnTheWay

\* So does an error that has been reported.
LEMMA Told ==
  ASSUME reported'
  PROVE  ControlInv'
  BY DEF ControlInv, Answered

\* A goroutine that was not on its way takes nothing along when it moves.
LEMMA Steady ==
  ASSUME TypeOK, ControlInv, NEW t \in Threads, pc[t] \notin OnTheWay, NEW place,
         pc' = [pc EXCEPT ![t] = place],
         UNCHANGED <<exceeded, core, reported, overtaken, controlMu, shouldExceed>>
  PROVE  ControlInv'
<1>1. \A u \in Threads : Owes(u) => Owes(u)'
  BY DEF TypeOK, Owes, OnTheWay
<1>2. Answered => Answered'
  BY <1>1 DEF Answered
<1>3. QED
  BY <1>2 DEF ControlInv

\* The same for one that ends a call without having been in reconcileCore.
LEMMA Leaving ==
  ASSUME TypeOK, ControlInv, NEW t \in Threads, NEW place, Finishes(t, place),
         pc[t] \notin OnTheWay, pc[t] \notin {"probe", "command"},
         UNCHANGED <<exceeded, core, reported, overtaken>>
  PROVE  ControlInv'
<1>1. UNCHANGED <<controlMu, shouldExceed>>
  BY DEF TypeOK, Finishes, Unlocks
<1>2. QED
  BY <1>1, Steady DEF Finishes, Goes

\* Where a call ends is one place.
LEMMA EndPlace ==
  ASSUME NEW t \in Threads, Returns(t) \/ Fails(t)
  PROVE  \E place : Finishes(t, place)
  BY DEF Returns, Fails

\* A reconciliation that succeeds leaves the core as its flag wants it.
LEMMA Settling ==
  ASSUME TypeOK, ControlInv, NEW t \in Threads, controlMu = t,
         pc[t] \in {"probe", "command"}, Returns(t), Settled,
         core' = ~shouldExceed, UNCHANGED exceeded
  PROVE  ControlInv'
<1>1. controlMu' = Nobody /\ (\E place : pc' = [pc EXCEPT ![t] = place])
  BY DEF Returns, Finishes, Unlocks, Goes
<1>2. CASE shouldExceed = exceeded
  BY <1>1, <1>2 DEF ControlInv
<1>3. CASE shouldExceed # exceeded
  <2>1. Answered
    BY <1>3, QuotaAssumption DEF ControlInv
  <2>2. \A u \in Threads : Owes(u) => u # t /\ pc[u] \in OnTheWay
    BY <1>3 DEF Owes, OnTheWay, TypeOK
  <2>3. Answered'
    BY <1>1, <1>3, <2>1, <2>2 DEF Answered, Owes, OnTheWay, Settled, TypeOK
  <2>4. QED
    BY <2>3 DEF ControlInv
<1>4. QED
  BY <1>2, <1>3

\* A step of a goroutine leaves somebody to answer for the flag.
LEMMA ControlThreadStep ==
  ASSUME TypeOK, ControlInv, NEW t \in Threads,
         VnStatBegin(t) \/ Begin(t) \/ Continue(t)
  PROVE  ControlInv'
<1> USE DEF At, Goes
<1>1. pc \in [Threads -> Places]
  BY DEF TypeOK
<1>2. CASE SampleBegin(t)
  BY <1>2, Steady DEF SampleBegin, OnTheWay, mutexes
<1>3. CASE SampleRead(t)
  BY <1>3, Steady DEF SampleRead, OnTheWay, mutexes, outside
<1>4. CASE VnStatBegin(t)
  BY <1>4, Steady DEF VnStatBegin, OnTheWay, mutexes, outside
<1>5. CASE VnStatLock(t)
  BY <1>5, Steady DEF VnStatLock, OnTheWay, outside
<1>6. CASE ZeroRequest(t)
  BY <1>6, Steady DEF ZeroRequest, OnTheWay, mutexes
<1>7. CASE ZeroRejected(t)
  BY <1>7, Steady DEF ZeroRejected, OnTheWay, mutexes, outside
<1>8. CASE SettingsRequest(t)
  BY <1>8, Steady DEF SettingsRequest, OnTheWay, mutexes
<1>9. CASE ScheduleSaved(t)
  BY <1>9, Steady DEF ScheduleSaved, OnTheWay, mutexes
<1>10. CASE RestartRequest(t)
  BY <1>10, Steady DEF RestartRequest, OnTheWay, mutexes
<1>11. CASE SampleUnavailable(t)
  BY <1>11, Leaving DEF SampleUnavailable, OnTheWay, outside
<1>12. CASE VnStatFail(t)
  <2>1. \E place : Finishes(t, place)
    BY <1>12, EndPlace DEF VnStatFail
  <2>2. QED
    BY <2>1, <1>12, Leaving DEF VnStatFail, OnTheWay, outside
<1>13. CASE VnStatDiscard(t)
  <2>1. \E place : Finishes(t, place)
    BY <1>13, EndPlace DEF VnStatDiscard
  <2>2. QED
    BY <2>1, <1>13, Leaving DEF VnStatDiscard, OnTheWay, outside
<1>14. CASE ScheduleRefused(t)
  BY <1>14, Leaving DEF ScheduleRefused, OnTheWay, outside
<1>15. CASE VnStatApply(t)
  BY <1>1, <1>15, Owing DEF VnStatApply, OnTheWay
<1>16. CASE SaveFailed(t)
  BY <1>1, <1>16, Owing DEF SaveFailed, OnTheWay
<1>17. CASE QuotaRead(t)
  BY <1>1, <1>17, Owing DEF QuotaRead, OnTheWay
<1>18. CASE QuotaDecide(t)
  BY <1>1, <1>18, Owing DEF QuotaDecide, OnTheWay
<1>19. CASE ResetApply(t)
  BY <1>1, <1>19, Owing DEF ResetApply, OnTheWay
<1>20. CASE CalibrateApply(t)
  BY <1>1, <1>20, Owing DEF CalibrateApply, OnTheWay
<1>21. CASE SaveRefused(t)
  BY <1>21, Told DEF SaveRefused
<1>22. CASE CommandFailed(t)
  BY <1>22, Told DEF CommandFailed
<1>23. CASE RestartFailed(t)
  BY <1>23, Told DEF RestartFailed
<1>24. CASE SampleApply(t)
  <2>1. CASE OverLimit(usage', seen[t])
    BY <1>1, <2>1, <1>24, Owing DEF SampleApply, OnTheWay
  <2>2. CASE ~OverLimit(usage', seen[t])
    <3>1. (\E place : Finishes(t, place)) /\ UNCHANGED <<exceeded, core, reported, overtaken>>
      BY <2>2, <1>24, EndPlace DEF SampleApply, TypeOK, outside
    <3>2. QED
      BY <3>1, <1>24, Leaving DEF SampleApply, OnTheWay
  <2>3. QED
    BY <2>1, <2>2
<1>25. CASE SaveOk(t)
  <2>1. CASE At(t, "saveRestart")
    BY <2>1, <1>25, Steady DEF SaveOk, OnTheWay, mutexes
  <2>2. CASE ~At(t, "saveRestart")
    BY <1>1, <2>2, <1>25, Owing DEF SaveOk, OnTheWay
  <2>3. QED
    BY <2>1, <2>2
<1>26. CASE ControlEnter(t)
  BY <1>1, <1>26 DEF ControlEnter, ControlInv, Answered, Owes
<1>27. CASE ProbeAnswered(t)
  <2>1. CASE core = ~shouldExceed
    BY <2>1, <1>27, Settling DEF ProbeAnswered, TypeOK
  <2>2. CASE core # ~shouldExceed
    BY <2>2, <1>27, Steady DEF ProbeAnswered, OnTheWay, mutexes
  <2>3. QED
    BY <2>1, <2>2
<1>28. CASE ProbeUnreadable(t)
  <2>1. CASE shouldExceed
    BY <2>1, <1>28, Steady DEF ProbeUnreadable, OnTheWay, mutexes
  <2>2. CASE ~shouldExceed
    BY <2>2, <1>28, Told DEF ProbeUnreadable
  <2>3. QED
    BY <2>1, <2>2
<1>29. CASE CommandDone(t)
  BY <1>29, Settling DEF CommandDone, TypeOK
<1>30. CASE RestartCore(t)
  <2>1. \A u \in Threads : Owes(u) => Owes(u)'
    BY <1>30 DEF RestartCore, Owes, TypeOK, mutexes
  <2>2. Answered => Answered'
    BY <2>1, <1>30 DEF RestartCore, Answered
  <2>3. core' = TRUE /\ (exceeded => overtaken') /\ UNCHANGED <<exceeded, controlMu, shouldExceed>>
    BY <1>30 DEF RestartCore, mutexes
  <2>4. QED
    BY <2>2, <2>3 DEF ControlInv
<1>31. QED
  BY <1>2, <1>3, <1>4, <1>5, <1>6, <1>7, <1>8, <1>9, <1>10, <1>11, <1>12, <1>13, <1>14, <1>15, <1>16, <1>17, <1>18, <1>19, <1>20, <1>21, <1>22, <1>23, <1>24, <1>25, <1>26, <1>27, <1>28, <1>29, <1>30 DEF Begin, Continue, Reconciling

\* Every step leaves somebody to answer for the flag.
LEMMA ControlStep == TypeOK /\ ControlInv /\ [Next]_vars => ControlInv'
<1>1. SUFFICES ASSUME TypeOK, ControlInv, [Next]_vars PROVE ControlInv'
  OBVIOUS
<1>2. CASE Tick
  BY <1>1, <1>2, Owing DEF Tick, Goes, OnTheWay, TypeOK, Threads
<1>3. CASE \E t \in Threads : Begin(t) \/ Continue(t)
  BY <1>1, <1>3, ControlThreadStep
<1>4. CASE \E t \in Workers : VnStatBegin(t)
  BY <1>1, <1>4, ControlThreadStep DEF Threads
<1>5. CASE CoreFails
  BY <1>5, Told DEF CoreFails
<1>6. CASE PanelRestart
  BY <1>6, Told DEF PanelRestart
<1>7. CASE UNCHANGED vars
  BY <1>1, <1>7 DEF ControlInv, Answered, Owes, vars
<1>8. QED
  BY <1>1, <1>2, <1>3, <1>4, <1>5, <1>6, <1>7 DEF Next

\* The core is never down without a stop unless a goroutine is about to reconcile
\* it or an error has been reported since they last agreed; it runs under a stop
\* only then too, or after a restart that the stop has overtaken.
THEOREM NeverUnnoticedHolds == Spec => []NeverUnnoticed
<1>1. Init => ControlInv
  BY DEF Init, ControlInv, Answered
<1>2. ControlInv => NeverUnnoticed
  BY DEF ControlInv, Answered, NeverUnnoticed
<1>3. QED
  BY <1>1, <1>2, TypeCorrect, ControlStep, PTL DEF Spec

\* A saved stop is not lifted while vnStat has nothing on record for the period and everybody
\* who looks sees a limit (Decision, and what a new panel process starts from).
THEOREM SavedStopAlwaysKept == Spec => SavedStopKept
<1> DEFINE Stopped == /\ exceeded /\ db.exceeded
                      /\ source \in {"none", "missing"}
                      /\ \A t \in Threads : At(t, "decide") => seen[t] # NoLimit
<1>1. ASSUME TypeOK, Stopped, NEW t \in Threads, Begin(t) \/ Continue(t)
      PROVE  exceeded'
  <2>1. CASE UNCHANGED exceeded
    BY <1>1, <2>1
  <2>2. CASE SampleApply(t)
    BY <1>1, <2>2 DEF SampleApply
  <2>3. CASE QuotaDecide(t)
    BY <1>1, <2>3 DEF QuotaDecide, Decision
  <2>4. CASE ResetApply(t)
    BY <1>1, <2>4 DEF ResetApply
  <2>5. SampleApply(t) \/ QuotaDecide(t) \/ ResetApply(t) \/ UNCHANGED exceeded
    <3>1. CASE Begin(t)
      BY <3>1 DEF Begin, SampleBegin, ZeroRequest, SettingsRequest, RestartRequest
    <3>2. CASE SampleUnavailable(t) \/ SampleRead(t) \/ VnStatLock(t) \/ VnStatFail(t)
               \/ VnStatDiscard(t) \/ VnStatApply(t)
      BY <3>2 DEF SampleUnavailable, SampleRead, VnStatLock, VnStatFail, VnStatDiscard, VnStatApply
    <3>3. CASE SaveOk(t) \/ SaveFailed(t) \/ SaveRefused(t) \/ QuotaRead(t)
      BY <3>3 DEF SaveOk, SaveFailed, SaveRefused, QuotaRead
    <3>4. CASE Reconciling(t)
      BY <3>4 DEF Reconciling, ControlEnter, ProbeAnswered, ProbeUnreadable, CommandDone, CommandFailed
    <3>5. CASE ZeroRejected(t) \/ CalibrateApply(t) \/ ScheduleSaved(t) \/ ScheduleRefused(t)
               \/ RestartCore(t) \/ RestartFailed(t)
      BY <3>5 DEF ZeroRejected, CalibrateApply, ScheduleSaved, ScheduleRefused, RestartCore, RestartFailed
    <3> QED
      BY <1>1, <3>1, <3>2, <3>3, <3>4, <3>5 DEF Continue
  <2> QED
    BY <2>1, <2>2, <2>3, <2>4, <2>5
<1>2. ASSUME TypeOK, Stopped, [Next]_vars PROVE exceeded'
  <2>1. CASE Tick \/ (\E t \in Workers : VnStatBegin(t)) \/ CoreFails \/ UNCHANGED vars
    BY <1>2, <2>1 DEF Tick, VnStatBegin, CoreFails, vars
  <2>2. CASE PanelRestart
    BY <1>2, <2>2 DEF PanelRestart
  <2> QED
    BY <1>1, <1>2, <2>1, <2>2 DEF Next
<1>3. TypeOK /\ [Next]_vars => [Stopped => exceeded']_vars
  BY <1>2
<1> QED
  BY <1>3, TypeCorrect, PTL DEF Spec, SavedStopKept

-----------------------------------------------------------------------------
(* Locks *)

\* The order in which locks are taken.
Rank == [lock \in K!Locks |->
           CASE lock = "mutationMu"  -> 1 [] lock = "gatewayMu"  -> 2 [] lock = "healthMu"  -> 3
             [] lock = "manager.mu"  -> 4 [] lock = "versionMu"  -> 5 [] lock = "sampleMu"  -> 6
             [] lock = "networkLock" -> 7 [] lock = "controlMu"  -> 8 [] lock = "persistMu" -> 9
             [] lock = "connection"  -> 10]

\* The locks of whoever counts and enforces: nobody who runs a command holds one.
Counting == {"sampleMu", "networkLock", "controlMu", "persistMu", "connection"}

Steps == [does : {"lock", "unlock"}, on : K!Locks] \cup [does : {"skip"}, over : Nat]
         \cup [does : {"command"}, on : {"iptables", "apply"}]

Below(H, n) == H \in SUBSET K!Locks /\ \A lock \in H : Rank[lock] < n

\* h is what a thread holds before each of the steps, and after the last; of the locks in L
\* it takes each above those it holds.
Marks(s, h, L) ==
  /\ s \in Seq(Steps) /\ h \in [1..(Len(s) + 1) -> SUBSET K!Locks]
  /\ \A i \in 1..Len(s) :
       /\ s[i].does = "lock" =>
            s[i].on \in L /\ Below(h[i], Rank[s[i].on]) /\ h[i + 1] = h[i] \cup {s[i].on}
       /\ s[i].does = "unlock" => s[i].on \in h[i] /\ h[i + 1] = h[i] \ {s[i].on}
       /\ s[i].does = "command" => h[i] \cap Counting = {} /\ h[i + 1] = h[i]
       /\ s[i].does = "skip" =>
            i + s[i].over <= Len(s) /\ h[i + 1] = h[i] /\ h[i + 1 + s[i].over] = h[i]

\* Whoever holds H runs the steps in that order and then holds F.
Runs(s, H, F, L) == \E h : Marks(s, h, L) /\ h[1] = H /\ h[Len(s) + 1] = F

Holds(t) == {lock \in K!Locks : holder[lock] = t}

\* The locks a thread may ask for.
Reach(t) == IF t \in Enforcers THEN Counting ELSE K!Locks

LockInv ==
  /\ holder \in [K!Locks -> K!Threads \cup {Nobody}]
  /\ DOMAIN todo = K!Threads
  /\ \A t \in K!Threads : Runs(todo[t], Holds(t), {}, Reach(t))

-----------------------------------------------------------------------------
\* f is g, and from where g ends it is h.
IsJoin(f, a, b, g, h) ==
  /\ \A i \in 1..(Len(a) + 1) : f[i] = g[i]
  /\ \A i \in 1..(Len(b) + 1) : f[Len(a) + i] = h[i]

LEMMA Joined ==
  ASSUME NEW L, NEW a, NEW b, NEW M, NEW g, NEW h, Marks(a, g, L), Marks(b, h, L),
         g[Len(a) + 1] = M, h[1] = M
  PROVE  \E f : Marks(a \o b, f, L) /\ IsJoin(f, a, b, g, h)
<1>1. a \in Seq(Steps) /\ b \in Seq(Steps) /\ Len(a) \in Nat /\ Len(b) \in Nat
  BY DEF Marks
<1>2. /\ a \o b \in Seq(Steps) /\ Len(a \o b) = Len(a) + Len(b)
      /\ \A i \in 1..Len(a) : (a \o b)[i] = a[i]
      /\ \A i \in 1..Len(b) : (a \o b)[Len(a) + i] = b[i]
  BY <1>1
<1> DEFINE f == [i \in 1..(Len(a) + Len(b) + 1) |-> IF i <= Len(a) THEN g[i] ELSE h[i - Len(a)]]
<1>3. /\ \A i \in 1..(Len(a) + 1) : f[i] = g[i]
      /\ \A i \in 1..(Len(b) + 1) : f[Len(a) + i] = h[i]
  BY <1>1
<1>4. f \in [1..(Len(a \o b) + 1) -> SUBSET K!Locks]
  BY <1>1, <1>2 DEF Marks
<1> HIDE DEF f
<1>5. ASSUME NEW i \in 1..Len(a \o b)
      PROVE  /\ (a \o b)[i].does = "lock" =>
                  /\ (a \o b)[i].on \in L /\ Below(f[i], Rank[(a \o b)[i].on])
                  /\ f[i + 1] = f[i] \cup {(a \o b)[i].on}
             /\ (a \o b)[i].does = "unlock" =>
                  (a \o b)[i].on \in f[i] /\ f[i + 1] = f[i] \ {(a \o b)[i].on}
             /\ (a \o b)[i].does = "command" => f[i] \cap Counting = {} /\ f[i + 1] = f[i]
             /\ (a \o b)[i].does = "skip" =>
                  /\ i + (a \o b)[i].over <= Len(a \o b) /\ f[i + 1] = f[i]
                  /\ f[i + 1 + (a \o b)[i].over] = f[i]
  <2>1. CASE i <= Len(a)
    <3>1. i \in 1..Len(a) /\ (a \o b)[i] = a[i] /\ f[i] = g[i] /\ f[i + 1] = g[i + 1]
      BY <1>1, <1>2, <1>3, <2>1
    <3>2. a[i].does = "skip" => a[i].over \in Nat
      BY <1>1, <3>1 DEF Steps
    <3>3. a[i].does = "skip" => f[i + 1 + a[i].over] = g[i + 1 + a[i].over]
      BY SMTT(30), <1>1, <1>3, <3>1, <3>2 DEF Marks
    <3> QED
      BY <1>1, <1>2, <3>1, <3>2, <3>3 DEF Marks
  <2>2. CASE i > Len(a)
    <3> DEFINE j == i - Len(a)
    <3>1. j \in 1..Len(b) /\ i = Len(a) + j /\ i + 1 = Len(a) + (j + 1)
      BY <1>1, <1>2, <2>2
    <3> HIDE DEF j
    <3>2. (a \o b)[i] = b[j] /\ f[i] = h[j] /\ f[i + 1] = h[j + 1]
      <4>1. j \in 1..(Len(b) + 1) /\ j + 1 \in 1..(Len(b) + 1)
        BY <1>1, <3>1
      <4>2. f[Len(a) + j] = h[j] /\ f[Len(a) + (j + 1)] = h[j + 1] /\ (a \o b)[Len(a) + j] = b[j]
        BY <1>2, <1>3, <3>1, <4>1
      <4> QED
        BY <3>1, <4>2
    <3>3. b[j].does = "skip" => b[j].over \in Nat
      BY <1>1, <3>1 DEF Steps
    <3>4. b[j].does = "skip" => f[i + 1 + b[j].over] = h[j + 1 + b[j].over]
      <4> SUFFICES ASSUME b[j].does = "skip" PROVE f[i + 1 + b[j].over] = h[j + 1 + b[j].over]
        OBVIOUS
      <4>1. j + b[j].over <= Len(b) /\ j \in Nat /\ b[j].over \in Nat
        BY <3>1, <3>3 DEF Marks
      <4>2. j + 1 + b[j].over \in 1..(Len(b) + 1)
        <5>1. \A x \in Nat : j + x <= Len(b) => j + 1 + x \in 1..(Len(b) + 1)
          BY <1>1, <4>1
        <5> QED
          BY <4>1, <5>1
      <4>3. f[Len(a) + (j + 1 + b[j].over)] = h[j + 1 + b[j].over]
        BY <1>3, <4>2
      <4>4. i + 1 + b[j].over = Len(a) + (j + 1 + b[j].over)
        <5>1. \A x \in Nat : i + 1 + x = Len(a) + (j + 1 + x)
          BY <1>1, <3>1, <4>1
        <5> QED
          BY <4>1, <5>1
      <4> QED
        BY <4>3, <4>4
    <3> QED
      BY SMTT(30), <1>1, <1>2, <3>1, <3>2, <3>3, <3>4 DEF Marks
  <2> QED
    BY <1>1, <1>2, <2>1, <2>2
<1>6. Marks(a \o b, f, L)
  BY <1>2, <1>4, <1>5 DEF Marks
<1> QED
  BY <1>3, <1>6 DEF IsJoin

\* f is h a step later.
IsLater(f, s, h) == f[1] = h[1] /\ \A i \in 1..(Len(s) + 1) : f[i + 1] = h[i]

LEMMA Skipping ==
  ASSUME NEW L, NEW s, NEW h, NEW M, NEW n \in Nat, Marks(s, h, L), n <= Len(s), h[n + 1] = M, h[1] = M
  PROVE  \E f : Marks(<<[does |-> "skip", over |-> n]>> \o s, f, L) /\ IsLater(f, s, h)
<1> DEFINE r == <<[does |-> "skip", over |-> n]>> \o s
           f == [i \in 1..(Len(s) + 2) |-> IF i = 1 THEN h[1] ELSE h[i - 1]]
<1>1. s \in Seq(Steps) /\ Len(s) \in Nat /\ [does |-> "skip", over |-> n] \in Steps
  BY DEF Marks, Steps
<1>2. /\ r \in Seq(Steps) /\ Len(r) = Len(s) + 1 /\ r[1] = [does |-> "skip", over |-> n]
      /\ \A i \in 1..Len(s) : r[i + 1] = s[i]
  BY <1>1
<1>3. f[1] = h[1] /\ \A i \in 1..(Len(s) + 1) : f[i + 1] = h[i]
  BY <1>1
<1>4. f \in [1..(Len(r) + 1) -> SUBSET K!Locks]
  BY <1>1, <1>2 DEF Marks
<1> HIDE DEF f, r
<1>5. ASSUME NEW i \in 1..Len(r)
      PROVE  /\ r[i].does = "lock" =>
                  r[i].on \in L /\ Below(f[i], Rank[r[i].on]) /\ f[i + 1] = f[i] \cup {r[i].on}
             /\ r[i].does = "unlock" => r[i].on \in f[i] /\ f[i + 1] = f[i] \ {r[i].on}
             /\ r[i].does = "command" => f[i] \cap Counting = {} /\ f[i + 1] = f[i]
             /\ r[i].does = "skip" =>
                  i + r[i].over <= Len(r) /\ f[i + 1] = f[i] /\ f[i + 1 + r[i].over] = f[i]
  <2>1. CASE i = 1
    <3>1. f[1 + 1] = h[1] /\ f[(n + 1) + 1] = h[n + 1]
      <4>1. 1 \in 1..(Len(s) + 1) /\ n + 1 \in 1..(Len(s) + 1)
        BY <1>1
      <4> QED
        BY <1>3, <4>1
    <3>2. r[i].does = "skip" /\ r[i].over = n
      BY <1>2, <2>1
    <3> QED
      BY <1>1, <1>2, <1>3, <2>1, <3>1, <3>2
  <2>2. CASE i > 1
    <3> DEFINE j == i - 1
    <3>1. j \in 1..Len(s) /\ i = j + 1
      BY <1>1, <1>2, <2>2
    <3> HIDE DEF j
    <3>2. r[i] = s[j] /\ f[i] = h[j] /\ f[i + 1] = h[j + 1]
      <4>1. j \in 1..(Len(s) + 1) /\ j + 1 \in 1..(Len(s) + 1)
        BY <1>1, <3>1
      <4>2. f[j + 1] = h[j] /\ f[(j + 1) + 1] = h[j + 1] /\ r[j + 1] = s[j]
        BY <1>2, <1>3, <3>1, <4>1
      <4> QED
        BY <3>1, <4>2
    <3>3. s[j].does = "skip" => s[j].over \in Nat
      BY <1>1, <3>1 DEF Steps
    <3>4. s[j].does = "skip" => f[i + 1 + s[j].over] = h[j + 1 + s[j].over]
      <4> SUFFICES ASSUME s[j].does = "skip" PROVE f[i + 1 + s[j].over] = h[j + 1 + s[j].over]
        OBVIOUS
      <4>1. j + s[j].over <= Len(s) /\ j \in Nat /\ s[j].over \in Nat
        BY <3>1, <3>3 DEF Marks
      <4>2. j + 1 + s[j].over \in 1..(Len(s) + 1)
        BY SMTT(30), <1>1, <3>1, <4>1
      <4>3. f[(j + 1 + s[j].over) + 1] = h[j + 1 + s[j].over]
        BY <1>3, <4>2
      <4>4. i + 1 + s[j].over = (j + 1 + s[j].over) + 1
        <5>1. \A x \in Nat : i + 1 + x = (j + 1 + x) + 1
          BY <3>1, <4>1
        <5> QED
          BY <4>1, <5>1
      <4> QED
        BY <4>3, <4>4
    <3> QED
      BY SMTT(30), <1>1, <1>2, <3>1, <3>2, <3>3, <3>4 DEF Marks
  <2> QED
    BY <1>1, <1>2, <2>1, <2>2
<1>6. Marks(r, f, L)
  BY <1>2, <1>4, <1>5 DEF Marks
<1> QED
  BY <1>3, <1>6 DEF r, IsLater

LEMMA Rest ==
  ASSUME NEW L, NEW s, NEW h, NEW n \in Nat, Marks(s, h, L), n <= Len(s)
  PROVE  Runs(SubSeq(s, n + 1, Len(s)), h[n + 1], h[Len(s) + 1], L)
<1> DEFINE r == SubSeq(s, n + 1, Len(s))
           f == [i \in 1..(Len(s) - n + 1) |-> h[i + n]]
<1>1. s \in Seq(Steps) /\ Len(s) \in Nat
  BY DEF Marks
<1>2. /\ r \in Seq(Steps) /\ Len(r) = Len(s) - n
      /\ \A i \in 1..(Len(s) - n) : r[i] = s[i + n]
  BY <1>1
<1>3. /\ f \in [1..(Len(r) + 1) -> SUBSET K!Locks]
      /\ \A i \in 1..(Len(s) - n + 1) : f[i] = h[i + n]
  BY <1>1, <1>2 DEF Marks
<1> HIDE DEF f, r
<1>4. ASSUME NEW i \in 1..Len(r)
      PROVE  /\ r[i].does = "lock" =>
                  r[i].on \in L /\ Below(f[i], Rank[r[i].on]) /\ f[i + 1] = f[i] \cup {r[i].on}
             /\ r[i].does = "unlock" => r[i].on \in f[i] /\ f[i + 1] = f[i] \ {r[i].on}
             /\ r[i].does = "command" => f[i] \cap Counting = {} /\ f[i + 1] = f[i]
             /\ r[i].does = "skip" =>
                  i + r[i].over <= Len(r) /\ f[i + 1] = f[i] /\ f[i + 1 + r[i].over] = f[i]
  <2>1. /\ i + n \in 1..Len(s) /\ r[i] = s[i + n]
        /\ f[i] = h[i + n] /\ f[i + 1] = h[i + n + 1]
    BY SMTT(30), <1>1, <1>2, <1>3
  <2>2. s[i + n].does = "skip" => s[i + n].over \in Nat
    BY <1>1, <2>1 DEF Steps
  <2>3. s[i + n].does = "skip" => i + n + s[i + n].over <= Len(s)
    BY <2>1 DEF Marks
  <2>4. s[i + n].does = "skip" => f[i + 1 + s[i + n].over] = h[i + n + 1 + s[i + n].over]
    <3> SUFFICES ASSUME s[i + n].does = "skip"
                 PROVE  f[i + 1 + s[i + n].over] = h[i + n + 1 + s[i + n].over]
      OBVIOUS
    <3>1. i + 1 + s[i + n].over \in 1..(Len(s) - n + 1)
      BY SMTT(30), <1>1, <2>1, <2>2, <2>3
    <3>2. f[i + 1 + s[i + n].over] = h[(i + 1 + s[i + n].over) + n]
      BY <1>3, <3>1
    <3>3. (i + 1 + s[i + n].over) + n = i + n + 1 + s[i + n].over
      <4>1. \A x \in Nat : (i + 1 + x) + n = i + n + 1 + x
        OBVIOUS
      <4> QED
        BY <2>2, <4>1
    <3> QED
      BY <3>2, <3>3
  <2>5. /\ s[i + n].does = "lock" =>
             /\ s[i + n].on \in L /\ Below(h[i + n], Rank[s[i + n].on])
             /\ h[i + n + 1] = h[i + n] \cup {s[i + n].on}
        /\ s[i + n].does = "unlock" =>
             s[i + n].on \in h[i + n] /\ h[i + n + 1] = h[i + n] \ {s[i + n].on}
        /\ s[i + n].does = "command" => h[i + n] \cap Counting = {} /\ h[i + n + 1] = h[i + n]
        /\ s[i + n].does = "skip" =>
             h[i + n + 1] = h[i + n] /\ h[i + n + 1 + s[i + n].over] = h[i + n]
    BY <2>1 DEF Marks
  <2>6. r[i].does = "skip" => i + r[i].over <= Len(r)
    BY SMTT(30), <1>1, <1>2, <2>1, <2>2, <2>3
  <2> QED
    BY <2>1, <2>4, <2>5, <2>6
<1>5. Marks(r, f, L)
  BY <1>2, <1>3, <1>4 DEF Marks
<1>6. f[1] = h[n + 1] /\ f[Len(r) + 1] = h[Len(s) + 1]
  BY <1>1, <1>2, <1>3
<1> QED
  BY <1>5, <1>6 DEF Runs, r

LEMMA Ranked == \A lock \in K!Locks : Rank[lock] \in 1..10
BY DEF Rank, K!Locks

LEMMA LockSteps ==
  ASSUME NEW L, NEW H, NEW lock \in K!Locks
  PROVE  /\ lock \in L /\ Below(H, Rank[lock])
              => Runs(<<[does |-> "lock", on |-> lock]>>, H, H \cup {lock}, L)
         /\ H \in SUBSET K!Locks /\ lock \in H
              => Runs(<<[does |-> "unlock", on |-> lock]>>, H, H \ {lock}, L)
<1>1. [does |-> "lock", on |-> lock] \in Steps /\ [does |-> "unlock", on |-> lock] \in Steps
  BY DEF Steps
<1>2. ASSUME lock \in L, Below(H, Rank[lock])
      PROVE  Runs(<<[does |-> "lock", on |-> lock]>>, H, H \cup {lock}, L)
  <2> DEFINE h == [i \in 1..2 |-> IF i = 1 THEN H ELSE H \cup {lock}]
             s == <<[does |-> "lock", on |-> lock]>>
  <2>1. s \in Seq(Steps) /\ Len(s) = 1 /\ s[1] = [does |-> "lock", on |-> lock]
    BY <1>1
  <2>2. h \in [1..2 -> SUBSET K!Locks] /\ h[1] = H /\ h[2] = H \cup {lock}
    BY <1>2 DEF Below
  <2> HIDE DEF h, s
  <2>3. Marks(s, h, L)
    BY <1>2, <2>1, <2>2 DEF Marks
  <2> QED
    BY <2>1, <2>2, <2>3 DEF Runs, s
<1>3. ASSUME H \in SUBSET K!Locks, lock \in H
      PROVE  Runs(<<[does |-> "unlock", on |-> lock]>>, H, H \ {lock}, L)
  <2> DEFINE h == [i \in 1..2 |-> IF i = 1 THEN H ELSE H \ {lock}]
             s == <<[does |-> "unlock", on |-> lock]>>
  <2>1. s \in Seq(Steps) /\ Len(s) = 1 /\ s[1] = [does |-> "unlock", on |-> lock]
    BY <1>1
  <2>2. h \in [1..2 -> SUBSET K!Locks] /\ h[1] = H /\ h[2] = H \ {lock}
    BY <1>3
  <2> HIDE DEF h, s
  <2>3. Marks(s, h, L)
    BY <1>3, <2>1, <2>2 DEF Marks
  <2> QED
    BY <2>1, <2>2, <2>3 DEF Runs, s
<1> QED
  BY <1>2, <1>3

LEMMA RunsJoined ==
  ASSUME NEW L, NEW a, NEW b, NEW H, NEW M, NEW F, Runs(a, H, M, L), Runs(b, M, F, L)
  PROVE  Runs(a \o b, H, F, L)
<1>1. PICK g : Marks(a, g, L) /\ g[1] = H /\ g[Len(a) + 1] = M
  BY DEF Runs
<1>2. PICK h : Marks(b, h, L) /\ h[1] = M /\ h[Len(b) + 1] = F
  BY DEF Runs
<1>3. PICK f : Marks(a \o b, f, L) /\ IsJoin(f, a, b, g, h)
  BY <1>1, <1>2, Joined
<1>4. a \in Seq(Steps) /\ b \in Seq(Steps) /\ Len(a) \in Nat /\ Len(b) \in Nat
  BY <1>1, <1>2 DEF Marks
<1>5. f[1] = H /\ f[Len(a \o b) + 1] = F
  <2>1. Len(a \o b) + 1 = Len(a) + (Len(b) + 1) /\ 1 \in 1..(Len(a) + 1) /\ Len(b) + 1 \in 1..(Len(b) + 1)
    BY <1>4
  <2> QED
    BY <1>1, <1>2, <1>3, <2>1 DEF IsJoin
<1> QED
  BY <1>3, <1>5 DEF Runs

\* What leaves a thread with the locks it began with.
Safe(s, H, L) == Runs(s, H, H, L)

LEMMA SafeEmpty == ASSUME NEW L, NEW H \in SUBSET K!Locks PROVE Safe(<<>>, H, L)
<1> DEFINE h == [i \in 1..1 |-> H]
<1>1. <<>> \in Seq(Steps) /\ Len(<<>>) = 0 /\ h \in [1..1 -> SUBSET K!Locks] /\ h[1] = H
  OBVIOUS
<1> HIDE DEF h
<1>2. Marks(<<>>, h, L)
  BY <1>1 DEF Marks
<1> QED
  BY <1>1, <1>2 DEF Safe, Runs

LEMMA SafeJoined ==
  ASSUME NEW L, NEW H, NEW a, NEW b, Safe(a, H, L), Safe(b, H, L)
  PROVE  Safe(a \o b, H, L)
BY RunsJoined DEF Safe

LEMMA SafeUnder ==
  ASSUME NEW L, NEW H, NEW s, NEW lock \in K!Locks, lock \in L, Below(H, Rank[lock]),
         Safe(s, H \cup {lock}, L)
  PROVE  Safe(K!Under(lock, s), H, L)
<1>1. lock \notin H /\ H \cup {lock} \in SUBSET K!Locks
  BY Ranked DEF Below
<1>2. Runs(<<[does |-> "lock", on |-> lock]>>, H, H \cup {lock}, L)
  BY LockSteps
<1>3. Runs(<<[does |-> "unlock", on |-> lock]>>, H \cup {lock}, (H \cup {lock}) \ {lock}, L)
  BY <1>1, LockSteps
<1>4. (H \cup {lock}) \ {lock} = H
  BY <1>1
<1>5. Runs(<<[does |-> "lock", on |-> lock]>> \o s, H, H \cup {lock}, L)
  BY <1>2, RunsJoined DEF Safe
<1>6. Runs((<<[does |-> "lock", on |-> lock]>> \o s) \o <<[does |-> "unlock", on |-> lock]>>, H, H, L)
  BY <1>3, <1>4, <1>5, RunsJoined
<1> QED
  BY <1>6 DEF Safe, K!Under

LEMMA SafeMaybe == ASSUME NEW L, NEW H, NEW s, Safe(s, H, L) PROVE Safe(K!Maybe(s), H, L)
<1>1. PICK h : Marks(s, h, L) /\ h[1] = H /\ h[Len(s) + 1] = H
  BY DEF Safe, Runs
<1>2. s \in Seq(Steps) /\ Len(s) \in Nat
  BY <1>1 DEF Marks
<1>3. PICK f : Marks(K!Maybe(s), f, L) /\ IsLater(f, s, h)
  <2>1. Len(s) \in Nat /\ Len(s) <= Len(s)
    BY <1>2
  <2> QED
    BY <1>1, <2>1, Skipping DEF K!Maybe
<1>4. Len(K!Maybe(s)) = Len(s) + 1
  BY <1>2 DEF K!Maybe
<1> QED
  BY <1>1, <1>2, <1>3, <1>4 DEF Safe, Runs, IsLater

LEMMA SafeCommand ==
  ASSUME NEW L, NEW H \in SUBSET K!Locks, NEW name \in {"iptables", "apply"}, H \cap Counting = {}
  PROVE  Safe(K!Command(name), H, L)
<1> DEFINE h == [i \in 1..2 |-> H]
           s == <<[does |-> "command", on |-> name]>>
<1>1. s \in Seq(Steps) /\ Len(s) = 1 /\ s[1] = [does |-> "command", on |-> name]
  BY DEF Steps
<1>2. h \in [1..2 -> SUBSET K!Locks] /\ h[1] = H /\ h[2] = H
  OBVIOUS
<1> HIDE DEF h, s
<1>3. Marks(s, h, L)
  BY <1>1, <1>2 DEF Marks
<1> QED
  BY <1>1, <1>2, <1>3 DEF Safe, Runs, s, K!Command

\* What may be left out on the way, or followed by a part that is left out in its stead.
LEMMA SafeJump ==
  ASSUME NEW L, NEW H, NEW a, NEW b, NEW c, Safe(a, H, L), Safe(b, H, L), Safe(c, H, L)
  PROVE  Safe(K!Maybe(a \o <<[does |-> "skip", over |-> Len(b \o c)]>> \o b) \o c, H, L)
<1>1. PICK ha : Marks(a, ha, L) /\ ha[1] = H /\ ha[Len(a) + 1] = H
  BY DEF Safe, Runs
<1>2. PICK hb : Marks(b, hb, L) /\ hb[1] = H /\ hb[Len(b) + 1] = H
  BY DEF Safe, Runs
<1>3. PICK hc : Marks(c, hc, L) /\ hc[1] = H /\ hc[Len(c) + 1] = H
  BY DEF Safe, Runs
<1>4. /\ a \in Seq(Steps) /\ b \in Seq(Steps) /\ c \in Seq(Steps)
      /\ Len(a) \in Nat /\ Len(b) \in Nat /\ Len(c) \in Nat /\ Len(b \o c) = Len(b) + Len(c)
  BY <1>1, <1>2, <1>3 DEF Marks
<1> DEFINE bc == b \o c
           d == <<[does |-> "skip", over |-> Len(bc)]>> \o bc
           e == a \o d
           n == Len(a) + 1 + Len(b)
<1>5. PICK f : Marks(bc, f, L) /\ f[1] = H /\ f[Len(b) + 1] = H /\ f[Len(bc) + 1] = H
  <2>1. PICK f : Marks(bc, f, L) /\ IsJoin(f, b, c, hb, hc)
    BY <1>2, <1>3, Joined
  <2>2. Len(bc) + 1 = Len(b) + (Len(c) + 1) /\ 1 \in 1..(Len(b) + 1) /\ Len(b) + 1 \in 1..(Len(b) + 1)
        /\ Len(c) + 1 \in 1..(Len(c) + 1)
    BY <1>4
  <2> QED
    BY <1>2, <1>3, <2>1, <2>2 DEF IsJoin
<1>6. bc \in Seq(Steps) /\ Len(bc) \in Nat /\ Len(bc) = Len(b) + Len(c) /\ Len(d) = Len(bc) + 1
  BY <1>4
<1> HIDE DEF bc
<1>7. PICK g : Marks(d, g, L) /\ g[1] = H /\ g[Len(b) + 2] = H /\ g[Len(d) + 1] = H
  <2>1. PICK g : Marks(d, g, L) /\ IsLater(g, bc, f)
    <3>1. Len(bc) \in Nat /\ Len(bc) <= Len(bc)
      BY <1>6
    <3> QED
      BY <1>5, <3>1, Skipping
  <2>2. /\ Len(b) + 1 \in 1..(Len(bc) + 1) /\ Len(bc) + 1 \in 1..(Len(bc) + 1)
        /\ (Len(b) + 1) + 1 = Len(b) + 2 /\ (Len(bc) + 1) + 1 = Len(d) + 1
    BY <1>4, <1>6
  <2>3. g[(Len(b) + 1) + 1] = f[Len(b) + 1] /\ g[(Len(bc) + 1) + 1] = f[Len(bc) + 1]
    BY <2>1, <2>2 DEF IsLater
  <2> QED
    BY <1>5, <2>1, <2>2, <2>3 DEF IsLater
<1>8. d \in Seq(Steps) /\ Len(d) \in Nat /\ Len(d) = Len(b) + Len(c) + 1
  BY <1>6, <1>7 DEF Marks
<1> HIDE DEF d
<1>9. /\ e \in Seq(Steps) /\ Len(e) = Len(a) + (Len(b) + Len(c) + 1) /\ n \in Nat /\ n <= Len(e)
       /\ Len(e) \in Nat
  <2>1. e \in Seq(Steps) /\ Len(e) = Len(a) + Len(d)
    BY <1>4, <1>8, ConcatProperties
  <2> QED
    BY <1>4, <1>8, <2>1
<1>10. PICK j : Marks(e, j, L) /\ j[1] = H /\ j[n + 1] = H /\ j[Len(e) + 1] = H
  <2>1. PICK j : Marks(e, j, L) /\ IsJoin(j, a, d, ha, g)
    BY <1>1, <1>7, Joined
  <2>2. /\ Len(b) + 2 \in 1..(Len(d) + 1) /\ Len(d) + 1 \in 1..(Len(d) + 1) /\ 1 \in 1..(Len(a) + 1)
        /\ Len(a) + (Len(b) + 2) = n + 1 /\ Len(a) + (Len(d) + 1) = Len(e) + 1
    BY <1>4, <1>8, <1>9
  <2>3. j[Len(a) + (Len(b) + 2)] = g[Len(b) + 2] /\ j[Len(a) + (Len(d) + 1)] = g[Len(d) + 1]
    BY <2>1, <2>2 DEF IsJoin
  <2> QED
    BY <1>1, <1>7, <2>1, <2>2, <2>3 DEF IsJoin
<1>11. Safe(<<[does |-> "skip", over |-> n]>> \o e, H, L)
  <2>1. PICK k : Marks(<<[does |-> "skip", over |-> n]>> \o e, k, L) /\ IsLater(k, e, j)
    <3> HIDE DEF e, n
    <3> QED
      BY <1>9, <1>10, Skipping
  <2>2. Len(<<[does |-> "skip", over |-> n]>> \o e) = Len(e) + 1
    BY <1>9
  <2>3. k[(Len(e) + 1) + 1] = j[Len(e) + 1]
    BY <1>9, <2>1 DEF IsLater
  <2> QED
    BY <1>10, <2>1, <2>2, <2>3 DEF Safe, Runs, IsLater
<1>12. K!Maybe(a \o <<[does |-> "skip", over |-> Len(b \o c)]>> \o b) \o c = <<[does |-> "skip", over |-> n]>> \o e
  <2> DEFINE skip == <<[does |-> "skip", over |-> Len(b \o c)]>>
  <2>1. skip \in Seq(Steps) /\ Len(skip) = 1
    BY <1>4 DEF Steps
  <2> HIDE DEF skip
  <2>2. d = (skip \o b) \o c
    BY SMTT(30), <1>4, <2>1, ConcatAssociative DEF d, bc, skip
  <2>3. Len((a \o skip) \o b) = n
    <3>1. a \o skip \in Seq(Steps) /\ Len(a \o skip) = Len(a) + 1
      <4>1. Len(a \o skip) = Len(a) + Len(skip)
        BY <1>4, <2>1, ConcatProperties
      <4>2. a \o skip \in Seq(Steps)
        BY <1>4, <2>1, ConcatProperties
      <4> QED
        BY <1>4, <2>1, <4>1, <4>2
    <3> QED
      BY SMTT(30), <1>4, <3>1
  <2>4. e = ((a \o skip) \o b) \o c
    <3>1. a \o ((skip \o b) \o c) = (a \o (skip \o b)) \o c
      <4>1. skip \o b \in Seq(Steps)
        BY <1>4, <2>1
      <4> QED
        BY SMTT(30), <1>4, <4>1, ConcatAssociative
    <3>2. a \o (skip \o b) = (a \o skip) \o b
      BY SMTT(30), <1>4, <2>1, ConcatAssociative
    <3> QED
      BY <2>2, <3>1, <3>2
  <2>5. K!Maybe((a \o skip) \o b) = <<[does |-> "skip", over |-> n]>> \o ((a \o skip) \o b)
    BY <2>3 DEF K!Maybe
  <2>6. <<[does |-> "skip", over |-> n]>> \in Seq(Steps) /\ (a \o skip) \o b \in Seq(Steps)
    BY <1>4, <1>9, <2>1 DEF Steps
  <2> HIDE DEF e, n
  <2>7. K!Maybe((a \o skip) \o b) \o c = <<[does |-> "skip", over |-> n]>> \o e
    BY SMTT(30), <1>4, <2>4, <2>5, <2>6, ConcatAssociative
  <2> QED
    BY <2>7 DEF skip
<1> QED
  BY <1>11, <1>12

-----------------------------------------------------------------------------
(* The operations *)

LEMMA BelowMore ==
  ASSUME NEW H, NEW m \in Nat, NEW n \in Nat, Below(H, m), m <= n
  PROVE  /\ Below(H, n)
         /\ \A lock \in K!Locks : Rank[lock] < n => Below(H \cup {lock}, n)
BY Ranked DEF Below

\* The ranks, one by one.
LEMMA RankOf ==
  /\ Rank["mutationMu"] = 1 /\ Rank["gatewayMu"] = 2 /\ Rank["healthMu"] = 3
  /\ Rank["manager.mu"] = 4 /\ Rank["versionMu"] = 5 /\ Rank["sampleMu"] = 6
  /\ Rank["networkLock"] = 7 /\ Rank["controlMu"] = 8 /\ Rank["persistMu"] = 9
  /\ Rank["connection"] = 10
BY DEF Rank, K!Locks

LEMMA SafePersist ==
  ASSUME NEW L, NEW H, Counting \subseteq L, Below(H, 9)
  PROVE  Safe(K!Query, H, L) /\ Safe(K!persist, H, L)
<1>1. /\ Counting \subseteq K!Locks /\ "connection" \in Counting /\ "persistMu" \in Counting
      /\ Rank["connection"] = 10 /\ Rank["persistMu"] = 9
  BY RankOf DEF Counting, K!Locks
<1>2. Below(H, 10) /\ Below(H \cup {"persistMu"}, 10)
  BY <1>1, BelowMore
<1>3. ASSUME NEW G, Below(G, 10) PROVE Safe(K!Query, G, L)
  <2>1. Safe(<<>>, G \cup {"connection"}, L)
    BY <1>1, <1>3, SafeEmpty DEF Below
  <2> QED
    BY <1>1, <1>3, <2>1, SafeUnder DEF K!Query
<1>4. Safe(K!Query, H, L) /\ Safe(K!Query, H \cup {"persistMu"}, L)
  BY <1>2, <1>3
<1> QED
  BY <1>1, <1>4, SafeUnder DEF K!persist

LEMMA SafeReconcile ==
  ASSUME NEW L, NEW H, Counting \subseteq L, Below(H, 8)
  PROVE  Safe(K!reconcileCore, H, L) /\ Safe(K!ReconcileQuota, H, L)
<1>1. /\ Counting \subseteq K!Locks /\ "controlMu" \in Counting /\ Rank["controlMu"] = 8
  BY RankOf DEF Counting, K!Locks
<1>2. Safe(K!reconcileCore, H, L)
  <2>1. Safe(<<>>, H \cup {"controlMu"}, L)
    BY <1>1, SafeEmpty DEF Below
  <2> QED
    BY <1>1, <2>1, SafeUnder DEF K!reconcileCore
<1>3. Safe(K!persist, H, L)
  BY BelowMore, SafePersist
<1> QED
  BY <1>2, <1>3, SafeMaybe, SafeJoined DEF K!ReconcileQuota

LEMMA SafeSample ==
  ASSUME NEW L, NEW H, Counting \subseteq L, Below(H, 6)
  PROVE  Safe(K!Sample, H, L)
<1>1. /\ Counting \subseteq K!Locks /\ "sampleMu" \in Counting /\ Rank["sampleMu"] = 6
  BY RankOf DEF Counting, K!Locks
<1> DEFINE G == H \cup {"sampleMu"}
<1>2. Below(G, 8) /\ Below(G, 9)
  BY <1>1, BelowMore
<1> HIDE DEF G
<1>3. Safe(K!persist, G, L) /\ Safe(K!reconcileCore, G, L)
  BY <1>2, SafePersist, SafeReconcile
<1>4. Safe(K!Maybe(K!persist \o K!Maybe(K!reconcileCore)) \o K!Maybe(K!persist \o K!reconcileCore), G, L)
  BY <1>3, SafeMaybe, SafeJoined
<1> QED
  BY <1>1, <1>4, SafeUnder DEF K!Sample, G

LEMMA SafeNetwork ==
  ASSUME NEW L, NEW H, Counting \subseteq L, Below(H, 7)
  PROVE  Safe(K!SampleNetwork, H, L) /\ Safe(K!FromFreshSample, H, L)
<1>1. /\ Counting \subseteq K!Locks /\ "networkLock" \in Counting /\ Rank["networkLock"] = 7
  BY RankOf DEF Counting, K!Locks
<1> DEFINE G == H \cup {"networkLock"}
<1>2. Below(G, 8) /\ Below(G, 9)
  BY <1>1, BelowMore
<1> HIDE DEF G
<1>3. Safe(K!Query, G, L) /\ Safe(K!persist, G, L) /\ Safe(K!ReconcileQuota, G, L)
  BY <1>2, SafePersist, SafeReconcile
<1>4. Safe(K!Maybe(K!Query) \o K!Maybe(K!persist \o K!ReconcileQuota), G, L)
  BY <1>3, SafeMaybe, SafeJoined
<1>5. Safe(K!SampleNetwork, H, L)
  BY <1>1, <1>4, SafeUnder DEF K!SampleNetwork, G
<1>6. Safe(K!Maybe(K!persist \o K!Maybe(K!ReconcileQuota)), G, L)
  BY <1>3, SafeMaybe, SafeJoined
<1>7. Safe(K!Under("networkLock", K!Maybe(K!persist \o K!Maybe(K!ReconcileQuota))), H, L)
  BY <1>1, <1>6, SafeUnder DEF G
<1> QED
  BY <1>5, <1>7, SafeMaybe, SafeJoined DEF K!FromFreshSample

\* Whoever counts and enforces takes only the locks of counting.
LEMMA EnforcementIsSafe == \A s \in K!Enforcement : Safe(s, {}, Counting)
<1>1. Below({}, 6) /\ Below({}, 7) /\ Below({}, 8) /\ Below({}, 9)
  BY DEF Below
<1>2. /\ Safe(K!Sample, {}, Counting) /\ Safe(K!ReconcileQuota, {}, Counting)
      /\ Safe(K!persist, {}, Counting) /\ Safe(K!SampleNetwork, {}, Counting)
  BY <1>1, SafePersist, SafeReconcile, SafeSample, SafeNetwork
<1>3. Safe(K!Sample \o K!Maybe(K!ReconcileQuota), {}, Counting)
  BY <1>2, SafeMaybe, SafeJoined
<1> QED
  BY <1>2, <1>3 DEF K!Enforcement

\* Under the lock of changes, and that of the gateways.
LEMMA SafeGateways ==
  ASSUME NEW H, Below(H, 3)
  PROVE  /\ Safe(K!sampleGateways, H, K!Locks) /\ Safe(K!CommitEgressChange, H, K!Locks)
         /\ Safe(K!invalidateHealth, H, K!Locks) /\ Safe(K!Apply, H, K!Locks)
         /\ Safe(K!captureTraffic, H, K!Locks) /\ Safe(K!persist, H, K!Locks)
<1>1. /\ {"healthMu", "manager.mu", "versionMu"} \subseteq K!Locks /\ Counting \subseteq K!Locks
      /\ Rank["healthMu"] = 3 /\ Rank["manager.mu"] = 4 /\ Rank["versionMu"] = 5
  BY RankOf DEF Counting, K!Locks
<1>2. Below(H, 4) /\ Below(H, 6) /\ Below(H, 9)
  BY BelowMore
<1>3. H \in SUBSET K!Locks /\ H \cap Counting = {}
  BY RankOf DEF Below, Counting
<1>4. Safe(K!persist, H, K!Locks) /\ Safe(K!Sample, H, K!Locks)
  BY <1>1, <1>2, SafePersist, SafeSample
<1>5. Safe(K!captureTraffic, H, K!Locks)
  BY <1>4, SafeMaybe DEF K!captureTraffic
<1>6. Safe(K!sampleGateways, H, K!Locks)
  BY <1>3, SafeCommand, SafeMaybe DEF K!sampleGateways
<1>7. Safe(K!invalidateHealth, H, K!Locks)
  <2>1. Safe(<<>>, H \cup {"healthMu"}, K!Locks)
    BY <1>1, <1>3, SafeEmpty
  <2> QED
    BY <1>1, <2>1, SafeUnder DEF K!invalidateHealth
<1>8. Safe(K!Apply, H, K!Locks)
  <2> DEFINE G == H \cup {"manager.mu"}
  <2>1. Below(G, 5) /\ G \in SUBSET K!Locks /\ G \cap Counting = {}
    <3>1. Below(H, 5) /\ Below(G, 5)
      BY <1>1, BelowMore
    <3> QED
      BY <1>1, <1>3, <3>1 DEF Counting
  <2> HIDE DEF G
  <2>2. Safe(<<>>, G \cup {"versionMu"}, K!Locks)
    BY <1>1, <2>1, SafeEmpty
  <2>3. Safe(K!Under("versionMu", <<>>), G, K!Locks)
    BY <1>1, <2>1, <2>2, SafeUnder
  <2>4. Safe(K!Under("versionMu", <<>>) \o K!Command("apply"), G, K!Locks)
    BY <2>1, <2>3, SafeCommand, SafeJoined
  <2> QED
    BY <1>1, <1>2, <2>4, SafeUnder DEF K!Apply, G
<1>9. Safe(K!CommitEgressChange, H, K!Locks)
  BY <1>4, <1>6, SafeJoined DEF K!CommitEgressChange
<1> QED
  BY <1>4, <1>5, <1>6, <1>7, <1>8, <1>9

\* What is held is nothing, the lock of changes, and that of the gateways within it.
LEMMA Outermost ==
  /\ Below({}, 1) /\ Below({}, 2) /\ Below({}, 3) /\ Below({"mutationMu"}, 2) /\ Below({"mutationMu"}, 3)
  /\ Below({"gatewayMu"}, 3) /\ Below({"mutationMu", "gatewayMu"}, 3)
BY RankOf DEF Below, K!Locks

LEMMA MutateChangeIsSafe == Safe(K!mutateChange, {}, K!Locks)
<1> DEFINE H == {"mutationMu", "gatewayMu"}
           commit == K!CommitEgressChange \o K!invalidateHealth
           record == K!persist \o commit
           install == K!Apply \o <<[does |-> "skip", over |-> Len(record)]>> \o K!persist
<1>1. /\ Safe(K!sampleGateways, H, K!Locks) /\ Safe(commit, H, K!Locks)
      /\ Safe(K!Apply, H, K!Locks) /\ Safe(K!captureTraffic, H, K!Locks)
      /\ Safe(K!persist, H, K!Locks)
  BY Outermost, SafeGateways, SafeJoined
<1> HIDE DEF commit, H
<1>2. Safe(K!Maybe(install) \o commit, H, K!Locks)
  BY <1>1, SafeJump
<1> HIDE DEF install
<1>3. Safe(K!sampleGateways \o K!captureTraffic
           \o K!Maybe(K!persist \o K!Maybe(K!Maybe(install) \o commit)), H, K!Locks)
  BY <1>1, <1>2, SafeMaybe, SafeJoined
<1>4. /\ {"mutationMu"} \cup {"gatewayMu"} = H /\ {} \cup {"mutationMu"} = {"mutationMu"}
      /\ "mutationMu" \in K!Locks /\ "gatewayMu" \in K!Locks
  BY DEF H, K!Locks
<1>5. Safe(K!Under("gatewayMu", K!sampleGateways \o K!captureTraffic
             \o K!Maybe(K!persist \o K!Maybe(K!Maybe(install) \o commit))), {"mutationMu"}, K!Locks)
  BY <1>3, <1>4, Outermost, RankOf, SafeUnder
<1>6. Safe(K!Under("mutationMu", K!Under("gatewayMu", K!sampleGateways \o K!captureTraffic
             \o K!Maybe(K!persist \o K!Maybe(K!Maybe(install) \o commit)))), {}, K!Locks)
  BY <1>4, <1>5, Outermost, RankOf, SafeUnder
<1> QED
  BY <1>6 DEF K!mutateChange, install, commit

LEMMA RequestsAreSafe == \A s \in K!Requests : Safe(s, {}, K!Locks)
<1>1. /\ Counting \subseteq K!Locks /\ {} \in SUBSET K!Locks
      /\ {"mutationMu", "gatewayMu", "healthMu", "versionMu", "persistMu"} \subseteq K!Locks
  BY DEF Counting, K!Locks
<1>2. \A n \in 1..10 : Below({}, n)
  BY DEF Below
<1>3. /\ Safe(K!captureTraffic, {}, K!Locks) /\ Safe(K!persist, {}, K!Locks)
      /\ Safe(K!Query, {}, K!Locks) /\ Safe(K!reconcileCore, {}, K!Locks)
      /\ Safe(K!ReconcileQuota, {}, K!Locks) /\ Safe(K!SampleNetwork, {}, K!Locks)
      /\ Safe(K!FromFreshSample, {}, K!Locks)
  BY <1>1, <1>2, SafeGateways, SafePersist, SafeReconcile, SafeNetwork
<1>4. ASSUME NEW lock \in {"mutationMu", "gatewayMu", "healthMu", "versionMu"}
      PROVE  Safe(K!Under(lock, <<>>), {}, K!Locks)
  <2>1. Rank[lock] \in 1..10 /\ lock \in K!Locks /\ {} \cup {lock} \in SUBSET K!Locks
    BY <1>1, <1>4, Ranked
  <2>2. Safe(<<>>, {} \cup {lock}, K!Locks)
    BY <2>1, SafeEmpty
  <2> QED
    BY <1>2, <2>1, <2>2, SafeUnder
<1>5. /\ {} \cup {"gatewayMu"} = {"gatewayMu"} /\ {} \cup {"mutationMu"} = {"mutationMu"}
      /\ {"mutationMu"} \cup {"gatewayMu"} = {"mutationMu", "gatewayMu"}
      /\ Rank["mutationMu"] = 1 /\ Rank["gatewayMu"] = 2
  BY RankOf
<1>6. Safe(K!SampleGateways, {}, K!Locks)
  <2>1. Safe(K!Maybe(K!sampleGateways \o K!persist), {"gatewayMu"}, K!Locks)
    BY Outermost, SafeGateways, SafeMaybe, SafeJoined
  <2> QED
    BY <1>1, <1>5, <2>1, Outermost, SafeUnder DEF K!SampleGateways
<1>7. Safe(K!ReconcileGatewayPauses, {}, K!Locks)
  <2>1. Safe(K!Maybe(K!Apply \o K!Maybe(K!invalidateHealth \o K!persist)), {"mutationMu"}, K!Locks)
    BY Outermost, SafeGateways, SafeMaybe, SafeJoined
  <2> QED
    BY <1>1, <1>5, <2>1, Outermost, SafeUnder DEF K!ReconcileGatewayPauses
<1>8. Safe(K!changeGateway, {}, K!Locks)
  <2>1. Safe(K!Maybe(K!sampleGateways \o K!persist), {"mutationMu", "gatewayMu"}, K!Locks)
    BY Outermost, SafeGateways, SafeMaybe, SafeJoined
  <2>2. Safe(K!Under("gatewayMu", K!Maybe(K!sampleGateways \o K!persist)), {"mutationMu"}, K!Locks)
    BY <1>1, <1>5, <2>1, Outermost, SafeUnder
  <2> QED
    BY <1>1, <1>5, <2>2, Outermost, SafeUnder DEF K!changeGateway
<1>9. Safe(K!updateTrafficSettings, {}, K!Locks)
  BY <1>3, <1>4, SafeMaybe, SafeJoined DEF K!updateTrafficSettings, K!saveConfig
<1>10. Safe(K!restart, {}, K!Locks) /\ Safe(K!calibrateTraffic, {}, K!Locks)
  BY <1>3, SafeMaybe, SafeJoined DEF K!restart, K!calibrateTraffic
<1>11. \A s \in K!resetTraffic : Safe(s, {}, K!Locks)
  <2>1. \A reset \in K!Resets : Safe(reset, {}, K!Locks)
    BY <1>3, SafeMaybe, SafeJoined DEF K!Resets
  <2> QED
    <3>1. ASSUME NEW reset \in K!Resets
          PROVE  Safe(K!captureTraffic \o K!Maybe(reset), {}, K!Locks)
      BY <1>3, <2>1, SafeMaybe, SafeJoined
    <3> QED
      BY <3>1 DEF K!resetTraffic
<1>12. /\ Safe(K!dashboard, {}, K!Locks) /\ Safe(K!slowHealthChecks, {}, K!Locks)
       /\ Safe(K!History, {}, K!Locks)
  BY <1>3, <1>4, SafeMaybe, SafeJoined DEF K!dashboard, K!slowHealthChecks, K!History
<1>13. Safe(K!AppTraffic, {}, K!Locks)
  BY <1>3 DEF K!AppTraffic, K!persist
<1> QED
  BY <1>6, <1>7, <1>8, <1>9, <1>10, <1>11, <1>12, <1>13, MutateChangeIsSafe DEF K!Requests

-----------------------------------------------------------------------------
(* The invariant *)

\* A thread that goes past its first n + 1 steps, of which it has done the first.
LEMMA GoesOn ==
  ASSUME NEW L, NEW s, NEW H, NEW F, Runs(s, H, F, L), s # <<>>
  PROVE  /\ s \in Seq(Steps) /\ Head(s) = s[1] /\ Head(s) \in Steps /\ H \in SUBSET K!Locks
         /\ Head(s).does = "lock" =>
              /\ Head(s).on \in L \cap K!Locks /\ Below(H, Rank[Head(s).on])
              /\ Runs(Tail(s), H \cup {Head(s).on}, F, L)
         /\ Head(s).does = "unlock" =>
              /\ Head(s).on \in H \cap K!Locks /\ Runs(Tail(s), H \ {Head(s).on}, F, L)
         /\ Head(s).does = "command" => H \cap Counting = {} /\ Runs(Tail(s), H, F, L)
         /\ Head(s).does = "skip" =>
              Runs(Tail(s), H, F, L) /\ Runs(SubSeq(s, Head(s).over + 2, Len(s)), H, F, L)
<1>1. PICK h : Marks(s, h, L) /\ h[1] = H /\ h[Len(s) + 1] = F
  BY DEF Runs
<1>2. s \in Seq(Steps) /\ Len(s) \in Nat /\ 1 <= Len(s) /\ Head(s) = s[1] /\ s[1] \in Steps
  BY <1>1 DEF Marks
<1>3. Tail(s) = SubSeq(s, 1 + 1, Len(s))
  BY <1>2, TailIsSubSeq
<1>4. Runs(Tail(s), h[1 + 1], F, L)
  BY <1>1, <1>2, <1>3, Rest
<1>5. 1 \in 1..Len(s)
  BY <1>2
<1>6. /\ Head(s).does = "lock" =>
           Head(s).on \in L /\ Below(H, Rank[Head(s).on]) /\ h[1 + 1] = H \cup {Head(s).on}
      /\ Head(s).does = "unlock" => Head(s).on \in H /\ h[1 + 1] = H \ {Head(s).on}
      /\ Head(s).does = "command" => H \cap Counting = {} /\ h[1 + 1] = H
      /\ Head(s).does = "skip" =>
           1 + Head(s).over <= Len(s) /\ h[1 + 1] = H /\ h[1 + 1 + Head(s).over] = H
  BY <1>1, <1>2, <1>5 DEF Marks
<1>7. H \in SUBSET K!Locks
  BY <1>1, <1>2 DEF Marks
<1>8. Head(s).does \in {"lock", "unlock"} => Head(s).on \in K!Locks
  BY <1>2 DEF Steps
<1>9. ASSUME Head(s).does = "skip" PROVE Runs(SubSeq(s, Head(s).over + 2, Len(s)), H, F, L)
  <2>1. PICK n \in Nat : n = Head(s).over
    BY <1>2, <1>9 DEF Steps
  <2>2. 1 + n \in Nat /\ 1 + n <= Len(s) /\ (1 + n) + 1 = n + 2 /\ 1 + 1 + n = (1 + n) + 1
    BY <1>6, <1>9, <2>1
  <2>3. h[(1 + n) + 1] = H
    BY <1>6, <1>9, <2>1, <2>2
  <2>4. Runs(SubSeq(s, (1 + n) + 1, Len(s)), h[(1 + n) + 1], h[Len(s) + 1], L)
    BY <1>1, <2>2, Rest
  <2> QED
    BY <1>1, <2>1, <2>2, <2>3, <2>4
<1> QED
  BY <1>2, <1>4, <1>6, <1>7, <1>8, <1>9

LEMMA NothingToDo == ASSUME NEW L, NEW H, NEW F, Runs(<<>>, H, F, L) PROVE H = F
BY DEF Runs

LEMMA LockInvBegins == ASSUME K!Init PROVE LockInv
<1>1. \A t \in K!Threads : Holds(t) = {} /\ todo[t] = <<>>
  BY MCAssumption DEF K!Init, Holds, K!LocksAssumption, K!Threads
<1>2. \A L : Runs(<<>>, {}, {}, L)
  BY SafeEmpty DEF Safe
<1> QED
  BY <1>1, <1>2 DEF K!Init, LockInv

\* One thread goes on; the others hold what they held.
LEMMA OneGoesOn ==
  ASSUME LockInv, NEW t \in K!Threads, NEW s,
         todo' = [todo EXCEPT ![t] = s],
         holder' \in [K!Locks -> K!Threads \cup {Nobody}],
         Runs(s, Holds(t)', {}, Reach(t)),
         \A u \in K!Threads \ {t} : Holds(u)' = Holds(u)
  PROVE  LockInv'
<1>1. \A u \in K!Threads : todo'[u] = IF u = t THEN s ELSE todo[u]
  BY DEF LockInv
<1>2. DOMAIN todo' = K!Threads
  BY DEF LockInv
<1>3. \A u \in K!Threads : Runs(todo'[u], Holds(u)', {}, Reach(u))
  BY <1>1 DEF LockInv, Reach
<1> QED
  BY <1>2, <1>3 DEF LockInv, Reach

LEMMA LockInvStep == ASSUME LockInv, [K!Next]_(K!vars) PROVE LockInv'
<1>1. CASE UNCHANGED K!vars
  BY <1>1 DEF LockInv, Holds, Reach, K!vars
<1>2. ASSUME NEW t \in K!Threads, K!Begin(t) PROVE LockInv'
  <2>1. PICK s \in IF t \in Enforcers THEN K!Enforcement ELSE K!Requests : todo' = [todo EXCEPT ![t] = s]
    BY <1>2 DEF K!Begin
  <2>2. Holds(t) = {} /\ holder' = holder
    BY <1>2, NothingToDo DEF K!Begin, LockInv
  <2>3. \A u \in K!Threads : Holds(u)' = Holds(u)
    BY <2>2 DEF Holds
  <2>4. Runs(s, {}, {}, Reach(t))
    BY <2>1, EnforcementIsSafe, RequestsAreSafe DEF Safe, Reach
  <2> QED
    BY <2>1, <2>2, <2>3, <2>4, OneGoesOn DEF LockInv
<1>3. ASSUME NEW t \in K!Threads, K!Lock(t) PROVE LockInv'
  <2> DEFINE lock == Head(todo[t]).on
  <2>1. Runs(todo[t], Holds(t), {}, Reach(t)) /\ todo[t] # <<>> /\ Head(todo[t]).does = "lock"
    BY <1>3 DEF LockInv, K!Lock, K!At
  <2>2. lock \in K!Locks /\ Runs(Tail(todo[t]), Holds(t) \cup {lock}, {}, Reach(t))
    BY <2>1, GoesOn
  <2>3. holder[lock] = Nobody /\ holder' = [holder EXCEPT ![lock] = t] /\ todo' = [todo EXCEPT ![t] = Tail(todo[t])]
    BY <1>3 DEF K!Lock, K!Goes, LockInv
  <2> HIDE DEF lock
  <2>4. holder' \in [K!Locks -> K!Threads \cup {Nobody}]
    BY <2>2, <2>3 DEF LockInv
  <2>5. /\ Holds(t)' = Holds(t) \cup {lock}
        /\ \A u \in K!Threads \ {t} : Holds(u)' = Holds(u)
    BY <2>2, <2>3, MCAssumption DEF LockInv, Holds, K!LocksAssumption, K!Threads
  <2> QED
    BY <2>2, <2>3, <2>4, <2>5, OneGoesOn
<1>4. ASSUME NEW t \in K!Threads, K!Unlock(t) PROVE LockInv'
  <2> DEFINE lock == Head(todo[t]).on
  <2>1. Runs(todo[t], Holds(t), {}, Reach(t)) /\ todo[t] # <<>> /\ Head(todo[t]).does = "unlock"
    BY <1>4 DEF LockInv, K!Unlock, K!At
  <2>2. lock \in Holds(t) /\ lock \in K!Locks /\ Runs(Tail(todo[t]), Holds(t) \ {lock}, {}, Reach(t))
    BY <2>1, GoesOn
  <2>3. holder' = [holder EXCEPT ![lock] = Nobody] /\ todo' = [todo EXCEPT ![t] = Tail(todo[t])]
    BY <1>4 DEF K!Unlock, K!Goes, LockInv
  <2> HIDE DEF lock
  <2>4. holder' \in [K!Locks -> K!Threads \cup {Nobody}]
    BY <2>2, <2>3 DEF LockInv
  <2>5. /\ Holds(t)' = Holds(t) \ {lock}
        /\ \A u \in K!Threads \ {t} : Holds(u)' = Holds(u)
    BY <2>2, <2>3, MCAssumption DEF LockInv, Holds, K!LocksAssumption, K!Threads
  <2> QED
    BY <2>2, <2>3, <2>4, <2>5, OneGoesOn
<1>5. ASSUME NEW t \in K!Threads, K!CommandEnds(t) \/ K!Branch(t) PROVE LockInv'
  <2>1. Runs(todo[t], Holds(t), {}, Reach(t)) /\ todo[t] # <<>> /\ Head(todo[t]).does \in {"command", "skip"}
        /\ holder' = holder
    BY <1>5 DEF LockInv, K!CommandEnds, K!Branch, K!At
  <2>2. \A u \in K!Threads : Holds(u)' = Holds(u)
    BY <2>1 DEF Holds
  <2>3. CASE todo' = [todo EXCEPT ![t] = Tail(todo[t])]
    <3>1. Runs(Tail(todo[t]), Holds(t), {}, Reach(t))
      BY <2>1, GoesOn
    <3> QED
      BY <2>1, <2>2, <2>3, <3>1, OneGoesOn DEF LockInv
  <2>4. CASE /\ Head(todo[t]).does = "skip"
             /\ todo' = [todo EXCEPT ![t] = SubSeq(todo[t], Head(todo[t]).over + 2, Len(todo[t]))]
    <3>1. Runs(SubSeq(todo[t], Head(todo[t]).over + 2, Len(todo[t])), Holds(t), {}, Reach(t))
      BY <2>1, <2>4, GoesOn
    <3> QED
      BY <2>1, <2>2, <2>4, <3>1, OneGoesOn DEF LockInv
  <2> QED
    BY <1>5, <2>3, <2>4 DEF K!CommandEnds, K!Branch, K!At, K!Goes, LockInv
<1> QED
  BY <1>1, <1>2, <1>3, <1>4, <1>5 DEF K!Next

-----------------------------------------------------------------------------
(* What it says of waiting *)

\* Who waits, waits above all it holds, and within its reach.
LEMMA WaitsAbove ==
  ASSUME LockInv, NEW t \in K!Threads, K!WaitsFor(t) \in K!Threads
  PROVE  LET lock == Head(todo[t]).on
         IN  /\ lock \in Reach(t) \cap K!Locks /\ Below(Holds(t), Rank[lock])
             /\ lock \in Holds(K!WaitsFor(t))
<1>1. todo[t] # <<>> /\ Head(todo[t]).does = "lock" /\ K!WaitsFor(t) = holder[Head(todo[t]).on]
  BY MCAssumption DEF K!WaitsFor, K!At, K!LocksAssumption, K!Threads
<1>2. Runs(todo[t], Holds(t), {}, Reach(t))
  BY DEF LockInv
<1> QED
  BY <1>1, <1>2, GoesOn DEF Holds

\* Threads that wait for one another, and for nobody else, do not exist: the one that waits
\* for the highest lock waits for one that waits higher.
LEMMA NoCircles ==
  ASSUME LockInv, NEW S, S \subseteq K!Threads, \A t \in S : K!WaitsFor(t) \in S
  PROVE  S = {}
<1> DEFINE Asks(t) == Rank[Head(todo[t]).on]
<1>1. ASSUME NEW t \in S
      PROVE  Asks(t) \in 1..10 /\ \E u \in S : Asks(t) < Asks(u)
  <2>1. K!WaitsFor(t) \in S /\ K!WaitsFor(K!WaitsFor(t)) \in S
    OBVIOUS
  <2>2. Head(todo[t]).on \in K!Locks /\ Head(todo[t]).on \in Holds(K!WaitsFor(t))
    BY <2>1, WaitsAbove
  <2>3. Below(Holds(K!WaitsFor(t)), Asks(K!WaitsFor(t)))
    BY <2>1, WaitsAbove
  <2>4. Asks(t) < Asks(K!WaitsFor(t))
    BY <2>2, <2>3 DEF Below
  <2> QED
    BY <2>1, <2>2, <2>4, Ranked
<1> HIDE DEF Asks
<1>2. \A t \in S : Asks(t) # 10
  BY <1>1
<1>3. \A t \in S : Asks(t) # 9
  BY <1>1, <1>2
<1>4. \A t \in S : Asks(t) # 8
  BY <1>1, <1>2, <1>3
<1>5. \A t \in S : Asks(t) # 7
  BY <1>1, <1>2, <1>3, <1>4
<1>6. \A t \in S : Asks(t) # 6
  BY <1>1, <1>2, <1>3, <1>4, <1>5
<1>7. \A t \in S : Asks(t) # 5
  BY <1>1, <1>2, <1>3, <1>4, <1>5, <1>6
<1>8. \A t \in S : Asks(t) # 4
  BY <1>1, <1>2, <1>3, <1>4, <1>5, <1>6, <1>7
<1>9. \A t \in S : Asks(t) # 3
  BY <1>1, <1>2, <1>3, <1>4, <1>5, <1>6, <1>7, <1>8
<1>10. \A t \in S : Asks(t) # 2
  BY <1>1, <1>2, <1>3, <1>4, <1>5, <1>6, <1>7, <1>8, <1>9
<1>11. \A t \in S : Asks(t) # 1
  BY <1>1, <1>2, <1>3, <1>4, <1>5, <1>6, <1>7, <1>8, <1>9, <1>10
<1> QED
  BY <1>1, <1>2, <1>3, <1>4, <1>5, <1>6, <1>7, <1>8, <1>9, <1>10, <1>11

\* Of the threads that wait for a lock of counting none waits, through others, for a command:
\* nobody holds such a lock in a command, or while it asks for another that is not of counting.
LEMMA NotDelayed == ASSUME LockInv PROVE K!EnforcementIsNotDelayed
<1> SUFFICES ASSUME NEW slow \in Others, K!At(slow, "command"),
                    NEW S \in SUBSET (K!Threads \ {slow}), S \cap Enforcers # {},
                    \A t \in S : K!WaitsFor(t) \in S \cup {slow}
             PROVE  FALSE
  BY DEF K!EnforcementIsNotDelayed
<1> DEFINE R == {t \in S : Head(todo[t]).on \in Counting}
<1>1. slow \in K!Threads /\ Holds(slow) \cap Counting = {}
  <2>1. slow \in K!Threads /\ Runs(todo[slow], Holds(slow), {}, Reach(slow)) /\ todo[slow] # <<>>
        /\ Head(todo[slow]).does = "command"
    BY DEF LockInv, K!At, K!Threads
  <2>2. \A L, s, H : Runs(s, H, {}, L) /\ s # <<>> /\ Head(s).does = "command" => H \cap Counting = {}
    BY GoesOn
  <2>3. Holds(slow) \cap Counting = {}
    BY <2>1, <2>2
  <2> QED
    BY <2>1, <2>3
<1>2. \A t \in S : t \in K!Threads /\ K!WaitsFor(t) \in K!Threads
  BY <1>1
<1>3. ASSUME NEW t \in R PROVE K!WaitsFor(t) \in R
  <2> DEFINE u == K!WaitsFor(t)
  <2>1. Head(todo[t]).on \in Holds(u) /\ Head(todo[t]).on \in Counting /\ u \in S \cup {slow}
    BY <1>2, WaitsAbove
  <2>2. u \in S
    BY <1>1, <2>1
  <2>3. Below(Holds(u), Rank[Head(todo[u]).on]) /\ Head(todo[u]).on \in K!Locks
    BY <1>2, <2>2, WaitsAbove
  <2>4. Rank[Head(todo[t]).on] >= 6 /\ Rank[Head(todo[t]).on] < Rank[Head(todo[u]).on]
    BY <2>1, <2>3, RankOf DEF Below, Counting
  <2>5. \A lock \in K!Locks : Rank[lock] > 6 => lock \in Counting
    BY RankOf DEF K!Locks, Counting
  <2>6. Rank[Head(todo[u]).on] \in Nat /\ Rank[Head(todo[t]).on] \in Nat
    BY <2>1, <2>3, Ranked DEF Counting, K!Locks
  <2> QED
    BY <2>2, <2>3, <2>4, <2>5, <2>6
<1>4. R = {}
  BY <1>3, NoCircles
<1>5. PICK t \in S : t \in Enforcers
  OBVIOUS
<1>6. Head(todo[t]).on \in Counting
  BY <1>2, <1>5, WaitsAbove DEF Reach
<1> QED
  BY <1>4, <1>5, <1>6

\* No threads wait for one another in a circle, and whoever counts or enforces waits for no
\* command, through however many others, for any number of threads (Tracker, core.Manager and
\* the server: the order in which they take their locks).
THEOREM LocksAlwaysFree == K!Spec => [](K!TypeOK /\ K!NoCircle /\ K!EnforcementIsNotDelayed)
<1>1. LockInv => K!TypeOK
  <2> SUFFICES ASSUME LockInv, NEW lock \in K!Locks, holder[lock] # Nobody, todo[holder[lock]] = <<>>
               PROVE  FALSE
    BY DEF K!TypeOK, LockInv
  <2>1. holder[lock] \in K!Threads /\ lock \in Holds(holder[lock])
    BY DEF LockInv, Holds
  <2>2. Holds(holder[lock]) = {}
    BY <2>1, NothingToDo DEF LockInv
  <2> QED
    BY <2>1, <2>2
<1>2. LockInv => K!NoCircle
  <2> SUFFICES ASSUME LockInv, NEW S \in (SUBSET K!Threads) \ {{}}, \A t \in S : K!WaitsFor(t) \in S
               PROVE  FALSE
    BY DEF K!NoCircle
  <2>1. S \subseteq K!Threads /\ S # {}
    OBVIOUS
  <2> QED
    BY <2>1, NoCircles
<1> QED
  BY <1>1, <1>2, LockInvBegins, LockInvStep, NotDelayed, PTL DEF K!Spec

\* What the run checks is the control and the locks, whichever of them moves.
THEOREM EnforcementIsItsParts == MCSpec => Spec /\ K!Spec
<1>1. MCInit => Init /\ K!Init
  BY DEF MCInit
<1>2. [MCNext]_<<scene, vars, locks>> => [Next]_vars /\ [K!Next]_(K!vars)
  BY DEF MCNext, vars, locks, K!vars
<1> QED
  BY <1>1, <1>2, PTL DEF MCSpec, Spec, K!Spec

\* The locks, for the specification the run checks.
THEOREM LocksNeverBlockHolds == MCSpec => []LocksNeverBlock
<1>1. K!TypeOK /\ K!NoCircle /\ K!EnforcementIsNotDelayed => LocksNeverBlock
  BY DEF LocksNeverBlock
<1> QED
  BY <1>1, EnforcementIsItsParts, LocksAlwaysFree, PTL
=============================================================================
