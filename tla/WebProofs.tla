----------------------------- MODULE WebProofs -----------------------------
(***************************************************************************)
(* Theorems about the pages of the web interface, for the module their run *)
(* checks.                                                                 *)
(*                                                                         *)
(* Gateways (EgressView), for any keys and any number of changes.  That    *)
(* the form never shows a public key of another private key is inductive   *)
(* with the shape of the form.  That the list never goes back in time is   *)
(* not: what makes an answer fresh was decided when its load began.  The   *)
(* invariant says that at most one load still counts, and that its answer, *)
(* once there, is no older than the list shown nor than what the user was  *)
(* told is made - which is why a change must supersede the loads in flight *)
(* before it is told, and a confirmed one must begin its own.              *)
(*                                                                         *)
(* Overview (DashboardView), for any formats, changes and addresses.  The  *)
(* same argument as for the list: what the latest load brings is no older  *)
(* than what is shown and than what the user was told; and a drawing that  *)
(* still counts is in the format selected now, because choosing a format   *)
(* takes that from every drawing under way.                                *)
(*                                                                         *)
(* Traffic (TrafficPage), for any poll interval, any timeout below the age *)
(* at which an answer is stale, and any number of polls: while a poll is   *)
(* overdue the page has nothing else in flight than a request that is not  *)
(* yet old enough to hide the outage.  History and applications            *)
(* (HistoryView, AppsView), for any periods: at most one load counts, it   *)
(* is for what is selected, and an application load that counts and has    *)
(* its answer knows of the last clear the user was told of.                *)
(*                                                                         *)
(* Date picker (DatePicker), for any range of years and any days the clock  *)
(* may show.  That the grid of a month is the calendar is arithmetic, on   *)
(* the days before a month: they grow by its length to the next, and both  *)
(* weekdays, the program's and the reference's, are theirs modulo seven.   *)
(* What is inductive is that the view and the value stay in range.         *)
(*                                                                         *)
(* Settings (SettingsPage), for any values and any number of saves at a    *)
(* time.  That a section's value was saved in that section is not          *)
(* inductive: a save takes effect long after its button was pressed, and   *)
(* the page's copy has moved on since.  The invariant adds what every save *)
(* in flight carries: its own section and nothing else, with a value that  *)
(* was asked for there.                                                    *)
(***************************************************************************)
EXTENDS MCWeb, FiniteSetTheorems, TLAPS

(* The gateways page. *)

Rows   == [ver : Nat, field : Nat]
Forms  == [field : Nat, privateKey : Keys \cup {0}, editing : BOOLEAN]
RowLoads  == [phase : {"sent", "answered"}, latest : BOOLEAN, snap : Rows \cup {E!Nothing}]
Tasks  == [kind : {"save", "create", "toggle", "touch"}, field : Nat,
           phase : {"sent", "served"}, ver : Nat]
Dialogs == [phase : {"closed", "open", "served"}, ver : Nat]

ListTypes ==
  /\ eServer \in Rows /\ items \in Rows \cup {E!Nothing}
  /\ eLoads \in [E!Origins -> RowLoads \cup {E!Idle}]
  /\ eAcked \in Nat /\ kept \in Nat

ChangeTypes ==
  /\ task \in Tasks \cup {E!Nothing} /\ eDialog \in Dialogs
  /\ form \in Forms \cup {E!Nothing} /\ late \in Nat

PageTypes == ListTypes /\ ChangeTypes

\* Nothing the page knows is newer than the server.
RowsKnown ==
  /\ eAcked <= eServer.ver
  /\ items # E!Nothing => items.ver <= eServer.ver
  /\ task # E!Nothing => task.ver <= eServer.ver
  /\ eDialog.ver <= eServer.ver

RowsCount(o) == eLoads[o] # E!Idle /\ eLoads[o].latest

\* At most one load counts, and what it brings is fresh.
RowsFresh ==
  /\ \A o, p \in E!Origins : RowsCount(o) /\ RowsCount(p) => o = p
  /\ \A o \in E!Origins : RowsCount(o) /\ eLoads[o].phase = "answered" =>
       /\ eLoads[o].snap \in Rows
       /\ eAcked <= eLoads[o].snap.ver /\ eLoads[o].snap.ver <= eServer.ver
       /\ items # E!Nothing => items.ver <= eLoads[o].snap.ver
  /\ \A o \in E!Origins : eLoads[o] # E!Idle /\ eLoads[o].phase = "answered" => eLoads[o].snap \in Rows

ListInv == PageTypes /\ RowsKnown /\ RowsFresh

-----------------------------------------------------------------------------
\* A record with the fields of a row, a form, a load or a change is not "none" or "idle".
LEMMA DistinctRows ==
  /\ E!Nothing \notin Rows /\ E!Nothing \notin Forms /\ E!Nothing \notin Tasks /\ E!Idle \notin RowLoads
<1>1. E!Nothing \notin Rows
  BY DEF E!Nothing, Rows
<1>2. E!Nothing \notin Forms
  BY DEF E!Nothing, Forms
<1>3. E!Nothing \notin Tasks
  BY DEF E!Nothing, Tasks
<1>4. E!Idle \notin RowLoads
  BY DEF E!Idle, RowLoads
<1> QED
  BY <1>1, <1>2, <1>3, <1>4

\* A superseded load no longer counts.
LEMMA RowsSuperseded ==
  ASSUME PageTypes
  PROVE  /\ E!Superseded(eLoads) \in [E!Origins -> RowLoads \cup {E!Idle}]
         /\ \A o \in E!Origins : E!Superseded(eLoads)[o] # E!Idle => ~E!Superseded(eLoads)[o].latest
         /\ \A o \in E!Origins : E!Superseded(eLoads)[o] # E!Idle =>
              /\ eLoads[o] # E!Idle /\ E!Superseded(eLoads)[o].phase = eLoads[o].phase
              /\ E!Superseded(eLoads)[o].snap = eLoads[o].snap
<1>1. ASSUME NEW o \in E!Origins, eLoads[o] # E!Idle
      PROVE  /\ [eLoads[o] EXCEPT !.latest = FALSE] \in RowLoads
             /\ ~[eLoads[o] EXCEPT !.latest = FALSE].latest
             /\ [eLoads[o] EXCEPT !.latest = FALSE].phase = eLoads[o].phase
             /\ [eLoads[o] EXCEPT !.latest = FALSE].snap = eLoads[o].snap
  BY <1>1 DEF PageTypes, ListTypes, RowLoads
<1>2. \A o \in E!Origins : E!Superseded(eLoads)[o] =
        IF eLoads[o] = E!Idle THEN E!Idle ELSE [eLoads[o] EXCEPT !.latest = FALSE]
  BY DEF E!Superseded
<1>3. E!Superseded(eLoads) \in [E!Origins -> RowLoads \cup {E!Idle}]
  BY <1>1 DEF E!Superseded
<1> QED
  BY <1>1, <1>2, <1>3

\* What holds of loads that were superseded, and of a new one among them: whatever
\* the list, the server and the user's knowledge have become, none brings an old answer.
LEMMA SupersededRowsFresh ==
  ASSUME ListInv, eLoads' = E!Superseded(eLoads)
  PROVE  eLoads' \in [E!Origins -> RowLoads \cup {E!Idle}] /\ RowsFresh'
BY RowsSuperseded DEF ListInv, RowsFresh, RowsCount

LEMMA LoadingRowsFresh ==
  ASSUME ListInv, NEW o \in E!Origins, eLoads' = E!Loading(o)
  PROVE  eLoads' \in [E!Origins -> RowLoads \cup {E!Idle}] /\ RowsFresh'
<1>1. E!NewLoad \in RowLoads /\ E!NewLoad.phase = "sent"
  BY DEF E!NewLoad, RowLoads
<1>2. \A p \in E!Origins : eLoads'[p] = IF p = o THEN E!NewLoad ELSE E!Superseded(eLoads)[p]
  BY RowsSuperseded DEF E!Loading, ListInv
<1>3. eLoads' \in [E!Origins -> RowLoads \cup {E!Idle}]
  BY <1>1, RowsSuperseded DEF E!Loading, ListInv
<1> QED
  BY <1>1, <1>2, <1>3, RowsSuperseded DEF ListInv, RowsFresh, RowsCount

\* RowLoads in flight stay fresh when the server moves on and the rest stands still.
LEMMA ServerMovesOn ==
  ASSUME ListInv, eServer' \in Rows, eServer.ver <= eServer'.ver, UNCHANGED <<items, eLoads, eAcked>>
  PROVE  RowsFresh' /\ eAcked' <= eServer'.ver
         /\ (items # E!Nothing => items.ver <= eServer'.ver)
BY DEF ListInv, PageTypes, ListTypes, RowsKnown, RowsFresh, RowsCount, Rows

LEMMA WrittenIsNext ==
  ASSUME PageTypes, NEW f \in Nat
  PROVE  E!Written(f) \in Rows /\ E!Written(f).ver = eServer.ver + 1
BY DEF E!Written, PageTypes, ListTypes, Rows

-----------------------------------------------------------------------------
(* Each action keeps the invariant. *)

LEMMA ServerChangesKeeps == ASSUME ListInv, E!ServerChanges PROVE ListInv'
<1>1. eServer' \in Rows /\ eServer'.ver = eServer.ver + 1
  BY WrittenIsNext DEF E!ServerChanges, ListInv
<1>2. RowsFresh' /\ RowsKnown'
  BY <1>1, ServerMovesOn DEF E!ServerChanges, ListInv, RowsKnown, PageTypes, ListTypes, ChangeTypes,
     Rows, Tasks, Dialogs, E!Nothing
<1> QED
  BY <1>1, <1>2 DEF E!ServerChanges, ListInv, PageTypes, ListTypes, ChangeTypes

LEMMA AnswerKeepsList == ASSUME ListInv, NEW o \in E!Origins, E!Answer(o) PROVE ListInv'
<1>1. eLoads[o] # E!Idle /\ eLoads[o] \in RowLoads
  BY DEF E!Answer, E!Idle, ListInv, PageTypes, ListTypes
<1>2. /\ eLoads' \in [E!Origins -> RowLoads \cup {E!Idle}]
      /\ eLoads'[o] = [eLoads[o] EXCEPT !.phase = "answered", !.snap = eServer]
      /\ \A p \in E!Origins : p # o => eLoads'[p] = eLoads[p]
  BY <1>1 DEF E!Answer, RowLoads, ListInv, PageTypes, ListTypes
<1>3. /\ eLoads'[o].latest = eLoads[o].latest /\ eLoads'[o].snap = eServer
      /\ eLoads'[o].phase = "answered" /\ eLoads'[o] # E!Idle
  BY <1>1, <1>2 DEF RowLoads, E!Idle
<1>4. \A p \in E!Origins : RowsCount(p)' <=> RowsCount(p)
  BY <1>1, <1>2, <1>3 DEF RowsCount
<1>5. RowsFresh'
  <2>1. /\ eServer \in Rows /\ UNCHANGED <<eServer, eAcked, items>>
        /\ eAcked <= eServer.ver
        /\ items # E!Nothing => items.ver <= eServer.ver
    BY DEF E!Answer, ListInv, RowsKnown, PageTypes, ListTypes
  <2>2. \A p, q \in E!Origins : RowsCount(p)' /\ RowsCount(q)' => p = q
    BY <1>4 DEF RowsFresh, ListInv
  <2>3. \A p \in E!Origins : RowsCount(p)' /\ eLoads'[p].phase = "answered" =>
          /\ eLoads'[p].snap \in Rows
          /\ eAcked <= eLoads'[p].snap.ver /\ eLoads'[p].snap.ver <= eServer.ver
          /\ items # E!Nothing => items.ver <= eLoads'[p].snap.ver
    <3>1. eServer.ver <= eServer.ver
      BY <2>1 DEF Rows
    <3>2. ASSUME NEW p \in E!Origins, p # o, RowsCount(p)', eLoads'[p].phase = "answered"
          PROVE  /\ eLoads'[p].snap \in Rows
                 /\ eAcked <= eLoads'[p].snap.ver /\ eLoads'[p].snap.ver <= eServer.ver
                 /\ items # E!Nothing => items.ver <= eLoads'[p].snap.ver
      BY <1>2, <1>4, <3>2 DEF RowsFresh, ListInv
    <3>3. /\ eLoads'[o].snap \in Rows
          /\ eAcked <= eLoads'[o].snap.ver /\ eLoads'[o].snap.ver <= eServer.ver
          /\ items # E!Nothing => items.ver <= eLoads'[o].snap.ver
      BY <1>3, <2>1, <3>1
    <3> QED
      BY <3>2, <3>3, Zenon
  <2>4. \A p \in E!Origins : eLoads'[p] # E!Idle /\ eLoads'[p].phase = "answered" => eLoads'[p].snap \in Rows
    BY <1>2, <1>3, <2>1 DEF RowsFresh, ListInv
  <2> QED
    BY <2>1, <2>2, <2>3, <2>4 DEF RowsFresh
<1> QED
  BY <1>2, <1>5 DEF E!Answer, ListInv, PageTypes, ListTypes, ChangeTypes, RowsKnown

LEMMA ArriveKeepsList == ASSUME ListInv, NEW o \in E!Origins, E!Arrive(o) PROVE ListInv'
<1>1. eLoads[o] # E!Idle /\ eLoads[o] \in RowLoads /\ eLoads[o].phase = "answered"
  BY DEF E!Arrive, E!Idle, ListInv, PageTypes, ListTypes
<1>2. /\ eLoads' \in [E!Origins -> RowLoads \cup {E!Idle}] /\ eLoads'[o] = E!Idle
      /\ \A p \in E!Origins : p # o => eLoads'[p] = eLoads[p]
  BY DEF E!Arrive, ListInv, PageTypes, ListTypes
<1>3. \A p \in E!Origins : RowsCount(p)' => RowsCount(p) /\ p # o /\ eLoads'[p] = eLoads[p]
  BY <1>2 DEF RowsCount
<1>4. CASE eLoads[o].latest
  <2>1. RowsCount(o) /\ \A p \in E!Origins : ~RowsCount(p)'
    BY <1>1, <1>3, <1>4 DEF RowsCount, ListInv, RowsFresh
  <2>2. items' \in Rows /\ items'.ver <= eServer.ver
    BY <1>1, <1>4, <2>1 DEF E!Arrive, ListInv, RowsFresh
  <2> QED
    BY <1>2, <1>3, <2>1, <2>2 DEF E!Arrive, ListInv, PageTypes, ListTypes, ChangeTypes, RowsKnown,
       RowsFresh
<1>5. CASE ~eLoads[o].latest
  BY <1>2, <1>3, <1>5 DEF E!Arrive, ListInv, PageTypes, ListTypes, ChangeTypes, RowsKnown, RowsFresh
<1> QED
  BY <1>4, <1>5

LEMMA LoadFailsKeepsList == ASSUME ListInv, NEW o \in E!Origins, E!LoadFails(o) PROVE ListInv'
<1>1. /\ eLoads' \in [E!Origins -> RowLoads \cup {E!Idle}] /\ eLoads'[o] = E!Idle
      /\ \A p \in E!Origins : p # o => eLoads'[p] = eLoads[p]
  BY DEF E!LoadFails, ListInv, PageTypes, ListTypes
<1>2. \A p \in E!Origins : RowsCount(p)' => RowsCount(p) /\ p # o /\ eLoads'[p] = eLoads[p]
  BY <1>1 DEF RowsCount
<1> QED
  BY <1>1, <1>2 DEF E!LoadFails, ListInv, PageTypes, ListTypes, ChangeTypes, RowsKnown, RowsFresh

LEMMA PollKeepsList == ASSUME ListInv, E!Poll PROVE ListInv'
<1>1. eLoads' \in [E!Origins -> RowLoads \cup {E!Idle}] /\ RowsFresh'
  BY LoadingRowsFresh DEF E!Poll, E!Origins
<1> QED
  BY <1>1 DEF E!Poll, ListInv, PageTypes, ListTypes, ChangeTypes, RowsKnown

\* A change that begins supersedes what is in flight; so do forms that open.
LEMMA BeginKeeps ==
  ASSUME ListInv, NEW kind \in {"save", "create", "toggle", "touch"}, NEW field \in Nat,
         E!Begin(kind, field), UNCHANGED <<eServer, items, late, form, eDialog, eAcked, kept>>
  PROVE  ListInv'
<1>1. eLoads' \in [E!Origins -> RowLoads \cup {E!Idle}] /\ RowsFresh'
  BY SupersededRowsFresh DEF E!Begin
<1>2. task' \in Tasks /\ task'.ver = 0
  BY DEF E!Begin, Tasks
<1> QED
  BY <1>1, <1>2 DEF ListInv, PageTypes, ListTypes, ChangeTypes, RowsKnown, Rows

LEMMA ChangesBeginKeep == ASSUME ListInv, E!Save \/ E!Toggle \/ E!Touch PROVE ListInv'
<1>1. CASE E!Save
  BY <1>1, BeginKeeps DEF E!Save, ListInv, PageTypes, ChangeTypes, Forms
<1>2. CASE E!Toggle
  BY <1>2, BeginKeeps DEF E!Toggle, ListInv, PageTypes, ListTypes, Rows
<1>3. CASE E!Touch
  BY <1>3, BeginKeeps DEF E!Touch
<1> QED
  BY <1>1, <1>2, <1>3

LEMMA TaskServedKeeps == ASSUME ListInv, E!TaskServed PROVE ListInv'
<1>1. task \in Tasks
  BY DEF E!TaskServed, ListInv, PageTypes, ChangeTypes
<1>2. eServer' \in Rows /\ eServer'.ver = eServer.ver + 1
  BY <1>1, WrittenIsNext DEF E!TaskServed, ListInv, Tasks
<1>3. task' \in Tasks /\ task'.ver = eServer.ver + 1
  <2>1. eServer.ver + 1 \in Nat
    BY DEF ListInv, PageTypes, ListTypes, Rows
  <2>2. \A v \in Nat : /\ [task EXCEPT !.phase = "served", !.ver = v] \in Tasks
                       /\ [task EXCEPT !.phase = "served", !.ver = v].ver = v
    BY <1>1 DEF Tasks
  <2> QED
    BY <2>1, <2>2 DEF E!TaskServed
<1>4. RowsFresh'
  BY <1>2, ServerMovesOn DEF E!TaskServed, ListInv, PageTypes, ListTypes, Rows
<1>5. RowsKnown'
  BY <1>2, <1>3 DEF E!TaskServed, ListInv, RowsKnown, PageTypes, ListTypes, ChangeTypes, Rows, Dialogs
<1> QED
  BY <1>2, <1>3, <1>4, <1>5 DEF E!TaskServed, ListInv, PageTypes, ListTypes, ChangeTypes

LEMMA TaskDoneKeeps == ASSUME ListInv, E!TaskDone PROVE ListInv'
<1>1. eLoads' \in [E!Origins -> RowLoads \cup {E!Idle}] /\ RowsFresh'
  BY LoadingRowsFresh DEF E!TaskDone, E!Origins
<1>2. task \in Tasks
  BY DEF E!TaskDone, ListInv, PageTypes, ChangeTypes
<1>3. eAcked' \in Nat /\ kept' \in Nat /\ eAcked' <= eServer.ver
  BY <1>2 DEF E!TaskDone, E!Later, ListInv, PageTypes, ListTypes, RowsKnown, Tasks
<1> QED
  BY <1>1, <1>3 DEF E!TaskDone, ListInv, PageTypes, ListTypes, ChangeTypes, RowsKnown

LEMMA LateServedKeeps == ASSUME ListInv, E!LateServed PROVE ListInv'
<1>1. eServer' \in Rows /\ eServer'.ver = eServer.ver + 1
  BY WrittenIsNext DEF E!LateServed, ListInv, PageTypes, ChangeTypes
<1>2. RowsFresh'
  BY <1>1, ServerMovesOn DEF E!LateServed, ListInv, PageTypes, ListTypes, Rows
<1>3. RowsKnown'
  BY <1>1 DEF E!LateServed, ListInv, RowsKnown, PageTypes, ListTypes, ChangeTypes, Rows, Tasks,
     Dialogs, E!Nothing
<1> QED
  BY <1>1, <1>2, <1>3 DEF E!LateServed, ListInv, PageTypes, ListTypes, ChangeTypes

LEMMA CalibrateSubmitKeeps == ASSUME ListInv, E!CalibrateSubmit PROVE ListInv'
<1>1. eServer' \in Rows /\ eServer'.ver = eServer.ver + 1
  BY WrittenIsNext DEF E!CalibrateSubmit, ListInv
<1>2. RowsFresh'
  BY <1>1, ServerMovesOn DEF E!CalibrateSubmit, ListInv, PageTypes, ListTypes, Rows
<1>3. eDialog' \in Dialogs /\ eDialog'.ver = eServer.ver + 1
  BY DEF E!CalibrateSubmit, Dialogs, ListInv, PageTypes, ListTypes, Rows
<1>4. RowsKnown'
  BY <1>1, <1>3 DEF E!CalibrateSubmit, ListInv, RowsKnown, PageTypes, ListTypes, ChangeTypes, Rows,
     Tasks
<1> QED
  BY <1>1, <1>2, <1>3, <1>4 DEF E!CalibrateSubmit, ListInv, PageTypes, ListTypes, ChangeTypes

LEMMA CalibratedKeeps == ASSUME ListInv, E!Calibrated PROVE ListInv'
<1>1. eLoads' \in [E!Origins -> RowLoads \cup {E!Idle}] /\ RowsFresh'
  BY LoadingRowsFresh DEF E!Calibrated, E!Origins
<1>2. eAcked' \in Nat /\ eAcked' <= eServer.ver /\ eDialog' \in Dialogs /\ eDialog'.ver = 0
  BY DEF E!Calibrated, E!Later, ListInv, PageTypes, ListTypes, ChangeTypes, RowsKnown, Dialogs
<1> QED
  BY <1>1, <1>2 DEF E!Calibrated, ListInv, PageTypes, ListTypes, ChangeTypes, RowsKnown, Rows

\* A form that opens supersedes what is in flight.
LEMMA FormOpensKeeps ==
  ASSUME ListInv, (\E k \in Keys : E!Edit(k)) \/ E!Create
  PROVE  ListInv'
<1>1. eLoads' \in [E!Origins -> RowLoads \cup {E!Idle}] /\ RowsFresh'
  BY SupersededRowsFresh DEF E!Edit, E!Create
<1>2. form' \in Forms
  <2>1. ASSUME NEW k \in Keys, E!Edit(k) PROVE form' \in Forms
    <3>1. items \in Rows
      BY <2>1 DEF E!Edit, ListInv, PageTypes, ListTypes
    <3> QED
      BY <2>1, <3>1 DEF E!Edit, Forms, Rows
  <2>2. CASE E!Create
    BY <2>2 DEF E!Create, Forms
  <2> QED
    BY <2>1, <2>2
<1> QED
  BY <1>1, <1>2 DEF E!Edit, E!Create, ListInv, PageTypes, ListTypes, ChangeTypes, RowsKnown

\* The rest leaves the list, the loads and the server alone.
LEMMA FormStepsKeep ==
  ASSUME ListInv, UNCHANGED <<eServer, items, eLoads, eAcked, kept>>,
         UNCHANGED task \/ task' = E!Nothing,
         UNCHANGED eDialog \/ (eDialog' \in Dialogs /\ eDialog'.ver = 0),
         form' \in Forms \cup {E!Nothing}, late' \in Nat
  PROVE  ListInv'
<1>1. RowsFresh'
  BY DEF ListInv, RowsFresh, RowsCount
<1>2. RowsKnown'
  BY DEF ListInv, RowsKnown, PageTypes, ListTypes, Rows
<1> QED
  BY <1>1, <1>2 DEF ListInv, PageTypes, ListTypes, ChangeTypes

\* What the user types and what the keys bring leaves a form a form.
LEMMA FormStaysForm ==
  ASSUME PageTypes, E!TypeField \/ (\E k \in Keys \cup {0} : E!TypeKey(k)) \/ E!KeysArrive
  PROVE  form' \in Forms \cup {E!Nothing}
<1>1. CASE E!TypeField
  BY <1>1 DEF E!TypeField, E!Later, PageTypes, ListTypes, ChangeTypes, Forms, Rows
<1>2. CASE \E k \in Keys \cup {0} : E!TypeKey(k)
  BY <1>2 DEF E!TypeKey, PageTypes, ChangeTypes, Forms
<1>3. CASE E!KeysArrive
  BY <1>3 DEF E!KeysArrive, PageTypes, ChangeTypes, Forms
<1> QED
  BY <1>1, <1>2, <1>3

LEMMA ListInvKept == ListInv /\ [E!Next]_E!vars => ListInv'
<1> SUFFICES ASSUME ListInv, [E!Next]_E!vars PROVE ListInv'
  OBVIOUS
<1>1. CASE E!ServerChanges \/ E!Poll
  BY <1>1, ServerChangesKeeps, PollKeepsList
<1>2. ASSUME NEW o \in E!Origins, E!Answer(o) \/ E!Arrive(o) \/ E!LoadFails(o) PROVE ListInv'
  BY <1>2, AnswerKeepsList, ArriveKeepsList, LoadFailsKeepsList
<1>3. CASE E!Save \/ E!Toggle \/ E!Touch
  BY <1>3, ChangesBeginKeep
<1>4. CASE E!TaskServed \/ E!TaskDone \/ E!LateServed
  BY <1>4, TaskServedKeeps, TaskDoneKeeps, LateServedKeeps
<1>5. CASE E!TaskFails
  <2>1. late' \in Nat
    BY <1>5 DEF E!TaskFails, ListInv, PageTypes, ChangeTypes, Tasks
  <2> QED
    BY <1>5, <2>1, FormStepsKeep DEF E!TaskFails, ListInv, PageTypes, ChangeTypes
<1>6. CASE (\E k \in Keys : E!Edit(k)) \/ E!Create
  BY <1>6, FormOpensKeeps
<1>7. CASE E!TypeField \/ (\E k \in Keys \cup {0} : E!TypeKey(k)) \/ E!KeysArrive
  <2>1. form' \in Forms \cup {E!Nothing}
    BY <1>7, FormStaysForm DEF ListInv
  <2>2. late' \in Nat
    BY <1>7 DEF E!TypeField, E!TypeKey, E!KeysArrive, ListInv, PageTypes, ChangeTypes
  <2> QED
    BY <1>7, <2>1, <2>2, FormStepsKeep DEF E!TypeField, E!TypeKey, E!KeysArrive
<1>8. CASE E!Close \/ E!Derive \/ E!Generate \/ E!KeysFail
  BY <1>8, FormStepsKeep DEF E!Close, E!Derive, E!Generate, E!KeysFail, ListInv, PageTypes, ChangeTypes
<1>9. CASE E!CalibrateOpen \/ E!CalibrateClose
  <2>1. eDialog' \in Dialogs /\ eDialog'.ver = 0
    BY <1>9 DEF E!CalibrateOpen, E!CalibrateClose, Dialogs
  <2> QED
    BY <1>9, <2>1, FormStepsKeep DEF E!CalibrateOpen, E!CalibrateClose, ListInv, PageTypes, ChangeTypes
<1>10. CASE E!CalibrateSubmit \/ E!Calibrated
  BY <1>10, CalibrateSubmitKeeps, CalibratedKeeps
<1>11. CASE UNCHANGED E!vars
  BY <1>11, FormStepsKeep DEF E!vars, ListInv, PageTypes, ChangeTypes
<1> QED
  BY <1>1, <1>2, <1>3, <1>4, <1>5, <1>6, <1>7, <1>8, <1>9, <1>10, <1>11 DEF E!Next

LEMMA ListInvBegins == E!Init => ListInv
<1> SUFFICES ASSUME E!Init PROVE ListInv
  OBVIOUS
<1>1. E!NewLoad \in RowLoads /\ E!NewLoad.phase = "sent"
  BY DEF E!NewLoad, RowLoads
<1>2. PageTypes
  BY <1>1 DEF E!Init, PageTypes, ListTypes, ChangeTypes, Rows, Dialogs
<1>3. RowsKnown
  BY DEF E!Init, RowsKnown
<1>4. RowsFresh
  BY <1>1 DEF E!Init, RowsFresh, RowsCount
<1> QED
  BY <1>2, <1>3, <1>4 DEF ListInv

-----------------------------------------------------------------------------
(* The bounds of the gateways page, and its field. *)

\* What is left of the types.
RowBounds ==
  /\ eServer \in E!Lists /\ items \in E!Lists \cup {E!Nothing}
  /\ \A o \in E!Origins : eLoads[o] # E!Idle /\ eLoads[o].phase = "answered" =>
       eLoads[o].snap \in E!Lists
  /\ form # E!Nothing => form.field \in 0..MaxField
  /\ task # E!Nothing => task.field \in 0..MaxField
  /\ late \in 0..MaxField
  /\ kept \in 1..MaxField /\ stands \in 1..MaxField
  /\ publicKey \in Keys \cup {0} /\ eFailure \in BOOLEAN
  /\ keys # E!Nothing => keys.of \in Keys \cup {0}

LEMMA WrittenIsList ==
  ASSUME RowBounds, eServer.ver < MaxListVer, NEW f \in 0..MaxField
  PROVE  E!Written(f) \in E!Lists
BY WebAssumption DEF RowBounds, E!Written, E!Lists

\* Superseding changes no answer.
LEMMA AnswersStay ==
  ASSUME ListInv, RowBounds,
         \/ eLoads' = eLoads
         \/ eLoads' = E!Superseded(eLoads)
         \/ \E o \in E!Origins : eLoads' = E!Loading(o)
         \/ \E o \in E!Origins : eLoads' = [eLoads EXCEPT ![o] = E!Idle]
  PROVE  \A o \in E!Origins : eLoads'[o] # E!Idle /\ eLoads'[o].phase = "answered" =>
           eLoads'[o].snap \in E!Lists
<1> SUFFICES ASSUME NEW o \in E!Origins, eLoads'[o] # E!Idle, eLoads'[o].phase = "answered"
             PROVE  eLoads'[o].snap \in E!Lists
  OBVIOUS
<1>1. CASE eLoads' = eLoads
  BY <1>1 DEF RowBounds
<1>2. CASE eLoads' = E!Superseded(eLoads)
  BY <1>2, RowsSuperseded DEF RowBounds, ListInv
<1>3. ASSUME NEW p \in E!Origins, eLoads' = E!Loading(p)
      PROVE  eLoads'[o].snap \in E!Lists
  <2>1. eLoads'[o] = IF o = p THEN E!NewLoad ELSE E!Superseded(eLoads)[o]
    BY <1>3, RowsSuperseded DEF E!Loading, ListInv
  <2>2. o # p
    BY <2>1 DEF E!NewLoad
  <2> QED
    BY <2>1, <2>2, RowsSuperseded DEF RowBounds, ListInv
<1>4. ASSUME NEW p \in E!Origins, eLoads' = [eLoads EXCEPT ![p] = E!Idle]
      PROVE  eLoads'[o].snap \in E!Lists
  BY <1>4 DEF RowBounds, ListInv, PageTypes, ListTypes
<1> QED
  BY <1>1, <1>2, <1>3, <1>4

LEMMA BoundsOfForm ==
  ASSUME ListInv, RowBounds,
         E!TypeField \/ (\E k \in Keys \cup {0} : E!TypeKey(k)) \/ E!KeysArrive
  PROVE  /\ form' # E!Nothing => form'.field \in 0..MaxField
         /\ publicKey' \in Keys \cup {0}
<1>1. form # E!Nothing => form \in Forms /\ form.field \in 0..MaxField
  BY DEF ListInv, PageTypes, ChangeTypes, RowBounds
<1>2. CASE E!TypeField
  BY <1>1, <1>2, WebAssumption DEF E!TypeField, E!Later, RowBounds, Forms, E!Lists
<1>3. ASSUME NEW k \in Keys \cup {0}, E!TypeKey(k)
      PROVE  /\ form' # E!Nothing => form'.field \in 0..MaxField
             /\ publicKey' \in Keys \cup {0}
  BY <1>1, <1>3 DEF E!TypeKey, Forms
<1>4. CASE E!KeysArrive
  <2>1. keys.of \in Keys \cup {0}
    BY <1>4 DEF E!KeysArrive, RowBounds
  <2> QED
    BY <1>1, <1>4, <2>1 DEF E!KeysArrive, RowBounds, Forms
<1> QED
  BY <1>2, <1>3, <1>4

LEMMA RowBoundsKept == ASSUME ListInv, RowBounds, [E!Next]_E!vars PROVE RowBounds'
<1> USE DEF RowBounds
<1>1. CASE E!ServerChanges
  <2>1. eServer' \in E!Lists
    BY <1>1, WrittenIsList, WebAssumption DEF E!ServerChanges
  <2> QED
    BY <1>1, <2>1 DEF E!ServerChanges
<1>2. ASSUME NEW o \in E!Origins, E!Answer(o) PROVE RowBounds'
  <2>1. eLoads[o] \in RowLoads /\ eLoads[o] # E!Idle
    BY <1>2 DEF E!Answer, E!Idle, ListInv, PageTypes, ListTypes
  <2>2. \A p \in E!Origins : eLoads'[p] =
          IF p = o THEN [eLoads[o] EXCEPT !.phase = "answered", !.snap = eServer] ELSE eLoads[p]
    BY <1>2, <2>1 DEF E!Answer, RowLoads, ListInv, PageTypes, ListTypes
  <2>3. [eLoads[o] EXCEPT !.phase = "answered", !.snap = eServer].snap = eServer
    BY <2>1 DEF RowLoads
  <2> QED
    BY <1>2, <2>2, <2>3 DEF E!Answer
<1>3. ASSUME NEW o \in E!Origins, E!Arrive(o) \/ E!LoadFails(o) PROVE RowBounds'
  <2>1. \A p \in E!Origins : eLoads'[p] # E!Idle /\ eLoads'[p].phase = "answered" =>
          eLoads'[p].snap \in E!Lists
    BY <1>3, AnswersStay DEF E!Arrive, E!LoadFails
  <2>2. items' \in E!Lists \cup {E!Nothing} /\ eFailure' \in BOOLEAN
    <3>1. CASE E!Arrive(o)
      <4>1. eLoads[o] # E!Idle /\ eLoads[o].snap \in E!Lists
        BY <3>1 DEF E!Arrive, E!Idle
      <4> QED
        BY <3>1, <4>1 DEF E!Arrive
    <3>2. CASE E!LoadFails(o)
      <4>1. eLoads[o].latest \in BOOLEAN
        BY <3>2 DEF E!LoadFails, ListInv, PageTypes, ListTypes, RowLoads
      <4> QED
        BY <3>2, <4>1 DEF E!LoadFails
    <3> QED
      BY <1>3, <3>1, <3>2
  <2> QED
    BY <1>3, <2>1, <2>2 DEF E!Arrive, E!LoadFails
<1>4. CASE E!Poll
  <2>1. \A o \in E!Origins : eLoads'[o] # E!Idle /\ eLoads'[o].phase = "answered" =>
          eLoads'[o].snap \in E!Lists
    BY <1>4, AnswersStay DEF E!Poll, E!Origins
  <2> QED
    BY <1>4, <2>1 DEF E!Poll
<1>5. ASSUME NEW kind, NEW field \in 0..MaxField, E!Begin(kind, field),
             UNCHANGED <<eServer, items, late, form, publicKey, keys, eFailure, kept, stands>>
      PROVE  RowBounds'
  <2>1. \A o \in E!Origins : eLoads'[o] # E!Idle /\ eLoads'[o].phase = "answered" =>
          eLoads'[o].snap \in E!Lists
    BY <1>5, AnswersStay DEF E!Begin
  <2> QED
    BY <1>5, <2>1 DEF E!Begin
<1>6. CASE E!Save \/ E!Toggle \/ E!Touch
  <2>1. 0 \in 0..MaxField
    BY WebAssumption
  <2>2. CASE E!Save
    BY <1>5, <2>1, <2>2 DEF E!Save
  <2>3. CASE E!Toggle
    <3>1. items.field \in 0..MaxField
      BY <2>3, WebAssumption DEF E!Toggle, E!Lists
    <3> QED
      BY <1>5, <2>3, <3>1 DEF E!Toggle
  <2>4. CASE E!Touch
    BY <1>5, <2>1, <2>4 DEF E!Touch
  <2> QED
    BY <1>6, <2>2, <2>3, <2>4
<1>7. CASE E!TaskServed
  <2>1. task \in Tasks /\ task.field \in 0..MaxField
    BY <1>7 DEF E!TaskServed, ListInv, PageTypes, ChangeTypes
  <2>2. eServer' \in E!Lists
    BY <1>7, <2>1, WrittenIsList DEF E!TaskServed
  <2>3. task'.field = task.field
    BY <1>7, <2>1 DEF E!TaskServed, Tasks
  <2>4. stands' \in 1..MaxField
    BY <1>7, <2>1, WebAssumption DEF E!TaskServed
  <2> QED
    BY <1>7, <2>1, <2>2, <2>3, <2>4 DEF E!TaskServed
<1>8. CASE E!TaskDone
  <2>1. \A o \in E!Origins : eLoads'[o] # E!Idle /\ eLoads'[o].phase = "answered" =>
          eLoads'[o].snap \in E!Lists
    BY <1>8, AnswersStay DEF E!TaskDone, E!Origins
  <2>2. kept' \in 1..MaxField /\ stands' \in 1..MaxField
    BY <1>8, WebAssumption DEF E!TaskDone, E!Later
  <2> QED
    BY <1>8, <2>1, <2>2 DEF E!TaskDone
<1>9. ASSUME NEW k \in Keys, E!Edit(k) PROVE RowBounds'
  <2>1. \A o \in E!Origins : eLoads'[o] # E!Idle /\ eLoads'[o].phase = "answered" =>
          eLoads'[o].snap \in E!Lists
    BY <1>9, AnswersStay DEF E!Edit
  <2>2. form'.field \in 0..MaxField
    BY <1>9, WebAssumption DEF E!Edit, E!Lists
  <2> QED
    BY <1>9, <2>1, <2>2 DEF E!Edit
<1>10. CASE E!Create
  <2>1. \A o \in E!Origins : eLoads'[o] # E!Idle /\ eLoads'[o].phase = "answered" =>
          eLoads'[o].snap \in E!Lists
    BY <1>10, AnswersStay DEF E!Create
  <2> QED
    BY <1>10, <2>1, WebAssumption DEF E!Create
<1>11. CASE E!TypeField \/ (\E k \in Keys \cup {0} : E!TypeKey(k)) \/ E!KeysArrive
  <2>1. /\ form' # E!Nothing => form'.field \in 0..MaxField
        /\ publicKey' \in Keys \cup {0}
    BY <1>11, BoundsOfForm
  <2> QED
    BY <1>11, <2>1 DEF E!TypeField, E!TypeKey, E!KeysArrive
<1>12. CASE E!Derive
  <2>1. form.privateKey \in Keys \cup {0}
    BY <1>12 DEF E!Derive, ListInv, PageTypes, ChangeTypes, Forms
  <2> QED
    BY <1>12, <2>1 DEF E!Derive
<1>17. CASE E!LateServed
  <2>1. eServer' \in E!Lists /\ 0 \in 0..MaxField
    BY <1>17, WrittenIsList, WebAssumption DEF E!LateServed
  <2>2. stands' \in 1..MaxField
    BY <1>17, WebAssumption DEF E!LateServed
  <2> QED
    BY <1>17, <2>1, <2>2 DEF E!LateServed
<1>13. CASE E!Close \/ E!Generate \/ E!KeysFail \/ E!TaskFails \/ E!CalibrateOpen \/ E!CalibrateClose
  BY <1>13 DEF E!Close, E!Generate, E!KeysFail, E!TaskFails, E!CalibrateOpen, E!CalibrateClose
<1>14. CASE E!CalibrateSubmit
  <2>1. eServer' \in E!Lists
    BY <1>14, WrittenIsList, WebAssumption DEF E!CalibrateSubmit
  <2> QED
    BY <1>14, <2>1 DEF E!CalibrateSubmit
<1>15. CASE E!Calibrated
  <2>1. \A o \in E!Origins : eLoads'[o] # E!Idle /\ eLoads'[o].phase = "answered" =>
          eLoads'[o].snap \in E!Lists
    BY <1>15, AnswersStay DEF E!Calibrated, E!Origins
  <2> QED
    BY <1>15, <2>1 DEF E!Calibrated
<1>16. CASE UNCHANGED E!vars
  BY <1>16 DEF E!vars
<1> QED
  BY <1>1, <1>2, <1>3, <1>4, <1>6, <1>7, <1>8, <1>9, <1>10, <1>11, <1>12, <1>13, <1>14, <1>15,
     <1>16, <1>17 DEF E!Next

\* No load counts: whatever is awaited, its answer changes nothing.
Silent == \A o \in E!Origins : ~RowsCount(o)

\* That a change writes nothing old back depends on where its field was copied from: the
\* list as it is while no reload is owed to it, or a form that was filled from such a
\* list.  So the reload after a change is never superseded, and while a form is open or
\* a change is under way no other load brings a new list.
FieldStands ==
  /\ eServer.field >= stands
  /\ \A o \in E!Origins : RowsCount(o) /\ eLoads[o].phase = "answered" =>
       eLoads[o].snap.field >= stands
  /\ eLoads["run"] # E!Idle => eLoads["run"].latest
  /\ ~eFailure /\ eLoads["run"] = E!Idle /\ items # E!Nothing => items.field >= stands
  /\ form # E!Nothing => Silent /\ (form.editing /\ ~eFailure => form.field >= stands)
  /\ task # E!Nothing =>
       /\ Silent /\ eDialog.phase = "closed"
       /\ task.kind \in {"toggle", "touch"} => form = E!Nothing
       /\ task.phase = "sent" /\ task.field # 0 /\ ~eFailure => task.field >= stands
  /\ eDialog.phase # "closed" => form = E!Nothing /\ eLoads["run"] = E!Idle

LEMMA SupersededIsSilent ==
  ASSUME ListInv, eLoads' = E!Superseded(eLoads)
  PROVE  Silent' /\ (eLoads["run"] = E!Idle => eLoads'["run"] = E!Idle)
<1>1. "run" \in E!Origins
  BY DEF E!Origins
<1> QED
  BY <1>1, RowsSuperseded DEF ListInv, Silent, RowsCount

\* A new load is the only one that counts, and has no answer yet.
LEMMA LoadingIsAlone ==
  ASSUME ListInv, NEW o \in E!Origins, eLoads' = E!Loading(o)
  PROVE  /\ \A p \in E!Origins : ~(RowsCount(p)' /\ eLoads'[p].phase = "answered")
         /\ eLoads'["run"] = E!Idle \/ o = "run" \/ eLoads["run"] # E!Idle
         /\ o = "run" => eLoads'["run"].latest
<1>1. "run" \in E!Origins /\ E!NewLoad.phase = "sent" /\ E!NewLoad.latest
  BY DEF E!Origins, E!NewLoad
<1>2. \A p \in E!Origins : eLoads'[p] = IF p = o THEN E!NewLoad ELSE E!Superseded(eLoads)[p]
  BY RowsSuperseded DEF E!Loading, ListInv
<1> QED
  BY <1>1, <1>2, RowsSuperseded DEF ListInv, RowsCount

LEMMA FieldStandsKept == ASSUME ListInv, RowBounds, FieldStands, [E!Next]_E!vars PROVE FieldStands'
<1>0. /\ "run" \in E!Origins
      /\ eServer \in E!Lists /\ eServer.field \in Nat /\ stands \in Nat
      /\ items # E!Nothing => items.field \in Nat
      /\ form # E!Nothing => form \in Forms /\ form.field \in Nat
      /\ task # E!Nothing => task \in Tasks /\ task.field \in Nat
      /\ late \in Nat
  BY DEF E!Origins, RowBounds, E!Lists, ListInv, PageTypes, ListTypes, ChangeTypes, Rows, Forms, Tasks
<1>1. CASE E!ServerChanges
  <2>1. eServer'.field = eServer.field
    BY <1>1 DEF E!ServerChanges, E!Written
  <2> QED
    BY <1>1, <2>1 DEF E!ServerChanges, FieldStands, Silent, RowsCount
<1>2. ASSUME NEW o \in E!Origins, E!Answer(o) PROVE FieldStands'
  <2>1. eLoads[o] \in RowLoads /\ eLoads[o] # E!Idle
    BY <1>2 DEF E!Answer, E!Idle, ListInv, PageTypes, ListTypes
  <2>2. \A p \in E!Origins : eLoads'[p] =
          IF p = o THEN [eLoads[o] EXCEPT !.phase = "answered", !.snap = eServer] ELSE eLoads[p]
    BY <1>2, <2>1 DEF E!Answer, RowLoads, ListInv, PageTypes, ListTypes
  <2>3. /\ [eLoads[o] EXCEPT !.phase = "answered", !.snap = eServer].snap = eServer
        /\ [eLoads[o] EXCEPT !.phase = "answered", !.snap = eServer].latest = eLoads[o].latest
        /\ [eLoads[o] EXCEPT !.phase = "answered", !.snap = eServer] # E!Idle
    BY <2>1 DEF RowLoads, E!Idle
  <2>4. \A p \in E!Origins : (RowsCount(p)' <=> RowsCount(p)) /\ (eLoads'[p] = E!Idle <=> eLoads[p] = E!Idle)
    BY <2>1, <2>2, <2>3 DEF RowsCount
  <2>5. \A p \in E!Origins : RowsCount(p)' /\ eLoads'[p].phase = "answered" =>
          eLoads'[p].snap.field >= stands
    BY <2>2, <2>3, <2>4 DEF FieldStands
  <2>6. eLoads'["run"] # E!Idle => eLoads'["run"].latest
    BY <1>0, <2>2, <2>3, <2>4 DEF FieldStands
  <2>7. Silent => Silent'
    BY <2>4 DEF Silent
  <2> QED
    BY <1>0, <1>2, <2>4, <2>5, <2>6, <2>7 DEF E!Answer, FieldStands
<1>3. ASSUME NEW o \in E!Origins, E!Arrive(o) \/ E!LoadFails(o) PROVE FieldStands'
  <2>1. \A p \in E!Origins : eLoads'[p] = IF p = o THEN E!Idle ELSE eLoads[p]
    BY <1>3 DEF E!Arrive, E!LoadFails, ListInv, PageTypes, ListTypes
  <2>2. \A p \in E!Origins : RowsCount(p)' => RowsCount(p) /\ eLoads'[p] = eLoads[p]
    BY <2>1 DEF RowsCount
  <2>3. Silent => Silent'
    BY <2>2 DEF Silent
  <2>4. eLoads[o] # E!Idle
    BY <1>3 DEF E!Arrive, E!LoadFails, E!Idle
  <2>5. CASE ~eLoads[o].latest
    <3>1. o # "run" /\ UNCHANGED <<items, eFailure>>
      <4>1. o # "run" /\ eFailure \in BOOLEAN
        BY <2>4, <2>5 DEF FieldStands, RowBounds
      <4> QED
        BY <1>3, <2>5, <4>1 DEF E!Arrive, E!LoadFails
    <3> QED
      BY <1>0, <1>3, <2>1, <2>2, <2>3, <3>1 DEF E!Arrive, E!LoadFails, FieldStands
  <2>6. CASE eLoads[o].latest
    <3>1. RowsCount(o) /\ form = E!Nothing /\ task = E!Nothing
      BY <2>4, <2>6 DEF RowsCount, FieldStands, Silent
    <3>2. ~eFailure' /\ items' # E!Nothing => items'.field >= stands
      BY <1>3, <2>4, <2>6, <3>1 DEF E!Arrive, E!LoadFails, FieldStands
    <3> QED
      BY <1>0, <1>3, <2>1, <2>2, <3>1, <3>2 DEF E!Arrive, E!LoadFails, FieldStands
  <2>7. eLoads[o].latest \in BOOLEAN
    BY <2>4 DEF ListInv, PageTypes, ListTypes, RowLoads
  <2> QED
    BY <2>5, <2>6, <2>7
<1>4. CASE E!Poll
  <2>1. eLoads["run"] = E!Idle /\ task = E!Nothing /\ form = E!Nothing
    BY <1>0, <1>4 DEF E!Poll, E!pending, E!busy
  <2>2. /\ \A p \in E!Origins : ~(RowsCount(p)' /\ eLoads'[p].phase = "answered")
        /\ eLoads'["run"] = E!Idle
    BY <1>4, <2>1, LoadingIsAlone DEF E!Poll, E!Origins
  <2> QED
    BY <1>4, <2>1, <2>2 DEF E!Poll, FieldStands
<1>5. ASSUME NEW kind \in {"save", "create", "toggle", "touch"}, NEW field \in Nat,
             E!Begin(kind, field), eDialog.phase = "closed",
             UNCHANGED <<eServer, items, form, eDialog, eFailure, kept, stands>>,
             kind \in {"toggle", "touch"} => form = E!Nothing,
             field # 0 /\ ~eFailure => field >= stands
      PROVE  FieldStands'
  <2>1. eLoads["run"] = E!Idle /\ eLoads' = E!Superseded(eLoads)
        /\ task' = [kind |-> kind, field |-> field, phase |-> "sent", ver |-> 0]
    BY <1>5 DEF E!Begin, E!busy
  <2>2. Silent' /\ eLoads'["run"] = E!Idle
    BY <2>1, SupersededIsSilent
  <2>3. \A p \in E!Origins : ~RowsCount(p)'
    BY <2>2 DEF Silent
  <2> QED
    BY <1>5, <2>1, <2>2, <2>3 DEF FieldStands
<1>6. CASE E!Save \/ E!Toggle \/ E!Touch
  <2>1. CASE E!Save
    BY <1>0, <1>5, <2>1 DEF E!Save, FieldStands
  <2>2. CASE E!Toggle
    <3>1. eLoads["run"] = E!Idle
      BY <2>2 DEF E!Toggle, E!Begin, E!busy
    <3> QED
      BY <1>0, <1>5, <2>2, <3>1 DEF E!Toggle, FieldStands
  <2>3. CASE E!Touch
    BY <1>0, <1>5, <2>3 DEF E!Touch
  <2> QED
    BY <1>6, <2>1, <2>2, <2>3
<1>7. CASE E!TaskServed
  <2>1. /\ task # E!Nothing /\ task \in Tasks /\ task.phase = "sent"
        /\ task' = [task EXCEPT !.phase = "served", !.ver = eServer.ver + 1]
        /\ UNCHANGED <<items, eLoads, form, eDialog, eFailure>>
    BY <1>0, <1>7 DEF E!TaskServed
  <2>2. /\ task'.phase = "served" /\ task'.field = task.field /\ task'.kind = task.kind
        /\ task' # E!Nothing
    BY <2>1, DistinctRows DEF Tasks, E!Nothing
  <2>3. eServer'.field = IF task.field = 0 THEN eServer.field ELSE task.field
    BY <1>7 DEF E!TaskServed, E!Written
  <2>4. /\ stands' = IF task.field # 0 /\ task.field < stands THEN task.field ELSE stands
        /\ stands' \in Nat /\ stands' <= stands /\ eServer'.field >= stands'
    BY <1>0, <1>7, <2>1, <2>3 DEF E!TaskServed, FieldStands
  <2>5. Silent /\ Silent' /\ \A p \in E!Origins : ~RowsCount(p)'
    BY <2>1 DEF FieldStands, Silent, RowsCount
  <2>6. ~eFailure /\ eLoads["run"] = E!Idle /\ items # E!Nothing => items.field >= stands'
    BY <1>0, <2>4 DEF FieldStands
  <2>7. form # E!Nothing /\ form.editing /\ ~eFailure => form.field >= stands'
    BY <1>0, <2>4 DEF FieldStands
  <2> QED
    BY <2>1, <2>2, <2>3, <2>4, <2>5, <2>6, <2>7 DEF FieldStands
<1>14. CASE E!LateServed
  <2>1. /\ UNCHANGED <<items, eLoads, task, form, eDialog, eFailure>> /\ eServer'.field = late
        /\ stands' = IF late < stands THEN late ELSE stands
    BY <1>14 DEF E!LateServed, E!Written
  <2>2. stands' \in Nat /\ stands' <= stands /\ eServer'.field >= stands'
    BY <1>0, <2>1
  <2>3. (Silent' <=> Silent) /\ \A p \in E!Origins : RowsCount(p)' <=> RowsCount(p)
    BY <2>1 DEF Silent, RowsCount
  <2>4. \A p \in E!Origins : RowsCount(p)' /\ eLoads'[p].phase = "answered" =>
          eLoads'[p].snap.field >= stands'
    <3>1. ASSUME NEW p \in E!Origins, RowsCount(p), eLoads[p].phase = "answered"
          PROVE  eLoads[p].snap.field \in Nat /\ eLoads[p].snap.field >= stands
      BY <3>1 DEF FieldStands, ListInv, RowsFresh, Rows
    <3> QED
      BY <1>0, <2>1, <2>2, <2>3, <3>1
  <2>5. /\ ~eFailure /\ eLoads["run"] = E!Idle /\ items # E!Nothing => items.field >= stands'
        /\ form # E!Nothing /\ form.editing /\ ~eFailure => form.field >= stands'
        /\ task # E!Nothing /\ task.phase = "sent" /\ task.field # 0 /\ ~eFailure => task.field >= stands'
    BY <1>0, <2>2 DEF FieldStands
  <2> QED
    BY <2>1, <2>2, <2>3, <2>4, <2>5 DEF FieldStands
<1>8. CASE E!TaskDone
  <2>1. /\ task # E!Nothing /\ task \in Tasks /\ task.phase = "served" /\ task' = E!Nothing
        /\ eLoads' = E!Loading("run") /\ UNCHANGED <<eServer, items, eDialog, eFailure>>
        /\ eDialog.phase = "closed"
    BY <1>0, <1>8 DEF E!TaskDone, FieldStands
  <2>2. /\ \A p \in E!Origins : ~(RowsCount(p)' /\ eLoads'[p].phase = "answered")
        /\ eLoads'["run"].latest
    BY <1>0, <2>1, LoadingIsAlone
  <2>3. eLoads'["run"] # E!Idle
    <3>1. eLoads'["run"] = E!NewLoad
      BY <1>0, <2>1, RowsSuperseded DEF E!Loading, ListInv
    <3> QED
      BY <3>1 DEF E!NewLoad, E!Idle
  <2>4. form' = E!Nothing
    BY <1>8, <2>1 DEF E!TaskDone, FieldStands, Tasks
  <2>5. eServer.field >= stands'
    BY <1>0, <1>8, <2>1 DEF E!TaskDone, E!Later, FieldStands
  <2> QED
    BY <2>1, <2>2, <2>3, <2>4, <2>5 DEF FieldStands
<1>9. CASE (\E k \in Keys : E!Edit(k)) \/ E!Create
  <2>1. /\ eLoads["run"] = E!Idle /\ eLoads' = E!Superseded(eLoads) /\ task = E!Nothing
        /\ eDialog.phase = "closed"
        /\ UNCHANGED <<eServer, items, task, eDialog, eFailure, kept, stands>>
    BY <1>9 DEF E!Edit, E!Create, E!busy
  <2>2. Silent' /\ eLoads'["run"] = E!Idle /\ \A p \in E!Origins : ~RowsCount(p)'
    BY <2>1, SupersededIsSilent DEF Silent
  <2>3. form'.editing /\ ~eFailure => form'.field >= stands
    <3>1. ASSUME NEW k \in Keys, E!Edit(k)
          PROVE  form'.editing /\ ~eFailure => form'.field >= stands
      BY <1>0, <2>1, <3>1 DEF E!Edit, FieldStands
    <3>2. CASE E!Create
      BY <3>2 DEF E!Create
    <3> QED
      BY <1>9, <3>1, <3>2
  <2> QED
    BY <2>1, <2>2, <2>3 DEF FieldStands
<1>10. CASE E!TypeField \/ (\E k \in Keys \cup {0} : E!TypeKey(k)) \/ E!KeysArrive
  <2>1. UNCHANGED <<eServer, items, eLoads, task, eDialog, eFailure, kept, stands>>
    BY <1>10 DEF E!TypeField, E!TypeKey, E!KeysArrive
  <2>2. /\ form' # E!Nothing => form # E!Nothing
        /\ form' # E!Nothing /\ form'.editing /\ ~eFailure => form'.field >= stands
    <3>1. CASE E!TypeField
      <4>1. /\ form \in Forms /\ form # E!Nothing
            /\ form' = [form EXCEPT !.field = E!Later(@, E!Later(eServer.field, kept)) + 1]
        BY <1>0, <3>1 DEF E!TypeField
      <4>2. kept \in Nat
        BY DEF ListInv, PageTypes, ListTypes
      <4>3. form'.field = E!Later(form.field, E!Later(eServer.field, kept)) + 1
        BY <4>1 DEF Forms
      <4>4. form'.field >= eServer.field
        BY <1>0, <4>1, <4>2, <4>3 DEF E!Later
      <4>5. form'.field \in Nat
        BY <1>0, <4>1, <4>2, <4>3 DEF E!Later
      <4> QED
        BY <1>0, <4>1, <4>4, <4>5 DEF FieldStands
    <3>2. ASSUME NEW k \in Keys \cup {0}, form # E!Nothing, form' = [form EXCEPT !.privateKey = k]
          PROVE  /\ form' # E!Nothing => form # E!Nothing
                 /\ form' # E!Nothing /\ form'.editing /\ ~eFailure => form'.field >= stands
      <4>1. form'.editing = form.editing /\ form'.field = form.field
        BY <1>0, <3>2 DEF Forms
      <4> QED
        BY <3>2, <4>1 DEF FieldStands
    <3>3. CASE UNCHANGED form
      BY <3>3 DEF FieldStands
    <3> QED
      BY <1>10, <3>1, <3>2, <3>3 DEF E!TypeKey, E!KeysArrive
  <2>3. Silent' <=> Silent
    BY <2>1 DEF Silent, RowsCount
  <2>4. \A p \in E!Origins : RowsCount(p)' <=> RowsCount(p)
    BY <2>1 DEF RowsCount
  <2> QED
    BY <2>1, <2>2, <2>3, <2>4 DEF FieldStands
<1>11. CASE \/ E!Close \/ E!Derive \/ E!Generate \/ E!KeysFail \/ E!TaskFails \/ E!CalibrateOpen
            \/ E!CalibrateClose \/ UNCHANGED E!vars
  <2>1. UNCHANGED <<eServer, items, eLoads, eFailure, kept, stands>>
    BY <1>11 DEF E!Close, E!Derive, E!Generate, E!KeysFail, E!TaskFails, E!CalibrateOpen,
       E!CalibrateClose, E!vars
  <2>2. (Silent' <=> Silent) /\ \A p \in E!Origins : RowsCount(p)' <=> RowsCount(p)
    BY <2>1 DEF Silent, RowsCount
  <2>3. UNCHANGED form \/ form' = E!Nothing
    BY <1>11 DEF E!Close, E!Derive, E!Generate, E!KeysFail, E!TaskFails, E!CalibrateOpen,
       E!CalibrateClose, E!vars
  <2>4. CASE E!CalibrateOpen
    BY <2>1, <2>2, <2>4 DEF E!CalibrateOpen, E!busy, FieldStands
  <2>5. CASE ~E!CalibrateOpen
    <3>1. UNCHANGED task \/ task' = E!Nothing
      BY <1>11, <2>5 DEF E!Close, E!Derive, E!Generate, E!KeysFail, E!TaskFails, E!CalibrateClose, E!vars
    <3>2. UNCHANGED eDialog \/ eDialog'.phase = "closed"
      BY <1>11, <2>5 DEF E!Close, E!Derive, E!Generate, E!KeysFail, E!TaskFails, E!CalibrateClose, E!vars
    <3> QED
      BY <2>1, <2>2, <2>3, <3>1, <3>2 DEF FieldStands
  <2> QED
    BY <2>4, <2>5
<1>12. CASE E!CalibrateSubmit
  <2>1. eServer'.field = eServer.field
    BY <1>12 DEF E!CalibrateSubmit, E!Written
  <2>2. /\ eDialog.phase = "open" /\ task = E!Nothing
        /\ UNCHANGED <<items, eLoads, task, form, eFailure, kept, stands>>
    BY <1>12 DEF E!CalibrateSubmit, FieldStands
  <2>3. (Silent' <=> Silent) /\ \A p \in E!Origins : RowsCount(p)' <=> RowsCount(p)
    BY <2>2 DEF Silent, RowsCount
  <2> QED
    BY <2>1, <2>2, <2>3 DEF FieldStands
<1>13. CASE E!Calibrated
  <2>1. /\ eDialog.phase = "served" /\ task = E!Nothing /\ form = E!Nothing
        /\ eLoads["run"] = E!Idle /\ eLoads' = E!Loading("calibrate") /\ eDialog'.phase = "closed"
        /\ UNCHANGED <<eServer, items, task, form, eFailure, kept, stands>>
    BY <1>13 DEF E!Calibrated, FieldStands
  <2>2. /\ \A p \in E!Origins : ~(RowsCount(p)' /\ eLoads'[p].phase = "answered")
        /\ eLoads'["run"] = E!Idle
    BY <2>1, LoadingIsAlone DEF E!Origins
  <2> QED
    BY <2>1, <2>2 DEF FieldStands
<1> QED
  BY <1>1, <1>2, <1>3, <1>4, <1>6, <1>7, <1>8, <1>9, <1>10, <1>11, <1>12, <1>13,
     <1>14 DEF E!Next

LEMMA KeysMatchKept == ASSUME ListInv, E!KeysMatch, [E!Next]_E!vars PROVE E!KeysMatch'
<1>1. CASE UNCHANGED <<form, publicKey>>
  BY <1>1 DEF E!KeysMatch
<1>2. CASE publicKey' = 0
  BY <1>2 DEF E!KeysMatch
<1>3. ASSUME NEW k \in Keys, E!Edit(k) PROVE E!KeysMatch'
  BY <1>3 DEF E!Edit, E!KeysMatch, E!Nothing
<1>4. CASE E!TypeField
  <2>1. form' \in Forms /\ form'.privateKey = form.privateKey
    BY <1>4 DEF E!TypeField, E!Later, ListInv, PageTypes, ListTypes, ChangeTypes, Forms, Rows
  <2> QED
    BY <1>4, <2>1, DistinctRows DEF E!TypeField, E!KeysMatch
<1>5. CASE E!KeysArrive
  <2>1. CASE /\ UNCHANGED form
             /\ \/ UNCHANGED publicKey
                \/ form # E!Nothing /\ form.privateKey = keys.of /\ publicKey' = keys.of
    BY <2>1 DEF E!KeysMatch
  <2>2. CASE \E k \in Keys : form # E!Nothing /\ form' = [form EXCEPT !.privateKey = k] /\ publicKey' = k
    <3>1. PICK k \in Keys : form # E!Nothing /\ form' = [form EXCEPT !.privateKey = k] /\ publicKey' = k
      BY <2>2
    <3>2. form' \in Forms /\ form'.privateKey = k
      BY <3>1 DEF ListInv, PageTypes, ChangeTypes, Forms
    <3> QED
      BY <3>1, <3>2, DistinctRows DEF E!KeysMatch
  <2> QED
    BY <1>5, <2>1, <2>2 DEF E!KeysArrive
<1> QED
  BY <1>1, <1>2, <1>3, <1>4, <1>5 DEF E!Next, E!vars, E!ServerChanges, E!Poll, E!Answer, E!Arrive,
     E!LoadFails,
     E!Save, E!Toggle, E!Touch, E!TaskServed, E!TaskDone, E!TaskFails, E!LateServed, E!TypeKey, E!Create,
     E!Close, E!Derive, E!Generate,
     E!KeysFail, E!CalibrateOpen, E!CalibrateSubmit, E!CalibrateClose, E!Calibrated

LEMMA FieldBegins == E!Init => RowBounds /\ FieldStands
<1> SUFFICES ASSUME E!Init PROVE RowBounds /\ FieldStands
  OBVIOUS
<1>1. \A o \in E!Origins : eLoads[o] = IF o = "poll" THEN E!NewLoad ELSE E!Idle
  BY DEF E!Init
<1>2. E!NewLoad.phase = "sent" /\ "run" \in E!Origins
  BY DEF E!NewLoad, E!Origins
<1>3. RowBounds
  <2>1. eServer \in E!Lists /\ 1 \in 1..MaxField /\ late \in 0..MaxField
    BY WebAssumption DEF E!Init, E!Lists
  <2>2. \A o \in E!Origins : ~(eLoads[o] # E!Idle /\ eLoads[o].phase = "answered")
    BY <1>1, <1>2
  <2> QED
    BY <2>1, <2>2 DEF E!Init, RowBounds
<1>4. FieldStands
  BY <1>1, <1>2 DEF E!Init, FieldStands, RowsCount
<1> QED
  BY <1>3, <1>4

\* The invariant of the gateways page.
EgressInv == ListInv /\ RowBounds /\ FieldStands /\ E!KeysMatch

LEMMA EgressInvAlways == E!Spec => []EgressInv
<1>1. E!Init => EgressInv
  BY ListInvBegins, FieldBegins DEF EgressInv, E!Init, E!KeysMatch
<1>2. EgressInv /\ [E!Next]_E!vars => EgressInv'
  BY ListInvKept, RowBoundsKept, FieldStandsKept, KeysMatchKept DEF EgressInv
<1> QED
  BY <1>1, <1>2, PTL DEF E!Spec

-----------------------------------------------------------------------------
\* The list shown on the gateways page never gives way to one that is older, or older than
\* a change the user was told is made, for any number of changes and however the answers to
\* overlapping loads are ordered (EgressView.vue, load and run).
THEOREM ListNeverOlder == E!Spec => [][E!NothingOlder]_E!vars
<1>1. ASSUME ListInv, [E!Next]_E!vars PROVE E!NothingOlder \/ UNCHANGED E!vars
  <2> SUFFICES ASSUME items' # items PROVE E!NothingOlder
    BY DEF E!NothingOlder
  <2>1. PICK o \in E!Origins : E!Arrive(o)
    BY <1>1 DEF E!Next, E!vars, E!ServerChanges, E!Poll, E!Answer, E!LoadFails, E!Save, E!Toggle,
       E!Touch, E!TaskServed,
       E!TaskDone, E!TaskFails, E!LateServed, E!Edit, E!TypeKey, E!Create, E!Close, E!TypeField, E!Derive,
       E!Generate, E!KeysArrive,
       E!KeysFail, E!CalibrateOpen, E!CalibrateSubmit, E!CalibrateClose, E!Calibrated
  <2>2. eLoads[o].latest /\ items' = eLoads[o].snap /\ RowsCount(o) /\ eLoads[o].phase = "answered"
    BY <2>1 DEF E!Arrive, RowsCount, E!Idle
  <2> QED
    BY <1>1, <2>1, <2>2 DEF E!NothingOlder, ListInv, RowsFresh, E!Arrive
<1>2. ListInv /\ [E!Next]_E!vars => [E!NothingOlder]_E!vars
  BY <1>1
<1> QED
  BY <1>2, EgressInvAlways, PTL DEF E!Spec, EgressInv

\* The public key the form shows is that of its private key, for any keys, whatever is
\* typed, generated, derived, closed and opened while keys are on their way
\* (EgressView.vue, derive and generate).
THEOREM KeysAlwaysMatch == E!Spec => [](E!TypeOK /\ E!KeysMatch)
<1>1. EgressInv => E!TypeOK
  <2> SUFFICES ASSUME EgressInv PROVE E!TypeOK
    OBVIOUS
  <2>1. eLoads \in [E!Origins -> RowLoads \cup {E!Idle}] /\ form \in Forms \cup {E!Nothing}
    BY DEF EgressInv, ListInv, PageTypes, ListTypes, ChangeTypes
  <2>2. \A o \in E!Origins : eLoads[o] = E!Idle \/ eLoads[o].phase \in {"sent", "answered"}
    BY <2>1 DEF RowLoads
  <2>3. form = E!Nothing
        \/ form \in [field : 0..MaxField, privateKey : Keys \cup {0}, editing : BOOLEAN]
    BY <2>1 DEF EgressInv, RowBounds, Forms
  <2>4. eAcked \in 0..MaxListVer
    BY WebAssumption DEF EgressInv, ListInv, RowsKnown, PageTypes, ListTypes, RowBounds, E!Lists
  <2>5. /\ eServer \in E!Lists /\ items \in E!Lists \cup {E!Nothing}
        /\ publicKey \in Keys \cup {0} /\ eFailure \in BOOLEAN
        /\ {kept, stands} \subseteq 1..MaxField /\ late \in 0..MaxField
    BY DEF EgressInv, RowBounds
  <2> QED
    BY <2>2, <2>3, <2>4, <2>5 DEF E!TypeOK
<1>2. EgressInv => E!KeysMatch
  BY DEF EgressInv
<1> QED
  BY <1>1, <1>2, EgressInvAlways, PTL

\* No change overwrites what the user was told is saved with an older value, unless the page
\* shows that it failed to reload its list or had given the change up, for any number of changes and values
\* (EgressView.vue: run, load, edit and toggle).
THEOREM SavedAlwaysKept == E!Spec => [][E!SavedIsKept]_E!vars
<1>1. EgressInv /\ [E!Next]_E!vars => [E!SavedIsKept]_E!vars
  <2> SUFFICES ASSUME EgressInv, E!Next, eServer'.field # eServer.field, eServer'.field < stands,
                      late' = late
               PROVE  eFailure
    BY DEF E!SavedIsKept
  <2>1. E!TaskServed
    <3>1. ~(E!ServerChanges \/ E!CalibrateSubmit \/ E!LateServed)
      BY DEF E!ServerChanges, E!CalibrateSubmit, E!LateServed, E!Written
    <3> QED
      BY <3>1 DEF E!Next, E!Poll, E!Answer, E!Arrive, E!LoadFails, E!Save, E!Toggle, E!Touch,
         E!TaskDone, E!TaskFails, E!Edit, E!TypeKey, E!Create, E!Close, E!TypeField, E!Derive,
         E!Generate, E!KeysArrive, E!KeysFail, E!CalibrateOpen, E!CalibrateClose, E!Calibrated
  <2>2. task # E!Nothing /\ task.phase = "sent" /\ task.field # 0 /\ eServer'.field = task.field
    BY <2>1 DEF E!TaskServed, E!Written
  <2>3. task.field \in Nat /\ stands \in Nat
    BY <2>2 DEF EgressInv, RowBounds
  <2>4. eFailure \in BOOLEAN
    BY DEF EgressInv, RowBounds
  <2> QED
    BY <2>2, <2>3, <2>4 DEF EgressInv, FieldStands
<1> QED
  BY <1>1, EgressInvAlways, PTL DEF E!Spec

-----------------------------------------------------------------------------
(* The settings page. *)

\* The saves there can be of a section, when "asked" is what was saved there.
PutsOf(s) == [section : {s}, body : [{s} -> asked[s]], served : BOOLEAN]

SettingsInv ==
  /\ DOMAIN saved = G!Sections /\ DOMAIN asked = G!Sections
  /\ G!SectionsSaveAlone
  /\ \A p \in puts : \E s \in G!Sections : p \in PutsOf(s)

-----------------------------------------------------------------------------
\* What was once asked for stays asked for, so a save in flight stays what it is.
LEMMA AskedGrows ==
  ASSUME SettingsInv, \A s \in G!Sections : asked[s] \subseteq asked'[s]
  PROVE  \A p \in puts : \E s \in G!Sections : p \in PutsOf(s)'
<1>1. \A s \in G!Sections : PutsOf(s) \subseteq PutsOf(s)'
  BY DEF PutsOf
<1> QED
  BY <1>1 DEF SettingsInv

\* A button puts one save in flight, of its own section, and asks for its value.
LEMMA SaveKeeps == ASSUME SettingsInv, NEW s \in G!Sections, G!Save(s) PROVE SettingsInv'
<1>1. /\ DOMAIN asked' = G!Sections /\ UNCHANGED saved
      /\ \A x \in G!Sections : asked[x] \subseteq asked'[x]
      /\ settings[s] \in asked'[s]
  BY DEF G!Save, SettingsInv
<1>2. [section |-> s, body |-> G!Body(s), served |-> FALSE] \in PutsOf(s)'
  BY <1>1 DEF PutsOf, G!Body
<1>3. \A p \in puts' : \E x \in G!Sections : p \in PutsOf(x)'
  BY <1>1, <1>2, AskedGrows DEF G!Save
<1> QED
  BY <1>1, <1>3 DEF SettingsInv, G!SectionsSaveAlone

\* The handler writes what the body names and leaves the other section alone.
LEMMA PutServedKeeps == ASSUME SettingsInv, NEW p \in puts, G!PutServed(p) PROVE SettingsInv'
<1>1. PICK s \in G!Sections : p \in PutsOf(s)
  BY DEF SettingsInv
<1>2. DOMAIN p.body = {s} /\ p.body[s] \in asked[s]
  BY <1>1 DEF PutsOf
<1>3. [p EXCEPT !.served = TRUE] \in PutsOf(s)
  BY <1>1 DEF PutsOf
<1>4. /\ UNCHANGED asked /\ \A x \in G!Sections : PutsOf(x)' = PutsOf(x)
  BY DEF G!PutServed, PutsOf
<1>5. \A q \in puts' : \E x \in G!Sections : q \in PutsOf(x)'
  BY <1>1, <1>3, <1>4 DEF G!PutServed, SettingsInv
<1>6. DOMAIN saved' = G!Sections /\ \A x \in G!Sections : saved'[x] \in asked[x]
  <2>1. CASE saved' = saved
    BY <2>1 DEF SettingsInv, G!SectionsSaveAlone
  <2>2. CASE saved' = [x \in G!Sections |-> IF x \in DOMAIN p.body THEN p.body[x] ELSE saved[x]]
    BY <1>2, <2>2 DEF SettingsInv, G!SectionsSaveAlone
  <2> QED
    BY <2>1, <2>2 DEF G!PutServed
<1> QED
  BY <1>4, <1>5, <1>6 DEF SettingsInv, G!SectionsSaveAlone

\* Another tab asks for the value it saves.
LEMMA SavedElsewhereKeeps ==
  ASSUME SettingsInv, NEW s \in G!Sections, NEW v \in G!Values, G!SavedElsewhere(s, v)
  PROVE  SettingsInv'
<1>1. /\ DOMAIN asked' = G!Sections /\ DOMAIN saved' = G!Sections
      /\ \A x \in G!Sections : asked[x] \subseteq asked'[x]
      /\ \A x \in G!Sections : saved'[x] = IF x = s THEN v ELSE saved[x]
      /\ v \in asked'[s] /\ UNCHANGED puts
  BY DEF G!SavedElsewhere, SettingsInv
<1>2. \A p \in puts' : \E x \in G!Sections : p \in PutsOf(x)'
  BY <1>1, AskedGrows
<1> QED
  BY <1>1, <1>2 DEF SettingsInv, G!SectionsSaveAlone

\* Everything else changes neither what is saved, nor what was asked for, nor adds a save.
LEMMA OthersKeep ==
  ASSUME SettingsInv, UNCHANGED <<saved, asked>>, puts' \subseteq puts
  PROVE  SettingsInv'
<1>1. \A s \in G!Sections : PutsOf(s)' = PutsOf(s)
  BY DEF PutsOf
<1> QED
  BY <1>1 DEF SettingsInv, G!SectionsSaveAlone

LEMMA SettingsInvKept == ASSUME SettingsInv, [G!Next]_G!vars PROVE SettingsInv'
<1>1. CASE G!LoadServed \/ G!Loaded
  BY <1>1, OthersKeep DEF G!LoadServed, G!Loaded
<1>2. ASSUME NEW s \in G!Sections, G!Save(s) PROVE SettingsInv'
  BY <1>2, SaveKeeps
<1>3. ASSUME NEW s \in G!Sections, NEW v \in G!Values, G!Edit(s, v) PROVE SettingsInv'
  BY <1>3, OthersKeep DEF G!Edit
<1>4. ASSUME NEW s \in G!Sections, NEW v \in G!Values, G!SavedElsewhere(s, v) PROVE SettingsInv'
  BY <1>4, SavedElsewhereKeeps
<1>5. ASSUME NEW p \in puts, G!PutServed(p) PROVE SettingsInv'
  BY <1>5, PutServedKeeps
<1>6. ASSUME NEW p \in puts, G!PutEnds(p) PROVE SettingsInv'
  BY <1>6, OthersKeep DEF G!PutEnds
<1>7. CASE UNCHANGED G!vars
  BY <1>7, OthersKeep DEF G!vars
<1> QED
  BY <1>1, <1>2, <1>3, <1>4, <1>5, <1>6, <1>7 DEF G!Next

\* Every module counts alike.
LEMMA SameCount == \A S : G!Cardinality(S) = Cardinality(S)
BY DEF G!Cardinality, Cardinality

\* The types of the settings page; the saves in flight are as many as its bound allows.
SettingsTypes ==
  /\ saved \in G!Copies /\ settings \in G!Copies \cup {G!Nothing}
  /\ load.phase \in {"sent", "answered", "over"}
  /\ load.phase = "answered" => load.copy \in G!Copies
  /\ IsFiniteSet(puts) /\ Cardinality(puts) <= MaxPuts
  /\ asked \in [G!Sections -> SUBSET G!Values]

LEMMA SettingsTypesKept ==
  ASSUME SettingsInv, SettingsTypes, [G!Next]_G!vars
  PROVE  SettingsTypes'
<1> USE DEF SettingsTypes
<1>1. CASE G!LoadServed \/ G!Loaded
  BY <1>1 DEF G!LoadServed, G!Loaded
<1>2. ASSUME NEW s \in G!Sections, G!Save(s) PROVE SettingsTypes'
  <2>1. settings \in G!Copies /\ settings[s] \in G!Values
    BY <1>2 DEF G!Save, G!Copies
  <2>2. asked' \in [G!Sections -> SUBSET G!Values]
    BY <1>2, <2>1 DEF G!Save
  <2>3. IsFiniteSet(puts') /\ Cardinality(puts') <= MaxPuts
    <3>1. Cardinality(puts) \in Nat /\ Cardinality(puts) < MaxPuts
      BY <1>2, FS_CardinalityType, SameCount DEF G!Save
    <3>2. PICK q : puts' = puts \cup {q}
      BY <1>2 DEF G!Save
    <3>3. /\ IsFiniteSet(puts')
          /\ Cardinality(puts') = Cardinality(puts) \/ Cardinality(puts') = Cardinality(puts) + 1
      BY <3>2, FS_AddElement
    <3>4. MaxPuts \in Nat
      BY WebAssumption
    <3> QED
      BY <3>1, <3>3, <3>4
  <2> QED
    BY <1>2, <2>2, <2>3 DEF G!Save
<1>3. ASSUME NEW s \in G!Sections, NEW v \in G!Values, G!Edit(s, v) PROVE SettingsTypes'
  BY <1>3 DEF G!Edit, G!Copies
<1>4. ASSUME NEW s \in G!Sections, NEW v \in G!Values, G!SavedElsewhere(s, v) PROVE SettingsTypes'
  BY <1>4 DEF G!SavedElsewhere, G!Copies
<1>5. ASSUME NEW p \in puts, G!PutServed(p) PROVE SettingsTypes'
  <2>1. IsFiniteSet(puts') /\ Cardinality(puts') <= MaxPuts
    <3>1. /\ IsFiniteSet(puts \ {p}) /\ Cardinality(puts \ {p}) = Cardinality(puts) - 1
          /\ Cardinality(puts) \in Nat /\ Cardinality(puts \ {p}) \in Nat
      BY FS_RemoveElement, FS_CardinalityType
    <3>2. \A q : /\ IsFiniteSet((puts \ {p}) \cup {q})
                 /\ \/ Cardinality((puts \ {p}) \cup {q}) = Cardinality(puts \ {p})
                    \/ Cardinality((puts \ {p}) \cup {q}) = Cardinality(puts \ {p}) + 1
      BY <3>1, FS_AddElement
    <3>3. PICK q : puts' = (puts \ {p}) \cup {q}
      BY <1>5 DEF G!PutServed
    <3>4. /\ IsFiniteSet(puts')
          /\ \/ Cardinality(puts') = Cardinality(puts \ {p})
             \/ Cardinality(puts') = Cardinality(puts \ {p}) + 1
      BY <3>2, <3>3
    <3>5. MaxPuts \in Nat /\ Cardinality(puts) <= MaxPuts
      BY WebAssumption
    <3> QED
      BY <3>1, <3>4, <3>5
  <2>2. PICK s \in G!Sections : p \in PutsOf(s)
    BY DEF SettingsInv
  <2>3. \A x \in DOMAIN p.body : p.body[x] \in G!Values
    BY <2>2 DEF PutsOf
  <2>4. saved' \in G!Copies
    BY <1>5, <2>3 DEF G!PutServed, G!Copies
  <2> QED
    BY <1>5, <2>1, <2>4 DEF G!PutServed
<1>6. ASSUME NEW p \in puts, G!PutEnds(p) PROVE SettingsTypes'
  <2>1. IsFiniteSet(puts') /\ Cardinality(puts') <= MaxPuts
    <3>1. /\ IsFiniteSet(puts \ {p}) /\ Cardinality(puts \ {p}) = Cardinality(puts) - 1
          /\ Cardinality(puts) \in Nat
      BY FS_RemoveElement, FS_CardinalityType
    <3> QED
      BY <1>6, <3>1, WebAssumption DEF G!PutEnds
  <2> QED
    BY <1>6, <2>1 DEF G!PutEnds
<1>7. CASE UNCHANGED G!vars
  BY <1>7 DEF G!vars
<1> QED
  BY <1>1, <1>2, <1>3, <1>4, <1>5, <1>6, <1>7 DEF G!Next

\* "Each section saves independently" (i18n.ts, settings.help; SettingsView.vue): for
\* any number of saves in flight, the server never holds in a section a value that nobody
\* saved in that section.
THEOREM SectionsAlwaysSaveAlone == G!Spec => [](G!TypeOK /\ G!SectionsSaveAlone)
<1>1. G!Init => SettingsInv /\ SettingsTypes
  <2> SUFFICES ASSUME G!Init PROVE SettingsInv /\ SettingsTypes
    OBVIOUS
  <2>1. SettingsInv
    BY DEF G!Init, SettingsInv, G!SectionsSaveAlone
  <2>2. IsFiniteSet(puts) /\ Cardinality(puts) <= MaxPuts
    BY FS_EmptySet, WebAssumption DEF G!Init
  <2>3. saved \in G!Copies /\ asked \in [G!Sections -> SUBSET G!Values]
    BY WebAssumption DEF G!Init, G!Copies, G!Values
  <2> QED
    BY <2>1, <2>2, <2>3 DEF G!Init, SettingsTypes
<1>2. SettingsInv /\ SettingsTypes /\ [G!Next]_G!vars => (SettingsInv /\ SettingsTypes)'
  BY SettingsInvKept, SettingsTypesKept
<1>3. SettingsInv /\ SettingsTypes => G!TypeOK /\ G!SectionsSaveAlone
  BY SameCount DEF SettingsInv, SettingsTypes, G!TypeOK
<1> QED
  BY <1>1, <1>2, <1>3, PTL DEF G!Spec

-----------------------------------------------------------------------------
(* The overview page. *)

DashLoads == [phase : {"sent", "answered", "drawing"}, latest : BOOLEAN,
              snap : D!Snapshots \cup {D!Nothing}, card : D!Cards \cup {D!Nothing}, drawn : BOOLEAN]

DashTypes ==
  /\ dServer \in D!Snapshots /\ dShown \in D!Snapshots \cup {D!Nothing}
  /\ format \in Formats
  /\ qr \in D!Cards \cup {D!Nothing} /\ select \in D!Cards \cup {D!Nothing}
  /\ dLoads \in [D!Origins -> DashLoads \cup {D!Idle}]
  /\ post \in [phase : {"no", "sent", "served"}, ver : 0..MaxVer]
  /\ refreshing \in {"no", "load", "server"}
  /\ dDialog \in [phase : {"closed", "open", "sent", "served"}, ver : 0..MaxVer]
  /\ dAcked \in 0..MaxVer

\* Nothing the page knows is newer than the server.
DashKnown ==
  /\ dAcked <= dServer.ver
  /\ dShown # D!Nothing => dShown.ver <= dServer.ver
  /\ post.ver <= dServer.ver /\ dDialog.ver <= dServer.ver

\* What the latest load brings is fresh, and the card that counts is in the format selected.
LoadFresh(l) ==
  l.phase # "sent" =>
    /\ l.snap \in D!Snapshots
    /\ l.latest => /\ dAcked <= l.snap.ver /\ l.snap.ver <= dServer.ver
                   /\ dShown # D!Nothing => dShown.ver <= l.snap.ver
    /\ l.phase = "drawing" => l.card \in D!Cards /\ (l.drawn => l.card.format = format)

DashCounts(o) == dLoads[o] # D!Idle /\ dLoads[o].latest

DashFresh ==
  /\ \A o \in D!Origins : dLoads[o] # D!Idle => LoadFresh(dLoads[o])
  /\ \A o, p \in D!Origins : DashCounts(o) /\ DashCounts(p) => o = p
  /\ select # D!Nothing => select.format = format

DashInv == DashTypes /\ DashKnown /\ DashFresh

\* A load that something superseded: the same, but for what it counts for.
Weaker(l, k) ==
  /\ l \in DashLoads /\ l # D!Idle
  /\ l.phase = k.phase /\ l.snap = k.snap /\ l.card = k.card
  /\ (l.latest => k.latest) /\ (l.drawn => k.drawn)

LEMMA DistinctLoads ==
  /\ D!Idle \notin DashLoads /\ D!Nothing \notin D!Snapshots /\ D!Nothing \notin D!Cards
  /\ D!NewLoad \in DashLoads /\ D!NewLoad.phase = "sent" /\ D!NewLoad.latest
  /\ D!NewLoad # D!Idle
<1>1. D!Idle \notin DashLoads
  BY DEF D!Idle, DashLoads
<1>2. D!Nothing \notin D!Snapshots
  BY DEF D!Nothing, D!Snapshots
<1>3. D!Nothing \notin D!Cards
  BY DEF D!Nothing, D!Cards
<1>4. D!NewLoad \in DashLoads /\ D!NewLoad.phase = "sent" /\ D!NewLoad.latest
  BY DEF D!NewLoad, DashLoads
<1> QED
  BY <1>1, <1>2, <1>3, <1>4

LEMMA LoadsSuperseded ==
  ASSUME DashTypes, NEW o \in D!Origins
  PROVE  /\ D!Superseded(dLoads)[o] = D!Idle <=> dLoads[o] = D!Idle
         /\ dLoads[o] # D!Idle => /\ Weaker(D!Superseded(dLoads)[o], dLoads[o])
                                  /\ ~D!Superseded(dLoads)[o].latest
<1>1. D!Superseded(dLoads)[o] =
        IF dLoads[o] = D!Idle THEN D!Idle ELSE [dLoads[o] EXCEPT !.latest = FALSE]
  BY DEF D!Superseded
<1>2. dLoads[o] \in DashLoads \cup {D!Idle}
  BY DEF DashTypes
<1>3. \A l \in DashLoads : [l EXCEPT !.latest = FALSE] \in DashLoads /\ ~[l EXCEPT !.latest = FALSE].latest
  BY DEF DashLoads
<1>4. \A l \in DashLoads : /\ [l EXCEPT !.latest = FALSE].phase = l.phase
                           /\ [l EXCEPT !.latest = FALSE].snap = l.snap
                           /\ [l EXCEPT !.latest = FALSE].card = l.card
                           /\ [l EXCEPT !.latest = FALSE].drawn = l.drawn
  BY DEF DashLoads
<1> QED
  BY <1>1, <1>2, <1>3, <1>4, DistinctLoads DEF Weaker

LEMMA CardsGoOld ==
  ASSUME DashTypes, NEW o \in D!Origins
  PROVE  /\ D!CardsSuperseded(dLoads)[o] = D!Idle <=> dLoads[o] = D!Idle
         /\ dLoads[o] # D!Idle => /\ Weaker(D!CardsSuperseded(dLoads)[o], dLoads[o])
                                  /\ ~D!CardsSuperseded(dLoads)[o].drawn
                                  /\ D!CardsSuperseded(dLoads)[o].latest = dLoads[o].latest
<1>1. D!CardsSuperseded(dLoads)[o] =
        IF dLoads[o] = D!Idle THEN D!Idle ELSE [dLoads[o] EXCEPT !.drawn = FALSE]
  BY DEF D!CardsSuperseded
<1>2. dLoads[o] \in DashLoads \cup {D!Idle}
  BY DEF DashTypes
<1>3. \A l \in DashLoads : [l EXCEPT !.drawn = FALSE] \in DashLoads /\ ~[l EXCEPT !.drawn = FALSE].drawn
  BY DEF DashLoads
<1>4. \A l \in DashLoads : /\ [l EXCEPT !.drawn = FALSE].phase = l.phase
                           /\ [l EXCEPT !.drawn = FALSE].snap = l.snap
                           /\ [l EXCEPT !.drawn = FALSE].card = l.card
                           /\ [l EXCEPT !.drawn = FALSE].latest = l.latest
  BY DEF DashLoads
<1> QED
  BY <1>1, <1>2, <1>3, <1>4, DistinctLoads DEF Weaker

\* What every step but an answer leaves of the loads: nothing, a new one, or the load itself
\* with no more to count for.  A step that tells the user of a change, or shows something
\* new, leaves no answer that counts.
LEMMA FreshStays ==
  ASSUME DashInv, dServer' \in D!Snapshots, dServer.ver <= dServer'.ver,
         \A o \in D!Origins : \/ dLoads'[o] = D!Idle
                              \/ dLoads'[o] = D!NewLoad
                              \/ dLoads[o] # D!Idle /\ Weaker(dLoads'[o], dLoads[o]),
         \A o, p \in D!Origins : DashCounts(o)' /\ DashCounts(p)' => o = p,
         \/ UNCHANGED <<dAcked, dShown>>
         \/ \A o \in D!Origins : DashCounts(o)' => dLoads'[o].phase = "sent",
         \/ format' = format
         \/ \A o \in D!Origins : dLoads'[o] # D!Idle /\ dLoads'[o].phase # "sent" => ~dLoads'[o].drawn,
         select' # D!Nothing => select'.format = format'
  PROVE  DashFresh'
<1>1. ASSUME NEW o \in D!Origins, dLoads'[o] # D!Idle PROVE LoadFresh(dLoads[o])'
  <2>1. CASE dLoads'[o] = D!NewLoad
    BY <2>1, DistinctLoads DEF LoadFresh
  <2>2. CASE dLoads[o] # D!Idle /\ Weaker(dLoads'[o], dLoads[o]) /\ dLoads'[o].phase # "sent"
    <3>1. LoadFresh(dLoads[o]) /\ dLoads[o].phase # "sent"
      BY <2>2 DEF DashInv, DashFresh, Weaker
    <3>2. dLoads'[o].snap \in D!Snapshots /\ dLoads'[o].snap = dLoads[o].snap
      BY <2>2, <3>1 DEF LoadFresh, Weaker
    <3>3. dLoads'[o].latest => /\ dAcked' <= dLoads'[o].snap.ver
                               /\ dLoads'[o].snap.ver <= dServer'.ver
                               /\ dShown' # D!Nothing => dShown'.ver <= dLoads'[o].snap.ver
      <4> SUFFICES ASSUME dLoads'[o].latest
                   PROVE  /\ dAcked' <= dLoads'[o].snap.ver
                          /\ dLoads'[o].snap.ver <= dServer'.ver
                          /\ dShown' # D!Nothing => dShown'.ver <= dLoads'[o].snap.ver
        OBVIOUS
      <4>1. dLoads[o].latest /\ DashCounts(o)'
        BY <1>1, <2>2 DEF Weaker, DashCounts
      <4>2. UNCHANGED <<dAcked, dShown>>
        BY <2>2, <4>1
      <4>3. dServer.ver \in Nat /\ dServer'.ver \in Nat /\ dLoads[o].snap.ver \in Nat
        BY <3>1, <3>2 DEF DashInv, DashTypes, D!Snapshots
      <4> QED
        BY <3>1, <3>2, <4>1, <4>2, <4>3 DEF LoadFresh
    <3>4. dLoads'[o].phase = "drawing" =>
            dLoads'[o].card \in D!Cards /\ (dLoads'[o].drawn => dLoads'[o].card.format = format')
      BY <1>1, <2>2, <3>1 DEF LoadFresh, Weaker
    <3> QED
      BY <3>2, <3>3, <3>4 DEF LoadFresh
  <2>3. CASE dLoads'[o].phase = "sent"
    BY <2>3 DEF LoadFresh
  <2> QED
    BY <1>1, <2>1, <2>2, <2>3
<1> QED
  BY <1>1 DEF DashFresh

\* A load that begins is the only one that counts.
LEMMA LoadBegins ==
  ASSUME DashTypes, NEW o \in D!Origins, dLoads' = D!Loading(o)
  PROVE  /\ dLoads' \in [D!Origins -> DashLoads \cup {D!Idle}]
         /\ \A p \in D!Origins : \/ dLoads'[p] = D!Idle
                                 \/ dLoads'[p] = D!NewLoad
                                 \/ dLoads[p] # D!Idle /\ Weaker(dLoads'[p], dLoads[p])
         /\ \A p \in D!Origins : DashCounts(p)' => p = o /\ dLoads'[p].phase = "sent"
<1>1. \A p \in D!Origins : dLoads'[p] = IF p = o THEN D!NewLoad ELSE D!Superseded(dLoads)[p]
  BY DEF D!Loading, D!Superseded
<1>2. DOMAIN dLoads' = D!Origins /\ dLoads' = [p \in D!Origins |-> dLoads'[p]]
  BY DEF D!Loading, D!Superseded
<1>3. \A p \in D!Origins : \/ dLoads'[p] = D!Idle
                           \/ dLoads'[p] = D!NewLoad
                           \/ dLoads[p] # D!Idle /\ Weaker(dLoads'[p], dLoads[p])
  BY <1>1, LoadsSuperseded
<1>4. \A p \in D!Origins : dLoads'[p] \in DashLoads \cup {D!Idle}
  BY <1>3, DistinctLoads DEF Weaker
<1>5. dLoads' \in [D!Origins -> DashLoads \cup {D!Idle}]
  BY <1>2, <1>4
<1>6. \A p \in D!Origins : DashCounts(p)' => p = o /\ dLoads'[p].phase = "sent"
  BY <1>1, LoadsSuperseded, DistinctLoads DEF DashCounts
<1> QED
  BY <1>3, <1>5, <1>6

\* A load that ends leaves the others what they were.
LEMMA LoadEnds ==
  ASSUME DashInv, NEW o \in D!Origins, dLoads' = [dLoads EXCEPT ![o] = D!Idle]
  PROVE  /\ dLoads' \in [D!Origins -> DashLoads \cup {D!Idle}]
         /\ \A p \in D!Origins : \/ dLoads'[p] = D!Idle
                                 \/ dLoads[p] # D!Idle /\ Weaker(dLoads'[p], dLoads[p])
         /\ \A p \in D!Origins : DashCounts(p)' => DashCounts(p) /\ p # o
<1>1. /\ dLoads' \in [D!Origins -> DashLoads \cup {D!Idle}]
      /\ \A p \in D!Origins : dLoads'[p] = IF p = o THEN D!Idle ELSE dLoads[p]
  BY DEF DashInv, DashTypes
<1> QED
  BY <1>1, DistinctLoads DEF DashInv, DashTypes, Weaker, DashCounts

LEMMA LoadsStay ==
  ASSUME DashInv, dLoads' = dLoads
  PROVE  /\ \A p \in D!Origins : dLoads'[p] = D!Idle \/ (dLoads[p] # D!Idle /\ Weaker(dLoads'[p], dLoads[p]))
         /\ \A p, q \in D!Origins : DashCounts(p)' /\ DashCounts(q)' => p = q
BY DistinctLoads DEF DashInv, DashTypes, DashFresh, Weaker, DashCounts

\* The server's next state.
LEMMA NextVersion ==
  ASSUME DashTypes, dServer.ver < MaxVer, dServer' = [dServer EXCEPT !.ver = @ + 1]
  PROVE  dServer' \in D!Snapshots /\ dServer'.ver = dServer.ver + 1 /\ dServer.ver \in Nat
         /\ dServer.ver + 1 \in 0..MaxVer
BY WebAssumption DEF DashTypes, D!Snapshots

\* Each action keeps the invariant.

LEMMA DashServerKeeps == ASSUME DashInv, D!ServerChanges \/ D!Takes PROVE DashInv'
<1>1. dServer' \in D!Snapshots /\ dServer.ver <= dServer'.ver /\ dServer'.ver \in Nat /\ dServer.ver \in Nat
  <2>1. CASE dServer.ver < MaxVer /\ dServer' = [dServer EXCEPT !.ver = @ + 1]
    BY <2>1, NextVersion DEF DashInv
  <2>2. CASE dServer.url < MaxUrl /\ dServer' = [dServer EXCEPT !.url = @ + 1]
    BY <2>2, WebAssumption DEF DashInv, DashTypes, D!Snapshots
  <2> QED
    BY <2>1, <2>2 DEF D!ServerChanges, D!Takes
<1>2. UNCHANGED <<dShown, format, qr, dLoads, select, refreshing, dAcked>>
  BY DEF D!ServerChanges, D!Takes
<1>3. DashFresh'
  BY <1>1, <1>2, LoadsStay, FreshStays DEF DashInv, DashFresh
<1>4. /\ post' \in [phase : {"no", "sent", "served"}, ver : 0..MaxVer]
      /\ dDialog' \in [phase : {"closed", "open", "sent", "served"}, ver : 0..MaxVer]
      /\ post'.ver <= dServer'.ver /\ dDialog'.ver <= dServer'.ver
  <2>1. CASE UNCHANGED <<post, dDialog>>
    BY <1>1, <2>1 DEF DashInv, DashTypes, DashKnown
  <2>2. CASE D!Takes
    <3>1. dServer'.ver = dServer.ver + 1 /\ dServer.ver + 1 \in 0..MaxVer
      BY <2>2, NextVersion DEF D!Takes, DashInv
    <3>2. \/ post' = [phase |-> "served", ver |-> dServer.ver + 1] /\ UNCHANGED dDialog
          \/ dDialog' = [phase |-> "served", ver |-> dServer.ver + 1] /\ UNCHANGED post
      BY <2>2 DEF D!Takes
    <3> QED
      BY <1>1, <3>1, <3>2 DEF DashInv, DashTypes, DashKnown
  <2> QED
    BY <2>1, <2>2 DEF D!ServerChanges
<1>5. DashKnown'
  BY <1>1, <1>2, <1>4 DEF DashInv, DashKnown, DashTypes, D!Snapshots
<1>6. DashTypes'
  BY <1>1, <1>2, <1>4 DEF DashInv, DashTypes
<1> QED
  BY <1>3, <1>5, <1>6 DEF DashInv

LEMMA DashAnswerKeeps == ASSUME DashInv, NEW o \in D!Origins, D!Answer(o) PROVE DashInv'
<1>1. dLoads[o] \in DashLoads /\ dLoads[o] # D!Idle /\ dLoads[o].phase = "sent"
  BY DEF D!Answer, D!Idle, DashInv, DashTypes
<1> DEFINE l == [dLoads[o] EXCEPT !.phase = "answered", !.snap = dServer]
<1>2. /\ l \in DashLoads /\ l.phase = "answered" /\ l.snap = dServer /\ l.latest = dLoads[o].latest
  BY <1>1 DEF DashLoads, DashInv, DashTypes
<1>3. dLoads' = [dLoads EXCEPT ![o] = l]
  BY DEF D!Answer
<1> HIDE DEF l
<1>4. /\ dLoads' \in [D!Origins -> DashLoads \cup {D!Idle}]
      /\ \A p \in D!Origins : dLoads'[p] = IF p = o THEN l ELSE dLoads[p]
  BY <1>2, <1>3 DEF DashInv, DashTypes
<1>5. UNCHANGED <<dServer, dShown, format, qr, select, post, refreshing, dDialog, dAcked>>
  BY DEF D!Answer
<1>6. LoadFresh(l)
  BY <1>2 DEF LoadFresh, DashInv, DashTypes, DashKnown, D!Snapshots
<1>7. \A p \in D!Origins : dLoads'[p] # D!Idle => LoadFresh(dLoads[p])'
  <2>1. ASSUME NEW p \in D!Origins, dLoads'[p] # D!Idle PROVE LoadFresh(dLoads'[p])
    BY <1>4, <1>6, <2>1 DEF DashInv, DashFresh
  <2> QED
    BY <1>5, <2>1 DEF LoadFresh
<1>8. \A p \in D!Origins : DashCounts(p)' => DashCounts(p)
  BY <1>1, <1>2, <1>4 DEF DashCounts
<1>9. DashFresh'
  BY <1>5, <1>7, <1>8 DEF DashFresh, DashInv
<1> QED
  BY <1>4, <1>5, <1>9 DEF DashInv, DashTypes, DashKnown

\* A load that ends without an answer to show.
LEMMA DashEndKeeps ==
  ASSUME DashInv, NEW o \in D!Origins, dLoads' = [dLoads EXCEPT ![o] = D!Idle],
         UNCHANGED <<dServer, dShown, format, select, post, dDialog, dAcked>>,
         qr' \in D!Cards \cup {D!Nothing}, refreshing' \in {"no", "load", "server"}
  PROVE  DashInv'
<1>1. dServer.ver \in Nat
  BY DEF DashInv, DashTypes, D!Snapshots
<1>2. \A p, q \in D!Origins : DashCounts(p)' /\ DashCounts(q)' => p = q
  BY LoadEnds DEF DashInv, DashFresh
<1>3. DashFresh'
  <2>1. \A p \in D!Origins : \/ dLoads'[p] = D!Idle
                             \/ dLoads'[p] = D!NewLoad
                             \/ dLoads[p] # D!Idle /\ Weaker(dLoads'[p], dLoads[p])
    BY LoadEnds
  <2>2. dServer' \in D!Snapshots /\ dServer.ver <= dServer'.ver
    BY <1>1 DEF DashInv, DashTypes
  <2>3. select' # D!Nothing => select'.format = format'
    BY DEF DashInv, DashFresh
  <2> QED
    BY <1>2, <2>1, <2>2, <2>3, FreshStays
<1> QED
  BY <1>3, LoadEnds DEF DashInv, DashTypes, DashKnown

\* What a load shows: its own answer, when it is the latest.
LEMMA PublishKeeps ==
  ASSUME DashInv, NEW o \in D!Origins, NEW card \in D!Cards \cup {D!Nothing}, NEW counts,
         dLoads[o] # D!Idle, dLoads[o].phase # "sent", D!Publish(o, dLoads, card, counts),
         UNCHANGED <<dServer, format, select, post, dDialog, dAcked>>
  PROVE  DashInv'
<1>1. /\ dLoads' = [dLoads EXCEPT ![o] = D!Idle]
      /\ refreshing' \in {"no", "load", "server"}
      /\ qr' \in D!Cards \cup {D!Nothing}
  BY DEF D!Publish, D!Over, DashInv, DashTypes
<1>2. CASE ~dLoads[o].latest
  BY <1>1, <1>2, DashEndKeeps DEF D!Publish
<1>3. CASE dLoads[o].latest
  <2>1. dShown' = dLoads[o].snap /\ DashCounts(o)
    BY <1>3 DEF D!Publish, DashCounts
  <2>2. dShown' \in D!Snapshots /\ dShown'.ver <= dServer.ver
    BY <1>3, <2>1 DEF DashInv, DashFresh, LoadFresh
  <2>3. \A p \in D!Origins : ~DashCounts(p)'
    BY <1>1, <2>1, LoadEnds DEF DashInv, DashFresh
  <2>4. dServer.ver \in Nat
    BY DEF DashInv, DashTypes, D!Snapshots
  <2>5. DashFresh'
    <3>1. \A p \in D!Origins : \/ dLoads'[p] = D!Idle
                               \/ dLoads'[p] = D!NewLoad
                               \/ dLoads[p] # D!Idle /\ Weaker(dLoads'[p], dLoads[p])
      BY <1>1, LoadEnds
    <3>2. dServer' \in D!Snapshots /\ dServer.ver <= dServer'.ver
      BY <2>4 DEF DashInv, DashTypes
    <3>3. select' # D!Nothing => select'.format = format'
      BY DEF DashInv, DashFresh
    <3>4. /\ \A p, q \in D!Origins : DashCounts(p)' /\ DashCounts(q)' => p = q
          /\ \A p \in D!Origins : DashCounts(p)' => dLoads'[p].phase = "sent"
      BY <2>3
    <3> QED
      BY <3>1, <3>2, <3>3, <3>4, FreshStays
  <2> QED
    BY <1>1, <2>2, <2>5, LoadEnds DEF DashInv, DashTypes, DashKnown
<1> QED
  BY <1>2, <1>3

LEMMA DashArriveKeeps == ASSUME DashInv, NEW o \in D!Origins, D!Arrive(o) PROVE DashInv'
<1>1. dLoads[o] \in DashLoads /\ dLoads[o] # D!Idle /\ dLoads[o].phase = "answered"
  BY DEF D!Arrive, D!Idle, DashInv, DashTypes
<1>2. dLoads[o].snap \in D!Snapshots /\ LoadFresh(dLoads[o])
  BY <1>1 DEF DashInv, DashFresh, LoadFresh
<1>3. CASE D!SameAddress(dLoads[o].snap)
  BY <1>1, <1>3, PublishKeeps DEF D!Arrive
<1>4. CASE ~D!SameAddress(dLoads[o].snap)
  <2> DEFINE card == [url |-> dLoads[o].snap.url, format |-> format]
             l == [D!CardsSuperseded(dLoads)[o] EXCEPT !.phase = "drawing", !.drawn = TRUE, !.card = card]
  <2>1. card \in D!Cards /\ card.format = format
    BY <1>2 DEF D!Cards, D!Snapshots, DashInv, DashTypes
  <2>2. Weaker(D!CardsSuperseded(dLoads)[o], dLoads[o])
    BY <1>1, CardsGoOld DEF DashInv
  <2> HIDE DEF card
  <2>3. /\ l \in DashLoads /\ l # D!Idle /\ l.phase = "drawing" /\ l.card = card
        /\ l.snap = dLoads[o].snap /\ (l.latest => dLoads[o].latest)
    <3>1. D!CardsSuperseded(dLoads)[o] \in DashLoads
      BY <2>2 DEF Weaker
    <3>2. \A k \in DashLoads :
            LET j == [k EXCEPT !.phase = "drawing", !.drawn = TRUE, !.card = card]
            IN  /\ j \in DashLoads /\ j.phase = "drawing" /\ j.card = card
                /\ j.snap = k.snap /\ j.latest = k.latest
      BY <2>1 DEF DashLoads
    <3> QED
      BY <2>2, <3>1, <3>2, DistinctLoads DEF Weaker
  <2>4. dLoads' = [D!CardsSuperseded(dLoads) EXCEPT ![o] = l]
    BY <1>4 DEF D!Arrive, card
  <2> HIDE DEF l
  <2>5. \A p \in D!Origins : dLoads'[p] = IF p = o THEN l ELSE D!CardsSuperseded(dLoads)[p]
    BY <2>4 DEF D!CardsSuperseded
  <2>6. dLoads' \in [D!Origins -> DashLoads \cup {D!Idle}]
    <3>1. \A p \in D!Origins : D!CardsSuperseded(dLoads)[p] \in DashLoads \cup {D!Idle}
      BY CardsGoOld DEF DashInv, Weaker
    <3>2. \A p \in D!Origins : dLoads'[p] \in DashLoads \cup {D!Idle}
      BY <2>3, <2>5, <3>1
    <3> QED
      BY <2>4, <3>2 DEF D!CardsSuperseded
  <2>7. select' = D!Nothing /\ UNCHANGED <<dServer, dShown, format, qr, post, refreshing, dDialog, dAcked>>
    BY <1>4 DEF D!Arrive
  <2>8. \A p \in D!Origins : dLoads'[p] # D!Idle => LoadFresh(dLoads[p])'
    <3>1. LoadFresh(l)
      BY <1>1, <1>2, <2>1, <2>3 DEF LoadFresh
    <3>2. ASSUME NEW p \in D!Origins, p # o, dLoads'[p] # D!Idle PROVE LoadFresh(dLoads'[p])
      BY <2>5, <3>2, CardsGoOld DEF DashInv, DashFresh, LoadFresh, Weaker
    <3>3. ASSUME NEW p \in D!Origins, dLoads'[p] # D!Idle PROVE LoadFresh(dLoads'[p])
      BY <2>5, <3>1, <3>2, <3>3
    <3> QED
      BY <2>7, <3>3 DEF LoadFresh
  <2>9. \A p \in D!Origins : DashCounts(p)' => DashCounts(p)
    BY <1>1, <2>3, <2>5, CardsGoOld DEF DashCounts, DashInv, Weaker
  <2>10. DashFresh'
    BY <2>7, <2>8, <2>9 DEF DashInv, DashFresh
  <2> QED
    BY <2>6, <2>7, <2>10 DEF DashInv, DashTypes, DashKnown
<1> QED
  BY <1>3, <1>4

LEMMA DashDrawnKeeps ==
  ASSUME DashInv, NEW o \in D!Origins, D!Drawn(o) \/ D!LoadFails(o)
  PROVE  DashInv'
<1>1. CASE D!Drawn(o)
  <2>1. dLoads[o] \in DashLoads /\ dLoads[o] # D!Idle /\ dLoads[o].phase = "drawing"
    BY <1>1 DEF D!Drawn, D!Idle, DashInv, DashTypes
  <2>2. dLoads[o].card \in D!Cards \cup {D!Nothing}
    BY <2>1 DEF DashLoads
  <2> QED
    BY <1>1, <2>1, <2>2, PublishKeeps DEF D!Drawn
<1>2. CASE D!LoadFails(o)
  <2>1. refreshing' \in {"no", "load", "server"} /\ qr' \in D!Cards \cup {D!Nothing}
    BY <1>2 DEF D!LoadFails, D!Over, DashInv, DashTypes
  <2> QED
    BY <1>2, <2>1, DashEndKeeps DEF D!LoadFails
<1> QED
  BY <1>1, <1>2

\* A load that begins, whatever the user learns of changes by then.
LEMMA DashLoadKeeps ==
  ASSUME DashInv, NEW o \in D!Origins, dLoads' = D!Loading(o),
         UNCHANGED <<dServer, dShown, format, qr, select>>,
         dAcked' \in 0..MaxVer, dAcked' <= dServer.ver,
         post' \in [phase : {"no", "sent", "served"}, ver : 0..MaxVer], post'.ver <= dServer.ver,
         dDialog' \in [phase : {"closed", "open", "sent", "served"}, ver : 0..MaxVer],
         dDialog'.ver <= dServer.ver, refreshing' \in {"no", "load", "server"}
  PROVE  DashInv'
<1>1. /\ dLoads' \in [D!Origins -> DashLoads \cup {D!Idle}]
      /\ \A p \in D!Origins : \/ dLoads'[p] = D!Idle
                              \/ dLoads'[p] = D!NewLoad
                              \/ dLoads[p] # D!Idle /\ Weaker(dLoads'[p], dLoads[p])
      /\ \A p \in D!Origins : DashCounts(p)' => p = o /\ dLoads'[p].phase = "sent"
  BY LoadBegins DEF DashInv
<1>2. dServer.ver \in Nat /\ dServer \in D!Snapshots
  BY DEF DashInv, DashTypes, D!Snapshots
<1>3. DashFresh'
  BY <1>1, <1>2, FreshStays DEF DashInv, DashFresh
<1> QED
  BY <1>1, <1>3 DEF DashInv, DashTypes, DashKnown

LEMMA DashLoadsKeep ==
  ASSUME DashInv, D!Poll \/ D!RefreshTraffic \/ D!MutateDone \/ D!Calibrated
  PROVE  DashInv'
<1>1. /\ post.ver \in 0..MaxVer /\ dDialog.ver \in 0..MaxVer /\ dAcked \in 0..MaxVer
      /\ post.ver <= dServer.ver /\ dDialog.ver <= dServer.ver /\ dAcked <= dServer.ver
      /\ dServer.ver \in Nat /\ 0 \in 0..MaxVer
  BY WebAssumption DEF DashInv, DashTypes, DashKnown, D!Snapshots
<1>2. CASE D!Poll
  BY <1>1, <1>2, DashLoadKeeps DEF D!Poll, D!Origins, DashInv, DashTypes
<1>3. CASE D!RefreshTraffic
  BY <1>1, <1>3, DashLoadKeeps DEF D!RefreshTraffic, D!Origins, DashInv, DashTypes
<1>4. CASE D!MutateDone
  <2>1. /\ post' \in [phase : {"no", "sent", "served"}, ver : 0..MaxVer] /\ post'.ver = 0
        /\ dAcked' \in 0..MaxVer /\ dAcked' <= dServer.ver
    BY <1>1, <1>4 DEF D!MutateDone, D!Quiet
  <2> QED
    BY <1>1, <1>4, <2>1, DashLoadKeeps DEF D!MutateDone, D!Origins, DashInv, DashTypes
<1>5. CASE D!Calibrated
  <2>1. /\ dDialog' \in [phase : {"closed", "open", "sent", "served"}, ver : 0..MaxVer]
        /\ dDialog'.ver = 0 /\ dAcked' \in 0..MaxVer /\ dAcked' <= dServer.ver
    BY <1>1, <1>5 DEF D!Calibrated
  <2> QED
    BY <1>1, <1>5, <2>1, DashLoadKeeps DEF D!Calibrated, D!Origins, DashInv, DashTypes
<1> QED
  BY <1>2, <1>3, <1>4, <1>5

LEMMA MutateKeeps == ASSUME DashInv, D!Mutate PROVE DashInv'
<1>1. /\ dLoads' = D!Superseded(dLoads) /\ post' = [phase |-> "sent", ver |-> 0]
      /\ UNCHANGED <<dServer, dShown, format, qr, select, refreshing, dDialog, dAcked>>
  BY DEF D!Mutate
<1>2. \A o \in D!Origins : /\ dLoads'[o] = D!Idle \/ (dLoads[o] # D!Idle /\ Weaker(dLoads'[o], dLoads[o]))
                           /\ ~DashCounts(o)'
  BY <1>1, LoadsSuperseded DEF DashInv, DashCounts
<1>3. dLoads' \in [D!Origins -> DashLoads \cup {D!Idle}]
  <2>1. \A o \in D!Origins : dLoads'[o] \in DashLoads \cup {D!Idle}
    BY <1>2 DEF Weaker
  <2> QED
    BY <1>1, <2>1 DEF D!Superseded
<1>4. dServer.ver \in Nat /\ dServer \in D!Snapshots /\ 0 \in 0..MaxVer
  BY WebAssumption DEF DashInv, DashTypes, D!Snapshots
<1>5. DashFresh'
  BY <1>1, <1>2, <1>4, FreshStays DEF DashInv, DashFresh
<1> QED
  BY <1>1, <1>3, <1>4, <1>5 DEF DashInv, DashTypes, DashKnown

LEMMA SelectKeeps == ASSUME DashInv, NEW f \in Formats, D!SelectSubFormat(f) PROVE DashInv'
<1>1. /\ dShown \in D!Snapshots /\ format' = f /\ select' = [url |-> dShown.url, format |-> f]
      /\ dLoads' = D!CardsSuperseded(dLoads)
      /\ UNCHANGED <<dServer, dShown, qr, post, refreshing, dDialog, dAcked>>
  BY DEF D!SelectSubFormat, DashInv, DashTypes
<1>2. \A o \in D!Origins :
        /\ dLoads'[o] = D!Idle \/ (dLoads[o] # D!Idle /\ Weaker(dLoads'[o], dLoads[o]))
        /\ dLoads'[o] # D!Idle => ~dLoads'[o].drawn
        /\ DashCounts(o)' => DashCounts(o)
  BY <1>1, CardsGoOld DEF DashInv, DashCounts
<1>3. dLoads' \in [D!Origins -> DashLoads \cup {D!Idle}]
  <2>1. \A o \in D!Origins : dLoads'[o] \in DashLoads \cup {D!Idle}
    BY <1>2 DEF Weaker
  <2> QED
    BY <1>1, <2>1 DEF D!CardsSuperseded
<1>4. dServer.ver \in Nat /\ dServer \in D!Snapshots
  BY DEF DashInv, DashTypes, D!Snapshots
<1>5. select' \in D!Cards /\ select'.format = format'
  BY <1>1 DEF D!Cards, D!Snapshots
<1>6. \A o, p \in D!Origins : DashCounts(o)' /\ DashCounts(p)' => o = p
  BY <1>2 DEF DashInv, DashFresh
<1>7. DashFresh'
  BY <1>1, <1>2, <1>4, <1>5, <1>6, FreshStays
<1> QED
  BY <1>1, <1>3, <1>5, <1>7 DEF DashInv, DashTypes, DashKnown

\* The rest leaves the loads and what is shown alone; a dialog that is closed while its
\* request is under way may leave the server a step further.
LEMMA DashOthersKeep ==
  ASSUME DashInv,
         \/ D!RefreshDone \/ D!MutateFails \/ D!CalibrateOpen \/ D!CalibrateClose
         \/ D!CalibrateSubmit \/ D!CalibrateFails \/ D!SelectDrawn \/ UNCHANGED D!vars
  PROVE  DashInv'
<1>1. UNCHANGED <<dShown, format, dLoads, dAcked>>
  BY DEF D!RefreshDone, D!MutateFails, D!CalibrateOpen, D!CalibrateClose, D!CalibrateSubmit,
     D!CalibrateFails, D!SelectDrawn, D!vars
<1>2. dServer' \in D!Snapshots /\ dServer.ver <= dServer'.ver /\ dServer.ver \in Nat /\ dServer'.ver \in Nat
  <2>1. dServer \in D!Snapshots /\ dServer.ver \in Nat
    BY DEF DashInv, DashTypes, D!Snapshots
  <2>2. CASE dServer' = dServer
    BY <2>1, <2>2
  <2>3. CASE dServer.ver < MaxVer /\ dServer' = [dServer EXCEPT !.ver = @ + 1]
    BY <2>1, <2>3, NextVersion DEF DashInv
  <2> QED
    BY <2>2, <2>3 DEF D!RefreshDone, D!MutateFails, D!CalibrateOpen, D!CalibrateClose,
       D!CalibrateSubmit, D!CalibrateFails, D!SelectDrawn, D!vars
<1>3. /\ post' \in {post, D!Quiet}
      /\ dDialog' \in {dDialog} \cup {[phase |-> s, ver |-> 0] : s \in {"closed", "open", "sent"}}
      /\ refreshing' \in {refreshing, "no"} /\ select' \in {select, D!Nothing} /\ qr' \in {qr, select}
  BY DEF D!RefreshDone, D!MutateFails, D!CalibrateOpen, D!CalibrateClose, D!CalibrateSubmit,
     D!CalibrateFails, D!SelectDrawn, D!vars
<1>4. DashFresh'
  BY <1>1, <1>2, <1>3, LoadsStay, FreshStays DEF DashInv, DashFresh
<1>5. /\ post' \in [phase : {"no", "sent", "served"}, ver : 0..MaxVer] /\ post'.ver <= dServer'.ver
      /\ dDialog' \in [phase : {"closed", "open", "sent", "served"}, ver : 0..MaxVer]
      /\ dDialog'.ver <= dServer'.ver
  <2>1. /\ post.ver \in Nat /\ post.ver <= dServer'.ver
        /\ dDialog.ver \in Nat /\ dDialog.ver <= dServer'.ver
    BY <1>2 DEF DashInv, DashTypes, DashKnown
  <2>2. 0 \in 0..MaxVer
    BY WebAssumption
  <2>3. D!Quiet \in [phase : {"no", "sent", "served"}, ver : 0..MaxVer] /\ D!Quiet.ver = 0
    BY <2>2 DEF D!Quiet
  <2>4. \A s \in {"closed", "open", "sent"} :
          /\ [phase |-> s, ver |-> 0] \in [phase : {"closed", "open", "sent", "served"}, ver : 0..MaxVer]
          /\ [phase |-> s, ver |-> 0].ver = 0
    BY <2>2
  <2> QED
    BY <1>2, <1>3, <2>1, <2>3, <2>4 DEF DashInv, DashTypes
<1>6. DashKnown'
  BY <1>1, <1>2, <1>5 DEF DashInv, DashKnown, DashTypes, D!Snapshots
<1> QED
  BY <1>1, <1>2, <1>3, <1>4, <1>5, <1>6 DEF DashInv, DashTypes

LEMMA DashInvAlways == D!Spec => []DashInv
<1>1. ASSUME D!Init PROVE DashInv
  <2>1. \A o \in D!Origins : dLoads[o] = IF o = "poll" THEN D!NewLoad ELSE D!Idle
    BY <1>1 DEF D!Init
  <2>2. DashTypes
    BY <1>1, DistinctLoads, WebAssumption
       DEF D!Init, DashTypes, D!Snapshots, D!Quiet
  <2>3. DashKnown
    BY <1>1 DEF D!Init, DashKnown, D!Quiet
  <2>4. DashFresh
    BY <1>1, <2>1, DistinctLoads DEF D!Init, DashFresh, DashCounts, LoadFresh
  <2> QED
    BY <2>2, <2>3, <2>4 DEF DashInv
<1>2. DashInv /\ [D!Next]_D!vars => DashInv'
  BY DashServerKeeps, DashAnswerKeeps, DashArriveKeeps, DashDrawnKeeps, DashLoadsKeep, MutateKeeps,
     SelectKeeps, DashOthersKeep DEF D!Next
<1> QED
  BY <1>1, <1>2, PTL DEF D!Spec

\* The figures of the overview never give way to older ones, or to figures from before a
\* change the user was told is made, and a QR code put on the page is in the format selected
\* at that moment, for any formats, changes and overlapping loads (DashboardView.vue).
THEOREM DashboardNeverOlder ==
  D!Spec => []D!TypeOK /\ [][D!NothingOlder /\ D!NoOtherFormat]_D!vars
<1>1. DashInv => D!TypeOK
  <2> SUFFICES ASSUME DashInv PROVE D!TypeOK
    OBVIOUS
  <2>1. \A o \in D!Origins : dLoads[o] = D!Idle \/ dLoads[o].phase \in {"sent", "answered", "drawing"}
    BY DEF DashInv, DashTypes, DashLoads
  <2> QED
    BY <2>1 DEF D!TypeOK, DashInv, DashTypes
<1>2. ASSUME DashInv, D!Next PROVE D!NothingOlder
  <2> SUFFICES ASSUME dShown' # dShown
               PROVE  /\ dShown'.ver >= dAcked
                      /\ dShown # D!Nothing => dShown'.ver >= dShown.ver
    BY DEF D!NothingOlder
  <2>1. PICK o \in D!Origins : D!Arrive(o) \/ D!Drawn(o)
    BY <1>2 DEF D!Next, D!ServerChanges, D!Takes, D!Answer, D!LoadFails, D!Poll, D!RefreshTraffic,
       D!RefreshDone, D!Mutate, D!MutateDone, D!MutateFails, D!CalibrateOpen, D!CalibrateClose,
       D!CalibrateSubmit, D!Calibrated, D!CalibrateFails, D!SelectSubFormat, D!SelectDrawn
  <2>2. dLoads[o] # D!Idle /\ dLoads[o].phase # "sent" /\ dLoads[o].latest /\ dShown' = dLoads[o].snap
    <3>1. CASE D!Arrive(o)
      <4>1. dLoads[o].phase = "answered" /\ dLoads[o] # D!Idle
        BY <3>1 DEF D!Arrive, D!Idle
      <4>2. D!SameAddress(dLoads[o].snap)
        BY <3>1 DEF D!Arrive
      <4>3. D!Publish(o, dLoads, D!Nothing, FALSE)
        BY <3>1, <4>2 DEF D!Arrive
      <4> QED
        BY <4>1, <4>3 DEF D!Publish
    <3>2. CASE D!Drawn(o)
      <4>1. dLoads[o].phase = "drawing" /\ dLoads[o] # D!Idle
        BY <3>2 DEF D!Drawn, D!Idle
      <4> QED
        BY <3>2, <4>1 DEF D!Drawn, D!Publish
    <3> QED
      BY <2>1, <3>1, <3>2
  <2>3. LoadFresh(dLoads[o])
    BY <1>2, <2>2 DEF DashInv, DashFresh
  <2> QED
    BY <1>2, <2>2, <2>3 DEF LoadFresh, DashInv, DashTypes, D!Snapshots
<1>3. ASSUME DashInv, D!Next PROVE D!NoOtherFormat
  <2> SUFFICES ASSUME qr' # qr PROVE qr'.format = format'
    BY DEF D!NoOtherFormat
  <2>1. (\E o \in D!Origins : D!Arrive(o) \/ D!Drawn(o)) \/ D!SelectDrawn
    BY <1>3 DEF D!Next, D!ServerChanges, D!Takes, D!Answer, D!LoadFails, D!Poll, D!RefreshTraffic,
       D!RefreshDone, D!Mutate, D!MutateDone, D!MutateFails, D!CalibrateOpen, D!CalibrateClose,
       D!CalibrateSubmit, D!Calibrated, D!CalibrateFails, D!SelectSubFormat
  <2>2. CASE D!SelectDrawn
    BY <1>3, <2>2 DEF D!SelectDrawn, DashInv, DashFresh
  <2>3. ASSUME NEW o \in D!Origins, D!Arrive(o) PROVE FALSE
    BY <2>3 DEF D!Arrive, D!Publish
  <2>4. ASSUME NEW o \in D!Origins, D!Drawn(o) PROVE qr'.format = format'
    <3>1. /\ dLoads[o] # D!Idle /\ dLoads[o].phase = "drawing" /\ dLoads[o].drawn
          /\ qr' = dLoads[o].card /\ format' = format
      BY <2>4 DEF D!Drawn, D!Publish, D!Idle
    <3>2. LoadFresh(dLoads[o])
      BY <1>3, <3>1 DEF DashInv, DashFresh
    <3> QED
      BY <3>1, <3>2 DEF LoadFresh
  <2> QED
    BY <2>1, <2>2, <2>3, <2>4
<1>4. DashInv /\ [D!Next]_D!vars => [D!NothingOlder /\ D!NoOtherFormat]_D!vars
  BY <1>2, <1>3
<1> QED
  BY <1>1, <1>4, DashInvAlways, PTL DEF D!Spec

-----------------------------------------------------------------------------
(* The traffic page. *)

\* How long ago the timer fired.
Elapsed == Interval - untilPoll

\* The age was looked at when the timer fired or a request ended, whichever was later; and
\* without a failure since the last success, a request is on its way or was not due.  A
\* page that never loaded has failed to, or its first request is on its way.
PollInv ==
  /\ T!TypeOK
  /\ age = T!Never => seen = T!Never /\ (tFailure \/ waited # T!None)
  /\ age # T!Never =>
       /\ age <= seen + Elapsed
       /\ ~tFailure => IF waited = T!None THEN age <= Elapsed ELSE age <= Interval + waited

LEMMA Intervals == Interval \in Nat /\ Timeout \in Nat /\ StaleAge \in Nat /\ Timeout < StaleAge
  BY WebAssumption DEF T!PollAssumption

LEMMA PollInvBegins == T!Init => PollInv
<1> SUFFICES ASSUME T!Init PROVE PollInv
  OBVIOUS
<1>1. Interval \in 0..Interval /\ 0 \in 0..T!None /\ T!Never \in 0..T!Never
  BY Intervals DEF T!None, T!Horizon, T!Never
<1>2. age = T!Never /\ tFailure \in BOOLEAN
  BY DEF T!Init
<1> QED
  BY <1>1, <1>2, Intervals DEF T!Init, PollInv, T!TypeOK, T!None

LEMMA PollInvKept == ASSUME PollInv, [T!Next]_T!vars PROVE PollInv'
<1> USE Intervals DEF PollInv, T!TypeOK, T!None, T!Horizon, T!Never, Elapsed
<1>1. CASE T!Tick
  <2>1. T!TypeOK'
    BY <1>1 DEF T!Tick
  <2>2. CASE age = T!Never
    BY <1>1, <2>1, <2>2 DEF T!Tick
  <2>3. CASE age # T!Never
    <3>1. age' <= age + 1 /\ untilPoll' = untilPoll - 1 /\ UNCHANGED <<seen, tFailure>>
      BY <1>1 DEF T!Tick
    <3>2. waited' = IF waited = T!None THEN T!None ELSE waited + 1
      BY <1>1 DEF T!Tick
    <3>3. waited # T!None => waited < Timeout
      BY <1>1 DEF T!Tick
    <3>4. age' # T!Never
      BY <1>1, <2>3 DEF T!Tick
    <3>5. /\ age' <= seen' + Elapsed'
          /\ ~tFailure' => IF waited' = T!None THEN age' <= Elapsed' ELSE age' <= Interval + waited'
      BY <2>1, <2>3, <3>1, <3>2, <3>3
    <3> QED
      BY <2>1, <3>4, <3>5
  <2> QED
    BY <2>2, <2>3
<1>2. CASE T!Load
  BY <1>2 DEF T!Load
<1>3. CASE T!Succeeded
  <2>1. /\ waited' = T!None /\ seen' = 0 /\ age' = 0 /\ tFailure' \in BOOLEAN
        /\ untilPoll' = untilPoll
    BY <1>3 DEF T!Succeeded
  <2>2. 0 <= Elapsed /\ 0 <= 0 + Elapsed
    OBVIOUS
  <2> QED
    BY <2>1, <2>2
<1>4. CASE T!Failed
  <2>1. /\ waited' = T!None /\ seen' = age /\ tFailure' /\ tFailure' \in BOOLEAN
        /\ UNCHANGED <<untilPoll, age>>
    BY <1>4 DEF T!Failed
  <2>2. untilPoll <= Interval
    OBVIOUS
  <2> QED
    BY <2>1, <2>2
<1>5. CASE UNCHANGED T!vars
  BY <1>5 DEF T!vars
<1> QED
  BY <1>1, <1>2, <1>3, <1>4, <1>5 DEF T!Next

\* The warning is there once figures are older than a poll interval and the age of an
\* outage together, and from the first failure on if nothing was ever loaded
\* (ServerView.vue, poll-status.ts), for any intervals of which the timeout of a request
\* is shorter than that age.
THEOREM OutageAlwaysShown == T!Spec => [](T!TypeOK /\ T!OutageShown)
<1>1. PollInv => T!TypeOK /\ T!OutageShown
  BY Intervals DEF PollInv, T!TypeOK, T!None, T!Horizon, T!Never, Elapsed,
     T!OutageShown, T!Stale
<1> QED
  BY <1>1, PollInvBegins, PollInvKept, PTL DEF T!Spec

-----------------------------------------------------------------------------
(* The history tab. *)

HistLoads == [of : H!Selections \cup {H!Current}, answer : H!Selections, counts : BOOLEAN]

HistTypes ==
  /\ mode \in H!Modes /\ hPicked \in [H!Modes -> Periods] /\ hShown \in H!Selections
  /\ hLoads \subseteq HistLoads /\ hToday \in Periods
  /\ hLoading \in BOOLEAN /\ hError \in BOOLEAN /\ hInitialized \in BOOLEAN /\ hStraddled \in BOOLEAN

\* What a load asks for, and the answer it has.
HistAnswered(l) ==
  l.answer # H!Nothing => /\ l.of # H!Current => l.answer = l.of
                          /\ l.of = H!Current => l.answer.mode = "day"

\* The load that counts is of what is selected: of the current period, before the first
\* answer.
HistInv ==
  /\ HistTypes
  /\ \A l, m \in hLoads : l.counts /\ m.counts => l = m
  /\ \A l \in hLoads : HistAnswered(l)
  /\ \A l \in hLoads : l.counts => l.of = IF hInitialized THEN H!Selection ELSE H!Current
  /\ ~hInitialized => mode = "day" /\ hShown = H!Nothing
  /\ H!ShownIsSelected

LEMMA PeriodsArePositive == 0 \notin Periods /\ 1 \in Periods
  BY WebAssumption DEF H!PeriodsAssumption

\* Selections, the current period and nothing are three things.
LEMMA SelectionsDiffer ==
  /\ H!Nothing \in H!Selections /\ H!Current \notin H!Selections /\ H!Current # H!Nothing
  /\ \A m \in H!Modes, p \in Periods :
       [mode |-> m, period |-> p] \in H!Selections \ {H!Nothing, H!Current}
  /\ \A p \in Periods : [H!Current EXCEPT !.period = p] = [mode |-> "day", period |-> p]
<1>1. H!Nothing \in H!Selections
  BY DEF H!Selections
<1>2. H!Current # H!Nothing
  BY DEF H!Current, H!Nothing
<1>3. H!Current \notin [mode : H!Modes, period : Periods]
  BY PeriodsArePositive DEF H!Current
<1>4. \A m \in H!Modes, p \in Periods :
        /\ [mode |-> m, period |-> p] \in [mode : H!Modes, period : Periods]
        /\ [mode |-> m, period |-> p].period # 0
  BY PeriodsArePositive
<1>5. H!Nothing.period = 0 /\ H!Current.period = 0
  BY DEF H!Nothing, H!Current
<1>6. \A p \in Periods : [H!Current EXCEPT !.period = p] = [mode |-> "day", period |-> p]
  BY DEF H!Current
<1> QED
  BY <1>1, <1>2, <1>3, <1>4, <1>5, <1>6 DEF H!Selections

LEMMA HistSelection == ASSUME HistTypes PROVE H!Selection \in H!Selections \ {H!Nothing, H!Current}
  BY SelectionsDiffer DEF HistTypes, H!Selection

LEMMA HistLoadFields ==
  \A of \in H!Selections \cup {H!Current} :
    /\ H!NewLoad(of) \in HistLoads /\ H!NewLoad(of).of = of
    /\ H!NewLoad(of).answer = H!Nothing /\ H!NewLoad(of).counts
  BY SelectionsDiffer DEF H!NewLoad, HistLoads

LEMMA HistSuperseded ==
  ASSUME hLoads \subseteq HistLoads, NEW k \in H!Superseded
  PROVE  /\ k \in HistLoads /\ ~k.counts
         /\ \E l \in hLoads : k.of = l.of /\ k.answer = l.answer
<1>1. PICK l \in hLoads : k = [l EXCEPT !.counts = FALSE]
  BY DEF H!Superseded
<1>2. \A m \in HistLoads : /\ [m EXCEPT !.counts = FALSE] \in HistLoads
                           /\ ~[m EXCEPT !.counts = FALSE].counts
                           /\ [m EXCEPT !.counts = FALSE].of = m.of
                           /\ [m EXCEPT !.counts = FALSE].answer = m.answer
  BY DEF HistLoads
<1> QED
  BY <1>1, <1>2

\* A load that begins is the only one that counts.
LEMMA HistLoadBegins ==
  ASSUME HistInv, NEW background \in BOOLEAN, NEW of \in H!Selections, H!Load(background, of)
  PROVE  /\ hLoads' \subseteq HistLoads
         /\ \A l, m \in hLoads' : l.counts /\ m.counts => l = m
         /\ \A l \in hLoads' : HistAnswered(l)
         /\ \A l \in hLoads' : l.counts => l.of = IF hInitialized THEN of ELSE H!Current
         /\ hLoading' = (hLoading \/ ~background) /\ hError' = (hError /\ background)
<1> DEFINE what == IF hInitialized THEN of ELSE H!Current
           new == H!NewLoad(what)
<1>1. hLoads' = H!Superseded \cup {new}
  BY DEF H!Load
<1>2. new \in HistLoads /\ new.of = what /\ new.answer = H!Nothing
  BY HistLoadFields
<1>3. \A k \in H!Superseded : k \in HistLoads /\ ~k.counts /\ HistAnswered(k)
  BY HistSuperseded DEF HistInv, HistTypes, HistAnswered
<1>4. HistAnswered(new)
  BY <1>2 DEF HistAnswered
<1>5. hLoading' = (hLoading \/ ~background) /\ hError' = (hError /\ background)
  BY DEF H!Load
<1> HIDE DEF new, what
<1>6. \A l \in hLoads' : l.counts => l = new
  BY <1>1, <1>3
<1> QED
  BY <1>1, <1>2, <1>3, <1>4, <1>5, <1>6 DEF what

LEMMA HistInvBegins == H!Init => HistInv
<1> SUFFICES ASSUME H!Init PROVE HistInv
  OBVIOUS
<1>1. /\ mode = "day" /\ hPicked = [m \in H!Modes |-> 1] /\ hShown = H!Nothing
      /\ hLoads = {H!NewLoad(H!Current)} /\ hLoading = TRUE /\ hError = FALSE
      /\ hInitialized = FALSE /\ hToday = 1 /\ hStraddled = FALSE
  BY DEF H!Init
<1>2. HistTypes
  BY <1>1, SelectionsDiffer, HistLoadFields, PeriodsArePositive DEF HistTypes, H!Modes
<1>3. \A l \in hLoads : l.of = H!Current /\ l.answer = H!Nothing
  BY <1>1, HistLoadFields
<1> QED
  BY <1>1, <1>2, <1>3 DEF HistInv, HistAnswered, H!ShownIsSelected

\* What is left when loads end.
LEMMA HistLoadEnds ==
  ASSUME HistInv, hLoads' \subseteq hLoads
  PROVE  /\ hLoads' \subseteq HistLoads
         /\ \A l, m \in hLoads' : l.counts /\ m.counts => l = m
         /\ \A l \in hLoads' : HistAnswered(l)
         /\ \A l \in hLoads' : l.counts => l.of = IF hInitialized THEN H!Selection ELSE H!Current
  BY DEF HistInv, HistTypes

LEMMA HistPollKeeps ==
  ASSUME HistInv, H!Poll \/ H!Refresh
  PROVE  HistInv'
<1>1. PICK background \in BOOLEAN : H!Load(background, H!Selection)
  BY DEF H!Poll, H!Refresh
<1>2. UNCHANGED <<mode, hPicked, hShown, hInitialized, hToday, hStraddled>>
  BY DEF H!Poll, H!Refresh
<1>3. H!Selection \in H!Selections
  BY HistSelection DEF HistInv
<1>4. /\ hLoads' \subseteq HistLoads
      /\ \A l, m \in hLoads' : l.counts /\ m.counts => l = m
      /\ \A l \in hLoads' : HistAnswered(l)
      /\ \A l \in hLoads' : l.counts => l.of = IF hInitialized THEN H!Selection ELSE H!Current
      /\ hLoading' = (hLoading \/ ~background) /\ hError' = (hError /\ background)
  BY <1>1, <1>3, HistLoadBegins
<1>6. H!Selection' = H!Selection
  BY <1>2 DEF H!Selection
<1>7. HistTypes'
  BY <1>2, <1>4 DEF HistInv, HistTypes
<1>8. H!ShownIsSelected'
  BY <1>2, <1>4, <1>6 DEF HistInv, HistTypes, H!ShownIsSelected
<1> QED
  BY <1>2, <1>4, <1>6, <1>7, <1>8 DEF HistInv

\* A selection raises "loading", so it may show rows of another one.
LEMMA HistSelectKeeps ==
  ASSUME HistInv,
         \/ \E m \in H!Modes : H!Select(m)
         \/ \E p \in Periods : H!ChangeMonth(p)
  PROVE  HistInv'
<1>1. /\ hInitialized /\ UNCHANGED <<hShown, hInitialized, hToday, hStraddled>>
      /\ mode' \in H!Modes /\ hPicked' \in [H!Modes -> Periods]
      /\ H!Load(FALSE, H!Selection')
  <2>1. CASE \E m \in H!Modes : H!Select(m)
    <3>1. PICK m \in H!Modes : H!Select(m)
      BY <2>1
    <3>2. H!Selection' = [mode |-> m, period |-> hPicked[m]]
      BY <3>1 DEF H!Select, H!Selection
    <3> QED
      BY <3>1, <3>2 DEF H!Select, HistInv, HistTypes
  <2>2. CASE \E p \in Periods : H!ChangeMonth(p)
    <3>1. PICK p \in Periods : H!ChangeMonth(p)
      BY <2>2
    <3>2. H!Selection' = [mode |-> mode, period |-> p]
      BY <3>1 DEF H!ChangeMonth, H!Selection, HistInv, HistTypes
    <3> QED
      BY <3>1, <3>2 DEF H!ChangeMonth, HistInv, HistTypes
  <2> QED
    BY <2>1, <2>2
<1>2. H!Selection' \in H!Selections
  BY <1>1, SelectionsDiffer DEF H!Selection
<1>3. /\ hLoads' \subseteq HistLoads
      /\ \A l, m \in hLoads' : l.counts /\ m.counts => l = m
      /\ \A l \in hLoads' : HistAnswered(l)
      /\ \A l \in hLoads' : l.counts => l.of = IF hInitialized THEN H!Selection' ELSE H!Current
      /\ hLoading' = (hLoading \/ ~FALSE) /\ hError' = (hError /\ FALSE)
  BY <1>1, <1>2, HistLoadBegins
<1>4. HistTypes'
  BY <1>1, <1>3 DEF HistInv, HistTypes
<1>5. H!ShownIsSelected'
  BY <1>3 DEF H!ShownIsSelected
<1> QED
  BY <1>1, <1>3, <1>4, <1>5 DEF HistInv

LEMMA HistAnswerKeeps == ASSUME HistInv, NEW l \in hLoads, H!Answer(l) PROVE HistInv'
<1> DEFINE ans == IF l.of = H!Current THEN [H!Current EXCEPT !.period = hToday] ELSE l.of
           done == [l EXCEPT !.answer = ans]
<1>1. hLoads' = (hLoads \ {l}) \cup {done}
  BY DEF H!Answer
<1>2. UNCHANGED <<mode, hPicked, hShown, hLoading, hError, hInitialized, hToday, hStraddled>>
  BY DEF H!Answer
<1>3. l \in HistLoads /\ hToday \in Periods
  BY DEF HistInv, HistTypes
<1>4. ans \in H!Selections /\ (l.of # H!Current => ans = l.of) /\ (l.of = H!Current => ans.mode = "day")
  <2>1. l.of \in H!Selections \cup {H!Current}
    BY <1>3 DEF HistLoads
  <2>2. CASE l.of = H!Current
    <3>1. ans = [mode |-> "day", period |-> hToday]
      BY <1>3, <2>2, SelectionsDiffer
    <3> QED
      BY <1>3, <2>2, <3>1, SelectionsDiffer DEF H!Modes
  <2>3. CASE l.of # H!Current
    BY <2>1, <2>3
  <2> QED
    BY <2>2, <2>3
<1> HIDE DEF ans
<1>5. \A k \in HistLoads : /\ [k EXCEPT !.answer = ans] \in HistLoads
                           /\ [k EXCEPT !.answer = ans].of = k.of
                           /\ [k EXCEPT !.answer = ans].answer = ans
                           /\ [k EXCEPT !.answer = ans].counts = k.counts
  BY <1>4 DEF HistLoads
<1>6. /\ done \in HistLoads /\ done.of = l.of /\ done.answer = ans /\ done.counts = l.counts
  BY <1>3, <1>5
<1> HIDE DEF done
<1>7. HistTypes'
  BY <1>1, <1>2, <1>6 DEF HistInv, HistTypes
<1>8. \A k, m \in hLoads' : k.counts /\ m.counts => k = m
  BY <1>1, <1>6 DEF HistInv
<1>9. \A k \in hLoads' : HistAnswered(k)
  BY <1>1, <1>4, <1>6 DEF HistInv, HistAnswered
<1>10. \A k \in hLoads' : k.counts => k.of = IF hInitialized THEN H!Selection ELSE H!Current
  BY <1>1, <1>6 DEF HistInv
<1>11. H!Selection' = H!Selection /\ H!ShownIsSelected'
  BY <1>2 DEF H!Selection, H!ShownIsSelected, HistInv
<1> QED
  BY <1>2, <1>7, <1>8, <1>9, <1>10, <1>11 DEF HistInv

\* What counts is of what is selected, or the first.
LEMMA HistArriveKeeps == ASSUME HistInv, NEW l \in hLoads, H!Arrive(l) PROVE HistInv'
<1>1. /\ l.answer # H!Nothing /\ l.counts /\ hLoads' = hLoads \ {l} /\ hShown' = l.answer
      /\ hInitialized' = TRUE /\ hError' = FALSE /\ hLoading' = FALSE /\ UNCHANGED <<mode, hToday>>
      /\ hInitialized => hStraddled' = FALSE /\ hPicked' = hPicked
      /\ ~hInitialized => /\ hPicked' = [m \in H!Modes |-> hToday]
                          /\ hStraddled' = (l.answer.period # hToday)
  BY DEF H!Arrive
<1>2. l \in HistLoads /\ HistAnswered(l)
  BY DEF HistInv, HistTypes
<1>3. HistTypes'
  BY <1>1, <1>2 DEF HistInv, HistTypes, HistLoads
<1>4. /\ \A k, m \in hLoads' : k.counts /\ m.counts => k = m
      /\ \A k \in hLoads' : HistAnswered(k) /\ ~k.counts
  BY <1>1 DEF HistInv
<1>5. H!ShownIsSelected'
  <2>1. CASE hInitialized
    <3>1. l.of = H!Selection /\ H!Selection # H!Current
      BY <1>1, <2>1, HistSelection DEF HistInv
    <3>2. hShown' = H!Selection /\ H!Selection' = H!Selection
      BY <1>1, <1>2, <2>1, <3>1 DEF HistAnswered, H!Selection
    <3> QED
      BY <3>2 DEF H!ShownIsSelected
  <2>2. CASE ~hInitialized
    <3>1. l.of = H!Current /\ mode = "day"
      BY <1>1, <2>2 DEF HistInv
    <3>2. l.answer.mode = "day" /\ l.answer \in [mode : H!Modes, period : Periods]
      BY <1>1, <1>2, <3>1 DEF HistAnswered, HistLoads, H!Selections
    <3>3. \A a \in [mode : H!Modes, period : Periods] :
            a.mode = "day" => a = [mode |-> "day", period |-> a.period]
      OBVIOUS
    <3>4. l.answer = [mode |-> "day", period |-> l.answer.period]
      BY <3>2, <3>3
    <3>5. H!Selection' = [mode |-> "day", period |-> hToday]
      BY <1>1, <2>2, <3>1 DEF H!Selection, H!Modes
    <3> QED
      BY <1>1, <2>2, <3>4, <3>5 DEF H!ShownIsSelected
  <2> QED
    BY <2>1, <2>2
<1> QED
  BY <1>1, <1>3, <1>4, <1>5 DEF HistInv

LEMMA HistOthersKeep ==
  ASSUME HistInv,
         \/ H!PeriodEnds \/ UNCHANGED H!vars
         \/ \E l \in hLoads : H!Fail(l) \/ H!Ignore(l)
  PROVE  HistInv'
<1>1. /\ hLoads' \subseteq hLoads /\ hToday' \in Periods
      /\ UNCHANGED <<mode, hPicked, hShown, hInitialized, hStraddled>>
      /\ \/ UNCHANGED <<hLoading, hError>>
         \/ hError' = TRUE /\ hLoading' = FALSE
  BY DEF H!PeriodEnds, H!vars, H!Fail, H!Ignore, HistInv, HistTypes
<1>2. /\ hLoads' \subseteq HistLoads
      /\ \A l, m \in hLoads' : l.counts /\ m.counts => l = m
      /\ \A l \in hLoads' : HistAnswered(l)
      /\ \A l \in hLoads' : l.counts => l.of = IF hInitialized THEN H!Selection ELSE H!Current
  BY <1>1, HistLoadEnds
<1>3. HistTypes'
  BY <1>1, <1>2 DEF HistInv, HistTypes
<1>4. H!Selection' = H!Selection
  BY <1>1 DEF H!Selection
<1>5. H!ShownIsSelected'
  BY <1>1, <1>4 DEF H!ShownIsSelected, HistInv
<1> QED
  BY <1>1, <1>2, <1>3, <1>4, <1>5 DEF HistInv

LEMMA HistInvKept == ASSUME HistInv, [H!Next]_H!vars PROVE HistInv'
  BY HistPollKeeps, HistSelectKeeps, HistAnswerKeeps, HistArriveKeeps, HistOthersKeep DEF H!Next

LEMMA HistCount == \A S : H!Cardinality(S) = Cardinality(S)
  BY DEF H!Cardinality, Cardinality

\* At most one element, whatever the set.
LEMMA AtMostOne == ASSUME NEW S, \A a, b \in S : a = b PROVE IsFiniteSet(S) /\ Cardinality(S) <= 1
<1>1. CASE S = {}
  BY <1>1, FS_EmptySet
<1>2. CASE S # {}
  <2>1. PICK a \in S : TRUE
    BY <1>2
  <2>2. S = {a}
    BY <2>1
  <2>3. IsFiniteSet({a}) /\ Cardinality({a}) = 1
    BY FS_Singleton
  <2> QED
    BY <2>2, <2>3
<1> QED
  BY <1>1, <1>2

\* Rows are never passed off as those of another period (TrafficHistory.vue), for any
\* periods and any number of loads at a time.
THEOREM HistoryIsSelected == H!Spec => [](H!TypeOK /\ H!ShownIsSelected)
<1>1. HistInv => H!TypeOK /\ H!ShownIsSelected
  <2> SUFFICES ASSUME HistInv PROVE H!TypeOK
    BY DEF HistInv
  <2>1. Cardinality({l \in hLoads : l.counts}) <= 1
    BY AtMostOne DEF HistInv
  <2> QED
    BY <2>1, HistCount DEF HistInv, HistTypes, HistLoads, H!TypeOK
<1> QED
  BY <1>1, HistInvBegins, HistInvKept, PTL DEF H!Spec

-----------------------------------------------------------------------------
(* The applications tab. *)

AppSelections == [kind : A!Kinds, period : Periods]
AppLoads == [of : AppSelections \cup {A!Current}, answer : A!Answers \cup {A!Nothing},
             counts : BOOLEAN, clears : BOOLEAN]

AppTypes ==
  /\ gen \in 0..MaxGen /\ aAcked \in 0..gen /\ period \in A!Kinds /\ aPicked \in [A!Kinds -> Periods]
  /\ data \in A!Answers \cup {A!Nothing} /\ aToday \in Periods
  /\ aLoads \subseteq AppLoads /\ IsFiniteSet(aLoads) /\ Cardinality(aLoads) <= MaxLoads
  /\ aLoading \in BOOLEAN /\ aError \in BOOLEAN /\ aInitialized \in BOOLEAN /\ aStraddled \in BOOLEAN
  /\ clearing \in {"no", "sent", "served", "load"}

\* The load that counts began after the last clear the user was told of: its answer knows
\* of that clear.
AppFresh ==
  /\ \A l, m \in aLoads : l.counts /\ m.counts => l = m
  /\ \A l \in aLoads : l.counts /\ l.answer # A!Nothing => aAcked <= l.answer.gen

AppInv == AppTypes /\ AppFresh /\ A!ClearedStaysCleared

LEMMA OneMore ==
  ASSUME NEW S, IsFiniteSet(S), NEW x
  PROVE  /\ IsFiniteSet(S \cup {x}) /\ Cardinality(S \cup {x}) \in Nat /\ Cardinality(S) \in Nat
         /\ Cardinality(S \cup {x}) <= Cardinality(S) + 1
<1>1. Cardinality(S) \in Nat
  BY FS_CardinalityType
<1>2. /\ IsFiniteSet(S \cup {x})
      /\ \/ Cardinality(S \cup {x}) = Cardinality(S)
         \/ Cardinality(S \cup {x}) = Cardinality(S) + 1
  BY FS_AddElement
<1> QED
  BY <1>1, <1>2

LEMMA AppCount == \A S : A!Cardinality(S) = Cardinality(S)
  BY DEF A!Cardinality, Cardinality

LEMMA AppBounds == 1 \in Periods /\ MaxGen \in Nat /\ MaxLoads \in Nat /\ 1 <= MaxLoads
  BY WebAssumption DEF A!AppsAssumption

LEMMA AppNothing == A!Nothing \notin A!Answers
<1>1. DOMAIN A!Nothing = {"none"}
  BY DEF A!Nothing
<1>2. \A a \in A!Answers : DOMAIN a = {"of", "gen", "apps"}
  BY DEF A!Answers
<1> QED
  BY <1>1, <1>2

LEMMA AppSelection == ASSUME AppTypes PROVE A!Selection \in AppSelections
  BY DEF AppTypes, A!Selection, AppSelections

LEMMA AppLoadFields ==
  \A of \in AppSelections \cup {A!Current}, clears \in BOOLEAN :
    /\ A!NewLoad(of, clears) \in AppLoads /\ A!NewLoad(of, clears).of = of
    /\ A!NewLoad(of, clears).answer = A!Nothing
  BY DEF A!NewLoad, AppLoads

LEMMA AppSuperseded ==
  ASSUME aLoads \subseteq AppLoads, IsFiniteSet(aLoads)
  PROVE  /\ \A k \in A!Superseded : k \in AppLoads /\ ~k.counts
         /\ IsFiniteSet(A!Superseded) /\ Cardinality(A!Superseded) <= Cardinality(aLoads)
<1>1. \A m \in AppLoads : /\ [m EXCEPT !.counts = FALSE] \in AppLoads
                          /\ ~[m EXCEPT !.counts = FALSE].counts
  BY DEF AppLoads
<1>2. \A k \in A!Superseded : k \in AppLoads /\ ~k.counts
  BY <1>1 DEF A!Superseded
<1> DEFINE f == [l \in aLoads |-> [l EXCEPT !.counts = FALSE]]
<1>3. f \in Surjection(aLoads, A!Superseded)
  BY DEF Surjection, A!Superseded
<1> HIDE DEF f
<1> QED
  BY <1>2, <1>3, FS_Surjection

\* A load that begins is the only one that counts, and there is room for it.
LEMMA AppLoadBegins ==
  ASSUME AppInv, NEW background \in BOOLEAN, NEW of \in AppSelections, NEW clears \in BOOLEAN,
         A!Load(background, of, clears)
  PROVE  /\ aLoads' \subseteq AppLoads /\ IsFiniteSet(aLoads') /\ Cardinality(aLoads') <= MaxLoads
         /\ \A l, m \in aLoads' : l.counts /\ m.counts => l = m
         /\ \A l \in aLoads' : l.counts => l.answer = A!Nothing
         /\ aLoading' = (aLoading \/ ~background) /\ aError' = (aError /\ background)
<1> DEFINE what == IF aInitialized THEN of ELSE A!Current
           new == A!NewLoad(what, clears)
<1>1. aLoads' = A!Superseded \cup {new} /\ Cardinality(aLoads) < MaxLoads
  BY AppCount DEF A!Load
<1>2. new \in AppLoads /\ new.answer = A!Nothing
  BY AppLoadFields
<1>3. /\ \A k \in A!Superseded : k \in AppLoads /\ ~k.counts
      /\ IsFiniteSet(A!Superseded) /\ Cardinality(A!Superseded) <= Cardinality(aLoads)
  BY AppSuperseded DEF AppInv, AppTypes
<1>4. aLoading' = (aLoading \/ ~background) /\ aError' = (aError /\ background)
  BY DEF A!Load
<1> HIDE DEF new, what
<1>5. IsFiniteSet(aLoads') /\ Cardinality(aLoads') <= Cardinality(A!Superseded) + 1
      /\ Cardinality(A!Superseded) \in Nat /\ Cardinality(aLoads') \in Nat
  BY <1>1, <1>3, OneMore
<1>6. Cardinality(aLoads) \in Nat
  BY FS_CardinalityType DEF AppInv, AppTypes
<1>7. Cardinality(aLoads') <= MaxLoads
  BY <1>1, <1>3, <1>5, <1>6, AppBounds
<1>8. \A l \in aLoads' : l.counts => l = new
  BY <1>1, <1>3
<1> QED
  BY <1>1, <1>2, <1>3, <1>4, <1>5, <1>7, <1>8

LEMMA AppInvBegins == A!Init => AppInv
<1> SUFFICES ASSUME A!Init PROVE AppInv
  OBVIOUS
<1>1. /\ gen = 0 /\ period = "day" /\ aPicked = [k \in A!Kinds |-> 1] /\ data = A!Nothing
      /\ aLoads = {A!NewLoad(A!Current, FALSE)} /\ aLoading = TRUE /\ aError = FALSE
      /\ aInitialized = FALSE /\ clearing = "no" /\ aToday = 1 /\ aStraddled = FALSE /\ aAcked = 0
  BY DEF A!Init
<1>2. IsFiniteSet(aLoads) /\ Cardinality(aLoads) = 1
  BY <1>1, FS_Singleton
<1>3. aLoads \subseteq AppLoads /\ \A l \in aLoads : l.answer = A!Nothing
  BY <1>1, AppLoadFields
<1>4. AppTypes
  <2>1. [k \in A!Kinds |-> 1] \in [A!Kinds -> Periods]
    BY AppBounds
  <2>2. gen \in 0..MaxGen /\ aAcked \in 0..gen /\ Cardinality(aLoads) <= MaxLoads
    BY <1>1, <1>2, AppBounds
  <2> QED
    BY <1>1, <1>2, <1>3, <2>1, <2>2, AppBounds DEF AppTypes, A!Kinds
<1> QED
  BY <1>1, <1>3, <1>4 DEF AppInv, AppFresh, A!ClearedStaysCleared

\* What is left when loads end.
LEMMA AppLoadEnds ==
  ASSUME AppInv, aLoads' \subseteq aLoads, aAcked' = aAcked
  PROVE  /\ aLoads' \subseteq AppLoads /\ IsFiniteSet(aLoads') /\ Cardinality(aLoads') <= MaxLoads
         /\ AppFresh'
<1>1. /\ IsFiniteSet(aLoads') /\ Cardinality(aLoads') <= Cardinality(aLoads)
      /\ Cardinality(aLoads') \in Nat /\ Cardinality(aLoads) \in Nat
  BY FS_Subset, FS_CardinalityType DEF AppInv, AppTypes
<1>2. Cardinality(aLoads') <= MaxLoads
  BY <1>1, AppBounds DEF AppInv, AppTypes
<1> QED
  BY <1>1, <1>2 DEF AppInv, AppTypes, AppFresh

\* Polls, refreshes, selections, and the load after a clear: "loading" shows from then on
\* unless a poll finds everything as the user was told.
LEMMA AppLoadsKeep ==
  ASSUME AppInv,
         \/ A!Poll \/ A!Refresh \/ A!Cleared
         \/ \E k \in A!Kinds : A!SelectPeriod(k)
         \/ \E p \in Periods : A!ChangeDate(p)
  PROVE  AppInv'
<1>1. PICK background \in BOOLEAN :
        \E of \in AppSelections, clears \in BOOLEAN :
          /\ A!Load(background, of, clears)
          /\ background => UNCHANGED <<aAcked, clearing>>
  <2>1. CASE A!Poll \/ A!Refresh \/ A!Cleared
    BY <2>1, AppSelection DEF A!Poll, A!Refresh, A!Cleared, AppInv
  <2>2. CASE \E k \in A!Kinds : A!SelectPeriod(k)
    <3>1. PICK k \in A!Kinds : A!SelectPeriod(k)
      BY <2>2
    <3>2. [kind |-> k, period |-> aPicked[k]] \in AppSelections
      BY DEF AppInv, AppTypes, AppSelections
    <3> QED
      BY <3>1, <3>2 DEF A!SelectPeriod
  <2>3. CASE \E p \in Periods : A!ChangeDate(p)
    <3>1. PICK p \in Periods : A!ChangeDate(p)
      BY <2>3
    <3>2. [kind |-> period, period |-> p] \in AppSelections
      BY DEF AppInv, AppTypes, AppSelections
    <3> QED
      BY <3>1, <3>2 DEF A!ChangeDate
  <2> QED
    BY <2>1, <2>2, <2>3
<1>2. /\ aLoads' \subseteq AppLoads /\ IsFiniteSet(aLoads') /\ Cardinality(aLoads') <= MaxLoads
      /\ \A l, m \in aLoads' : l.counts /\ m.counts => l = m
      /\ \A l \in aLoads' : l.counts => l.answer = A!Nothing
      /\ aLoading' = (aLoading \/ ~background) /\ aError' = (aError /\ background)
  BY <1>1, AppLoadBegins
<1>3. /\ UNCHANGED <<gen, data, aInitialized, aToday, aStraddled>>
      /\ aAcked' \in {aAcked, gen} /\ clearing' \in {clearing, "load"}
      /\ period' \in A!Kinds /\ aPicked' \in [A!Kinds -> Periods]
  BY DEF A!Poll, A!Refresh, A!Cleared, A!SelectPeriod, A!ChangeDate, AppInv, AppTypes
<1>4. AppTypes'
  BY <1>2, <1>3 DEF AppInv, AppTypes
<1>5. AppFresh'
  BY <1>2 DEF AppFresh
<1>6. A!ClearedStaysCleared'
  BY <1>1, <1>2, <1>3 DEF A!ClearedStaysCleared, AppInv, AppTypes
<1> QED
  BY <1>4, <1>5, <1>6 DEF AppInv

LEMMA AppAnswerKeeps == ASSUME AppInv, NEW l \in aLoads, A!Answer(l) PROVE AppInv'
<1>1. PICK apps \in Tables : aLoads' = (aLoads \ {l}) \cup
        {[l EXCEPT !.answer = [gen |-> gen, apps |-> apps,
           of |-> IF l.of = A!Current THEN [A!Current EXCEPT !.period = aToday] ELSE l.of]]}
  BY DEF A!Answer
<1> DEFINE ans == [gen |-> gen, apps |-> apps,
                   of |-> IF l.of = A!Current THEN [A!Current EXCEPT !.period = aToday] ELSE l.of]
           done == [l EXCEPT !.answer = ans]
<1>2. UNCHANGED <<gen, period, aPicked, data, aLoading, aError, aInitialized, clearing, aToday,
                  aStraddled, aAcked>>
  BY DEF A!Answer
<1>3. l \in AppLoads /\ aToday \in Periods /\ gen \in 0..MaxGen /\ aAcked <= gen
  BY DEF AppInv, AppTypes
<1>4. ans \in A!Answers /\ ans.gen = gen
  <2>1. [A!Current EXCEPT !.period = aToday] \in AppSelections
    BY <1>3 DEF A!Current, AppSelections, A!Kinds
  <2>2. l.of \in AppSelections \cup {A!Current}
    BY <1>3 DEF AppLoads
  <2> QED
    BY <1>3, <2>1, <2>2 DEF A!Answers, AppSelections
<1>5. aLoads' = (aLoads \ {l}) \cup {done}
  BY <1>1
<1> HIDE DEF ans
<1>6. \A k \in AppLoads : /\ [k EXCEPT !.answer = ans] \in AppLoads
                          /\ [k EXCEPT !.answer = ans].answer = ans
                          /\ [k EXCEPT !.answer = ans].counts = k.counts
  BY <1>4 DEF AppLoads
<1>7. done \in AppLoads /\ done.answer = ans /\ done.counts = l.counts
  BY <1>3, <1>6
<1> HIDE DEF done
<1>8. IsFiniteSet(aLoads') /\ Cardinality(aLoads') <= MaxLoads
  <2>1. /\ IsFiniteSet(aLoads \ {l}) /\ Cardinality(aLoads \ {l}) = Cardinality(aLoads) - 1
        /\ Cardinality(aLoads) \in Nat
    BY FS_RemoveElement, FS_CardinalityType DEF AppInv, AppTypes
  <2>2. IsFiniteSet(aLoads') /\ Cardinality(aLoads') <= Cardinality(aLoads \ {l}) + 1
        /\ Cardinality(aLoads \ {l}) \in Nat /\ Cardinality(aLoads') \in Nat
    BY <1>5, <2>1, OneMore
  <2> QED
    BY <2>1, <2>2, AppBounds DEF AppInv, AppTypes
<1>9. AppTypes'
  BY <1>2, <1>5, <1>7, <1>8 DEF AppInv, AppTypes
<1>10. AppFresh'
  BY <1>2, <1>3, <1>4, <1>5, <1>7 DEF AppInv, AppFresh
<1>11. A!ClearedStaysCleared'
  BY <1>2 DEF A!ClearedStaysCleared, AppInv
<1> QED
  BY <1>9, <1>10, <1>11 DEF AppInv

LEMMA AppArriveKeeps == ASSUME AppInv, NEW l \in aLoads, A!Arrive(l) PROVE AppInv'
<1>1. /\ l.answer # A!Nothing /\ l.counts /\ aLoads' = aLoads \ {l} /\ data' = l.answer
      /\ aInitialized' = TRUE /\ aError' = FALSE /\ aLoading' = FALSE
      /\ clearing' \in {"no", clearing} /\ UNCHANGED <<gen, period, aToday, aAcked>>
      /\ aPicked' \in {aPicked, [k \in A!Kinds |-> aToday]} /\ aStraddled' \in BOOLEAN
  BY DEF A!Arrive, A!Ends
<1>2. l \in AppLoads /\ aAcked <= l.answer.gen
  BY <1>1 DEF AppInv, AppTypes, AppFresh
<1>3. data' \in A!Answers
  BY <1>1, <1>2 DEF AppLoads
<1>4. /\ aLoads' \subseteq AppLoads /\ IsFiniteSet(aLoads') /\ Cardinality(aLoads') <= MaxLoads
      /\ AppFresh'
  BY <1>1, AppLoadEnds
<1>5. AppTypes'
  BY <1>1, <1>3, <1>4 DEF AppInv, AppTypes
<1>6. A!ClearedStaysCleared'
  <2>1. data'.gen \in Nat /\ aAcked \in Nat
    BY <1>3 DEF A!Answers, AppInv, AppTypes
  <2>2. ~(data'.gen < aAcked')
    BY <1>1, <1>2, <2>1
  <2> QED
    BY <2>2 DEF A!ClearedStaysCleared
<1> QED
  BY <1>4, <1>5, <1>6 DEF AppInv

LEMMA AppClearKeeps == ASSUME AppInv, A!Clear PROVE AppInv'
<1>1. /\ aLoads' = A!Superseded /\ clearing' = "sent"
      /\ UNCHANGED <<gen, period, aPicked, data, aLoading, aError, aInitialized, aToday, aStraddled, aAcked>>
  BY DEF A!Clear
<1>2. /\ \A k \in A!Superseded : k \in AppLoads /\ ~k.counts
      /\ IsFiniteSet(A!Superseded) /\ Cardinality(A!Superseded) <= Cardinality(aLoads)
  BY AppSuperseded DEF AppInv, AppTypes
<1>3. Cardinality(A!Superseded) \in Nat /\ Cardinality(aLoads) \in Nat
  BY <1>2, FS_CardinalityType DEF AppInv, AppTypes
<1>4. Cardinality(A!Superseded) <= MaxLoads
  BY <1>2, <1>3, AppBounds DEF AppInv, AppTypes
<1>5. AppTypes'
  BY <1>1, <1>2, <1>4 DEF AppInv, AppTypes
<1>6. AppFresh' /\ A!ClearedStaysCleared'
  BY <1>1, <1>2 DEF AppInv, AppFresh, A!ClearedStaysCleared
<1> QED
  BY <1>5, <1>6 DEF AppInv

LEMMA AppOthersKeep ==
  ASSUME AppInv,
         \/ A!PeriodEnds \/ A!ClearServed \/ A!ClearFails \/ UNCHANGED A!vars
         \/ \E l \in aLoads : A!Fail(l) \/ A!Ignore(l)
  PROVE  AppInv'
<1>1. /\ aLoads' \subseteq aLoads /\ aToday' \in Periods
      /\ UNCHANGED <<period, aPicked, data, aInitialized, aStraddled, aAcked>>
      /\ clearing' \in {"no", "served", clearing}
  BY DEF A!PeriodEnds, A!ClearServed, A!ClearFails, A!vars, A!Fail, A!Ignore, A!Ends, AppInv, AppTypes
<1>2. \/ UNCHANGED <<aLoading, aError>>
      \/ aError' = TRUE /\ aLoading' = FALSE
  BY DEF A!PeriodEnds, A!ClearServed, A!ClearFails, A!vars, A!Fail, A!Ignore
<1>3. gen' = gen \/ (gen < MaxGen /\ gen' = gen + 1)
  BY DEF A!PeriodEnds, A!ClearServed, A!ClearFails, A!vars, A!Fail, A!Ignore
<1>4. /\ aLoads' \subseteq AppLoads /\ IsFiniteSet(aLoads') /\ Cardinality(aLoads') <= MaxLoads
      /\ AppFresh'
  BY <1>1, AppLoadEnds
<1>5. gen' \in 0..MaxGen /\ aAcked' \in 0..gen'
  BY <1>1, <1>3, AppBounds DEF AppInv, AppTypes
<1>6. AppTypes'
  BY <1>1, <1>2, <1>4, <1>5 DEF AppInv, AppTypes
<1>7. A!ClearedStaysCleared'
  BY <1>1, <1>2 DEF AppInv, A!ClearedStaysCleared
<1> QED
  BY <1>4, <1>6, <1>7 DEF AppInv

LEMMA AppInvKept == ASSUME AppInv, [A!Next]_A!vars PROVE AppInv'
  BY AppLoadsKeep, AppAnswerKeeps, AppArriveKeeps, AppClearKeeps, AppOthersKeep DEF A!Next

\* What a load asks for, and whose usage its answer is.
AppAnswered(l) ==
  l.answer # A!Nothing => /\ l.of # A!Current => l.answer.of = l.of
                          /\ l.of = A!Current => l.answer.of.kind = "day"

\* The load that counts is of what is selected: of the current day, before the first answer.
AppSelected ==
  /\ \A l \in aLoads : AppAnswered(l)
  /\ \A l \in aLoads : l.counts => l.of = IF aInitialized THEN A!Selection ELSE A!Current
  /\ ~aInitialized => period = "day"
  /\ A!ShownIsSelected

LEMMA AppCurrent == A!Current \notin AppSelections /\ \A p : [A!Current EXCEPT !.period = p] = [kind |-> "day", period |-> p]
<1>1. A!Current.period = 0 /\ 0 \notin Periods
  BY PeriodsArePositive DEF A!Current
<1>2. \A p : [A!Current EXCEPT !.period = p] = [kind |-> "day", period |-> p]
  BY DEF A!Current
<1> QED
  BY <1>1, <1>2 DEF AppSelections

LEMMA AppSupersededSame ==
  ASSUME aLoads \subseteq AppLoads, NEW k \in A!Superseded
  PROVE  ~k.counts /\ \E l \in aLoads : k.of = l.of /\ k.answer = l.answer
<1>1. PICK l \in aLoads : k = [l EXCEPT !.counts = FALSE]
  BY DEF A!Superseded
<1>2. \A m \in AppLoads : /\ ~[m EXCEPT !.counts = FALSE].counts
                          /\ [m EXCEPT !.counts = FALSE].of = m.of
                          /\ [m EXCEPT !.counts = FALSE].answer = m.answer
  BY DEF AppLoads
<1> QED
  BY <1>1, <1>2

LEMMA AppSelectedBegins == A!Init => AppSelected
<1> SUFFICES ASSUME A!Init PROVE AppSelected
  OBVIOUS
<1>1. /\ period = "day" /\ data = A!Nothing /\ aInitialized = FALSE
      /\ aLoads = {A!NewLoad(A!Current, FALSE)}
  BY DEF A!Init
<1>2. \A l \in aLoads : l.of = A!Current /\ l.answer = A!Nothing
  BY <1>1, AppLoadFields
<1> QED
  BY <1>1, <1>2 DEF AppSelected, AppAnswered, A!ShownIsSelected

\* A load that begins is for what is selected by then; unless it is a poll, "loading" shows.
LEMMA AppLoadsSelected ==
  ASSUME AppInv, AppSelected,
         \/ A!Poll \/ A!Refresh \/ A!Cleared
         \/ \E k \in A!Kinds : A!SelectPeriod(k)
         \/ \E p \in Periods : A!ChangeDate(p)
  PROVE  AppSelected'
<1>1. /\ UNCHANGED <<data, aInitialized, aStraddled>>
      /\ \E background, clears \in BOOLEAN :
           /\ A!Load(background, A!Selection', clears)
           /\ background => UNCHANGED A!Selection
      /\ A!Selection' \in AppSelections /\ (aInitialized \/ UNCHANGED period)
  <2>1. CASE A!Poll \/ A!Refresh \/ A!Cleared
    <3>1. A!Selection' = A!Selection
      BY <2>1 DEF A!Poll, A!Refresh, A!Cleared, A!Selection
    <3> QED
      BY <2>1, <3>1, AppSelection DEF A!Poll, A!Refresh, A!Cleared, AppInv
  <2>2. CASE \E k \in A!Kinds : A!SelectPeriod(k)
    <3>1. PICK k \in A!Kinds : A!SelectPeriod(k)
      BY <2>2
    <3>2. A!Selection' = [kind |-> k, period |-> aPicked[k]]
      BY <3>1 DEF A!SelectPeriod, A!Selection
    <3>3. A!Selection' \in AppSelections
      BY <3>2 DEF AppInv, AppTypes, AppSelections
    <3> QED
      BY <3>1, <3>2, <3>3 DEF A!SelectPeriod
  <2>3. CASE \E p \in Periods : A!ChangeDate(p)
    <3>1. PICK p \in Periods : A!ChangeDate(p)
      BY <2>3
    <3>2. A!Selection' = [kind |-> period, period |-> p]
      BY <3>1 DEF A!ChangeDate, A!Selection, AppInv, AppTypes
    <3>3. A!Selection' \in AppSelections
      BY <3>2 DEF AppInv, AppTypes, AppSelections
    <3> QED
      BY <3>1, <3>2, <3>3 DEF A!ChangeDate
  <2> QED
    BY <2>1, <2>2, <2>3
<1>2. PICK background \in BOOLEAN, clears \in BOOLEAN :
        /\ A!Load(background, A!Selection', clears)
        /\ background => UNCHANGED A!Selection
  BY <1>1
<1> DEFINE what == IF aInitialized THEN A!Selection' ELSE A!Current
           new == A!NewLoad(what, clears)
<1>3. /\ aLoads' = A!Superseded \cup {new}
      /\ aLoading' = (aLoading \/ ~background) /\ aError' = (aError /\ background)
  BY <1>2 DEF A!Load
<1>4. new.of = what /\ new.answer = A!Nothing
  BY <1>1, AppLoadFields
<1>5. \A k \in A!Superseded : ~k.counts /\ AppAnswered(k)
  BY AppSupersededSame DEF AppInv, AppTypes, AppSelected, AppAnswered
<1> HIDE DEF new, what
<1>6. \A l \in aLoads' : AppAnswered(l)
  BY <1>3, <1>4, <1>5 DEF AppAnswered
<1>7. \A l \in aLoads' : l.counts => l.of = what
  BY <1>3, <1>4, <1>5
<1>8. A!ShownIsSelected'
  <2>1. CASE background
    <3>1. aLoading' = aLoading /\ aError' = aError /\ A!Selection' = A!Selection
      BY <1>2, <1>3, <2>1 DEF AppInv, AppTypes
    <3> QED
      BY <1>1, <3>1 DEF AppSelected, A!ShownIsSelected
  <2>2. CASE ~background
    BY <1>3, <2>2 DEF A!ShownIsSelected
  <2> QED
    BY <2>1, <2>2
<1> QED
  BY <1>1, <1>6, <1>7, <1>8 DEF AppSelected, what

LEMMA AppAnswerSelected == ASSUME AppInv, AppSelected, NEW l \in aLoads, A!Answer(l) PROVE AppSelected'
<1>1. PICK apps \in Tables : aLoads' = (aLoads \ {l}) \cup
        {[l EXCEPT !.answer = [gen |-> gen, apps |-> apps,
           of |-> IF l.of = A!Current THEN [A!Current EXCEPT !.period = aToday] ELSE l.of]]}
  BY DEF A!Answer
<1> DEFINE of == IF l.of = A!Current THEN [A!Current EXCEPT !.period = aToday] ELSE l.of
           ans == [gen |-> gen, apps |-> apps, of |-> of]
           done == [l EXCEPT !.answer = ans]
<1>2. UNCHANGED <<period, aPicked, data, aLoading, aError, aInitialized, aStraddled>>
  BY DEF A!Answer
<1>3. (l.of # A!Current => of = l.of) /\ (l.of = A!Current => of.kind = "day")
  BY AppCurrent
<1>4. aLoads' = (aLoads \ {l}) \cup {done} /\ ans.of = of
  BY <1>1
<1> HIDE DEF of, ans
<1>5. \A k \in AppLoads : /\ [k EXCEPT !.answer = ans].answer = ans
                          /\ [k EXCEPT !.answer = ans].of = k.of
                          /\ [k EXCEPT !.answer = ans].counts = k.counts
  BY DEF AppLoads
<1>6. done.answer = ans /\ done.of = l.of /\ done.counts = l.counts
  BY <1>5 DEF AppInv, AppTypes
<1> HIDE DEF done
<1>7. \A k \in aLoads' : AppAnswered(k)
  BY <1>3, <1>4, <1>6 DEF AppSelected, AppAnswered
<1>8. \A k \in aLoads' : k.counts => k.of = IF aInitialized THEN A!Selection ELSE A!Current
  BY <1>4, <1>6 DEF AppSelected
<1>9. A!Selection' = A!Selection /\ A!ShownIsSelected'
  BY <1>2 DEF A!Selection, A!ShownIsSelected, AppSelected
<1> QED
  BY <1>2, <1>7, <1>8, <1>9 DEF AppSelected

\* What counts is of what is selected, or the first.
LEMMA AppArriveSelected == ASSUME AppInv, AppSelected, NEW l \in aLoads, A!Arrive(l) PROVE AppSelected'
<1>1. /\ l.answer # A!Nothing /\ l.counts /\ aLoads' = aLoads \ {l} /\ data' = l.answer
      /\ aInitialized' = TRUE /\ period' = period
      /\ aInitialized => aStraddled' = FALSE /\ aPicked' = aPicked
      /\ ~aInitialized => /\ aPicked' = [k \in A!Kinds |-> aToday]
                          /\ aStraddled' = (l.answer.of.period # aToday)
  BY DEF A!Arrive, A!Ends
<1>2. l \in AppLoads /\ AppAnswered(l)
  BY DEF AppInv, AppTypes, AppSelected
<1>3. \A k \in aLoads' : AppAnswered(k) /\ ~k.counts
  BY <1>1 DEF AppInv, AppFresh, AppSelected
<1>4. A!ShownIsSelected'
  <2>1. CASE aInitialized
    <3>1. l.of = A!Selection /\ A!Selection # A!Current
      BY <1>1, <2>1, AppSelection, AppCurrent DEF AppInv, AppSelected
    <3>2. data'.of = A!Selection /\ A!Selection' = A!Selection
      BY <1>1, <1>2, <2>1, <3>1 DEF AppAnswered, A!Selection
    <3> QED
      BY <3>2 DEF A!ShownIsSelected
  <2>2. CASE ~aInitialized
    <3>1. l.of = A!Current /\ period = "day"
      BY <1>1, <2>2 DEF AppSelected
    <3>2. l.answer.of.kind = "day" /\ l.answer.of \in AppSelections
      BY <1>1, <1>2, <3>1 DEF AppAnswered, AppLoads, A!Answers, AppSelections
    <3>3. \A a \in AppSelections : a.kind = "day" => a = [kind |-> "day", period |-> a.period]
      BY DEF AppSelections
    <3>4. data'.of = [kind |-> "day", period |-> l.answer.of.period]
      BY <1>1, <3>2, <3>3
    <3>5. A!Selection' = [kind |-> "day", period |-> aToday]
      BY <1>1, <2>2, <3>1 DEF A!Selection, A!Kinds
    <3> QED
      BY <1>1, <2>2, <3>4, <3>5 DEF A!ShownIsSelected
  <2> QED
    BY <2>1, <2>2
<1> QED
  BY <1>1, <1>3, <1>4 DEF AppSelected

LEMMA AppOthersSelected ==
  ASSUME AppInv, AppSelected,
         \/ A!PeriodEnds \/ A!Clear \/ A!ClearServed \/ A!ClearFails \/ UNCHANGED A!vars
         \/ \E l \in aLoads : A!Fail(l) \/ A!Ignore(l)
  PROVE  AppSelected'
<1>1. /\ UNCHANGED <<period, aPicked, data, aInitialized, aStraddled>>
      /\ aLoads' \subseteq aLoads \/ aLoads' = A!Superseded
      /\ UNCHANGED <<aLoading, aError>> \/ aError' = TRUE
  BY DEF A!PeriodEnds, A!Clear, A!ClearServed, A!ClearFails, A!vars, A!Fail, A!Ignore, A!Ends
<1>2. \A k \in A!Superseded : ~k.counts /\ AppAnswered(k)
  BY AppSupersededSame DEF AppInv, AppTypes, AppSelected, AppAnswered
<1>3. /\ \A l \in aLoads' : AppAnswered(l)
      /\ \A l \in aLoads' : l.counts => l.of = IF aInitialized THEN A!Selection ELSE A!Current
  BY <1>1, <1>2 DEF AppSelected
<1>4. A!Selection' = A!Selection
  BY <1>1 DEF A!Selection
<1>5. A!ShownIsSelected'
  BY <1>1, <1>4 DEF A!ShownIsSelected, AppSelected
<1> QED
  BY <1>1, <1>3, <1>4, <1>5 DEF AppSelected

LEMMA AppSelectedKept == ASSUME AppInv, AppSelected, [A!Next]_A!vars PROVE AppSelected'
  BY AppLoadsSelected, AppAnswerSelected, AppArriveSelected, AppOthersSelected DEF A!Next

\* The usage of one period is never passed off as that of another (TrafficApps.vue), for
\* any periods, tables of applications, clears and loads at a time.
THEOREM AppsAreSelected == A!Spec => []A!ShownIsSelected
<1>1. AppSelected => A!ShownIsSelected
  BY DEF AppSelected
<1> QED
  BY <1>1, AppInvBegins, AppInvKept, AppSelectedBegins, AppSelectedKept, PTL DEF A!Spec

\* Usage the user was told is cleared does not come back, and an export lists what is shown
\* (TrafficApps.vue), for any periods, tables of applications, clears and loads at a time.
THEOREM ClearedAlwaysStaysCleared ==
  A!Spec => [](A!TypeOK /\ A!ClearedStaysCleared /\ A!ExportIsTheTable)
<1>1. AppInv => A!TypeOK /\ A!ClearedStaysCleared
  <2> SUFFICES ASSUME AppInv PROVE A!TypeOK
    BY DEF AppInv
  <2>1. Cardinality({l \in aLoads : l.counts}) <= 1
    BY AtMostOne DEF AppInv, AppFresh
  <2> QED
    BY <2>1, AppCount DEF AppInv, AppTypes, A!TypeOK
<1>2. A!ExportIsTheTable
  <2> SUFFICES ASSUME data # A!Nothing, NEW a \in data.apps
               PROVE  \E i \in 1..3 : /\ a \in A!Groups(data.apps)[i]
                                      /\ \A j \in (1..3) \ {i} : a \notin A!Groups(data.apps)[j]
    BY DEF A!ExportIsTheTable
  <2>1. /\ A!Groups(data.apps)[1] = A!UnmatchedSites(data.apps)
        /\ A!Groups(data.apps)[2] = A!EcosystemServices(data.apps)
        /\ A!Groups(data.apps)[3] = A!MatchedApps(data.apps)
    BY DEF A!Groups
  <2>2. 1..3 = {1, 2, 3}
    OBVIOUS
  <2>3. CASE a.category = "site"
    BY <2>1, <2>2, <2>3 DEF A!UnmatchedSites, A!EcosystemServices, A!MatchedApps
  <2>4. CASE a.category \in {"ecosystem", "cdn"}
    BY <2>1, <2>2, <2>4 DEF A!UnmatchedSites, A!EcosystemServices, A!MatchedApps
  <2>5. CASE a.category \notin {"site", "ecosystem", "cdn"}
    BY <2>1, <2>2, <2>5 DEF A!UnmatchedSites, A!EcosystemServices, A!MatchedApps
  <2> QED
    BY <2>3, <2>4, <2>5
<1> QED
  BY <1>1, <1>2, AppInvBegins, AppInvKept, PTL DEF A!Spec

-----------------------------------------------------------------------------
(* The date picker. *)

\* The days from 1 January of the year 1 to the first of a month.
DaysBefore(y, m) ==
  365 * (y - 1) + (y - 1) \div 4 - (y - 1) \div 100 + (y - 1) \div 400 + P!DayOfYear(y, m)

Between(y) == y \div 4 - y \div 100 + y \div 400   \* leap days up to the end of a year

LEMMA LeapDays ==
  ASSUME NEW y \in Int
  PROVE  /\ Between(y) \in Int /\ Between(y - 1) \in Int
         /\ Between(y) = Between(y - 1) + (IF P!Leap(y) THEN 1 ELSE 0)
<1>1. y \div 4 = (y - 1) \div 4 + (IF y % 4 = 0 THEN 1 ELSE 0)
  OBVIOUS
<1>2. y \div 100 = (y - 1) \div 100 + (IF y % 100 = 0 THEN 1 ELSE 0)
  OBVIOUS
<1>3. y \div 400 = (y - 1) \div 400 + (IF y % 400 = 0 THEN 1 ELSE 0)
  OBVIOUS
<1>4. (y % 400 = 0 => y % 100 = 0) /\ (y % 100 = 0 => y % 4 = 0)
  OBVIOUS
<1>5. /\ y \div 4 \in Int /\ y \div 100 \in Int /\ y \div 400 \in Int
      /\ (y - 1) \div 4 \in Int /\ (y - 1) \div 100 \in Int /\ (y - 1) \div 400 \in Int
  OBVIOUS
<1> QED
  BY <1>1, <1>2, <1>3, <1>4, <1>5 DEF Between, P!Leap

LEMMA DaysBeforeIs ==
  ASSUME NEW y \in Int, NEW m \in 1..12
  PROVE  /\ DaysBefore(y, m) = 365 * (y - 1) + Between(y - 1) + P!DayOfYear(y, m)
         /\ DaysBefore(y, m) \in Int /\ P!DayOfYear(y, m) \in Int
         /\ P!FirstWeekday(y, m) = DaysBefore(y, m) % 7
         /\ P!FirstWeekday(y, m) \in 0..6 /\ P!DaysInMonth(y, m) \in 28..31
<1>1. P!DayOfYear(y, m) \in Int
  BY DEF P!DayOfYear
<1>2. /\ (y - 1) \div 4 \in Int /\ (y - 1) \div 100 \in Int /\ (y - 1) \div 400 \in Int
  OBVIOUS
<1>3. /\ DaysBefore(y, m) = 365 * (y - 1) + Between(y - 1) + P!DayOfYear(y, m)
      /\ DaysBefore(y, m) \in Int
  BY <1>1, <1>2 DEF DaysBefore, Between
<1>4. P!FirstWeekday(y, m) = DaysBefore(y, m) % 7
  BY DEF P!FirstWeekday, DaysBefore
<1>5. P!FirstWeekday(y, m) \in 0..6
  BY <1>3, <1>4
<1>6. P!DaysInMonth(y, m) \in 28..31
  BY DEF P!DaysInMonth
<1> QED
  BY <1>1, <1>3, <1>4, <1>5, <1>6

\* Within a year, and from its last month to the first of the next.
LEMMA DaysAfter ==
  ASSUME NEW y \in Int, NEW m \in 1..12
  PROVE  DaysBefore(P!Following(y, m).y, P!Following(y, m).m)
           = DaysBefore(y, m) + P!DaysInMonth(y, m)
<1> DEFINE L == IF P!Leap(y) THEN 1 ELSE 0
<1>1. CASE m = 12
  <2>1. P!Following(y, m).y = y + 1 /\ P!Following(y, m).m = 1
    BY <1>1 DEF P!Following
  <2>2. P!DayOfYear(y + 1, 1) = 0 /\ P!DayOfYear(y, 12) + 31 = 365 + L /\ P!DaysInMonth(y, 12) = 31
    BY DEF P!DayOfYear, P!DaysInMonth
  <2>3. DaysBefore(y + 1, 1) = 365 * y + Between(y) + P!DayOfYear(y + 1, 1)
    BY DaysBeforeIs
  <2>4. DaysBefore(y, 12) = 365 * (y - 1) + Between(y - 1) + P!DayOfYear(y, 12)
    BY DaysBeforeIs
  <2>5. Between(y) = Between(y - 1) + L /\ Between(y) \in Int /\ Between(y - 1) \in Int
    BY LeapDays
  <2>6. P!DayOfYear(y, 12) \in Int /\ L \in Int
    BY DaysBeforeIs
  <2> HIDE DEF L
  <2> QED
    BY <1>1, <2>1, <2>2, <2>3, <2>4, <2>5, <2>6
<1>2. CASE m # 12
  <2>1. P!Following(y, m).y = y /\ P!Following(y, m).m = m + 1 /\ m + 1 \in 1..12
    BY <1>2 DEF P!Following
  <2>2. P!DayOfYear(y, m + 1) = P!DayOfYear(y, m) + P!DaysInMonth(y, m)
    BY <1>2 DEF P!DayOfYear, P!DaysInMonth
  <2>3. /\ DaysBefore(y, m + 1) = 365 * (y - 1) + Between(y - 1) + P!DayOfYear(y, m + 1)
        /\ DaysBefore(y, m) = 365 * (y - 1) + Between(y - 1) + P!DayOfYear(y, m)
    <3>1. \A k \in 1..12 :
            DaysBefore(y, k) = 365 * (y - 1) + Between(y - 1) + P!DayOfYear(y, k)
      BY ZenonT(30), DaysBeforeIs
    <3> QED
      BY <2>1, <3>1
  <2>4. Between(y - 1) \in Int /\ P!DayOfYear(y, m) \in Int
    BY LeapDays, DaysBeforeIs
  <2>5. P!DaysInMonth(y, m) \in Int
    BY DEF P!DaysInMonth
  <2> QED
    BY <2>1, <2>2, <2>3, <2>4, <2>5
<1> QED
  BY <1>1, <1>2

LEMMA SevenFold == \A a, k \in Int : (a + 7 * k) % 7 = a % 7
  OBVIOUS

\* The weekday the reference gives a day.
LEMMA WeekdayIs ==
  ASSUME NEW y \in Int, NEW m \in 1..12, NEW d \in Int
  PROVE  P!Weekday([y |-> y, m |-> m, d |-> d]) = (DaysBefore(y, m) + d) % 7
<1> DEFINE t == <<0, 3, 2, 5, 0, 3, 5, 1, 4, 6, 2, 4>>
           L == IF P!Leap(y) THEN 1 ELSE 0
           q == IF m < 3 THEN y - 1 ELSE y
           w == q + Between(q) + t[m] + d
           K == Between(y - 1)
<1>1. P!Weekday([y |-> y, m |-> m, d |-> d])
        = (q + q \div 4 - q \div 100 + q \div 400 + t[m] + d) % 7
  BY DEF P!Weekday
<1>2. /\ q \in Int /\ q \div 4 \in Int /\ q \div 100 \in Int /\ q \div 400 \in Int
      /\ t[m] \in Int
  OBVIOUS
<1>3. q + q \div 4 - q \div 100 + q \div 400 + t[m] + d = w
  BY <1>2 DEF Between
<1>4. /\ K \in Int /\ L \in {0, 1} /\ Between(y) = K + L
      /\ DaysBefore(y, m) = 365 * (y - 1) + K + P!DayOfYear(y, m)
  <2>1. K \in Int /\ Between(y) = K + L
    BY LeapDays, Zenon
  <2>2. DaysBefore(y, m) = 365 * (y - 1) + K + P!DayOfYear(y, m)
    BY DaysBeforeIs, ZenonT(30)
  <2>3. L \in {0, 1}
    BY Zenon
  <2> QED
    BY <2>1, <2>2, <2>3
<1>5. w = IF m < 3 THEN y - 1 + K + t[m] + d ELSE y + K + L + t[m] + d
  BY <1>4
<1>6. \E j \in Int : P!DayOfYear(y, m) = 7 * j + (IF m < 3 THEN t[m] ELSE t[m] + 1 + L)
  <2>1. P!DayOfYear(y, m) = 31 * (m - 1) - (IF m <= 2 THEN 0 ELSE (4 * m + 23) \div 10 - L)
    BY DEF P!DayOfYear
  <2> HIDE DEF L
  <2>2. \A x \in Int : \E j \in Int : x = (7 * j) + (x % 7)
    <3> SUFFICES ASSUME NEW x \in Int PROVE \E j \in Int : x = (7 * j) + (x % 7)
      OBVIOUS
    <3>1. x \div 7 \in Int /\ x = (7 * (x \div 7)) + (x % 7)
      OBVIOUS
    <3> QED
      BY <3>1
  <2> DEFINE r == IF m < 3 THEN t[m] ELSE t[m] + 1
             s == 31 * (m - 1) - (IF m <= 2 THEN 0 ELSE (4 * m + 23) \div 10)
  <2>3. s \in Int /\ r \in Int /\ (s - r) % 7 = 0
    OBVIOUS
  <2>4. PICK j \in Int : s - r = 7 * j
    <3> HIDE DEF s, r
    <3>1. s - r \in Int
      BY <2>3
    <3>2. PICK j \in Int : s - r = (7 * j) + ((s - r) % 7)
      BY <2>2, <3>1
    <3> QED
      BY <2>3, <3>2
  <2>5. P!DayOfYear(y, m) = IF m < 3 THEN s ELSE s + L
    BY <2>1, <1>4
  <2> HIDE DEF s, r
  <2>6. P!DayOfYear(y, m) = 7 * j + (IF m < 3 THEN r ELSE r + L)
    BY <1>4, <2>3, <2>4, <2>5
  <2> QED
    BY <1>2, <1>4, <2>6 DEF r
<1>7. PICK j \in Int : P!DayOfYear(y, m) = 7 * j + (IF m < 3 THEN t[m] ELSE t[m] + 1 + L)
  BY <1>6
<1>8. DaysBefore(y, m) + d = w + 7 * (52 * (y - 1) + j)
  <2> HIDE DEF L, K, w, t
  <2>1. CASE m < 3
    BY <1>2, <1>4, <1>5, <1>7, <2>1
  <2>2. CASE ~(m < 3)
    BY <1>2, <1>4, <1>5, <1>7, <2>2
  <2> QED
    BY <2>1, <2>2
<1>9. w \in Int
  <2> HIDE DEF L, K, w, t
  <2> QED
    BY <1>2, <1>4, <1>5
<1> HIDE DEF w
<1>10. (w + 7 * (52 * (y - 1) + j)) % 7 = w % 7
  BY <1>7, <1>9, SevenFold
<1> QED
  BY <1>1, <1>3, <1>8, <1>10

\* The months before and after.
LEMMA Neighbours ==
  ASSUME NEW y \in Int, NEW m \in 1..12
  PROVE  LET before == P!Previous(y, m)
             after  == P!Following(y, m)
         IN  /\ before.y \in Int /\ before.m \in 1..12 /\ before.m # m
             /\ after.y \in Int /\ after.m \in 1..12 /\ after.m # m
             /\ P!Following(before.y, before.m) = [y |-> y, m |-> m]
             /\ 12 * y + m = 12 * before.y + before.m + 1
             /\ 12 * after.y + after.m = 12 * y + m + 1
<1>1. CASE m = 1
  BY <1>1 DEF P!Previous, P!Following
<1>2. CASE m = 12
  BY <1>2 DEF P!Previous, P!Following
<1>3. CASE m # 1 /\ m # 12
  BY <1>3 DEF P!Previous, P!Following
<1> QED
  BY <1>1, <1>2, <1>3

\* The cells of a day of the month itself, and of one of its neighbours.
OwnCell(cell, year, month, day) ==
  cell.iso = [y |-> year, m |-> month, d |-> day] /\ ~cell.outside
OtherCell(cell, year, month, day) ==
  /\ cell.iso = [y |-> year, m |-> month, d |-> day] /\ cell.outside
  /\ ~cell.disabled => P!InRange(year)

LEMMA CellsAre ==
  ASSUME NEW month, NEW day
  PROVE  /\ OwnCell(P!Cell(month, day, FALSE), month.y, month.m, day)
         /\ OtherCell(P!Cell(month, day, TRUE), month.y, month.m, day)
  BY DEF P!Cell, OwnCell, OtherCell

LEMMA OwnIs ==
  \A cell, year, month, day :
    OwnCell(cell, year, month, day) => ~cell.outside /\ cell.iso.m = month /\ cell.iso.d = day
  BY DEF OwnCell

LEMMA OtherIs ==
  \A cell, year, month, day :
    OtherCell(cell, year, month, day) => cell.outside /\ cell.iso.m = month
  BY DEF OtherCell

\* The grid of a month: the tail of the month before, the month, the head of the month
\* after.
LEMMA GridCells ==
  ASSUME NEW y \in Int, NEW m \in 1..12,
         NEW o, o = P!FirstWeekday(y, m), NEW n, n = P!DaysInMonth(y, m),
         NEW b, b = P!Previous(y, m), NEW a, a = P!Following(y, m),
         NEW p, p = P!DaysInMonth(b.y, b.m), NEW c, c = P!CalendarDays(y, m)
  PROVE  /\ o \in 0..6 /\ n \in 28..31 /\ p \in 28..31 /\ DOMAIN c = 1..42
         /\ \A k \in 1..o : OtherCell(c[k], b.y, b.m, (p - o) + k)
         /\ \A k \in 1..n : OwnCell(c[o + k], y, m, k)
         /\ \A k \in 1..(42 - (o + n)) : OtherCell(c[(o + n) + k], a.y, a.m, k)
<1>1. o \in 0..6 /\ n \in 28..31
  BY DaysBeforeIs
<1>2. p \in 28..31
  <2>1. b.y \in Int /\ b.m \in 1..12
    BY Neighbours
  <2> QED
    BY <2>1, DaysBeforeIs
<1>3. c = [i \in 1..42 |->
             IF i <= o THEN P!Cell(b, p - o + i, TRUE)
             ELSE IF i <= o + n THEN P!Cell([y |-> y, m |-> m], i - o, FALSE)
             ELSE P!Cell(a, i - o - n, TRUE)]
  BY DEF P!CalendarDays
<1>4. ASSUME NEW k \in 1..o PROVE OtherCell(c[k], b.y, b.m, (p - o) + k)
  <2>1. k \in 1..42 /\ k <= o
    BY <1>1
  <2>2. c[k] = P!Cell(b, p - o + k, TRUE)
    BY <1>3, <2>1
  <2> QED
    BY <2>2, CellsAre
<1>5. ASSUME NEW k \in 1..n PROVE OwnCell(c[o + k], y, m, k)
  <2> DEFINE month == [y |-> y, m |-> m]
  <2>1. o + k \in 1..42 /\ ~(o + k <= o) /\ o + k <= o + n /\ (o + k) - o = k
    BY <1>1
  <2>2. c[o + k] = P!Cell(month, k, FALSE)
    BY <1>3, <2>1
  <2>3. OwnCell(P!Cell(month, k, FALSE), month.y, month.m, k)
    BY CellsAre
  <2> QED
    BY <2>2, <2>3
<1>6. ASSUME NEW k \in 1..(42 - (o + n)) PROVE OtherCell(c[(o + n) + k], a.y, a.m, k)
  <2>1. /\ (o + n) + k \in 1..42 /\ ~((o + n) + k <= o) /\ ~((o + n) + k <= o + n)
        /\ ((o + n) + k) - o - n = k
    BY <1>1
  <2>2. c[(o + n) + k] = P!Cell(a, k, TRUE)
    BY <1>3, <2>1
  <2> QED
    BY <2>2, CellsAre
<1> QED
  BY <1>1, <1>2, <1>3, <1>4, <1>5, <1>6

\* Every cell is in one of the three parts.
LEMMA ThreeParts ==
  ASSUME NEW o \in 0..6, NEW n \in 28..31, NEW i \in 1..42
  PROVE  \/ i \in 1..o
         \/ \E k \in 1..n : i = o + k
         \/ \E k \in 1..(42 - (o + n)) : i = (o + n) + k
<1>1. CASE i <= o
  BY <1>1
<1>2. CASE ~(i <= o) /\ i <= o + n
  <2>1. i - o \in 1..n /\ i = o + (i - o)
    BY <1>2
  <2> QED
    BY <2>1
<1>3. CASE ~(i <= o + n)
  <2>1. i - (o + n) \in 1..(42 - (o + n)) /\ i = (o + n) + (i - (o + n))
    BY <1>3
  <2> QED
    BY <2>1
<1> QED
  BY <1>1, <1>2, <1>3

\* Six weeks of consecutive days from a Monday on, with the whole month in them.
LEMMA GridOfMonth ==
  ASSUME NEW y \in Int, NEW m \in 1..12
  PROVE  LET cells == P!CalendarDays(y, m)
         IN  /\ P!Weekday(cells[1].iso) = 1
             /\ \A i \in 1..41 : P!Consecutive(cells[i].iso, cells[i + 1].iso)
             /\ {cells[i].iso.d : i \in {j \in 1..42 : ~cells[j].outside}} = 1..P!DaysInMonth(y, m)
             /\ \A i \in 1..42 : cells[i].outside <=> cells[i].iso.m # m
<1> DEFINE b == P!Previous(y, m)
           a == P!Following(y, m)
           c == P!CalendarDays(y, m)
           o == P!FirstWeekday(y, m)
           n == P!DaysInMonth(y, m)
           p == P!DaysInMonth(b.y, b.m)
<1>1. /\ b.y \in Int /\ b.m \in 1..12 /\ b.m # m /\ a.m # m /\ a.y \in Int /\ a.m \in 1..12
      /\ 12 * y + m = 12 * b.y + b.m + 1 /\ 12 * a.y + a.m = 12 * y + m + 1
  BY Neighbours
<1>2. /\ o \in 0..6 /\ n \in 28..31 /\ p \in 28..31
      /\ \A k \in 1..o : OtherCell(c[k], b.y, b.m, (p - o) + k)
      /\ \A k \in 1..n : OwnCell(c[o + k], y, m, k)
      /\ \A k \in 1..(42 - (o + n)) : OtherCell(c[(o + n) + k], a.y, a.m, k)
  BY ZenonT(30), GridCells
<1>3. /\ DaysBefore(y, m) \in Int /\ o = DaysBefore(y, m) % 7
      /\ DaysBefore(b.y, b.m) \in Int /\ DaysBefore(y, m) = DaysBefore(b.y, b.m) + p
  <2>1. P!Following(b.y, b.m) = [y |-> y, m |-> m]
    BY Neighbours
  <2>2. DaysBefore(P!Following(b.y, b.m).y, P!Following(b.y, b.m).m) = DaysBefore(b.y, b.m) + p
    BY <1>1, DaysAfter
  <2>3. DaysBefore(y, m) \in Int /\ o = DaysBefore(y, m) % 7
    BY ZenonT(30), DaysBeforeIs
  <2>4. DaysBefore(b.y, b.m) \in Int
    BY <1>1, DaysBeforeIs
  <2> QED
    BY <2>1, <2>2, <2>3, <2>4
<1>4. p = P!DaysInMonth(b.y, b.m) /\ n = P!DaysInMonth(y, m)
  OBVIOUS
<1> HIDE DEF b, a, c, o, n, p
<1>5. P!Weekday(c[1].iso) = 1
  <2>1. CASE o = 0
    <3>1. c[1].iso = [y |-> y, m |-> m, d |-> 1]
      <4>1. 1 \in 1..n /\ o + 1 = 1
        BY <1>2, <2>1
      <4> QED
        BY <1>2, <4>1 DEF OwnCell, OtherCell
    <3>2. P!Weekday(c[1].iso) = (DaysBefore(y, m) + 1) % 7
      BY <3>1, WeekdayIs
    <3> HIDE DEF DaysBefore
    <3>3. (DaysBefore(y, m) + 1) % 7 = 1
      BY <1>3, <2>1
    <3> QED
      BY <3>2, <3>3
  <2>2. CASE o # 0
    <3>1. c[1].iso = [y |-> b.y, m |-> b.m, d |-> (p - o) + 1]
      <4>1. 1 \in 1..o
        BY <1>2, <2>2
      <4> QED
        BY <1>2, <4>1 DEF OwnCell, OtherCell
    <3>2. P!Weekday(c[1].iso) = (DaysBefore(b.y, b.m) + ((p - o) + 1)) % 7
      <4>1. (p - o) + 1 \in Int
        BY <1>2
      <4> QED
        BY <1>1, <3>1, <4>1, WeekdayIs
    <3>3. DaysBefore(b.y, b.m) + ((p - o) + 1) = (DaysBefore(y, m) - o) + 1
      BY <1>2, <1>3
    <3>4. \A x \in Int : ((x - (x % 7)) + 1) % 7 = 1
      OBVIOUS
    <3> QED
      BY <1>3, <3>2, <3>3, <3>4
  <2> QED
    BY <2>1, <2>2
<1>6. ASSUME NEW i \in 1..41 PROVE P!Consecutive(c[i].iso, c[i + 1].iso)
  <2>1. \A yy, mm, d : [[y |-> yy, m |-> mm, d |-> d] EXCEPT !.d = @ + 1]
                         = [y |-> yy, m |-> mm, d |-> d + 1]
    OBVIOUS
  <2>2. CASE i \in 1..o /\ i + 1 \in 1..o
    <3>1. /\ c[i].iso = [y |-> b.y, m |-> b.m, d |-> (p - o) + i]
          /\ c[i + 1].iso = [y |-> b.y, m |-> b.m, d |-> (p - o) + (i + 1)]
      BY <1>2, <2>2 DEF OwnCell, OtherCell
    <3>2. (p - o) + (i + 1) = ((p - o) + i) + 1
      BY <1>2
    <3> QED
      BY <2>1, <3>1, <3>2 DEF P!Consecutive
  <2>3. CASE i \in 1..o /\ i + 1 \notin 1..o
    <3>1. i = o /\ 1 \in 1..n /\ (p - o) + i = p
      BY <1>2, <2>3
    <3>2. c[i].iso = [y |-> b.y, m |-> b.m, d |-> p]
      BY <1>2, <2>3, <3>1 DEF OwnCell, OtherCell
    <3>3. c[i + 1].iso = [y |-> y, m |-> m, d |-> 1]
      BY <1>2, <3>1 DEF OwnCell, OtherCell
    <3> QED
      BY <1>1, <1>4, <3>2, <3>3 DEF P!Consecutive
  <2>4. ASSUME NEW k \in 1..n, i = o + k PROVE P!Consecutive(c[i].iso, c[i + 1].iso)
    <3>1. c[i].iso = [y |-> y, m |-> m, d |-> k]
      BY <1>2, <2>4 DEF OwnCell, OtherCell
    <3>2. CASE k = n
      <4>1. i + 1 = (o + n) + 1 /\ 1 \in 1..(42 - (o + n))
        BY <1>2, <2>4, <3>2
      <4>2. c[i + 1].iso = [y |-> a.y, m |-> a.m, d |-> 1]
        BY <1>2, <4>1 DEF OwnCell, OtherCell
      <4> QED
        BY <1>1, <1>4, <3>1, <3>2, <4>2 DEF P!Consecutive
    <3>3. CASE k # n
      <4>1. i + 1 = o + (k + 1) /\ k + 1 \in 1..n
        BY <1>2, <2>4, <3>3
      <4>2. c[i + 1].iso = [y |-> y, m |-> m, d |-> k + 1]
        BY <1>2, <4>1 DEF OwnCell, OtherCell
      <4> QED
        BY <2>1, <3>1, <4>2 DEF P!Consecutive
    <3> QED
      BY <3>2, <3>3
  <2>5. ASSUME NEW k \in 1..(42 - (o + n)), i = (o + n) + k
        PROVE  P!Consecutive(c[i].iso, c[i + 1].iso)
    <3>1. i + 1 = (o + n) + (k + 1) /\ k + 1 \in 1..(42 - (o + n))
      BY <1>2, <2>5
    <3>2. /\ c[i].iso = [y |-> a.y, m |-> a.m, d |-> k]
          /\ c[i + 1].iso = [y |-> a.y, m |-> a.m, d |-> k + 1]
      BY <1>2, <2>5, <3>1 DEF OwnCell, OtherCell
    <3> QED
      BY <2>1, <3>2 DEF P!Consecutive
  <2>6. i \in 1..42
    OBVIOUS
  <2> QED
    BY <1>2, <2>2, <2>3, <2>4, <2>5, <2>6, ThreeParts
<1>7. ASSUME NEW i \in 1..42 PROVE c[i].outside <=> c[i].iso.m # m
  <2>1. \/ i \in 1..o
        \/ \E k \in 1..n : i = o + k
        \/ \E k \in 1..(42 - (o + n)) : i = (o + n) + k
    BY <1>2, ThreeParts
  <2>2. CASE i \in 1..o
    <3>1. OtherCell(c[i], b.y, b.m, (p - o) + i)
      BY <1>2, <2>2
    <3> QED
      BY <1>1, <3>1, OtherIs
  <2>3. ASSUME NEW k \in 1..n, i = o + k PROVE c[i].outside <=> c[i].iso.m # m
    <3>1. OwnCell(c[i], y, m, k)
      BY <1>2, <2>3
    <3> QED
      BY <3>1, OwnIs
  <2>4. ASSUME NEW k \in 1..(42 - (o + n)), i = (o + n) + k
        PROVE  c[i].outside <=> c[i].iso.m # m
    <3>1. OtherCell(c[i], a.y, a.m, k)
      BY <1>2, <2>4
    <3> QED
      BY <1>1, <3>1, OtherIs
  <2> QED
    BY <2>1, <2>2, <2>3, <2>4, Zenon
<1>8. {c[i].iso.d : i \in {j \in 1..42 : ~c[j].outside}} = 1..n
  <2>1. ASSUME NEW i \in 1..42, ~c[i].outside PROVE c[i].iso.d \in 1..n
    <3>1. i \notin 1..o
      BY <1>2, <2>1 DEF OwnCell, OtherCell
    <3>2. ASSUME NEW k \in 1..(42 - (o + n)) PROVE i # (o + n) + k
      BY <1>2, <2>1 DEF OwnCell, OtherCell
    <3>3. PICK k \in 1..n : i = o + k
      <4>1. o \in 0..6 /\ n \in 28..31
        BY <1>2
      <4>2. \/ i \in 1..o
            \/ \E k \in 1..n : i = o + k
            \/ \E k \in 1..(42 - (o + n)) : i = (o + n) + k
        BY <4>1, ThreeParts
      <4> QED
        BY <3>1, <3>2, <4>2, Zenon
    <3>4. OwnCell(c[i], y, m, k)
      BY <1>2, <3>3
    <3> QED
      BY <3>4, OwnIs
  <2>2. ASSUME NEW d \in 1..n PROVE \E i \in 1..42 : ~c[i].outside /\ c[i].iso.d = d
    <3>1. o + d \in 1..42
      BY <1>2
    <3>2. OwnCell(c[o + d], y, m, d)
      BY <1>2
    <3>3. ~c[o + d].outside /\ c[o + d].iso.d = d
      BY <3>2, OwnIs
    <3> QED
      BY <3>1, <3>3
  <2>3. {c[i].iso.d : i \in {j \in 1..42 : ~c[j].outside}} \subseteq 1..n
    BY <2>1, Zenon
  <2>4. 1..n \subseteq {c[i].iso.d : i \in {j \in 1..42 : ~c[j].outside}}
    BY <2>2, Zenon
  <2> QED
    BY <2>3, <2>4, Zenon
<1>9. /\ P!Weekday(c[1].iso) = 1
      /\ \A i \in 1..41 : P!Consecutive(c[i].iso, c[i + 1].iso)
      /\ {c[i].iso.d : i \in {j \in 1..42 : ~c[j].outside}} = 1..n
      /\ \A i \in 1..42 : c[i].outside <=> c[i].iso.m # m
  BY <1>5, <1>6, <1>7, <1>8
<1> QED
  BY <1>9 DEF c, n

Dates == [y : MinYear..MaxYear, m : 1..12, d : 1..31]

\* Every day the picker knows is a date, and its view and value are in range.
PickerInv ==
  /\ type \in {"date", "month", "year"} /\ open \in BOOLEAN /\ nights \in 0..MaxNights
  /\ now \in Dates /\ clock \in Dates
  /\ viewYear \in Int /\ P!InRange(viewYear) /\ viewMonth \in 1..12
  /\ value.y \in MinYear..MaxYear /\ value.m \in 0..12 /\ P!Valid(value)

LEMMA YearsAre == MinYear \in Nat /\ MinYear > 0 /\ MaxYear \in Nat /\ MaxNights \in Nat /\ Days \subseteq Dates
  BY WebAssumption DEF P!CalendarAssumption, Dates

LEMMA CutIs ==
  ASSUME type \in {"date", "month", "year"}, NEW day \in Dates
  PROVE  P!Valid(P!Cut(type, day)) /\ P!Cut(type, day).y = day.y /\ P!Cut(type, day).m \in 0..12
  BY YearsAre DEF P!Valid, P!Cut, Dates

\* No button of the popup commits a value the views reject.
LEMMA OfferedValid == ASSUME PickerInv, NEW v \in P!Offered PROVE P!Valid(v)
<1>1. CASE type = "date"
  <2> DEFINE c == P!CalendarDays(viewYear, viewMonth)
             b == P!Previous(viewYear, viewMonth)
             a == P!Following(viewYear, viewMonth)
             o == P!FirstWeekday(viewYear, viewMonth)
             n == P!DaysInMonth(viewYear, viewMonth)
             p == P!DaysInMonth(b.y, b.m)
  <2>1. /\ o \in 0..6 /\ n \in 28..31 /\ p \in 28..31 /\ DOMAIN c = 1..42
        /\ \A k \in 1..o : OtherCell(c[k], b.y, b.m, (p - o) + k)
        /\ \A k \in 1..n : OwnCell(c[o + k], viewYear, viewMonth, k)
        /\ \A k \in 1..(42 - (o + n)) : OtherCell(c[(o + n) + k], a.y, a.m, k)
    BY GridCells DEF PickerInv
  <2>2. /\ b.y \in Int /\ b.m \in 1..12 /\ a.y \in Int /\ a.m \in 1..12
    BY Neighbours DEF PickerInv
  <2>3. v \in P!Enabled(c)
    BY <1>1 DEF P!Offered
  <2> HIDE DEF c, b, a, o, n, p
  <2>4. PICK i \in 1..42 : ~c[i].disabled /\ v = c[i].iso
    BY <2>1, <2>3 DEF P!Enabled
  <2>5. CASE i \in 1..o
    <3>1. (p - o) + i \in 1..31
      BY <2>1, <2>5
    <3>2. v = [y |-> b.y, m |-> b.m, d |-> (p - o) + i] /\ P!InRange(b.y)
      BY <2>1, <2>4, <2>5 DEF OwnCell, OtherCell
    <3> QED
      BY <1>1, <2>2, <3>1, <3>2, YearsAre DEF P!Valid, P!InRange
  <2>6. ASSUME NEW k \in 1..n, i = o + k PROVE P!Valid(v)
    <3>1. v = [y |-> viewYear, m |-> viewMonth, d |-> k]
      BY <2>1, <2>4, <2>6 DEF OwnCell, OtherCell
    <3>2. k \in 1..31 /\ viewYear \in MinYear..MaxYear
      BY <2>1, YearsAre DEF PickerInv, P!InRange
    <3> QED
      BY <1>1, <3>1, <3>2 DEF P!Valid, PickerInv
  <2>7. ASSUME NEW k \in 1..(42 - (o + n)), i = (o + n) + k PROVE P!Valid(v)
    <3>1. v = [y |-> a.y, m |-> a.m, d |-> k] /\ P!InRange(a.y)
      BY <2>1, <2>4, <2>7 DEF OwnCell, OtherCell
    <3>2. k \in 1..31
      BY <2>1
    <3> QED
      BY <1>1, <2>2, <3>1, <3>2, YearsAre DEF P!Valid, P!InRange
  <2> QED
    BY <2>1, <2>5, <2>6, <2>7, ThreeParts
<1>2. CASE type = "month"
  <2>1. PICK m \in 1..12 : v = [y |-> viewYear, m |-> m, d |-> 0]
    BY <1>2 DEF P!Offered
  <2>2. viewYear \in MinYear..MaxYear
    BY YearsAre DEF PickerInv, P!InRange
  <2> QED
    BY <1>2, <2>1, <2>2 DEF P!Valid
<1>3. CASE type = "year"
  <2>1. v \in P!Enabled(P!YearGrid(viewYear))
    BY <1>3 DEF P!Offered
  <2>2. PICK i \in 1..12 : /\ v = [y |-> P!YearStart(viewYear) + i - 1, m |-> 0, d |-> 0]
                           /\ P!InRange(P!YearStart(viewYear) + i - 1)
    BY <2>1 DEF P!Enabled, P!YearGrid
  <2>3. P!YearStart(viewYear) + i - 1 \in Int
    BY DEF P!YearStart, PickerInv
  <2>4. v.y \in MinYear..MaxYear
    BY <2>2, <2>3, YearsAre DEF P!InRange
  <2> QED
    BY <1>3, <2>2, <2>4 DEF P!Valid
<1> QED
  BY <1>1, <1>2, <1>3 DEF PickerInv

LEMMA PickerBegins == P!Init => PickerInv
<1> SUFFICES ASSUME P!Init PROVE PickerInv
  OBVIOUS
<1>1. /\ type \in {"date", "month", "year"} /\ now \in Dates /\ clock = now /\ open = FALSE
      /\ viewYear = now.y /\ viewMonth = now.m /\ nights = 0
  BY YearsAre DEF P!Init
<1>2. PICK day \in Dates : value = P!Cut(type, day)
  BY YearsAre DEF P!Init
<1>3. now.y \in MinYear..MaxYear /\ now.m \in 1..12 /\ day.y \in MinYear..MaxYear
  BY <1>1 DEF Dates
<1>4. viewYear \in Int /\ P!InRange(viewYear)
  BY <1>1, <1>3, YearsAre DEF P!InRange
<1>5. P!Valid(value) /\ value.y \in MinYear..MaxYear /\ value.m \in 0..12
  BY <1>1, <1>2, <1>3, CutIs
<1>6. nights \in 0..MaxNights
  BY <1>1, YearsAre
<1>7. open \in BOOLEAN
  BY <1>1
<1> QED
  BY <1>1, <1>3, <1>4, <1>5, <1>6, <1>7 DEF PickerInv

LEMMA PickerKept == ASSUME PickerInv, [P!Next]_P!vars PROVE PickerInv'
<1>1. ASSUME P!Valid(value'), value'.y \in MinYear..MaxYear, value'.m \in 0..12, open' \in BOOLEAN,
             UNCHANGED <<type, clock, now, viewYear, viewMonth, nights>>
      PROVE  PickerInv'
  BY <1>1 DEF PickerInv, P!Valid, P!InRange
<1>2. ASSUME open' \in BOOLEAN, clock' \in Dates, viewYear' \in Int, P!InRange(viewYear)',
             viewMonth' \in 1..12, UNCHANGED <<type, value, now, nights>>
      PROVE  PickerInv'
  BY <1>2 DEF PickerInv, P!Valid
<1>3. CASE P!Open
  <2>1. /\ open' = TRUE /\ clock' = now /\ UNCHANGED <<type, value, now, nights>>
        /\ viewYear' = P!SyncedYear(value, now) /\ viewMonth' = P!SyncedMonth(value, now)
    BY <1>3 DEF P!Open
  <2>2. now.y \in MinYear..MaxYear /\ now.m \in 1..12
    BY DEF PickerInv, Dates
  <2>3. viewYear' \in Int /\ P!InRange(viewYear)' /\ viewMonth' \in 1..12
    BY <2>1, <2>2, YearsAre DEF PickerInv, P!SyncedYear, P!SyncedMonth, P!InRange
  <2> QED
    BY <1>2, <2>1, <2>3 DEF PickerInv
<1>4. CASE P!Dismiss
  BY <1>2, <1>4 DEF P!Dismiss, PickerInv, P!InRange
<1>5. ASSUME NEW delta \in {-1, 1}, P!StepMonth(delta) PROVE PickerInv'
  <2>1. /\ UNCHANGED <<type, value, open, clock, now, nights>>
        /\ \E to \in {P!Previous(viewYear, viewMonth), P!Following(viewYear, viewMonth)} :
             \/ P!InRange(to.y) /\ viewYear' = to.y /\ viewMonth' = to.m
             \/ UNCHANGED <<viewYear, viewMonth>>
    BY <1>5 DEF P!StepMonth
  <2>2. \A to \in {P!Previous(viewYear, viewMonth), P!Following(viewYear, viewMonth)} :
          to.y \in Int /\ to.m \in 1..12
    BY Neighbours DEF PickerInv
  <2>3. viewYear' \in Int /\ P!InRange(viewYear)' /\ viewMonth' \in 1..12
    BY <2>1, <2>2 DEF PickerInv, P!InRange
  <2> QED
    BY <1>2, <2>1, <2>3 DEF PickerInv
<1>6. ASSUME NEW back \in BOOLEAN, P!StepYear(back) PROVE PickerInv'
  <2>1. PICK y \in Int : viewYear' = P!Clamped(y)
    <3> DEFINE delta == (IF back THEN -1 ELSE 1) * (IF type = "year" THEN 12 ELSE 1)
    <3>1. viewYear' = P!Clamped(viewYear + delta)
      BY <1>6 DEF P!StepYear
    <3>2. viewYear + delta \in Int
      BY DEF PickerInv
    <3> QED
      BY <3>1, <3>2
  <2>2. UNCHANGED <<type, value, open, clock, now, viewMonth, nights>>
    BY <1>6 DEF P!StepYear
  <2>3. MinYear <= MaxYear
    BY YearsAre DEF PickerInv, P!InRange
  <2>4. viewYear' \in Int /\ P!InRange(viewYear)' /\ viewMonth' \in 1..12
    BY <2>1, <2>2, <2>3, YearsAre DEF PickerInv, P!Clamped, P!InRange
  <2> QED
    BY <1>2, <2>2, <2>4 DEF PickerInv
<1>7. CASE P!Pick
  <2>1. PICK v \in P!Offered : v \in {P!Cut(type, day) : day \in Days} /\ P!Commit(v)
    BY <1>7 DEF P!Pick
  <2>2. PICK day \in Dates : v = P!Cut(type, day)
    BY <2>1, YearsAre
  <2>3. P!Valid(v) /\ v.y \in MinYear..MaxYear /\ v.m \in 0..12
    BY <2>2, CutIs DEF PickerInv, Dates
  <2>4. value' = v /\ open' = FALSE /\ UNCHANGED <<type, clock, now, viewYear, viewMonth, nights>>
    BY <2>1 DEF P!Commit
  <2>5. P!Valid(value')
    BY <2>3, <2>4
  <2> QED
    BY <1>1, <2>3, <2>4, <2>5
<1>8. CASE P!SelectQuickToday
  <2>1. /\ value' = P!Cut(type, clock) /\ open' = FALSE
        /\ UNCHANGED <<type, clock, now, viewYear, viewMonth, nights>>
    BY <1>8 DEF P!SelectQuickToday, P!Commit
  <2>2. /\ P!Valid(P!Cut(type, clock)) /\ P!Cut(type, clock).y \in MinYear..MaxYear
        /\ P!Cut(type, clock).m \in 0..12
    BY CutIs DEF PickerInv, Dates
  <2> QED
    BY <1>1, <2>1, <2>2
<1>9. CASE P!Midnight
  <2>1. /\ nights < MaxNights /\ nights' = nights + 1
        /\ UNCHANGED <<type, value, open, clock, viewYear, viewMonth>>
        /\ P!InRange(now'.y)
        /\ now' = IF now.d < P!DaysInMonth(now.y, now.m) THEN [now EXCEPT !.d = @ + 1]
                  ELSE LET next == P!Following(now.y, now.m) IN [y |-> next.y, m |-> next.m, d |-> 1]
    BY <1>9 DEF P!Midnight
  <2>2. now.y \in Int /\ now.m \in 1..12 /\ now.d \in 1..31 /\ now \in Dates
    BY YearsAre DEF PickerInv, Dates
  <2>3. now' \in Dates
    <3>1. CASE now.d < P!DaysInMonth(now.y, now.m)
      <4>1. P!DaysInMonth(now.y, now.m) \in 28..31
        BY <2>2, DaysBeforeIs
      <4>2. now.d + 1 \in 1..31
        BY <2>2, <3>1, <4>1
      <4>3. now' = [now EXCEPT !.d = now.d + 1]
        BY <2>1, <3>1
      <4> QED
        BY <2>2, <4>2, <4>3 DEF Dates
    <3>2. CASE ~(now.d < P!DaysInMonth(now.y, now.m))
      <4> DEFINE next == P!Following(now.y, now.m)
      <4>1. now' = [y |-> next.y, m |-> next.m, d |-> 1]
        BY <2>1, <3>2
      <4>2. next.y \in Int /\ next.m \in 1..12
        BY <2>2, Neighbours
      <4> HIDE DEF next
      <4>3. next.y \in MinYear..MaxYear
        BY <2>1, <4>1, <4>2, YearsAre DEF P!InRange
      <4> QED
        BY <4>1, <4>2, <4>3 DEF Dates
    <3> QED
      BY <3>1, <3>2
  <2>4. nights' \in 0..MaxNights
    BY <2>1, YearsAre DEF PickerInv
  <2> QED
    BY <2>1, <2>3, <2>4 DEF PickerInv, P!Valid, P!InRange
<1>10. CASE UNCHANGED P!vars
  BY <1>2, <1>10 DEF P!vars, PickerInv, P!InRange
<1> QED
  BY <1>3, <1>4, <1>5, <1>6, <1>7, <1>8, <1>9, <1>10 DEF P!Next

\* The popup of the date picker shows six weeks of the calendar, whichever month of
\* whichever years it was stepped to, and offers no value the traffic views reject
\* (DatePickerControl.vue).
THEOREM PickerAlwaysSound == P!Spec => [](P!TypeOK /\ P!GridIsTheCalendar /\ P!OfferedIsValid)
<1>1. PickerInv => P!TypeOK
  BY DEF PickerInv, P!TypeOK, Dates
<1>2. PickerInv => P!GridIsTheCalendar
  BY GridOfMonth DEF PickerInv, P!GridIsTheCalendar
<1>3. PickerInv => P!OfferedIsValid
  BY OfferedValid DEF PickerInv, P!OfferedIsValid
<1> QED
  BY <1>1, <1>2, <1>3, PickerBegins, PickerKept, PTL DEF P!Spec

-----------------------------------------------------------------------------
\* What the run checks is each page by itself: every behaviour of MCWeb is one of each
\* module, whichever of them moves.
THEOREM WebIsItsParts ==
  MCSpec => D!Spec /\ E!Spec /\ T!Spec /\ H!Spec /\ A!Spec /\ P!Spec /\ G!Spec /\ Q!Spec
<1>1. MCInit => /\ D!Init /\ E!Init /\ T!Init /\ H!Init
                /\ A!Init /\ P!Init /\ G!Init /\ Q!Init
  BY DEF MCInit
<1>2. [MCNext]_vars => /\ [D!Next]_D!vars /\ [E!Next]_E!vars /\ [T!Next]_T!vars /\ [H!Next]_H!vars
                       /\ [A!Next]_A!vars /\ [P!Next]_P!vars /\ [G!Next]_G!vars /\ [Q!Next]_Q!vars
  BY DEF MCNext, vars, dVars, eVars, tVars, hVars, aVars, pVars, gVars, qVars,
     D!vars, E!vars, T!vars, H!vars, A!vars, P!vars, G!vars, Q!vars
<1> QED
  BY <1>1, <1>2, PTL DEF MCSpec, D!Spec, E!Spec, T!Spec, H!Spec, A!Spec, P!Spec, G!Spec, Q!Spec

\* The public key on display, for the specification the run checks.
THEOREM KeysMatchOnThePage == MCSpec => []KeysMatch
<1>1. E!TypeOK /\ E!KeysMatch => KeysMatch
  BY DEF KeysMatch
<1> QED
  BY <1>1, WebIsItsParts, KeysAlwaysMatch, PTL

\* What was saved of a gateway, for the specification the run checks.
THEOREM SavedIsKeptOnThePage == MCSpec => SavedIsKept
<1>1. [E!SavedIsKept]_E!vars => [scene = "egress" => E!SavedIsKept]_vars
  BY DEF E!SavedIsKept, E!vars, vars
<1> QED
  BY <1>1, WebIsItsParts, SavedAlwaysKept, PTL DEF SavedIsKept

\* The sections of the settings, for the specification the run checks.
THEOREM SectionsSaveAloneOnThePage == MCSpec => []SectionsSaveAlone
<1>1. G!TypeOK /\ G!SectionsSaveAlone => SectionsSaveAlone
  BY DEF SectionsSaveAlone
<1> QED
  BY <1>1, WebIsItsParts, SectionsAlwaysSaveAlone, PTL

\* The three tabs of the traffic view, for the specification the run checks.
THEOREM TabsAreTrueOnThePage == MCSpec => []TabsAreTrue
<1>1. /\ T!TypeOK /\ T!OutageShown
      /\ H!TypeOK /\ H!ShownIsSelected
      /\ A!TypeOK /\ A!ShownIsSelected /\ A!ClearedStaysCleared /\ A!ExportIsTheTable
      => TabsAreTrue
  BY DEF TabsAreTrue
<1> QED
  BY <1>1, WebIsItsParts, OutageAlwaysShown, HistoryIsSelected, AppsAreSelected,
     ClearedAlwaysStaysCleared, PTL

\* The date picker, for the specification the run checks.
THEOREM PickerIsSoundOnThePage == MCSpec => []PickerIsSound
<1>1. P!TypeOK /\ P!GridIsTheCalendar /\ P!OfferedIsValid => PickerIsSound
  BY DEF PickerIsSound
<1> QED
  BY <1>1, WebIsItsParts, PickerAlwaysSound, PTL

\* The figures of the overview and the list of gateways, for the specification the run checks.
THEOREM NothingOlderOnThePages == MCSpec => NothingOlder
<1>1. [D!NothingOlder /\ D!NoOtherFormat]_D!vars => D!NothingOlder /\ D!NoOtherFormat
  BY DEF D!vars, D!NothingOlder, D!NoOtherFormat
<1>2. [E!NothingOlder]_E!vars => E!NothingOlder
  BY DEF E!vars, E!NothingOlder
<1>3. D!TypeOK /\ [D!NothingOlder /\ D!NoOtherFormat]_D!vars /\ [E!NothingOlder]_E!vars
      => [/\ scene = "dashboard" => D!TypeOK /\ D!NothingOlder /\ D!NoOtherFormat
          /\ scene = "egress"    => E!NothingOlder]_vars
  BY <1>1, <1>2
<1>4. MCSpec => []D!TypeOK /\ [][D!NothingOlder /\ D!NoOtherFormat]_D!vars
  BY WebIsItsParts, DashboardNeverOlder, PTL
<1>5. MCSpec => [][E!NothingOlder]_E!vars
  BY WebIsItsParts, ListNeverOlder, PTL
<1> QED
  BY <1>3, <1>4, <1>5, PTL DEF NothingOlder
=============================================================================
