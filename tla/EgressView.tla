---------------------------- MODULE EgressView ----------------------------
(* The gateways page, EgressView.vue: its list is polled, its forms are       *)
(* copies of list entries, its keys come from the server, and every change   *)
(* sends the whole gateway back.                                             *)
(* One gateway stands for the list: "ver" is its state, "field" the value of *)
(* a field the user may edit, numbered in the order the user thought of it.  *)
EXTENDS Naturals

CONSTANTS Keys,      \* private keys; a key also names its public key
          MaxVer,    \* bound: changes of the list
          MaxField   \* bound: values the user gives the field

VARIABLES
  server,      \* what /api/egress returns now: [ver, field]
  items,       \* the list shown, or Nothing
  loads,       \* origin -> the load() it awaits, or Idle
  task,        \* run(): the change it awaits, or Nothing
  late,        \* the field of a change given up before it was served, 0 for none
  form,        \* the form: [field, privateKey, editing], or Nothing
  publicKey,   \* the public key shown, 0 for none
  keys,        \* the derive() or generate() that still counts, or Nothing
  dialog,      \* the calibration dialog: [phase, ver]
  failure,     \* poll-status: the last load failed
  acked, kept, \* history: newest state and newest field the user was told are saved
  stands       \* history: the newest such field, unless it was overwritten since

vars == <<server, items, loads, task, late, form, publicKey, keys, dialog, failure, acked, kept, stands>>

Nothing == [none |-> TRUE]
Idle    == [phase |-> "idle"]
Origins == {"poll", "run", "calibrate"}
NewLoad == [phase |-> "sent", latest |-> TRUE, snap |-> Nothing]
Later(a, b) == IF a > b THEN a ELSE b

busy    == task # Nothing \/ loads["run"] # Idle
pending == \E o \in Origins : loads[o] # Idle

\* ++listRevision
Superseded(ls) == [o \in Origins |-> IF ls[o] = Idle THEN Idle ELSE [ls[o] EXCEPT !.latest = FALSE]]
Loading(o) == [Superseded(loads) EXCEPT ![o] = NewLoad]

\* What a change leaves on the server; a field of 0 is one the change does not send.
Written(field) == [ver |-> server.ver + 1, field |-> IF field = 0 THEN server.field ELSE field]

Init ==
  /\ server = [ver |-> 0, field |-> 1] /\ items = Nothing
  /\ loads = [o \in Origins |-> IF o = "poll" THEN NewLoad ELSE Idle]   \* onMounted(refresh)
  /\ task = Nothing /\ late = 0 /\ form = Nothing /\ publicKey = 0 /\ keys = Nothing
  /\ dialog = [phase |-> "closed", ver |-> 0] /\ failure = FALSE
  /\ acked = 0 /\ kept = 1 /\ stands = 1

-----------------------------------------------------------------------------
(* load() and what supersedes it. *)

\* Usage counters and other clients change what the list shows.
ServerChanges ==
  /\ server.ver < MaxVer /\ server' = Written(0)
  /\ UNCHANGED <<items, loads, task, late, form, publicKey, keys, dialog, failure, acked, kept, stands>>

Answer(o) ==
  /\ loads[o].phase = "sent"
  /\ loads' = [loads EXCEPT ![o].phase = "answered", ![o].snap = server]
  /\ UNCHANGED <<server, items, task, late, form, publicKey, keys, dialog, failure, acked, kept, stands>>

Arrive(o) ==
  /\ loads[o].phase = "answered"
  /\ loads' = [loads EXCEPT ![o] = Idle]
  /\ IF loads[o].latest THEN items' = loads[o].snap /\ failure' = FALSE
                        ELSE UNCHANGED <<items, failure>>
  /\ UNCHANGED <<server, task, late, form, publicKey, keys, dialog, acked, kept, stands>>

LoadFails(o) ==
  /\ loads[o] # Idle
  /\ loads' = [loads EXCEPT ![o] = Idle]
  /\ failure' = (failure \/ loads[o].latest)
  /\ UNCHANGED <<server, items, task, late, form, publicKey, keys, dialog, acked, kept, stands>>

\* The five-second timer leaves an open form, a dialog and a change alone.
Poll ==
  /\ ~pending /\ ~busy /\ form = Nothing /\ dialog.phase = "closed"
  /\ loads' = Loading("poll")
  /\ UNCHANGED <<server, items, task, late, form, publicKey, keys, dialog, failure, acked, kept, stands>>

-----------------------------------------------------------------------------
(* run(): save, toggle, and the changes that send no field. *)

Begin(kind, field) ==
  /\ ~busy
  /\ task' = [kind |-> kind, field |-> field, phase |-> "sent", ver |-> 0]
  /\ loads' = Superseded(loads)

\* save: the form as it is when the button is pressed.
Save ==
  /\ form # Nothing
  /\ IF form.editing THEN Begin("save", form.field) ELSE Begin("create", 0)
  /\ UNCHANGED <<server, items, late, form, publicKey, keys, dialog, failure, acked, kept, stands>>

\* toggle sends the list's copy of the gateway, its switch turned.
Toggle ==
  /\ items # Nothing /\ form = Nothing /\ dialog.phase = "closed"
  /\ Begin("toggle", items.field)
  /\ UNCHANGED <<server, items, late, form, publicKey, keys, dialog, failure, acked, kept, stands>>

\* remove, detect and reset name the gateway and send nothing of it.
Touch ==
  /\ items # Nothing /\ form = Nothing /\ dialog.phase = "closed"
  /\ Begin("touch", 0)
  /\ UNCHANGED <<server, items, late, form, publicKey, keys, dialog, failure, acked, kept, stands>>

TaskServed ==
  /\ task # Nothing /\ task.phase = "sent" /\ server.ver < MaxVer
  /\ server' = Written(task.field)
  /\ task' = [task EXCEPT !.phase = "served", !.ver = server.ver + 1]
  /\ stands' = IF task.field # 0 /\ task.field < stands THEN task.field ELSE stands
  /\ UNCHANGED <<items, loads, late, form, publicKey, keys, dialog, failure, acked, kept>>

\* A defect: the list is not loaded after a change.
TaskDone_NoLoad ==
  /\ task # Nothing /\ task.phase = "served"
  /\ task' = Nothing
  /\ acked' = Later(acked, task.ver)
  /\ kept' = Later(kept, task.field)
  /\ stands' = IF server.field = task.field THEN Later(stands, task.field) ELSE stands
  /\ IF task.kind \in {"save", "create"}
       THEN form' = Nothing /\ publicKey' = 0 /\ keys' = Nothing
       ELSE UNCHANGED <<form, publicKey, keys>>
  /\ UNCHANGED <<server, items, loads, late, dialog, failure>>

\* The change is confirmed: the user is told, a saved form is closed, the list loaded.
TaskDone ==
  /\ task # Nothing /\ task.phase = "served"
  /\ task' = Nothing
  /\ acked' = Later(acked, task.ver)
  /\ kept' = Later(kept, task.field)
  /\ stands' = IF server.field = task.field THEN Later(stands, task.field) ELSE stands
  /\ IF task.kind \in {"save", "create"}
       THEN form' = Nothing /\ publicKey' = 0 /\ keys' = Nothing
       ELSE UNCHANGED <<form, publicKey, keys>>
  /\ loads' = Loading("run")
  /\ UNCHANGED <<server, items, late, dialog, failure>>

\* An error or no answer.  A request that was cut off may still be on its way to the
\* server: it is served later, or never.
TaskFails ==
  /\ task # Nothing /\ task' = Nothing
  /\ late' \in {late} \cup (IF task.phase = "sent" THEN {task.field} ELSE {})
  /\ UNCHANGED <<server, items, loads, form, publicKey, keys, dialog, failure, acked, kept, stands>>

LateServed ==
  /\ late # 0 /\ server.ver < MaxVer
  /\ server' = Written(late) /\ late' = 0
  /\ stands' = IF late < stands THEN late ELSE stands
  /\ UNCHANGED <<items, loads, task, form, publicKey, keys, dialog, failure, acked, kept>>

-----------------------------------------------------------------------------
(* The form and its keys. *)

\* edit(): a copy of the list's entry, a load in flight will not replace the list.
Edit(k) ==
  /\ items # Nothing /\ ~busy /\ form = Nothing /\ dialog.phase = "closed"
  /\ form' = [field |-> items.field, privateKey |-> k, editing |-> TRUE]
  /\ publicKey' = k /\ keys' = Nothing
  /\ loads' = Superseded(loads)
  /\ UNCHANGED <<server, items, task, late, dialog, failure, acked, kept, stands>>

\* create(): an empty form, whose keys are asked for at once.  The button of the page's
\* head is disabled while busy; that of an empty list, which is not, has no part here:
\* the list always holds the gateway.
Create ==
  /\ ~busy /\ form = Nothing /\ dialog.phase = "closed"
  /\ form' = [field |-> 0, privateKey |-> 0, editing |-> FALSE]
  /\ publicKey' = 0 /\ keys' = [kind |-> "generate", of |-> 0]
  /\ loads' = Superseded(loads)
  /\ UNCHANGED <<server, items, task, late, dialog, failure, acked, kept, stands>>

\* close(): cancelled, or dismissed even while it is being saved.
Close ==
  /\ form # Nothing /\ form' = Nothing /\ publicKey' = 0 /\ keys' = Nothing
  /\ UNCHANGED <<server, items, loads, task, late, dialog, failure, acked, kept, stands>>

\* The user gives the field a value of its own.
TypeField ==
  /\ form # Nothing /\ form.editing
  /\ Later(form.field, Later(server.field, kept)) < MaxField
  /\ form' = [form EXCEPT !.field = Later(@, Later(server.field, kept)) + 1]
  /\ UNCHANGED <<server, items, loads, task, late, publicKey, keys, dialog, failure, acked, kept, stands>>

\* A defect: the public key of what was there before stays.
TypeKey_KeepsShown(k) ==
  /\ form # Nothing /\ form' = [form EXCEPT !.privateKey = k]
  /\ keys' = Nothing
  /\ UNCHANGED <<server, items, loads, task, late, publicKey, dialog, failure, acked, kept, stands>>

\* Typing in the key's field: the shown public key goes, an awaited one no longer counts.
TypeKey(k) ==
  /\ form # Nothing /\ form' = [form EXCEPT !.privateKey = k]
  /\ publicKey' = 0 /\ keys' = Nothing
  /\ UNCHANGED <<server, items, loads, task, late, dialog, failure, acked, kept, stands>>

\* derive(): leaving the field.
Derive ==
  /\ form # Nothing /\ publicKey' = 0
  /\ keys' = IF form.privateKey = 0 THEN Nothing ELSE [kind |-> "derive", of |-> form.privateKey]
  /\ UNCHANGED <<server, items, loads, task, late, form, dialog, failure, acked, kept, stands>>

\* generate(): what is shown stays until the answer.
Generate ==
  /\ form # Nothing /\ keys' = [kind |-> "generate", of |-> 0]
  /\ UNCHANGED <<server, items, loads, task, late, form, publicKey, dialog, failure, acked, kept, stands>>

\* An answer that still counts is used, if its form and, for derive(), its key are still there.
KeysArrive ==
  /\ keys # Nothing /\ keys' = Nothing
  /\ \/ /\ keys.kind = "derive"
        /\ publicKey' = IF form # Nothing /\ form.privateKey = keys.of THEN keys.of ELSE publicKey
        /\ UNCHANGED form
     \/ /\ keys.kind = "generate"
        /\ \E k \in Keys : IF form = Nothing THEN UNCHANGED <<form, publicKey>>
             ELSE form' = [form EXCEPT !.privateKey = k] /\ publicKey' = k
  /\ UNCHANGED <<server, items, loads, task, late, dialog, failure, acked, kept, stands>>

KeysFail ==
  /\ keys # Nothing /\ keys' = Nothing
  /\ UNCHANGED <<server, items, loads, task, late, form, publicKey, dialog, failure, acked, kept, stands>>

-----------------------------------------------------------------------------
(* The calibration dialog. *)

CalibrateOpen ==
  /\ items # Nothing /\ ~busy /\ form = Nothing /\ dialog.phase = "closed"
  /\ dialog' = [phase |-> "open", ver |-> 0]
  /\ UNCHANGED <<server, items, loads, task, late, form, publicKey, keys, failure, acked, kept, stands>>

CalibrateSubmit ==
  /\ dialog.phase = "open" /\ server.ver < MaxVer
  /\ server' = Written(0)
  /\ dialog' = [phase |-> "served", ver |-> server.ver + 1]
  /\ UNCHANGED <<items, loads, task, late, form, publicKey, keys, failure, acked, kept, stands>>

\* Dismissed, answered with an error, or closed before the answer came.
CalibrateClose ==
  /\ dialog.phase # "closed" /\ dialog' = [phase |-> "closed", ver |-> 0]
  /\ UNCHANGED <<server, items, loads, task, late, form, publicKey, keys, failure, acked, kept, stands>>

Calibrated ==
  /\ dialog.phase = "served" /\ loads["calibrate"] = Idle
  /\ dialog' = [phase |-> "closed", ver |-> 0]
  /\ acked' = Later(acked, dialog.ver)
  /\ loads' = Loading("calibrate")
  /\ UNCHANGED <<server, items, task, late, form, publicKey, keys, failure, kept, stands>>

Next ==
  \/ ServerChanges \/ Poll
  \/ \E o \in Origins : Answer(o) \/ Arrive(o) \/ LoadFails(o)
  \/ Save \/ Toggle \/ Touch \/ TaskServed \/ TaskDone \/ TaskFails \/ LateServed
  \/ \E k \in Keys : Edit(k)
  \/ \E k \in Keys \cup {0} : TypeKey(k)
  \/ Create \/ Close \/ TypeField \/ Derive \/ Generate \/ KeysArrive \/ KeysFail
  \/ CalibrateOpen \/ CalibrateSubmit \/ CalibrateClose \/ Calibrated

Spec == Init /\ [][Next]_vars

-----------------------------------------------------------------------------
Lists == [ver : 0..MaxVer, field : 1..MaxField]

TypeOK ==
  /\ server \in Lists /\ items \in Lists \cup {Nothing}
  /\ \A o \in Origins : loads[o] = Idle \/ loads[o].phase \in {"sent", "answered"}
  /\ form = Nothing \/ form \in [field : 0..MaxField, privateKey : Keys \cup {0}, editing : BOOLEAN]
  /\ publicKey \in Keys \cup {0} /\ failure \in BOOLEAN /\ late \in 0..MaxField
  /\ acked \in 0..MaxVer /\ {kept, stands} \subseteq 1..MaxField

\* A list older than a change the user was told is made never replaces the one
\* shown, and the list never goes back, however answers to overlapping loads are ordered.
NothingOlder ==
  items' # items => /\ items'.ver >= acked
                    /\ items # Nothing => items'.ver >= items.ver

\* The public key on display is that of the private key in the form, whatever
\* was typed, generated, derived, closed and opened while keys were on their way.
KeysMatch == publicKey # 0 => form # Nothing /\ publicKey = form.privateKey

\* A change overwrites a value the user was told is saved with an older one only
\* when it starts from a list the page knows it failed to reload, or when it is one
\* the page had given up, served late.
SavedIsKept ==
  server'.field # server.field /\ server'.field < stands => failure \/ late' # late

\* A later change of something else does not rewrite what was saved.
SaveSurvives == server.field >= kept

=============================================================================
