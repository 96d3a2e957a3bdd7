-------------------------- MODULE ProxyAccounting --------------------------
(***************************************************************************)
(* internal/traffic: how the tracker turns the cumulative counters of the  *)
(* sing-box core into period totals and daily history, and how it makes    *)
(* them durable.                                                           *)
(*                                                                         *)
(* The core restarts on its own schedule and its counters restart with it, *)
(* so every reading is paired with the systemd invocation identifier (the  *)
(* "generation") read before and after it.  Two goroutines sample: the     *)
(* poll loop of Run and captureTraffic on the HTTP mutation paths.  Saves  *)
(* run concurrently with sampling, in three steps: snapshot, one SQLite    *)
(* transaction, subtraction of what was saved; then the JSON mirror.       *)
(*                                                                         *)
(* The daily and the hourly history are kept by the same code and saved in *)
(* the same transaction; one table stands for both.                        *)
(***************************************************************************)
EXTENDS Naturals, FiniteSetsExt

CONSTANTS
  Samplers,         \* goroutines that call Tracker.Sample
  Nobody,           \* "sampleMu is free"
  MaxGeneration,    \* bound: core starts considered
  MaxBytes,         \* bound: bytes relayed, all generations and both directions
  MaxDay,           \* bound: days considered
  ReliableIdentity  \* TRUE: the invocation link is readable whenever the core
                    \* runs, and the core does not start between the first
                    \* reading of the link and the reading of the counters

ASSUME SamplersAssumption == Nobody \notin Samplers
ASSUME BoundsAssumption == /\ MaxGeneration \in Nat \ {0}
                           /\ MaxBytes \in Nat
                           /\ MaxDay \in Nat \ {0}
ASSUME IdentityAssumption == ReliableIdentity \in BOOLEAN

Directions  == {"upload", "download"}
Generations == 1..MaxGeneration
NoGeneration == 0          \* the empty generation string
Days        == 1..MaxDay
Counts      == [Directions -> Nat]
Nothing     == [dir \in Directions |-> 0]
NoBytes     == [d \in Days |-> 0]

VARIABLES
  up,          \* the core process runs
  current,     \* generation of the running (or last) core process
  relayed,     \* history: bytes every generation has relayed, per direction
  sampleMu,    \* holder of Tracker.sampleMu
  reading,     \* the Sample call of every sampler
  state,       \* Tracker.state, in memory
  pending,     \* Tracker.pendingHistory: bytes per day, days marked partial
  lastDay,     \* day of Tracker.historyLastSample
  today,       \* the panel's clock
  saving,      \* the persist call that holds persistMu
  db,          \* traffic.db: checkpoint, daily table, last_sample_at
  mirror       \* state.json: its totals

core    == <<up, current, relayed>>
memory  == <<sampleMu, reading, state, pending, lastDay>>
disk    == <<db, mirror>>
vars    == <<up, current, relayed, sampleMu, reading, state, pending, lastDay,
             today, saving, db, mirror>>

(***************************************************************************)
(* Tracker.state.  The fields after generation are history variables:      *)
(* base is the generation the baseline was read from, credited the bytes   *)
(* of each generation already in total, counted the bytes given to each    *)
(* day, and blind records that a baseline was taken anonymously before any *)
(* generation was on record.  They are saved and restored with the rest.   *)
(***************************************************************************)
FreshState == [total |-> Nothing, last |-> Nothing, generation |-> NoGeneration,
               base |-> NoGeneration, credited |-> [g \in Generations |-> Nothing],
               counted |-> NoBytes, blind |-> FALSE]

NotReading == [pc |-> "idle", before |-> NoGeneration, source |-> NoGeneration,
               count |-> Nothing]

NotSaving == [pc |-> "idle", state |-> FreshState, bytes |-> NoBytes,
              partial |-> {}, lastDay |-> 1]

Init ==
  /\ up = FALSE
  /\ current = NoGeneration
  /\ relayed = [g \in Generations |-> Nothing]
  /\ sampleMu = Nobody
  /\ reading = [a \in Samplers |-> NotReading]
  /\ state = FreshState
  /\ pending = [bytes |-> NoBytes, partial |-> {}]
  /\ lastDay = 1
  /\ today = 1
  /\ saving = NotSaving
  /\ db = [state |-> FreshState, bytes |-> NoBytes, partial |-> {}, lastDay |-> 1]
  /\ mirror = Nothing

-----------------------------------------------------------------------------
(* The core, and the clock *)

\* A new process has a new invocation identifier and counters at zero.
CoreStart ==
  /\ ~up
  /\ current < MaxGeneration
  /\ ReliableIdentity =>
       \A a \in Samplers : ~(reading[a].pc = "before" /\ reading[a].before = NoGeneration)
  /\ up' = TRUE
  /\ current' = current + 1
  /\ UNCHANGED <<relayed, memory, today, saving, disk>>

CoreStop ==
  /\ up
  /\ up' = FALSE
  /\ UNCHANGED <<current, relayed, memory, today, saving, disk>>

RelayedBytes ==
  MapThenSumSet(LAMBDA g : relayed[g]["upload"] + relayed[g]["download"], Generations)

Relay(dir) ==
  /\ up
  /\ RelayedBytes < MaxBytes
  /\ relayed' = [relayed EXCEPT ![current][dir] = @ + 1]
  /\ UNCHANGED <<up, current, memory, today, saving, disk>>

Midnight ==
  /\ today < MaxDay
  /\ today' = today + 1
  /\ UNCHANGED <<core, memory, saving, disk>>

-----------------------------------------------------------------------------
(* Tracker.Sample *)

\* What readCoreGeneration may return: systemd removes the link of a stopped
\* unit, and any other error of the readlink also reads as "".
ReadableGenerations ==
  IF up THEN IF ReliableIdentity THEN {current} ELSE {current, NoGeneration}
        ELSE {NoGeneration}

\* A defect: Sample without sampleMu.
SampleBegin_Unserialised(a) ==
  /\ reading[a].pc = "idle"
  /\ sampleMu' = a
  /\ \E g \in ReadableGenerations :
       reading' = [reading EXCEPT ![a] = [pc |-> "before", before |-> g,
                                         source |-> NoGeneration, count |-> Nothing]]
  /\ UNCHANGED <<core, state, pending, lastDay, today, saving, disk>>

SampleBegin(a) ==
  /\ reading[a].pc = "idle"
  /\ sampleMu = Nobody
  /\ sampleMu' = a
  /\ \E g \in ReadableGenerations :
       reading' = [reading EXCEPT ![a] = [pc |-> "before", before |-> g,
                                         source |-> NoGeneration, count |-> Nothing]]
  /\ UNCHANGED <<core, state, pending, lastDay, today, saving, disk>>

SampleRead(a) ==
  /\ reading[a].pc = "before"
  /\ up
  /\ reading' = [reading EXCEPT ![a] = [pc |-> "read", before |-> @.before,
                                         source |-> current, count |-> relayed[current]]]
  /\ UNCHANGED <<core, sampleMu, state, pending, lastDay, today, saving, disk>>

\* The core is down, or the Clash API does not answer: ErrSampleUnavailable.
SampleUnavailable(a) ==
  /\ reading[a].pc = "before"
  /\ reading' = [reading EXCEPT ![a] = NotReading]
  /\ sampleMu' = Nobody
  /\ UNCHANGED <<core, state, pending, lastDay, today, saving, disk>>

\* A defect: generations are not compared.
Restarted_CountersOnly(count, generation) ==
  \E dir \in Directions : count[dir] < state.last[dir]

\* A counter that moved backwards in either direction, or a generation other
\* than the one on record, means that the counters started again from zero.
Restarted(count, generation) ==
  \/ \E dir \in Directions : count[dir] < state.last[dir]
  \/ generation # NoGeneration /\ state.generation # NoGeneration
       /\ generation # state.generation

Delta(count, generation) ==
  IF Restarted(count, generation)
  THEN count
  ELSE [dir \in Directions |-> count[dir] - state.last[dir]]

Credited(source, delta) ==
  [state.credited EXCEPT ![source] = [dir \in Directions |-> @[dir] + delta[dir]]]

Applied(source, count, generation, bytes) ==
  LET delta == Delta(count, generation) IN
  [total      |-> [dir \in Directions |-> state.total[dir] + delta[dir]],
   last       |-> count,
   generation |-> IF generation = NoGeneration THEN state.generation ELSE generation,
   base       |-> source,
   credited   |-> Credited(source, delta),
   counted    |-> [state.counted EXCEPT ![today] = @ + bytes],
   blind      |-> state.blind \/ (generation = NoGeneration
                                    /\ state.generation = NoGeneration)]

\* recordHistory: a gap of more than five seconds since the last sample leaves
\* both its days partial, as do a core restart and the day of installation.
Recorded(bytes, gap, restarted) ==
  [bytes   |-> [pending.bytes EXCEPT ![today] = @ + bytes],
   partial |-> pending.partial
                 \cup (IF gap \/ restarted \/ today = 1 THEN {today} ELSE {})
                 \cup (IF gap THEN {lastDay} ELSE {})]

\* Two known generations that differ reject the reading; an unknown one lets it
\* through anonymously.
SampleRejected(a, after) ==
  /\ NoGeneration \notin {reading[a].before, after}
  /\ reading[a].before # after
  /\ UNCHANGED <<state, pending, lastDay>>

SampleApplied(a, after) ==
  /\ NoGeneration \in {reading[a].before, after} \/ reading[a].before = after
  /\ LET r          == reading[a]
         generation == IF r.before = after THEN after ELSE NoGeneration
         delta      == Delta(r.count, generation)
         bytes      == delta["upload"] + delta["download"]
     IN /\ state' = Applied(r.source, r.count, generation, bytes)
        /\ \E gap \in BOOLEAN :
             pending' = Recorded(bytes, gap, Restarted(r.count, generation))
  /\ lastDay' = today

\* The second reading of the generation, the verdict, and the update under t.mu
\* are one step: sampleMu keeps every other writer of the state out.
SampleFinish(a) ==
  /\ reading[a].pc = "read"
  /\ \E after \in ReadableGenerations : SampleRejected(a, after) \/ SampleApplied(a, after)
  /\ reading' = [reading EXCEPT ![a] = NotReading]
  /\ sampleMu' = Nobody
  /\ UNCHANGED <<core, today, saving, disk>>

-----------------------------------------------------------------------------
(* Tracker.persist, called by timers, handlers and samples under persistMu *)

PersistSnapshot ==
  /\ saving.pc = "idle"
  /\ saving' = [pc |-> "snapshot", state |-> state, bytes |-> pending.bytes,
                partial |-> pending.partial, lastDay |-> lastDay]
  /\ UNCHANGED <<core, memory, today, disk>>

\* A defect: rows are replaced instead of added to.
PersistCommit_Replaces ==
  /\ saving.pc = "snapshot"
  /\ db' = [state |-> saving.state, bytes |-> saving.bytes,
            partial |-> db.partial \cup saving.partial, lastDay |-> saving.lastDay]
  /\ saving' = [saving EXCEPT !.pc = "committed"]
  /\ UNCHANGED <<core, memory, today, mirror>>

\* historyStore.save: one transaction adds the pending rows and replaces the
\* checkpoint.
PersistCommit ==
  /\ saving.pc = "snapshot"
  /\ db' = [state   |-> saving.state,
            bytes   |-> [d \in Days |-> db.bytes[d] + saving.bytes[d]],
            partial |-> db.partial \cup saving.partial,
            lastDay |-> saving.lastDay]
  /\ saving' = [saving EXCEPT !.pc = "committed"]
  /\ UNCHANGED <<core, memory, today, mirror>>

\* A defect: the mirror is saved although the transaction failed.
PersistFail_MirrorsAnyway ==
  /\ saving.pc = "snapshot"
  /\ mirror' = saving.state.total
  /\ saving' = NotSaving
  /\ UNCHANGED <<core, memory, today, db>>

\* The transaction is rolled back; everything stays pending.
PersistFail ==
  /\ saving.pc = "snapshot"
  /\ saving' = NotSaving
  /\ UNCHANGED <<core, memory, today, disk>>

\* Defects: a save clears the rows, or forgets a day once its bytes are saved.
Unsaved_Cleared == [bytes |-> NoBytes, partial |-> {}]

Unsaved_IgnoresMarks ==
  LET bytes == [d \in Days |-> pending.bytes[d] - saving.bytes[d]] IN
  [bytes |-> bytes, partial |-> {d \in pending.partial : bytes[d] # 0}]

\* What was saved leaves the pending rows; samples may have added to them since.
Unsaved ==
  LET bytes == [d \in Days |-> pending.bytes[d] - saving.bytes[d]] IN
  [bytes   |-> bytes,
   partial |-> {d \in pending.partial : ~(bytes[d] = 0 /\ d \in saving.partial)}]

\* The JSON mirror is written last, and may fail on its own.
PersistFinish ==
  /\ saving.pc = "committed"
  /\ pending' = Unsaved
  /\ mirror' \in {mirror, saving.state.total}
  /\ saving' = NotSaving
  /\ UNCHANGED <<core, sampleMu, reading, state, lastDay, today, db>>

\* The panel dies and is opened again on the checkpoint; the core lives on.
PanelRestart ==
  /\ sampleMu' = Nobody
  /\ reading' = [a \in Samplers |-> NotReading]
  /\ state' = db.state
  /\ pending' = [bytes |-> NoBytes, partial |-> {}]
  /\ lastDay' = db.lastDay
  /\ saving' = NotSaving
  /\ UNCHANGED <<core, today, disk>>

-----------------------------------------------------------------------------
Sample(a) ==
  \/ SampleBegin(a)
  \/ SampleRead(a)
  \/ SampleUnavailable(a)
  \/ SampleFinish(a)

Next ==
  \/ CoreStart
  \/ CoreStop
  \/ \E dir \in Directions : Relay(dir)
  \/ Midnight
  \/ \E a \in Samplers : Sample(a)
  \/ PersistSnapshot
  \/ PersistCommit
  \/ PersistFail
  \/ PersistFinish
  \/ PanelRestart

Spec == Init /\ [][Next]_vars

-----------------------------------------------------------------------------
(* Properties *)

StateType ==
  [total : Counts, last : Counts, generation : {NoGeneration} \cup Generations,
   base : {NoGeneration} \cup Generations, credited : [Generations -> Counts],
   counted : [Days -> Nat], blind : BOOLEAN]

\* Every variable keeps the shape the Go types and the SQLite tables give it;
\* in particular no pending row ever goes negative in persist.
TypeOK ==
  /\ up \in BOOLEAN
  /\ current \in {NoGeneration} \cup Generations
  /\ up => current # NoGeneration
  /\ relayed \in [Generations -> Counts]
  /\ sampleMu \in Samplers \cup {Nobody}
  /\ reading \in [Samplers ->
       [pc : {"idle", "before", "read"},
        before : {NoGeneration} \cup Generations,
        source : {NoGeneration} \cup Generations,
        count : Counts]]
  /\ \A a \in Samplers : reading[a].pc = "read" => reading[a].source \in Generations
  /\ state \in StateType
  /\ pending \in [bytes : [Days -> Nat], partial : SUBSET Days]
  /\ lastDay \in Days
  /\ today \in Days
  /\ saving \in [pc : {"idle", "snapshot", "committed"},
                 state : StateType, bytes : [Days -> Nat],
                 partial : SUBSET Days, lastDay : Days]
  /\ db \in [state : StateType, bytes : [Days -> Nat],
             partial : SUBSET Days, lastDay : Days]
  /\ mirror \in Counts

\* No byte the core relayed is added to the period totals twice: neither by two
\* samplers, nor around a core restart, nor after a panel restart (Sample's
\* comment, tracker.go:164-168).
NoByteCountedTwice ==
  \A g \in Generations, dir \in Directions :
    /\ state.credited[g][dir] <= relayed[g][dir]
    /\ db.state.credited[g][dir] <= relayed[g][dir]

\* Once the generation of the baseline is known, everything that generation had
\* relayed when it was read is in the totals: a restart whose new counters have
\* already overtaken the old baseline loses nothing (tracker.go:244-263).
NothingSkipped ==
  state.generation = state.base /\ state.base # NoGeneration /\ ~state.blind =>
    state.credited[state.base] = state.last

\* Bytes committed but not yet subtracted from the pending rows.
InFlight == IF saving.pc = "committed" THEN saving.bytes ELSE NoBytes

\* The history an API query adds up (table plus pending rows, less what is
\* being moved) is exactly what samples gave to each day; the table alone is
\* exactly what they had given when its checkpoint was taken (tracker.go:409-511).
HistoryExact ==
  \A d \in Days :
    /\ db.bytes[d] + pending.bytes[d] = state.counted[d] + InFlight[d]
    /\ db.bytes[d] = db.state.counted[d]

\* The JSON mirror an old administrative command reads is never ahead of the
\* database a restarted panel resumes from (history.go:84-85).
MirrorNeverAhead ==
  \A dir \in Directions : mirror[dir] <= db.state.total[dir]

\* A day once marked partial stays partial while the panel lives, whatever is
\* sampled between the snapshot of a save and its subtraction (tracker.go:460-470).
PartialMarks == db.partial \cup pending.partial
PartialMarkSurvives == [][PanelRestart \/ PartialMarks \subseteq PartialMarks']_vars

\* The daily history implements the ledger: recorded once, saved without
\* change, and after a crash exactly what had been saved.
Ledger == INSTANCE UsageLedger WITH
            live    <- [d \in Days |-> db.bytes[d] + pending.bytes[d] - InFlight[d]],
            durable <- db.bytes
LedgerSpec == Ledger!LedgerSpec
=============================================================================
