--------------------------- MODULE AppAttribution ---------------------------
(* internal/traffic/apps.go: the bytes a sample adds to the proxy total are    *)
(* given to the applications of the connections open at that moment, the rest  *)
(* to "unattributed", and saved with the total.  How a sample is taken and a   *)
(* restart of the core is told is in ProxyAccounting: a sample is one step     *)
(* here, of a core whose identity can be read and whose answer is one reading   *)
(* of its total and of its connections.  The rows of one hour stand for both    *)
(* tables, one direction for both.                                              *)
EXTENDS Integers, FiniteSetsExt, Functions

CONSTANTS
  Apps,          \* numbers of the applications, in the order of their identifiers
  MaxConnections,\* bound: connections, of all core processes
  MaxGeneration, \* bound: core processes
  MaxBytes,      \* bound: bytes relayed
  MaxRows        \* maxDailyAppDomains

Connections == 1..MaxConnections

AppsAssumption == /\ Apps \subseteq Nat \ {0} /\ IsFiniteSet(Apps) /\ MaxRows \in Nat
                  /\ MaxGeneration \in Nat /\ MaxBytes \in Nat

Other == 0
Unattributed == -1
Rows == Apps \cup {Other, Unattributed}
NoRows == [row \in Rows |-> 0]

VARIABLES
  generation,  \* of the core process that runs
  count,       \* bytes that process has relayed
  open,        \* its connections: the bytes of each
  app,         \* the application of every connection there was
  relayed,     \* history: bytes of each application, of all processes
  state,       \* Tracker.state: total, baseline, generation of the baseline
  active,      \* Tracker.activeConns: bytes of each at the last sample
  seeded,      \* Tracker.connsSeeded
  pending,     \* Tracker.pendingAppHistory
  saving,      \* the save that holds persistMu
  db,          \* traffic.db: the checkpoint of the state, and the rows
  from         \* history: the total from which the rows count

core == <<generation, count, open, app, relayed>>
vars == <<core, state, active, seeded, pending, saving, db, from>>

NoConnections == [c \in {} |-> 0]

\* "cleared" is history: what the clears deleted of the rows of each application.
FreshState == [total |-> 0, last |-> 0, generation |-> 0, cleared |-> NoRows]
NotSaving == [pc |-> "idle", state |-> FreshState, rows |-> NoRows]

Plus(f, g) == [row \in Rows |-> f[row] + g[row]]
Sum(f) == FoldFunction(+, 0, f)

Init ==
  /\ generation = 1 /\ count = 0 /\ open = NoConnections /\ app = NoConnections /\ relayed = NoRows
  /\ state = FreshState /\ active = NoConnections /\ seeded = FALSE /\ pending = NoRows
  /\ saving = NotSaving /\ db = [state |-> FreshState, rows |-> NoRows] /\ from = 0
-----------------------------------------------------------------------------
(* The core *)

Open(c, a) ==
  /\ c = Cardinality(DOMAIN app) + 1
  /\ app' = [d \in DOMAIN app \cup {c} |-> IF d = c THEN a ELSE app[d]]
  /\ open' = [d \in DOMAIN open \cup {c} |-> IF d = c THEN 0 ELSE open[d]]
  /\ UNCHANGED <<generation, count, relayed, state, active, seeded, pending, saving, db, from>>

Relay(c) ==
  /\ c \in DOMAIN open /\ Sum(relayed) < MaxBytes
  /\ open' = [open EXCEPT ![c] = @ + 1]
  /\ count' = count + 1
  /\ relayed' = [relayed EXCEPT ![app[c]] = @ + 1]
  /\ UNCHANGED <<generation, app, state, active, seeded, pending, saving, db, from>>

Close(c) ==
  /\ c \in DOMAIN open
  /\ open' = Restrict(open, DOMAIN open \ {c})
  /\ UNCHANGED <<generation, count, app, relayed, state, active, seeded, pending, saving, db, from>>

CoreRestart ==
  /\ generation < MaxGeneration
  /\ generation' = generation + 1
  /\ count' = 0 /\ open' = NoConnections
  /\ UNCHANGED <<app, relayed, state, active, seeded, pending, saving, db, from>>
-----------------------------------------------------------------------------
(* The tracker *)

\* The generation of the baseline is empty, 0, before the first sample.
Restarted == count < state.last \/ (state.generation # 0 /\ generation # state.generation)

Delta == IF Restarted THEN count ELSE count - state.last

\* A defect: a panel that begins anew takes every connection for a new one.
SeedOnly_Never == FALSE

\* The first sample of a panel that found the core running only notes the connections.
SeedOnly == ~seeded /\ state.last > 0 /\ ~Restarted

\* What a connection has relayed since the last sample that saw it.
Since(c) ==
  CASE SeedOnly -> 0
    [] ~SeedOnly /\ ~Restarted /\ c \in DOMAIN active /\ open[c] >= active[c] -> open[c] - active[c]
    [] OTHER -> open[c]

\* recordConnections, and the part of applySampleWithConns it is called from.
Sample ==
  LET since(row) == [c \in {c \in DOMAIN open : app[c] = row} |-> Since(c)]
      named == [row \in Rows |-> Sum(since(row))]
      rest == [NoRows EXCEPT ![Unattributed] = Max({0, Delta - Sum(named)})]
  IN /\ pending' = Plus(pending, Plus(named, rest))
     /\ active' = open
     /\ seeded' = TRUE
     /\ state' = [state EXCEPT !.total = @ + Delta, !.last = count, !.generation = generation]
     /\ UNCHANGED <<core, saving, db, from>>

\* persist: under persistMu, the state and the rows as they are ...
SaveSnapshot ==
  /\ saving.pc = "idle"
  /\ saving' = [pc |-> "snapshot", state |-> state, rows |-> pending]
  /\ UNCHANGED <<core, state, active, seeded, pending, db, from>>

\* pruneHourlyAppDomains, pruneDailyAppDomains: past MaxRows, those with the most bytes
\* stay, of equals the first, and "other" is given the bytes of the rest.
Pruned(rows) ==
  LET named == {a \in Apps : rows[a] > 0}
      Before(a, b) == rows[a] > rows[b] \/ (rows[a] = rows[b] /\ a < b)
      tail == {a \in named : Cardinality({b \in named : Before(b, a)}) >= MaxRows}
  IN [row \in Rows |-> CASE row \in tail -> 0
                         [] row = Other -> rows[Other] + MapThenSumSet(LAMBDA a : rows[a], tail)
                         [] OTHER -> rows[row]]

\* ... are added, in one transaction, to the rows there are (saveAppUsage), or that fails.
SaveCommit ==
  /\ saving.pc = "snapshot"
  /\ db' = [state |-> saving.state,
            rows |-> IF saving.rows = NoRows THEN db.rows ELSE Pruned(Plus(db.rows, saving.rows))]
  /\ saving' = [saving EXCEPT !.pc = "committed"]
  /\ UNCHANGED <<core, state, active, seeded, pending, from>>

SaveFails ==
  /\ saving.pc = "snapshot"
  /\ saving' = NotSaving
  /\ UNCHANGED <<core, state, active, seeded, pending, db, from>>

\* What was saved leaves the pending rows; samples may have added to them since.
SaveFinish ==
  /\ saving.pc = "committed"
  /\ pending' = [row \in Rows |-> Max({0, pending[row] - saving.rows[row]})]
  /\ saving' = NotSaving
  /\ UNCHANGED <<core, state, active, seeded, db, from>>

\* ClearAppTraffic, under persistMu: the rows, saved and pending.
ClearAppTraffic ==
  /\ saving.pc = "idle"
  /\ db' = [db EXCEPT !.rows = NoRows]
  /\ pending' = NoRows
  /\ from' = state.total
  /\ state' = [state EXCEPT !.cleared = Plus(@, Plus(db.rows, pending))]
  /\ UNCHANGED <<core, active, seeded, saving>>

\* The panel is killed and opened again on the checkpoint; the core and its connections
\* live on.  What was counted since the checkpoint, and cleared if a clear came after it,
\* is counted anew.
PanelRestart ==
  /\ state' = db.state
  /\ active' = NoConnections /\ seeded' = FALSE /\ pending' = NoRows /\ saving' = NotSaving
  /\ from' = Min({from, db.state.total})
  /\ UNCHANGED <<core, db>>

Next == \/ \E c \in Connections : Relay(c) \/ Close(c) \/ \E a \in Apps : Open(c, a)
        \/ CoreRestart
        \/ Sample \/ SaveSnapshot \/ SaveCommit \/ SaveFails \/ SaveFinish
        \/ ClearAppTraffic \/ PanelRestart

Spec == Init /\ [][Next]_vars
-----------------------------------------------------------------------------
\* Types of the variables.
TypeOK ==
  /\ generation \in 1..MaxGeneration /\ count \in 0..MaxBytes
  /\ DOMAIN open \subseteq DOMAIN app /\ DOMAIN app \subseteq Connections /\ IsFiniteSet(DOMAIN active)
  /\ Range(app) \subseteq Apps /\ seeded \in BOOLEAN
  /\ pending \in [Rows -> Nat] /\ db.rows \in [Rows -> Nat]
  /\ saving.pc \in {"idle", "snapshot", "committed"}

\* What AppTraffic lists, once a save that is committed has left the pending rows.
Listed == [row \in Rows |-> db.rows[row] + pending[row]
                            - IF saving.pc = "committed" THEN saving.rows[row] ELSE 0]

\* The applications, "other" and "unattributed" add up to the proxy total since the last
\* clear, whatever opens, closes, restarts, is pruned, or fails to be saved
\* (recordConnections: "so app totals and shares add up to the proxy total").
SharesAddUp == Sum(Listed) = state.total - from

\* No byte of a connection is attributed twice, to its application or to "other", over
\* samples, restarts of the panel and of the core, and clears.
AttributedOnce ==
  /\ \A a \in Apps : Listed[a] + state.cleared[a] <= relayed[a]
  /\ Sum(Listed) - Listed[Unattributed] <= Sum(relayed)
=============================================================================
