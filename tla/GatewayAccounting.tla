------------------------- MODULE GatewayAccounting -------------------------
(***************************************************************************)
(* The byte counters of WireGuard gateways: the accounting chains that     *)
(* internal/traffic/accounting.go keeps in iptables, and the per-gateway   *)
(* totals that internal/traffic/egress.go derives from them.               *)
(*                                                                         *)
(* Every operation holds gatewayMu from its first iptables command to its  *)
(* save (a configuration change from BeginEgressChange to                  *)
(* CommitEgressChange), so one program counter describes the panel.  What  *)
(* interleaves with it is the kernel: packets, other users of iptables,    *)
(* reboots; commands that fail, with or without having had their effect;   *)
(* the saves of the poll loop; and the death of the panel.                 *)
(*                                                                         *)
(* A rule is known to the panel by its generation; its counter lives until *)
(* the rule or its value is gone, which the panel does not see.  The usage *)
(* of a gateway, its resets and its calibration are sums of the deltas     *)
(* credited here and are not represented.                                  *)
(***************************************************************************)
EXTENDS Integers, FiniteSets, SequencesExt

CONSTANTS
  Gateways,    \* the gateways that may be configured
  Peers,       \* the addresses they may have
  Dirs,        \* the directions counted: both, or one to look further with it
  Tampers,     \* what others may do: subset of AllTampers
  Faults,      \* what may fail: subset of {"command", "save", "undo"}
  MaxLives,    \* bound: counters created
  MaxBytes,    \* bound: bytes counted by all of them
  MaxEvents    \* bound: changes, tampering and crashes

Lives == 1..MaxLives
AllTampers == {"flush", "double", "bury", "zero", "reboot"}

ASSUME AccountingAssumption ==
  /\ IsFiniteSet(Gateways)
  /\ Dirs \subseteq {"tx", "rx"}
  /\ Tampers \subseteq AllTampers
  /\ Faults \subseteq {"command", "save", "undo"}
  /\ {MaxLives, MaxBytes, MaxEvents} \subseteq Nat

VARIABLES
  rules,     \* SBM's counting rules: gateway, direction, peer, generation, life
  jumps,     \* per direction, the jumps to the chain and whether the first is on top
  chains,    \* the chains that exist
  counted,   \* bytes counted in every life
  boot,      \* the boot identity
  born,      \* lives begun
  config,    \* the saved configuration of every gateway
  mem,       \* State.Egress and State.EgressAccountingPending
  db,        \* what the last save holds of them
  pc,        \* where the holder of gatewayMu is
  kind,      \* the operation it runs; "sample" when there is none
  old,       \* the configuration a change started from; when there is none, config
  todo,      \* the commands Sample has yet to run
  touched,   \* somebody else changed the chains since Sample's snapshot
  unsaved,   \* the last save failed
  astray,    \* a rejected configuration stayed, a crash hit an unsaved state, or
             \* a jump was copied behind the back of a sample
  events     \* changes, tampering and crashes so far

kernel == <<rules, jumps, chains, counted, boot, born>>
ghosts == <<touched, unsaved, astray>>
vars == <<kernel, config, mem, db, pc, kind, old, todo, ghosts, events>>

Absent == [on |-> FALSE, peer |-> "none"]
Drafts == {Absent} \cup [on : BOOLEAN, peer : Peers]

On(c) == {g \in Gateways : c[g].on}
Listed(c) == {g \in Gateways : c[g] # Absent}

\* GatewayTrafficState without the sums.  Ghosts: the lives the last reading
\* saw, and for every life the bytes credited and those a baseline left out.
NoEntry == [status |-> "none"]
NewEntry == [status |-> "waiting", init |-> FALSE, peer |-> "none",
             last |-> [d \in Dirs |-> 0], gen |-> [d \in Dirs |-> <<0, 0>>],
             life |-> [d \in Dirs |-> 0]]

Init ==
  /\ rules = {} /\ chains = {} /\ boot = 1 /\ born = 0
  /\ jumps = [d \in Dirs |-> [n |-> 0, top |-> FALSE]]
  /\ counted = [l \in Lives |-> 0]
  /\ config = [g \in Gateways |-> Absent] /\ old = config
  /\ mem = [egress |-> [g \in Gateways |-> NoEntry], pending |-> FALSE,
            credited |-> [l \in Lives |-> 0], skipped |-> [l \in Lives |-> 0]]
  /\ db = mem
  /\ pc = "idle" /\ kind = "sample" /\ todo = <<>>
  /\ touched = FALSE /\ unsaved = FALSE /\ astray = FALSE
  /\ events = 0

-----------------------------------------------------------------------------
(* Accounting.Sample: the commands it decides on from its first snapshot.  *)

\* A rule stays when it counts an enabled gateway at the address it has now.
Wanted(r) == config[r.gw].on /\ config[r.gw].peer = r.peer
Kept == {r \in rules : Wanted(r)}

Repeat(command, n) == [i \in 1..n |-> command]

\* A defect: a jump is left wherever it is.
JumpCommands_AnyPlace(d) ==
  IF d \notin Dirs \/ (On(config) # {} /\ jumps[d].n = 1) THEN <<>>
  ELSE Repeat([op |-> "unjump", dir |-> d], jumps[d].n)
       \o (IF On(config) # {} THEN <<[op |-> "jump", dir |-> d]>> ELSE <<>>)

\* One jump on top of the parent chain, or none when no gateway is enabled.
JumpCommands(d) ==
  IF d \notin Dirs \/ (On(config) # {} /\ jumps[d] = [n |-> 1, top |-> TRUE]) THEN <<>>
  ELSE Repeat([op |-> "unjump", dir |-> d], jumps[d].n)
       \o (IF On(config) # {} THEN <<[op |-> "jump", dir |-> d]>> ELSE <<>>)

\* The rules to append.
Missing == {m \in On(config) \X Dirs : ~\E r \in Kept : r.gw = m[1] /\ r.dir = m[2]}

\* Create the chains, delete what is not kept, append what is missing, repair
\* the jumps.
Plan ==
  SetToSeq({[op |-> "chain", dir |-> d] : d \in IF On(config) = {} THEN {} ELSE Dirs \ chains})
  \o SetToSeq({[op |-> "delete", gen |-> r.gen] : r \in rules \ Kept})
  \o SetToSeq({[op |-> "append", gw |-> m[1], dir |-> m[2]] : m \in Missing})
  \o JumpCommands("tx") \o JumpCommands("rx")

\* iptables refuses to create what exists and to change what does not.
Possible(c) ==
  CASE c.op = "chain"  -> c.dir \notin chains
    [] c.op = "delete" -> \E r \in rules : r.gen = c.gen
    [] c.op = "unjump" -> jumps[c.dir].n > 0
    [] OTHER           -> c.dir \in chains

\* iptables: what a command does when it can.
Executes(c) ==
  /\ Possible(c)
  /\ c.op = "append" => born < MaxLives
  /\ CASE c.op = "chain" ->
            /\ chains' = chains \cup {c.dir}
            /\ UNCHANGED <<rules, jumps, counted, boot, born>>
       [] c.op = "delete" ->
            /\ rules' = {r \in rules : r.gen # c.gen}
            /\ UNCHANGED <<jumps, chains, counted, boot, born>>
       [] c.op = "append" ->
            /\ born' = born + 1
            /\ rules' = rules \cup {[gw |-> c.gw, dir |-> c.dir, peer |-> config[c.gw].peer,
                                     gen |-> born + 1, life |-> born + 1]}
            /\ UNCHANGED <<jumps, chains, counted, boot>>
       [] c.op = "unjump" ->
            /\ jumps' = [jumps EXCEPT ![c.dir] = [n |-> @.n - 1, top |-> @.top /\ @.n > 1]]
            /\ UNCHANGED <<rules, chains, counted, boot, born>>
       [] c.op = "jump" ->
            /\ jumps' = [jumps EXCEPT ![c.dir] = [n |-> @.n + 1, top |-> TRUE]]
            /\ UNCHANGED <<rules, chains, counted, boot, born>>

-----------------------------------------------------------------------------
(* Tracker.sampleGateways: what a reading, or its failure, does.           *)

RuleOf(g, d) == CHOOSE r \in rules : r.gw = g /\ r.dir = d /\ Wanted(r)
Generation(r) == <<boot, r.gen>>

\* A defect: a counter is told from its predecessor by its value alone.
CounterDelta_ValueOnly(current, last, gen, previous) ==
  IF current < last THEN current ELSE current - last

CounterDelta(current, last, gen, previous) ==
  IF current < last \/ gen # previous THEN current ELSE current - last

Entry(g) == IF mem.egress[g] = NoEntry THEN NewEntry ELSE mem.egress[g]

\* The entry after its counters were read; the first reading is a baseline.
Read(g) ==
  [status |-> "healthy", init |-> TRUE, peer |-> config[g].peer,
   last |-> [d \in Dirs |-> counted[RuleOf(g, d).life]],
   gen  |-> [d \in Dirs |-> Generation(RuleOf(g, d))],
   life |-> [d \in Dirs |-> RuleOf(g, d).life]]

Continues(g) == Entry(g).init /\ Entry(g).peer = config[g].peer

\* A counter set back under its rule may have passed the last reading again,
\* which hides as many bytes as that reading showed.
Hidden(g, d) ==
  /\ Generation(RuleOf(g, d)) = Entry(g).gen[d]
  /\ RuleOf(g, d).life # Entry(g).life[d]
  /\ counted[RuleOf(g, d).life] >= Entry(g).last[d]

Gained(g, d) ==
  CounterDelta(counted[RuleOf(g, d).life], Entry(g).last[d],
               Generation(RuleOf(g, d)), Entry(g).gen[d])

Sampled(ok) ==
  LET read == IF ok THEN On(config) \X Dirs ELSE {}
      LifeOf(p) == RuleOf(p[1], p[2]).life
  IN [egress |-> [g \in Gateways |->
        IF config[g] = Absent THEN mem.egress[g]
        ELSE IF ~config[g].on THEN [Entry(g) EXCEPT !.status = "disabled"]
        ELSE IF ok THEN Read(g)
        ELSE [Entry(g) EXCEPT !.status = "interrupted"]],
      pending |-> ~ok,
      credited |-> [l \in Lives |->
        IF \E p \in read : LifeOf(p) = l /\ Continues(p[1])
        THEN LET p == CHOOSE p \in read : LifeOf(p) = l
             IN mem.credited[l] + Gained(p[1], p[2])
        ELSE mem.credited[l]],
      skipped |-> [l \in Lives |->
        IF \E p \in read : LifeOf(p) = l /\ ~Continues(p[1])
        THEN counted[l] - mem.credited[l]
        ELSE IF \E p \in read : LifeOf(p) = l /\ Hidden(p[1], p[2])
        THEN LET p == CHOOSE p \in read : LifeOf(p) = l IN Entry(p[1]).last[p[2]]
        ELSE mem.skipped[l]]]

AfterSample == IF kind = "begin" THEN "changing" ELSE "save"

SampleEnds(ok) ==
  /\ mem' = Sampled(ok)
  /\ pc' = AfterSample
  /\ todo' = <<>>

\* Whether the panel looks at the kernel at all.
Reads == IF On(config) # {} \/ mem.pending THEN "snapshot" ELSE "nothing"

NothingToRead ==
  /\ pc = "nothing"
  /\ SampleEnds(TRUE)
  /\ UNCHANGED <<kernel, config, db, kind, old, ghosts, events>>

Snapshot ==
  /\ pc = "snapshot"
  /\ todo' = Plan
  /\ pc' = "commands"
  /\ touched' = FALSE
  /\ UNCHANGED <<kernel, config, mem, db, kind, old, unsaved, astray, events>>

CommandOk ==
  /\ pc = "commands" /\ todo # <<>>
  /\ Executes(Head(todo))
  /\ todo' = Tail(todo)
  /\ UNCHANGED <<config, mem, db, pc, kind, old, ghosts, events>>

\* A command fails: it could not be carried out, or it did not run, or it was
\* cut off by the deadline of sampleGateways after it had had its effect.
CommandFails ==
  /\ pc = "commands" /\ todo # <<>>
  /\ \/ ~Possible(Head(todo)) /\ UNCHANGED kernel
     \/ "command" \in Faults /\ (UNCHANGED kernel \/ Executes(Head(todo)))
  /\ SampleEnds(FALSE)
  /\ UNCHANGED <<config, db, kind, old, ghosts, events>>

\* The second snapshot must show both rules of every enabled gateway.
Complete == \A g \in On(config), d \in Dirs : \E r \in rules : r.gw = g /\ r.dir = d /\ Wanted(r)

ReadsCounters ==
  /\ pc = "commands" /\ todo = <<>>
  /\ Complete
  /\ SampleEnds(TRUE)
  /\ UNCHANGED <<kernel, config, db, kind, old, ghosts, events>>

ReadFails ==
  /\ \/ pc = "commands" /\ todo = <<>> /\ On(config) # {} /\ (~Complete \/ "command" \in Faults)
     \/ pc = "snapshot" /\ "command" \in Faults
  /\ SampleEnds(FALSE)
  /\ UNCHANGED <<kernel, config, db, kind, old, ghosts, events>>

-----------------------------------------------------------------------------
(* The operations that hold gatewayMu.                                     *)

Quiet == UNCHANGED <<kernel, db, todo, ghosts>>

Event == events < MaxEvents /\ events' = events + 1

\* SampleGateways, every five seconds; with nothing to do it returns at once.
SampleBegin ==
  /\ pc = "idle"
  /\ Listed(config) # {} \/ mem.pending
  /\ kind' = "sample" /\ pc' = Reads
  /\ Quiet /\ UNCHANGED <<config, mem, old, events>>

\* ResetGateway and CalibrateGateway sample first, so that the usage they
\* change is up to date.
ResetBegin ==
  /\ pc = "idle" /\ Event
  /\ Listed(config) # {}
  /\ kind' = "reset" /\ pc' = Reads
  /\ Quiet /\ UNCHANGED <<config, mem, old>>

\* BeginEgressChange.
ChangeBegin ==
  /\ pc = "idle" /\ Event
  /\ kind' = "begin" /\ old' = config
  /\ pc' = IF Listed(config) # {} THEN Reads ELSE "changing"
  /\ Quiet /\ UNCHANGED <<config, mem>>

\* mutateChange saves the new configuration, or refuses it.
ChangeSaved ==
  /\ pc = "changing"
  /\ config' \in [Gateways -> Drafts] /\ config' # config
  /\ pc' = "persisting"
  /\ Quiet /\ UNCHANGED <<mem, kind, old, events>>

\* The traffic state is saved before the core is told anything.
ChangePersisted ==
  /\ pc = "persisting"
  /\ pc' = "applying"
  /\ db' = mem /\ unsaved' = FALSE
  /\ UNCHANGED <<kernel, config, mem, kind, old, todo, touched, astray, events>>

ChangeRefused ==
  /\ pc = "changing"
  /\ pc' = "idle" /\ kind' = "sample"
  /\ Quiet /\ UNCHANGED <<config, mem, old, events>>

\* Persist or Apply failed; the old configuration comes back, unless that fails
\* as well, which nobody looks at.
ChangeUndone ==
  /\ \/ pc = "applying" /\ unsaved' = unsaved
     \/ pc = "persisting" /\ "save" \in Faults /\ unsaved' = TRUE
  /\ pc' = "idle" /\ kind' = "sample"
  /\ \/ config' = old /\ astray' = astray
     \/ "undo" \in Faults /\ config' = config /\ astray' = TRUE
  /\ old' = config'
  /\ UNCHANGED <<kernel, db, todo, touched, mem, events>>

\* CommitEgressChange: entries follow the configuration; an address that changed
\* starts from a new baseline.
Follows(g) ==
  LET e == Entry(g)
  IN IF config[g] = Absent THEN NoEntry
     ELSE [e EXCEPT !.init = @ /\ e.peer = config[g].peer, !.peer = config[g].peer,
                    !.status = IF config[g].on THEN @ ELSE "disabled"]

Committed(before, pending) ==
  [mem EXCEPT !.egress = [g \in Gateways |-> Follows(g)],
              !.pending = pending \/ On(before) # {}]

Commits(before, pending) ==
  /\ kind' = "commit"
  /\ mem' = Committed(before, pending)
  /\ pc' = IF mem'.pending \/ On(config) # {} THEN "snapshot"
           ELSE IF Listed(config) # {} THEN "nothing" ELSE "save"

\* A defect: only the new configuration decides whether there is work to do.
ChangeApplied_NewOnly ==
  /\ pc = "applying"
  /\ Commits(config, mem.pending)
  /\ old' = config
  /\ Quiet /\ UNCHANGED <<config, events>>

ChangeApplied ==
  /\ pc = "applying"
  /\ Commits(old, mem.pending)
  /\ old' = config
  /\ Quiet /\ UNCHANGED <<config, events>>

\* ReconcileGateways, once, when the panel starts.
Startup ==
  /\ pc = "startup"
  /\ Commits(config, \/ mem.pending \/ Listed(config) # {}
                     \/ \E g \in Gateways : mem.egress[g] # NoEntry)
  /\ old' = config
  /\ Quiet /\ UNCHANGED <<config, events>>

\* A defect: a reset starts the counters of the gateways over as well.
ResetDone_ClearsBaseline ==
  [mem EXCEPT !.egress = [g \in Gateways |->
     IF mem.egress[g] = NoEntry THEN NoEntry
     ELSE [mem.egress[g] EXCEPT !.last = [d \in Dirs |-> 0]]]]

\* What ResetGateway leaves of the accounting: the kernel's counters and the
\* last baseline, whatever becomes of the usage.
ResetDone == mem

\* Persist ends every operation but a refused change.
Save ==
  /\ pc = "save"
  /\ pc' = "idle" /\ kind' = "sample"
  /\ mem' = IF kind = "reset" THEN ResetDone ELSE mem
  /\ \/ db' = mem' /\ unsaved' = FALSE
     \/ "save" \in Faults /\ db' = db /\ unsaved' = TRUE
  /\ UNCHANGED <<kernel, config, old, todo, touched, astray, events>>

\* The poll loop saves the whole state whenever it likes.
PollSaves ==
  /\ pc # "startup"
  /\ db' = mem /\ unsaved' = FALSE
  /\ UNCHANGED <<kernel, config, mem, pc, kind, old, todo, touched, astray, events>>

-----------------------------------------------------------------------------
(* The kernel, other users of iptables, and the death of the panel.        *)

\* A packet of a tunnel is counted when a jump leads to its rule.
Packet(r) ==
  /\ jumps[r.dir].n > 0
  /\ MapThenSumSet(LAMBDA l : counted[l], Lives) < MaxBytes
  /\ counted' = [counted EXCEPT ![r.life] = @ + 1]
  /\ UNCHANGED <<rules, jumps, chains, boot, born, config, mem, db, pc, kind, old, todo, ghosts, events>>

Tampering(what) ==
  /\ what \in Tampers
  /\ Event
  /\ touched' = TRUE
  /\ UNCHANGED <<config, db, unsaved>>

Flush ==
  /\ Tampering("flush")
  /\ rules' = {} /\ chains' \in {chains, {}}
  /\ jumps' = [d \in Dirs |-> [n |-> 0, top |-> FALSE]]
  /\ UNCHANGED <<counted, boot, born, mem, pc, kind, old, todo, astray>>

\* Somebody inserts another rule above the jump, or the jump a second time;
\* Sample only repairs the jumps of its first snapshot.
Displaced ==
  /\ \E d \in {d \in Dirs : jumps[d].n = 1} :
        \/ Tampering("bury") /\ jumps' = [jumps EXCEPT ![d].top = FALSE] /\ astray' = astray
        \/ Tampering("double") /\ jumps' = [jumps EXCEPT ![d].n = 2]
                               /\ astray' = (astray \/ pc = "commands")
  /\ UNCHANGED <<rules, chains, counted, boot, born, mem, pc, kind, old, todo>>

\* Counters start over under the same rules.
Reborn ==
  LET order == SetToSeq(rules)
      Nth(r) == CHOOSE i \in 1..Len(order) : order[i] = r
  IN /\ born + Len(order) <= MaxLives
     /\ born' = born + Len(order)
     /\ rules' = {[r EXCEPT !.life = born + Nth(r)] : r \in rules}

Zeroed ==
  /\ Tampering("zero")
  /\ rules # {} /\ Reborn
  /\ UNCHANGED <<jumps, chains, counted, boot, mem, pc, kind, old, todo, astray>>

Dies ==
  /\ mem' = db /\ pc' = "startup" /\ kind' = "sample" /\ old' = config /\ todo' = <<>>
  /\ astray' = (astray \/ unsaved)

\* After a reboot the chains are gone, or a service restored them without values.
Reboot ==
  /\ Tampering("reboot")
  /\ Dies
  /\ boot' = boot + 1
  /\ \/ Reborn /\ UNCHANGED <<jumps, chains>>
     \/ /\ rules' = {} /\ chains' = {} /\ born' = born
        /\ jumps' = [d \in Dirs |-> [n |-> 0, top |-> FALSE]]
  /\ UNCHANGED counted

Crash ==
  /\ Event
  /\ Dies
  /\ UNCHANGED <<kernel, config, db, touched, unsaved>>

-----------------------------------------------------------------------------
Sampling == NothingToRead \/ Snapshot \/ CommandOk \/ CommandFails \/ ReadsCounters \/ ReadFails

Next ==
  \/ Sampling
  \/ SampleBegin \/ ResetBegin
  \/ ChangeBegin \/ ChangeSaved \/ ChangePersisted \/ ChangeRefused \/ ChangeUndone \/ ChangeApplied
  \/ Startup
  \/ Save \/ PollSaves
  \/ \E r \in rules : Packet(r)
  \/ Flush \/ Displaced \/ Zeroed \/ Reboot
  \/ Crash

Spec == Init /\ [][Next]_vars

\* Every call has a deadline, so operations end and the next sample comes;
\* commands and snapshots do not fail for ever.
Fairness ==
  /\ WF_vars(SampleBegin) /\ WF_vars(Sampling) /\ WF_vars(Save)
  /\ WF_vars(ChangeSaved \/ ChangeRefused) /\ WF_vars(ChangePersisted \/ ChangeApplied \/ ChangeUndone)
  /\ WF_vars(Startup)
  /\ SF_vars(Snapshot) /\ SF_vars(CommandOk) /\ SF_vars(ReadsCounters)

FairSpec == Spec /\ Fairness

-----------------------------------------------------------------------------
Places == {"idle", "nothing", "snapshot", "commands", "changing", "persisting", "applying", "save", "startup"}
Stamps == Nat \X (Lives \cup {0})
Entries == {NoEntry} \cup
  [status : {"waiting", "healthy", "interrupted", "disabled"}, init : BOOLEAN,
   peer : Peers \cup {"none"}, last : [Dirs -> Nat], gen : [Dirs -> Stamps],
   life : [Dirs -> Lives \cup {0}]]
Memories == [egress : [Gateways -> Entries], pending : BOOLEAN,
             credited : [Lives -> Nat], skipped : [Lives -> Nat]]

\* Every variable has its type; a gateway has at most one rule per direction
\* that would be kept, so no packet is counted by two of them.
TypeOK ==
  /\ rules \subseteq [gw : Gateways, dir : Dirs, peer : Peers, gen : Lives, life : Lives]
  /\ \A r, s \in rules : Wanted(r) /\ Wanted(s) /\ r.gw = s.gw /\ r.dir = s.dir => r = s
  /\ jumps \in [Dirs -> [n : Nat, top : BOOLEAN]]
  /\ chains \subseteq Dirs
  /\ counted \in [Lives -> Nat]
  /\ boot \in Nat \ {0} /\ born \in 0..MaxLives
  /\ {config, old} \subseteq [Gateways -> Drafts]
  /\ {mem, db} \subseteq Memories
  /\ pc \in Places /\ kind \in {"sample", "begin", "commit", "reset"}
  /\ {touched, unsaved, astray} \subseteq BOOLEAN
  /\ events \in 0..MaxEvents

\* No byte the kernel counted is credited twice, in memory or in what is saved:
\* not after a failed sample, a change of the rules, a reset, a reboot that
\* restored them, or a panel that resumes from an older save.
NoByteCountedTwice ==
  /\ TypeOK
  /\ \A l \in Lives : mem.credited[l] <= counted[l] /\ db.credited[l] <= counted[l]

\* What the last reading of a counter showed has all been credited, except for
\* what a baseline left out: "A panel crash can then resume from the same
\* kernel counters without losing or repeating the delta" (egress.go:209).
ReadingsCredited ==
  \A m \in {mem, db} : \A g \in Gateways : \A d \in Dirs :
    LET e == m.egress[g]
    IN e # NoEntry /\ e.init =>
         m.credited[e.life[d]] + m.skipped[e.life[d]] = e.last[d]

\* A gateway whose counters are healthy is being counted, once: both rules with
\* its address, under one jump that sees every packet.  (A rejected configuration
\* that stays may show a gateway as it was when it was last read, until the next
\* sample; and a chain somebody touched is repaired by it.)
HealthyIsCounted ==
  pc = "idle" /\ ~touched /\ ~astray =>
    \A g \in On(config) :
      mem.egress[g].status = "healthy" =>
      \A d \in Dirs : /\ jumps[d] = [n |-> 1, top |-> TRUE]
                      /\ Cardinality({r \in rules : r.gw = g /\ r.dir = d}) = 1
                      /\ \E r \in rules : r.gw = g /\ r.dir = d /\ Wanted(r)

Installed == rules # {} \/ \E d \in Dirs : jumps[d].n > 0

\* What SBM put into the kernel is remembered until it is gone: by an enabled
\* gateway, by the pending flag, or after a crash by what was saved.  (It is not
\* when a crash follows a failed save, a rejected configuration stays, or
\* somebody copies a jump while the last sample removes it.)
NothingForgotten ==
  Installed /\ ~astray =>
    /\ pc = "idle" => mem.pending \/ On(config) # {}
    /\ pc = "startup" =>
         \/ mem.pending \/ Listed(config) # {}
         \/ \E g \in Gateways : mem.egress[g] # NoEntry

\* Once the last gateway is disabled for good, everything SBM put into the
\* kernel is in the end removed.
CleanedUp == <>[](On(config) = {} /\ ~astray) => <>[]~Installed
=============================================================================
