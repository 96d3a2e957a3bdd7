----------------------- MODULE ProxyAccountingProofs -----------------------
(***************************************************************************)
(* Proofs about ProxyAccounting, for any number of samplers, generations,  *)
(* bytes and days; about the JSON files beside its database (JSONFile);    *)
(* and about the applications the bytes are given to (AppAttribution), for *)
(* any finite set of applications and any number of connections.           *)
(***************************************************************************)
EXTENDS MCProxyAccounting, FiniteSetTheorems, WellFoundedInduction, TLAPS

(***************************************************************************)
(* What holds of every copy s of the tracker's state (in memory, in the    *)
(* checkpoint, in the snapshot a save holds) when the last generation is   *)
(* cur, alive or not, and rel is what every generation relayed.  The       *)
(* generation on record is that of the baseline or an older one, and it is *)
(* older only when the baseline came from a core that has since died: that *)
(* is why the next identified reading may count its counters in full.      *)
(***************************************************************************)
SoundFor(s, cur, alive, rel) ==
  /\ s.generation <= s.base
  /\ s.base <= cur
  /\ \A g \in Generations, dir \in Directions :
       /\ s.credited[g][dir] <= rel[g][dir]
       /\ g > s.base => s.credited[g][dir] = 0
       /\ g = s.base => /\ s.credited[g][dir] <= s.last[dir]
                        /\ s.last[dir] <= rel[g][dir]
  /\ s.base = NoGeneration => s.last = Nothing
  /\ s.generation # s.base => s.base < cur \/ ~alive
  /\ s.generation = NoGeneration /\ s.base # NoGeneration => s.blind
  /\ s.generation = s.base /\ s.base # NoGeneration /\ ~s.blind =>
       s.credited[s.base] = s.last

Sound(s) == SoundFor(s, current, up, relayed)

(***************************************************************************)
(* What holds of a Sample call in flight.                                  *)
(***************************************************************************)
ReadingSound(a) ==
  LET r == reading[a] IN
  /\ r.pc # "idle" => sampleMu = a
  /\ r.pc # "idle" => r.before <= current
  /\ r.pc # "idle" /\ r.before # NoGeneration =>
       /\ state.base <= r.before
       /\ r.before = state.base => state.generation = state.base
  /\ r.pc = "before" /\ r.before = NoGeneration => ~up
  /\ r.pc = "read" =>
       /\ r.before # NoGeneration
       /\ r.before <= r.source
       /\ r.source <= current
       /\ \A dir \in Directions :
            /\ r.count[dir] <= relayed[r.source][dir]
            /\ r.source = state.base => state.last[dir] <= r.count[dir]

CountingInv ==
  /\ TypeOK
  /\ Sound(state)
  /\ Sound(db.state)
  /\ saving.pc # "idle" => Sound(saving.state)
  /\ \A a \in Samplers : ReadingSound(a)

HistoryInv ==
  /\ TypeOK
  /\ HistoryExact
  /\ saving.pc # "idle" => \A d \in Days : saving.bytes[d] <= pending.bytes[d]
  /\ saving.pc = "snapshot" =>
       \A d \in Days : db.bytes[d] + saving.bytes[d] = saving.state.counted[d]
-----------------------------------------------------------------------------
(* Types and history *)

\* What a sample adds is never negative: a counter that did not start again is
\* at least its baseline (tracker.go:249-253).
LEMMA DeltaType ==
  ASSUME TypeOK, NEW count \in Counts, NEW g \in {NoGeneration} \cup Generations
  PROVE  Delta(count, g) \in Counts
<1>1. state.last \in Counts
  BY DEF TypeOK, StateType
<1>2. CASE Restarted(count, g)
  BY <1>2 DEF Delta
<1>3. CASE ~Restarted(count, g)
  <2>1. \A dir \in Directions : count[dir] >= state.last[dir]
    BY <1>1, <1>3 DEF Restarted, Counts
  <2>2. Delta(count, g) = [dir \in Directions |-> count[dir] - state.last[dir]]
    BY <1>3 DEF Delta
  <2>. QED  BY <1>1, <2>1, <2>2 DEF Counts
<1>. QED  BY <1>2, <1>3

\* What a sample makes of the tracker's state has its type.
LEMMA AppliedType ==
  ASSUME TypeOK, NEW source \in Generations, NEW count \in Counts,
         NEW g \in {NoGeneration} \cup Generations, NEW bytes \in Nat
  PROVE  Applied(source, count, g, bytes) \in StateType
<1> DEFINE delta == Delta(count, g)
<1>1. delta \in Counts
  BY DeltaType
<1>2. state \in StateType /\ today \in Days
  BY DEF TypeOK
<1>3. [dir \in Directions |-> state.total[dir] + delta[dir]] \in Counts
  BY <1>1, <1>2 DEF StateType, Counts
<1>4. Credited(source, delta) \in [Generations -> Counts]
  <2>1. state.credited \in [Generations -> Counts]
    BY <1>2 DEF StateType
  <2>2. [dir \in Directions |-> state.credited[source][dir] + delta[dir]] \in Counts
    BY <1>1, <2>1 DEF Counts
  <2>. QED  BY <2>1, <2>2 DEF Credited
<1>5. [state.counted EXCEPT ![today] = @ + bytes] \in [Days -> Nat]
  BY <1>2 DEF StateType
<1>. QED  BY <1>2, <1>3, <1>4, <1>5 DEF Applied, StateType

\* So has the state of a first start.
LEMMA FreshType == FreshState \in StateType
<1>1. Nothing \in Counts /\ NoBytes \in [Days -> Nat]
  BY DEF Nothing, Counts, NoBytes
<1>2. [g \in Generations |-> Nothing] \in [Generations -> Counts]
  BY <1>1
<1>. QED  BY <1>1, <1>2 DEF FreshState, StateType, NoGeneration

\* The history starts empty, in memory and on disk.
LEMMA HistoryInit == Init => HistoryInv
<1> SUFFICES ASSUME Init PROVE HistoryInv
  OBVIOUS
<1> USE BoundsAssumption
<1>1. Nothing \in Counts /\ NoBytes \in [Days -> Nat] /\ 1 \in Days
  BY DEF Nothing, Counts, NoBytes, Days
<1>2. [g \in Generations |-> Nothing] \in [Generations -> Counts]
  BY <1>1
<1>3. TypeOK
  BY <1>1, <1>2, FreshType DEF Init, TypeOK, NotReading, NotSaving, NoGeneration
<1>4. HistoryExact
  BY <1>1 DEF Init, HistoryExact, InFlight, NotSaving, FreshState, NoBytes
<1>. QED  BY <1>3, <1>4 DEF HistoryInv, Init, NotSaving

\* Steps that touch neither the pending rows, nor the saved ones, nor the state.
LEMMA HistoryUnchanged ==
  ASSUME HistoryInv, TypeOK', UNCHANGED <<state, pending, saving, db>>
  PROVE  HistoryInv'
BY DEF HistoryInv, HistoryExact, InFlight

\* Neither the core nor the clock touches the history.
LEMMA CoreHistory ==
  ASSUME HistoryInv, CoreStart \/ CoreStop \/ (\E dir \in Directions : Relay(dir)) \/ Midnight
  PROVE  HistoryInv'
<1> USE DEF HistoryInv, core, memory, disk
<1>1. CASE CoreStart
  <2>1. current' \in Generations
    BY <1>1, BoundsAssumption DEF CoreStart, TypeOK, Generations, NoGeneration
  <2>2. TypeOK'
    BY SMTT(30), <1>1, <2>1 DEF CoreStart, TypeOK, Generations, NoGeneration
  <2>. QED  BY <1>1, <2>2, HistoryUnchanged DEF CoreStart
<1>2. CASE CoreStop
  <2>1. TypeOK'
    BY <1>2 DEF CoreStop, TypeOK
  <2>. QED  BY <1>2, <2>1, HistoryUnchanged DEF CoreStop
<1>3. ASSUME NEW dir \in Directions, Relay(dir)
      PROVE  HistoryInv'
  <2>1. current \in Generations /\ relayed \in [Generations -> Counts]
    BY <1>3 DEF Relay, TypeOK
  <2>2. [relayed[current] EXCEPT ![dir] = @ + 1] \in Counts
    BY <2>1, <1>3 DEF Counts
  <2>3. relayed' \in [Generations -> Counts]
    BY <2>1, <2>2, <1>3 DEF Relay
  <2>4. TypeOK'
    BY <1>3, <2>3 DEF Relay, TypeOK
  <2>. QED  BY <1>3, <2>4, HistoryUnchanged DEF Relay
<1>4. CASE Midnight
  <2>1. today' \in Days
    BY <1>4, BoundsAssumption DEF Midnight, TypeOK, Days
  <2>2. TypeOK'
    BY <1>4, <2>1 DEF Midnight, TypeOK
  <2>. QED  BY <1>4, <2>2, HistoryUnchanged DEF Midnight
<1>. QED  BY <1>1, <1>2, <1>3, <1>4

\* A reading of the invocation link is a generation or nothing.
LEMMA ReadableType ==
  ASSUME TypeOK, NEW g \in ReadableGenerations
  PROVE  g \in {NoGeneration} \cup Generations
BY DEF TypeOK, ReadableGenerations

\* An idle sampler's record has its type.
LEMMA NotReadingType ==
  NotReading \in [pc : {"idle", "before", "read"}, before : {NoGeneration} \cup Generations,
                  source : {NoGeneration} \cup Generations, count : Counts]
BY DEF NotReading, Nothing, Counts

\* A sample gives its bytes to one day, in the totals and in the pending row alike.
LEMMA SampleHistory ==
  ASSUME HistoryInv, NEW a \in Samplers, Sample(a)
  PROVE  HistoryInv'
<1> USE DEF HistoryInv, core, memory, disk
<1>1. CASE SampleBegin(a)
  <2>1. PICK g \in ReadableGenerations :
          reading' = [reading EXCEPT ![a] = [pc |-> "before", before |-> g,
                                             source |-> NoGeneration, count |-> Nothing]]
    BY <1>1 DEF SampleBegin
  <2>2. g \in {NoGeneration} \cup Generations
    BY ReadableType
  <2>3. TypeOK'
    BY <1>1, <2>1, <2>2, NotReadingType DEF SampleBegin, TypeOK, NotReading, NoGeneration
  <2>. QED  BY <1>1, <2>3, HistoryUnchanged DEF SampleBegin
<1>2. CASE SampleRead(a)
  <2>1. current \in Generations /\ relayed[current] \in Counts
    BY <1>2 DEF SampleRead, TypeOK
  <2>2. TypeOK'
    BY <1>2, <2>1 DEF SampleRead, TypeOK
  <2>. QED  BY <1>2, <2>2, HistoryUnchanged DEF SampleRead
<1>3. CASE SampleUnavailable(a)
  <2>1. TypeOK'
    BY <1>3, NotReadingType DEF SampleUnavailable, TypeOK, NotReading
  <2>. QED  BY <1>3, <2>1, HistoryUnchanged DEF SampleUnavailable
<1>4. CASE SampleFinish(a)
  <2>1. PICK after \in ReadableGenerations : SampleRejected(a, after) \/ SampleApplied(a, after)
    BY <1>4 DEF SampleFinish
  <2>2. after \in {NoGeneration} \cup Generations
    BY ReadableType
  <2>3. reading' \in [Samplers ->
          [pc : {"idle", "before", "read"}, before : {NoGeneration} \cup Generations,
           source : {NoGeneration} \cup Generations, count : Counts]]
    BY <1>4, NotReadingType DEF SampleFinish, TypeOK
  <2>4. \A b \in Samplers : reading'[b].pc = "read" => reading'[b].source \in Generations
    BY <1>4 DEF SampleFinish, TypeOK, NotReading
  <2>5. CASE SampleRejected(a, after)
    <3>1. TypeOK'
      BY <1>4, <2>3, <2>4, <2>5 DEF SampleFinish, SampleRejected, TypeOK
    <3>. QED  BY <1>4, <2>5, <3>1, HistoryUnchanged DEF SampleFinish, SampleRejected
  <2>6. CASE SampleApplied(a, after)
    <3> DEFINE r == reading[a]
               g == IF r.before = after THEN after ELSE NoGeneration
               delta == Delta(r.count, g)
               bytes == delta["upload"] + delta["download"]
    <3>1. r.source \in Generations /\ r.count \in Counts
      BY <1>4 DEF SampleFinish, TypeOK
    <3>2. g \in {NoGeneration} \cup Generations
      BY <2>2
    <3>3. bytes \in Nat
      <4>1. delta \in Counts
        BY <3>1, <3>2, DeltaType
      <4>. QED  BY <4>1 DEF Counts, Directions
    <3>4. state' = Applied(r.source, r.count, g, bytes)
      BY <2>6 DEF SampleApplied
    <3>5. state' \in StateType
      BY <3>1, <3>2, <3>3, <3>4, AppliedType
    <3>6. today \in Days /\ lastDay \in Days
      BY DEF TypeOK
    <3>7. pending' \in [bytes : [Days -> Nat], partial : SUBSET Days]
      <4>1. PICK gap \in BOOLEAN : pending' = Recorded(bytes, gap, Restarted(r.count, g))
        BY <2>6 DEF SampleApplied
      <4>2. [pending.bytes EXCEPT ![today] = @ + bytes] \in [Days -> Nat]
        BY <3>3, <3>6 DEF TypeOK
      <4>. QED  BY <3>6, <4>1, <4>2 DEF TypeOK, Recorded
    <3>8. TypeOK'
      BY <1>4, <2>3, <2>4, <2>6, <3>5, <3>6, <3>7 DEF SampleFinish, SampleApplied, TypeOK
    <3>9. pending'.bytes = [pending.bytes EXCEPT ![today] = @ + bytes]
      BY <2>6 DEF SampleApplied, Recorded
    <3>10. state'.counted = [state.counted EXCEPT ![today] = @ + bytes]
      BY <3>4 DEF Applied
    <3>11. UNCHANGED <<saving, db>>
      BY <1>4 DEF SampleFinish
    <3>12. \A d \in Days : /\ pending.bytes[d] \in Nat /\ saving.bytes[d] \in Nat
                           /\ db.bytes[d] \in Nat /\ state.counted[d] \in Nat
      BY DEF TypeOK, StateType
    <3>13. \A d \in Days : InFlight'[d] = InFlight[d] /\ InFlight[d] \in Nat
      BY <3>11, <3>12 DEF InFlight, NoBytes
    <3>14. HistoryExact'
      <4> SUFFICES ASSUME NEW d \in Days
                   PROVE  /\ db.bytes[d] + pending'.bytes[d] = state'.counted[d] + InFlight[d]
                          /\ db.bytes[d] = db.state.counted[d]
        BY <3>11, <3>13 DEF HistoryExact
      <4>1. /\ db.bytes[d] + pending.bytes[d] = state.counted[d] + InFlight[d]
            /\ db.bytes[d] = db.state.counted[d]
        BY DEF HistoryExact
      <4>2. pending.bytes \in [Days -> Nat] /\ state.counted \in [Days -> Nat]
        BY DEF TypeOK, StateType
      <4>3. CASE d = today
        <5>1. pending'.bytes[d] = pending.bytes[d] + bytes /\ state'.counted[d] = state.counted[d] + bytes
          BY <3>9, <3>10, <4>2, <4>3
        <5>. QED  BY <3>3, <3>12, <3>13, <4>1, <5>1
      <4>4. CASE d # today
        <5>1. pending'.bytes[d] = pending.bytes[d] /\ state'.counted[d] = state.counted[d]
          BY <3>9, <3>10, <4>2, <4>4
        <5>. QED  BY <4>1, <5>1
      <4>. QED  BY <4>3, <4>4
    <3>15. \A d \in Days : pending.bytes[d] <= pending'.bytes[d] /\ pending'.bytes[d] \in Nat
      BY <3>3, <3>9, <3>12, <3>6 DEF TypeOK
    <3>16. saving.pc # "idle" => \A d \in Days : saving.bytes[d] <= pending'.bytes[d]
      BY <3>12, <3>15
    <3>. QED  BY <3>8, <3>11, <3>14, <3>16
  <2>. QED  BY <2>1, <2>5, <2>6
<1>. QED  BY <1>1, <1>2, <1>3, <1>4 DEF Sample

\* An idle save's record has its type.
LEMMA NotSavingType ==
  NotSaving \in [pc : {"idle", "snapshot", "committed"}, state : StateType,
                 bytes : [Days -> Nat], partial : SUBSET Days, lastDay : Days]
<1>1. 1 \in Days
  BY BoundsAssumption DEF Days
<1>. QED  BY <1>1, FreshType DEF NotSaving, NoBytes

\* Between the snapshot and the subtraction the same bytes are counted in the
\* table and in the pending rows; InFlight is the overlap.
LEMMA PersistHistory ==
  ASSUME HistoryInv, PersistSnapshot \/ PersistCommit \/ PersistFail \/ PersistFinish
  PROVE  HistoryInv'
<1> USE DEF HistoryInv, core, memory, disk
<1>0. \A d \in Days : /\ pending.bytes[d] \in Nat /\ saving.bytes[d] \in Nat
                      /\ db.bytes[d] \in Nat /\ state.counted[d] \in Nat
                      /\ saving.state.counted[d] \in Nat
  BY DEF TypeOK, StateType
<1>1. CASE PersistSnapshot
  <2>1. TypeOK'
    BY <1>1 DEF PersistSnapshot, TypeOK
  <2>2. HistoryExact'
    BY <1>1 DEF PersistSnapshot, HistoryExact, InFlight
  <2>3. \A d \in Days : db.bytes[d] + pending.bytes[d] = state.counted[d]
    BY <1>0, <1>1 DEF PersistSnapshot, HistoryExact, InFlight, NoBytes
  <2>. QED  BY <1>0, <1>1, <2>1, <2>2, <2>3 DEF PersistSnapshot
<1>2. CASE PersistCommit
  <2>1. [d \in Days |-> db.bytes[d] + saving.bytes[d]] \in [Days -> Nat]
    BY <1>0
  <2>2. /\ db'.bytes = [d \in Days |-> db.bytes[d] + saving.bytes[d]]
        /\ db'.state = saving.state
        /\ db' \in [state : StateType, bytes : [Days -> Nat],
                    partial : SUBSET Days, lastDay : Days]
    BY <1>2, <2>1 DEF PersistCommit, TypeOK
  <2>3. /\ saving'.pc = "committed" /\ saving'.bytes = saving.bytes
        /\ saving'.state = saving.state
        /\ saving' \in [pc : {"idle", "snapshot", "committed"}, state : StateType,
                        bytes : [Days -> Nat], partial : SUBSET Days, lastDay : Days]
    BY <1>2 DEF PersistCommit, TypeOK
  <2>4. TypeOK'
    BY <1>2, <2>2, <2>3 DEF PersistCommit, TypeOK
  <2>5. ASSUME NEW d \in Days
        PROVE  /\ db'.bytes[d] + pending.bytes[d] = state.counted[d] + saving.bytes[d]
               /\ db'.bytes[d] = saving.state.counted[d]
    <3>1. db.bytes[d] + pending.bytes[d] = state.counted[d]
      BY <1>0, <1>2 DEF PersistCommit, HistoryExact, InFlight, NoBytes
    <3>2. db.bytes[d] + saving.bytes[d] = saving.state.counted[d]
      BY <1>2 DEF PersistCommit
    <3>. QED  BY <1>0, <2>2, <3>1, <3>2
  <2>6. HistoryExact'
    BY <1>2, <2>2, <2>3, <2>5 DEF PersistCommit, HistoryExact, InFlight
  <2>. QED  BY <1>2, <2>3, <2>4, <2>6 DEF PersistCommit
<1>3. CASE PersistFail
  <2>1. TypeOK'
    BY <1>3, NotSavingType DEF PersistFail, TypeOK
  <2>2. HistoryExact'
    BY <1>3 DEF PersistFail, HistoryExact, InFlight, NotSaving
  <2>. QED  BY <1>3, <2>1, <2>2 DEF PersistFail, NotSaving
<1>4. CASE PersistFinish
  <2>1. \A d \in Days : saving.bytes[d] <= pending.bytes[d]
    BY <1>4 DEF PersistFinish
  <2>2. /\ pending'.bytes = [d \in Days |-> pending.bytes[d] - saving.bytes[d]]
        /\ pending' \in [bytes : [Days -> Nat], partial : SUBSET Days]
    BY <1>0, <1>4, <2>1 DEF PersistFinish, Unsaved, TypeOK
  <2>3. mirror' \in Counts
    BY <1>4 DEF PersistFinish, TypeOK, StateType
  <2>4. TypeOK'
    BY <1>4, <2>2, <2>3, NotSavingType DEF PersistFinish, TypeOK
  <2>5. ASSUME NEW d \in Days
        PROVE  /\ db.bytes[d] + pending'.bytes[d] = state.counted[d] + 0
               /\ db.bytes[d] = db.state.counted[d]
    <3>1. db.bytes[d] + pending.bytes[d] = state.counted[d] + saving.bytes[d]
      BY <1>4 DEF PersistFinish, HistoryExact, InFlight
    <3>2. db.bytes[d] = db.state.counted[d]
      BY DEF HistoryExact
    <3>3. pending'.bytes[d] = pending.bytes[d] - saving.bytes[d]
      BY <2>2
    <3>. QED  BY <1>0, <2>1, <3>1, <3>2, <3>3
  <2>6. HistoryExact'
    BY <1>4, <2>5 DEF PersistFinish, HistoryExact, InFlight, NotSaving, NoBytes
  <2>. QED  BY <1>4, <2>4, <2>6 DEF PersistFinish, NotSaving
<1>. QED  BY <1>1, <1>2, <1>3, <1>4

\* A panel opened on its checkpoint has no pending rows and counts what the table
\* holds.
LEMMA RestartHistory ==
  ASSUME HistoryInv, PanelRestart
  PROVE  HistoryInv'
<1> USE DEF HistoryInv, core, disk
<1>1. TypeOK'
  <2>1. reading' \in [Samplers ->
          [pc : {"idle", "before", "read"}, before : {NoGeneration} \cup Generations,
           source : {NoGeneration} \cup Generations, count : Counts]]
    BY NotReadingType DEF PanelRestart
  <2>2. \A b \in Samplers : reading'[b].pc = "idle"
    BY DEF PanelRestart, NotReading
  <2>3. pending' \in [bytes : [Days -> Nat], partial : SUBSET Days]
    BY DEF PanelRestart, NoBytes
  <2>4. state' \in StateType /\ lastDay' \in Days
    BY DEF PanelRestart, TypeOK
  <2>. QED  BY <2>1, <2>2, <2>3, <2>4, NotSavingType DEF PanelRestart, TypeOK
<1>2. \A d \in Days : db.bytes[d] \in Nat /\ db.bytes[d] = db.state.counted[d]
  BY DEF TypeOK, HistoryExact
<1>3. HistoryExact'
  BY <1>2 DEF PanelRestart, HistoryExact, InFlight, NotSaving, NoBytes
<1>. QED  BY <1>1, <1>3 DEF PanelRestart, NotSaving

\* Every step keeps the history exact.
LEMMA HistoryStep == HistoryInv /\ [Next]_vars => HistoryInv'
<1> SUFFICES ASSUME HistoryInv, [Next]_vars
             PROVE  HistoryInv'
  OBVIOUS
<1>1. CASE CoreStart \/ CoreStop \/ (\E dir \in Directions : Relay(dir)) \/ Midnight
  BY <1>1, CoreHistory
<1>2. ASSUME NEW a \in Samplers, Sample(a)
      PROVE  HistoryInv'
  BY <1>2, SampleHistory
<1>3. CASE PersistSnapshot \/ PersistCommit \/ PersistFail \/ PersistFinish
  BY <1>3, PersistHistory
<1>4. CASE PanelRestart
  BY <1>4, RestartHistory
<1>5. CASE UNCHANGED vars
  BY <1>5 DEF vars, HistoryInv, TypeOK, HistoryExact, InFlight
<1>. QED  BY <1>1, <1>2, <1>3, <1>4, <1>5 DEF Next

\* Every reachable state is well typed: no total, baseline or pending row ever
\* goes negative (tracker.go:234-288, 460-470).
THEOREM TypeCorrect == Spec => []TypeOK
<1>1. HistoryInv => TypeOK
  BY DEF HistoryInv
<1>. QED  BY <1>1, HistoryInit, HistoryStep, PTL DEF Spec

\* The daily history is exact at every moment of every save, whatever is sampled
\* meanwhile and wherever the panel crashes (tracker.go:409-511).
THEOREM HistoryIsExact == Spec => []HistoryExact
<1>1. HistoryInv => HistoryExact
  BY DEF HistoryInv
<1>. QED  BY <1>1, HistoryInit, HistoryStep, PTL DEF Spec

-----------------------------------------------------------------------------
(* Counting *)

\* The core may only relay more, die, or start a new generation.
LEMMA SoundMonotone ==
  ASSUME NEW s \in StateType, NEW c \in Nat, NEW c2 \in Nat,
         NEW u \in BOOLEAN, NEW u2 \in BOOLEAN,
         NEW rel \in [Generations -> Counts], NEW rel2 \in [Generations -> Counts],
         c <= c2, c = c2 /\ u2 => u,
         \A g \in Generations, dir \in Directions : rel[g][dir] <= rel2[g][dir],
         SoundFor(s, c, u, rel)
  PROVE  SoundFor(s, c2, u2, rel2)
<1>1. s.base \in Nat /\ s.generation \in Nat /\ s.credited \in [Generations -> Counts] /\ s.last \in Counts
  BY BoundsAssumption DEF StateType, Generations, NoGeneration
<1>2. ASSUME NEW g \in Generations, NEW dir \in Directions
      PROVE  /\ s.credited[g][dir] <= rel2[g][dir]
             /\ g > s.base => s.credited[g][dir] = 0
             /\ g = s.base => /\ s.credited[g][dir] <= s.last[dir]
                              /\ s.last[dir] <= rel2[g][dir]
  <2>1. /\ s.credited[g][dir] \in Nat /\ s.last[dir] \in Nat
        /\ rel[g][dir] \in Nat /\ rel2[g][dir] \in Nat
    BY <1>1 DEF Counts
  <2>2. rel[g][dir] <= rel2[g][dir]
    OBVIOUS
  <2>3. /\ s.credited[g][dir] <= rel[g][dir]
        /\ g > s.base => s.credited[g][dir] = 0
        /\ g = s.base => /\ s.credited[g][dir] <= s.last[dir]
                         /\ s.last[dir] <= rel[g][dir]
    BY DEF SoundFor
  <2>. QED  BY <2>1, <2>2, <2>3
<1>3. s.generation # s.base => s.base < c2 \/ ~u2
  BY <1>1 DEF SoundFor
<1>. QED  BY <1>1, <1>2, <1>3 DEF SoundFor

\* A reading adds to the credit of the generation it was read from no more than
\* that generation relayed, and all of it once the generation is known.
LEMMA AppliedSound ==
  ASSUME CountingInv, ReliableIdentity, NEW a \in Samplers, reading[a].pc = "read",
         NEW after \in ReadableGenerations, SampleApplied(a, after)
  PROVE  Sound(state')
<1> DEFINE r == reading[a]
           g == IF r.before = after THEN after ELSE NoGeneration
           delta == Delta(r.count, g)
           bytes == delta["upload"] + delta["download"]
           src == r.source
<1>1. /\ src \in Generations /\ r.count \in Counts /\ r.before \in {NoGeneration} \cup Generations
      /\ state \in StateType /\ relayed \in [Generations -> Counts]
      /\ current \in {NoGeneration} \cup Generations
  BY DEF CountingInv, TypeOK
<1>2. /\ state.base \in {NoGeneration} \cup Generations
      /\ state.generation \in {NoGeneration} \cup Generations
      /\ state.last \in Counts /\ state.credited \in [Generations -> Counts]
  BY <1>1 DEF StateType
<1>3. after = IF up THEN current ELSE NoGeneration
  BY DEF ReadableGenerations
<1>4. g \in {NoGeneration} \cup Generations /\ delta \in Counts
  <2>1. TypeOK
    BY DEF CountingInv
  <2>. QED  BY <1>1, <1>3, <2>1, DeltaType
<1>5. state' = Applied(src, r.count, g, bytes)
  BY DEF SampleApplied
<1>6. /\ state'.base = src /\ state'.last = r.count
      /\ state'.generation = IF g = NoGeneration THEN state.generation ELSE g
      /\ state'.credited = Credited(src, delta)
      /\ state'.blind = (state.blind \/ (g = NoGeneration /\ state.generation = NoGeneration))
  BY <1>5 DEF Applied
<1>7. /\ r.before # NoGeneration /\ r.before <= src /\ src <= current
      /\ state.base <= r.before /\ (r.before = state.base => state.generation = state.base)
      /\ \A dir \in Directions : r.count[dir] <= relayed[src][dir]
      /\ src = state.base => \A dir \in Directions : state.last[dir] <= r.count[dir]
  BY DEF CountingInv, ReadingSound
<1>8. Sound(state)
  BY DEF CountingInv
<1>9. \A h \in Generations, dir \in Directions :
        /\ state.credited[h][dir] \in Nat /\ state.last[dir] \in Nat
        /\ r.count[dir] \in Nat /\ delta[dir] \in Nat /\ relayed[h][dir] \in Nat
  BY <1>1, <1>2, <1>4 DEF Counts
\* An anonymous reading comes from a core that has died since.
<1>10. g = NoGeneration => src < current \/ ~up
  <2>1. CASE up
    <3>1. after = current /\ after # NoGeneration
      BY <1>3, <2>1 DEF CountingInv, TypeOK
    <3>2. r.before = after
      BY <1>7, <3>1 DEF SampleApplied
    <3>. QED  BY <3>1, <3>2
  <2>. QED  BY <2>1
\* An identified reading comes from the generation it names.
<1>11. g # NoGeneration => g = src /\ g = r.before
  <2>1. CASE g # NoGeneration
    <3>1. g = after /\ g = r.before /\ g = current
      BY <1>3, <2>1
    <3>. QED  BY <1>1, <1>7, <3>1 DEF Generations, NoGeneration
  <2>. QED  BY <2>1
<1>12. \A dir \in Directions : state'.credited[src][dir] = state.credited[src][dir] + delta[dir]
  BY <1>1, <1>2, <1>6 DEF Credited
<1>13. \A h \in Generations : h # src => state'.credited[h] = state.credited[h]
  BY <1>1, <1>2, <1>6 DEF Credited
<1>14. state.base <= src
  BY <1>1, <1>2, <1>7 DEF Generations, NoGeneration
\* The same generation again: the difference is added.
<1>15. CASE src = state.base
  <2>1. src \in Nat \ {0}
    BY <1>1 DEF Generations
  <2>2. r.before = src
    <3>1. r.before \in Nat /\ src \in Nat
      BY <1>1 DEF Generations, NoGeneration
    <3>. QED  BY <1>7, <1>15, <3>1
  <2>3. state.generation = src
    BY <1>7, <1>15, <2>2
  <2>4. ~Restarted(r.count, g)
    <3>1. \A dir \in Directions : ~(r.count[dir] < state.last[dir])
      BY <1>2, <1>1, <1>7, <1>9, <1>15
    <3>2. g # NoGeneration => g = state.generation
      BY <1>11, <2>3
    <3>. QED  BY <3>1, <3>2 DEF Restarted
  <2>5. \A dir \in Directions : delta[dir] = r.count[dir] - state.last[dir]
    BY <2>4 DEF Delta
  <2>6. \A dir \in Directions :
          state.credited[src][dir] <= state.last[dir] /\ state.last[dir] <= relayed[src][dir]
    BY <1>1, <1>8, <1>15 DEF Sound, SoundFor
  <2>7. ASSUME NEW h \in Generations, NEW dir \in Directions
        PROVE  /\ state'.credited[h][dir] <= relayed[h][dir]
               /\ h > src => state'.credited[h][dir] = 0
               /\ h = src => /\ state'.credited[h][dir] <= r.count[dir]
                             /\ r.count[dir] <= relayed[h][dir]
    <3>1. CASE h = src
      <4>1. state'.credited[h][dir] = state.credited[src][dir] + (r.count[dir] - state.last[dir])
        BY <1>12, <2>5, <3>1
      <4>2. state'.credited[h][dir] <= r.count[dir]
        BY <1>1, <1>9, <2>6, <4>1
      <4>3. r.count[dir] <= relayed[h][dir]
        BY <1>7, <3>1
      <4>. QED  BY <1>1, <1>9, <2>1, <3>1, <4>1, <4>2, <4>3
    <3>2. CASE h # src
      BY <1>8, <1>13, <1>15, <3>2 DEF Sound, SoundFor
    <3>. QED  BY <3>1, <3>2
  <2>8. state'.generation = src /\ state'.base = src
    BY <1>6, <1>11, <2>3
  <2>9. ~state'.blind => state'.credited[src] = r.count
    <3>1. SUFFICES ASSUME ~state'.blind
                   PROVE  state'.credited[src] = r.count
      OBVIOUS
    <3>2. ~state.blind
      BY <1>6, <3>1
    <3>3. state.credited[src] = state.last
      BY <1>8, <1>15, <2>1, <2>3, <3>2 DEF Sound, SoundFor, NoGeneration
    <3>4. \A dir \in Directions : state'.credited[src][dir] = r.count[dir]
      BY <1>1, <1>9, <1>12, <2>5, <3>3
    <3>5. state'.credited[src] = [dir \in Directions |-> state.credited[src][dir] + delta[dir]]
      BY <1>1, <1>2, <1>6 DEF Credited
    <3>. QED  BY <1>1, <3>4, <3>5 DEF Counts
  <2>10. \A h \in Generations, dir \in Directions :
           /\ state'.credited[h][dir] <= relayed[h][dir]
           /\ h > state'.base => state'.credited[h][dir] = 0
           /\ h = state'.base => /\ state'.credited[h][dir] <= state'.last[dir]
                                 /\ state'.last[dir] <= relayed[h][dir]
    BY <1>6, <2>7, <2>8
  <2>11. /\ state'.generation <= state'.base /\ state'.base <= current
         /\ state'.base # NoGeneration /\ state'.generation = state'.base
    BY <1>6, <1>7, <2>1, <2>8 DEF NoGeneration
  <2>12. ~state'.blind => state'.credited[state'.base] = state'.last
    BY <1>6, <2>8, <2>9
  <2>. QED  BY <1>6, <2>10, <2>11, <2>12 DEF Sound, SoundFor
\* A new generation: nothing of it has been credited yet.
<1>16. CASE src # state.base
  <2>1. state.base < src /\ src \in Nat \ {0}
    BY <1>1, <1>2, <1>14, <1>16 DEF Generations, NoGeneration
  <2>2. \A dir \in Directions : state.credited[src][dir] = 0
    BY <1>1, <1>8, <2>1 DEF Sound, SoundFor
  <2>3. \A dir \in Directions : delta[dir] <= r.count[dir]
    BY <1>9, <1>1 DEF Delta
  <2>4. ASSUME NEW h \in Generations, NEW dir \in Directions
        PROVE  /\ state'.credited[h][dir] <= relayed[h][dir]
               /\ h > src => state'.credited[h][dir] = 0
               /\ h = src => /\ state'.credited[h][dir] <= r.count[dir]
                             /\ r.count[dir] <= relayed[h][dir]
    <3>1. CASE h = src
      <4>1. state'.credited[h][dir] = 0 + delta[dir]
        BY <1>12, <2>2, <3>1
      <4>. QED  BY <1>7, <1>9, <2>1, <2>3, <3>1, <4>1
    <3>2. CASE h # src
      <4>1. h > src => h > state.base
        BY <1>1, <1>2, <2>1 DEF Generations, NoGeneration
      <4>. QED  BY <1>8, <1>13, <3>2, <4>1 DEF Sound, SoundFor
    <3>. QED  BY <3>1, <3>2
  <2>5. state.generation <= state.base
    BY <1>8 DEF Sound, SoundFor
  <2>6. state.generation < src /\ state.generation \in Nat
    BY <1>2, <2>1, <2>5 DEF Generations, NoGeneration
  <2>7. /\ state'.generation <= src
        /\ state'.generation # src => src < current \/ ~up
    BY <1>6, <1>10, <1>11, <2>1, <2>6
  <2>8. state'.generation = NoGeneration => state'.blind
    BY <1>6
  <2>9. state'.generation = src /\ ~state'.blind => state'.credited[src] = r.count
    <3>1. SUFFICES ASSUME state'.generation = src, ~state'.blind
                   PROVE  state'.credited[src] = r.count
      OBVIOUS
    <3>2. g = src /\ g # NoGeneration /\ ~state.blind
      <4>1. g # NoGeneration /\ g = src
        <5>1. CASE g = NoGeneration
          BY <1>6, <2>1, <2>6, <3>1, <5>1
        <5>. QED  BY <1>6, <3>1, <5>1
      <4>2. ~state.blind
        BY <1>6, <3>1, Zenon
      <4>. QED  BY <4>1, <4>2
    <3>3. \A dir \in Directions : delta[dir] = r.count[dir]
      <4>1. CASE state.generation # NoGeneration
        BY <2>6, <3>2, <4>1 DEF Delta, Restarted
      <4>2. CASE state.generation = NoGeneration
        <5>1. state.base = NoGeneration
          BY <1>8, <3>2, <4>2 DEF Sound, SoundFor
        <5>2. state.last = Nothing
          BY <1>8, <5>1 DEF Sound, SoundFor
        <5>. QED  BY <1>1, <1>9, <5>2 DEF Delta, Nothing
      <4>. QED  BY <4>1, <4>2
    <3>4. state'.credited[src] = [dir \in Directions |-> state.credited[src][dir] + delta[dir]]
      BY <1>1, <1>2, <1>6 DEF Credited
    <3>5. state'.credited[src] = [dir \in Directions |-> r.count[dir]]
      <4>1. \A dir \in Directions : r.count[dir] \in Nat
        BY <1>1 DEF Counts
      <4> HIDE DEF delta, r, src
      <4>2. \A dir \in Directions : state.credited[src][dir] + delta[dir] = r.count[dir]
        BY <4>1, <2>2, <3>3
      <4>. QED  BY <3>4, <4>2
    <3>. QED  BY <1>1, <3>5 DEF Counts
  <2>. QED  BY <1>6, <1>7, <2>1, <2>4, <2>7, <2>8, <2>9 DEF Sound, SoundFor, NoGeneration
<1>. QED  BY <1>15, <1>16

\* Nothing is credited at first.
LEMMA CountingInit == Init => CountingInv
<1> SUFFICES ASSUME Init PROVE CountingInv
  OBVIOUS
<1>1. TypeOK
  BY HistoryInit DEF HistoryInv
<1>2. Sound(state) /\ Sound(db.state)
  <2>1. Sound(FreshState)
    <3>1. /\ FreshState.generation = 0 /\ FreshState.base = 0 /\ FreshState.last = Nothing
          /\ FreshState.credited = [g \in Generations |-> Nothing]
      BY DEF FreshState, NoGeneration
    <3>2. relayed = [g \in Generations |-> Nothing] /\ current = 0
      BY DEF Init, NoGeneration
    <3>3. \A g \in Generations : g # 0 /\ g \in Nat
      BY BoundsAssumption DEF Generations
    <3>. QED  BY <3>1, <3>2, <3>3 DEF Sound, SoundFor, Nothing, NoGeneration
  <2>. QED  BY <2>1 DEF Init
<1>3. saving.pc = "idle" /\ \A a \in Samplers : reading[a].pc = "idle"
  BY DEF Init, NotSaving, NotReading
<1>4. \A a \in Samplers : ReadingSound(a)
  BY <1>3 DEF ReadingSound
<1>. QED  BY <1>1, <1>2, <1>3, <1>4 DEF CountingInv

\* Generations are ordered as numbers.
LEMMA GenerationsAreNaturals == \A g \in {NoGeneration} \cup Generations : g \in Nat
BY BoundsAssumption DEF Generations, NoGeneration

\* The core moves to newer generations and never takes a relayed byte back.
LEMMA CoreGrows ==
  ASSUME TypeOK, TypeOK',
         CoreStart \/ CoreStop \/ (\E dir \in Directions : Relay(dir))
  PROVE  /\ current \in Nat /\ current' \in Nat /\ up \in BOOLEAN /\ up' \in BOOLEAN
         /\ relayed \in [Generations -> Counts] /\ relayed' \in [Generations -> Counts]
         /\ current <= current' /\ (current = current' /\ up' => up)
         /\ \A g \in Generations, dir \in Directions : relayed[g][dir] <= relayed'[g][dir]
<1>1. /\ current \in Nat /\ current' \in Nat /\ up \in BOOLEAN /\ up' \in BOOLEAN
      /\ relayed \in [Generations -> Counts] /\ relayed' \in [Generations -> Counts]
  <2>1. current \in {NoGeneration} \cup Generations /\ current' \in {NoGeneration} \cup Generations
    BY DEF TypeOK
  <2>2. /\ up \in BOOLEAN /\ up' \in BOOLEAN
        /\ relayed \in [Generations -> Counts] /\ relayed' \in [Generations -> Counts]
    BY DEF TypeOK
  <2>. QED  BY <2>1, <2>2, GenerationsAreNaturals
<1>2. current <= current' /\ (current = current' /\ up' => up)
  BY <1>1 DEF CoreStart, CoreStop, Relay
<1>3. \A g \in Generations, dir \in Directions : relayed[g][dir] <= relayed'[g][dir]
  <2>0. \A g \in Generations, dir \in Directions : relayed[g][dir] \in Nat
    BY <1>1 DEF Counts
  <2>1. CASE CoreStart \/ CoreStop
    BY <2>0, <2>1 DEF CoreStart, CoreStop
  <2>2. ASSUME NEW dir \in Directions, Relay(dir), NEW g \in Generations, NEW e \in Directions
        PROVE  relayed[g][e] <= relayed'[g][e]
    <3>1. current \in Generations
      BY <2>2 DEF Relay, TypeOK
    <3>2. relayed' = [relayed EXCEPT ![current] = [relayed[current] EXCEPT ![dir] = @ + 1]]
      BY <2>2 DEF Relay
    <3>3. relayed[g] \in [Directions -> Nat]
      BY <1>1 DEF Counts
    <3>4. relayed'[g] = IF g = current THEN [relayed[g] EXCEPT ![dir] = @ + 1] ELSE relayed[g]
      BY <1>1, <3>1, <3>2
    <3>5. relayed'[g][e] = relayed[g][e] \/ relayed'[g][e] = relayed[g][e] + 1
      BY <3>3, <3>4
    <3>. QED  BY <2>0, <3>5
  <2>. QED  BY <2>1, <2>2
<1>. QED  BY <1>1, <1>2, <1>3

\* Steps of the core leave every copy of the state sound.
LEMMA CoreSound ==
  ASSUME TypeOK, TypeOK', NEW s \in StateType, SoundFor(s, current, up, relayed),
         CoreStart \/ CoreStop \/ (\E dir \in Directions : Relay(dir))
  PROVE  SoundFor(s, current', up', relayed')
BY CoreGrows, SoundMonotone

\* The core's steps keep every copy of the state, and every reading under way, sound.
LEMMA CoreCounting ==
  ASSUME CountingInv, TypeOK', ReliableIdentity,
         CoreStart \/ CoreStop \/ (\E dir \in Directions : Relay(dir))
  PROVE  CountingInv'
<1>1. UNCHANGED <<memory, saving, disk>>
  BY DEF CoreStart, CoreStop, Relay
<1>2. Sound(state)' /\ Sound(db.state)' /\ (saving.pc # "idle" => Sound(saving.state))'
  BY <1>1, CoreSound DEF CountingInv, TypeOK, Sound, memory, disk
<1>3. ASSUME NEW a \in Samplers
      PROVE  ReadingSound(a)'
  <2>0. ReadingSound(a) /\ reading' = reading /\ sampleMu' = sampleMu /\ state' = state
    BY <1>1 DEF CountingInv, memory
  <2>1. /\ current \in Nat /\ current' \in Nat /\ current <= current'
        /\ reading[a].before \in Nat
        /\ \A g \in Generations, dir \in Directions : relayed[g][dir] <= relayed'[g][dir]
    <3>1. reading[a].before \in {NoGeneration} \cup Generations /\ TypeOK
      BY DEF CountingInv, TypeOK
    <3>. QED  BY <3>1, CoreGrows, GenerationsAreNaturals
  <2>2. CASE reading[a].pc = "idle"
    BY <2>0, <2>2 DEF ReadingSound
  <2>3. CASE reading[a].pc = "before"
    <3>1. reading[a].before = NoGeneration => ~up'
      BY <2>0, <2>3 DEF ReadingSound, CoreStart, CoreStop, Relay
    <3>. QED  BY <2>0, <2>1, <2>3, <3>1 DEF ReadingSound
  <2>4. CASE reading[a].pc = "read"
    <3>1. /\ reading[a].source \in Generations /\ reading[a].source \in Nat
          /\ reading[a].source <= current
      <4>1. reading[a].source \in Generations
        BY <2>4 DEF CountingInv, TypeOK
      <4>. QED  BY <2>0, <2>4, <4>1, GenerationsAreNaturals DEF ReadingSound
    <3>2. \A dir \in Directions :
            /\ reading[a].count[dir] \in Nat
            /\ relayed[reading[a].source][dir] \in Nat
            /\ relayed'[reading[a].source][dir] \in Nat
      BY <3>1, CoreGrows DEF CountingInv, TypeOK, Counts
    <3>3. \A dir \in Directions : relayed[reading[a].source][dir] <= relayed'[reading[a].source][dir]
      BY <2>1, <3>1
    <3>. QED  BY <2>0, <2>1, <2>4, <3>1, <3>2, <3>3 DEF ReadingSound
  <2>. QED  BY <2>2, <2>3, <2>4 DEF CountingInv, TypeOK
<1>. QED  BY <1>2, <1>3 DEF CountingInv

\* With sampleMu free or held by another, a sampler is idle.
LEMMA OneReading ==
  ASSUME CountingInv, NEW a \in Samplers, sampleMu # a
  PROVE  reading[a].pc = "idle"
BY DEF CountingInv, ReadingSound

\* A sample keeps them sound: this is the heart of the argument, see SoundFor.
LEMMA SampleCounting ==
  ASSUME CountingInv, TypeOK', ReliableIdentity, NEW a \in Samplers, Sample(a)
  PROVE  CountingInv'
<1> USE DEF core, disk
<1>0. /\ TypeOK /\ reading \in [Samplers -> [pc : {"idle", "before", "read"},
               before : {NoGeneration} \cup Generations,
               source : {NoGeneration} \cup Generations, count : Counts]]
      /\ current \in Nat /\ state.base \in Nat
  BY GenerationsAreNaturals DEF CountingInv, TypeOK, StateType
<1>1. CASE SampleBegin(a)
  <2>1. PICK g \in ReadableGenerations :
          reading' = [reading EXCEPT ![a] = [pc |-> "before", before |-> g,
                                             source |-> NoGeneration, count |-> Nothing]]
    BY <1>1 DEF SampleBegin
  <2>2. g = IF up THEN current ELSE NoGeneration
    BY DEF ReadableGenerations
  <2>3. UNCHANGED <<core, state, saving, db>> /\ sampleMu' = a
    BY <1>1 DEF SampleBegin
  <2>4. ReadingSound(a)'
    <3>1. reading'[a] = [pc |-> "before", before |-> g,
                         source |-> NoGeneration, count |-> Nothing]
      BY <1>0, <2>1
    <3>2. g <= current
      BY <1>0, <2>2 DEF NoGeneration
    <3>3. g # NoGeneration => state.base <= g /\ (g = state.base => state.generation = state.base)
      BY <1>0, <2>2 DEF CountingInv, Sound, SoundFor
    <3>4. g = NoGeneration => ~up
      BY <2>2 DEF CountingInv, TypeOK
    <3>. QED  BY <2>3, <3>1, <3>2, <3>3, <3>4 DEF ReadingSound
  <2>5. ASSUME NEW b \in Samplers, b # a
        PROVE  ReadingSound(b)'
    <3>1. reading[b].pc = "idle"
      BY <1>1, OneReading, SamplersAssumption DEF SampleBegin
    <3>2. reading'[b] = reading[b]
      BY <1>0, <2>1, <2>5
    <3>. QED  BY <3>1, <3>2 DEF ReadingSound
  <2>. QED  BY <2>3, <2>4, <2>5 DEF CountingInv, Sound
<1>2. CASE SampleRead(a)
  <2>1. reading' = [reading EXCEPT ![a] = [pc |-> "read", before |-> reading[a].before,
                                           source |-> current, count |-> relayed[current]]]
    BY <1>2 DEF SampleRead
  <2>2. UNCHANGED <<core, state, saving, db, sampleMu>>
    BY <1>2 DEF SampleRead
  <2>3. ReadingSound(a)'
    <3>1. reading'[a] = [pc |-> "read", before |-> reading[a].before,
                         source |-> current, count |-> relayed[current]]
      BY <1>0, <2>1
    <3>2. up /\ reading[a].pc = "before" /\ ReadingSound(a)
      BY <1>2 DEF SampleRead, CountingInv
    <3>3. /\ reading[a].before # NoGeneration /\ sampleMu = a /\ reading[a].before <= current
          /\ state.base <= reading[a].before
          /\ reading[a].before = state.base => state.generation = state.base
      BY <3>2 DEF ReadingSound
    <3>4. current \in Generations
      BY <1>0, <3>2 DEF TypeOK
    <3>5. \A dir \in Directions : relayed[current][dir] <= relayed[current][dir]
      BY <3>4 DEF CountingInv, TypeOK, Counts
    <3>6. current = state.base => \A dir \in Directions : state.last[dir] <= relayed[current][dir]
      BY <3>4 DEF CountingInv, Sound, SoundFor
    <3>. QED  BY <1>0, <2>2, <3>1, <3>3, <3>5, <3>6 DEF ReadingSound
  <2>4. ASSUME NEW b \in Samplers, b # a
        PROVE  ReadingSound(b)'
    <3>1. reading[b].pc = "idle"
      BY <1>2, <2>4 DEF SampleRead, CountingInv, ReadingSound
    <3>2. reading'[b] = reading[b]
      BY <1>0, <2>1, <2>4
    <3>. QED  BY <3>1, <3>2 DEF ReadingSound
  <2>. QED  BY <2>2, <2>3, <2>4 DEF CountingInv, Sound
<1>3. CASE SampleUnavailable(a) \/ SampleFinish(a)
  <2>1. reading' = [reading EXCEPT ![a] = NotReading] /\ UNCHANGED <<core, saving, db>>
    BY <1>3 DEF SampleUnavailable, SampleFinish
  <2>2. ASSUME NEW b \in Samplers
        PROVE  ReadingSound(b)'
    <3>1. CASE b = a
      BY <1>0, <2>1, <3>1 DEF ReadingSound, NotReading
    <3>2. CASE b # a
      <4>1. reading[b].pc = "idle"
        BY <1>3, <3>2 DEF SampleUnavailable, SampleFinish, CountingInv, ReadingSound
      <4>2. reading'[b] = reading[b]
        BY <1>0, <2>1, <3>2
      <4>. QED  BY <4>1, <4>2 DEF ReadingSound
    <3>. QED  BY <3>1, <3>2
  <2>3. Sound(state')
    <3>1. CASE SampleUnavailable(a)
      BY <3>1 DEF SampleUnavailable, CountingInv
    <3>2. CASE SampleFinish(a)
      <4>1. reading[a].pc = "read"
        BY <3>2 DEF SampleFinish
      <4>2. PICK after \in ReadableGenerations : SampleRejected(a, after) \/ SampleApplied(a, after)
        BY <3>2 DEF SampleFinish
      <4>3. CASE SampleRejected(a, after)
        BY <4>3 DEF SampleRejected, CountingInv
      <4>4. CASE SampleApplied(a, after)
        BY <4>1, <4>4, AppliedSound
      <4>. QED  BY <4>2, <4>3, <4>4
    <3>. QED  BY <1>3, <3>1, <3>2
  <2>4. Sound(state)'
    BY <2>1, <2>3 DEF Sound
  <2>. QED  BY <2>1, <2>2, <2>4 DEF CountingInv, Sound
<1>. QED  BY <1>1, <1>2, <1>3 DEF Sample

\* Saves and panel restarts only move sound copies around.
LEMMA DiskCounting ==
  ASSUME CountingInv, TypeOK',
         \/ Midnight \/ PersistSnapshot \/ PersistCommit \/ PersistFail
         \/ PersistFinish \/ PanelRestart
  PROVE  CountingInv'
<1> USE DEF core, memory, disk
<1>1. CASE Midnight
  BY <1>1 DEF Midnight, CountingInv, Sound, ReadingSound
<1>2. CASE PersistSnapshot
  BY <1>2 DEF PersistSnapshot, CountingInv, Sound, ReadingSound
<1>3. CASE PersistCommit
  <2>1. db'.state = saving.state /\ saving'.state = saving.state /\ Sound(saving.state)
    BY <1>3 DEF PersistCommit, CountingInv, TypeOK
  <2>. QED  BY <1>3, <2>1 DEF PersistCommit, CountingInv, Sound, ReadingSound
<1>4. CASE PersistFail \/ PersistFinish
  <2>1. saving'.pc = "idle" /\ UNCHANGED <<core, state, reading, sampleMu, db>>
    BY <1>4 DEF PersistFail, PersistFinish, NotSaving
  <2>. QED  BY <2>1 DEF CountingInv, Sound, ReadingSound
<1>5. CASE PanelRestart
  <2>1. saving'.pc = "idle" /\ \A a \in Samplers : reading'[a].pc = "idle"
    BY <1>5 DEF PanelRestart, NotSaving, NotReading
  <2>2. state' = db.state /\ UNCHANGED <<core, db>>
    BY <1>5 DEF PanelRestart
  <2>3. \A a \in Samplers : ReadingSound(a)'
    BY <2>1 DEF ReadingSound
  <2>. QED  BY <2>1, <2>2, <2>3 DEF CountingInv, Sound
<1>. QED  BY <1>1, <1>2, <1>3, <1>4, <1>5

\* Every step keeps them sound.
LEMMA CountingStep ==
  ASSUME ReliableIdentity
  PROVE  CountingInv /\ TypeOK' /\ [Next]_vars => CountingInv'
<1> SUFFICES ASSUME CountingInv, TypeOK', [Next]_vars
             PROVE  CountingInv'
  OBVIOUS
<1>1. CASE CoreStart \/ CoreStop \/ (\E dir \in Directions : Relay(dir))
  BY <1>1, CoreCounting
<1>2. ASSUME NEW a \in Samplers, Sample(a)
      PROVE  CountingInv'
  BY <1>2, SampleCounting
<1>3. CASE \/ Midnight \/ PersistSnapshot \/ PersistCommit \/ PersistFail
           \/ PersistFinish \/ PanelRestart
  BY <1>3, DiskCounting
<1>4. CASE UNCHANGED vars
  BY <1>4 DEF vars, CountingInv, Sound, ReadingSound
<1>. QED  BY <1>1, <1>2, <1>3, <1>4 DEF Next

\* With a reliable core identity, two samplers, restarts of the core and restarts
\* of the panel never make the totals count a byte twice (tracker.go:162-193).
THEOREM CountedOnce ==
  ASSUME ReliableIdentity
  PROVE  Spec => []NoByteCountedTwice
<1>1. CountingInv => NoByteCountedTwice
  BY DEF CountingInv, Sound, SoundFor, NoByteCountedTwice
<1>2. Init => CountingInv
  BY CountingInit
<1>3. CountingInv /\ TypeOK' /\ [Next]_vars => CountingInv'
  BY CountingStep
<1>. QED  BY <1>1, <1>2, <1>3, TypeCorrect, PTL DEF Spec

\* Under the same assumption no byte of an identified generation is skipped
\* either, even when its counters overtook the previous baseline (tracker.go:244-263).
THEOREM NoneSkipped ==
  ASSUME ReliableIdentity
  PROVE  Spec => []NothingSkipped
<1>1. CountingInv => NothingSkipped
  BY DEF CountingInv, Sound, SoundFor, NothingSkipped
<1>2. Init => CountingInv
  BY CountingInit
<1>3. CountingInv /\ TypeOK' /\ [Next]_vars => CountingInv'
  BY CountingStep
<1>. QED  BY <1>1, <1>2, <1>3, TypeCorrect, PTL DEF Spec

-----------------------------------------------------------------------------
(* The daily history implements UsageLedger *)

Live == [d \in Days |-> db.bytes[d] + pending.bytes[d] - InFlight[d]]

\* The amounts the ledger speaks of are natural numbers.
LEMMA LiveTypes ==
  ASSUME HistoryInv
  PROVE  \A d \in Days : /\ db.bytes[d] \in Nat /\ pending.bytes[d] \in Nat
                         /\ saving.bytes[d] \in Nat /\ InFlight[d] \in Nat
BY DEF HistoryInv, TypeOK, InFlight, NoBytes

\* Samples record; what was committed and not yet subtracted is counted once.
LEMMA SampleRecords ==
  ASSUME HistoryInv, HistoryInv', NEW a \in Samplers, Sample(a)
  PROVE  [Ledger!LedgerNext]_<<Live, db.bytes>>
<1> USE DEF core, disk
<1>1. CASE SampleBegin(a) \/ SampleRead(a) \/ SampleUnavailable(a)
  <2>1. UNCHANGED <<pending, saving, db>>
    BY <1>1 DEF SampleBegin, SampleRead, SampleUnavailable
  <2>. QED  BY <2>1 DEF Live, InFlight
<1>2. CASE SampleFinish(a)
  <2>1. PICK after \in ReadableGenerations : SampleRejected(a, after) \/ SampleApplied(a, after)
    BY <1>2 DEF SampleFinish
  <2>2. UNCHANGED <<saving, db>>
    BY <1>2 DEF SampleFinish
  <2>3. CASE SampleRejected(a, after)
    BY <2>2, <2>3 DEF SampleRejected, Live, InFlight
  <2>4. CASE SampleApplied(a, after)
    <3>1. PICK bytes : pending'.bytes = [pending.bytes EXCEPT ![today] = @ + bytes]
      BY <2>4 DEF SampleApplied, Recorded
    <3>2. today \in Days /\ pending.bytes \in [Days -> Nat]
      BY DEF HistoryInv, TypeOK
    <3>3. \A d \in Days : d # today => pending'.bytes[d] = pending.bytes[d]
      BY <3>1, <3>2
    <3>4. pending.bytes[today] <= pending'.bytes[today] /\ pending'.bytes[today] \in Nat
      <4> DEFINE g == IF reading[a].before = after THEN after ELSE NoGeneration
                 delta == Delta(reading[a].count, g)
                 n == delta["upload"] + delta["download"]
      <4>1. reading[a].count \in Counts /\ g \in {NoGeneration} \cup Generations
        BY ReadableType DEF HistoryInv, TypeOK
      <4>2. delta \in Counts
        BY <4>1, DeltaType DEF HistoryInv
      <4>3. n \in Nat
        BY <4>2 DEF Counts, Directions
      <4>4. pending'.bytes = [pending.bytes EXCEPT ![today] = @ + n]
        BY <2>4 DEF SampleApplied, Recorded
      <4> HIDE DEF n
      <4>. QED  BY <3>2, <4>3, <4>4
    <3>5. \A d \in Days : /\ db.bytes[d] \in Nat /\ pending.bytes[d] \in Nat
                          /\ InFlight[d] \in Nat /\ InFlight'[d] = InFlight[d]
                          /\ InFlight[d] <= pending.bytes[d]
      <4>1. \A d \in Days : InFlight'[d] = InFlight[d]
        BY <2>2 DEF InFlight
      <4>2. \A d \in Days : InFlight[d] <= pending.bytes[d]
        BY LiveTypes DEF HistoryInv, InFlight, NoBytes
      <4>. QED  BY <4>1, <4>2, LiveTypes
    <3>6. Live[today] \in Nat /\ Live'[today] \in Nat /\ Live[today] <= Live'[today]
      BY <2>2, <3>2, <3>4, <3>5 DEF Live
    <3>7. Live' = [Live EXCEPT ![today] = Live'[today]]
      BY <2>2, <3>2, <3>3, <3>5 DEF Live
    <3>8. Ledger!Record
      BY <2>2, <3>2, <3>6, <3>7 DEF Ledger!Record, Live
    <3>. QED  BY <3>8 DEF Ledger!LedgerNext
  <2>. QED  BY <2>1, <2>3, <2>4
<1>. QED  BY <1>1, <1>2 DEF Sample

\* A save, seen from the ledger, makes recorded bytes durable or does nothing.
LEMMA PersistSaves ==
  ASSUME HistoryInv, HistoryInv',
         PersistSnapshot \/ PersistCommit \/ PersistFail \/ PersistFinish
  PROVE  [Ledger!LedgerNext]_<<Live, db.bytes>>
<1> USE DEF core, memory, disk
<1>1. CASE PersistSnapshot
  BY <1>1 DEF PersistSnapshot, Live, InFlight
<1>2. CASE PersistFail
  BY <1>2 DEF PersistFail, NotSaving, Live, InFlight
<1>3. CASE PersistCommit
  <2>1. /\ saving.pc = "snapshot" /\ saving'.pc = "committed" /\ saving'.bytes = saving.bytes
        /\ db'.bytes = [d \in Days |-> db.bytes[d] + saving.bytes[d]] /\ UNCHANGED pending
    BY <1>3 DEF PersistCommit, HistoryInv, TypeOK
  <2>2. Live' = Live
    <3>1. \A d \in Days : Live'[d] = Live[d]
      BY <2>1, LiveTypes DEF Live, InFlight, NoBytes
    <3>. QED  BY <3>1 DEF Live
  <2>3. \A d \in Days : db.bytes[d] <= db'.bytes[d] /\ db'.bytes[d] <= Live[d]
    BY <2>1, LiveTypes DEF Live, InFlight, NoBytes, HistoryInv
  <2>4. db'.bytes \in [Days -> Nat]
    BY DEF HistoryInv, TypeOK
  <2>5. Ledger!Save
    BY <2>2, <2>3, <2>4 DEF Ledger!Save, Live
  <2>. QED  BY <2>5 DEF Ledger!LedgerNext
<1>4. CASE PersistFinish
  <2>1. /\ saving.pc = "committed" /\ saving'.pc = "idle" /\ UNCHANGED db
        /\ pending'.bytes = [d \in Days |-> pending.bytes[d] - saving.bytes[d]]
    BY <1>4 DEF PersistFinish, Unsaved, NotSaving
  <2>2. \A d \in Days : Live'[d] = Live[d]
    BY <2>1, LiveTypes DEF Live, InFlight, NoBytes
  <2>3. Live' = Live
    BY <2>2 DEF Live
  <2>. QED  BY <2>1, <2>3
<1>. QED  BY <1>1, <1>2, <1>3, <1>4

\* A panel restart leaves what was durable.
LEMMA RestartLoses ==
  ASSUME HistoryInv, PanelRestart
  PROVE  Ledger!Lose
<1>1. /\ db' = db /\ pending'.bytes = NoBytes /\ saving'.pc = "idle"
  BY DEF PanelRestart, disk, NotSaving
<1>2. \A d \in Days : Live'[d] = db.bytes[d]
  BY <1>1, LiveTypes DEF Live, InFlight, NoBytes
<1>3. db.bytes \in [Days -> Nat]
  BY DEF HistoryInv, TypeOK
<1>4. Live' = db.bytes
  BY <1>2, <1>3 DEF Live
<1>. QED  BY <1>1, <1>4 DEF Ledger!Lose, Live

\* Every step is one of the ledger's, or changes neither of its variables.
LEMMA LedgerStep ==
  HistoryInv /\ HistoryInv' /\ [Next]_vars => [Ledger!LedgerNext]_<<Live, db.bytes>>
<1> SUFFICES ASSUME HistoryInv, HistoryInv', [Next]_vars
             PROVE  [Ledger!LedgerNext]_<<Live, db.bytes>>
  OBVIOUS
<1>1. CASE CoreStart \/ CoreStop \/ (\E dir \in Directions : Relay(dir)) \/ Midnight
  <2>1. UNCHANGED <<pending, saving, db>>
    BY <1>1 DEF CoreStart, CoreStop, Relay, Midnight, core, memory, disk
  <2>. QED  BY <2>1 DEF Live, InFlight
<1>2. ASSUME NEW a \in Samplers, Sample(a)
      PROVE  [Ledger!LedgerNext]_<<Live, db.bytes>>
  BY <1>2, SampleRecords
<1>3. CASE PersistSnapshot \/ PersistCommit \/ PersistFail \/ PersistFinish
  BY <1>3, PersistSaves
<1>4. CASE PanelRestart
  BY <1>4, RestartLoses DEF Ledger!LedgerNext
<1>5. CASE UNCHANGED vars
  BY <1>5 DEF vars, Live, InFlight
<1>. QED  BY <1>1, <1>2, <1>3, <1>4, <1>5 DEF Next

\* Sampling, saving and crashing implement the ledger: bytes are recorded once,
\* saved unchanged, and after a crash exactly the saved ones remain.
THEOREM ImplementsLedger == Spec => LedgerSpec
<1>1. Init => Ledger!LedgerInit
  <2> SUFFICES ASSUME Init PROVE Ledger!LedgerInit
    OBVIOUS
  <2>1. \A d \in Days : db.bytes[d] = 0 /\ pending.bytes[d] = 0 /\ InFlight[d] = 0
    BY DEF Init, InFlight, NotSaving, NoBytes
  <2>2. db.bytes = [d \in Days |-> 0]
    BY DEF Init, NoBytes
  <2>. QED  BY <2>1, <2>2 DEF Ledger!LedgerInit
<1>2. HistoryInv /\ HistoryInv' /\ [Next]_vars => [Ledger!LedgerNext]_(Ledger!ledger)
  BY LedgerStep DEF Live, Ledger!ledger
<1>3. Spec => []HistoryInv
  BY HistoryInit, HistoryStep, PTL DEF Spec
<1>. QED  BY <1>1, <1>2, <1>3, PTL DEF Spec, LedgerSpec, Ledger!LedgerSpec

-----------------------------------------------------------------------------
(* The mirror, and the marks of partial days *)

\* Totals only grow on their way from the samples through the snapshot of a save and the
\* table to the mirror, and a save that is committed is what the table holds.
SavingInv ==
  /\ \A dir \in Directions :
       /\ mirror[dir] <= db.state.total[dir]
       /\ db.state.total[dir] <= state.total[dir]
       /\ saving.pc = "snapshot" => /\ db.state.total[dir] <= saving.state.total[dir]
                                    /\ saving.state.total[dir] <= state.total[dir]
  /\ saving.pc = "committed" => saving.state = db.state /\ saving.partial \subseteq db.partial

LEMMA TotalsAreNaturals ==
  ASSUME TypeOK, NEW dir \in Directions
  PROVE  /\ mirror[dir] \in Nat /\ db.state.total[dir] \in Nat /\ state.total[dir] \in Nat
         /\ saving.state.total[dir] \in Nat
  BY DEF TypeOK, StateType, Counts

\* A sample never lowers a total.
LEMMA SampleGrows ==
  ASSUME TypeOK, NEW a \in Samplers, Sample(a), NEW dir \in Directions
  PROVE  state.total[dir] <= state'.total[dir]
<1>1. CASE UNCHANGED state
  BY <1>1, TotalsAreNaturals
<1>2. CASE SampleFinish(a) /\ \E after \in ReadableGenerations : SampleApplied(a, after)
  <2>1. PICK after \in ReadableGenerations : SampleApplied(a, after)
    BY <1>2
  <2> DEFINE r == reading[a]
             g == IF r.before = after THEN after ELSE NoGeneration
             delta == Delta(r.count, g)
  <2>2. g \in {NoGeneration} \cup Generations
    BY ReadableType
  <2>3. r.count \in Counts
    BY DEF TypeOK
  <2>4. delta[dir] \in Nat
    BY <2>2, <2>3, DeltaType DEF Counts
  <2>5. state' = Applied(r.source, r.count, g, delta["upload"] + delta["download"])
    BY <2>1 DEF SampleApplied
  <2>6. state'.total[dir] = state.total[dir] + delta[dir]
    BY <2>5 DEF Applied
  <2> HIDE DEF delta
  <2> QED
    BY <2>4, <2>6, TotalsAreNaturals
<1> QED
  BY <1>1, <1>2 DEF Sample, SampleBegin, SampleRead, SampleUnavailable, SampleFinish, SampleRejected

LEMMA SavingInit == Init => SavingInv
  BY DEF Init, SavingInv, FreshState, NotSaving, Nothing

LEMMA SavingStep == HistoryInv /\ HistoryInv' /\ SavingInv /\ [Next]_vars => SavingInv'
<1> SUFFICES ASSUME HistoryInv, HistoryInv', SavingInv, [Next]_vars
             PROVE  SavingInv'
  OBVIOUS
<1>0. TypeOK /\ TypeOK'
  BY DEF HistoryInv
<1>1. CASE CoreStart \/ CoreStop \/ (\E dir \in Directions : Relay(dir)) \/ Midnight
  BY <1>1 DEF CoreStart, CoreStop, Relay, Midnight, memory, disk, SavingInv
<1>2. ASSUME NEW a \in Samplers, Sample(a) PROVE SavingInv'
  <2>1. UNCHANGED <<saving, disk>>
    BY <1>2 DEF Sample, SampleBegin, SampleRead, SampleUnavailable, SampleFinish
  <2>2. \A dir \in Directions : /\ db.state.total[dir] <= state'.total[dir]
                                /\ saving.pc = "snapshot" =>
                                     saving.state.total[dir] <= state'.total[dir]
    <3> TAKE dir \in Directions
    <3>1. state.total[dir] <= state'.total[dir]
      BY <1>0, <1>2, SampleGrows
    <3>2. state'.total[dir] \in Nat
      BY <1>0 DEF TypeOK, StateType, Counts
    <3> QED
      BY <1>0, <3>1, <3>2, TotalsAreNaturals DEF SavingInv
  <2> QED
    BY <2>1, <2>2 DEF SavingInv, disk
<1>3. CASE PersistSnapshot
  BY <1>0, <1>3, TotalsAreNaturals DEF PersistSnapshot, SavingInv, memory, disk
<1>4. CASE PersistCommit
  <2>1. /\ saving.pc = "snapshot" /\ UNCHANGED <<mirror, state>>
        /\ db'.state = saving.state /\ saving'.state = saving.state /\ saving'.pc = "committed"
        /\ saving'.partial \subseteq db'.partial
    BY <1>0, <1>4 DEF PersistCommit, TypeOK, memory
  <2>2. \A dir \in Directions : /\ mirror[dir] <= saving.state.total[dir]
                                /\ saving.state.total[dir] <= state.total[dir]
    BY <1>0, <2>1, TotalsAreNaturals DEF SavingInv
  <2> QED
    BY <2>1, <2>2 DEF SavingInv
<1>5. CASE PersistFail
  BY <1>5 DEF PersistFail, NotSaving, SavingInv, memory, disk
<1>6. CASE PersistFinish
  <2>1. /\ UNCHANGED <<db, state>> /\ mirror' \in {mirror, db.state.total} /\ saving'.pc = "idle"
    BY <1>6 DEF PersistFinish, SavingInv, NotSaving
  <2> QED
    BY <1>0, <2>1, TotalsAreNaturals DEF SavingInv
<1>7. CASE PanelRestart
  BY <1>0, <1>7, TotalsAreNaturals DEF PanelRestart, SavingInv, NotSaving, disk
<1>8. CASE UNCHANGED vars
  BY <1>8 DEF vars, SavingInv
<1> QED
  BY <1>1, <1>2, <1>3, <1>4, <1>5, <1>6, <1>7, <1>8 DEF Next

LEMMA SavingInvariant == Spec => [](HistoryInv /\ SavingInv)
  BY HistoryInit, HistoryStep, SavingInit, SavingStep, PTL DEF Spec

\* The JSON mirror is never ahead of the database a restarted panel resumes from
\* (history.go:84-85), for any interleaving of samples, saves and restarts.
THEOREM MirrorAlwaysBehind == Spec => []MirrorNeverAhead
<1>1. SavingInv => MirrorNeverAhead
  BY DEF SavingInv, MirrorNeverAhead
<1> QED
  BY <1>1, SavingInvariant, PTL

\* A step of a living panel keeps every mark of a partial day.
LEMMA MarksStep ==
  ASSUME HistoryInv, SavingInv, [Next]_vars
  PROVE  [PanelRestart \/ PartialMarks \subseteq PartialMarks']_vars
<1>1. CASE CoreStart \/ CoreStop \/ (\E dir \in Directions : Relay(dir)) \/ Midnight
  BY <1>1 DEF CoreStart, CoreStop, Relay, Midnight, memory, disk, PartialMarks
<1>2. ASSUME NEW a \in Samplers, Sample(a) PROVE PartialMarks \subseteq PartialMarks'
  <2>1. db' = db
    BY <1>2 DEF Sample, SampleBegin, SampleRead, SampleUnavailable, SampleFinish, disk
  <2>2. pending.partial \subseteq pending'.partial
    BY <1>2 DEF Sample, SampleBegin, SampleRead, SampleUnavailable, SampleFinish, SampleRejected,
       SampleApplied, Recorded
  <2> QED
    BY <2>1, <2>2 DEF PartialMarks
<1>3. CASE PersistSnapshot \/ PersistFail
  BY <1>3 DEF PersistSnapshot, PersistFail, PartialMarks, memory, disk
<1>4. CASE PersistCommit
  BY <1>4 DEF PersistCommit, PartialMarks, memory
<1>5. CASE PersistFinish
  <2>1. saving.partial \subseteq db.partial /\ db' = db
    BY <1>5 DEF PersistFinish, SavingInv
  <2>2. pending.partial \subseteq pending'.partial \cup saving.partial
    BY <1>5 DEF PersistFinish, Unsaved
  <2> QED
    BY <2>1, <2>2 DEF PartialMarks
<1> QED
  BY <1>1, <1>2, <1>3, <1>4, <1>5 DEF Next

\* A day once marked partial stays partial while the panel lives, whatever is sampled
\* between the snapshot of a save and its subtraction (tracker.go:460-470).
THEOREM MarksAlwaysSurvive == Spec => PartialMarkSurvives
  BY MarksStep, SavingInvariant, PTL DEF Spec, PartialMarkSurvives

-----------------------------------------------------------------------------
(* The files beside the database *)

LEMMA SameCardinality == \A S : F!Cardinality(S) = Cardinality(S)
  BY DEF F!Cardinality, Cardinality

LEMMA Smaller == ASSUME NEW S, IsFiniteSet(S), NEW T \in SUBSET S
                 PROVE  /\ IsFiniteSet(T) /\ Cardinality(T) \in Nat /\ Cardinality(S) \in Nat
                        /\ Cardinality(T) <= Cardinality(S)
  BY FS_Subset, FS_CardinalityType

LEMMA OneMore == ASSUME NEW S, IsFiniteSet(S), NEW c, NEW T \in SUBSET (S \cup {c})
                 PROVE  /\ IsFiniteSet(T) /\ Cardinality(T) \in Nat /\ Cardinality(S) \in Nat
                        /\ Cardinality(T) <= Cardinality(S) + 1
<1>1. /\ IsFiniteSet(S \cup {c}) /\ Cardinality(S) \in Nat
      /\ Cardinality(S \cup {c}) <= Cardinality(S) + 1
  BY FS_AddElement, FS_CardinalityType
<1>2. /\ IsFiniteSet(T) /\ Cardinality(T) \in Nat /\ Cardinality(S \cup {c}) \in Nat
      /\ Cardinality(T) <= Cardinality(S \cup {c})
  BY <1>1, Smaller
<1> QED
  BY <1>1, <1>2

\* A document parses, and the marks of a file that does not are neither documents nor equal.
LEMMA DocumentsParse == /\ \A d \in F!Documents : F!Parses(d)
                        /\ ~F!Parses(Absent) /\ ~F!Parses(Broken)
                        /\ {} \in F!Documents
  BY MCAssumption DEF F!FilesAssumption, F!Parses, F!Documents

\* What somebody was told is saved and nobody replaced unread, and what of it a backup lacks.
Kept == acked \ overwritten
Lost(b) == acked \ (overwritten \cup overlapped \cup b)

Saves(p) == pc[p] \in {"copy", "copied", "write", "sync"}
Renamed(p) == pc[p] = "sync" /\ primary = candidate[p]

FileTypes ==
  /\ F!TypeOK /\ Absent \notin primaries /\ IsFiniteSet(acked) /\ damages \in Nat
  /\ copy \in [Processes -> F!Documents \cup {Absent, Broken}]

\* What a process holds, and the document it saves: its own change on top, and no other
\* process's document.
HeldBy(p) ==
  /\ known[p] \subseteq acked /\ known[p] \ overwritten \subseteq fMemory[p]
  /\ Saves(p) => \E c \in Changes : candidate[p] = fMemory[p] \cup {c}
  /\ ~Saves(p) => candidate[p] = {}
  /\ pc[p] = "down" => fMemory[p] = {} /\ known[p] = {}
  /\ pc[p] = "copy" => F!Parses(primary)
  /\ pc[p] = "copied" => F!Parses(copy[p]) /\ Lost(copy[p]) = {}

Apart(p, q) == Saves(p) /\ Saves(q) => candidate[p] # candidate[q]

\* What a backup may lack: the changes of one save for every damage, and of the save that
\* was made last.
BackupInv(b) ==
  /\ F!Parses(b) => /\ Cardinality(Lost(b)) <= damages + 1
                    /\ Broken \in primaries => Cardinality(Lost(b)) <= damages
  /\ ~F!Parses(b) => /\ Cardinality(Kept) <= damages
                     /\ Broken \in primaries => Cardinality(Kept) < damages

\* A save that is past its backup left it behind by no more than the damages.
BackedUp(p) ==
  /\ pc[p] = "write" \/ Renamed(p) => (F!Parses(backup) => Cardinality(Lost(backup)) <= damages)
  /\ pc[p] = "write" /\ ~F!Parses(backup) => Cardinality(known[p] \ overwritten) < damages
  /\ Renamed(p) /\ ~F!Parses(backup) => Cardinality(Kept) < damages

FileInv ==
  /\ FileTypes
  /\ \A f \in primaries : F!Parses(f) => Kept \subseteq f
  /\ \A p \in Processes : HeldBy(p)
  /\ \A p, q \in Processes : p # q => Apart(p, q)
  /\ \A b \in backups : BackupInv(b)
  /\ \A p \in Processes : BackedUp(p)

LEMMA FileInit == F!Init => FileInv
<1> SUFFICES ASSUME F!Init PROVE FileInv
  OBVIOUS
<1> USE DEF F!Init
<1>1. IsFiniteSet({}) /\ Cardinality({}) = 0
  BY FS_EmptySet
<1>2. Kept = {} /\ \A b : Lost(b) = {}
  BY DEF Kept, Lost
<1>3. FileTypes
  BY <1>1, DocumentsParse, MCAssumption
     DEF FileTypes, F!TypeOK, F!FilesAssumption, F!Documents, F!Parses
<1>4. \A p \in Processes : HeldBy(p) /\ BackedUp(p)
  BY DEF HeldBy, BackedUp, Saves, Renamed
<1>5. \A p, q \in Processes : p # q => Apart(p, q)
  BY DEF Apart, Saves
<1>6. \A b \in backups : BackupInv(b)
  <2>1. Broken \notin primaries /\ damages = 0
    BY DocumentsParse DEF F!Parses
  <2>2. Cardinality(Kept) = 0 /\ \A b \in backups : ~F!Parses(b)
    BY <1>1, <1>2, DocumentsParse
  <2> QED
    BY <2>1, <2>2 DEF BackupInv
<1> QED
  BY <1>2, <1>3, <1>4, <1>5, <1>6 DEF FileInv

\* A step that leaves the files and what is known of them, for the processes it leaves too.
LEMMA Quiet ==
  ASSUME FileInv, UNCHANGED <<primary, backup, primaries, backups>>,
         UNCHANGED <<acked, overwritten, overlapped, damages>>
  PROVE  /\ \A f \in primaries' : F!Parses(f) => Kept' \subseteq f
         /\ \A b \in backups' : BackupInv(b)'
         /\ \A p \in Processes :
              pc'[p] = pc[p] /\ candidate'[p] = candidate[p] /\ known'[p] = known[p] =>
                /\ BackedUp(p)'
                /\ fMemory'[p] = fMemory[p] /\ copy'[p] = copy[p] => HeldBy(p)'
<1>1. Kept' = Kept /\ \A b : Lost(b)' = Lost(b)
  BY DEF Kept, Lost
<1>2. \A f \in primaries' : F!Parses(f) => Kept' \subseteq f
  BY <1>1 DEF FileInv
<1>3. \A b \in backups' : BackupInv(b)'
  BY <1>1 DEF FileInv, BackupInv
<1>4. ASSUME NEW p \in Processes, pc'[p] = pc[p], candidate'[p] = candidate[p], known'[p] = known[p]
      PROVE  BackedUp(p)'
  <2>1. BackedUp(p)
    BY DEF FileInv
  <2>2. Renamed(p)' = Renamed(p)
    BY <1>4 DEF Renamed
  <2>3. Lost(backup)' = Lost(backup)
    BY DEF Lost
  <2> QED
    BY <1>1, <1>4, <2>1, <2>2, <2>3 DEF BackedUp
<1>5. ASSUME NEW p \in Processes, pc'[p] = pc[p], candidate'[p] = candidate[p], known'[p] = known[p],
             fMemory'[p] = fMemory[p], copy'[p] = copy[p]
      PROVE  HeldBy(p)'
  <2>1. HeldBy(p)
    BY DEF FileInv
  <2>2. Saves(p)' = Saves(p)
    BY <1>5 DEF Saves
  <2>3. Lost(copy[p])' = Lost(copy[p])
    BY <1>5 DEF Lost
  <2> QED
    BY <1>5, <2>1, <2>2, <2>3 DEF HeldBy
<1> QED
  BY <1>2, <1>3, <1>4, <1>5

\* The other processes when one moves.
Elsewhere(p) == \A q \in Processes \ {p} :
                  /\ pc'[q] = pc[q] /\ candidate'[q] = candidate[q] /\ known'[q] = known[q]
                  /\ fMemory'[q] = fMemory[q] /\ copy'[q] = copy[q]

\* A process that has begun no save, or that keeps the document it saves, stays apart.
LEMMA StaysApart ==
  ASSUME FileInv, NEW p \in Processes, Elsewhere(p),
         Saves(p)' => Saves(p) /\ candidate'[p] = candidate[p]
  PROVE  \A q, r \in Processes : q # r => Apart(q, r)'
<1> SUFFICES ASSUME NEW q \in Processes, NEW r \in Processes, q # r, Saves(q)', Saves(r)'
             PROVE  candidate'[q] # candidate'[r]
  BY DEF Apart
<1>1. \A s \in Processes : Saves(s)' => Saves(s) /\ candidate'[s] = candidate[s]
  BY DEF Elsewhere, Saves
<1> QED
  BY <1>1 DEF FileInv, Apart

LEMMA FilesStart == ASSUME FileInv, NEW p \in Processes, F!Start(p) PROVE FileInv'
<1> USE DEF F!Start, F!files
<1>1. UNCHANGED <<primary, backup, primaries, backups, acked, overwritten, overlapped, damages>>
  OBVIOUS
<1>2. Elsewhere(p)
  BY DEF FileInv, FileTypes, F!TypeOK, Elsewhere
<1>3. /\ pc'[p] = "idle" /\ fMemory'[p] = F!Loaded /\ candidate'[p] = candidate[p]
      /\ known'[p] = IF F!Parses(primary) THEN acked ELSE acked \cap F!Loaded
  BY DEF FileInv, FileTypes, F!TypeOK
<1>4. F!Loaded \in F!Documents
  BY DEF FileInv, FileTypes, F!TypeOK, F!Loaded
<1>5. FileTypes'
  BY <1>1, <1>4 DEF FileInv, FileTypes, F!TypeOK, F!Documents
<1>6. known'[p] \subseteq acked /\ known'[p] \ overwritten \subseteq F!Loaded
  BY <1>3 DEF FileInv, FileTypes, F!TypeOK, F!Loaded, Kept
<1>7. HeldBy(p)' /\ BackedUp(p)'
  BY <1>1, <1>3, <1>6 DEF FileInv, HeldBy, Saves, BackedUp, Renamed
<1>8. \A q \in Processes : HeldBy(q)' /\ BackedUp(q)'
  BY <1>1, <1>2, <1>7, Quiet DEF Elsewhere
<1>9. \A q, r \in Processes : q # r => Apart(q, r)'
  BY <1>2, <1>3, StaysApart DEF Saves
<1> QED
  BY <1>1, <1>5, <1>8, <1>9, Quiet DEF FileInv

LEMMA FilesSave == ASSUME FileInv, NEW p \in Processes, F!Save(p) PROVE FileInv'
<1> USE DEF F!Save, F!files, F!ghosts
<1>1. UNCHANGED <<primary, backup, primaries, backups, acked, overwritten, overlapped, damages>>
  OBVIOUS
<1>2. PICK c \in Changes \ (acked \cup UNION {fMemory[q] \cup candidate[q] : q \in Processes}) :
        candidate' = [candidate EXCEPT ![p] = fMemory[p] \cup {c}]
  OBVIOUS
<1>3. Elsewhere(p)
  BY DEF FileInv, FileTypes, F!TypeOK, Elsewhere
<1>4. /\ pc'[p] = IF F!Parses(primary) THEN "copy" ELSE "write"
      /\ candidate'[p] = fMemory[p] \cup {c} /\ fMemory'[p] = fMemory[p] /\ known'[p] = known[p]
      /\ pc[p] = "idle"
  BY <1>2 DEF FileInv, FileTypes, F!TypeOK
<1>5. FileTypes'
  BY <1>1, <1>2 DEF FileInv, FileTypes, F!TypeOK, F!Documents
<1>6. HeldBy(p)'
  BY <1>1, <1>4 DEF FileInv, HeldBy, Saves
<1>7. BackedUp(p)'
  <2>1. CASE F!Parses(primary)
    BY <1>4, <2>1 DEF BackedUp, Renamed
  <2>2. CASE ~F!Parses(primary)
    <3>1. Broken \in primaries /\ backup \in backups
      BY <2>2 DEF FileInv, FileTypes, F!TypeOK, F!Parses
    <3>2. BackupInv(backup)
      BY <3>1 DEF FileInv
    <3>3. /\ F!Parses(backup) => Cardinality(Lost(backup)) <= damages
          /\ ~F!Parses(backup) => Cardinality(Kept) < damages
      BY <3>1, <3>2 DEF BackupInv
    <3>4. Kept' = Kept /\ Lost(backup)' = Lost(backup)
      BY <1>1 DEF Kept, Lost
    <3>5. IsFiniteSet(Kept)
      BY FS_Subset DEF FileInv, FileTypes, Kept
    <3>6. known[p] \ overwritten \subseteq Kept
      BY DEF FileInv, HeldBy, Kept
    <3>7. Cardinality(known[p] \ overwritten) <= Cardinality(Kept)
          /\ Cardinality(known[p] \ overwritten) \in Nat /\ Cardinality(Kept) \in Nat
      BY <3>5, <3>6, Smaller
    <3>8. damages \in Nat
      BY DEF FileInv, FileTypes
    <3>9. ~F!Parses(backup) => Cardinality(known[p] \ overwritten) < damages
      BY <3>3, <3>7, <3>8
    <3> QED
      BY <1>1, <1>4, <2>2, <3>3, <3>4, <3>9 DEF BackedUp, Renamed
  <2> QED
    BY <2>1, <2>2
<1>8. \A q \in Processes : HeldBy(q)' /\ BackedUp(q)'
  BY <1>1, <1>3, <1>6, <1>7, Quiet DEF Elsewhere
<1>9. \A q, r \in Processes : q # r => Apart(q, r)'
  <2>1. c \in candidate'[p] /\ \A q \in Processes \ {p} : c \notin candidate'[q]
    BY <1>2, <1>3, <1>4 DEF Elsewhere
  <2>2. \A q \in Processes \ {p} : candidate'[q] = candidate[q] /\ (Saves(q)' <=> Saves(q))
    BY <1>3 DEF Elsewhere, Saves
  <2> QED
    BY <2>1, <2>2 DEF FileInv, Apart
<1> QED
  BY <1>1, <1>5, <1>8, <1>9, Quiet DEF FileInv

LEMMA FilesCopyRead == ASSUME FileInv, NEW p \in Processes, F!CopyRead(p) PROVE FileInv'
<1> USE DEF F!CopyRead, F!files, F!ghosts
<1>1. UNCHANGED <<primary, backup, primaries, backups, acked, overwritten, overlapped, damages>>
  OBVIOUS
<1>2. Elsewhere(p)
  BY DEF FileInv, FileTypes, F!TypeOK, Elsewhere
<1>3. /\ pc[p] = "copy" /\ pc'[p] = "copied" /\ copy'[p] = primary
      /\ candidate'[p] = candidate[p] /\ fMemory'[p] = fMemory[p] /\ known'[p] = known[p]
  BY DEF FileInv, FileTypes, F!TypeOK
<1>4. F!Parses(primary) /\ primary \in primaries /\ Kept \subseteq primary
  BY <1>3 DEF FileInv, FileTypes, F!TypeOK, HeldBy
<1>5. FileTypes'
  BY <1>1, <1>4 DEF FileInv, FileTypes, F!TypeOK
<1>6. HeldBy(p)'
  <2>1. Lost(copy[p])' = {}
    BY <1>1, <1>3, <1>4 DEF Lost, Kept
  <2> QED
    BY <1>1, <1>3, <1>4, <2>1 DEF FileInv, HeldBy, Saves
<1>7. BackedUp(p)'
  BY <1>3 DEF BackedUp, Renamed
<1>8. \A q \in Processes : HeldBy(q)' /\ BackedUp(q)'
  BY <1>1, <1>2, <1>6, <1>7, Quiet DEF Elsewhere
<1>9. \A q, r \in Processes : q # r => Apart(q, r)'
  BY <1>2, <1>3, StaysApart DEF Saves
<1> QED
  BY <1>1, <1>5, <1>8, <1>9, Quiet DEF FileInv

LEMMA FilesCopyRename == ASSUME FileInv, NEW p \in Processes, F!CopyRename(p) PROVE FileInv'
<1> USE DEF F!CopyRename, F!RenamedBackup, F!ghosts
<1>1. UNCHANGED <<primary, primaries, acked, known, overwritten, overlapped, damages, fMemory, candidate>>
  OBVIOUS
<1>2. Elsewhere(p)
  BY DEF FileInv, FileTypes, F!TypeOK, Elsewhere
<1>3. /\ pc[p] = "copied" /\ pc'[p] = "write" /\ copy'[p] = {}
      /\ candidate'[p] = candidate[p] /\ fMemory'[p] = fMemory[p] /\ known'[p] = known[p]
      /\ backup' = copy[p] /\ backups' = backups \cup {copy[p]}
  BY DEF FileInv, FileTypes, F!TypeOK
<1>4. F!Parses(copy[p]) /\ Lost(copy[p]) = {}
  BY <1>3 DEF FileInv, HeldBy
<1>5. copy[p] \in F!Documents
  BY <1>4, DocumentsParse DEF FileInv, FileTypes
<1>6. FileTypes'
  BY <1>1, <1>3, <1>5, DocumentsParse DEF FileInv, FileTypes, F!TypeOK
<1>7. Kept' = Kept /\ \A b : Lost(b)' = Lost(b)
  BY <1>1 DEF Kept, Lost
<1>8. Cardinality(Lost(copy[p])) = 0 /\ Cardinality(Lost(backup)') = 0
      /\ damages \in Nat
  <2>1. Lost(backup)' = Lost(copy[p])
    BY <1>1, <1>3 DEF Lost
  <2> QED
    BY <1>4, <2>1, FS_EmptySet DEF FileInv, FileTypes
<1>9. \A b \in backups' : BackupInv(b)'
  <2> TAKE b \in backups'
  <2>1. CASE b = copy[p]
    <3>1. F!Parses(b) /\ Cardinality(Lost(b)') = 0
      BY <1>4, <1>7, <1>8, <2>1
    <3> QED
      BY <1>1, <1>8, <3>1 DEF BackupInv
  <2>2. CASE b \in backups
    BY <1>1, <1>7, <2>2 DEF FileInv, BackupInv
  <2> QED
    BY <1>3, <2>1, <2>2
<1>10. \A q \in Processes : BackedUp(q)'
  BY <1>1, <1>3, <1>4, <1>8 DEF BackedUp
<1>11. \A q \in Processes : HeldBy(q)'
  <2>1. HeldBy(p)'
    BY <1>1, <1>3 DEF FileInv, HeldBy, Saves
  <2>2. ASSUME NEW q \in Processes \ {p} PROVE HeldBy(q)'
    <3>1. Lost(copy[q])' = Lost(copy[q])
      BY <1>1, <1>2 DEF Lost, Elsewhere
    <3>2. HeldBy(q) /\ Saves(q)' = Saves(q)
      BY <1>2 DEF FileInv, Saves, Elsewhere
    <3> QED
      BY <1>1, <1>2, <3>1, <3>2 DEF HeldBy, Elsewhere
  <2> QED
    BY <2>1, <2>2
<1>12. \A q, r \in Processes : q # r => Apart(q, r)'
  BY <1>2, <1>3, StaysApart DEF Saves
<1> QED
  BY <1>1, <1>6, <1>7, <1>9, <1>10, <1>11, <1>12 DEF FileInv

\* A step after which somebody was told of nothing more, and no more of it is to be kept,
\* leaves no backup further behind.
LEMMA BackupsStay ==
  ASSUME FileInv, NEW D \in {damages, damages + 1}, damages' = D,
         Kept' \subseteq Kept, \A b : Lost(b)' \subseteq Lost(b),
         NEW b \in backups, Broken \in primaries' => Broken \in primaries
  PROVE  BackupInv(b)'
<1>1. BackupInv(b) /\ damages \in Nat
  BY DEF FileInv, FileTypes
<1>2. IsFiniteSet(Kept) /\ IsFiniteSet(Lost(b))
  BY FS_Subset DEF FileInv, FileTypes, Kept, Lost
<1>3. /\ Cardinality(Kept') <= Cardinality(Kept)
      /\ Cardinality(Kept') \in Nat /\ Cardinality(Kept) \in Nat
  BY <1>2, Smaller
<1>4. /\ Cardinality(Lost(b)') <= Cardinality(Lost(b))
      /\ Cardinality(Lost(b)') \in Nat /\ Cardinality(Lost(b)) \in Nat
  BY <1>2, Smaller
<1>5. /\ F!Parses(b) => Cardinality(Lost(b)') <= D + 1
      /\ ~F!Parses(b) => Cardinality(Kept') <= D
  BY <1>1, <1>3, <1>4 DEF BackupInv
<1>6. Broken \in primaries' => /\ F!Parses(b) => Cardinality(Lost(b)') <= D
                               /\ ~F!Parses(b) => Cardinality(Kept') < D
  BY <1>1, <1>3, <1>4 DEF BackupInv
<1> QED
  BY <1>5, <1>6 DEF BackupInv

LEMMA FilesWrite == ASSUME FileInv, NEW p \in Processes, F!Write(p) PROVE FileInv'
<1> USE DEF F!Write, F!RenamedPrimary
<1>1. UNCHANGED <<backup, backups, fMemory, candidate, copy, acked, known, overlapped, damages>>
  OBVIOUS
<1>2. Elsewhere(p)
  BY DEF FileInv, FileTypes, F!TypeOK, Elsewhere
<1>3. /\ pc[p] = "write" /\ pc'[p] = "sync" /\ primary' = candidate[p]
      /\ primaries' = primaries \cup {candidate[p]}
      /\ overwritten' = overwritten \cup (acked \ known[p])
  BY DEF FileInv, FileTypes, F!TypeOK
<1>4. /\ candidate[p] \in F!Documents /\ F!Parses(candidate[p])
      /\ known[p] \subseteq acked /\ known[p] \ overwritten \subseteq fMemory[p]
      /\ fMemory[p] \subseteq candidate[p]
  BY <1>3, DocumentsParse DEF FileInv, FileTypes, F!TypeOK, HeldBy, Saves
<1>5. /\ Kept' = known[p] \ overwritten /\ Kept' \subseteq Kept
      /\ \A b : Lost(b)' \subseteq Lost(b)
  BY <1>1, <1>3, <1>4 DEF Kept, Lost
<1>6. FileTypes'
  <2>1. candidate[p] # Absent /\ overwritten' \subseteq Changes
    BY <1>3, <1>4 DEF FileInv, FileTypes, F!TypeOK, F!Parses
  <2> QED
    BY <1>1, <1>3, <1>4, <2>1 DEF FileInv, FileTypes, F!TypeOK
<1>7. \A f \in primaries' : F!Parses(f) => Kept' \subseteq f
  BY <1>3, <1>4, <1>5 DEF FileInv
<1>8. Broken \in primaries' => Broken \in primaries
  BY <1>3, <1>4 DEF F!Parses
<1>9. \A b \in backups' : BackupInv(b)'
  BY <1>1, <1>5, <1>8, BackupsStay
<1>10. \A q \in Processes : HeldBy(q)'
  <2>1. HeldBy(p)'
    BY <1>1, <1>3 DEF FileInv, HeldBy, Saves
  <2>2. ASSUME NEW q \in Processes \ {p} PROVE HeldBy(q)'
    <3>1. Lost(copy[q])' \subseteq Lost(copy[q])
      BY <1>1, <1>5
    <3>2. HeldBy(q) /\ Saves(q)' = Saves(q)
      BY <1>2 DEF FileInv, Saves, Elsewhere
    <3> QED
      BY <1>1, <1>2, <1>3, <1>4, <3>1, <3>2 DEF HeldBy, Elsewhere
  <2> QED
    BY <2>1, <2>2
<1>11. \A q \in Processes : BackedUp(q)'
  <2> TAKE q \in Processes
  <2>1. IsFiniteSet(Lost(backup)) /\ IsFiniteSet(known[q] \ overwritten) /\ damages \in Nat
    BY FS_Subset DEF FileInv, FileTypes, Lost, HeldBy
  <2>2. Lost(backup)' \subseteq Lost(backup)
    BY <1>1, <1>5
  <2>3. /\ Cardinality(Lost(backup)') <= Cardinality(Lost(backup))
        /\ Cardinality(Lost(backup)') \in Nat /\ Cardinality(Lost(backup)) \in Nat
    BY <2>1, <2>2, Smaller
  <2>4. known[q] \ overwritten' \subseteq known[q] \ overwritten
    BY <1>3
  <2>5. /\ Cardinality(known[q] \ overwritten') <= Cardinality(known[q] \ overwritten)
        /\ Cardinality(known[q] \ overwritten') \in Nat
        /\ Cardinality(known[q] \ overwritten) \in Nat
    BY <2>1, <2>4, Smaller
  <2>6. BackedUp(q) /\ BackedUp(p)
    BY DEF FileInv
  <2>7. CASE q = p
    <3>1. F!Parses(backup) => Cardinality(Lost(backup)') <= damages
      BY <1>3, <2>1, <2>3, <2>6 DEF BackedUp
    <3>2. ~F!Parses(backup) => Cardinality(Kept') < damages
      BY <1>3, <1>5, <2>6 DEF BackedUp
    <3> QED
      BY <1>1, <1>3, <2>7, <3>1, <3>2 DEF BackedUp
  <2>8. CASE q # p
    <3>1. ~Renamed(q)'
      <4>1. SUFFICES ASSUME pc[q] = "sync" PROVE candidate[p] # candidate[q]
        BY <1>1, <1>2, <1>3, <2>8 DEF Renamed, Elsewhere
      <4> QED
        BY <1>3, <2>8, <4>1 DEF FileInv, Apart, Saves
    <3>2. CASE pc[q] = "write"
      <4>1. F!Parses(backup) => Cardinality(Lost(backup)') <= damages
        BY <2>1, <2>3, <2>6, <3>2 DEF BackedUp
      <4>2. ~F!Parses(backup) => Cardinality(known[q] \ overwritten') < damages
        BY <2>1, <2>5, <2>6, <3>2 DEF BackedUp
      <4> QED
        BY <1>1, <3>1, <4>1, <4>2 DEF BackedUp
    <3>3. CASE pc[q] # "write"
      BY <1>2, <2>8, <3>1, <3>3 DEF BackedUp, Elsewhere
    <3> QED
      BY <3>2, <3>3
  <2> QED
    BY <2>7, <2>8
<1>12. \A q, r \in Processes : q # r => Apart(q, r)'
  BY <1>1, <1>2, <1>3, StaysApart DEF Saves
<1> QED
  BY <1>6, <1>7, <1>9, <1>10, <1>11, <1>12 DEF FileInv

LEMMA FilesSaveFails == ASSUME FileInv, NEW p \in Processes, F!SaveFails(p) PROVE FileInv'
<1> USE DEF F!SaveFails, F!files, F!ghosts
<1>1. UNCHANGED <<primary, backup, primaries, backups, acked, overwritten, overlapped, damages>>
  OBVIOUS
<1>2. Elsewhere(p)
  BY DEF FileInv, FileTypes, F!TypeOK, Elsewhere
<1>3. /\ pc'[p] = "idle" /\ candidate'[p] = {} /\ fMemory'[p] = fMemory[p] /\ known'[p] = known[p]
  BY DEF FileInv, FileTypes, F!TypeOK
<1>4. FileTypes'
  BY <1>1, DocumentsParse DEF FileInv, FileTypes, F!TypeOK
<1>5. HeldBy(p)' /\ BackedUp(p)'
  BY <1>1, <1>3 DEF FileInv, HeldBy, Saves, BackedUp, Renamed
<1>6. \A q \in Processes : HeldBy(q)' /\ BackedUp(q)'
  BY <1>1, <1>2, <1>5, Quiet DEF Elsewhere
<1>7. \A q, r \in Processes : q # r => Apart(q, r)'
  BY <1>2, <1>3, StaysApart DEF Saves
<1> QED
  BY <1>1, <1>4, <1>6, <1>7, Quiet DEF FileInv

LEMMA FilesStop == ASSUME FileInv, NEW p \in Processes, F!Stop(p) PROVE FileInv'
<1> USE DEF F!Stop, F!files
<1>1. UNCHANGED <<primary, backup, primaries, backups, acked, overwritten, overlapped, damages>>
  OBVIOUS
<1>2. Elsewhere(p)
  BY DEF FileInv, FileTypes, F!TypeOK, Elsewhere
<1>3. /\ pc'[p] = "down" /\ candidate'[p] = {} /\ fMemory'[p] = {} /\ known'[p] = {}
  BY DEF FileInv, FileTypes, F!TypeOK
<1>4. FileTypes'
  BY <1>1, DocumentsParse DEF FileInv, FileTypes, F!TypeOK
<1>5. HeldBy(p)' /\ BackedUp(p)'
  BY <1>1, <1>3 DEF FileInv, HeldBy, Saves, BackedUp, Renamed
<1>6. \A q \in Processes : HeldBy(q)' /\ BackedUp(q)'
  BY <1>1, <1>2, <1>5, Quiet DEF Elsewhere
<1>7. \A q, r \in Processes : q # r => Apart(q, r)'
  BY <1>2, <1>3, StaysApart DEF Saves
<1> QED
  BY <1>1, <1>4, <1>6, <1>7, Quiet DEF FileInv

LEMMA FilesPowerLoss == ASSUME FileInv, F!PowerLoss PROVE FileInv'
<1> USE DEF F!PowerLoss
<1>1. /\ UNCHANGED <<acked, overwritten, overlapped, damages>>
      /\ primary' \in primaries /\ backup' \in backups
      /\ primaries' = {primary'} /\ backups' = {backup'}
  OBVIOUS
<1>2. Kept' = Kept /\ \A b : Lost(b)' = Lost(b)
  BY <1>1 DEF Kept, Lost
<1>3. FileTypes'
  BY <1>1, DocumentsParse DEF FileInv, FileTypes, F!TypeOK
<1>4. \A f \in primaries' : F!Parses(f) => Kept' \subseteq f
  BY <1>1, <1>2 DEF FileInv
<1>5. \A b \in backups' : BackupInv(b)'
  BY <1>1, <1>2, BackupsStay
<1>6. \A p \in Processes : HeldBy(p)' /\ BackedUp(p)'
  BY DEF HeldBy, Saves, BackedUp, Renamed
<1>7. \A p, q \in Processes : p # q => Apart(p, q)'
  BY DEF Apart, Saves
<1> QED
  BY <1>3, <1>4, <1>5, <1>6, <1>7 DEF FileInv

LEMMA FilesDamage == ASSUME FileInv, F!Damage PROVE FileInv'
<1> USE DEF F!Damage
<1>1. /\ UNCHANGED <<backup, backups, pc, fMemory, candidate, copy, acked, known, overwritten, overlapped>>
      /\ primary' = Broken /\ primaries' = {Broken} /\ damages' = damages + 1
      /\ \A p \in Processes : pc[p] # "copy"
  OBVIOUS
<1>2. Kept' = Kept /\ \A b : Lost(b)' = Lost(b)
  BY <1>1 DEF Kept, Lost
<1>3. FileTypes'
  BY <1>1, DocumentsParse, MCAssumption DEF FileInv, FileTypes, F!TypeOK, F!FilesAssumption
<1>4. \A b \in backups' : BackupInv(b)'
  <2> SUFFICES ASSUME NEW b \in backups PROVE BackupInv(b)'
    BY <1>1
  <2>1. BackupInv(b) /\ damages \in Nat
    BY DEF FileInv, FileTypes
  <2>2. IsFiniteSet(Kept) /\ IsFiniteSet(Lost(b))
    BY FS_Subset DEF FileInv, FileTypes, Kept, Lost
  <2>3. Cardinality(Kept) \in Nat /\ Cardinality(Lost(b)) \in Nat
    BY <2>2, FS_CardinalityType
  <2>4. /\ F!Parses(b) => Cardinality(Lost(b)) <= damages + 1
        /\ ~F!Parses(b) => Cardinality(Kept) <= damages
    BY <2>1 DEF BackupInv
  <2>5. /\ F!Parses(b) => /\ Cardinality(Lost(b)) <= damages + 1
                          /\ Cardinality(Lost(b)) <= damages + 1 + 1
        /\ ~F!Parses(b) => Cardinality(Kept) <= damages + 1 /\ Cardinality(Kept) < damages + 1
    BY <2>1, <2>3, <2>4
  <2> QED
    BY <1>1, <1>2, <2>5 DEF BackupInv
<1>5. \A p \in Processes : HeldBy(p)'
  <2> TAKE p \in Processes
  <2>1. HeldBy(p) /\ Saves(p)' = Saves(p) /\ Lost(copy[p])' = Lost(copy[p])
    BY <1>1 DEF FileInv, Saves, Lost
  <2> QED
    BY <1>1, <2>1 DEF HeldBy
<1>6. \A p \in Processes : BackedUp(p)'
  <2> TAKE p \in Processes
  <2>1. BackedUp(p) /\ damages \in Nat
    BY DEF FileInv, FileTypes
  <2>2. ~Renamed(p)'
    <3>1. Saves(p) => candidate[p] \in F!Documents
      BY DEF FileInv, FileTypes, F!TypeOK
    <3> QED
      BY <1>1, <3>1, DocumentsParse DEF Renamed, Saves
  <2>3. IsFiniteSet(Lost(backup)) /\ IsFiniteSet(known[p] \ overwritten)
    BY FS_Subset DEF FileInv, FileTypes, Lost, HeldBy
  <2>4. Cardinality(Lost(backup)) \in Nat /\ Cardinality(known[p] \ overwritten) \in Nat
    BY <2>3, FS_CardinalityType
  <2>5. pc[p] = "write" => /\ F!Parses(backup) => Cardinality(Lost(backup)) <= damages + 1
                           /\ ~F!Parses(backup) => Cardinality(known[p] \ overwritten) < damages + 1
    BY <2>1, <2>4 DEF BackedUp
  <2>6. Lost(backup)' = Lost(backup)
    BY <1>1 DEF Lost
  <2> QED
    BY <1>1, <2>2, <2>5, <2>6 DEF BackedUp
<1>7. \A p, q \in Processes : p # q => Apart(p, q)'
  BY <1>1 DEF FileInv, Apart, Saves
<1> QED
  BY <1>1, <1>3, <1>4, <1>5, <1>6, <1>7, DocumentsParse DEF FileInv

\* What a save adds to what somebody was told is saved, and to what a backup lacks: its own
\* change, when it is in the primary still; and nothing at all when another process renamed
\* its document over this one.
LEMMA SavedAdds ==
  ASSUME FileInv, NEW p \in Processes, F!Saved(p)
  PROVE  /\ primary # candidate[p] => Kept' \subseteq Kept /\ \A b : Lost(b)' \subseteq Lost(b)
         /\ \E c \in Changes : /\ candidate[p] \ fMemory[p] \subseteq {c}
                               /\ Kept' \subseteq Kept \cup {c}
                               /\ \A b : Lost(b)' \subseteq Lost(b) \cup {c}
         /\ (\E q \in Processes \ {p} : pc[q] \in {"copied", "write"}) =>
              \A b : Lost(b)' \subseteq Lost(b)
<1> DEFINE new == candidate[p] \ fMemory[p]
<1>1. /\ acked' = acked \cup new
      /\ overwritten' = IF primary = candidate[p] THEN overwritten ELSE overwritten \cup new
      /\ overlapped \subseteq overlapped'
      /\ (\E q \in Processes \ {p} : pc[q] \in {"copied", "write"}) => new \subseteq overlapped'
  BY DEF F!Saved
<1>2. PICK c \in Changes : candidate[p] = fMemory[p] \cup {c}
  BY DEF FileInv, HeldBy, Saves, F!Saved
<1>3. new \subseteq {c}
  BY <1>2
<1> HIDE DEF new
<1>4. /\ primary # candidate[p] => Kept' \subseteq Kept /\ \A b : Lost(b)' \subseteq Lost(b)
      /\ Kept' \subseteq Kept \cup {c} /\ \A b : Lost(b)' \subseteq Lost(b) \cup {c}
      /\ (\E q \in Processes \ {p} : pc[q] \in {"copied", "write"}) =>
           \A b : Lost(b)' \subseteq Lost(b)
  BY <1>1, <1>3 DEF Kept, Lost
<1> QED
  BY <1>3, <1>4 DEF new

LEMMA FilesSaved == ASSUME FileInv, NEW p \in Processes, F!Saved(p) PROVE FileInv'
<1> USE DEF F!Saved
<1> DEFINE new == candidate[p] \ fMemory[p]
           raced == \E q \in Processes \ {p} : pc[q] \in {"copied", "write"}
<1>1. /\ UNCHANGED <<primary, backup, copy, damages>>
      /\ primaries' = {primary} /\ backups' = {backup} /\ acked' = acked \cup new
      /\ overwritten \subseteq overwritten' /\ overwritten' \subseteq overwritten \cup new
      /\ overlapped \subseteq overlapped' /\ overlapped' \subseteq overlapped \cup new
  OBVIOUS
<1>2. Elsewhere(p)
  BY DEF FileInv, FileTypes, F!TypeOK, Elsewhere
<1>3. /\ pc[p] = "sync" /\ pc'[p] \in {"down", "idle"} /\ candidate'[p] = {}
      /\ p \in Commands => fMemory'[p] = {} /\ known'[p] = {}
      /\ p \notin Commands => /\ fMemory'[p] = candidate[p] /\ known'[p] = known[p] \cup new
                              /\ pc'[p] = "idle"
  BY DEF FileInv, FileTypes, F!TypeOK, F!After
<1>4. PICK c \in Changes : /\ new \subseteq {c} /\ Kept' \subseteq Kept \cup {c}
                           /\ \A b : Lost(b)' \subseteq Lost(b) \cup {c}
  BY SavedAdds
<1>5. primary # candidate[p] => Kept' \subseteq Kept /\ \A b : Lost(b)' \subseteq Lost(b)
  BY SavedAdds
<1>6. raced => \A b : Lost(b)' \subseteq Lost(b)
  BY SavedAdds
<1>7. new \subseteq Changes /\ new \subseteq candidate[p] /\ candidate[p] \in F!Documents
  BY <1>4 DEF FileInv, FileTypes, F!TypeOK
<1>8. fMemory[p] \subseteq candidate[p] /\ known[p] \ overwritten \subseteq fMemory[p]
      /\ known[p] \subseteq acked
  BY <1>3 DEF FileInv, HeldBy, Saves
<1>9. FileTypes'
  <2>1. IsFiniteSet(acked \cup {c}) /\ acked' \subseteq acked \cup {c}
    BY <1>1, <1>4, FS_AddElement DEF FileInv, FileTypes
  <2>2. IsFiniteSet(acked')
    BY <2>1, FS_Subset
  <2>3. acked' \subseteq Changes /\ overwritten' \subseteq Changes /\ overlapped' \subseteq Changes
    BY <1>1, <1>7 DEF FileInv, FileTypes, F!TypeOK
  <2>4. /\ pc' \in [Processes -> {"down", "idle", "copy", "copied", "write", "sync"}]
        /\ fMemory' \in [Processes -> F!Documents] /\ candidate' \in [Processes -> F!Documents]
        /\ known' \in [Processes -> SUBSET Changes]
    <3>1. IF p \in Commands THEN TRUE ELSE known[p] \cup new \in SUBSET Changes
      BY <1>7 DEF FileInv, FileTypes, F!TypeOK
    <3> HIDE DEF new
    <3>2. known' \in [Processes -> SUBSET Changes]
      BY <1>7, <3>1 DEF FileInv, FileTypes, F!TypeOK, new
    <3> QED
      BY <3>2, DocumentsParse DEF FileInv, FileTypes, F!TypeOK, F!After
  <2>5. primary \in primaries /\ backup \in backups
    BY DEF FileInv, FileTypes, F!TypeOK
  <2> QED
    BY <1>1, <2>2, <2>3, <2>4, <2>5 DEF FileInv, FileTypes, F!TypeOK
<1> HIDE DEF new
<1>10. \A f \in primaries' : F!Parses(f) => Kept' \subseteq f
  <2>1. primary \in primaries
    BY DEF FileInv, FileTypes, F!TypeOK
  <2>2. F!Parses(primary) => Kept \subseteq primary
    BY <2>1 DEF FileInv
  <2>3. CASE primary = candidate[p]
    <3>1. Kept' \subseteq Kept \cup new
      BY <1>1 DEF Kept
    <3> QED
      BY <1>1, <1>7, <2>2, <2>3, <3>1
  <2>4. CASE primary # candidate[p]
    BY <1>1, <1>5, <2>2, <2>4
  <2> QED
    BY <2>3, <2>4
<1>11. \A b \in backups' : BackupInv(b)'
  <2>1. backup \in backups /\ primary \in primaries /\ damages \in Nat
    BY DEF FileInv, FileTypes, F!TypeOK
  <2>2. CASE primary = candidate[p]
    <3>1. Broken \notin primaries'
      BY <1>1, <1>7, <2>2, DocumentsParse
    <3>2. Renamed(p) /\ BackedUp(p)
      BY <1>3, <2>2 DEF FileInv, Renamed
    <3>3. /\ F!Parses(backup) => Cardinality(Lost(backup)) <= damages
          /\ ~F!Parses(backup) => Cardinality(Kept) < damages
      BY <3>2 DEF BackedUp
    <3> SUFFICES ASSUME NEW b \in backups', b = backup PROVE BackupInv(b)'
      BY <1>1
    <3>4. IsFiniteSet(Kept) /\ IsFiniteSet(Lost(b))
      BY FS_Subset DEF FileInv, FileTypes, Kept, Lost
    <3>5. /\ Cardinality(Kept') <= Cardinality(Kept) + 1
          /\ Cardinality(Kept') \in Nat /\ Cardinality(Kept) \in Nat
      BY <1>4, <3>4, OneMore
    <3>6. /\ Cardinality(Lost(b)') <= Cardinality(Lost(b)) + 1
          /\ Cardinality(Lost(b)') \in Nat /\ Cardinality(Lost(b)) \in Nat
      <4>1. Lost(b)' \subseteq Lost(b) \cup {c}
        BY <1>4
      <4> QED
        BY <3>4, <4>1, OneMore
    <3>7. /\ F!Parses(b) => Cardinality(Lost(b)') <= damages + 1
          /\ ~F!Parses(b) => Cardinality(Kept') <= damages
      BY <2>1, <3>3, <3>5, <3>6
    <3> QED
      BY <1>1, <3>1, <3>7 DEF BackupInv
  <2>3. CASE primary # candidate[p]
    <3>1. Broken \in primaries' => Broken \in primaries
      BY <1>1, <2>1
    <3>2. damages' = damages
      BY <1>1
    <3> QED
      BY <1>1, <1>5, <2>1, <2>3, <3>1, <3>2, BackupsStay
  <2> QED
    BY <2>2, <2>3
<1>12. \A q \in Processes : HeldBy(q)'
  <2>1. HeldBy(p)'
    <3>1. known[p] \cup new \subseteq acked \cup new
          /\ (known[p] \cup new) \ overwritten' \subseteq candidate[p]
      BY <1>1, <1>7, <1>8
    <3> QED
      BY <1>1, <1>3, <3>1 DEF HeldBy, Saves
  <2>2. ASSUME NEW q \in Processes \ {p} PROVE HeldBy(q)'
    <3>1. HeldBy(q) /\ Saves(q)' = Saves(q)
      BY <1>2 DEF FileInv, Saves, Elsewhere
    <3>2. pc[q] = "copied" => Lost(copy[q])' \subseteq Lost(copy[q])
      BY <1>1, <1>6
    <3> QED
      BY <1>1, <1>2, <3>1, <3>2 DEF HeldBy, Elsewhere
  <2> QED
    BY <2>1, <2>2
<1>13. \A q \in Processes : BackedUp(q)'
  <2>1. BackedUp(p)'
    BY <1>3 DEF BackedUp, Renamed
  <2>2. ASSUME NEW q \in Processes \ {p} PROVE BackedUp(q)'
    <3>1. /\ pc'[q] = pc[q] /\ candidate'[q] = candidate[q] /\ known'[q] = known[q]
          /\ (Renamed(q)' <=> Renamed(q)) /\ BackedUp(q) /\ damages \in Nat
      BY <1>1, <1>2 DEF Elsewhere, Renamed, FileInv, FileTypes
    <3>2. Renamed(q) => primary # candidate[p]
      BY <1>3 DEF Renamed, FileInv, Apart, Saves
    <3>3. IsFiniteSet(Kept) /\ IsFiniteSet(Lost(backup)) /\ IsFiniteSet(known[q] \ overwritten)
      BY FS_Subset DEF FileInv, FileTypes, Kept, Lost, HeldBy
    <3>4. pc[q] = "write" \/ Renamed(q) => Lost(backup)' \subseteq Lost(backup)
      BY <1>1, <1>5, <1>6, <3>2
    <3>5. Lost(backup)' \subseteq Lost(backup) =>
            /\ Cardinality(Lost(backup)') <= Cardinality(Lost(backup))
            /\ Cardinality(Lost(backup)') \in Nat /\ Cardinality(Lost(backup)) \in Nat
      BY <3>3, Smaller
    <3>6. /\ Cardinality(known[q] \ overwritten') <= Cardinality(known[q] \ overwritten)
          /\ Cardinality(known[q] \ overwritten') \in Nat
          /\ Cardinality(known[q] \ overwritten) \in Nat
      BY <1>1, <3>3, Smaller
    <3>7. Renamed(q) => /\ Cardinality(Kept') <= Cardinality(Kept)
                        /\ Cardinality(Kept') \in Nat /\ Cardinality(Kept) \in Nat
      BY <1>5, <3>2, <3>3, Smaller
    <3>8. pc[q] = "write" \/ Renamed(q) =>
            (F!Parses(backup) => Cardinality(Lost(backup)') <= damages)
      BY <3>1, <3>4, <3>5 DEF BackedUp
    <3>9. pc[q] = "write" /\ ~F!Parses(backup) => Cardinality(known[q] \ overwritten') < damages
      BY <3>1, <3>6 DEF BackedUp
    <3>10. Renamed(q) /\ ~F!Parses(backup) => Cardinality(Kept') < damages
      BY <3>1, <3>7 DEF BackedUp
    <3> QED
      BY <1>1, <3>1, <3>8, <3>9, <3>10 DEF BackedUp
  <2> QED
    BY <2>1, <2>2
<1>14. \A q, r \in Processes : q # r => Apart(q, r)'
  BY <1>2, <1>3, StaysApart DEF Saves
<1> QED
  BY <1>9, <1>10, <1>11, <1>12, <1>13, <1>14 DEF FileInv

LEMMA FilesStep == ASSUME FileInv, [F!Next]_fVars PROVE FileInv'
<1>1. ASSUME NEW p \in Processes,
             \/ F!Start(p) \/ F!Save(p) \/ F!CopyRead(p) \/ F!CopyRename(p) \/ F!Write(p)
             \/ F!Saved(p) \/ F!SaveFails(p) \/ F!Stop(p)
      PROVE  FileInv'
  BY <1>1, FilesStart, FilesSave, FilesCopyRead, FilesCopyRename, FilesWrite, FilesSaved,
     FilesSaveFails, FilesStop
<1>2. CASE UNCHANGED fVars
  <2>1. UNCHANGED <<primary, backup, primaries, backups, pc, fMemory, candidate, copy, acked, known,
                    overwritten, overlapped, damages>>
    BY <1>2 DEF fVars
  <2>2. FileTypes' /\ \A p, q \in Processes : p # q => Apart(p, q)'
    BY <2>1 DEF FileInv, FileTypes, F!TypeOK, Apart, Saves
  <2> QED
    BY <2>1, <2>2, Quiet DEF FileInv
<1> QED
  BY <1>1, <1>2, FilesPowerLoss, FilesDamage DEF F!Next

LEMMA FilesHold == FileInv => F!TypeOK /\ F!AckedIsLoaded /\ F!DamageCostsOneSave
<1> SUFFICES ASSUME FileInv PROVE F!TypeOK /\ F!AckedIsLoaded /\ F!DamageCostsOneSave
  OBVIOUS
<1>1. primary \in primaries /\ backup \in backups /\ F!TypeOK
  BY DEF FileInv, FileTypes, F!TypeOK
<1>2. F!AckedIsLoaded
  BY <1>1 DEF FileInv, F!AckedIsLoaded, Kept
<1>3. F!DamageCostsOneSave
  <2>1. BackupInv(backup)
    BY <1>1 DEF FileInv
  <2> QED
    BY <1>1, <2>1, SameCardinality DEF F!DamageCostsOneSave, BackupInv, Kept, Lost
<1> QED
  BY <1>1, <1>2, <1>3

\* A JSON file that was not damaged holds every change somebody was told is saved and no
\* other process replaced, over failed and interrupted saves and power failures; damage
\* costs it the changes of one save (json.go), for any number of processes, changes,
\* damages and power failures.
THEOREM FilesAlwaysSound ==
  F!Spec => [](F!TypeOK /\ F!AckedIsLoaded /\ F!DamageCostsOneSave)
<1>1. FileInv /\ [F!Next]_(F!vars) => FileInv'
  BY FilesStep DEF F!vars, F!files, F!ghosts, fVars
<1> QED
  BY <1>1, FileInit, FilesHold, PTL DEF F!Spec

\* A behaviour is one of the scene its "scene" names; the other parts stay as they begin.
LEMMA SceneIsAPart == MCSpec => Spec /\ F!Init /\ [][F!Next]_fVars
<1>1. MCInit => Init /\ F!Init
  BY DEF MCInit
<1>2. [MCNext]_<<scene, vars, aVars, fVars>> => [Next]_vars /\ [F!Next]_fVars
  BY DEF MCNext
<1> QED
  BY <1>1, <1>2, PTL DEF MCSpec, Spec

\* The JSON file of the state never holds a total its database has not, and a JSON file
\* keeps what was acknowledged (tracker.go, persist; json.go).
THEOREM FilesSoundInBothScenes == MCSpec => []FilesAreSound
<1>1. FileInv /\ [F!Next]_fVars => FileInv'
  BY FilesStep
<1>2. MCSpec => []FileInv
  BY <1>1, FileInit, SceneIsAPart, PTL
<1>3. MCSpec => []MirrorNeverAhead
  BY MirrorAlwaysBehind, SceneIsAPart, PTL
<1>4. FileInv /\ MirrorNeverAhead => FilesAreSound
  BY FilesHold DEF FilesAreSound
<1> QED
  BY <1>2, <1>3, <1>4, PTL
-----------------------------------------------------------------------------
(***************************************************************************)
(* Sums over finite sets.  Sum and MapThenSumSet are folds, which take out *)
(* one member after another, CHOOSEn; what is needed of them is that the   *)
(* order does not matter.  There is no induction theorem here with an      *)
(* operator for its predicate that a prover could instantiate: a set of    *)
(* the subsets that have the property stands for it.                       *)
(***************************************************************************)
LEMMA LeastOfNaturals ==
  ASSUME NEW S, S \subseteq Nat, S # {}
  PROVE  \E m \in S : \A k \in S : m <= k
<1> DEFINE R == {ss \in Nat \X Nat : ss[1] < ss[2]}
<1>1. IsWellFoundedOn(R, Nat)
  BY NatLessThanWellFounded, Zenon DEF OpToRel
<1>2. \A a, b \in Nat : a < b => <<a, b>> \in R
  OBVIOUS
<1> HIDE DEF R
<1>3. PICK m \in S : \A k \in S : ~(<<k, m>> \in R)
  BY <1>1, WFMin
<1>4. ASSUME NEW k \in S PROVE m <= k
  <2>1. k \in Nat /\ m \in Nat /\ ~(k < m)
    BY <1>2, <1>3
  <2> QED
    BY <2>1
<1> QED
  BY <1>4

LEMMA Counting ==
  ASSUME NEW P, 0 \in P, \A n \in Nat : n \in P => n + 1 \in P
  PROVE  Nat \subseteq P
<1> SUFFICES ASSUME Nat \ P # {} PROVE FALSE
  OBVIOUS
<1>1. PICK m \in Nat \ P : \A k \in Nat \ P : m <= k
  BY LeastOfNaturals
<1>2. m \in Nat /\ m # 0 /\ m \notin P
  BY <1>1
<1>3. m - 1 \in Nat /\ ~(m <= m - 1) /\ (m - 1) + 1 = m
  BY <1>2
<1>4. m - 1 \in P
  BY <1>1, <1>3
<1> QED
  BY <1>2, <1>3, <1>4

\* What holds of a finite set when it holds of the smaller ones, holds of all its subsets.
LEMMA SubsetInduction ==
  ASSUME NEW S, IsFiniteSet(S), NEW P,
         \A s \in SUBSET S : (\A t \in SUBSET s : t # s => t \in P) => s \in P
  PROVE  SUBSET S \subseteq P
<1> DEFINE Q == {n \in Nat : \A s \in SUBSET S : Cardinality(s) <= n => s \in P}
<1>1. \A s \in SUBSET S : IsFiniteSet(s) /\ Cardinality(s) \in Nat
  BY FS_Subset, FS_CardinalityType
<1>2. \A s \in SUBSET S : \A t \in SUBSET s : t # s => Cardinality(t) < Cardinality(s)
  <2> SUFFICES ASSUME NEW s \in SUBSET S, NEW t \in SUBSET s, t # s
               PROVE  Cardinality(t) < Cardinality(s)
    OBVIOUS
  <2>1. IsFiniteSet(s) /\ Cardinality(s) \in Nat /\ Cardinality(t) \in Nat
    BY <1>1
  <2>2. Cardinality(t) <= Cardinality(s) /\ (Cardinality(s) = Cardinality(t) => s = t)
    BY <2>1, FS_Subset
  <2> QED
    BY <2>1, <2>2
<1>3. 0 \in Q
  <2> SUFFICES ASSUME NEW s \in SUBSET S, Cardinality(s) <= 0 PROVE s \in P
    OBVIOUS
  <2>1. ASSUME NEW t \in SUBSET s, t # s PROVE FALSE
    <3>1. Cardinality(t) < Cardinality(s) /\ Cardinality(t) \in Nat /\ Cardinality(s) \in Nat
      BY <1>1, <1>2, <2>1
    <3> QED
      BY <3>1
  <2> QED
    BY <2>1
<1>4. ASSUME NEW n \in Nat, n \in Q PROVE n + 1 \in Q
  <2> SUFFICES ASSUME NEW s \in SUBSET S, Cardinality(s) <= n + 1 PROVE s \in P
    OBVIOUS
  <2>1. ASSUME NEW t \in SUBSET s, t # s PROVE t \in P
    <3>1. /\ Cardinality(t) < Cardinality(s) /\ Cardinality(t) \in Nat /\ Cardinality(s) \in Nat
          /\ t \in SUBSET S
      BY <1>1, <1>2, <2>1
    <3>2. Cardinality(t) <= n
      BY <3>1
    <3> QED
      BY <1>4, <3>1, <3>2
  <2> QED
    BY <2>1
<1> HIDE DEF Q
<1>5. Nat \subseteq Q
  BY <1>3, <1>4, Counting
<1> SUFFICES ASSUME NEW s \in SUBSET S PROVE s \in P
  OBVIOUS
<1>6. Cardinality(s) \in Q /\ Cardinality(s) <= Cardinality(s)
  BY <1>1, <1>5
<1> QED
  BY <1>6 DEF Q

-----------------------------------------------------------------------------
\* A sum over a set, as the community modules define it: by taking out one member after another.
Step(f, g, s) == IF s = {} THEN 0 ELSE f[CHOOSE x \in s : TRUE] + g[s \ {CHOOSE x \in s : TRUE}]
Rec(f, S) == CHOOSE g : g = [s \in SUBSET S |-> Step(f, g, s)]
Total(f, S) == Rec(f, S)[S]

LEMMA SumIs == ASSUME NEW f PROVE A!Sum(f) = Total(f, DOMAIN f)
  BY DEF A!Sum, A!FoldFunction, A!FoldFunctionOnSet, A!MapThenFoldSet, Total, Rec, Step

LEMMA RecExists ==
  ASSUME NEW f, NEW S, IsFiniteSet(S)
  PROVE  \E g : g = [s \in SUBSET S |-> Step(f, g, s)]
<1> DEFINE c(s) == CHOOSE x \in s : TRUE
           Good(g, n) == /\ g = [s \in SUBSET S |-> g[s]]
                         /\ \A s \in SUBSET S : Cardinality(s) <= n => g[s] = Step(f, g, s)
           Q == {n \in Nat : \E g : Good(g, n)}
<1>1. \A s \in SUBSET S : IsFiniteSet(s) /\ Cardinality(s) \in Nat
  BY FS_Subset, FS_CardinalityType
<1>2. \A s \in SUBSET S : s # {} => /\ s \ {c(s)} \in SUBSET S
                                     /\ Cardinality(s \ {c(s)}) = Cardinality(s) - 1
  <2> SUFFICES ASSUME NEW s \in SUBSET S, s # {}
               PROVE  s \ {c(s)} \in SUBSET S /\ Cardinality(s \ {c(s)}) = Cardinality(s) - 1
    OBVIOUS
  <2>1. c(s) \in s /\ IsFiniteSet(s)
    BY <1>1
  <2> QED
    BY <2>1, FS_RemoveElement
<1>3. 0 \in Q
  <2> DEFINE g == [s \in SUBSET S |-> 0]
  <2>1. \A s \in SUBSET S : Cardinality(s) <= 0 => s = {}
    <3> SUFFICES ASSUME NEW s \in SUBSET S, Cardinality(s) <= 0 PROVE s = {}
      OBVIOUS
    <3>1. Cardinality(s) = 0 /\ IsFiniteSet(s)
      BY <1>1
    <3> QED
      BY <3>1, FS_EmptySet
  <2>2. Good(g, 0)
    BY <2>1 DEF Step
  <2> QED
    BY <2>2
<1>4. ASSUME NEW n \in Nat, n \in Q PROVE n + 1 \in Q
  <2>1. PICK g : Good(g, n)
    BY <1>4
  <2> DEFINE h == [s \in SUBSET S |-> IF Cardinality(s) <= n THEN g[s] ELSE Step(f, g, s)]
  <2>2. \A s \in SUBSET S : h[s] = IF Cardinality(s) <= n THEN g[s] ELSE Step(f, g, s)
    OBVIOUS
  <2>3. h = [s \in SUBSET S |-> h[s]]
    OBVIOUS
  <2> HIDE DEF h
  <2>4. ASSUME NEW s \in SUBSET S, Cardinality(s) <= n + 1 PROVE h[s] = Step(f, h, s)
    <3>1. CASE s = {}
      <4>1. Step(f, g, s) = 0 /\ Step(f, h, s) = 0
        BY <3>1 DEF Step
      <4>2. Cardinality(s) <= n => g[s] = Step(f, g, s)
        BY <2>1
      <4> QED
        BY <2>2, <4>1, <4>2
    <3>2. CASE s # {}
      <4>1. /\ s \ {c(s)} \in SUBSET S /\ Cardinality(s \ {c(s)}) <= n
        BY <1>1, <1>2, <2>4, <3>2
      <4>2. h[s \ {c(s)}] = g[s \ {c(s)}]
        BY <2>2, <4>1
      <4>3. Step(f, h, s) = Step(f, g, s)
        BY <3>2, <4>2 DEF Step
      <4>4. Cardinality(s) <= n => g[s] = Step(f, g, s)
        BY <2>1
      <4> QED
        BY <2>2, <4>3, <4>4
    <3> QED
      BY <3>1, <3>2
  <2>5. Good(h, n + 1)
    BY <2>3, <2>4
  <2> HIDE DEF Good
  <2>6. n + 1 \in Nat /\ \E k : Good(k, n + 1)
    BY <2>5
  <2> QED
    BY <2>6
<1> HIDE DEF Q
<1>5. Nat \subseteq Q
  BY <1>3, <1>4, Counting
<1>6. Cardinality(S) \in Nat
  BY FS_CardinalityType
<1>7. PICK g : Good(g, Cardinality(S))
  BY <1>5, <1>6 DEF Q
<1>8. \A s \in SUBSET S : Cardinality(s) <= Cardinality(S)
  BY FS_Subset
<1>9. \A s \in SUBSET S : g[s] = Step(f, g, s)
  BY <1>7, <1>8
<1>10. g = [s \in SUBSET S |-> g[s]]
  BY <1>7
<1>11. g = [s \in SUBSET S |-> Step(f, g, s)]
  <2> HIDE DEF Good
  <2> QED
    BY <1>9, <1>10
<1> QED
  BY <1>11

LEMMA RecIs ==
  ASSUME NEW f, NEW S, IsFiniteSet(S)
  PROVE  \A s \in SUBSET S : Rec(f, S)[s] = Step(f, Rec(f, S), s)
<1>1. Rec(f, S) = [s \in SUBSET S |-> Step(f, Rec(f, S), s)]
  BY RecExists DEF Rec
<1>2. \A s \in SUBSET S : [t \in SUBSET S |-> Step(f, Rec(f, S), t)][s] = Step(f, Rec(f, S), s)
  OBVIOUS
<1> QED
  BY <1>1, <1>2

\* A sum looks at the members of its set only.
LEMMA SameRec ==
  ASSUME NEW f, NEW S, IsFiniteSet(S), NEW h, NEW T, IsFiniteSet(T), NEW U,
         U \subseteq S, U \subseteq T, \A x \in U : f[x] = h[x]
  PROVE  Rec(f, S)[U] = Rec(h, T)[U]
<1> DEFINE P == {s \in SUBSET U : Rec(f, S)[s] = Rec(h, T)[s]}
<1>1. IsFiniteSet(U)
  BY FS_Subset
<1>2. \A s \in SUBSET S : Rec(f, S)[s] = Step(f, Rec(f, S), s)
  BY RecIs
<1>3. \A s \in SUBSET T : Rec(h, T)[s] = Step(h, Rec(h, T), s)
  BY RecIs
<1>4. ASSUME NEW s \in SUBSET U, \A t \in SUBSET s : t # s => t \in P
      PROVE  s \in P
  <2>1. Rec(f, S)[s] = Step(f, Rec(f, S), s) /\ Rec(h, T)[s] = Step(h, Rec(h, T), s)
    <3>1. s \in SUBSET S /\ s \in SUBSET T
      OBVIOUS
    <3> QED
      BY <1>2, <1>3, <3>1
  <2>2. CASE s = {}
    BY <2>1, <2>2 DEF Step
  <2>3. CASE s # {}
    <3> DEFINE c == CHOOSE x \in s : TRUE
    <3>1. c \in s /\ s \ {c} \in SUBSET s /\ s \ {c} # s /\ s \in SUBSET U
      BY <2>3
    <3>2. Rec(f, S)[s \ {c}] = Rec(h, T)[s \ {c}]
      BY <1>4, <3>1
    <3>3. f[c] = h[c]
      BY <3>1
    <3> QED
      BY <2>1, <2>3, <3>1, <3>2, <3>3 DEF Step
  <2> QED
    BY <2>2, <2>3
<1> HIDE DEF P
<1>5. SUBSET U \subseteq P
  BY <1>1, <1>4, SubsetInduction
<1> QED
  BY <1>5 DEF P

LEMMA TotalEmpty == ASSUME NEW f PROVE Total(f, {}) = 0
<1>1. IsFiniteSet({}) /\ {} \in SUBSET {}
  BY FS_EmptySet
<1> QED
  BY <1>1, RecIs DEF Step, Total

LEMMA SameTotal ==
  ASSUME NEW f, NEW h, NEW S, IsFiniteSet(S), \A x \in S : f[x] = h[x]
  PROVE  Total(f, S) = Total(h, S)
  BY SameRec DEF Total

\* One member more, whichever.
LEMMA TotalMember ==
  ASSUME NEW f, NEW S, IsFiniteSet(S), \A x \in S : f[x] \in Int
  PROVE  /\ Total(f, S) \in Int
         /\ \A x \in S : Total(f, S) = f[x] + Total(f, S \ {x})
<1> DEFINE g == Rec(f, S)
           P == {s \in SUBSET S : g[s] \in Int /\ \A x \in s : g[s] = f[x] + g[s \ {x}]}
<1>1. \A s \in SUBSET S : g[s] = Step(f, g, s)
  BY RecIs
<1> HIDE DEF g
<1>2. ASSUME NEW s \in SUBSET S, \A t \in SUBSET s : t # s => t \in P
      PROVE  s \in P
  <2>1. CASE s = {}
    <3>1. g[s] = 0
      BY <1>1, <2>1 DEF Step
    <3> QED
      BY <2>1, <3>1
  <2>2. CASE s # {}
    <3> DEFINE c == CHOOSE x \in s : TRUE
    <3>1. c \in s
      BY <2>2
    <3>2. g[s] = f[c] + g[s \ {c}]
      BY <1>1, <2>2 DEF Step
    <3> HIDE DEF c
    <3>3. \A x \in s : s \ {x} \in P /\ f[x] \in Int
      BY <1>2
    <3>4. g[s] \in Int
      BY <3>1, <3>2, <3>3
    <3>5. ASSUME NEW x \in s PROVE g[s] = f[x] + g[s \ {x}]
      <4>1. CASE x = c
        BY <3>2, <4>1
      <4>2. CASE x # c
        <5>1. x \in s \ {c} /\ c \in s \ {x} /\ (s \ {c}) \ {x} = (s \ {x}) \ {c}
          BY <3>1, <4>2
        <5>2. (s \ {c}) \ {x} \in P
          BY <1>2, <5>1
        <5>3. g[s \ {c}] = f[x] + g[(s \ {c}) \ {x}] /\ g[s \ {x}] = f[c] + g[(s \ {x}) \ {c}]
          BY <3>1, <3>3, <5>1
        <5>4. f[x] \in Int /\ f[c] \in Int /\ g[(s \ {c}) \ {x}] \in Int
          BY <3>1, <3>3, <5>2
        <5>5. g[s \ {x}] = f[c] + g[(s \ {c}) \ {x}]
          BY <5>1, <5>3
        <5> HIDE DEF P
        <5> QED
          BY <3>2, <5>3, <5>4, <5>5
      <4> QED
        BY <4>1, <4>2
    <3> QED
      BY <3>4, <3>5
  <2> QED
    BY <2>1, <2>2
<1> HIDE DEF P
<1>3. SUBSET S \subseteq P
  BY <1>2, SubsetInduction
<1>4. /\ g[S] \in Int /\ \A x \in S : g[S] = f[x] + g[S \ {x}]
  BY <1>3 DEF P
<1>5. ASSUME NEW x \in S PROVE g[S \ {x}] = Total(f, S \ {x})
  <2>1. IsFiniteSet(S \ {x}) /\ S \ {x} \subseteq S
    BY FS_Subset
  <2>2. Rec(f, S)[S \ {x}] = Rec(f, S \ {x})[S \ {x}]
    BY <2>1, SameRec
  <2> QED
    BY <2>2 DEF g, Total
<1> QED
  BY <1>4, <1>5 DEF g, Total

LEMMA TotalAdds ==
  ASSUME NEW f, NEW g, NEW h, NEW S, IsFiniteSet(S),
         \A x \in S : f[x] \in Int /\ g[x] \in Int /\ h[x] = f[x] + g[x]
  PROVE  Total(h, S) = Total(f, S) + Total(g, S)
<1> DEFINE P == {s \in SUBSET S : Total(h, s) = Total(f, s) + Total(g, s)}
<1>1. \A x \in S : f[x] \in Int /\ g[x] \in Int /\ h[x] \in Int /\ h[x] = f[x] + g[x]
  OBVIOUS
<1>2. ASSUME NEW s \in SUBSET S, \A t \in SUBSET s : t # s => t \in P PROVE s \in P
  <2>1. CASE s = {}
    BY <2>1, TotalEmpty
  <2>2. CASE s # {}
    <3>1. PICK x \in s : TRUE
      BY <2>2
    <3>2. IsFiniteSet(s) /\ IsFiniteSet(s \ {x}) /\ x \in S
      BY <3>1, FS_Subset
    <3>3. s \ {x} \in P
      BY <1>2, <3>1
    <3>4. /\ Total(f, s) = f[x] + Total(f, s \ {x}) /\ Total(f, s \ {x}) \in Int
          /\ Total(g, s) = g[x] + Total(g, s \ {x}) /\ Total(g, s \ {x}) \in Int
          /\ Total(h, s) = h[x] + Total(h, s \ {x})
      <4>1. Total(f, s) = f[x] + Total(f, s \ {x}) /\ Total(f, s \ {x}) \in Int
        BY <1>1, <3>1, <3>2, TotalMember
      <4>2. Total(g, s) = g[x] + Total(g, s \ {x}) /\ Total(g, s \ {x}) \in Int
        BY <1>1, <3>1, <3>2, TotalMember
      <4>3. Total(h, s) = h[x] + Total(h, s \ {x})
        BY <1>1, <3>1, <3>2, TotalMember
      <4> QED
        BY <4>1, <4>2, <4>3
    <3> QED
      BY <1>1, <3>2, <3>3, <3>4
  <2> QED
    BY <2>1, <2>2
<1> HIDE DEF P
<1>3. SUBSET S \subseteq P
  BY <1>2, SubsetInduction
<1> QED
  BY <1>3 DEF P

LEMMA TotalZero ==
  ASSUME NEW f, NEW S, IsFiniteSet(S), \A x \in S : f[x] = 0
  PROVE  Total(f, S) = 0
<1>1. \A x \in S : f[x] \in Int /\ f[x] = f[x] + f[x]
  OBVIOUS
<1>2. Total(f, S) = Total(f, S) + Total(f, S)
  BY <1>1, TotalAdds
<1>3. Total(f, S) \in Int
  BY <1>1, TotalMember
<1>4. \A t \in Int : t = t + t => t = 0
  OBVIOUS
<1> QED
  BY <1>2, <1>3, <1>4

LEMMA TotalNatural ==
  ASSUME NEW f, NEW S, IsFiniteSet(S), \A x \in S : f[x] \in Nat
  PROVE  Total(f, S) \in Nat /\ \A x \in S : f[x] <= Total(f, S)
<1> DEFINE P == {s \in SUBSET S : Total(f, s) \in Nat}
<1>1. \A x \in S : f[x] \in Int /\ f[x] \in Nat
  OBVIOUS
<1>2. ASSUME NEW s \in SUBSET S, \A t \in SUBSET s : t # s => t \in P PROVE s \in P
  <2>1. CASE s = {}
    BY <2>1, TotalEmpty
  <2>2. CASE s # {}
    <3>1. PICK x \in s : TRUE
      BY <2>2
    <3>2. IsFiniteSet(s) /\ f[x] \in Nat
      BY <1>1, <3>1, FS_Subset
    <3>3. s \ {x} \in P
      BY <1>2, <3>1
    <3>4. Total(f, s) = f[x] + Total(f, s \ {x})
      BY <1>1, <3>1, <3>2, TotalMember
    <3> QED
      BY <3>2, <3>3, <3>4
  <2> QED
    BY <2>1, <2>2
<1> HIDE DEF P
<1>3. SUBSET S \subseteq P
  BY <1>2, SubsetInduction
<1>4. ASSUME NEW x \in S PROVE f[x] <= Total(f, S)
  <2>1. Total(f, S) = f[x] + Total(f, S \ {x})
    BY <1>1, TotalMember
  <2>2. Total(f, S \ {x}) \in Nat
    BY <1>3 DEF P
  <2> QED
    BY <1>1, <2>1, <2>2
<1>5. Total(f, S) \in Nat
  BY <1>3 DEF P
<1> QED
  BY <1>4, <1>5

LEMMA TotalGrows ==
  ASSUME NEW f, NEW g, NEW S, IsFiniteSet(S),
         \A x \in S : f[x] \in Int /\ g[x] \in Int /\ f[x] <= g[x]
  PROVE  Total(f, S) <= Total(g, S)
<1> DEFINE d == [x \in S |-> g[x] - f[x]]
<1>1. \A x \in S : f[x] \in Int /\ g[x] \in Int /\ d[x] \in Nat /\ d[x] \in Int /\ g[x] = f[x] + d[x]
  OBVIOUS
<1> HIDE DEF d
<1>2. Total(g, S) = Total(f, S) + Total(d, S)
  BY <1>1, TotalAdds
<1>3. Total(d, S) \in Nat
  BY <1>1, TotalNatural
<1>4. Total(f, S) \in Int
  BY <1>1, TotalMember
<1> QED
  BY <1>2, <1>3, <1>4

\* The sum when one member changes.
LEMMA TotalChanged ==
  ASSUME NEW f, NEW g, NEW S, IsFiniteSet(S), NEW c \in S,
         \A x \in S : f[x] \in Int /\ g[x] \in Int, \A x \in S \ {c} : f[x] = g[x]
  PROVE  Total(g, S) = Total(f, S) - f[c] + g[c]
<1>1. IsFiniteSet(S \ {c})
  BY FS_Subset
<1>2. Total(f, S \ {c}) = Total(g, S \ {c})
  BY <1>1, SameTotal
<1>3. Total(f, S) = f[c] + Total(f, S \ {c})
  BY TotalMember
<1>4. Total(g, S) = g[c] + Total(g, S \ {c})
  BY TotalMember
<1>5. Total(f, S \ {c}) \in Int
  BY <1>1, TotalMember
<1> QED
  BY <1>2, <1>3, <1>4, <1>5

\* Members that count nothing.
LEMMA TotalWithin ==
  ASSUME NEW f, NEW S, IsFiniteSet(S), NEW T \in SUBSET S,
         \A x \in S : f[x] \in Int, \A x \in S \ T : f[x] = 0
  PROVE  Total(f, S) = Total(f, T)
<1> DEFINE P == {s \in SUBSET S : Total(f, s) = Total(f, s \cap T)}
<1>1. ASSUME NEW s \in SUBSET S, \A t \in SUBSET s : t # s => t \in P PROVE s \in P
  <2>1. CASE s = {}
    <3>1. s \cap T = s
      BY <2>1
    <3> QED
      BY <3>1
  <2>2. CASE s # {}
    <3>1. PICK x \in s : TRUE
      BY <2>2
    <3>2. IsFiniteSet(s) /\ IsFiniteSet(s \cap T) /\ f[x] \in Int
      BY <3>1, FS_Subset
    <3>3. Total(f, s \ {x}) = Total(f, (s \ {x}) \cap T)
      BY <1>1, <3>1
    <3>4. Total(f, s) = f[x] + Total(f, s \ {x})
      BY <3>1, <3>2, TotalMember
    <3>5. CASE x \in T
      <4>1. x \in s \cap T /\ (s \ {x}) \cap T = (s \cap T) \ {x}
        BY <3>1, <3>5
      <4>2. Total(f, s \cap T) = f[x] + Total(f, (s \cap T) \ {x})
        BY <3>2, <4>1, TotalMember
      <4>3. Total(f, s) = Total(f, s \cap T)
        BY <3>3, <3>4, <4>1, <4>2
      <4> QED
        BY <4>3
    <3>6. CASE x \notin T
      <4>1. f[x] = 0 /\ (s \ {x}) \cap T = s \cap T
        BY <3>1, <3>6
      <4>2. Total(f, s \cap T) \in Int
        BY <3>2, TotalMember
      <4>3. Total(f, s \ {x}) = Total(f, s \cap T)
        BY <3>3, <4>1
      <4>4. Total(f, s) = Total(f, s \cap T)
        BY <3>4, <4>1, <4>2, <4>3
      <4> QED
        BY <4>4
    <3> QED
      BY <3>5, <3>6
  <2> QED
    BY <2>1, <2>2
<1> HIDE DEF P
<1>2. S \in P
  BY <1>1, SubsetInduction
<1>3. S \cap T = T
  OBVIOUS
<1> QED
  BY <1>2, <1>3 DEF P

\* Sums of groups add up.
LEMMA TotalGrouped ==
  ASSUME NEW h, NEW k, NEW C, IsFiniteSet(C), NEW R, IsFiniteSet(R),
         \A c \in C : h[c] \in Int /\ k[c] \in R
  PROVE  Total([r \in R |-> Total(h, {c \in C : k[c] = r})], R) = Total(h, C)
<1> DEFINE group(s) == [r \in R |-> Total(h, {c \in s : k[c] = r})]
           P == {s \in SUBSET C : Total(group(s), R) = Total(h, s)}
<1>1. ASSUME NEW s \in SUBSET C, NEW r \in R
      PROVE  IsFiniteSet({c \in s : k[c] = r}) /\ Total(h, {c \in s : k[c] = r}) \in Int
  <2>1. {c \in s : k[c] = r} \in SUBSET C
    OBVIOUS
  <2>2. IsFiniteSet({c \in s : k[c] = r})
    BY <2>1, FS_Subset
  <2> QED
    BY <2>1, <2>2, TotalMember
<1>2. ASSUME NEW s \in SUBSET C, \A t \in SUBSET s : t # s => t \in P PROVE s \in P
  <2>1. CASE s = {}
    <3>1. \A r \in R : group(s)[r] = 0
      <4> SUFFICES ASSUME NEW r \in R PROVE Total(h, {c \in s : k[c] = r}) = 0
        OBVIOUS
      <4>1. {c \in s : k[c] = r} = {}
        BY <2>1
      <4> QED
        BY <4>1, TotalEmpty
    <3> HIDE DEF group
    <3>2. Total(group(s), R) = 0 /\ Total(h, s) = 0
      BY <2>1, <3>1, TotalZero, TotalEmpty
    <3> QED
      BY <3>2
  <2>2. CASE s # {}
    <3>1. PICK x \in s : TRUE
      BY <2>2
    <3>2. IsFiniteSet(s) /\ x \in C /\ h[x] \in Int /\ k[x] \in R /\ s \ {x} \in SUBSET C
      BY <3>1, FS_Subset
    <3>3. \A r \in R : group(s \ {x})[r] \in Int /\ group(s)[r] \in Int
      BY <1>1, <3>2
    <3>4. \A r \in R \ {k[x]} : group(s \ {x})[r] = group(s)[r]
      <4> SUFFICES ASSUME NEW r \in R \ {k[x]}
                   PROVE  Total(h, {c \in s \ {x} : k[c] = r}) = Total(h, {c \in s : k[c] = r})
        OBVIOUS
      <4>1. {c \in s : k[c] = r} = {c \in s \ {x} : k[c] = r}
        OBVIOUS
      <4> QED
        BY <4>1
    <3>5. group(s)[k[x]] = h[x] + group(s \ {x})[k[x]]
      <4> DEFINE all == {c \in s : k[c] = k[x]}
      <4>1. x \in all /\ all \ {x} = {c \in s \ {x} : k[c] = k[x]}
        BY <3>1
      <4>2. IsFiniteSet(all) /\ \A c \in all : h[c] \in Int
        BY <1>1, <3>2
      <4> HIDE DEF all
      <4>3. Total(h, all) = h[x] + Total(h, all \ {x})
        BY <4>1, <4>2, TotalMember
      <4>4. group(s)[k[x]] = Total(h, all) /\ group(s \ {x})[k[x]] = Total(h, all \ {x})
        BY <3>2, <4>1 DEF all
      <4> QED
        BY <4>3, <4>4
    <3> HIDE DEF group
    <3>6. Total(group(s \ {x}), R) = Total(h, s \ {x})
      BY <1>2, <3>1
    <3>7. Total(group(s), R) = Total(group(s \ {x}), R) - group(s \ {x})[k[x]] + group(s)[k[x]]
      <4> DEFINE f == group(s \ {x})
                 g == group(s)
                 r == k[x]
      <4>1. /\ r \in R /\ (\A y \in R : f[y] \in Int /\ g[y] \in Int)
            /\ \A y \in R \ {r} : f[y] = g[y]
        BY <3>2, <3>3, <3>4
      <4> HIDE DEF f, g, r
      <4>2. Total(g, R) = Total(f, R) - f[r] + g[r]
        BY <4>1, TotalChanged
      <4> QED
        BY <4>2 DEF f, g, r
    <3>8. Total(h, s) = h[x] + Total(h, s \ {x})
      BY <3>1, <3>2, TotalMember
    <3>9. Total(h, s \ {x}) \in Int
      <4>1. IsFiniteSet(s \ {x}) /\ \A c \in s \ {x} : h[c] \in Int
        BY <3>2, FS_Subset
      <4> QED
        BY <4>1, TotalMember
    <3>10. group(s \ {x})[k[x]] \in Int
      BY <3>2, <3>3
    <3> QED
      BY <3>2, <3>5, <3>6, <3>7, <3>8, <3>9, <3>10
  <2> QED
    BY <2>1, <2>2
<1> HIDE DEF P
<1>3. C \in P
  BY <1>2, SubsetInduction
<1> QED
  BY <1>3 DEF P

-----------------------------------------------------------------------------
(* What a row can still be given: what every open connection has relayed since the       *)
(* sample a state is of.  The inductive invariant: of the state in memory with the rows   *)
(* it lists, of the snapshot a save holds, and of the checkpoint with its rows, the rows  *)
(* add up to the total since the last clear, and no application was given, nor can be     *)
(* given by the next sample, more than its connections relayed.                           *)

\* What the next sample gives, and what that of a panel that begins anew on a state would.
Due == [c \in DOMAIN open |-> A!Since(c)]
Anew(s, conns, gen) ==
  [c \in DOMAIN conns |-> IF s.generation # gen \/ s.last = 0 THEN conns[c] ELSE 0]

OfApp(conns, apps, a) == {c \in DOMAIN conns : apps[c] = a}

Covered(rows, cleared, due, conns, apps, rel) ==
  /\ \A a \in Apps : rows[a] + cleared[a] + Total(due, OfApp(conns, apps, a)) <= rel[a]
  /\ Total(rows, A!Rows) - rows[A!Unattributed] + Total(due, DOMAIN conns)
       <= Total(rel, A!Rows)

RowCounts == [A!Rows -> Nat]
States == [total : Nat, last : Nat, generation : Nat, cleared : RowCounts]

AppTypes ==
  /\ aGeneration \in 1..MaxGeneration /\ aCount \in Nat
  /\ DOMAIN app \subseteq A!Connections /\ \E n \in Nat : DOMAIN app = 1..n
  /\ \A c \in DOMAIN app : app[c] \in Apps
  /\ DOMAIN open \subseteq DOMAIN app /\ \A c \in DOMAIN open : open[c] \in Nat
  /\ DOMAIN active \subseteq DOMAIN app /\ \A c \in DOMAIN active : active[c] \in Nat
  /\ aRelayed \in RowCounts /\ aState \in States /\ seeded \in BOOLEAN
  /\ aPending \in RowCounts /\ from \in Nat
  /\ aSaving \in [pc : {"idle", "snapshot", "committed"}, state : States, rows : RowCounts]
  /\ aDb \in [state : States, rows : RowCounts]

\* A state's baseline is a reading of the process that runs, or of an older one, or none.
Baseline(s, gen, n) ==
  /\ s.generation <= gen
  /\ s.generation = gen => s.last <= n
  /\ s.generation = 0 => s.last = 0

\* What the open connections have relayed, the process has.
CoreCounts ==
  /\ Total(open, DOMAIN open) <= aCount
  /\ aCount <= Total(aRelayed, A!Rows) /\ Total(aRelayed, A!Rows) <= MaxAppBytes
  /\ Baseline(aState, aGeneration, aCount)
  /\ Baseline(aSaving.state, aGeneration, aCount) /\ Baseline(aDb.state, aGeneration, aCount)
  /\ ~seeded => DOMAIN active = {}
  /\ seeded => /\ aState.generation # 0
               /\ \A c \in DOMAIN active : active[c] <= aState.last
  /\ seeded /\ aState.generation = aGeneration =>
       /\ \A c \in DOMAIN open \cap DOMAIN active : active[c] <= open[c]
       /\ Total(Due, DOMAIN open) <= aCount - aState.last

RowsAddUp ==
  /\ from <= aState.total /\ aDb.state.total <= aState.total
  /\ Total(aDb.rows, A!Rows) = IF from <= aDb.state.total THEN aDb.state.total - from ELSE 0
  /\ aSaving.pc # "idle" => \A row \in A!Rows : aSaving.rows[row] <= aPending[row]
  /\ aSaving.pc = "snapshot" =>
       /\ from <= aSaving.state.total /\ aSaving.state.total <= aState.total
       /\ Total(aDb.rows, A!Rows) + Total(aSaving.rows, A!Rows) = aSaving.state.total - from
  /\ Total(A!Listed, A!Rows) = aState.total - from

NoneTwice ==
  /\ Covered(A!Listed, aState.cleared, Due, open, app, aRelayed)
  /\ Covered(aDb.rows, aDb.state.cleared, Anew(aDb.state, open, aGeneration), open, app, aRelayed)
  /\ aSaving.pc = "snapshot" =>
       Covered(A!Plus(aDb.rows, aSaving.rows), aSaving.state.cleared,
               Anew(aSaving.state, open, aGeneration), open, app, aRelayed)

AppInv == AppTypes /\ CoreCounts /\ RowsAddUp /\ NoneTwice

-----------------------------------------------------------------------------
(* Comparing sums. *)

LEMMA TotalLess ==
  ASSUME NEW f, NEW S, IsFiniteSet(S), \A x \in S : f[x] \in Nat,
         NEW g, NEW T, IsFiniteSet(T), \A x \in T : g[x] \in Nat,
         \A x \in T : g[x] = 0 \/ (x \in S /\ g[x] <= f[x])
  PROVE  Total(g, T) <= Total(f, S)
<1> DEFINE U == S \cup T
           h == [x \in U |-> IF x \in T THEN g[x] ELSE 0]
           k == [x \in U |-> IF x \in S THEN f[x] ELSE 0]
<1>1. IsFiniteSet(U)
  BY FS_Union
<1>2. \A x \in U : h[x] \in Int /\ k[x] \in Int /\ h[x] <= k[x]
  OBVIOUS
<1>3. Total(h, U) <= Total(k, U)
  <2> HIDE DEF U, h, k
  <2> QED
    BY <1>1, <1>2, TotalGrows
<1>4. Total(h, U) = Total(g, T)
  <2>1. T \in SUBSET U /\ (\A x \in U \ T : h[x] = 0) /\ \A x \in T : h[x] = g[x]
    OBVIOUS
  <2>2. \A x \in U : h[x] \in Int
    BY <1>2
  <2> HIDE DEF U, h
  <2>3. Total(h, U) = Total(h, T)
    BY <1>1, <2>1, <2>2, TotalWithin
  <2>4. Total(h, T) = Total(g, T)
    BY <2>1, SameTotal
  <2> QED
    BY <2>3, <2>4
<1>5. Total(k, U) = Total(f, S)
  <2>1. S \in SUBSET U /\ (\A x \in U \ S : k[x] = 0) /\ \A x \in S : k[x] = f[x]
    OBVIOUS
  <2>2. \A x \in U : k[x] \in Int
    BY <1>2
  <2> HIDE DEF U, k
  <2>3. Total(k, U) = Total(k, S)
    BY <1>1, <2>1, <2>2, TotalWithin
  <2>4. Total(k, S) = Total(f, S)
    BY <2>1, SameTotal
  <2> QED
    BY <2>3, <2>4
<1> QED
  BY <1>3, <1>4, <1>5

LEMMA TotalOneMore ==
  ASSUME NEW f, NEW g, NEW S, IsFiniteSet(S), NEW c \in S,
         \A x \in S : f[x] \in Int /\ g[x] \in Int,
         g[c] <= f[c] + 1, \A x \in S \ {c} : g[x] <= f[x]
  PROVE  Total(g, S) <= Total(f, S) + 1
<1> DEFINE h == [x \in S |-> IF x = c THEN f[x] + 1 ELSE f[x]]
<1>1. \A x \in S : f[x] \in Int /\ h[x] \in Int /\ g[x] \in Int /\ g[x] <= h[x]
  OBVIOUS
<1>2. (\A x \in S \ {c} : f[x] = h[x]) /\ h[c] = f[c] + 1
  OBVIOUS
<1> HIDE DEF h
<1>3. Total(h, S) = Total(f, S) - f[c] + h[c]
  BY <1>1, <1>2, TotalChanged
<1>4. Total(g, S) <= Total(h, S)
  BY <1>1, TotalGrows
<1>5. Total(f, S) \in Int /\ Total(g, S) \in Int /\ f[c] \in Int
  <2>1. (\A x \in S : f[x] \in Int) /\ \A x \in S : g[x] \in Int
    OBVIOUS
  <2> QED
    BY <2>1, TotalMember
<1> QED
  BY <1>2, <1>3, <1>4, <1>5

-----------------------------------------------------------------------------
(* Rows. *)

LEMMA AppConstants ==
  /\ Apps \subseteq Nat /\ 0 \notin Apps /\ IsFiniteSet(Apps) /\ MaxGeneration \in Nat
  /\ A!Other = 0 /\ A!Unattributed = -1
  /\ A!Rows = Apps \cup {0, -1} /\ IsFiniteSet(A!Rows)
  /\ 0 \in A!Rows /\ -1 \in A!Rows /\ Apps \subseteq A!Rows /\ -1 \notin Apps
<1>1. /\ Apps \subseteq Nat \ {0} /\ IsFiniteSet(Apps) /\ MaxGeneration \in Nat
  BY MCAssumption DEF A!AppsAssumption, A!IsFiniteSet, IsFiniteSet
<1>2. A!Rows = Apps \cup {0, -1} /\ A!Other = 0 /\ A!Unattributed = -1
  BY DEF A!Rows, A!Other, A!Unattributed
<1>3. IsFiniteSet({0, -1})
  <2>1. IsFiniteSet({0}) /\ IsFiniteSet({-1}) /\ {0, -1} = {0} \cup {-1}
    BY FS_Singleton
  <2> QED
    BY <2>1, FS_Union
<1>4. IsFiniteSet(A!Rows)
  BY <1>1, <1>2, <1>3, FS_Union
<1>5. -1 \notin Apps
  BY <1>1
<1> QED
  BY <1>1, <1>2, <1>4, <1>5

LEMMA RowsTotal ==
  ASSUME NEW f \in RowCounts
  PROVE  /\ \A row \in A!Rows : f[row] \in Nat /\ f[row] \in Int
         /\ Total(f, A!Rows) \in Nat
         /\ \A row \in A!Rows : f[row] <= Total(f, A!Rows)
         /\ A!Sum(f) = Total(f, A!Rows)
<1>1. DOMAIN f = A!Rows /\ \A row \in A!Rows : f[row] \in Nat
  BY DEF RowCounts
<1>2. A!Sum(f) = Total(f, A!Rows)
  BY <1>1, SumIs
<1>3. IsFiniteSet(A!Rows)
  BY AppConstants
<1>4. Total(f, A!Rows) \in Nat /\ \A row \in A!Rows : f[row] <= Total(f, A!Rows)
  BY <1>1, <1>3, TotalNatural
<1> QED
  BY <1>1, <1>2, <1>4

LEMMA PlusTotal ==
  ASSUME NEW f \in RowCounts, NEW g \in RowCounts
  PROVE  /\ A!Plus(f, g) \in RowCounts
         /\ \A row \in A!Rows : A!Plus(f, g)[row] = f[row] + g[row]
         /\ Total(A!Plus(f, g), A!Rows) = Total(f, A!Rows) + Total(g, A!Rows)
<1>1. \A row \in A!Rows : A!Plus(f, g)[row] = f[row] + g[row]
  BY DEF A!Plus
<1>2. A!Plus(f, g) \in RowCounts
  BY DEF A!Plus, RowCounts
<1>3. \A row \in A!Rows : f[row] \in Int /\ g[row] \in Int /\ A!Plus(f, g)[row] = f[row] + g[row]
  BY <1>1, RowsTotal
<1>4. IsFiniteSet(A!Rows)
  BY AppConstants
<1>5. Total(A!Plus(f, g), A!Rows) = Total(f, A!Rows) + Total(g, A!Rows)
  <2> DEFINE h == A!Plus(f, g)
  <2>1. \A row \in A!Rows : f[row] \in Int /\ g[row] \in Int /\ h[row] = f[row] + g[row]
    BY <1>3
  <2> HIDE DEF h
  <2>2. Total(h, A!Rows) = Total(f, A!Rows) + Total(g, A!Rows)
    BY <1>4, <2>1, TotalAdds
  <2> QED
    BY <2>2 DEF h
<1> QED
  BY <1>1, <1>2, <1>5

LEMMA NoRowsTotal == A!NoRows \in RowCounts /\ (\A row \in A!Rows : A!NoRows[row] = 0) /\ Total(A!NoRows, A!Rows) = 0
<1>1. A!NoRows \in RowCounts /\ \A row \in A!Rows : A!NoRows[row] = 0
  BY DEF A!NoRows, RowCounts
<1> QED
  BY <1>1, TotalZero, AppConstants

\* Rows taken from rows.
LEMMA MinusTotal ==
  ASSUME NEW f \in RowCounts, NEW g \in RowCounts, NEW h \in RowCounts,
         \A row \in A!Rows : h[row] = f[row] - g[row]
  PROVE  Total(h, A!Rows) = Total(f, A!Rows) - Total(g, A!Rows)
<1>1. \A row \in A!Rows : h[row] \in Int /\ g[row] \in Int /\ f[row] \in Int
  BY RowsTotal
<1>2. \A row \in A!Rows : h[row] \in Int /\ g[row] \in Int /\ f[row] = h[row] + g[row]
  BY <1>1
<1>3. IsFiniteSet(A!Rows)
  BY AppConstants
<1>4. Total(f, A!Rows) = Total(h, A!Rows) + Total(g, A!Rows)
  BY <1>2, <1>3, TotalAdds
<1>5. Total(f, A!Rows) \in Nat /\ Total(g, A!Rows) \in Nat /\ Total(h, A!Rows) \in Nat
  BY RowsTotal
<1> QED
  BY <1>4, <1>5

\* Pruning moves rows to "other".
LEMMA PrunedTotal ==
  ASSUME NEW rows \in RowCounts
  PROVE  /\ A!Pruned(rows) \in RowCounts
         /\ Total(A!Pruned(rows), A!Rows) = Total(rows, A!Rows)
         /\ A!Pruned(rows)[A!Unattributed] = rows[A!Unattributed]
         /\ \A a \in Apps : A!Pruned(rows)[a] <= rows[a]
<1>1. PICK tail \in SUBSET Apps :
        A!Pruned(rows) = [row \in A!Rows |->
                            CASE row \in tail -> 0
                              [] row = A!Other -> rows[A!Other] + Total(rows, tail)
                              [] OTHER -> rows[row]]
  <2> DEFINE named == {a \in Apps : rows[a] > 0}
             Before(a, b) == rows[a] > rows[b] \/ (rows[a] = rows[b] /\ a < b)
             tail == {a \in named : A!Cardinality({b \in named : Before(b, a)}) >= MaxRows}
  <2>1. A!Pruned(rows) = [row \in A!Rows |->
                            CASE row \in tail -> 0
                              [] row = A!Other -> rows[A!Other] + Total(rows, tail)
                              [] OTHER -> rows[row]]
    BY DEF A!Pruned, A!MapThenSumSet, A!MapThenFoldSet, Total, Rec, Step
  <2>2. tail \in SUBSET Apps
    OBVIOUS
  <2> HIDE DEF tail
  <2> QED
    BY <2>1, <2>2
<1>2. /\ \A row \in A!Rows : rows[row] \in Nat /\ rows[row] \in Int
      /\ IsFiniteSet(A!Rows) /\ tail \in SUBSET A!Rows /\ IsFiniteSet(tail)
      /\ A!Other \in A!Rows /\ A!Other \notin tail
      /\ A!Unattributed \in A!Rows /\ A!Unattributed \notin tail /\ A!Unattributed # A!Other
  <2>1. IsFiniteSet(A!Rows) /\ tail \in SUBSET A!Rows
    BY AppConstants
  <2>2. IsFiniteSet(tail)
    BY <2>1, FS_Subset
  <2>3. \A row \in A!Rows : rows[row] \in Nat /\ rows[row] \in Int
    BY RowsTotal
  <2> QED
    BY <2>1, <2>2, <2>3, AppConstants
<1>3. Total(rows, tail) \in Nat
  BY <1>2, TotalNatural
<1> DEFINE p == A!Pruned(rows)
<1>4. p \in RowCounts
  BY <1>1, <1>2, <1>3 DEF RowCounts
<1>5. p[A!Unattributed] = rows[A!Unattributed] /\ \A a \in Apps : p[a] <= rows[a]
  BY <1>1, <1>2, AppConstants
<1>6. Total(p, A!Rows) = Total(rows, A!Rows)
  <2> DEFINE gone == [row \in A!Rows |-> IF row \in tail THEN rows[row] ELSE 0]
             left == [row \in A!Rows |-> IF row \in tail THEN 0 ELSE rows[row]]
  <2>1. \A row \in A!Rows : gone[row] \in Int /\ left[row] \in Int /\ rows[row] = gone[row] + left[row]
    BY <1>2
  <2>2. (\A row \in A!Rows \ tail : gone[row] = 0) /\ \A row \in tail : gone[row] = rows[row]
    BY <1>2
  <2>3. \A row \in A!Rows : left[row] \in Int /\ p[row] \in Int
    BY <1>4, <2>1, RowsTotal
  <2>4. /\ \A row \in A!Rows \ {A!Other} : left[row] = p[row]
        /\ p[A!Other] = left[A!Other] + Total(rows, tail)
    BY <1>1, <1>2
  <2> HIDE DEF gone, left, p
  <2>5. Total(rows, A!Rows) = Total(gone, A!Rows) + Total(left, A!Rows)
    BY <1>2, <2>1, TotalAdds
  <2>6. Total(gone, A!Rows) = Total(gone, tail)
    BY <1>2, <2>1, <2>2, TotalWithin
  <2>7. Total(gone, tail) = Total(rows, tail)
    BY <1>2, <2>2, SameTotal
  <2>8. Total(p, A!Rows) = Total(left, A!Rows) - left[A!Other] + p[A!Other]
    BY <1>2, <2>3, <2>4, TotalChanged
  <2>9. Total(left, A!Rows) \in Int /\ left[A!Other] \in Int
    BY <1>2, <2>1, TotalMember
  <2> QED
    BY <1>3, <2>4, <2>5, <2>6, <2>7, <2>8, <2>9
<1> QED
  BY <1>4, <1>5, <1>6

-----------------------------------------------------------------------------
(* What is covered stays so while connections come and go, and relay. *)

LEMMA CoveredStays ==
  ASSUME NEW rows, NEW cleared, NEW due, NEW conns, NEW apps, NEW rel,
         NEW rows2, NEW cleared2, NEW due2, NEW conns2, NEW apps2,
         Covered(rows, cleared, due, conns, apps, rel),
         IsFiniteSet(DOMAIN conns), IsFiniteSet(DOMAIN conns2),
         \A c \in DOMAIN conns : due[c] \in Nat, \A c \in DOMAIN conns2 : due2[c] \in Nat,
         \A c \in DOMAIN conns2 :
            due2[c] = 0 \/ (c \in DOMAIN conns /\ due2[c] <= due[c] /\ apps2[c] = apps[c]),
         \A a \in Apps : rows[a] + cleared[a] \in Int /\ rows2[a] + cleared2[a] \in Int,
         \A a \in Apps : rel[a] \in Int, Total(rel, A!Rows) \in Int,
         \A a \in Apps : rows2[a] + cleared2[a] <= rows[a] + cleared[a],
         Total(rows, A!Rows) - rows[A!Unattributed] \in Int,
         Total(rows2, A!Rows) - rows2[A!Unattributed] \in Int,
         Total(rows2, A!Rows) - rows2[A!Unattributed]
           <= Total(rows, A!Rows) - rows[A!Unattributed]
  PROVE  Covered(rows2, cleared2, due2, conns2, apps2, rel)
<1>1. ASSUME NEW a \in Apps
      PROVE  rows2[a] + cleared2[a] + Total(due2, OfApp(conns2, apps2, a)) <= rel[a]
  <2> DEFINE S == OfApp(conns, apps, a)
             T == OfApp(conns2, apps2, a)
  <2>1. /\ S \in SUBSET DOMAIN conns /\ T \in SUBSET DOMAIN conns2
        /\ \A c \in T : due2[c] = 0 \/ (c \in S /\ due2[c] <= due[c])
    BY DEF OfApp
  <2>2. /\ IsFiniteSet(S) /\ IsFiniteSet(T)
        /\ (\A c \in S : due[c] \in Nat) /\ \A c \in T : due2[c] \in Nat
    BY <2>1, FS_Subset
  <2> HIDE DEF S, T
  <2>3. Total(due2, T) <= Total(due, S)
    BY <2>1, <2>2, TotalLess
  <2>4. Total(due2, T) \in Nat /\ Total(due, S) \in Nat
    BY <2>2, TotalNatural
  <2>5. rows[a] + cleared[a] + Total(due, S) <= rel[a]
    BY DEF Covered, S
  <2>6. rows2[a] + cleared2[a] + Total(due2, T) <= rel[a]
    BY <2>3, <2>4, <2>5
  <2> QED
    BY <2>6 DEF T
<1>2. Total(due2, DOMAIN conns2) <= Total(due, DOMAIN conns)
  BY TotalLess
<1>3. Total(due2, DOMAIN conns2) \in Nat /\ Total(due, DOMAIN conns) \in Nat
  BY TotalNatural
<1>4. Total(rows, A!Rows) - rows[A!Unattributed] + Total(due, DOMAIN conns) <= Total(rel, A!Rows)
  BY DEF Covered
<1>5. Total(rows2, A!Rows) - rows2[A!Unattributed] + Total(due2, DOMAIN conns2)
        <= Total(rel, A!Rows)
  BY <1>2, <1>3, <1>4
<1> QED
  BY <1>1, <1>5 DEF Covered

LEMMA CoveredRelays ==
  ASSUME NEW rows, NEW cleared, NEW due, NEW conns, NEW apps, NEW rel,
         NEW due2, NEW conns2, NEW rel2, NEW x \in DOMAIN conns,
         Covered(rows, cleared, due, conns, apps, rel),
         IsFiniteSet(DOMAIN conns), DOMAIN conns2 = DOMAIN conns, apps[x] \in Apps,
         \A c \in DOMAIN conns : due[c] \in Nat /\ due2[c] \in Nat,
         due2[x] <= due[x] + 1, \A c \in DOMAIN conns \ {x} : due2[c] <= due[c],
         \A a \in Apps : rows[a] + cleared[a] \in Int /\ rel[a] \in Int,
         Total(rel, A!Rows) \in Int, Total(rows, A!Rows) - rows[A!Unattributed] \in Int,
         rel2[apps[x]] = rel[apps[x]] + 1, \A a \in Apps \ {apps[x]} : rel2[a] = rel[a],
         Total(rel2, A!Rows) = Total(rel, A!Rows) + 1
  PROVE  Covered(rows, cleared, due2, conns2, apps, rel2)
<1>1. ASSUME NEW a \in Apps
      PROVE  rows[a] + cleared[a] + Total(due2, OfApp(conns2, apps, a)) <= rel2[a]
  <2> DEFINE S == OfApp(conns, apps, a)
  <2>1. S \in SUBSET DOMAIN conns /\ OfApp(conns2, apps, a) = S /\ (x \in S <=> a = apps[x])
    BY DEF OfApp
  <2>2. IsFiniteSet(S) /\ \A c \in S : due[c] \in Nat /\ due2[c] \in Nat
    BY <2>1, FS_Subset
  <2>3. \A c \in S : c # x => due2[c] <= due[c]
    BY <2>1
  <2>4. rows[a] + cleared[a] + Total(due, S) <= rel[a]
    BY DEF Covered
  <2> HIDE DEF S
  <2>5. \A c \in S : due[c] \in Nat
    BY <2>2
  <2>6. \A c \in S : due2[c] \in Nat
    BY <2>2
  <2>7. Total(due2, S) \in Nat /\ Total(due, S) \in Nat
    BY <2>2, <2>5, <2>6, TotalNatural
  <2>8. CASE a = apps[x]
    <3>1. x \in S /\ rel2[a] = rel[a] + 1
      BY <2>1, <2>8
    <3>2. Total(due2, S) <= Total(due, S) + 1
      <4>1. \A c \in S : due[c] \in Int /\ due2[c] \in Int
        BY <2>2
      <4>2. \A c \in S \ {x} : due2[c] <= due[c]
        BY <2>3
      <4> QED
        BY <2>2, <3>1, <4>1, <4>2, TotalOneMore
    <3> QED
      BY <2>1, <2>4, <2>7, <3>1, <3>2
  <2>9. CASE a # apps[x]
    <3>1. x \notin S /\ rel2[a] = rel[a]
      BY <2>1, <2>9
    <3>2. \A c \in S : due2[c] = 0 \/ (c \in S /\ due2[c] <= due[c])
      BY <2>3, <3>1
    <3>3. Total(due2, S) <= Total(due, S)
      BY <2>2, <2>5, <2>6, <3>2, TotalLess
    <3> QED
      BY <2>1, <2>4, <2>7, <3>1, <3>3
  <2> QED
    BY <2>8, <2>9
<1>2. /\ \A c \in DOMAIN conns : due[c] \in Int /\ due2[c] \in Int
      /\ \A c \in DOMAIN conns : due[c] \in Nat
      /\ \A c \in DOMAIN conns : due2[c] \in Nat
  OBVIOUS
<1>3. Total(due2, DOMAIN conns) <= Total(due, DOMAIN conns) + 1
  BY <1>2, TotalOneMore
<1>4. Total(due2, DOMAIN conns) \in Nat /\ Total(due, DOMAIN conns) \in Nat
  BY <1>2, TotalNatural
<1>5. Total(rows, A!Rows) - rows[A!Unattributed] + Total(due, DOMAIN conns) <= Total(rel, A!Rows)
  BY DEF Covered
<1>6. Total(rows, A!Rows) - rows[A!Unattributed] + Total(due2, DOMAIN conns2)
        <= Total(rel2, A!Rows)
  BY <1>3, <1>4, <1>5
<1> QED
  BY <1>1, <1>6 DEF Covered

-----------------------------------------------------------------------------
(* What the next sample finds. *)

LEMMA Connected ==
  ASSUME AppTypes
  PROVE  /\ IsFiniteSet(DOMAIN app) /\ IsFiniteSet(DOMAIN open) /\ IsFiniteSet(DOMAIN active)
         /\ \A c \in DOMAIN app : c \in Nat
         /\ \A c \in DOMAIN open : c \in DOMAIN app /\ open[c] \in Nat /\ app[c] \in Apps
         /\ A!Cardinality(DOMAIN app) + 1 \notin DOMAIN app
         /\ \E n \in Nat : DOMAIN app = 1..n /\ A!Cardinality(DOMAIN app) = n
<1>1. PICK n \in Nat : DOMAIN app = 1..n
  BY DEF AppTypes
<1>2. IsFiniteSet(DOMAIN app) /\ Cardinality(DOMAIN app) = n
  <2>1. IsFiniteSet(1..n) /\ Cardinality(1..n) = IF 1 > n THEN 0 ELSE n - 1 + 1
    BY FS_Interval
  <2> QED
    BY <1>1, <2>1
<1>3. A!Cardinality(DOMAIN app) = Cardinality(DOMAIN app)
  BY DEF A!Cardinality, Cardinality
<1>4. /\ DOMAIN open \in SUBSET DOMAIN app /\ DOMAIN active \in SUBSET DOMAIN app
      /\ \A c \in DOMAIN open : c \in DOMAIN app /\ open[c] \in Nat /\ app[c] \in Apps
  BY DEF AppTypes
<1>5. IsFiniteSet(DOMAIN open) /\ IsFiniteSet(DOMAIN active)
  BY <1>2, <1>4, FS_Subset
<1>6. (\A c \in DOMAIN app : c \in Nat) /\ A!Cardinality(DOMAIN app) + 1 \notin DOMAIN app
  BY <1>1, <1>2, <1>3
<1> QED
  BY <1>1, <1>2, <1>3, <1>4, <1>5, <1>6

LEMMA StateFields ==
  ASSUME AppTypes
  PROVE  /\ \A s \in {aState, aDb.state, aSaving.state} :
              /\ s.total \in Nat /\ s.last \in Nat /\ s.generation \in Nat
              /\ s.cleared \in RowCounts
         /\ aDb.rows \in RowCounts /\ aSaving.rows \in RowCounts /\ aPending \in RowCounts
         /\ aRelayed \in RowCounts /\ aGeneration \in Nat /\ aCount \in Nat /\ from \in Nat
<1>1. /\ aState \in States /\ aDb \in [state : States, rows : RowCounts]
      /\ aSaving \in [pc : {"idle", "snapshot", "committed"}, state : States, rows : RowCounts]
      /\ aPending \in RowCounts /\ aRelayed \in RowCounts
      /\ aGeneration \in 1..MaxGeneration /\ aCount \in Nat /\ from \in Nat
  BY DEF AppTypes
<1>2. \A s \in States : /\ s.total \in Nat /\ s.last \in Nat /\ s.generation \in Nat
                        /\ s.cleared \in RowCounts
  BY DEF States
<1> QED
  BY <1>1, <1>2, AppConstants

\* The process restarted if the baseline is another's, and only then.
LEMMA RestartedIs ==
  ASSUME AppTypes, CoreCounts
  PROVE  /\ A!Restarted <=> (aState.generation # 0 /\ aState.generation # aGeneration)
         /\ A!Delta \in Nat
         /\ A!Delta = IF A!Restarted THEN aCount ELSE aCount - aState.last
         /\ ~A!Restarted => aState.last <= aCount
<1>1. /\ aState.generation \in Nat /\ aState.last \in Nat /\ aCount \in Nat /\ aGeneration \in Nat
      /\ Baseline(aState, aGeneration, aCount)
  BY StateFields DEF CoreCounts
<1>2. A!Restarted <=> (aState.generation # 0 /\ aState.generation # aGeneration)
  BY <1>1 DEF A!Restarted, Baseline
<1>3. ~A!Restarted => aState.last <= aCount
  BY <1>1 DEF A!Restarted
<1> QED
  BY <1>1, <1>2, <1>3 DEF A!Delta

LEMMA DueIs ==
  ASSUME AppTypes
  PROVE  /\ DOMAIN Due = DOMAIN open
         /\ \A c \in DOMAIN open : Due[c] \in Nat /\ Due[c] <= open[c] /\ Due[c] = A!Since(c)
<1>1. ASSUME NEW c \in DOMAIN open PROVE A!Since(c) \in Nat /\ A!Since(c) <= open[c]
  <2>1. open[c] \in Nat /\ (c \in DOMAIN active => active[c] \in Nat)
    BY DEF AppTypes
  <2>2. CASE A!SeedOnly
    BY <2>1, <2>2 DEF A!Since
  <2>3. CASE ~A!SeedOnly /\ ~A!Restarted /\ c \in DOMAIN active /\ open[c] >= active[c]
    <3>1. A!Since(c) = open[c] - active[c]
      BY <2>3 DEF A!Since
    <3> QED
      BY <2>1, <2>3, <3>1
  <2>4. CASE ~A!SeedOnly /\ ~(~A!Restarted /\ c \in DOMAIN active /\ open[c] >= active[c])
    <3>1. A!Since(c) = open[c]
      BY <2>4 DEF A!Since
    <3> QED
      BY <2>1, <3>1
  <2> QED
    BY <2>2, <2>3, <2>4
<1> QED
  BY <1>1 DEF Due

\* A sample gives no more to the connections than it adds to the total.
LEMMA DueWithinDelta ==
  ASSUME AppTypes, CoreCounts
  PROVE  Total(Due, DOMAIN open) \in Nat /\ Total(Due, DOMAIN open) <= A!Delta
<1>1. /\ IsFiniteSet(DOMAIN open) /\ (\A c \in DOMAIN open : Due[c] \in Nat /\ Due[c] <= open[c])
      /\ \A c \in DOMAIN open : open[c] \in Nat
  BY Connected, DueIs
<1>2. Total(Due, DOMAIN open) \in Nat
  BY <1>1, TotalNatural
<1>3. Total(Due, DOMAIN open) <= Total(open, DOMAIN open) /\ Total(open, DOMAIN open) \in Nat
  <2>1. \A c \in DOMAIN open : Due[c] \in Int /\ open[c] \in Int /\ Due[c] <= open[c]
    BY <1>1
  <2> QED
    BY <1>1, <2>1, TotalGrows, TotalNatural
<1>4. Total(open, DOMAIN open) <= aCount /\ aCount \in Nat /\ aState.last \in Nat
  BY StateFields DEF CoreCounts
<1>5. CASE A!Restarted \/ aState.last = 0
  <2>1. A!Delta = aCount
    BY <1>4, <1>5, RestartedIs
  <2> QED
    BY <1>2, <1>3, <1>4, <2>1
<1>6. CASE ~A!Restarted /\ aState.last # 0 /\ ~seeded
  <2>1. A!SeedOnly
    BY <1>4, <1>6 DEF A!SeedOnly
  <2>2. \A c \in DOMAIN open : Due[c] = 0
    BY <2>1 DEF Due, A!Since
  <2>3. Total(Due, DOMAIN open) = 0
    BY <1>1, <2>2, TotalZero
  <2> QED
    BY <2>3, RestartedIs
<1>7. CASE ~A!Restarted /\ seeded
  <2>1. aState.generation = aGeneration
    BY <1>7, RestartedIs DEF CoreCounts
  <2>2. Total(Due, DOMAIN open) <= aCount - aState.last
    BY <1>7, <2>1 DEF CoreCounts
  <2> QED
    BY <1>2, <1>7, <2>2, RestartedIs
<1> QED
  BY <1>5, <1>6, <1>7

-----------------------------------------------------------------------------
(* What the steps need of the invariant. *)

\* What there is to give shrinks; grows by one byte, of x; and a byte of a is relayed.
LessDue(due, conns, apps, due2, conns2, apps2) ==
  /\ IsFiniteSet(DOMAIN conns) /\ IsFiniteSet(DOMAIN conns2)
  /\ \A c \in DOMAIN conns : due[c] \in Nat
  /\ \A c \in DOMAIN conns2 : due2[c] \in Nat
  /\ \A c \in DOMAIN conns2 :
       due2[c] = 0 \/ (c \in DOMAIN conns /\ due2[c] <= due[c] /\ apps2[c] = apps[c])
MoreDue(due, conns, due2, conns2, x) ==
  /\ IsFiniteSet(DOMAIN conns) /\ DOMAIN conns2 = DOMAIN conns /\ x \in DOMAIN conns
  /\ \A c \in DOMAIN conns : due[c] \in Nat /\ due2[c] \in Nat
  /\ due2[x] <= due[x] + 1 /\ \A c \in DOMAIN conns \ {x} : due2[c] <= due[c]
MoreRelayed(rel, rel2, a) ==
  /\ rel2[a] = rel[a] + 1 /\ \A b \in Apps \ {a} : rel2[b] = rel[b]
  /\ Total(rel2, A!Rows) = Total(rel, A!Rows) + 1

LEMMA CoveredRows ==
  ASSUME NEW rows \in RowCounts, NEW cleared \in RowCounts, NEW rows2 \in RowCounts,
         NEW cleared2 \in RowCounts, NEW rel \in RowCounts,
         NEW due, NEW conns, NEW apps, NEW due2, NEW conns2, NEW apps2,
         Covered(rows, cleared, due, conns, apps, rel),
         LessDue(due, conns, apps, due2, conns2, apps2),
         \A a \in Apps : rows2[a] + cleared2[a] <= rows[a] + cleared[a],
         Total(rows2, A!Rows) - rows2[A!Unattributed]
           <= Total(rows, A!Rows) - rows[A!Unattributed]
  PROVE  Covered(rows2, cleared2, due2, conns2, apps2, rel)
<1>1. /\ \A a \in Apps : rows[a] \in Nat /\ rows2[a] \in Nat /\ cleared[a] \in Nat
      /\ \A a \in Apps : cleared2[a] \in Nat /\ rel[a] \in Nat
      /\ rows[A!Unattributed] \in Nat /\ rows2[A!Unattributed] \in Nat
  BY AppConstants DEF RowCounts
<1>2. Total(rows, A!Rows) \in Nat /\ Total(rows2, A!Rows) \in Nat /\ Total(rel, A!Rows) \in Nat
  BY RowsTotal
<1>3. \A a \in Apps : rows[a] + cleared[a] \in Int /\ rows2[a] + cleared2[a] \in Int
  BY <1>1
<1>4. \A a \in Apps : rel[a] \in Int
  BY <1>1
<1>5. /\ Total(rel, A!Rows) \in Int
      /\ Total(rows, A!Rows) - rows[A!Unattributed] \in Int
      /\ Total(rows2, A!Rows) - rows2[A!Unattributed] \in Int
  BY <1>1, <1>2
<1> QED
  BY <1>3, <1>4, <1>5, CoveredStays DEF LessDue

LEMMA CoveredOneMore ==
  ASSUME NEW rows \in RowCounts, NEW cleared \in RowCounts, NEW rel \in RowCounts,
         NEW rel2 \in RowCounts, NEW due, NEW conns, NEW apps, NEW due2, NEW conns2,
         NEW x, apps[x] \in Apps,
         Covered(rows, cleared, due, conns, apps, rel),
         MoreDue(due, conns, due2, conns2, x), MoreRelayed(rel, rel2, apps[x])
  PROVE  Covered(rows, cleared, due2, conns2, apps, rel2)
<1>1. /\ \A a \in Apps : rows[a] \in Nat /\ cleared[a] \in Nat /\ rel[a] \in Nat
      /\ rows[A!Unattributed] \in Nat
  BY AppConstants DEF RowCounts
<1>2. Total(rows, A!Rows) \in Nat /\ Total(rel, A!Rows) \in Nat
  BY RowsTotal
<1>3. \A a \in Apps : rows[a] + cleared[a] \in Int /\ rel[a] \in Int
  BY <1>1
<1>4. Total(rel, A!Rows) \in Int /\ Total(rows, A!Rows) - rows[A!Unattributed] \in Int
  BY <1>1, <1>2
<1> QED
  BY <1>3, <1>4, CoveredRelays DEF MoreDue, MoreRelayed

LEMMA ListedRows ==
  ASSUME NEW d \in RowCounts, NEW p \in RowCounts, NEW s \in RowCounts, NEW b \in BOOLEAN, NEW l,
         l = [row \in A!Rows |-> d[row] + p[row] - IF b THEN s[row] ELSE 0],
         b => \A row \in A!Rows : s[row] <= p[row]
  PROVE  /\ l \in RowCounts
         /\ \A row \in A!Rows : l[row] = d[row] + p[row] - IF b THEN s[row] ELSE 0
         /\ Total(l, A!Rows) = Total(d, A!Rows) + Total(p, A!Rows) - IF b THEN Total(s, A!Rows) ELSE 0
<1>1. \A row \in A!Rows : d[row] \in Nat /\ p[row] \in Nat /\ s[row] \in Nat
  BY RowsTotal
<1>2. \A row \in A!Rows : l[row] = d[row] + p[row] - (IF b THEN s[row] ELSE 0) /\ l[row] \in Nat
  BY <1>1
<1>3. l \in RowCounts
  <2>1. l = [row \in A!Rows |-> l[row]]
    OBVIOUS
  <2> QED
    BY <1>2, <2>1 DEF RowCounts
<1> DEFINE q == A!Plus(d, p)
<1>4. /\ q \in RowCounts /\ (\A row \in A!Rows : q[row] = d[row] + p[row])
      /\ Total(q, A!Rows) = Total(d, A!Rows) + Total(p, A!Rows)
  BY PlusTotal
<1> HIDE DEF q
<1>5. /\ Total(q, A!Rows) \in Nat /\ Total(s, A!Rows) \in Nat /\ Total(l, A!Rows) \in Nat
      /\ Total(d, A!Rows) \in Nat /\ Total(p, A!Rows) \in Nat
  BY <1>3, <1>4, RowsTotal
<1> SUFFICES Total(l, A!Rows) = Total(d, A!Rows) + Total(p, A!Rows) - IF b THEN Total(s, A!Rows) ELSE 0
  BY <1>2, <1>3
<1>6. CASE b
  <2>1. \A row \in A!Rows : l[row] = d[row] + p[row] - s[row]
    BY <1>2, <1>6
  <2>2. \A row \in A!Rows : l[row] = q[row] - s[row]
    BY <1>1, <1>4, <2>1
  <2>3. Total(l, A!Rows) = Total(q, A!Rows) - Total(s, A!Rows)
    BY <1>3, <1>4, <2>2, MinusTotal
  <2> QED
    BY <1>4, <1>5, <1>6, <2>3
<1>7. CASE ~b
  <2>1. \A row \in A!Rows : l[row] = d[row] + p[row]
    BY <1>1, <1>2, <1>7
  <2>2. \A row \in A!Rows : l[row] = q[row]
    BY <1>4, <2>1
  <2>3. IsFiniteSet(A!Rows)
    BY AppConstants
  <2>4. Total(l, A!Rows) = Total(q, A!Rows)
    BY <2>2, <2>3, SameTotal
  <2> QED
    BY <1>4, <1>5, <1>7, <2>4
<1> QED
  BY <1>6, <1>7

LEMMA ListedIs ==
  ASSUME AppTypes, RowsAddUp
  PROVE  /\ A!Listed \in RowCounts
         /\ \A row \in A!Rows : A!Listed[row] = aDb.rows[row] + aPending[row]
              - IF aSaving.pc = "committed" THEN aSaving.rows[row] ELSE 0
         /\ Total(A!Listed, A!Rows) = Total(aDb.rows, A!Rows) + Total(aPending, A!Rows)
              - IF aSaving.pc = "committed" THEN Total(aSaving.rows, A!Rows) ELSE 0
<1> DEFINE b == aSaving.pc = "committed"
<1>1. aDb.rows \in RowCounts /\ aPending \in RowCounts /\ aSaving.rows \in RowCounts
  BY StateFields
<1>2. b \in BOOLEAN /\ (b => \A row \in A!Rows : aSaving.rows[row] <= aPending[row])
  BY DEF RowsAddUp
<1>3. A!Listed = [row \in A!Rows |-> aDb.rows[row] + aPending[row] - IF b THEN aSaving.rows[row] ELSE 0]
  BY DEF A!Listed
<1> HIDE DEF b
<1>4. /\ A!Listed \in RowCounts
      /\ \A row \in A!Rows : A!Listed[row] = aDb.rows[row] + aPending[row]
              - IF b THEN aSaving.rows[row] ELSE 0
      /\ Total(A!Listed, A!Rows) = Total(aDb.rows, A!Rows) + Total(aPending, A!Rows)
              - IF b THEN Total(aSaving.rows, A!Rows) ELSE 0
  BY SMTT(30), <1>1, <1>2, <1>3, ListedRows
<1> QED
  BY <1>4 DEF b

\* A panel that begins anew on the state gives no connection more than the next sample does.
LEMMA AnewIs ==
  ASSUME AppTypes, CoreCounts
  PROVE  \A c \in DOMAIN open : Anew(aState, open, aGeneration)[c] <= Due[c]
<1> SUFFICES ASSUME NEW c \in DOMAIN open
             PROVE  Anew(aState, open, aGeneration)[c] <= Due[c]
  OBVIOUS
<1>1. /\ open[c] \in Nat /\ aState.last \in Nat /\ aState.generation \in Nat
      /\ Due[c] \in Nat /\ Due[c] = A!Since(c)
  BY Connected, StateFields, DueIs
<1>2. c \in DOMAIN active => active[c] \in Nat
  BY DEF AppTypes
<1>3. CASE aState.generation = aGeneration /\ aState.last # 0
  BY <1>1, <1>3 DEF Anew
<1>4. CASE aState.generation # aGeneration \/ aState.last = 0
  <2>1. Anew(aState, open, aGeneration)[c] = open[c]
    BY <1>4 DEF Anew
  <2>2. CASE A!Restarted
    BY <1>1, <2>1, <2>2 DEF A!Since, A!SeedOnly
  <2>3. CASE ~A!Restarted /\ ~seeded
    <3>1. aState.last = 0 /\ c \notin DOMAIN active
      BY <1>1, <1>4, <2>3, RestartedIs DEF CoreCounts, Baseline
    <3> QED
      BY <1>1, <2>1, <3>1 DEF A!Since, A!SeedOnly
  <2>4. CASE ~A!Restarted /\ seeded
    <3>1. aState.generation # 0 /\ aState.last = 0
      BY <1>1, <1>4, <2>4, RestartedIs DEF CoreCounts
    <3>2. c \in DOMAIN active => active[c] = 0
      BY <1>2, <2>4, <3>1 DEF CoreCounts
    <3> QED
      BY <1>1, <2>1, <2>4, <3>2 DEF A!Since, A!SeedOnly
  <2> QED
    BY <2>2, <2>3, <2>4
<1> QED
  BY <1>3, <1>4

\* What a panel that begins anew on some state gives.
LEMMA AnewFields ==
  ASSUME NEW s, NEW conns, NEW gen
  PROVE  /\ DOMAIN Anew(s, conns, gen) = DOMAIN conns
         /\ \A c \in DOMAIN conns :
              Anew(s, conns, gen)[c] = IF s.generation # gen \/ s.last = 0 THEN conns[c] ELSE 0
  BY DEF Anew

-----------------------------------------------------------------------------
(* The core: connections open, relay and close, processes end. *)

LEMMA AppInitially == ASSUME A!Init, MaxGeneration >= 1 PROVE AppInv
<1>1. /\ aGeneration = 1 /\ aCount = 0 /\ DOMAIN open = {} /\ DOMAIN app = {} /\ DOMAIN active = {}
      /\ aRelayed = A!NoRows /\ aState = A!FreshState /\ seeded = FALSE /\ aPending = A!NoRows
      /\ aSaving = A!NotSaving /\ aDb = [state |-> A!FreshState, rows |-> A!NoRows] /\ from = 0
  BY DEF A!Init, A!NoConnections
<1>2. /\ A!FreshState.total = 0 /\ A!FreshState.last = 0 /\ A!FreshState.generation = 0
      /\ A!FreshState.cleared = A!NoRows /\ A!FreshState \in States
  BY NoRowsTotal DEF A!FreshState, States
<1>3. /\ aSaving.pc = "idle" /\ aSaving.state = A!FreshState /\ aSaving.rows = A!NoRows
      /\ aSaving \in [pc : {"idle", "snapshot", "committed"}, state : States, rows : RowCounts]
      /\ aDb.state = A!FreshState /\ aDb.rows = A!NoRows
      /\ aDb \in [state : States, rows : RowCounts]
  BY <1>1, <1>2, NoRowsTotal DEF A!NotSaving
<1>4. AppTypes
  <2>1. \E n \in Nat : DOMAIN app = 1..n
    <3>1. 0 \in Nat /\ DOMAIN app = 1..0
      BY <1>1
    <3> QED
      BY <3>1
  <2>2. aGeneration \in 1..MaxGeneration
    BY <1>1, AppConstants
  <2>3. /\ DOMAIN app \subseteq A!Connections /\ DOMAIN open \subseteq DOMAIN app
        /\ DOMAIN active \subseteq DOMAIN app
        /\ \A c \in DOMAIN app : app[c] \in Apps
        /\ \A c \in DOMAIN open : open[c] \in Nat
        /\ \A c \in DOMAIN active : active[c] \in Nat
    BY <1>1
  <2>4. aRelayed \in RowCounts /\ aPending \in RowCounts /\ aState \in States
    BY <1>1, <1>2, NoRowsTotal
  <2>5. aCount \in Nat /\ seeded \in BOOLEAN /\ from \in Nat
    BY <1>1
  <2> QED
    BY <1>3, <2>1, <2>2, <2>3, <2>4, <2>5 DEF AppTypes
<1>5. Total(open, DOMAIN open) = 0 /\ Total(Due, DOMAIN open) = 0
  BY <1>1, TotalEmpty
<1>6. CoreCounts
  <2>1. MaxAppBytes \in Nat
    BY MCAssumption DEF A!AppsAssumption
  <2> QED
    BY <1>1, <1>2, <1>3, <1>5, <2>1, NoRowsTotal DEF CoreCounts, Baseline
<1>7. \A row \in A!Rows : A!Listed[row] = 0
  BY <1>1, <1>3, NoRowsTotal DEF A!Listed
<1>8. Total(A!Listed, A!Rows) = 0
  BY <1>7, TotalZero, AppConstants
<1>9. RowsAddUp
  BY <1>1, <1>2, <1>3, <1>8, NoRowsTotal DEF RowsAddUp
<1>10. \A a : OfApp(open, app, a) = {}
  BY <1>1 DEF OfApp
<1>11. NoneTwice
  <2>1. \A due : \A a : Total(due, OfApp(open, app, a)) = 0 /\ Total(due, DOMAIN open) = 0
    BY <1>1, <1>10, TotalEmpty
  <2>2. A!Listed[A!Unattributed] = 0 /\ (\A a \in Apps : A!Listed[a] = 0)
    BY <1>7, AppConstants
  <2>3. A!NoRows[A!Unattributed] = 0 /\ \A a \in Apps : A!NoRows[a] = 0
    BY NoRowsTotal, AppConstants
  <2>4. Covered(A!Listed, aState.cleared, Due, open, app, aRelayed)
    BY <1>1, <1>2, <1>8, <2>1, <2>2, <2>3, NoRowsTotal DEF Covered
  <2>5. Covered(aDb.rows, aDb.state.cleared, Anew(aDb.state, open, aGeneration), open, app, aRelayed)
    BY <1>1, <1>2, <1>3, <2>1, <2>3, NoRowsTotal DEF Covered
  <2> QED
    BY <1>3, <2>4, <2>5 DEF NoneTwice
<1> QED
  BY <1>4, <1>6, <1>9, <1>11 DEF AppInv

\* A step of the core changes no rows.
LEMMA RowsUntouched ==
  ASSUME AppTypes, RowsAddUp, UNCHANGED <<aState, aPending, aSaving, aDb, from>>
  PROVE  A!Listed' = A!Listed /\ RowsAddUp'
<1>1. A!Listed' = A!Listed
  BY DEF A!Listed
<1> QED
  BY <1>1 DEF RowsAddUp

LEMMA RelayKeeps ==
  ASSUME AppInv, NEW c \in A!Connections, A!Relay(c)
  PROVE  AppInv'
<1> USE DEF AppInv
<1>1. /\ c \in DOMAIN open /\ A!Sum(aRelayed) < MaxAppBytes
      /\ open' = [open EXCEPT ![c] = @ + 1] /\ aCount' = aCount + 1
      /\ aRelayed' = [aRelayed EXCEPT ![app[c]] = @ + 1]
      /\ UNCHANGED <<aGeneration, app, aState, active, seeded, aPending, aSaving, aDb, from>>
  BY DEF A!Relay
<1>2. /\ IsFiniteSet(DOMAIN open) /\ app[c] \in Apps /\ app[c] \in A!Rows
      /\ \A d \in DOMAIN open : open[d] \in Nat
  BY <1>1, Connected, AppConstants
<1>3. /\ DOMAIN open' = DOMAIN open /\ open'[c] = open[c] + 1
      /\ \A d \in DOMAIN open \ {c} : open'[d] = open[d]
      /\ \A d \in DOMAIN open : open'[d] \in Nat
  BY <1>1, <1>2
<1>4. /\ aRelayed \in RowCounts /\ aRelayed' \in RowCounts /\ aCount \in Nat
      /\ aRelayed'[app[c]] = aRelayed[app[c]] + 1
      /\ \A row \in A!Rows \ {app[c]} : aRelayed[row] = aRelayed'[row]
  BY <1>1, <1>2, StateFields DEF RowCounts
<1>5. Total(aRelayed', A!Rows) = Total(aRelayed, A!Rows) + 1
  <2> DEFINE f == aRelayed
             g == aRelayed'
             x == app[c]
  <2>1. /\ f \in RowCounts /\ g \in RowCounts /\ x \in A!Rows /\ g[x] = f[x] + 1
        /\ \A row \in A!Rows \ {x} : f[row] = g[row]
    BY <1>2, <1>4
  <2> HIDE DEF f, g, x
  <2>2. \A row \in A!Rows : f[row] \in Int /\ g[row] \in Int
    BY <2>1, RowsTotal
  <2>3. IsFiniteSet(A!Rows)
    BY AppConstants
  <2>4. Total(g, A!Rows) = Total(f, A!Rows) - f[x] + g[x]
    BY <2>1, <2>2, <2>3, TotalChanged
  <2>5. Total(f, A!Rows) \in Nat /\ f[x] \in Nat
    BY <2>1, RowsTotal
  <2>6. Total(g, A!Rows) = Total(f, A!Rows) + 1
    BY <2>1, <2>4, <2>5
  <2> QED
    BY <2>6 DEF f, g
<1>6. Total(open', DOMAIN open) = Total(open, DOMAIN open) + 1 /\ Total(open, DOMAIN open) \in Nat
  <2> DEFINE S == DOMAIN open
             f == open
             g == open'
  <2>1. /\ \A d \in S : f[d] \in Int /\ g[d] \in Int
        /\ \A d \in S \ {c} : f[d] = g[d]
        /\ IsFiniteSet(S) /\ c \in S /\ g[c] = f[c] + 1
        /\ \A d \in S : f[d] \in Nat
    BY <1>1, <1>2, <1>3
  <2> HIDE DEF S, f, g
  <2>2. Total(g, S) = Total(f, S) - f[c] + g[c]
    BY <2>1, TotalChanged
  <2>3. Total(f, S) \in Nat /\ f[c] \in Nat
    BY <2>1, TotalNatural
  <2>4. Total(g, S) = Total(f, S) + 1
    BY <2>1, <2>2, <2>3
  <2> QED
    BY <2>3, <2>4 DEF S, f, g
<1>7. (A!Restarted' <=> A!Restarted) /\ (A!SeedOnly' <=> A!SeedOnly)
  <2>1. /\ aState.generation \in Nat /\ aState.last \in Nat /\ aCount \in Nat /\ aGeneration \in Nat
        /\ Baseline(aState, aGeneration, aCount)
    BY StateFields DEF CoreCounts
  <2>2. A!Restarted' <=> A!Restarted
    BY <1>1, <2>1 DEF A!Restarted, Baseline
  <2> QED
    BY <1>1, <2>2 DEF A!SeedOnly
<1>8. /\ \A d \in DOMAIN open : Due[d] \in Nat /\ Due'[d] \in Nat
      /\ Due'[c] <= Due[c] + 1 /\ \A d \in DOMAIN open \ {c} : Due'[d] = Due[d]
  <2>1. DOMAIN open' = DOMAIN open /\ \A d \in DOMAIN open : Due[d] = A!Since(d) /\ Due'[d] = A!Since(d)'
    BY <1>3 DEF Due
  <2>2. \A d \in DOMAIN open : d \in DOMAIN active => active[d] \in Nat
    BY DEF AppTypes
  <2>3. \A d \in DOMAIN open : Due[d] \in Nat
    BY DueIs
  <2>4. ASSUME NEW d \in DOMAIN open \ {c} PROVE Due'[d] = Due[d]
    BY <1>1, <1>3, <1>7, <2>1 DEF A!Since
  <2>5. Due'[c] \in Nat /\ Due'[c] <= Due[c] + 1
    <3>1. open[c] \in Nat /\ open'[c] = open[c] + 1 /\ active' = active
      BY <1>1, <1>2, <1>3
    <3>2. CASE A!SeedOnly
      <4>1. A!Since(c)' = 0 /\ A!Since(c) = 0
        BY <1>7, <3>2 DEF A!Since
      <4> QED
        BY <1>1, <2>1, <4>1
    <3>3. CASE ~A!SeedOnly /\ ~A!Restarted /\ c \in DOMAIN active /\ open[c] >= active[c]
      <4>1. A!Since(c)' = open[c] + 1 - active[c] /\ A!Since(c) = open[c] - active[c]
        BY <1>1, <1>7, <2>2, <3>1, <3>3 DEF A!Since
      <4> QED
        BY <1>1, <2>1, <2>2, <3>1, <3>3, <4>1
    <3>4. CASE ~A!SeedOnly /\ ~(~A!Restarted /\ c \in DOMAIN active /\ open[c] >= active[c])
      <4>1. A!Since(c) = open[c]
        BY <3>4 DEF A!Since
      <4>2. CASE ~A!Restarted /\ c \in DOMAIN active /\ open[c] + 1 >= active[c]
        <5>1. A!Since(c)' = open[c] + 1 - active[c]
          BY <1>1, <1>7, <2>2, <3>1, <3>4, <4>2 DEF A!Since
        <5>2. open[c] + 1 = active[c]
          BY <1>1, <2>2, <3>1, <3>4, <4>2
        <5> QED
          BY <1>1, <2>1, <3>1, <4>1, <5>1, <5>2
      <4>3. CASE ~(~A!Restarted /\ c \in DOMAIN active /\ open[c] + 1 >= active[c])
        <5>1. A!Since(c)' = open[c] + 1
          BY <1>7, <3>1, <3>4, <4>3 DEF A!Since
        <5> QED
          BY <1>1, <2>1, <3>1, <4>1, <5>1
      <4> QED
        BY <4>2, <4>3
    <3> QED
      BY <3>2, <3>3, <3>4
  <2>6. \A d \in DOMAIN open : Due'[d] \in Nat
    BY <2>3, <2>4, <2>5
  <2> QED
    BY <2>3, <2>4, <2>5, <2>6
<1> HIDE DEF AppInv
<1>9. AppTypes'
  BY <1>1, <1>3, <1>4 DEF AppTypes, AppInv
<1>10. CoreCounts'
  <2> USE DEF AppInv
  <2>1. Total(aRelayed, A!Rows) \in Nat /\ Total(aRelayed, A!Rows) < MaxAppBytes /\ MaxAppBytes \in Nat
    BY <1>1, <1>4, RowsTotal, MCAssumption DEF A!AppsAssumption
  <2>2. Baseline(aState, aGeneration, aCount)' /\ Baseline(aSaving.state, aGeneration, aCount)'
        /\ Baseline(aDb.state, aGeneration, aCount)'
    BY SMTT(30), <1>1, <1>4, StateFields DEF Baseline, CoreCounts
  <2>3. /\ Total(open', DOMAIN open') <= aCount'
        /\ aCount' <= Total(aRelayed', A!Rows) /\ Total(aRelayed', A!Rows) <= MaxAppBytes
    BY <1>1, <1>3, <1>4, <1>5, <1>6, <2>1 DEF CoreCounts
  <2>4. /\ ~seeded' => DOMAIN active' = {}
        /\ seeded' => /\ aState'.generation # 0
                      /\ \A d \in DOMAIN active' : active'[d] <= aState'.last
    BY <1>1 DEF CoreCounts
  <2>5. seeded' /\ aState'.generation = aGeneration' =>
           /\ \A d \in DOMAIN open' \cap DOMAIN active' : active'[d] <= open'[d]
           /\ Total(Due', DOMAIN open') <= aCount' - aState'.last
    <3> SUFFICES ASSUME seeded', aState'.generation = aGeneration'
                 PROVE  /\ \A d \in DOMAIN open' \cap DOMAIN active' : active'[d] <= open'[d]
                        /\ Total(Due', DOMAIN open') <= aCount' - aState'.last
      OBVIOUS
    <3>0. seeded /\ aState.generation = aGeneration
      BY <1>1
    <3>1. /\ \A d \in DOMAIN open \cap DOMAIN active : active[d] <= open[d] /\ active[d] \in Nat
          /\ Total(Due, DOMAIN open) <= aCount - aState.last
      BY <3>0 DEF CoreCounts, AppTypes
    <3>2. \A d \in DOMAIN open : Due[d] \in Int /\ Due'[d] \in Int
      BY <1>8
    <3>3. \A d \in DOMAIN open \ {c} : Due'[d] <= Due[d]
      BY <1>8, <3>2
    <3>4. Total(Due', DOMAIN open) <= Total(Due, DOMAIN open) + 1
      BY <1>1, <1>2, <1>8, <3>2, <3>3, TotalOneMore
    <3>5. Total(Due, DOMAIN open) \in Int /\ Total(Due', DOMAIN open) \in Int
      <4>1. (\A d \in DOMAIN open : Due[d] \in Int) /\ \A d \in DOMAIN open : Due'[d] \in Int
        BY <3>2
      <4> QED
        BY <1>2, <4>1, TotalMember
    <3>6. Total(Due', DOMAIN open) <= aCount + 1 - aState.last
      BY <3>1, <3>4, <3>5, StateFields
    <3>7. ASSUME NEW d \in DOMAIN open \cap DOMAIN active PROVE active[d] <= open'[d]
      BY <1>2, <1>3, <3>1
    <3>8. Total(Due', DOMAIN open') <= aCount' - aState'.last
      <4>1. DOMAIN open' = DOMAIN open /\ aCount' = aCount + 1 /\ aState' = aState
        BY <1>1, <1>3
      <4>2. Total(Due', DOMAIN open') = Total(Due', DOMAIN open)
        BY <4>1
      <4>3. aCount \in Nat /\ aState.last \in Nat
        BY StateFields
      <4> QED
        BY <3>5, <3>6, <4>1, <4>2, <4>3
    <3>9. DOMAIN open' = DOMAIN open /\ active' = active
      BY <1>1, <1>3
    <3> QED
      BY <3>7, <3>8, <3>9
  <2> QED
    BY <2>2, <2>3, <2>4, <2>5 DEF CoreCounts
<1>11. A!Listed' = A!Listed /\ RowsAddUp'
  BY <1>1, RowsUntouched DEF AppInv
<1>12. NoneTwice'
  <2> USE DEF AppInv
  <2>1. MoreRelayed(aRelayed, aRelayed', app[c])
    <3>1. \A a \in Apps \ {app[c]} : aRelayed'[a] = aRelayed[a]
      BY <1>4, AppConstants
    <3> QED
      BY <1>4, <1>5, <3>1 DEF MoreRelayed
  <2>2. ASSUME NEW rows \in RowCounts, NEW cleared \in RowCounts,
               Covered(rows, cleared, Due, open, app, aRelayed)
        PROVE  Covered(rows, cleared, Due', open', app, aRelayed')
    <3>1. \A d \in DOMAIN open : Due[d] \in Nat /\ Due'[d] \in Nat
      BY <1>8
    <3>2. \A d \in DOMAIN open \ {c} : Due'[d] <= Due[d]
      BY <1>8
    <3>3. Due'[c] <= Due[c] + 1
      BY <1>8
    <3>4. MoreDue(Due, open, Due', open', c)
      BY <1>1, <1>2, <1>3, <3>1, <3>2, <3>3 DEF MoreDue
    <3> QED
      BY <1>2, <1>4, <2>1, <2>2, <3>4, CoveredOneMore
  <2>3. ASSUME NEW rows \in RowCounts, NEW cleared \in RowCounts, NEW s \in States,
               Covered(rows, cleared, Anew(s, open, aGeneration), open, app, aRelayed)
        PROVE  Covered(rows, cleared, Anew(s, open', aGeneration), open', app, aRelayed')
    <3> DEFINE d1 == Anew(s, open, aGeneration)
               d2 == Anew(s, open', aGeneration)
    <3>1. ASSUME NEW d \in DOMAIN open
          PROVE  /\ d1[d] \in Nat /\ d2[d] \in Nat
                 /\ d2[d] <= d1[d] + 1 /\ (d # c => d2[d] <= d1[d])
      <4>1. open[d] \in Nat /\ open'[d] = IF d = c THEN open[d] + 1 ELSE open[d]
        BY <1>2, <1>3
      <4>2. CASE s.generation # aGeneration \/ s.last = 0
        <5>1. d1[d] = open[d] /\ d2[d] = open'[d]
          BY <1>3, <4>2, AnewFields
        <5> QED
          BY <4>1, <5>1
      <4>3. CASE ~(s.generation # aGeneration \/ s.last = 0)
        <5>1. d1[d] = 0 /\ d2[d] = 0
          BY <1>3, <4>3, AnewFields
        <5> QED
          BY <5>1
      <4> QED
        BY <4>2, <4>3
    <3>2. \A d \in DOMAIN open : d1[d] \in Nat /\ d2[d] \in Nat
      BY <3>1
    <3>3. \A d \in DOMAIN open \ {c} : d2[d] <= d1[d]
      BY <3>1
    <3>4. d2[c] <= d1[c] + 1
      BY <1>1, <3>1
    <3>5. Covered(rows, cleared, d1, open, app, aRelayed)
      BY <2>3
    <3> HIDE DEF d1, d2
    <3>6. MoreDue(d1, open, d2, open', c)
      BY <1>1, <1>2, <1>3, <3>2, <3>3, <3>4 DEF MoreDue
    <3>7. Covered(rows, cleared, d2, open', app, aRelayed')
      BY <1>2, <1>4, <2>1, <3>5, <3>6, CoveredOneMore
    <3> QED
      BY <3>7 DEF d2
  <2>4. /\ A!Listed \in RowCounts /\ aState.cleared \in RowCounts
        /\ aDb.rows \in RowCounts /\ aDb.state \in States /\ aDb.state.cleared \in RowCounts
        /\ aSaving.rows \in RowCounts /\ aSaving.state \in States /\ aSaving.state.cleared \in RowCounts
        /\ A!Plus(aDb.rows, aSaving.rows) \in RowCounts
    <3>1. aDb.state \in States /\ aSaving.state \in States
      BY DEF AppTypes
    <3> QED
      BY <3>1, StateFields, ListedIs, PlusTotal
  <2>5. Covered(A!Listed, aState.cleared, Due', open', app, aRelayed')
    BY <2>2, <2>4 DEF NoneTwice
  <2>6. Covered(aDb.rows, aDb.state.cleared, Anew(aDb.state, open', aGeneration), open', app, aRelayed')
    BY <2>3, <2>4 DEF NoneTwice
  <2>7. aSaving.pc = "snapshot" =>
          Covered(A!Plus(aDb.rows, aSaving.rows), aSaving.state.cleared,
                  Anew(aSaving.state, open', aGeneration), open', app, aRelayed')
    BY <2>3, <2>4 DEF NoneTwice
  <2> QED
    BY <1>1, <1>11, <2>5, <2>6, <2>7 DEF NoneTwice
<1> QED
  BY <1>9, <1>10, <1>11, <1>12 DEF AppInv

\* A step of the core that relays nothing, and leaves no connection more to be given.
LEMMA NothingMore ==
  ASSUME AppInv, UNCHANGED <<aRelayed, aState, aPending, aSaving, aDb, from>>,
         LessDue(Due, open, app, Due', open', app'),
         \A s \in States : LessDue(Anew(s, open, aGeneration), open, app,
                                   Anew(s, open', aGeneration'), open', app')
  PROVE  RowsAddUp' /\ NoneTwice'
<1>1. A!Listed' = A!Listed /\ RowsAddUp'
  BY RowsUntouched DEF AppInv
<1>2. AppTypes /\ RowsAddUp /\ NoneTwice
  BY DEF AppInv
<1>3. /\ A!Listed \in RowCounts /\ aState.cleared \in RowCounts /\ aRelayed \in RowCounts
      /\ aDb.rows \in RowCounts /\ aDb.state \in States /\ aDb.state.cleared \in RowCounts
      /\ aSaving.rows \in RowCounts /\ aSaving.state \in States /\ aSaving.state.cleared \in RowCounts
      /\ A!Plus(aDb.rows, aSaving.rows) \in RowCounts
  <2>1. aDb.state \in States /\ aSaving.state \in States
    BY <1>2 DEF AppTypes
  <2> QED
    BY <1>2, <2>1, StateFields, ListedIs, PlusTotal
<1>4. ASSUME NEW rows \in RowCounts, NEW cleared \in RowCounts, NEW due, NEW due2,
             Covered(rows, cleared, due, open, app, aRelayed),
             LessDue(due, open, app, due2, open', app')
      PROVE  Covered(rows, cleared, due2, open', app', aRelayed)
  <2>1. \A a \in Apps : rows[a] + cleared[a] <= rows[a] + cleared[a]
    <3>1. \A a \in Apps : rows[a] \in Nat /\ cleared[a] \in Nat
      BY AppConstants DEF RowCounts
    <3> QED
      BY <3>1
  <2>2. Total(rows, A!Rows) - rows[A!Unattributed] <= Total(rows, A!Rows) - rows[A!Unattributed]
    <3>1. Total(rows, A!Rows) \in Nat /\ rows[A!Unattributed] \in Nat
      BY RowsTotal, AppConstants
    <3> QED
      BY <3>1
  <2> QED
    BY <1>3, <1>4, <2>1, <2>2, CoveredRows
<1>5. Covered(A!Listed, aState.cleared, Due', open', app', aRelayed)
  BY <1>2, <1>3, <1>4 DEF NoneTwice
<1>6. Covered(aDb.rows, aDb.state.cleared, Anew(aDb.state, open', aGeneration'), open', app', aRelayed)
  BY <1>2, <1>3, <1>4 DEF NoneTwice
<1>7. aSaving.pc = "snapshot" =>
        Covered(A!Plus(aDb.rows, aSaving.rows), aSaving.state.cleared,
                Anew(aSaving.state, open', aGeneration'), open', app', aRelayed)
  BY <1>2, <1>3, <1>4 DEF NoneTwice
<1> QED
  BY <1>1, <1>5, <1>6, <1>7 DEF NoneTwice

LEMMA CountsStay ==
  ASSUME AppInv, UNCHANGED <<aGeneration, aCount, aRelayed, aState, active, seeded, aSaving, aDb>>,
         LessDue(open, open, app, open', open', app'), LessDue(Due, open, app, Due', open', app'),
         \A d \in DOMAIN open' \cap DOMAIN active : d \in DOMAIN open /\ open'[d] = open[d]
  PROVE  CoreCounts'
<1>1. AppTypes /\ CoreCounts
  BY DEF AppInv
<1>2. ASSUME NEW due, NEW due2, LessDue(due, open, app, due2, open', app')
      PROVE  /\ Total(due2, DOMAIN open') <= Total(due, DOMAIN open)
             /\ Total(due2, DOMAIN open') \in Nat /\ Total(due, DOMAIN open) \in Nat
  <2>1. IsFiniteSet(DOMAIN open) /\ \A x \in DOMAIN open : due[x] \in Nat
    BY <1>2 DEF LessDue
  <2>2. IsFiniteSet(DOMAIN open') /\ \A x \in DOMAIN open' : due2[x] \in Nat
    BY <1>2 DEF LessDue
  <2>3. \A x \in DOMAIN open' : due2[x] = 0 \/ (x \in DOMAIN open /\ due2[x] <= due[x])
    BY <1>2 DEF LessDue
  <2> DEFINE T == DOMAIN open'
  <2>4. IsFiniteSet(T) /\ \A x \in T : due2[x] \in Nat
    BY <2>2
  <2>5. \A x \in T : due2[x] = 0 \/ (x \in DOMAIN open /\ due2[x] <= due[x])
    BY <2>3
  <2> HIDE DEF T
  <2>6. /\ Total(due2, T) <= Total(due, DOMAIN open)
        /\ Total(due2, T) \in Nat /\ Total(due, DOMAIN open) \in Nat
    BY <2>1, <2>4, <2>5, TotalLess, TotalNatural
  <2> QED
    BY <2>6 DEF T
<1>3. aCount \in Nat /\ aState.last \in Nat
  BY <1>1, StateFields
<1>4. Total(open', DOMAIN open') <= aCount'
  <2>1. /\ Total(open', DOMAIN open') <= Total(open, DOMAIN open)
        /\ Total(open', DOMAIN open') \in Nat /\ Total(open, DOMAIN open) \in Nat
    BY <1>2
  <2> QED
    BY <1>1, <1>3, <2>1 DEF CoreCounts
<1>5. seeded' /\ aState'.generation = aGeneration' =>
         /\ \A d \in DOMAIN open' \cap DOMAIN active' : active'[d] <= open'[d]
         /\ Total(Due', DOMAIN open') <= aCount' - aState'.last
  <2> SUFFICES ASSUME seeded', aState'.generation = aGeneration'
               PROVE  /\ \A d \in DOMAIN open' \cap DOMAIN active' : active'[d] <= open'[d]
                      /\ Total(Due', DOMAIN open') <= aCount' - aState'.last
    OBVIOUS
  <2>1. seeded /\ aState.generation = aGeneration
    OBVIOUS
  <2>2. /\ \A d \in DOMAIN open \cap DOMAIN active : active[d] <= open[d]
        /\ Total(Due, DOMAIN open) <= aCount - aState.last
    BY <1>1, <2>1 DEF CoreCounts
  <2>3. /\ Total(Due', DOMAIN open') <= Total(Due, DOMAIN open)
        /\ Total(Due', DOMAIN open') \in Nat /\ Total(Due, DOMAIN open) \in Nat
    BY <1>2
  <2>4. Total(Due', DOMAIN open') <= aCount - aState.last
    BY <1>3, <2>2, <2>3
  <2>5. \A d \in DOMAIN open' \cap DOMAIN active' : active'[d] <= open'[d]
    BY <2>2
  <2> QED
    BY <2>4, <2>5
<1> QED
  BY <1>1, <1>4, <1>5 DEF CoreCounts

LEMMA CloseKeeps ==
  ASSUME AppInv, NEW c \in A!Connections, A!Close(c)
  PROVE  AppInv'
<1>1. /\ open' = [d \in DOMAIN open \ {c} |-> open[d]]
      /\ UNCHANGED <<aGeneration, aCount, app, aRelayed, aState, active, seeded, aPending, aSaving, aDb, from>>
  BY DEF A!Close, A!Restrict
<1>2. AppTypes /\ CoreCounts
  BY DEF AppInv
<1>3. /\ DOMAIN open' \in SUBSET DOMAIN open
      /\ IsFiniteSet(DOMAIN open) /\ IsFiniteSet(DOMAIN open')
      /\ \A d \in DOMAIN open' : open'[d] = open[d]
      /\ \A d \in DOMAIN open : open[d] \in Nat
  <2>1. IsFiniteSet(DOMAIN open) /\ \A d \in DOMAIN open : open[d] \in Nat
    BY <1>2, Connected
  <2>2. DOMAIN open' \in SUBSET DOMAIN open /\ \A d \in DOMAIN open' : open'[d] = open[d]
    BY <1>1
  <2> QED
    BY <2>1, <2>2, FS_Subset
<1>4. /\ \A d \in DOMAIN open : Due[d] \in Nat
      /\ \A d \in DOMAIN open' : Due'[d] = Due[d]
  <2>1. (A!Restarted' <=> A!Restarted) /\ (A!SeedOnly' <=> A!SeedOnly)
    BY <1>1 DEF A!Restarted, A!SeedOnly
  <2>2. ASSUME NEW d \in DOMAIN open' PROVE Due'[d] = Due[d]
    <3>1. Due'[d] = A!Since(d)' /\ Due[d] = A!Since(d)
      BY <1>3 DEF Due
    <3> QED
      BY <1>1, <1>3, <2>1, <3>1 DEF A!Since
  <2> QED
    BY <1>2, <2>2, DueIs
<1>5. AppTypes'
  BY <1>1, <1>2, <1>3 DEF AppTypes
<1>6. LessDue(Due, open, app, Due', open', app')
  <2>1. \A d \in DOMAIN open' : d \in DOMAIN open /\ Due'[d] \in Nat /\ Due'[d] <= Due[d] /\ app'[d] = app[d]
    BY <1>1, <1>3, <1>4
  <2> QED
    BY <1>3, <1>4, <2>1 DEF LessDue
<1>7. ASSUME NEW s \in States
      PROVE  LessDue(Anew(s, open, aGeneration), open, app, Anew(s, open', aGeneration'), open', app')
  <2> DEFINE d1 == Anew(s, open, aGeneration)
             d2 == Anew(s, open', aGeneration')
  <2>1. \A d \in DOMAIN open : d1[d] \in Nat
    BY <1>3, AnewFields
  <2>2. \A d \in DOMAIN open' : d \in DOMAIN open /\ d2[d] = d1[d] /\ app'[d] = app[d]
    BY <1>1, <1>3, AnewFields
  <2> HIDE DEF d1, d2
  <2>3. LessDue(d1, open, app, d2, open', app')
    BY <1>3, <2>1, <2>2 DEF LessDue
  <2> QED
    BY <2>3 DEF d1, d2
<1>8. RowsAddUp' /\ NoneTwice'
  BY <1>1, <1>6, <1>7, NothingMore
<1>9. CoreCounts'
  <2>1. LessDue(open, open, app, open', open', app')
    BY <1>1, <1>3 DEF LessDue
  <2>2. \A d \in DOMAIN open' \cap DOMAIN active : d \in DOMAIN open /\ open'[d] = open[d]
    BY <1>3
  <2> QED
    BY <1>1, <1>6, <2>1, <2>2, CountsStay
<1> QED
  BY <1>5, <1>8, <1>9 DEF AppInv

LEMMA OpenKeeps ==
  ASSUME AppInv, NEW c \in A!Connections, NEW a \in Apps, A!Open(c, a)
  PROVE  AppInv'
<1>1. /\ c = A!Cardinality(DOMAIN app) + 1
      /\ app' = [d \in DOMAIN app \cup {c} |-> IF d = c THEN a ELSE app[d]]
      /\ open' = [d \in DOMAIN open \cup {c} |-> IF d = c THEN 0 ELSE open[d]]
      /\ UNCHANGED <<aGeneration, aCount, aRelayed, aState, active, seeded, aPending, aSaving, aDb, from>>
  BY DEF A!Open
<1>2. AppTypes /\ CoreCounts
  BY DEF AppInv
<1>3. /\ c \notin DOMAIN app /\ c \notin DOMAIN open /\ c \notin DOMAIN active
      /\ DOMAIN open' = DOMAIN open \cup {c} /\ DOMAIN app' = DOMAIN app \cup {c}
      /\ open'[c] = 0 /\ app'[c] = a
      /\ \A d \in DOMAIN open : open'[d] = open[d] /\ app'[d] = app[d] /\ open[d] \in Nat
      /\ \A d \in DOMAIN app : app'[d] = app[d]
  <2>1. c \notin DOMAIN app /\ \A d \in DOMAIN open : d \in DOMAIN app /\ open[d] \in Nat
    BY <1>1, <1>2, Connected
  <2>2. DOMAIN active \subseteq DOMAIN app
    BY <1>2 DEF AppTypes
  <2> QED
    BY <1>1, <2>1, <2>2
<1>4. IsFiniteSet(DOMAIN open) /\ IsFiniteSet(DOMAIN open')
  <2>1. IsFiniteSet(DOMAIN open)
    BY <1>2, Connected
  <2>2. IsFiniteSet(DOMAIN open \cup {c})
    BY <2>1, FS_AddElement
  <2> QED
    BY <1>3, <2>1, <2>2
<1>5. /\ Due'[c] = 0 /\ \A d \in DOMAIN open : Due'[d] = Due[d]
      /\ \A d \in DOMAIN open : Due[d] \in Nat
  <2>1. (A!Restarted' <=> A!Restarted) /\ (A!SeedOnly' <=> A!SeedOnly)
    BY <1>1 DEF A!Restarted, A!SeedOnly
  <2>2. ASSUME NEW d \in DOMAIN open PROVE Due'[d] = Due[d]
    <3>1. Due'[d] = A!Since(d)' /\ Due[d] = A!Since(d)
      BY <1>3 DEF Due
    <3> QED
      BY <1>1, <1>3, <2>1, <3>1 DEF A!Since
  <2>3. Due'[c] = 0
    <3>1. Due'[c] = A!Since(c)' /\ active' = active
      BY <1>1, <1>3 DEF Due
    <3> QED
      BY <1>3, <3>1 DEF A!Since
  <2> QED
    BY <1>2, <2>2, <2>3, DueIs
<1>6. AppTypes'
  <2>1. \E n \in Nat : DOMAIN app' = 1..n
    <3>1. PICK n \in Nat : DOMAIN app = 1..n /\ A!Cardinality(DOMAIN app) = n
      BY <1>2, Connected
    <3>2. DOMAIN app' = 1..(n + 1) /\ n + 1 \in Nat
      BY <1>1, <1>3, <3>1
    <3> QED
      BY <3>2
  <2>2. DOMAIN app' \subseteq A!Connections
    BY <1>2, <1>3 DEF AppTypes
  <2>3. \A d \in DOMAIN app' : app'[d] \in Apps
    BY <1>2, <1>3 DEF AppTypes
  <2>4. DOMAIN open' \subseteq DOMAIN app' /\ \A d \in DOMAIN open' : open'[d] \in Nat
    BY <1>2, <1>3 DEF AppTypes
  <2>5. DOMAIN active' \subseteq DOMAIN app' /\ \A d \in DOMAIN active' : active'[d] \in Nat
    BY <1>1, <1>2, <1>3 DEF AppTypes
  <2> QED
    BY <1>1, <1>2, <2>1, <2>2, <2>3, <2>4, <2>5 DEF AppTypes
<1>7. LessDue(Due, open, app, Due', open', app')
  <2>1. \A d \in DOMAIN open' : Due'[d] = 0 \/ (d \in DOMAIN open /\ Due'[d] <= Due[d] /\ app'[d] = app[d])
    BY <1>3, <1>5
  <2>2. \A d \in DOMAIN open' : Due'[d] \in Nat
    BY <1>3, <1>5
  <2> QED
    BY <1>4, <1>5, <2>1, <2>2 DEF LessDue
<1>8. ASSUME NEW s \in States
      PROVE  LessDue(Anew(s, open, aGeneration), open, app, Anew(s, open', aGeneration'), open', app')
  <2> DEFINE d1 == Anew(s, open, aGeneration)
             d2 == Anew(s, open', aGeneration')
  <2>1. \A d \in DOMAIN open : d1[d] \in Nat
    BY <1>3, AnewFields
  <2>2. d2[c] = 0 /\ \A d \in DOMAIN open : d2[d] = d1[d]
    BY <1>1, <1>3, AnewFields
  <2> HIDE DEF d1, d2
  <2>3. \A d \in DOMAIN open' : d2[d] = 0 \/ (d \in DOMAIN open /\ d2[d] <= d1[d] /\ app'[d] = app[d])
    BY <1>3, <2>1, <2>2
  <2>4. \A d \in DOMAIN open' : d2[d] \in Nat
    BY <1>3, <2>1, <2>2
  <2>5. LessDue(d1, open, app, d2, open', app')
    BY <1>4, <2>1, <2>3, <2>4 DEF LessDue
  <2> QED
    BY <2>5 DEF d1, d2
<1>9. RowsAddUp' /\ NoneTwice'
  BY <1>1, <1>7, <1>8, NothingMore
<1>10. CoreCounts'
  <2>1. \A d \in DOMAIN open' :
          /\ open'[d] \in Nat
          /\ open'[d] = 0 \/ (d \in DOMAIN open /\ open'[d] <= open[d] /\ app'[d] = app[d])
    BY <1>3
  <2>2. LessDue(open, open, app, open', open', app')
    BY <1>3, <1>4, <2>1 DEF LessDue
  <2>3. \A d \in DOMAIN open' \cap DOMAIN active : d \in DOMAIN open /\ open'[d] = open[d]
    BY <1>3
  <2> QED
    BY <1>1, <1>7, <2>2, <2>3, CountsStay
<1> QED
  BY <1>6, <1>9, <1>10 DEF AppInv

LEMMA CoreRestartKeeps ==
  ASSUME AppInv, A!CoreRestart
  PROVE  AppInv'
<1>1. /\ aGeneration < MaxGeneration /\ aGeneration' = aGeneration + 1
      /\ aCount' = 0 /\ DOMAIN open' = {}
      /\ UNCHANGED <<app, aRelayed, aState, active, seeded, aPending, aSaving, aDb, from>>
  BY DEF A!CoreRestart, A!NoConnections
<1>2. AppTypes /\ CoreCounts
  BY DEF AppInv
<1>3. aGeneration \in 1..MaxGeneration /\ MaxGeneration \in Nat /\ aGeneration \in Nat
  BY <1>2, AppConstants DEF AppTypes
<1>4. AppTypes'
  BY <1>1, <1>2, <1>3 DEF AppTypes
<1>5. IsFiniteSet(DOMAIN open) /\ IsFiniteSet(DOMAIN open') /\ \A d \in DOMAIN open : open[d] \in Nat
  BY <1>1, <1>2, Connected, FS_EmptySet
<1>6. LessDue(Due, open, app, Due', open', app')
  BY <1>1, <1>2, <1>5, DueIs DEF LessDue
<1>7. ASSUME NEW s \in States
      PROVE  LessDue(Anew(s, open, aGeneration), open, app, Anew(s, open', aGeneration'), open', app')
  <2>1. \A d \in DOMAIN open : Anew(s, open, aGeneration)[d] \in Nat
    BY <1>5, AnewFields
  <2> QED
    BY <1>1, <1>5, <2>1 DEF LessDue
<1>8. RowsAddUp' /\ NoneTwice'
  BY <1>1, <1>6, <1>7, NothingMore
<1>9. CoreCounts'
  <2>1. Total(open', DOMAIN open') = 0
    BY <1>1, TotalEmpty
  <2>2. Total(aRelayed, A!Rows) \in Nat
    BY <1>2, StateFields, RowsTotal
  <2>3. \A s \in {aState, aDb.state, aSaving.state} :
           s.generation \in Nat /\ Baseline(s, aGeneration, aCount)
    BY <1>2, StateFields DEF CoreCounts
  <2>4. \A s \in {aState, aDb.state, aSaving.state} :
           Baseline(s, aGeneration + 1, 0) /\ s.generation # aGeneration + 1
    BY <1>3, <2>3 DEF Baseline
  <2>5. /\ Baseline(aState, aGeneration, aCount)' /\ Baseline(aSaving.state, aGeneration, aCount)'
        /\ Baseline(aDb.state, aGeneration, aCount)' /\ aState'.generation # aGeneration'
    BY <1>1, <2>4
  <2>6. /\ ~seeded' => DOMAIN active' = {}
        /\ seeded' => /\ aState'.generation # 0
                      /\ \A d \in DOMAIN active' : active'[d] <= aState'.last
    BY <1>1, <1>2 DEF CoreCounts
  <2>7. /\ Total(open', DOMAIN open') <= aCount'
        /\ aCount' <= Total(aRelayed', A!Rows) /\ Total(aRelayed', A!Rows) <= MaxAppBytes
    BY <1>1, <1>2, <2>1, <2>2 DEF CoreCounts
  <2> QED
    BY <2>5, <2>6, <2>7 DEF CoreCounts
<1> QED
  BY <1>4, <1>8, <1>9 DEF AppInv

-----------------------------------------------------------------------------
(* A sample. *)

\* What a sample names: to each application what its connections are due.
Named == [row \in A!Rows |-> Total(Due, OfApp(open, app, row))]

LEMMA NamedIs ==
  ASSUME AppTypes
  PROVE  /\ Named \in RowCounts /\ Named[A!Unattributed] = 0
         /\ Named = [row \in A!Rows |->
                       A!Sum([c \in {c \in DOMAIN open : app[c] = row} |-> A!Since(c)])]
         /\ Total(Named, A!Rows) = Total(Due, DOMAIN open)
<1>1. /\ IsFiniteSet(DOMAIN open)
      /\ \A c \in DOMAIN open : Due[c] \in Nat /\ Due[c] = A!Since(c) /\ app[c] \in Apps
  BY Connected, DueIs
<1>2. ASSUME NEW row \in A!Rows
      PROVE  /\ Total(Due, OfApp(open, app, row)) \in Nat
             /\ A!Sum([c \in {c \in DOMAIN open : app[c] = row} |-> A!Since(c)])
                  = Total(Due, OfApp(open, app, row))
  <2> DEFINE S == OfApp(open, app, row)
             h == [c \in S |-> A!Since(c)]
  <2>1. S = {c \in DOMAIN open : app[c] = row} /\ S \in SUBSET DOMAIN open
    BY DEF OfApp
  <2>2. DOMAIN h = S /\ \A c \in S : h[c] = Due[c] /\ Due[c] \in Nat
    BY <1>1, <2>1
  <2>3. IsFiniteSet(S)
    BY <1>1, <2>1, FS_Subset
  <2>4. A!Sum([c \in {c \in DOMAIN open : app[c] = row} |-> A!Since(c)]) = A!Sum(h)
    BY <2>1
  <2> HIDE DEF S, h
  <2>5. A!Sum(h) = Total(h, S)
    BY <2>2, SumIs
  <2>6. Total(h, S) = Total(Due, S)
    BY <2>2, <2>3, SameTotal
  <2>7. Total(Due, S) \in Nat
    BY <2>2, <2>3, TotalNatural
  <2> QED
    BY <2>4, <2>5, <2>6, <2>7 DEF S
<1>3. Named \in RowCounts
  BY <1>2 DEF Named, RowCounts
<1>4. Named = [row \in A!Rows |->
                 A!Sum([c \in {c \in DOMAIN open : app[c] = row} |-> A!Since(c)])]
  BY <1>2 DEF Named
<1>5. Named[A!Unattributed] = 0
  <2>1. OfApp(open, app, A!Unattributed) = {}
    BY <1>1, AppConstants DEF OfApp
  <2> QED
    BY <2>1, TotalEmpty, AppConstants DEF Named
<1>6. Total(Named, A!Rows) = Total(Due, DOMAIN open)
  <2> DEFINE C == DOMAIN open
             R == A!Rows
             h == Due
             k == app
  <2>1. IsFiniteSet(C) /\ IsFiniteSet(R) /\ \A c \in C : h[c] \in Int /\ k[c] \in R
    BY <1>1, AppConstants
  <2>2. Named = [r \in R |-> Total(h, {c \in C : k[c] = r})]
    BY DEF Named, OfApp
  <2> HIDE DEF C, R, h, k
  <2>3. Total([r \in R |-> Total(h, {c \in C : k[c] = r})], R) = Total(h, C)
    BY <2>1, TotalGrouped
  <2> QED
    BY <2>2, <2>3 DEF C, R, h
<1> QED
  BY <1>3, <1>4, <1>5, <1>6

LEMMA MaxIs == ASSUME NEW x \in Nat PROVE A!Max({0, x}) = x
<1>1. x \in {0, x} /\ \A y \in {0, x} : x >= y
  OBVIOUS
<1>2. \A m \in {0, x} : (\A y \in {0, x} : m >= y) => m = x
  OBVIOUS
<1> QED
  BY <1>1, <1>2 DEF A!Max

LEMMA SampleKeeps ==
  ASSUME AppInv, A!Sample
  PROVE  AppInv'
<1>1. AppTypes /\ CoreCounts /\ RowsAddUp /\ NoneTwice
  BY DEF AppInv
<1> DEFINE given == Total(Due, DOMAIN open)
           rest == [A!NoRows EXCEPT ![A!Unattributed] = A!Delta - given]
           more == A!Plus(Named, rest)
<1>2. /\ Named \in RowCounts /\ Named[A!Unattributed] = 0
      /\ A!Sum(Named) = given /\ Total(Named, A!Rows) = given
      /\ given \in Nat /\ A!Delta \in Nat /\ given <= A!Delta
  BY <1>1, NamedIs, RowsTotal, DueWithinDelta, RestartedIs
<1>3. /\ aPending' = A!Plus(aPending, more)
      /\ active' = open /\ seeded' = TRUE
      /\ aState' = [aState EXCEPT !.total = @ + A!Delta, !.last = aCount, !.generation = aGeneration]
      /\ UNCHANGED <<aGeneration, aCount, open, app, aRelayed, aSaving, aDb, from>>
  <2>1. aPending' = A!Plus(aPending, A!Plus(Named,
                      [A!NoRows EXCEPT ![A!Unattributed] = A!Max({0, A!Delta - A!Sum(Named)})]))
    BY <1>1, NamedIs DEF A!Sample
  <2>2. A!Max({0, A!Delta - A!Sum(Named)}) = A!Delta - given
    <3>1. A!Delta - given \in Nat
      BY <1>2
    <3> HIDE DEF given
    <3>2. A!Max({0, A!Delta - given}) = A!Delta - given
      BY <3>1, MaxIs
    <3> QED
      BY <1>2, <3>2
  <2>3. aPending' = A!Plus(aPending, more)
    BY <2>1, <2>2
  <2> QED
    BY <2>3 DEF A!Sample, A!core
<1>4. /\ aState \in States /\ aCount \in Nat /\ aGeneration \in 1..MaxGeneration
      /\ aPending \in RowCounts /\ aState.total \in Nat
  BY <1>1, StateFields DEF AppTypes
<1>5. /\ rest \in RowCounts /\ rest[A!Unattributed] = A!Delta - given
      /\ \A row \in A!Rows \ {A!Unattributed} : rest[row] = 0
      /\ Total(rest, A!Rows) = A!Delta - given
  <2>1. A!Delta - given \in Nat
    BY <1>2
  <2>2. /\ A!NoRows \in RowCounts /\ (\A row \in A!Rows : A!NoRows[row] = 0)
        /\ Total(A!NoRows, A!Rows) = 0 /\ A!Unattributed \in A!Rows /\ IsFiniteSet(A!Rows)
    BY NoRowsTotal, AppConstants
  <2>3. /\ rest \in RowCounts /\ rest[A!Unattributed] = A!Delta - given
        /\ \A row \in A!Rows \ {A!Unattributed} : rest[row] = 0
    BY <2>1, <2>2 DEF RowCounts
  <2> HIDE DEF rest
  <2>4. \A row \in A!Rows : A!NoRows[row] \in Int /\ rest[row] \in Int
    BY <2>2, <2>3, RowsTotal
  <2>5. \A row \in A!Rows \ {A!Unattributed} : A!NoRows[row] = rest[row]
    BY <2>2, <2>3
  <2>6. Total(rest, A!Rows) = Total(A!NoRows, A!Rows) - A!NoRows[A!Unattributed] + rest[A!Unattributed]
    BY <2>2, <2>4, <2>5, TotalChanged
  <2>7. rest[A!Unattributed] \in Nat
    BY <2>1, <2>3
  <2> QED
    BY <2>2, <2>3, <2>6, <2>7
<1> HIDE DEF rest
<1>6. /\ more \in RowCounts /\ Total(more, A!Rows) = A!Delta
      /\ \A row \in A!Rows : more[row] = Named[row] + rest[row]
  <2>1. /\ more \in RowCounts /\ Total(more, A!Rows) = Total(Named, A!Rows) + Total(rest, A!Rows)
        /\ \A row \in A!Rows : more[row] = Named[row] + rest[row]
    BY <1>2, <1>5, PlusTotal
  <2> HIDE DEF more, given
  <2> QED
    BY <1>2, <1>5, <2>1
<1> HIDE DEF more
<1>7. /\ aPending' \in RowCounts
      /\ Total(aPending', A!Rows) = Total(aPending, A!Rows) + A!Delta
      /\ \A row \in A!Rows : aPending'[row] = aPending[row] + more[row]
  <2> DEFINE p == A!Plus(aPending, more)
  <2>1. /\ p \in RowCounts /\ Total(p, A!Rows) = Total(aPending, A!Rows) + Total(more, A!Rows)
        /\ \A row \in A!Rows : p[row] = aPending[row] + more[row]
    BY <1>4, <1>6, PlusTotal
  <2>2. aPending' = p
    BY <1>3
  <2> HIDE DEF p
  <2> QED
    BY <1>6, <2>1, <2>2
<1>8. /\ aState'.total = aState.total + A!Delta /\ aState'.last = aCount
      /\ aState'.generation = aGeneration /\ aState'.cleared = aState.cleared
      /\ aState' \in States
  <2>1. aGeneration \in Nat
    BY <1>4, AppConstants
  <2>2. aState \in [total : Nat, last : Nat, generation : Nat, cleared : RowCounts]
    BY <1>4 DEF States
  <2>3. aState.total + A!Delta \in Nat
    BY <1>2, <1>4
  <2>4. /\ aState'.total = aState.total + A!Delta /\ aState'.last = aCount
        /\ aState'.generation = aGeneration /\ aState'.cleared = aState.cleared
    BY <1>3, <2>2
  <2>5. aState' \in [total : Nat, last : Nat, generation : Nat, cleared : RowCounts]
    BY <1>3, <1>4, <2>1, <2>2, <2>3
  <2> QED
    BY <2>4, <2>5 DEF States
<1>9. AppTypes'
  BY <1>1, <1>3, <1>7, <1>8 DEF AppTypes
<1>10. /\ DOMAIN Due' = DOMAIN open /\ \A c \in DOMAIN open : Due'[c] = 0
  <2>1. ~A!Restarted' /\ ~A!SeedOnly'
    BY <1>3, <1>4, <1>8 DEF A!Restarted, A!SeedOnly
  <2>2. \A c \in DOMAIN open : open[c] \in Nat
    BY <1>1, Connected
  <2>3. ASSUME NEW c \in DOMAIN open PROVE A!Since(c)' = 0
    BY <1>3, <2>1, <2>2 DEF A!Since
  <2> QED
    BY <1>3, <2>3 DEF Due
<1>11. CoreCounts'
  <2>1. /\ IsFiniteSet(DOMAIN open) /\ \A c \in DOMAIN open : open[c] \in Nat
    BY <1>1, Connected
  <2>2. Total(open, DOMAIN open) \in Nat /\ \A c \in DOMAIN open : open[c] <= Total(open, DOMAIN open)
    BY <2>1, TotalNatural
  <2>3. \A c \in DOMAIN open : open[c] <= aCount
    BY <1>1, <1>4, <2>1, <2>2 DEF CoreCounts
  <2>4. Total(Due', DOMAIN open) = 0
    BY <1>10, <2>1, TotalZero
  <2>5. aGeneration # 0 /\ aGeneration \in Nat
    BY <1>4, AppConstants
  <2>6. Baseline(aState, aGeneration, aCount)'
    BY <1>3, <1>4, <1>8, <2>5 DEF Baseline
  <2>7. /\ Total(open', DOMAIN open') <= aCount'
        /\ aCount' <= Total(aRelayed', A!Rows) /\ Total(aRelayed', A!Rows) <= MaxAppBytes
        /\ Baseline(aSaving.state, aGeneration, aCount)' /\ Baseline(aDb.state, aGeneration, aCount)'
    BY <1>1, <1>3 DEF CoreCounts
  <2>8. /\ ~seeded' => DOMAIN active' = {}
        /\ seeded' => /\ aState'.generation # 0
                      /\ \A c \in DOMAIN active' : active'[c] <= aState'.last
    BY <1>3, <1>8, <2>3, <2>5
  <2>9. /\ \A c \in DOMAIN open' \cap DOMAIN active' : active'[c] <= open'[c]
        /\ Total(Due', DOMAIN open') <= aCount' - aState'.last
    <3>1. aCount' - aState'.last = 0
      BY <1>3, <1>4, <1>8
    <3>2. Total(Due', DOMAIN open') = 0
      BY <1>3, <2>4
    <3> QED
      BY <1>3, <2>1, <3>1, <3>2
  <2> QED
    BY <2>6, <2>7, <2>8, <2>9 DEF CoreCounts
<1>12. /\ A!Listed \in RowCounts /\ A!Listed' \in RowCounts
       /\ \A row \in A!Rows : A!Listed'[row] = A!Listed[row] + more[row]
       /\ Total(A!Listed', A!Rows) = Total(A!Listed, A!Rows) + A!Delta
  <2>1. /\ A!Listed \in RowCounts
        /\ \A row \in A!Rows : A!Listed[row] = aDb.rows[row] + aPending[row]
             - IF aSaving.pc = "committed" THEN aSaving.rows[row] ELSE 0
    BY <1>1, ListedIs
  <2>2. \A row \in A!Rows : /\ aDb.rows[row] \in Nat /\ aPending[row] \in Nat
                            /\ aSaving.rows[row] \in Nat /\ more[row] \in Nat
    BY <1>1, <1>6, StateFields DEF RowCounts
  <2>3. A!Listed' = [row \in A!Rows |-> aDb.rows[row] + aPending'[row]
                       - IF aSaving.pc = "committed" THEN aSaving.rows[row] ELSE 0]
    BY <1>3 DEF A!Listed
  <2>4. ASSUME NEW row \in A!Rows PROVE A!Listed'[row] = A!Listed[row] + more[row]
    <3>1. A!Listed'[row] = aDb.rows[row] + (aPending[row] + more[row])
                             - IF aSaving.pc = "committed" THEN aSaving.rows[row] ELSE 0
      BY <1>7, <2>3
    <3>2. CASE aSaving.pc = "committed"
      BY <2>1, <2>2, <3>1, <3>2
    <3>3. CASE aSaving.pc # "committed"
      BY <2>1, <2>2, <3>1, <3>3
    <3> QED
      BY <3>2, <3>3
  <2> DEFINE l == A!Plus(A!Listed, more)
  <2>5. /\ l \in RowCounts /\ Total(l, A!Rows) = Total(A!Listed, A!Rows) + Total(more, A!Rows)
        /\ \A row \in A!Rows : l[row] = A!Listed[row] + more[row]
    BY <1>6, <2>1, PlusTotal
  <2>6. A!Listed' = l
    BY <2>3, <2>4 DEF A!Plus
  <2> HIDE DEF l
  <2> QED
    BY <1>6, <2>1, <2>4, <2>5, <2>6
<1>13. RowsAddUp'
  <2>1. from <= aState.total /\ aDb.state.total <= aState.total /\ aDb.state.total \in Nat /\ from \in Nat
        /\ aSaving.state.total \in Nat /\ A!Delta \in Nat
    BY <1>1, <1>2, StateFields DEF RowsAddUp
  <2>2. from' <= aState'.total /\ aDb'.state.total <= aState'.total
    BY <1>3, <1>4, <1>8, <2>1
  <2>3. aSaving'.pc # "idle" => \A row \in A!Rows : aSaving'.rows[row] <= aPending'[row]
    <3>1. \A row \in A!Rows : aPending[row] \in Nat /\ more[row] \in Nat /\ aSaving.rows[row] \in Nat
      BY <1>1, <1>6, StateFields DEF RowCounts
    <3>2. aSaving.pc # "idle" => \A row \in A!Rows : aSaving.rows[row] <= aPending[row]
      BY <1>1 DEF RowsAddUp
    <3> QED
      BY <1>3, <1>7, <3>1, <3>2
  <2>4. aSaving'.pc = "snapshot" =>
          /\ from' <= aSaving'.state.total /\ aSaving'.state.total <= aState'.total
          /\ Total(aDb'.rows, A!Rows) + Total(aSaving'.rows, A!Rows) = aSaving'.state.total - from'
    <3>1. aSaving.pc = "snapshot" =>
            /\ from <= aSaving.state.total /\ aSaving.state.total <= aState.total
            /\ Total(aDb.rows, A!Rows) + Total(aSaving.rows, A!Rows) = aSaving.state.total - from
      BY <1>1 DEF RowsAddUp
    <3> QED
      BY <1>3, <1>4, <1>8, <2>1, <3>1
  <2>5. Total(A!Listed', A!Rows) = aState'.total - from'
    <3>1. Total(A!Listed, A!Rows) = aState.total - from
      BY <1>1 DEF RowsAddUp
    <3> QED
      BY <1>3, <1>4, <1>8, <1>12, <2>1, <3>1
  <2>6. Total(aDb'.rows, A!Rows) = IF from' <= aDb'.state.total THEN aDb'.state.total - from' ELSE 0
    BY <1>1, <1>3 DEF RowsAddUp
  <2> QED
    BY <2>2, <2>3, <2>4, <2>5, <2>6 DEF RowsAddUp
<1>14. NoneTwice'
  <2>1. Covered(A!Listed, aState.cleared, Due, open, app, aRelayed)
    BY <1>1 DEF NoneTwice
  <2>2. ASSUME NEW a \in Apps
        PROVE  A!Listed'[a] + aState.cleared[a] + Total(Due', OfApp(open, app, a)) <= aRelayed[a]
    <3>1. OfApp(open, app, a) \in SUBSET DOMAIN open /\ IsFiniteSet(DOMAIN open)
      BY <1>1, Connected DEF OfApp
    <3>2. Total(Due', OfApp(open, app, a)) = 0
      <4>1. IsFiniteSet(OfApp(open, app, a)) /\ \A c \in OfApp(open, app, a) : Due'[c] = 0
        BY <1>10, <3>1, FS_Subset
      <4> QED
        BY <4>1, TotalZero
    <3>3. a \in A!Rows /\ a # A!Unattributed
      BY AppConstants
    <3>4. A!Listed'[a] = A!Listed[a] + Total(Due, OfApp(open, app, a))
      <4>1. Named[a] = Total(Due, OfApp(open, app, a)) /\ Named[a] \in Nat
        BY <1>2, <3>3 DEF Named, RowCounts
      <4>2. more[a] = Named[a]
        BY <1>5, <1>6, <3>3, <4>1
      <4> QED
        BY <1>12, <3>3, <4>1, <4>2
    <3>5. /\ A!Listed[a] \in Nat /\ aState.cleared[a] \in Nat /\ aRelayed[a] \in Nat
          /\ Named[a] \in Nat /\ Named[a] = Total(Due, OfApp(open, app, a))
      BY <1>1, <1>2, <1>12, <3>3, StateFields DEF RowCounts, Named
    <3>6. A!Listed[a] + aState.cleared[a] + Total(Due, OfApp(open, app, a)) <= aRelayed[a]
      BY <2>1 DEF Covered
    <3> HIDE DEF RowCounts
    <3> QED
      BY <3>2, <3>4, <3>5, <3>6
  <2>3. Total(A!Listed', A!Rows) - A!Listed'[A!Unattributed] + Total(Due', DOMAIN open)
          <= Total(aRelayed, A!Rows)
    <3>1. Total(Due', DOMAIN open) = 0
      <4>1. IsFiniteSet(DOMAIN open)
        BY <1>1, Connected
      <4> QED
        BY <1>10, <4>1, TotalZero
    <3>2. A!Listed'[A!Unattributed] = A!Listed[A!Unattributed] + (A!Delta - given)
      <4>1. more[A!Unattributed] = A!Delta - given
        BY <1>2, <1>5, <1>6, AppConstants
      <4> QED
        BY <1>12, <4>1, AppConstants
    <3>3. Total(A!Listed, A!Rows) - A!Listed[A!Unattributed] + given <= Total(aRelayed, A!Rows)
      BY <2>1 DEF Covered
    <3>4. /\ Total(A!Listed, A!Rows) \in Nat /\ A!Listed[A!Unattributed] \in Nat
          /\ Total(aRelayed, A!Rows) \in Nat
      BY <1>1, <1>12, RowsTotal, AppConstants, StateFields
    <3> HIDE DEF given
    <3> QED
      BY <1>2, <1>12, <3>1, <3>2, <3>3, <3>4
  <2>4. Covered(A!Listed', aState'.cleared, Due', open', app', aRelayed')
    BY <1>3, <1>8, <2>2, <2>3 DEF Covered
  <2>5. Covered(aDb.rows, aDb.state.cleared, Anew(aDb.state, open, aGeneration), open, app, aRelayed)'
    BY <1>1, <1>3 DEF NoneTwice
  <2>6. (aSaving.pc = "snapshot" =>
           Covered(A!Plus(aDb.rows, aSaving.rows), aSaving.state.cleared,
                   Anew(aSaving.state, open, aGeneration), open, app, aRelayed))'
    BY <1>1, <1>3 DEF NoneTwice
  <2> QED
    BY <2>4, <2>5, <2>6 DEF NoneTwice
<1> QED
  BY <1>9, <1>11, <1>13, <1>14 DEF AppInv

-----------------------------------------------------------------------------
(* A save, a clear, a panel that is killed. *)

LEMMA SaveSnapshotKeeps ==
  ASSUME AppInv, A!SaveSnapshot
  PROVE  AppInv'
<1>1. AppTypes /\ CoreCounts /\ RowsAddUp /\ NoneTwice
  BY DEF AppInv
<1>2. /\ aSaving.pc = "idle"
      /\ aSaving' = [pc |-> "snapshot", state |-> aState, rows |-> aPending]
      /\ UNCHANGED <<aGeneration, aCount, open, app, aRelayed, aState, active, seeded, aPending, aDb, from>>
  BY DEF A!SaveSnapshot, A!core
<1>3. aSaving'.pc = "snapshot" /\ aSaving'.state = aState /\ aSaving'.rows = aPending
  BY <1>2
<1>4. AppTypes'
  BY <1>1, <1>2 DEF AppTypes
<1>5. Due' = Due /\ A!Listed' = A!Listed
  <2>1. (A!Restarted' <=> A!Restarted) /\ (A!SeedOnly' <=> A!SeedOnly)
    BY <1>2 DEF A!Restarted, A!SeedOnly
  <2>2. \A c \in DOMAIN open : A!Since(c)' = A!Since(c)
    BY <1>2, <2>1 DEF A!Since
  <2>3. Due' = Due
    BY <1>2, <2>2 DEF Due
  <2>4. A!Listed' = A!Listed
    BY <1>2, <1>3 DEF A!Listed
  <2> QED
    BY <2>3, <2>4
<1>6. CoreCounts'
  BY <1>1, <1>2, <1>3, <1>5 DEF CoreCounts
<1>7. /\ A!Listed \in RowCounts /\ A!Plus(aDb.rows, aPending) = A!Listed
      /\ Total(A!Listed, A!Rows) = Total(aDb.rows, A!Rows) + Total(aPending, A!Rows)
  <2>1. aDb.rows \in RowCounts /\ aPending \in RowCounts
    BY <1>1, StateFields
  <2>2. \A row \in A!Rows : aDb.rows[row] \in Nat /\ aPending[row] \in Nat
    BY <2>1 DEF RowCounts
  <2>3. A!Listed = [row \in A!Rows |-> aDb.rows[row] + aPending[row] - 0]
    BY <1>2 DEF A!Listed
  <2>4. \A row \in A!Rows : aDb.rows[row] + aPending[row] - 0 = aDb.rows[row] + aPending[row]
    BY <2>2
  <2>5. A!Plus(aDb.rows, aPending) = A!Listed
    BY <2>3, <2>4 DEF A!Plus
  <2> QED
    BY <2>1, <2>5, PlusTotal
<1>8. RowsAddUp'
  <2>1. /\ from <= aState.total /\ aState.total \in Nat
        /\ Total(aDb.rows, A!Rows) + Total(aPending, A!Rows) = aState.total - from
    BY <1>1, <1>7, StateFields DEF RowsAddUp
  <2>2. \A row \in A!Rows : aPending[row] \in Nat
    BY <1>1, StateFields DEF RowCounts
  <2> QED
    BY <1>1, <1>2, <1>3, <1>5, <2>1, <2>2 DEF RowsAddUp
<1>9. Covered(A!Listed, aState.cleared, Anew(aState, open, aGeneration), open, app, aRelayed)
  <2> DEFINE d == Anew(aState, open, aGeneration)
  <2>1. /\ IsFiniteSet(DOMAIN open)
        /\ \A c \in DOMAIN open : Due[c] \in Nat /\ d[c] \in Nat /\ d[c] <= Due[c]
    BY <1>1, Connected, DueIs, AnewIs, AnewFields
  <2>2. Covered(A!Listed, aState.cleared, Due, open, app, aRelayed)
    BY <1>1 DEF NoneTwice
  <2>3. aState.cleared \in RowCounts /\ aRelayed \in RowCounts
    BY <1>1, StateFields
  <2>4. \A a \in Apps : A!Listed[a] \in Nat /\ aState.cleared[a] \in Nat
    BY <1>7, <2>3, AppConstants DEF RowCounts
  <2>5. \A a \in Apps : A!Listed[a] + aState.cleared[a] <= A!Listed[a] + aState.cleared[a]
    BY <2>4
  <2>6. Total(A!Listed, A!Rows) - A!Listed[A!Unattributed] <= Total(A!Listed, A!Rows) - A!Listed[A!Unattributed]
    <3>1. Total(A!Listed, A!Rows) \in Nat /\ A!Listed[A!Unattributed] \in Nat
      BY <1>7, RowsTotal, AppConstants
    <3> QED
      BY <3>1
  <2> HIDE DEF d
  <2>7. LessDue(Due, open, app, d, open, app)
    BY <2>1 DEF LessDue
  <2>8. Covered(A!Listed, aState.cleared, d, open, app, aRelayed)
    BY <1>7, <2>2, <2>3, <2>5, <2>6, <2>7, CoveredRows
  <2> QED
    BY <2>8 DEF d
<1>10. NoneTwice'
  BY <1>1, <1>2, <1>3, <1>5, <1>7, <1>9 DEF NoneTwice
<1> QED
  BY <1>4, <1>6, <1>8, <1>10 DEF AppInv

\* The rows the database has once the rows of a save are added to those there are.
LEMMA Committed ==
  ASSUME AppInv, A!SaveCommit
  PROVE  /\ aDb'.rows \in RowCounts
         /\ Total(aDb'.rows, A!Rows) = Total(aDb.rows, A!Rows) + Total(aSaving.rows, A!Rows)
         /\ aDb'.rows[A!Unattributed] = aDb.rows[A!Unattributed] + aSaving.rows[A!Unattributed]
         /\ \A a \in Apps : aDb'.rows[a] <= aDb.rows[a] + aSaving.rows[a]
<1>1. /\ aDb.rows \in RowCounts /\ aSaving.rows \in RowCounts
      /\ \A row \in A!Rows : aDb.rows[row] \in Nat /\ aSaving.rows[row] \in Nat
  BY StateFields, RowsTotal DEF AppInv
<1>2. aDb'.rows = IF aSaving.rows = A!NoRows THEN aDb.rows ELSE A!Pruned(A!Plus(aDb.rows, aSaving.rows))
  BY DEF A!SaveCommit
<1>3. /\ A!Unattributed \in A!Rows /\ Apps \subseteq A!Rows
      /\ Total(aDb.rows, A!Rows) \in Nat /\ Total(aSaving.rows, A!Rows) \in Nat
  BY <1>1, AppConstants, RowsTotal
<1>4. CASE aSaving.rows = A!NoRows
  <2>1. (\A row \in A!Rows : aSaving.rows[row] = 0) /\ Total(aSaving.rows, A!Rows) = 0
    BY <1>4, NoRowsTotal
  <2> QED
    BY <1>1, <1>2, <1>3, <1>4, <2>1
<1>5. CASE aSaving.rows # A!NoRows
  <2> DEFINE p == A!Plus(aDb.rows, aSaving.rows)
  <2>1. /\ p \in RowCounts /\ (\A row \in A!Rows : p[row] = aDb.rows[row] + aSaving.rows[row])
        /\ Total(p, A!Rows) = Total(aDb.rows, A!Rows) + Total(aSaving.rows, A!Rows)
    BY <1>1, PlusTotal
  <2>2. aDb'.rows = A!Pruned(p)
    BY <1>2, <1>5
  <2> HIDE DEF p
  <2>3. /\ A!Pruned(p) \in RowCounts
        /\ Total(A!Pruned(p), A!Rows) = Total(p, A!Rows)
        /\ A!Pruned(p)[A!Unattributed] = p[A!Unattributed]
        /\ \A a \in Apps : A!Pruned(p)[a] <= p[a]
    BY <2>1, PrunedTotal
  <2> QED
    BY <1>3, <2>1, <2>2, <2>3
<1> QED
  BY <1>4, <1>5

LEMMA SaveCommitKeeps ==
  ASSUME AppInv, A!SaveCommit
  PROVE  AppInv'
<1>1. AppTypes /\ CoreCounts /\ RowsAddUp /\ NoneTwice
  BY DEF AppInv
<1>2. /\ aSaving.pc = "snapshot" /\ aDb'.state = aSaving.state
      /\ aSaving' = [aSaving EXCEPT !.pc = "committed"]
      /\ UNCHANGED <<aGeneration, aCount, open, app, aRelayed, aState, active, seeded, aPending, from>>
      /\ aDb' = [state |-> aSaving.state, rows |-> aDb'.rows]
  BY DEF A!SaveCommit, A!core
<1>3. /\ aDb'.rows \in RowCounts
      /\ Total(aDb'.rows, A!Rows) = Total(aDb.rows, A!Rows) + Total(aSaving.rows, A!Rows)
      /\ aDb'.rows[A!Unattributed] = aDb.rows[A!Unattributed] + aSaving.rows[A!Unattributed]
      /\ \A a \in Apps : aDb'.rows[a] <= aDb.rows[a] + aSaving.rows[a]
  BY Committed
<1>4. /\ aSaving \in [pc : {"idle", "snapshot", "committed"}, state : States, rows : RowCounts]
      /\ aSaving'.pc = "committed" /\ aSaving'.state = aSaving.state /\ aSaving'.rows = aSaving.rows
      /\ aSaving' \in [pc : {"idle", "snapshot", "committed"}, state : States, rows : RowCounts]
      /\ aDb' \in [state : States, rows : RowCounts]
  <2>1. aSaving \in [pc : {"idle", "snapshot", "committed"}, state : States, rows : RowCounts]
    BY <1>1 DEF AppTypes
  <2> QED
    BY <1>2, <1>3, <2>1
<1>5. AppTypes'
  BY <1>1, <1>2, <1>4 DEF AppTypes
<1>6. Due' = Due
  <2>1. (A!Restarted' <=> A!Restarted) /\ (A!SeedOnly' <=> A!SeedOnly)
    BY <1>2 DEF A!Restarted, A!SeedOnly
  <2>2. \A c \in DOMAIN open : A!Since(c)' = A!Since(c)
    BY <1>2, <2>1 DEF A!Since
  <2> QED
    BY <1>2, <2>2 DEF Due
<1>7. CoreCounts'
  BY <1>1, <1>2, <1>4, <1>6 DEF CoreCounts
<1>8. /\ aPending \in RowCounts /\ aSaving.rows \in RowCounts /\ aDb.rows \in RowCounts
      /\ \A row \in A!Rows : /\ aSaving.rows[row] <= aPending[row] /\ aDb.rows[row] \in Nat
                             /\ aSaving.rows[row] \in Nat /\ aPending[row] \in Nat
      /\ Total(aDb.rows, A!Rows) \in Nat /\ Total(aPending, A!Rows) \in Nat
      /\ Total(aSaving.rows, A!Rows) \in Nat
  <2>1. aPending \in RowCounts /\ aSaving.rows \in RowCounts /\ aDb.rows \in RowCounts
    BY <1>1, StateFields
  <2>2. \A row \in A!Rows : aSaving.rows[row] <= aPending[row]
    BY <1>1, <1>2 DEF RowsAddUp
  <2> QED
    BY <2>1, <2>2, RowsTotal
<1>9. /\ A!Listed \in RowCounts /\ Total(A!Listed, A!Rows) = Total(aDb.rows, A!Rows) + Total(aPending, A!Rows)
      /\ \A row \in A!Rows : A!Listed[row] = aDb.rows[row] + aPending[row]
  <2>1. /\ A!Listed \in RowCounts
        /\ \A row \in A!Rows : A!Listed[row] = aDb.rows[row] + aPending[row] - 0
        /\ Total(A!Listed, A!Rows) = Total(aDb.rows, A!Rows) + Total(aPending, A!Rows) - 0
    BY <1>1, <1>2, ListedIs
  <2> QED
    BY <1>8, <2>1
<1>10. /\ A!Listed' \in RowCounts
       /\ \A row \in A!Rows : A!Listed'[row] = aDb'.rows[row] + aPending[row] - aSaving.rows[row]
       /\ Total(A!Listed', A!Rows)
            = Total(aDb'.rows, A!Rows) + Total(aPending, A!Rows) - Total(aSaving.rows, A!Rows)
  <2> DEFINE l == A!Listed'
             d == aDb'.rows
             b == aSaving'.pc = "committed"
             given == aSaving.rows
  <2>1. l = [row \in A!Rows |-> d[row] + aPending[row] - IF b THEN given[row] ELSE 0]
    BY <1>2, <1>4 DEF A!Listed
  <2>2. d \in RowCounts /\ aPending \in RowCounts /\ given \in RowCounts
    BY <1>3, <1>8
  <2>3. b => \A row \in A!Rows : given[row] <= aPending[row]
    BY <1>8
  <2>4. b \in BOOLEAN
    OBVIOUS
  <2>5. b
    BY <1>4
  <2> HIDE DEF l, d, b, given
  <2>6. /\ l \in RowCounts
        /\ \A row \in A!Rows : l[row] = d[row] + aPending[row] - IF b THEN given[row] ELSE 0
        /\ Total(l, A!Rows) = Total(d, A!Rows) + Total(aPending, A!Rows)
             - IF b THEN Total(given, A!Rows) ELSE 0
    BY <2>1, <2>2, <2>3, <2>4, ListedRows
  <2> QED
    BY <2>5, <2>6 DEF l, d, given
<1>11. RowsAddUp'
  <2>1. /\ from <= aSaving.state.total /\ aSaving.state.total <= aState.total
        /\ Total(aDb.rows, A!Rows) + Total(aSaving.rows, A!Rows) = aSaving.state.total - from
        /\ Total(A!Listed, A!Rows) = aState.total - from
        /\ from <= aState.total
    BY <1>1, <1>2 DEF RowsAddUp
  <2>2. Total(A!Listed', A!Rows) = aState.total - from
    BY <1>3, <1>8, <1>9, <1>10, <2>1
  <2> QED
    BY <1>2, <1>3, <1>4, <1>8, <2>1, <2>2 DEF RowsAddUp
<1>12. NoneTwice'
  <2>1. LessDue(Due, open, app, Due, open, app)
    <3>1. IsFiniteSet(DOMAIN open) /\ \A c \in DOMAIN open : Due[c] \in Nat
      BY <1>1, Connected, DueIs
    <3> QED
      BY <3>1 DEF LessDue
  <2>2. aState.cleared \in RowCounts /\ aRelayed \in RowCounts /\ aSaving.state.cleared \in RowCounts
    BY <1>1, StateFields
  <2>3. Covered(A!Listed', aState.cleared, Due, open, app, aRelayed)
    <3> DEFINE l == A!Listed'
    <3>1. \A a \in Apps : l[a] + aState.cleared[a] <= A!Listed[a] + aState.cleared[a]
      <4>1. \A a \in Apps : /\ a \in A!Rows /\ aState.cleared[a] \in Nat
                            /\ l[a] \in Nat /\ A!Listed[a] \in Nat /\ aDb'.rows[a] \in Nat
        BY <1>3, <1>9, <1>10, <2>2, AppConstants DEF RowCounts
      <4>2. \A a \in Apps : l[a] <= A!Listed[a]
        BY <1>3, <1>8, <1>9, <1>10, <4>1
      <4> QED
        BY <4>1, <4>2
    <3>2. Total(l, A!Rows) - l[A!Unattributed] <= Total(A!Listed, A!Rows) - A!Listed[A!Unattributed]
      <4>1. l[A!Unattributed] = A!Listed[A!Unattributed] /\ A!Listed[A!Unattributed] \in Nat
        <5>1. A!Unattributed \in A!Rows
          BY AppConstants
        <5>2. A!Listed[A!Unattributed] \in Nat
          BY <1>9, <5>1 DEF RowCounts
        <5> QED
          BY <1>3, <1>8, <1>9, <1>10, <5>1, <5>2
      <4>2. Total(l, A!Rows) = Total(A!Listed, A!Rows)
        BY <1>3, <1>8, <1>9, <1>10
      <4>3. Total(A!Listed, A!Rows) \in Nat
        BY <1>8, <1>9
      <4> QED
        BY <4>1, <4>2, <4>3
    <3>3. l \in RowCounts
      BY <1>10
    <3>4. Covered(A!Listed, aState.cleared, Due, open, app, aRelayed)
      BY <1>1 DEF NoneTwice
    <3> HIDE DEF l
    <3>5. Covered(l, aState.cleared, Due, open, app, aRelayed)
      BY <1>9, <2>1, <2>2, <3>1, <3>2, <3>3, <3>4, CoveredRows
    <3> QED
      BY <3>5 DEF l
  <2>4. Covered(aDb'.rows, aSaving.state.cleared, Anew(aSaving.state, open, aGeneration), open, app, aRelayed)
    <3> DEFINE d == aDb'.rows
               p == A!Plus(aDb.rows, aSaving.rows)
               e == Anew(aSaving.state, open, aGeneration)
               cleared == aSaving.state.cleared
    <3>1. /\ p \in RowCounts /\ (\A row \in A!Rows : p[row] = aDb.rows[row] + aSaving.rows[row])
          /\ Total(p, A!Rows) = Total(aDb.rows, A!Rows) + Total(aSaving.rows, A!Rows)
      BY <1>8, PlusTotal
    <3>2. \A a \in Apps : d[a] + cleared[a] <= p[a] + cleared[a]
      <4>1. \A a \in Apps : a \in A!Rows /\ cleared[a] \in Nat /\ d[a] \in Nat /\ p[a] \in Nat
        BY <1>3, <2>2, <3>1, AppConstants DEF RowCounts
      <4>2. \A a \in Apps : d[a] <= p[a]
        <5> HIDE DEF p
        <5> QED
          BY <1>3, <3>1, <4>1
      <4> QED
        BY <4>1, <4>2
    <3>3. Total(d, A!Rows) - d[A!Unattributed] <= Total(p, A!Rows) - p[A!Unattributed]
      <4> HIDE DEF p
      <4>1. d[A!Unattributed] = p[A!Unattributed] /\ Total(d, A!Rows) = Total(p, A!Rows)
        BY <1>3, <3>1, AppConstants
      <4>2. Total(p, A!Rows) \in Nat /\ p[A!Unattributed] \in Nat
        BY <3>1, RowsTotal, AppConstants
      <4> QED
        BY <4>1, <4>2
    <3>4. d \in RowCounts /\ cleared \in RowCounts
      BY <1>3, <2>2
    <3>5. Covered(p, cleared, e, open, app, aRelayed)
      BY <1>1, <1>2 DEF NoneTwice
    <3>6. LessDue(e, open, app, e, open, app)
      <4>1. IsFiniteSet(DOMAIN open) /\ \A c \in DOMAIN open : open[c] \in Nat
        BY <1>1, Connected
      <4>2. \A c \in DOMAIN open : e[c] \in Nat
        BY <4>1, AnewFields
      <4> HIDE DEF e
      <4> QED
        BY <4>1, <4>2 DEF LessDue
    <3> HIDE DEF d, p, e, cleared
    <3>7. Covered(d, cleared, e, open, app, aRelayed)
      BY <2>2, <3>1, <3>2, <3>3, <3>4, <3>5, <3>6, CoveredRows
    <3> QED
      BY <3>7 DEF d, e, cleared
  <2> QED
    BY <1>2, <1>4, <1>6, <2>3, <2>4 DEF NoneTwice
<1> QED
  BY <1>5, <1>7, <1>11, <1>12 DEF AppInv

\* A save that ends, saved or not, leaves what is listed as it was.
LEMMA SavingEnds ==
  ASSUME AppInv, aSaving' = A!NotSaving, aPending' \in RowCounts, A!Listed' = A!Listed,
         UNCHANGED <<aGeneration, aCount, open, app, aRelayed, aState, active, seeded, aDb, from>>
  PROVE  AppInv'
<1>1. AppTypes /\ CoreCounts /\ RowsAddUp /\ NoneTwice
  BY DEF AppInv
<1>2. /\ aSaving'.pc = "idle" /\ aSaving'.state = A!FreshState
      /\ A!FreshState.generation = 0 /\ A!FreshState.last = 0
      /\ aSaving' \in [pc : {"idle", "snapshot", "committed"}, state : States, rows : RowCounts]
  <2>1. A!FreshState \in States
    BY NoRowsTotal DEF A!FreshState, States
  <2> QED
    BY <2>1, NoRowsTotal DEF A!NotSaving, A!FreshState
<1>3. AppTypes'
  BY <1>1, <1>2 DEF AppTypes
<1>4. Due' = Due
  <2>1. (A!Restarted' <=> A!Restarted) /\ (A!SeedOnly' <=> A!SeedOnly)
    BY DEF A!Restarted, A!SeedOnly
  <2>2. \A c \in DOMAIN open : A!Since(c)' = A!Since(c)
    BY <2>1 DEF A!Since
  <2> QED
    BY <2>2 DEF Due
<1>5. CoreCounts'
  <2>1. Baseline(aSaving.state, aGeneration, aCount)'
    <3>1. aGeneration \in Nat /\ aCount \in Nat
      BY <1>1, StateFields
    <3> QED
      BY <1>2, <3>1 DEF Baseline
  <2> QED
    BY <1>1, <1>4, <2>1 DEF CoreCounts
<1>6. RowsAddUp'
  BY <1>1, <1>2 DEF RowsAddUp
<1>7. NoneTwice'
  BY <1>1, <1>2, <1>4 DEF NoneTwice
<1> QED
  BY <1>3, <1>5, <1>6, <1>7 DEF AppInv

LEMMA SaveFailsKeeps ==
  ASSUME AppInv, A!SaveFails
  PROVE  AppInv'
<1>1. /\ aSaving.pc = "snapshot" /\ aSaving' = A!NotSaving
      /\ UNCHANGED <<aGeneration, aCount, open, app, aRelayed, aState, active, seeded, aPending, aDb, from>>
  BY DEF A!SaveFails, A!core
<1>2. aSaving'.pc = "idle"
  BY <1>1 DEF A!NotSaving
<1>3. aPending' \in RowCounts
  BY <1>1, StateFields DEF AppInv
<1>4. A!Listed' = A!Listed
  BY <1>1, <1>2 DEF A!Listed
<1> QED
  BY <1>1, <1>3, <1>4, SavingEnds

LEMMA SaveFinishKeeps ==
  ASSUME AppInv, A!SaveFinish
  PROVE  AppInv'
<1>1. /\ aSaving.pc = "committed" /\ aSaving' = A!NotSaving
      /\ aPending' = [row \in A!Rows |-> A!Max({0, aPending[row] - aSaving.rows[row]})]
      /\ UNCHANGED <<aGeneration, aCount, open, app, aRelayed, aState, active, seeded, aDb, from>>
  BY DEF A!SaveFinish, A!core
<1>2. aSaving'.pc = "idle"
  BY <1>1 DEF A!NotSaving
<1>3. \A row \in A!Rows : /\ aPending[row] \in Nat /\ aSaving.rows[row] \in Nat /\ aDb.rows[row] \in Nat
                          /\ aSaving.rows[row] <= aPending[row]
  BY <1>1, StateFields DEF AppInv, RowsAddUp, RowCounts
<1>4. ASSUME NEW row \in A!Rows
      PROVE  aPending'[row] = aPending[row] - aSaving.rows[row] /\ aPending'[row] \in Nat
  <2> DEFINE x == aPending[row] - aSaving.rows[row]
  <2>1. x \in Nat
    BY <1>3
  <2>2. aPending'[row] = A!Max({0, x})
    BY <1>1
  <2> HIDE DEF x
  <2>3. aPending'[row] = x /\ aPending'[row] \in Nat
    BY <2>1, <2>2, MaxIs
  <2> QED
    BY <2>3 DEF x
<1>5. aPending' \in RowCounts
  BY <1>1, <1>4 DEF RowCounts
<1>6. A!Listed' = A!Listed
  <2>1. A!Listed' = [row \in A!Rows |-> aDb.rows[row] + aPending'[row] - 0]
    BY <1>1, <1>2 DEF A!Listed
  <2>2. A!Listed = [row \in A!Rows |-> aDb.rows[row] + aPending[row] - aSaving.rows[row]]
    BY <1>1 DEF A!Listed
  <2>3. \A row \in A!Rows : aDb.rows[row] + aPending'[row] - 0 = aDb.rows[row] + aPending[row] - aSaving.rows[row]
    BY <1>3, <1>4
  <2> QED
    BY <2>1, <2>2, <2>3
<1> QED
  BY <1>1, <1>5, <1>6, SavingEnds

LEMMA ClearKeeps ==
  ASSUME AppInv, A!ClearAppTraffic
  PROVE  AppInv'
<1>1. AppTypes /\ CoreCounts /\ RowsAddUp /\ NoneTwice
  BY DEF AppInv
<1>2. /\ aSaving.pc = "idle" /\ aDb' = [aDb EXCEPT !.rows = A!NoRows] /\ aPending' = A!NoRows
      /\ from' = aState.total
      /\ aState' = [aState EXCEPT !.cleared = A!Plus(@, A!Plus(aDb.rows, aPending))]
      /\ UNCHANGED <<aGeneration, aCount, open, app, aRelayed, active, seeded, aSaving>>
  BY DEF A!ClearAppTraffic, A!core
<1> DEFINE gone == A!Plus(aDb.rows, aPending)
           cleared == A!Plus(aState.cleared, gone)
<1>3. /\ aDb \in [state : States, rows : RowCounts]
      /\ aState \in [total : Nat, last : Nat, generation : Nat, cleared : RowCounts]
      /\ aDb.rows \in RowCounts /\ aPending \in RowCounts /\ aState.cleared \in RowCounts
      /\ aRelayed \in RowCounts /\ aDb.state \in States /\ aDb.state.cleared \in RowCounts
      /\ aDb.state.total \in Nat /\ aState.total \in Nat
  <2>1. /\ aDb \in [state : States, rows : RowCounts]
        /\ aState \in [total : Nat, last : Nat, generation : Nat, cleared : RowCounts]
    BY <1>1 DEF AppTypes, States
  <2> QED
    BY <1>1, <2>1, StateFields
<1>4. gone \in RowCounts /\ \A row \in A!Rows : gone[row] = aDb.rows[row] + aPending[row]
  BY <1>3, PlusTotal
<1> HIDE DEF gone
<1>5. cleared \in RowCounts /\ \A row \in A!Rows : cleared[row] = aState.cleared[row] + gone[row]
  BY <1>3, <1>4, PlusTotal
<1>6. /\ aState' = [aState EXCEPT !.cleared = cleared] /\ aState'.cleared = cleared
      /\ aState'.total = aState.total /\ aState'.last = aState.last
      /\ aState'.generation = aState.generation /\ aState' \in States
  <2>1. aState' = [aState EXCEPT !.cleared = cleared]
    BY <1>2 DEF gone
  <2> HIDE DEF cleared
  <2> QED
    BY <1>3, <1>5, <2>1 DEF States
<1>7. /\ aDb'.rows = A!NoRows /\ aDb'.state = aDb.state /\ aDb' \in [state : States, rows : RowCounts]
  BY <1>2, <1>3, NoRowsTotal
<1>8. AppTypes'
  <2>1. from' \in Nat /\ aPending' \in RowCounts
    BY <1>2, <1>3, NoRowsTotal
  <2> QED
    BY <1>1, <1>2, <1>6, <1>7, <2>1 DEF AppTypes
<1>9. Due' = Due
  <2>1. (A!Restarted' <=> A!Restarted) /\ (A!SeedOnly' <=> A!SeedOnly)
    BY <1>2, <1>6 DEF A!Restarted, A!SeedOnly
  <2>2. \A c \in DOMAIN open : A!Since(c)' = A!Since(c)
    BY <1>2, <2>1 DEF A!Since
  <2> QED
    BY <1>2, <2>2 DEF Due
<1>10. CoreCounts'
  BY <1>1, <1>2, <1>6, <1>7, <1>9 DEF CoreCounts, Baseline
<1>11. A!Listed' = A!NoRows
  <2>1. A!Listed' = [row \in A!Rows |-> A!NoRows[row] + A!NoRows[row] - 0]
    BY <1>2, <1>7 DEF A!Listed
  <2>2. \A row \in A!Rows : A!NoRows[row] + A!NoRows[row] - 0 = 0
    BY NoRowsTotal
  <2> QED
    BY <2>1, <2>2 DEF A!NoRows
<1>12. RowsAddUp'
  <2>1. aDb.state.total <= aState.total
    BY <1>1 DEF RowsAddUp
  <2>2. Total(aDb'.rows, A!Rows) = 0 /\ Total(A!Listed', A!Rows) = 0
    BY <1>7, <1>11, NoRowsTotal
  <2>3. from' = aState'.total /\ aDb'.state.total <= aState'.total /\ aState'.total \in Nat
        /\ aDb'.state.total \in Nat
    BY <1>2, <1>3, <1>6, <1>7, <2>1
  <2>4. Total(aDb'.rows, A!Rows) = IF from' <= aDb'.state.total THEN aDb'.state.total - from' ELSE 0
    BY <2>2, <2>3
  <2> QED
    BY <1>2, <2>2, <2>3, <2>4 DEF RowsAddUp
<1>13. NoneTwice'
  <2>1. /\ A!Listed \in RowCounts
        /\ \A row \in A!Rows : A!Listed[row] = gone[row]
    <3>1. /\ A!Listed \in RowCounts
          /\ \A row \in A!Rows : A!Listed[row] = aDb.rows[row] + aPending[row] - 0
      BY <1>1, <1>2, ListedIs
    <3>2. \A row \in A!Rows : aDb.rows[row] \in Nat /\ aPending[row] \in Nat
      BY <1>3 DEF RowCounts
    <3> QED
      BY <1>4, <3>1, <3>2
  <2>2. IsFiniteSet(DOMAIN open) /\ \A c \in DOMAIN open : Due[c] \in Nat /\ open[c] \in Nat
    BY <1>1, Connected, DueIs
  <2>3. LessDue(Due, open, app, Due, open, app)
    BY <2>2 DEF LessDue
  <2>4. /\ A!NoRows \in RowCounts /\ (\A row \in A!Rows : A!NoRows[row] = 0)
        /\ Total(A!NoRows, A!Rows) = 0 /\ A!Unattributed \in A!Rows /\ Apps \subseteq A!Rows
    BY NoRowsTotal, AppConstants
  <2>5. ASSUME NEW rows \in RowCounts
        PROVE  Total(A!NoRows, A!Rows) - A!NoRows[A!Unattributed] <= Total(rows, A!Rows) - rows[A!Unattributed]
    <3>1. /\ Total(rows, A!Rows) \in Nat /\ rows[A!Unattributed] \in Nat
          /\ rows[A!Unattributed] <= Total(rows, A!Rows)
      BY <2>4, RowsTotal
    <3> QED
      BY <2>4, <3>1
  <2> HIDE DEF cleared
  <2>6. Covered(A!NoRows, cleared, Due, open, app, aRelayed)
    <3>1. \A a \in Apps : A!NoRows[a] + cleared[a] <= A!Listed[a] + aState.cleared[a]
      <4>1. \A a \in Apps : a \in A!Rows /\ aState.cleared[a] \in Nat /\ gone[a] \in Nat
        BY <1>3, <1>4, <2>4 DEF RowCounts
      <4> QED
        BY <1>5, <2>1, <2>4, <4>1
    <3>2. Covered(A!Listed, aState.cleared, Due, open, app, aRelayed)
      BY <1>1 DEF NoneTwice
    <3> QED
      BY <1>3, <1>5, <2>1, <2>3, <2>4, <2>5, <3>1, <3>2, CoveredRows
  <2>7. Covered(A!NoRows, aDb.state.cleared, Anew(aDb.state, open, aGeneration), open, app, aRelayed)
    <3> DEFINE e == Anew(aDb.state, open, aGeneration)
               old == aDb.state.cleared
    <3>1. LessDue(e, open, app, e, open, app)
      <4>1. \A c \in DOMAIN open : e[c] \in Nat
        BY <2>2, AnewFields
      <4> HIDE DEF e
      <4> QED
        BY <2>2, <4>1 DEF LessDue
    <3>2. \A a \in Apps : A!NoRows[a] + old[a] <= aDb.rows[a] + old[a]
      <4>1. \A a \in Apps : a \in A!Rows /\ old[a] \in Nat /\ aDb.rows[a] \in Nat
        BY <1>3, <2>4 DEF RowCounts
      <4> QED
        BY <2>4, <4>1
    <3>3. Covered(aDb.rows, old, e, open, app, aRelayed)
      BY <1>1 DEF NoneTwice
    <3>4. old \in RowCounts
      BY <1>3
    <3> HIDE DEF e, old
    <3>5. Covered(A!NoRows, old, e, open, app, aRelayed)
      BY <1>3, <2>4, <2>5, <3>1, <3>2, <3>3, <3>4, CoveredRows
    <3> QED
      BY <3>5 DEF e, old
  <2> QED
    BY <1>2, <1>6, <1>7, <1>9, <1>11, <2>6, <2>7 DEF NoneTwice
<1> QED
  BY <1>8, <1>10, <1>12, <1>13 DEF AppInv

LEMMA PanelRestartKeeps ==
  ASSUME AppInv, A!PanelRestart
  PROVE  AppInv'
<1>1. AppTypes /\ CoreCounts /\ RowsAddUp /\ NoneTwice
  BY DEF AppInv
<1>2. /\ aState' = aDb.state /\ DOMAIN active' = {} /\ seeded' = FALSE /\ aPending' = A!NoRows
      /\ aSaving' = A!NotSaving /\ from' = A!Min({from, aDb.state.total})
      /\ UNCHANGED <<aGeneration, aCount, open, app, aRelayed, aDb>>
  BY DEF A!PanelRestart, A!core, A!NoConnections
<1>3. /\ from \in Nat /\ aDb.state \in States /\ aDb.state.total \in Nat /\ aDb.state.last \in Nat
      /\ aDb.state.generation \in Nat
      /\ aDb.rows \in RowCounts /\ aGeneration \in Nat /\ aCount \in Nat /\ aDb.state.cleared \in RowCounts
      /\ aRelayed \in RowCounts
  <2>1. aDb.state \in States
    BY <1>1 DEF AppTypes
  <2> QED
    BY <1>1, <2>1, StateFields
<1>4. from' = IF from <= aDb.state.total THEN from ELSE aDb.state.total
  <2> DEFINE x == aDb.state.total
             m == IF from <= x THEN from ELSE x
  <2>1. x \in Nat /\ m \in {from, x} /\ \A y \in {from, x} : m <= y
    BY <1>3
  <2>2. \A n \in {from, x} : (\A y \in {from, x} : n <= y) => n = m
    BY <1>3
  <2>3. A!Min({from, x}) = m
    <3> HIDE DEF m, x
    <3> QED
      BY <2>1, <2>2 DEF A!Min
  <2> QED
    BY <1>2, <2>3
<1>5. /\ aSaving'.pc = "idle" /\ aSaving'.state = A!FreshState
      /\ A!FreshState.generation = 0 /\ A!FreshState.last = 0
      /\ aSaving' \in [pc : {"idle", "snapshot", "committed"}, state : States, rows : RowCounts]
  <2>1. A!FreshState \in States
    BY NoRowsTotal DEF A!FreshState, States
  <2> QED
    BY <1>2, <2>1, NoRowsTotal DEF A!NotSaving, A!FreshState
<1>6. AppTypes'
  <2>1. from' \in Nat /\ aPending' \in RowCounts
    BY <1>2, <1>3, <1>4, NoRowsTotal
  <2> QED
    BY <1>1, <1>2, <1>3, <1>5, <2>1 DEF AppTypes
<1>7. CoreCounts'
  <2>1. Baseline(aSaving.state, aGeneration, aCount)'
    BY <1>2, <1>3, <1>5 DEF Baseline
  <2> QED
    BY <1>1, <1>2, <2>1 DEF CoreCounts
<1>8. A!Listed' = aDb.rows
  <2>1. A!Listed' = [row \in A!Rows |-> aDb.rows[row] + A!NoRows[row] - 0]
    BY <1>2, <1>5 DEF A!Listed
  <2>2. \A row \in A!Rows : aDb.rows[row] + A!NoRows[row] - 0 = aDb.rows[row]
    BY <1>3, NoRowsTotal DEF RowCounts
  <2>3. aDb.rows = [row \in A!Rows |-> aDb.rows[row]]
    BY <1>3 DEF RowCounts
  <2> QED
    BY <2>1, <2>2, <2>3
<1>9. RowsAddUp'
  <2>1. Total(aDb.rows, A!Rows) = IF from <= aDb.state.total THEN aDb.state.total - from ELSE 0
    BY <1>1 DEF RowsAddUp
  <2>2. from' <= aDb.state.total /\ from' \in Nat
    BY <1>3, <1>4
  <2>3. Total(aDb.rows, A!Rows) = aDb.state.total - from'
    BY <1>3, <1>4, <2>1
  <2>4. aState'.total = aDb.state.total /\ aDb'.state.total = aDb.state.total /\ aDb'.rows = aDb.rows
    BY <1>2
  <2> QED
    BY <1>3, <1>5, <1>8, <2>2, <2>3, <2>4 DEF RowsAddUp
<1>10. NoneTwice'
  <2> DEFINE e == Anew(aDb.state, open, aGeneration)
  <2>1. Covered(aDb.rows, aDb.state.cleared, e, open, app, aRelayed)
    BY <1>1 DEF NoneTwice
  <2>2. IsFiniteSet(DOMAIN open) /\ \A c \in DOMAIN open : open[c] \in Nat
    BY <1>1, Connected
  <2>3. /\ \A c \in DOMAIN open : e[c] \in Nat
        /\ \A c \in DOMAIN open : Due'[c] \in Nat /\ Due'[c] <= e[c]
    <3>1. ASSUME NEW c \in DOMAIN open
          PROVE  e[c] \in Nat /\ Due'[c] \in Nat /\ Due'[c] <= e[c]
      <4>1. Due'[c] = A!Since(c)'
        BY <1>2 DEF Due
      <4>2. open[c] \in Nat /\ c \notin DOMAIN active'
        BY <1>2, <2>2
      <4>3. Baseline(aDb.state, aGeneration, aCount)
        BY <1>1 DEF CoreCounts
      <4>4. A!Restarted' <=> aDb.state.generation # 0 /\ aGeneration # aDb.state.generation
        BY <1>2, <1>3, <4>3 DEF A!Restarted, Baseline
      <4>5. CASE aDb.state.generation # aGeneration \/ aDb.state.last = 0
        <5>1. e[c] = open[c]
          BY <4>5, AnewFields
        <5>2. A!Since(c)' = 0 \/ A!Since(c)' = open[c]
          BY <1>2, <4>2 DEF A!Since
        <5> QED
          BY <4>1, <4>2, <5>1, <5>2
      <4>6. CASE ~(aDb.state.generation # aGeneration \/ aDb.state.last = 0)
        <5>1. e[c] = 0
          BY <4>6, AnewFields
        <5>2. A!SeedOnly'
          BY <1>2, <1>3, <4>4, <4>6 DEF A!SeedOnly
        <5>3. A!Since(c)' = 0
          BY <5>2 DEF A!Since
        <5> QED
          BY <4>1, <5>1, <5>3
      <4> QED
        BY <4>5, <4>6
    <3> QED
      BY <3>1
  <2> HIDE DEF e
  <2>4. LessDue(e, open, app, Due', open, app)
    BY <2>2, <2>3 DEF LessDue
  <2>5. \A a \in Apps : aDb.rows[a] + aDb.state.cleared[a] <= aDb.rows[a] + aDb.state.cleared[a]
    <3>1. \A a \in Apps : aDb.rows[a] \in Nat /\ aDb.state.cleared[a] \in Nat
      BY <1>3, AppConstants DEF RowCounts
    <3> QED
      BY <3>1
  <2>6. Total(aDb.rows, A!Rows) - aDb.rows[A!Unattributed] <= Total(aDb.rows, A!Rows) - aDb.rows[A!Unattributed]
    <3>1. Total(aDb.rows, A!Rows) \in Nat /\ aDb.rows[A!Unattributed] \in Nat
      BY <1>3, RowsTotal, AppConstants
    <3> QED
      BY <3>1
  <2>7. Covered(aDb.rows, aDb.state.cleared, Due', open, app, aRelayed)
    BY <1>3, <2>1, <2>4, <2>5, <2>6, CoveredRows
  <2>8. Covered(aDb.rows, aDb.state.cleared, e, open, app, aRelayed)'
    BY <1>2, <2>1 DEF e
  <2> QED
    BY <1>2, <1>5, <1>8, <2>7, <2>8 DEF NoneTwice, e
<1> QED
  BY <1>6, <1>7, <1>9, <1>10 DEF AppInv

-----------------------------------------------------------------------------
(* The applications and the total. *)

LEMMA AppKept == AppInv /\ [A!Next]_aVars => AppInv'
<1> SUFFICES ASSUME AppInv, [A!Next]_aVars PROVE AppInv'
  OBVIOUS
<1>1. ASSUME UNCHANGED aVars PROVE AppInv'
  <2>1. UNCHANGED <<aGeneration, aCount, open, app, aRelayed, aState, active, seeded, aPending, aSaving, aDb, from>>
    BY <1>1 DEF aVars
  <2>2. Due' = Due
    BY <2>1 DEF Due, A!Since, A!SeedOnly, A!Restarted
  <2>3. A!Listed' = A!Listed
    BY <2>1 DEF A!Listed
  <2> QED
    BY <2>1, <2>2, <2>3 DEF AppInv, AppTypes, CoreCounts, RowsAddUp, NoneTwice
<1>2. CASE \E c \in A!Connections : A!Relay(c)
  BY <1>2, RelayKeeps
<1>3. CASE \E c \in A!Connections : A!Close(c)
  BY <1>3, CloseKeeps
<1>4. CASE \E c \in A!Connections : \E a \in Apps : A!Open(c, a)
  BY <1>4, OpenKeeps
<1>5. CASE A!CoreRestart
  BY <1>5, CoreRestartKeeps
<1>6. CASE A!Sample
  BY <1>6, SampleKeeps
<1>7. CASE A!SaveSnapshot
  BY <1>7, SaveSnapshotKeeps
<1>8. CASE A!SaveCommit
  BY <1>8, SaveCommitKeeps
<1>9. CASE A!SaveFails
  BY <1>9, SaveFailsKeeps
<1>10. CASE A!SaveFinish
  BY <1>10, SaveFinishKeeps
<1>11. CASE A!ClearAppTraffic
  BY <1>11, ClearKeeps
<1>12. CASE A!PanelRestart
  BY <1>12, PanelRestartKeeps
<1> QED
  BY <1>1, <1>2, <1>3, <1>4, <1>5, <1>6, <1>7, <1>8, <1>9, <1>10, <1>11, <1>12 DEF A!Next

\* The state invariant says what is promised: types, sums, and no byte given twice.
LEMMA AppPromised == AppInv => A!TypeOK /\ A!SharesAddUp /\ A!AttributedOnce
<1> SUFFICES ASSUME AppInv PROVE A!TypeOK /\ A!SharesAddUp /\ A!AttributedOnce
  OBVIOUS
<1>1. AppTypes /\ CoreCounts /\ RowsAddUp /\ NoneTwice
  BY DEF AppInv
<1>2. A!TypeOK
  <2>1. aCount \in 0..MaxAppBytes
    <3>1. /\ aCount \in Nat /\ Total(aRelayed, A!Rows) \in Nat /\ MaxAppBytes \in Nat
          /\ aCount <= Total(aRelayed, A!Rows) /\ Total(aRelayed, A!Rows) <= MaxAppBytes
      BY <1>1, StateFields, RowsTotal, MCAssumption DEF CoreCounts, A!AppsAssumption
    <3> QED
      BY <3>1
  <2>2. A!IsFiniteSet(DOMAIN active)
    <3>1. IsFiniteSet(DOMAIN active)
      BY <1>1, Connected
    <3> QED
      BY <3>1 DEF A!IsFiniteSet, IsFiniteSet
  <2>3. A!Range(app) \subseteq Apps
    BY <1>1 DEF AppTypes, A!Range
  <2>4. /\ aPending \in [A!Rows -> Nat] /\ aDb.rows \in [A!Rows -> Nat]
        /\ aSaving.pc \in {"idle", "snapshot", "committed"}
    BY <1>1, StateFields DEF AppTypes, RowCounts
  <2> QED
    BY <1>1, <2>1, <2>2, <2>3, <2>4 DEF AppTypes, A!TypeOK
<1>3. A!Listed \in RowCounts /\ A!Sum(A!Listed) = Total(A!Listed, A!Rows)
  BY <1>1, ListedIs, RowsTotal
<1>4. A!SharesAddUp
  BY <1>1, <1>3 DEF RowsAddUp, A!SharesAddUp
<1>5. A!AttributedOnce
  <2>1. /\ IsFiniteSet(DOMAIN open) /\ \A c \in DOMAIN open : Due[c] \in Nat
    BY <1>1, Connected, DueIs
  <2>2. Covered(A!Listed, aState.cleared, Due, open, app, aRelayed)
    BY <1>1 DEF NoneTwice
  <2>3. /\ aRelayed \in RowCounts /\ aState.cleared \in RowCounts
        /\ A!Sum(aRelayed) = Total(aRelayed, A!Rows)
    BY <1>1, StateFields, RowsTotal
  <2>4. ASSUME NEW a \in Apps PROVE A!Listed[a] + aState.cleared[a] <= aRelayed[a]
    <3> DEFINE S == OfApp(open, app, a)
    <3>1. S \in SUBSET DOMAIN open /\ \A c \in S : Due[c] \in Nat
      BY <2>1 DEF OfApp
    <3>2. A!Listed[a] + aState.cleared[a] + Total(Due, S) <= aRelayed[a]
      BY <2>2 DEF Covered
    <3>3. IsFiniteSet(S)
      BY <2>1, <3>1, FS_Subset
    <3> HIDE DEF S
    <3>4. Total(Due, S) \in Nat
      BY <3>1, <3>3, TotalNatural
    <3>5. A!Listed[a] \in Nat /\ aState.cleared[a] \in Nat /\ aRelayed[a] \in Nat
      BY <1>3, <2>3, AppConstants DEF RowCounts
    <3> QED
      BY <3>2, <3>4, <3>5
  <2>5. A!Sum(A!Listed) - A!Listed[A!Unattributed] <= A!Sum(aRelayed)
    <3>1. Total(Due, DOMAIN open) \in Nat
      BY <2>1, TotalNatural
    <3>2. Total(A!Listed, A!Rows) - A!Listed[A!Unattributed] + Total(Due, DOMAIN open)
            <= Total(aRelayed, A!Rows)
      BY <2>2 DEF Covered
    <3>3. /\ Total(A!Listed, A!Rows) \in Nat /\ A!Listed[A!Unattributed] \in Nat
          /\ Total(aRelayed, A!Rows) \in Nat
      BY <1>3, <2>3, RowsTotal, AppConstants
    <3> QED
      BY <1>3, <2>3, <3>1, <3>2, <3>3
  <2> QED
    BY <2>4, <2>5 DEF A!AttributedOnce
<1> QED
  BY <1>2, <1>4, <1>5

\* The applications, "other" and "unattributed" add up to the proxy total since the last
\* clear, and no byte of a connection is attributed twice (recordConnections, persist).
THEOREM SharesAlwaysAddUp == MCSpec => []SharesAddUp
<1> DEFINE AppsHold == scene = "apps" => AppInv
<1>1. MCInit => AppsHold
  <2>1. MaxGeneration >= 1
    BY BoundsAssumption
  <2> QED
    BY <2>1, AppInitially DEF MCInit
<1>2. AppsHold /\ [MCNext]_<<scene, vars, aVars, fVars>> => AppsHold'
  <2> SUFFICES ASSUME AppsHold, [MCNext]_<<scene, vars, aVars, fVars>>, scene' = "apps" PROVE AppInv'
    OBVIOUS
  <2>1. scene = "apps" /\ [A!Next]_aVars
    BY DEF MCNext
  <2> QED
    BY <2>1, AppKept
<1>3. AppsHold => SharesAddUp
  BY AppPromised DEF SharesAddUp
<1>4. MCSpec => []AppsHold
  <2> HIDE DEF AppsHold
  <2> QED
    BY <1>1, <1>2, PTL DEF MCSpec
<1> QED
  <2> HIDE DEF AppsHold
  <2> QED
    BY <1>3, <1>4, PTL
=============================================================================
