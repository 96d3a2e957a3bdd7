---------------------- MODULE GatewayAccountingProofs ----------------------
(***************************************************************************)
(* What GatewayAccounting's runs check on small instances, for any gateways, *)
(* addresses and bounds.                                                   *)
(***************************************************************************)
EXTENDS GatewayAccounting, FiniteSetTheorems, TLAPS

-----------------------------------------------------------------------------
(* The sequences that Plan and Reborn make of finite sets.                 *)

LEMMA SeqOfSet ==
  ASSUME NEW S, IsFiniteSet(S)
  PROVE  /\ Cardinality(S) \in Nat
         /\ SetToSeq(S) \in Seq(S)
         /\ Len(SetToSeq(S)) = Cardinality(S)
         /\ \A i, j \in 1..Len(SetToSeq(S)) : SetToSeq(S)[i] = SetToSeq(S)[j] => i = j
         /\ Range(SetToSeq(S)) = S
<1> DEFINE n == Cardinality(S)
<1>1. n \in Nat /\ ExistsBijection(1..n, S)
  BY FS_CardinalityType
<1>2. PICK b \in Bijection(1..n, S) : TRUE
  BY <1>1 DEF ExistsBijection
<1>3. b \in [1..n -> S] /\ IsInjective(b)
  BY <1>2 DEF Bijection, Injection, IsInjective
<1>4. SetToSeq(S) \in [1..n -> S] /\ IsInjective(SetToSeq(S))
  BY <1>3 DEF SetToSeq
<1> DEFINE s == SetToSeq(S)
<1>5. s \in Injection(1..n, S)
  BY <1>4 DEF Injection, IsInjective
<1>6. IsFiniteSet(1..n) /\ Cardinality(1..n) = n
  BY <1>1, FS_Interval
<1>7. s \in Surjection(1..n, S)
  BY <1>5, <1>6, FS_Injection
<1>8. s \in Seq(S) /\ Len(s) = n
  BY <1>1, <1>4
<1>9. Range(s) = S
  BY <1>4, <1>7 DEF Surjection, Range
<1> QED
  BY <1>1, <1>4, <1>8, <1>9 DEF IsInjective

LEMMA RangeConcat ==
  ASSUME NEW S, NEW s \in Seq(S), NEW t \in Seq(S)
  PROVE  s \o t \in Seq(S) /\ Range(s \o t) = Range(s) \cup Range(t)
<1>1. s \o t \in Seq(S) /\ Len(s \o t) = Len(s) + Len(t)
  OBVIOUS
<1>2. \A i \in 1..Len(s) : (s \o t)[i] = s[i]
  OBVIOUS
<1>3. \A i \in 1..Len(t) : (s \o t)[Len(s) + i] = t[i]
  OBVIOUS
<1>4. \A i \in 1..Len(s) + Len(t) : i \in 1..Len(s) \/ (i - Len(s) \in 1..Len(t) /\ i = Len(s) + (i - Len(s)))
  OBVIOUS
<1>5. Range(s \o t) = {(s \o t)[i] : i \in 1..Len(s) + Len(t)}
      /\ Range(s) = {s[i] : i \in 1..Len(s)} /\ Range(t) = {t[i] : i \in 1..Len(t)}
  BY <1>1 DEF Range
<1>6. Range(s \o t) \subseteq Range(s) \cup Range(t)
  BY <1>2, <1>3, <1>4, <1>5
<1>7. Range(s) \cup Range(t) \subseteq Range(s \o t)
  BY <1>1, <1>2, <1>3, <1>5
<1> QED
  BY <1>1, <1>6, <1>7

LEMMA RangeTail ==
  ASSUME NEW S, NEW s \in Seq(S), s # <<>>
  PROVE  /\ Head(s) \in S /\ Tail(s) \in Seq(S)
         /\ Range(s) = {Head(s)} \cup Range(Tail(s))
<1>1. Range(s) = {s[i] : i \in 1..Len(s)} /\ Range(Tail(s)) = {Tail(s)[i] : i \in 1..Len(Tail(s))}
  BY DEF Range
<1>2. Len(s) \in Nat \ {0} /\ Len(Tail(s)) = Len(s) - 1 /\ Head(s) = s[1]
  OBVIOUS
<1>3. \A i \in 1..(Len(s) - 1) : Tail(s)[i] = s[i + 1]
  OBVIOUS
<1>4. Range(Tail(s)) \subseteq Range(s)
  BY <1>1, <1>2, <1>3
<1>5. \A i \in 1..Len(s) : i = 1 \/ (i - 1 \in 1..(Len(s) - 1) /\ s[i] = Tail(s)[i - 1])
  BY <1>2, <1>3
<1>6. Range(s) \subseteq {Head(s)} \cup Range(Tail(s))
  <2>1. ASSUME NEW i \in 1..Len(s) PROVE s[i] \in {Head(s)} \cup Range(Tail(s))
    <3>1. CASE i = 1
      BY <1>2, <3>1
    <3>2. CASE i - 1 \in 1..(Len(s) - 1) /\ s[i] = Tail(s)[i - 1]
      BY <1>1, <1>2, <3>2, Zenon
    <3> QED
      BY <1>5, <3>1, <3>2
  <2> QED
    BY <1>1, <2>1, Zenon
<1> QED
  BY <1>1, <1>2, <1>4, <1>6

\* An image of a finite set is finite: the form needed here.
LEMMA FiniteImage ==
  ASSUME NEW S, NEW T, NEW f \in [S -> T], IsFiniteSet(S)
  PROVE  IsFiniteSet(Range(f))
<1> DEFINE U == Range(f)
<1>1. f \in [S -> U]
  BY DEF Range
<1>2. f \in Surjection(S, U)
  BY <1>1 DEF Surjection, Range
<1> QED
  BY <1>2, FS_Surjection

-----------------------------------------------------------------------------
(* The inductive invariant.  The books are sound when every baseline agrees *)
(* with the counter it was taken from, and a counter no baseline knows has *)
(* not been credited: only then can a delta neither repeat nor lose a byte. *)

\* The rules R are told apart by their lives, by their generations, and by
\* what they count.
Apart(R, last) ==
  /\ IsFiniteSet(R)
  /\ R \subseteq [gw : Gateways, dir : Dirs, peer : Peers, gen : Lives, life : Lives]
  /\ \A r \in R : r.life <= last /\ r.gen <= last
  /\ \A r, s \in R : r.life = s.life \/ r.gen = s.gen => r = s
  /\ \A r, s \in R : r.gw = s.gw /\ r.dir = s.dir /\ r.peer = s.peer => r = s

\* An entry e of gateway g that has a baseline, in the books m.
BaselineOK(m, g, e, d, R, bytes, last, id) ==
  /\ e.life[d] \in 1..last
  /\ e.last[d] <= bytes[e.life[d]]
  /\ m.credited[e.life[d]] + m.skipped[e.life[d]] = e.last[d]
  /\ \A r \in R : r.life = e.life[d] => r.gw = g /\ r.dir = d /\ e.gen[d] = <<id, r.gen>>
  /\ \A r \in R : r.gw = g /\ r.dir = d /\ r.peer = e.peer /\ r.life # e.life[d] =>
       m.credited[r.life] = 0 /\ m.skipped[r.life] = 0

HasBaseline(e) == e # NoEntry /\ e.init

Sound(m, R, bytes, last, id) ==
  /\ \A l \in Lives : l > last => m.credited[l] = 0 /\ m.skipped[l] = 0
  /\ \A l \in Lives : m.credited[l] <= bytes[l]
  /\ \A g \in Gateways : HasBaseline(m.egress[g]) =>
       \A d \in Dirs : BaselineOK(m, g, m.egress[g], d, R, bytes, last, id)

KernelOK ==
  /\ Apart(rules, born)
  /\ jumps \in [Dirs -> [n : Nat, top : BOOLEAN]]
  /\ chains \subseteq Dirs
  /\ counted \in [Lives -> Nat]
  /\ boot \in Nat \ {0} /\ born \in 0..MaxLives

PanelOK ==
  /\ config \in [Gateways -> Drafts] /\ old \in [Gateways -> Drafts]
  /\ mem \in Memories /\ db \in Memories
  /\ pc \in Places /\ kind \in {"sample", "begin", "commit", "reset"}
  /\ {touched, unsaved, astray} \subseteq BOOLEAN
  /\ events \in 0..MaxEvents
  /\ pc = "nothing" => On(config) = {}

Commands == [op : {"chain", "unjump", "jump"}, dir : Dirs]
            \cup [op : {"delete"}, gen : Lives]
            \cup [op : {"append"}, gw : Gateways, dir : Dirs]

AppendsOnce(s) ==
  \A i, j \in 1..Len(s) : s[i].op = "append" /\ s[i] = s[j] => i = j

\* The commands left: no rule is appended that is there, and none twice.
TodoOK ==
  /\ todo \in Seq(Commands)
  /\ pc # "commands" => todo = <<>>
  /\ \A c \in Range(todo) : c.op = "append" =>
       /\ config[c.gw].on
       /\ \A r \in rules : r.gw = c.gw /\ r.dir = c.dir => r.peer # config[c.gw].peer
  /\ AppendsOnce(todo)

BooksOK == /\ Sound(mem, rules, counted, born, boot)
           /\ Sound(db, rules, counted, born, boot)

IInv == KernelOK /\ PanelOK /\ TodoOK /\ BooksOK

-----------------------------------------------------------------------------
(* The books stay sound when the kernel moves: rules go, appear with a      *)
(* counter of their own, or count more.                                     *)

LEMMA EntryTypes ==
  ASSUME NEW m \in Memories, NEW g \in Gateways
  PROVE  /\ m.egress[g] # NoEntry =>
              /\ m.egress[g].init \in BOOLEAN
              /\ m.egress[g].peer \in Peers \cup {"none"}
              /\ m.egress[g].last \in [Dirs -> Nat]
              /\ m.egress[g].gen \in [Dirs -> Stamps]
              /\ m.egress[g].life \in [Dirs -> Lives \cup {0}]
         /\ m.credited \in [Lives -> Nat]
         /\ m.skipped \in [Lives -> Nat]
  BY DEF Memories, Entries

LEMMA BaselineTypes ==
  ASSUME NEW m \in Memories, NEW g \in Gateways, HasBaseline(m.egress[g]), NEW d \in Dirs
  PROVE  m.egress[g].life[d] \in Lives \cup {0} /\ m.egress[g].last[d] \in Nat
<1>1. m.egress[g] # NoEntry
  BY DEF HasBaseline
<1>2. m.egress[g].last \in [Dirs -> Nat] /\ m.egress[g].life \in [Dirs -> Lives \cup {0}]
  BY <1>1, EntryTypes
<1> QED
  BY <1>2

\* A baseline that agrees with its counter is of a life.
LEMMA BaselineLife ==
  ASSUME NEW m \in Memories, NEW g \in Gateways, HasBaseline(m.egress[g]), NEW d \in Dirs,
         NEW R, NEW bytes, NEW last \in Nat, NEW id,
         BaselineOK(m, g, m.egress[g], d, R, bytes, last, id)
  PROVE  m.egress[g].life[d] \in Lives /\ m.egress[g].last[d] \in Nat
<1>1. m.egress[g].life[d] \in 1..last
  BY DEF BaselineOK
<1>2. m.egress[g].life[d] # 0
  BY <1>1
<1> QED
  BY <1>2, BaselineTypes, Zenon

EntryRecords ==
  [status : {"waiting", "healthy", "interrupted", "disabled"}, init : BOOLEAN,
   peer : Peers \cup {"none"}, last : [Dirs -> Nat], gen : [Dirs -> Stamps],
   life : [Dirs -> Lives \cup {0}]]

LEMMA EntryIs ==
  ASSUME PanelOK, NEW g \in Gateways
  PROVE  Entry(g) \in EntryRecords
<1>1. 0 \in Nat /\ <<0, 0>> \in Stamps
  BY DEF Stamps
<1>2. NewEntry \in EntryRecords
  BY <1>1 DEF NewEntry, EntryRecords
<1>3. mem.egress[g] # NoEntry => mem.egress[g] \in EntryRecords
  BY DEF PanelOK, Memories, Entries, EntryRecords
<1> QED
  BY <1>2, <1>3 DEF Entry

LEMMA SoundStable ==
  ASSUME NEW m \in Memories, NEW R, NEW R2,
         NEW bytes \in [Lives -> Nat], NEW bytes2 \in [Lives -> Nat],
         NEW last \in Nat, NEW last2 \in Nat, NEW id, NEW id2,
         Sound(m, R, bytes, last, id),
         last <= last2,
         \A l \in Lives : bytes[l] <= bytes2[l],
         \A r \in R2 : (r \in R /\ id2 = id) \/ (r.life \in Lives /\ r.life > last)
  PROVE  Sound(m, R2, bytes2, last2, id2)
<1>1. \A l \in Lives : l > last2 => m.credited[l] = 0 /\ m.skipped[l] = 0
  BY AccountingAssumption DEF Sound, Lives
<1>2. \A l \in Lives : m.credited[l] <= bytes2[l]
  BY EntryTypes DEF Sound, Memories
<1>3. ASSUME NEW g \in Gateways, HasBaseline(m.egress[g]), NEW d \in Dirs
      PROVE  BaselineOK(m, g, m.egress[g], d, R2, bytes2, last2, id2)
  <2> DEFINE e == m.egress[g]
  <2>1. BaselineOK(m, g, e, d, R, bytes, last, id)
    BY <1>3 DEF Sound
  <2>2. e.life[d] \in Lives /\ e.last[d] \in Nat
    BY <1>3, <2>1, BaselineLife
  <2>3. e.life[d] \in 1..last /\ e.last[d] <= bytes[e.life[d]]
    BY <2>1 DEF BaselineOK
  <2>4. e.life[d] \in 1..last2 /\ e.last[d] <= bytes2[e.life[d]]
    <3>1. bytes[e.life[d]] \in Nat /\ bytes2[e.life[d]] \in Nat /\ bytes[e.life[d]] <= bytes2[e.life[d]]
      BY <2>2
    <3> HIDE DEF e
    <3> QED
      BY <2>2, <2>3, <3>1
  <2>5. \A r \in R2 : r.life = e.life[d] => r \in R /\ id2 = id
    <3> HIDE DEF e
    <3>1. \A r \in R2 : r.life = e.life[d] => ~(r.life > last)
      BY <2>3
    <3> QED
      BY <3>1, Zenon
  <2>6. \A r \in R2 : r \in R \/ (m.credited[r.life] = 0 /\ m.skipped[r.life] = 0)
    BY DEF Sound
  <2> QED
    BY <2>1, <2>4, <2>5, <2>6 DEF BaselineOK
<1> QED
  BY <1>1, <1>2, <1>3 DEF Sound

-----------------------------------------------------------------------------
(* A reading: which rule it takes, and what it writes down for that rule.   *)

\* A complete snapshot holds exactly one rule to read per gateway and direction.
LEMMA RuleOfIs ==
  ASSUME KernelOK, PanelOK, Complete,
         NEW g \in On(config), NEW d \in Dirs
  PROVE  /\ RuleOf(g, d) \in rules
         /\ RuleOf(g, d).gw = g /\ RuleOf(g, d).dir = d
         /\ RuleOf(g, d).peer = config[g].peer
         /\ RuleOf(g, d).life \in 1..born /\ RuleOf(g, d).gen \in 1..born
         /\ RuleOf(g, d).peer \in Peers
         /\ counted[RuleOf(g, d).life] \in Nat
         /\ \A r \in rules : r.gw = g /\ r.dir = d /\ r.peer = config[g].peer =>
                             r = RuleOf(g, d)
<1> DEFINE r0 == RuleOf(g, d)
<1>1. r0 \in rules /\ r0.gw = g /\ r0.dir = d /\ Wanted(r0)
  BY DEF Complete, RuleOf
<1>2. r0 \in [gw : Gateways, dir : Dirs, peer : Peers, gen : Lives, life : Lives]
  BY <1>1 DEF KernelOK, Apart
<1>3. r0.life <= born /\ r0.gen <= born /\ r0.peer = config[g].peer
  BY <1>1 DEF KernelOK, Apart, Wanted
<1>4. born \in Nat /\ r0.life \in 1..MaxLives /\ r0.gen \in 1..MaxLives
  BY <1>2, AccountingAssumption DEF KernelOK, Lives
<1>5. r0.life \in 1..born /\ r0.gen \in 1..born
  BY <1>3, <1>4, AccountingAssumption
<1>6. counted[r0.life] \in Nat
  BY <1>2 DEF KernelOK
<1>7. \A r \in rules : r.gw = g /\ r.dir = d /\ r.peer = config[g].peer => r = r0
  BY <1>1, <1>3 DEF KernelOK, Apart
<1> HIDE DEF r0
<1> QED
  BY <1>1, <1>2, <1>3, <1>5, <1>6, <1>7 DEF r0

LEMMA ReadTyped ==
  ASSUME KernelOK, PanelOK, Complete, NEW g \in On(config)
  PROVE  Read(g) \in Entries
<1>1. config[g].peer \in Peers
  BY DEF PanelOK, On, Drafts, Absent
<1>2. \A d \in Dirs : /\ counted[RuleOf(g, d).life] \in Nat
                      /\ RuleOf(g, d).life \in Lives
                      /\ Generation(RuleOf(g, d)) \in Stamps
  BY SMTT(30), RuleOfIs, AccountingAssumption DEF KernelOK, Generation, Stamps, Lives
<1> QED
  BY <1>1, <1>2 DEF Read, Entries

\* What a reading of rule RuleOf(g, d) makes of the books of its counter.
LEMMA Credit ==
  ASSUME KernelOK, PanelOK, BooksOK, Complete,
         NEW g \in On(config), NEW d \in Dirs
  PROVE  LET l == RuleOf(g, d).life
             c == mem.credited[l] + (IF Continues(g) THEN Gained(g, d) ELSE 0)
             s == IF ~Continues(g) THEN counted[l] - mem.credited[l]
                  ELSE IF Hidden(g, d) THEN Entry(g).last[d] ELSE mem.skipped[l]
         IN /\ c \in Nat /\ s \in Nat
            /\ c <= counted[l]
            /\ c + s = counted[l]
<1> DEFINE l == RuleOf(g, d).life
           e == Entry(g)
           m == mem.egress[g]
           cur == counted[l]
<1>1. l \in Lives /\ cur \in Nat /\ mem.credited[l] \in Nat /\ mem.skipped[l] \in Nat
      /\ mem.credited[l] <= cur
  BY RuleOfIs, EntryTypes DEF KernelOK, PanelOK, BooksOK, Sound, Apart, On
<1>2. CASE ~Continues(g)
  BY <1>1, <1>2
<1>3. CASE Continues(g)
  <2>1. HasBaseline(m) /\ e = m /\ m.peer = config[g].peer
    BY <1>3 DEF Continues, Entry, HasBaseline, NewEntry
  <2>2. g \in Gateways /\ BaselineOK(mem, g, m, d, rules, counted, born, boot)
    BY <2>1 DEF BooksOK, Sound, On
  <2>3. m.life[d] \in Lives /\ m.last[d] \in Nat
    <3>1. mem \in Memories /\ born \in Nat
      BY AccountingAssumption DEF PanelOK, KernelOK
    <3> QED
      BY <2>1, <2>2, <3>1, BaselineLife
  <2>4. CASE l = m.life[d]
    <3>1. m.gen[d] = Generation(RuleOf(g, d))
      BY <2>2, <2>4, RuleOfIs DEF BaselineOK, Generation
    <3>2. m.last[d] <= cur /\ mem.credited[l] + mem.skipped[l] = m.last[d]
      BY <2>2, <2>4 DEF BaselineOK
    <3>3. Gained(g, d) = cur - m.last[d]
      BY <2>1, <2>3, <3>1, <3>2, <1>1 DEF Gained, CounterDelta
    <3>4. ~Hidden(g, d)
      BY <2>1, <2>4 DEF Hidden
    <3> QED
      BY <1>1, <1>3, <2>3, <3>2, <3>3, <3>4
  <2>5. CASE l # m.life[d]
    <3>1. mem.credited[l] = 0 /\ mem.skipped[l] = 0
      <4>1. /\ RuleOf(g, d) \in rules /\ RuleOf(g, d).gw = g /\ RuleOf(g, d).dir = d
            /\ RuleOf(g, d).peer = m.peer
        BY <2>1, RuleOfIs
      <4>2. RuleOf(g, d).life # m.life[d]
        BY <2>5
      <4> QED
        BY <2>2, <4>1, <4>2, Zenon DEF BaselineOK
    <3>2. CASE cur < m.last[d] \/ Generation(RuleOf(g, d)) # m.gen[d]
      <4>1. Gained(g, d) = cur /\ ~Hidden(g, d)
        BY <2>1, <2>3, <3>2, <1>1 DEF Gained, CounterDelta, Hidden
      <4> QED
        BY <4>1, <3>1, <1>1, <1>3
    <3>3. CASE ~(cur < m.last[d] \/ Generation(RuleOf(g, d)) # m.gen[d])
      <4>1. Gained(g, d) = cur - m.last[d] /\ Hidden(g, d) /\ m.last[d] <= cur
        BY <2>1, <2>3, <2>5, <3>3, <1>1 DEF Gained, CounterDelta, Hidden
      <4> QED
        BY <2>1, <2>3, <4>1, <3>1, <1>1, <1>3
    <3> QED
      BY <3>2, <3>3
  <2> QED
    BY <2>4, <2>5
<1> QED
  BY <1>2, <1>3

\* The bytes of a counter that was read are its reader's, the other counters
\* keep theirs.
LEMMA SampledSums ==
  ASSUME KernelOK, PanelOK, BooksOK, NEW ok \in BOOLEAN, ok => Complete
  PROVE  LET S == Sampled(ok)
         IN /\ \A g \in On(config), d \in Dirs : ok =>
                 LET l == RuleOf(g, d).life
                 IN /\ S.credited[l] = mem.credited[l] + (IF Continues(g) THEN Gained(g, d) ELSE 0)
                    /\ S.skipped[l] = IF ~Continues(g) THEN counted[l] - mem.credited[l]
                                      ELSE IF Hidden(g, d) THEN Entry(g).last[d]
                                      ELSE mem.skipped[l]
            /\ \A l \in Lives : (~ok \/ \A g \in On(config), d \in Dirs : RuleOf(g, d).life # l) =>
                 S.credited[l] = mem.credited[l] /\ S.skipped[l] = mem.skipped[l]
<1> DEFINE S == Sampled(ok)
           read == IF ok THEN On(config) \X Dirs ELSE {}
           LifeOf(p) == RuleOf(p[1], p[2]).life
<1>1. \A l \in Lives : S.credited[l] =
        IF \E p \in read : LifeOf(p) = l /\ Continues(p[1])
        THEN LET p == CHOOSE p \in read : LifeOf(p) = l
             IN mem.credited[l] + Gained(p[1], p[2])
        ELSE mem.credited[l]
  BY DEF Sampled
<1>2. \A l \in Lives : S.skipped[l] =
        IF \E p \in read : LifeOf(p) = l /\ ~Continues(p[1])
        THEN counted[l] - mem.credited[l]
        ELSE IF \E p \in read : LifeOf(p) = l /\ Hidden(p[1], p[2])
        THEN LET p == CHOOSE p \in read : LifeOf(p) = l IN Entry(p[1]).last[p[2]]
        ELSE mem.skipped[l]
  BY DEF Sampled
<1>3. ASSUME NEW l \in Lives, \A p \in read : LifeOf(p) # l
      PROVE  S.credited[l] = mem.credited[l] /\ S.skipped[l] = mem.skipped[l]
  BY <1>1, <1>2, <1>3
<1>4. ASSUME ok, NEW p \in read, NEW q \in read, LifeOf(p) = LifeOf(q)
      PROVE  p = q
  <2>1. /\ p = <<p[1], p[2]>> /\ p[1] \in On(config) /\ p[2] \in Dirs
        /\ q = <<q[1], q[2]>> /\ q[1] \in On(config) /\ q[2] \in Dirs
    BY <1>4
  <2>2. /\ RuleOf(p[1], p[2]) \in rules /\ RuleOf(q[1], q[2]) \in rules
        /\ RuleOf(p[1], p[2]).gw = p[1] /\ RuleOf(p[1], p[2]).dir = p[2]
        /\ RuleOf(q[1], q[2]).gw = q[1] /\ RuleOf(q[1], q[2]).dir = q[2]
    BY <2>1, <1>4, RuleOfIs
  <2>3. RuleOf(p[1], p[2]) = RuleOf(q[1], q[2])
    BY <2>2, <1>4 DEF KernelOK, Apart
  <2> QED
    BY <2>1, <2>2, <2>3
<1>5. ASSUME ok, NEW g \in On(config), NEW d \in Dirs
      PROVE  LET l == RuleOf(g, d).life
             IN /\ S.credited[l] = mem.credited[l] + (IF Continues(g) THEN Gained(g, d) ELSE 0)
                /\ S.skipped[l] = IF ~Continues(g) THEN counted[l] - mem.credited[l]
                                  ELSE IF Hidden(g, d) THEN Entry(g).last[d]
                                  ELSE mem.skipped[l]
  <2> DEFINE l == RuleOf(g, d).life
             q == <<g, d>>
  <2>1. q \in read /\ LifeOf(q) = l /\ q[1] = g /\ q[2] = d
    BY <1>5
  <2>2. l \in Lives /\ mem.credited[l] \in Nat
    BY SMTT(30), <1>5, RuleOfIs, AccountingAssumption DEF KernelOK, PanelOK, Lives, Memories
  <2>3. \A p \in read : LifeOf(p) = l => p = q
    BY <1>4, <1>5, <2>1
  <2>4. q = CHOOSE p \in read : LifeOf(p) = l
    BY <2>1, <2>3
  <2> HIDE DEF l, q, read, LifeOf
  <2>5. (\E p \in read : LifeOf(p) = l /\ Continues(p[1])) <=> Continues(g)
    BY <2>1, <2>3
  <2>6. (\E p \in read : LifeOf(p) = l /\ ~Continues(p[1])) <=> ~Continues(g)
    BY <2>1, <2>3
  <2>7. (\E p \in read : LifeOf(p) = l /\ Hidden(p[1], p[2])) <=> Hidden(g, d)
    BY <2>1, <2>3
  <2>8. S.credited[l] = mem.credited[l] + (IF Continues(g) THEN Gained(g, d) ELSE 0)
    BY <1>1, <2>1, <2>2, <2>4, <2>5
  <2>9. S.skipped[l] = IF ~Continues(g) THEN counted[l] - mem.credited[l]
                       ELSE IF Hidden(g, d) THEN Entry(g).last[d] ELSE mem.skipped[l]
    BY <1>2, <2>1, <2>2, <2>4, <2>6, <2>7
  <2> QED
    BY <2>8, <2>9 DEF l
<1>6. ASSUME NEW l \in Lives, ~ok \/ \A g \in On(config), d \in Dirs : RuleOf(g, d).life # l
      PROVE  \A p \in read : LifeOf(p) # l
  BY <1>6
<1> HIDE DEF S, read, LifeOf
<1>7. \A l \in Lives : (~ok \/ \A g \in On(config), d \in Dirs : RuleOf(g, d).life # l) =>
        S.credited[l] = mem.credited[l] /\ S.skipped[l] = mem.skipped[l]
  BY <1>3, <1>6
<1> QED
  BY <1>5, <1>7 DEF S

\* An entry nobody read, but for its status.
SameReading(e, f) ==
  /\ e.init = f.init /\ e.peer = f.peer
  /\ e.last = f.last /\ e.gen = f.gen /\ e.life = f.life

LEMMA SampledEntry ==
  ASSUME KernelOK, PanelOK, NEW ok \in BOOLEAN, ok => Complete, NEW g \in Gateways
  PROVE  /\ Sampled(ok).egress[g] \in Entries
         /\ IF ok /\ g \in On(config)
            THEN Sampled(ok).egress[g] = Read(g)
            ELSE HasBaseline(Sampled(ok).egress[g]) =>
                   HasBaseline(mem.egress[g]) /\ SameReading(Sampled(ok).egress[g], mem.egress[g])
<1> DEFINE e == Sampled(ok).egress[g]
           m == mem.egress[g]
<1>1. e = IF config[g] = Absent THEN mem.egress[g]
          ELSE IF ~config[g].on THEN [Entry(g) EXCEPT !.status = "disabled"]
          ELSE IF ok THEN Read(g)
          ELSE [Entry(g) EXCEPT !.status = "interrupted"]
  BY DEF Sampled
<1>2. m \in Entries /\ Entry(g) \in Entries \ {NoEntry}
  BY AccountingAssumption DEF PanelOK, Memories, Entry, NewEntry, Entries, NoEntry, Stamps
<1>3. \A s \in {"disabled", "interrupted"} :
        /\ [Entry(g) EXCEPT !.status = s] \in Entries
        /\ HasBaseline([Entry(g) EXCEPT !.status = s]) =>
             HasBaseline(m) /\ SameReading([Entry(g) EXCEPT !.status = s], m)
  <2> SUFFICES ASSUME NEW s \in {"disabled", "interrupted"}
               PROVE  /\ [Entry(g) EXCEPT !.status = s] \in Entries
                      /\ HasBaseline([Entry(g) EXCEPT !.status = s]) =>
                           HasBaseline(m) /\ SameReading([Entry(g) EXCEPT !.status = s], m)
    OBVIOUS
  <2>1. CASE m = NoEntry
    <3>1. Entry(g) = NewEntry
      BY <2>1 DEF Entry
    <3>2. [NewEntry EXCEPT !.status = s].init = FALSE
      BY DEF NewEntry
    <3>3. [NewEntry EXCEPT !.status = s] \in Entries
      BY <1>2, <3>1 DEF Entries, NoEntry
    <3> QED
      BY <3>1, <3>2, <3>3 DEF HasBaseline
  <2>2. CASE m # NoEntry
    <3>1. Entry(g) = m
      BY <2>2 DEF Entry
    <3>2. m \in [status : {"waiting", "healthy", "interrupted", "disabled"}, init : BOOLEAN,
                 peer : Peers \cup {"none"}, last : [Dirs -> Nat], gen : [Dirs -> Stamps],
                 life : [Dirs -> Lives \cup {0}]]
      BY <1>2, <2>2 DEF Entries
    <3>3. [m EXCEPT !.status = s] \in Entries /\ SameReading([m EXCEPT !.status = s], m)
      BY <3>2 DEF Entries, SameReading
    <3> QED
      BY <3>1, <3>3, <2>2 DEF HasBaseline, SameReading
  <2> QED
    BY <2>1, <2>2
<1>4. CASE config[g] = Absent
  BY <1>1, <1>2, <1>4 DEF On, Absent, SameReading
<1>5. CASE config[g] # Absent /\ ~config[g].on
  BY <1>1, <1>3, <1>5 DEF On
<1>6. CASE config[g] # Absent /\ config[g].on /\ ~ok
  BY <1>1, <1>3, <1>6 DEF On
<1>7. CASE config[g] # Absent /\ config[g].on /\ ok
  BY <1>1, <1>7, ReadTyped DEF On
<1> QED
  BY <1>4, <1>5, <1>6, <1>7

\* The books are sound after every sample, whether it succeeded or failed.
LEMMA SampledBooks ==
  ASSUME KernelOK, PanelOK, BooksOK, NEW ok \in BOOLEAN, ok => Complete
  PROVE  /\ Sampled(ok) \in Memories
         /\ Sound(Sampled(ok), rules, counted, born, boot)
<1> DEFINE S == Sampled(ok)
           LifeOf(g, d) == RuleOf(g, d).life
           WasRead(l) == ok /\ \E g \in On(config), d \in Dirs : LifeOf(g, d) = l
<1>1. ASSUME NEW l \in Lives, ~WasRead(l)
      PROVE  S.credited[l] = mem.credited[l] /\ S.skipped[l] = mem.skipped[l]
  BY <1>1, SampledSums
<1>2. ASSUME ok, NEW g \in On(config), NEW d \in Dirs
      PROVE  LET l == LifeOf(g, d)
             IN /\ S.credited[l] \in Nat /\ S.skipped[l] \in Nat
                /\ S.credited[l] <= counted[l]
                /\ S.credited[l] + S.skipped[l] = counted[l]
  <2> DEFINE l == LifeOf(g, d)
  <2>1. /\ S.credited[l] = mem.credited[l] + (IF Continues(g) THEN Gained(g, d) ELSE 0)
        /\ S.skipped[l] = IF ~Continues(g) THEN counted[l] - mem.credited[l]
                          ELSE IF Hidden(g, d) THEN Entry(g).last[d] ELSE mem.skipped[l]
    BY <1>2, SampledSums
  <2> QED
    BY <2>1, <1>2, Credit
<1>3. mem \in Memories /\ Sound(mem, rules, counted, born, boot)
  BY DEF PanelOK, BooksOK
<1>4. \A l \in Lives : mem.credited[l] \in Nat /\ mem.skipped[l] \in Nat
  BY <1>3 DEF Memories
<1>5. \A l \in Lives : WasRead(l) => l <= born
  BY RuleOfIs DEF KernelOK
<1>6. \A l \in Lives : S.credited[l] \in Nat /\ S.skipped[l] \in Nat /\ S.credited[l] <= counted[l]
  BY <1>1, <1>2, <1>3, <1>4 DEF Sound
<1>7. S \in Memories
  <2>1. S = [egress |-> S.egress, pending |-> ~ok, credited |-> S.credited, skipped |-> S.skipped]
        /\ S.egress = [g \in Gateways |-> S.egress[g]]
        /\ S.credited = [l \in Lives |-> S.credited[l]]
        /\ S.skipped = [l \in Lives |-> S.skipped[l]]
    <3>1. S = [egress |-> S.egress, pending |-> ~ok, credited |-> S.credited, skipped |-> S.skipped]
      BY SMTT(30) DEF Sampled
    <3>2. S.egress = [g \in Gateways |-> S.egress[g]]
      BY SMTT(60) DEF Sampled
    <3>3. S.credited = [l \in Lives |-> S.credited[l]]
      BY SMTT(60) DEF Sampled
    <3>4. S.skipped = [l \in Lives |-> S.skipped[l]]
      BY SMTT(60) DEF Sampled
    <3> QED
      BY <3>1, <3>2, <3>3, <3>4
  <2>2. \A g \in Gateways : S.egress[g] \in Entries
    BY SampledEntry
  <2>4. (~ok) \in BOOLEAN
    OBVIOUS
  <2> HIDE DEF S
  <2>3. S.egress \in [Gateways -> Entries] /\ S.credited \in [Lives -> Nat] /\ S.skipped \in [Lives -> Nat]
    BY <2>1, <2>2, <1>6
  <2> DEFINE p == ~ok
  <2>5. p \in BOOLEAN /\ S = [egress |-> S.egress, pending |-> p, credited |-> S.credited, skipped |-> S.skipped]
    BY <2>1, <2>4
  <2> HIDE DEF p
  <2> QED
    BY <2>3, <2>5 DEF Memories
<1>8. \A l \in Lives : l > born => S.credited[l] = 0 /\ S.skipped[l] = 0
  <2> SUFFICES ASSUME NEW l \in Lives, l > born PROVE S.credited[l] = 0 /\ S.skipped[l] = 0
    OBVIOUS
  <2>1. ~WasRead(l)
    BY <1>5, AccountingAssumption DEF KernelOK, Lives
  <2> QED
    BY <1>1, <1>3, <2>1 DEF Sound
<1>9. ASSUME NEW g \in Gateways, HasBaseline(S.egress[g]), NEW d \in Dirs
      PROVE  BaselineOK(S, g, S.egress[g], d, rules, counted, born, boot)
  <2>1. CASE ok /\ g \in On(config)
    <3>1. /\ RuleOf(g, d) \in rules /\ RuleOf(g, d).gw = g /\ RuleOf(g, d).dir = d
          /\ LifeOf(g, d) \in 1..born
          /\ \A r \in rules : r.gw = g /\ r.dir = d /\ r.peer = config[g].peer => r = RuleOf(g, d)
      BY <2>1, RuleOfIs
    <3>2. S.egress[g] = Read(g)
      BY <2>1, SampledEntry
    <3>3. /\ S.egress[g].life[d] = LifeOf(g, d) /\ S.egress[g].last[d] = counted[LifeOf(g, d)]
          /\ S.egress[g].gen[d] = <<boot, RuleOf(g, d).gen>> /\ S.egress[g].peer = config[g].peer
      BY <3>2 DEF Read, Generation
    <3>4. \A r \in rules : r.life = LifeOf(g, d) => r = RuleOf(g, d)
      BY <3>1 DEF KernelOK, Apart
    <3>5. S.credited[LifeOf(g, d)] + S.skipped[LifeOf(g, d)] = counted[LifeOf(g, d)]
      BY <1>2, <2>1
    <3> HIDE DEF S, LifeOf, WasRead
    <3>6. \A r \in rules : r.life = LifeOf(g, d) => S.egress[g].gen[d] = <<boot, r.gen>> /\ r.gw = g /\ r.dir = d
      BY <3>1, <3>3, <3>4
    <3>7. \A r \in rules : r.gw = g /\ r.dir = d /\ r.peer = S.egress[g].peer => r.life = LifeOf(g, d)
      BY <3>1, <3>3 DEF LifeOf
    <3>8. counted[LifeOf(g, d)] \in Nat
      BY <2>1, RuleOfIs DEF LifeOf
    <3> QED
      BY <3>1, <3>3, <3>5, <3>6, <3>7, <3>8 DEF BaselineOK
  <2>2. CASE ~(ok /\ g \in On(config))
    <3> DEFINE m == mem.egress[g]
    <3>1. HasBaseline(m) /\ SameReading(S.egress[g], m)
      BY <1>9, <2>2, SampledEntry
    <3>2. BaselineOK(mem, g, m, d, rules, counted, born, boot)
      BY <1>3, <3>1 DEF Sound
    <3>3. ASSUME NEW r \in rules, r.gw = g
          PROVE  r.life \in Lives /\ ~WasRead(r.life)
      <4>1. r.life \in Lives
        BY <3>3 DEF KernelOK, Apart
      <4>2. ASSUME ok, NEW g2 \in On(config), NEW d2 \in Dirs, LifeOf(g2, d2) = r.life
            PROVE  FALSE
        <5>1. RuleOf(g2, d2) \in rules /\ RuleOf(g2, d2).gw = g2
          BY <4>2, RuleOfIs
        <5>2. RuleOf(g2, d2) = r
          BY <5>1, <4>2 DEF KernelOK, Apart
        <5> QED
          BY <5>1, <5>2, <3>3, <4>2, <2>2
      <4> QED
        BY <4>1, <4>2
    <3>4. m.life[d] \in Lives
      <4>1. born \in Nat
        BY AccountingAssumption DEF KernelOK
      <4> QED
        BY <1>3, <3>1, <3>2, <4>1, BaselineLife
    <3>5. ~WasRead(m.life[d])
      <4>1. ASSUME ok, NEW g2 \in On(config), NEW d2 \in Dirs, LifeOf(g2, d2) = m.life[d]
            PROVE  FALSE
        <5>1. RuleOf(g2, d2) \in rules
          BY <4>1, RuleOfIs
        <5>2. RuleOf(g2, d2).gw = g
          BY <5>1, <4>1, <3>2 DEF BaselineOK
        <5> QED
          BY <5>1, <5>2, <3>3, <4>1
      <4> QED
        BY <4>1
    <3> HIDE DEF S, WasRead, m
    <3>6. \A r \in rules : r.gw = g =>
            S.credited[r.life] = mem.credited[r.life] /\ S.skipped[r.life] = mem.skipped[r.life]
      BY <1>1, <3>3
    <3>7. S.credited[m.life[d]] = mem.credited[m.life[d]] /\ S.skipped[m.life[d]] = mem.skipped[m.life[d]]
      BY <1>1, <3>4, <3>5
    <3> QED
      BY <3>1, <3>2, <3>6, <3>7 DEF BaselineOK, SameReading, m
  <2> QED
    BY <2>1, <2>2
<1> HIDE DEF S
<1>10. Sound(S, rules, counted, born, boot)
  BY <1>6, <1>8, <1>9 DEF Sound
<1> QED
  BY <1>7, <1>10 DEF S

-----------------------------------------------------------------------------
(* The commands Sample decides on.                                          *)

ChainCommands == {[op |-> "chain", dir |-> d] : d \in IF On(config) = {} THEN {} ELSE Dirs \ chains}
DeleteCommands == {[op |-> "delete", gen |-> r.gen] : r \in rules \ Kept}
AppendCommands == {[op |-> "append", gw |-> m[1], dir |-> m[2]] : m \in Missing}

LEMMA PlanSets ==
  ASSUME KernelOK, PanelOK
  PROVE  /\ IsFiniteSet(ChainCommands) /\ ChainCommands \subseteq Commands
         /\ IsFiniteSet(DeleteCommands) /\ DeleteCommands \subseteq Commands
         /\ IsFiniteSet(AppendCommands) /\ AppendCommands \subseteq Commands
<1> DEFINE D == IF On(config) = {} THEN {} ELSE Dirs \ chains
           chain == [d \in D |-> [op |-> "chain", dir |-> d]]
           delete == [r \in rules \ Kept |-> [op |-> "delete", gen |-> r.gen]]
           append == [m \in Missing |-> [op |-> "append", gw |-> m[1], dir |-> m[2]]]
<1>1. IsFiniteSet({"tx", "rx"})
  <2>1. IsFiniteSet({"tx"})
    BY FS_Singleton
  <2>2. IsFiniteSet({"tx"} \cup {"rx"})
    BY <2>1, FS_AddElement
  <2>3. {"tx", "rx"} = {"tx"} \cup {"rx"}
    OBVIOUS
  <2> QED
    BY <2>2, <2>3
<1>2. IsFiniteSet(Dirs)
  BY <1>1, FS_Subset, AccountingAssumption
<1>3. IsFiniteSet(D)
  BY <1>2, FS_Subset, FS_EmptySet
<1>4. IsFiniteSet(rules \ Kept)
  BY FS_Subset DEF KernelOK, Apart
<1>5. IsFiniteSet(Gateways \X Dirs)
  BY <1>2, FS_Product, AccountingAssumption
<1>6. Missing \subseteq Gateways \X Dirs
  BY DEF Missing, On
<1>7. IsFiniteSet(Missing)
  BY <1>5, <1>6, FS_Subset
<1>8. \A d \in D : [op |-> "chain", dir |-> d] \in Commands
  BY DEF Commands
<1>9. \A r \in rules \ Kept : [op |-> "delete", gen |-> r.gen] \in Commands
  BY DEF Commands, KernelOK, Apart
<1>10. \A m \in Missing : [op |-> "append", gw |-> m[1], dir |-> m[2]] \in Commands
  BY <1>6 DEF Commands
<1>11. chain \in [D -> Commands] /\ delete \in [rules \ Kept -> Commands] /\ append \in [Missing -> Commands]
  BY <1>8, <1>9, <1>10
<1>12. /\ ChainCommands = Range(chain)
       /\ DeleteCommands = Range(delete)
       /\ AppendCommands = Range(append)
  BY DEF ChainCommands, DeleteCommands, AppendCommands, Range
<1>16. Range(chain) \subseteq Commands /\ Range(delete) \subseteq Commands /\ Range(append) \subseteq Commands
  BY <1>11 DEF Range
<1> HIDE DEF chain, delete, append, D
<1>13. IsFiniteSet(Range(chain))
  BY <1>3, <1>11, FiniteImage
<1>14. IsFiniteSet(Range(delete))
  BY <1>4, <1>11, FiniteImage
<1>15. IsFiniteSet(Range(append))
  BY <1>7, <1>11, FiniteImage
<1> QED
  BY <1>12, <1>13, <1>14, <1>15, <1>16

LEMMA JumpPlan ==
  ASSUME KernelOK, PanelOK, NEW d
  PROVE  /\ JumpCommands(d) \in Seq(Commands)
         /\ Range(JumpCommands(d)) \subseteq [op : {"unjump", "jump"}, dir : {d} \cap Dirs]
<1>1. CASE d \notin Dirs \/ (On(config) # {} /\ jumps[d] = [n |-> 1, top |-> TRUE])
  <2>1. JumpCommands(d) = <<>>
    BY <1>1 DEF JumpCommands
  <2> QED
    BY <2>1 DEF Range
<1>2. CASE ~(d \notin Dirs \/ (On(config) # {} /\ jumps[d] = [n |-> 1, top |-> TRUE]))
  <2> DEFINE k == jumps[d].n
             u == [op |-> "unjump", dir |-> d]
             j == [op |-> "jump", dir |-> d]
             U == Repeat(u, k)
             J == IF On(config) # {} THEN <<j>> ELSE <<>>
             Mine == [op : {"unjump", "jump"}, dir : {d} \cap Dirs]
  <2>1. JumpCommands(d) = U \o J
    BY <1>2 DEF JumpCommands
  <2>2. k \in Nat /\ u \in Mine /\ j \in Mine /\ d \in Dirs
    BY <1>2 DEF KernelOK
  <2> HIDE DEF k, u, j
  <2>3. U \in Seq(Mine)
    BY <2>2 DEF Repeat
  <2>4. <<j>> \in Seq(Mine) /\ <<>> \in Seq(Mine)
    BY <2>2
  <2>5. J \in Seq(Mine)
    BY <2>4
  <2>6. Mine \subseteq Commands
    BY DEF Commands
  <2> HIDE DEF U, J, Mine
  <2>7. U \o J \in Seq(Mine) /\ Range(U \o J) = Range(U) \cup Range(J)
    BY <2>3, <2>5, RangeConcat
  <2>8. Range(U) \subseteq Mine /\ Range(J) \subseteq Mine
    BY <2>3, <2>5 DEF Range
  <2>9. U \in Seq(Commands) /\ J \in Seq(Commands)
    BY <2>3, <2>5, <2>6
  <2>10. U \o J \in Seq(Commands)
    BY <2>9
  <2> QED
    BY <2>1, <2>7, <2>8, <2>10 DEF Mine
<1> QED
  BY <1>1, <1>2

NoAppend(s) == \A c \in Range(s) : c.op # "append"

LEMMA AppendsConcat ==
  ASSUME NEW S, NEW s \in Seq(S), NEW t \in Seq(S),
         AppendsOnce(s), AppendsOnce(t), NoAppend(s) \/ NoAppend(t)
  PROVE  AppendsOnce(s \o t)
<1> SUFFICES ASSUME NEW i \in 1..Len(s \o t), NEW j \in 1..Len(s \o t),
                    (s \o t)[i].op = "append", (s \o t)[i] = (s \o t)[j]
             PROVE  i = j
  BY DEF AppendsOnce
<1>1. Len(s \o t) = Len(s) + Len(t)
  OBVIOUS
<1>2. \A k \in 1..Len(s) : (s \o t)[k] = s[k]
  OBVIOUS
<1>3. \A k \in 1..Len(s) + Len(t) : k > Len(s) =>
        k - Len(s) \in 1..Len(t) /\ (s \o t)[k] = t[k - Len(s)]
  OBVIOUS
<1>4. Len(s) \in Nat /\ Len(t) \in Nat
  OBVIOUS
<1>5. \A k \in 1..Len(s) : s[k] \in Range(s)
  BY DEF Range
<1>6. \A k \in 1..Len(t) : t[k] \in Range(t)
  BY DEF Range
<1>7. CASE i <= Len(s) /\ j <= Len(s)
  BY <1>1, <1>2, <1>4, <1>7 DEF AppendsOnce
<1>8. CASE i > Len(s) /\ j > Len(s)
  BY <1>1, <1>3, <1>4, <1>8 DEF AppendsOnce
<1>9. CASE i <= Len(s) /\ j > Len(s)
  BY SMTT(30), <1>1, <1>2, <1>3, <1>4, <1>5, <1>6, <1>9 DEF NoAppend
<1>10. CASE i > Len(s) /\ j <= Len(s)
  BY <1>1, <1>2, <1>3, <1>4, <1>5, <1>6, <1>10 DEF NoAppend
<1> QED
  BY <1>1, <1>4, <1>7, <1>8, <1>9, <1>10

\* The commands are those meant, and no rule is appended twice.
LEMMA PlanIs ==
  ASSUME KernelOK, PanelOK
  PROVE  /\ Plan \in Seq(Commands)
         /\ Range(Plan) = ChainCommands \cup DeleteCommands \cup AppendCommands
                          \cup Range(JumpCommands("tx")) \cup Range(JumpCommands("rx"))
         /\ AppendsOnce(Plan)
<1> DEFINE c == SetToSeq(ChainCommands)
           d == SetToSeq(DeleteCommands)
           a == SetToSeq(AppendCommands)
           x == JumpCommands("tx")
           y == JumpCommands("rx")
<1>1. Plan = ((((c \o d) \o a) \o x) \o y)
  BY DEF Plan, ChainCommands, DeleteCommands, AppendCommands
<1>2. /\ c \in Seq(Commands) /\ Range(c) = ChainCommands
      /\ d \in Seq(Commands) /\ Range(d) = DeleteCommands
      /\ a \in Seq(Commands) /\ Range(a) = AppendCommands
      /\ AppendsOnce(a)
  BY PlanSets, SeqOfSet DEF AppendsOnce
<1>3. x \in Seq(Commands) /\ y \in Seq(Commands)
  BY JumpPlan
<1>4. NoAppend(c) /\ NoAppend(d) /\ NoAppend(x) /\ NoAppend(y)
  BY <1>2, JumpPlan DEF NoAppend, ChainCommands, DeleteCommands
<1>5. AppendsOnce(c) /\ AppendsOnce(d) /\ AppendsOnce(x) /\ AppendsOnce(y)
  BY <1>4 DEF NoAppend, AppendsOnce, Range
<1> DEFINE cd == c \o d
           cda == cd \o a
           cdax == cda \o x
           cdaxy == cdax \o y
<1> HIDE DEF c, d, a, x, y
<1>6. cd \in Seq(Commands) /\ Range(cd) = Range(c) \cup Range(d)
  BY <1>2, RangeConcat
<1>10. AppendsOnce(cd) /\ NoAppend(cd)
  BY <1>2, <1>4, <1>5, <1>6, AppendsConcat DEF NoAppend
<1> HIDE DEF cd
<1>7. cda \in Seq(Commands) /\ Range(cda) = Range(cd) \cup Range(a)
  BY <1>2, <1>6, RangeConcat
<1>11. AppendsOnce(cda)
  BY <1>2, <1>6, <1>10, AppendsConcat
<1> HIDE DEF cda
<1>8. cdax \in Seq(Commands) /\ Range(cdax) = Range(cda) \cup Range(x)
  BY <1>3, <1>7, RangeConcat
<1>12. AppendsOnce(cdax)
  BY <1>3, <1>4, <1>5, <1>7, <1>11, AppendsConcat
<1> HIDE DEF cdax
<1>9. cdaxy \in Seq(Commands) /\ Range(cdaxy) = Range(cdax) \cup Range(y)
  BY <1>3, <1>8, RangeConcat
<1>13. AppendsOnce(cdaxy)
  BY <1>3, <1>4, <1>5, <1>8, <1>12, AppendsConcat
<1>14. Plan = cdaxy
  BY <1>1 DEF cdaxy, cdax, cda, cd
<1> QED
  BY <1>2, <1>6, <1>7, <1>8, <1>9, <1>13, <1>14 DEF x, y

-----------------------------------------------------------------------------
(* The kernel moves: what a command, a reset of the counters and a flush do *)
(* to the rules, and why no books suffer from it.                           *)

SoundMoves ==
  \A m \in Memories : Sound(m, rules, counted, born, boot) =>
                      Sound(m, rules', counted', born', boot')

RuleType == [gw : Gateways, dir : Dirs, peer : Peers, gen : Lives, life : Lives]

LEMMA KernelTypes ==
  ASSUME KernelOK
  PROVE  /\ MaxLives \in Nat /\ born \in Nat /\ boot \in Nat
         /\ rules \subseteq RuleType /\ IsFiniteSet(rules)
         /\ counted \in [Lives -> Nat]
         /\ \A l \in Lives : l \in Nat /\ counted[l] \in Nat /\ counted[l] <= counted[l]
  BY AccountingAssumption DEF KernelOK, Apart, RuleType, Lives

\* Rules that go away, or none do, with counters that only grow.
LEMMA SoundFewer ==
  ASSUME KernelOK, rules' \subseteq rules, counted' \in [Lives -> Nat],
         \A l \in Lives : counted[l] <= counted'[l],
         born' = born, boot' = boot
  PROVE  SoundMoves
<1>1. SUFFICES ASSUME NEW m \in Memories, Sound(m, rules, counted, born, boot)
               PROVE  Sound(m, rules', counted', born', boot')
  BY DEF SoundMoves
<1>2. born \in Nat /\ born' \in Nat /\ born <= born'
  BY KernelTypes
<1>3. \A r \in rules' : (r \in rules /\ boot' = boot) \/ (r.life \in Lives /\ r.life > born)
  OBVIOUS
<1> QED
  BY <1>1, <1>2, <1>3, KernelTypes, SoundStable

LEMMA ExecutesOK ==
  ASSUME KernelOK, PanelOK, NEW c \in Commands, Executes(c), UNCHANGED config,
         c.op = "append" =>
           /\ config[c.gw].on
           /\ \A r \in rules : r.gw = c.gw /\ r.dir = c.dir => r.peer # config[c.gw].peer
  PROVE  /\ KernelOK' /\ SoundMoves
         /\ \A r \in rules' : r \in rules \/ (c.op = "append" /\ r.gw = c.gw /\ r.dir = c.dir)
<1> USE KernelTypes
<1>1. CASE c.op = "chain"
  <2>1. /\ chains' = chains \cup {c.dir} /\ c.dir \in Dirs
        /\ UNCHANGED <<rules, jumps, counted, boot, born>>
    BY <1>1 DEF Executes, Commands
  <2>2. KernelOK'
    BY <2>1 DEF KernelOK, Apart
  <2> QED
    BY <2>1, <2>2, SoundFewer
<1>2. CASE c.op = "delete"
  <2>1. /\ rules' = {r \in rules : r.gen # c.gen}
        /\ UNCHANGED <<jumps, chains, counted, boot, born>>
    BY <1>2 DEF Executes
  <2>2. rules' \subseteq rules /\ IsFiniteSet(rules')
    BY <2>1, FS_Subset
  <2>3. KernelOK'
    BY <2>1, <2>2 DEF KernelOK, Apart
  <2> QED
    BY <2>1, <2>2, <2>3, SoundFewer
<1>3. CASE c.op = "unjump"
  <2>1. /\ jumps' = [jumps EXCEPT ![c.dir] = [n |-> @.n - 1, top |-> @.top /\ @.n > 1]]
        /\ c.dir \in Dirs /\ jumps[c.dir].n > 0
        /\ UNCHANGED <<rules, chains, counted, boot, born>>
    BY <1>3 DEF Executes, Commands, Possible
  <2> DEFINE j == [n |-> jumps[c.dir].n - 1, top |-> jumps[c.dir].top /\ jumps[c.dir].n > 1]
  <2>2. jumps[c.dir] \in [n : Nat, top : BOOLEAN] /\ jumps[c.dir].n - 1 \in Nat
    BY <2>1 DEF KernelOK
  <2>3. jumps' = [jumps EXCEPT ![c.dir] = j]
    BY <2>1
  <2>4. j \in [n : Nat, top : BOOLEAN]
    BY <2>2
  <2>5. jumps' \in [Dirs -> [n : Nat, top : BOOLEAN]]
    BY <2>1, <2>3, <2>4 DEF KernelOK
  <2>6. KernelOK'
    BY <2>1, <2>5 DEF KernelOK, Apart
  <2> QED
    BY <2>1, <2>6, SoundFewer
<1>4. CASE c.op = "jump"
  <2>1. /\ jumps' = [jumps EXCEPT ![c.dir] = [n |-> @.n + 1, top |-> TRUE]]
        /\ c.dir \in Dirs
        /\ UNCHANGED <<rules, chains, counted, boot, born>>
    BY <1>4 DEF Executes, Commands
  <2>2. jumps' \in [Dirs -> [n : Nat, top : BOOLEAN]]
    BY <2>1 DEF KernelOK
  <2>3. KernelOK'
    BY <2>1, <2>2 DEF KernelOK, Apart
  <2> QED
    BY <2>1, <2>3, SoundFewer
<1>5. CASE c.op = "append"
  <2> DEFINE new == [gw |-> c.gw, dir |-> c.dir, peer |-> config[c.gw].peer,
                     gen |-> born + 1, life |-> born + 1]
  <2>1. /\ born' = born + 1 /\ born < MaxLives
        /\ rules' = rules \cup {new}
        /\ UNCHANGED <<jumps, chains, counted, boot>>
        /\ c.gw \in Gateways /\ c.dir \in Dirs
    BY <1>5 DEF Executes, Commands
  <2>2. config[c.gw].peer \in Peers /\ born + 1 \in Lives
    BY <1>5, <2>1 DEF PanelOK, Drafts, Absent, Lives
  <2>3. new \in RuleType /\ new.life = born + 1 /\ new.gen = born + 1 /\ new.gw = c.gw
        /\ new.dir = c.dir /\ new.peer = config[c.gw].peer
    BY <2>1, <2>2 DEF RuleType
  <2> HIDE DEF new
  <2>4. IsFiniteSet(rules')
    BY <2>1, FS_AddElement
  <2>5. \A r \in rules : r.life <= born /\ r.gen <= born /\ r.life \in Nat /\ r.gen \in Nat
    BY DEF KernelOK, Apart, RuleType
  <2>6. Apart(rules', born')
    <3>1. rules' \subseteq RuleType
      BY <2>1, <2>3
    <3>2. \A r \in rules' : r.life <= born' /\ r.gen <= born'
      BY <2>1, <2>3, <2>5
    <3>3. \A r, s \in rules' : r.life = s.life \/ r.gen = s.gen => r = s
      BY <2>1, <2>3, <2>5 DEF KernelOK, Apart
    <3>4. \A r, s \in rules' : r.gw = s.gw /\ r.dir = s.dir /\ r.peer = s.peer => r = s
      BY <1>5, <2>1, <2>3 DEF KernelOK, Apart
    <3> QED
      BY <2>4, <3>1, <3>2, <3>3, <3>4 DEF Apart, RuleType
  <2>7. KernelOK'
    BY <2>1, <2>6 DEF KernelOK
  <2>8. SoundMoves
    <3>1. SUFFICES ASSUME NEW m \in Memories, Sound(m, rules, counted, born, boot)
                   PROVE  Sound(m, rules', counted', born', boot')
      BY DEF SoundMoves
    <3>2. born' \in Nat /\ born <= born' /\ counted' \in [Lives -> Nat] /\ boot' = boot
          /\ \A l \in Lives : counted[l] <= counted'[l]
      BY <2>1
    <3>3. \A r \in rules' : (r \in rules /\ boot' = boot) \/ (r.life \in Lives /\ r.life > born)
      BY <2>1, <2>2, <2>3
    <3> QED
      BY <3>1, <3>2, <3>3, SoundStable
  <2> QED
    BY <1>5, <2>1, <2>3, <2>7, <2>8
<1> QED
  BY <1>1, <1>2, <1>3, <1>4, <1>5 DEF Commands

\* Counters that start over under the same rules have lives of their own.
LEMMA RebornOK ==
  ASSUME KernelOK, Reborn, UNCHANGED <<jumps, chains, counted>>, boot' \in Nat \ {0}
  PROVE  /\ KernelOK' /\ SoundMoves
         /\ \A s \in rules' : \E r \in rules : s.gw = r.gw /\ s.dir = r.dir /\ s.peer = r.peer
                                               /\ s.gen = r.gen
<1> USE KernelTypes
<1> DEFINE order == SetToSeq(rules)
           Nth(r) == CHOOSE i \in 1..Len(order) : order[i] = r
           again == [r \in rules |-> [r EXCEPT !.life = born + Nth(r)]]
<1>1. /\ born + Len(order) <= MaxLives
      /\ born' = born + Len(order)
      /\ rules' = {[r EXCEPT !.life = born + Nth(r)] : r \in rules}
  BY DEF Reborn
<1>2. /\ order \in Seq(rules) /\ Len(order) \in Nat
      /\ Range(order) = rules
  BY SeqOfSet
<1>3. \A r \in rules : Nth(r) \in 1..Len(order) /\ order[Nth(r)] = r
  <2>1. \A r \in rules : \E i \in 1..Len(order) : order[i] = r
    BY <1>2 DEF Range
  <2> QED
    BY <2>1
<1> HIDE DEF order, Nth
<1>4. \A r \in rules : /\ again[r] \in RuleType
                       /\ again[r].gw = r.gw /\ again[r].dir = r.dir
                       /\ again[r].peer = r.peer /\ again[r].gen = r.gen
                       /\ again[r].life = born + Nth(r)
                       /\ again[r].life \in Lives
  <2> SUFFICES ASSUME NEW r \in rules
               PROVE  LET a == [r EXCEPT !.life = born + Nth(r)]
                      IN /\ a \in RuleType
                         /\ a.gw = r.gw /\ a.dir = r.dir /\ a.peer = r.peer /\ a.gen = r.gen
                         /\ a.life = born + Nth(r) /\ a.life \in Lives
    OBVIOUS
  <2>1. born + Nth(r) \in Lives
    <3>1. Nth(r) \in 1..Len(order)
      BY <1>3
    <3>2. born \in Nat /\ MaxLives \in Nat
      OBVIOUS
    <3> QED
      BY <1>1, <1>2, <3>1, <3>2, SMTT(30) DEF Lives
  <2>2. r \in RuleType
    OBVIOUS
  <2> QED
    BY <2>1, <2>2 DEF RuleType
<1>5. rules' = Range(again) /\ again \in [rules -> RuleType]
  BY <1>1, <1>4 DEF Range
<1>6. rules' = {again[r] : r \in rules}
  BY <1>5 DEF Range
<1> HIDE DEF again
<1>7. Apart(rules', born')
  <2>1. IsFiniteSet(rules') /\ rules' \subseteq RuleType
    BY <1>4, <1>5, <1>6, FiniteImage
  <2>2. \A r \in rules : again[r].life <= born' /\ again[r].gen <= born'
    <3>1. \A r \in rules : r.gen \in Nat /\ r.gen <= born
      BY DEF KernelOK, Apart, RuleType
    <3>2. \A r \in rules : Nth(r) \in Nat /\ Nth(r) <= Len(order)
      BY <1>2, <1>3
    <3>3. \A r \in rules : born + Nth(r) <= born' /\ r.gen <= born'
      BY <1>1, <1>2, <3>1, <3>2
    <3> QED
      BY <1>4, <3>3
  <2>3. ASSUME NEW r \in rules, NEW s \in rules,
               again[r].life = again[s].life \/ again[r].gen = again[s].gen
        PROVE  r = s
    <3>1. CASE again[r].gen = again[s].gen
      BY <1>4, <3>1 DEF KernelOK, Apart
    <3>2. CASE again[r].life = again[s].life
      <4>1. Nth(r) = Nth(s)
        BY <1>3, <1>4, <3>2
      <4> QED
        BY <1>3, <4>1
    <3> QED
      BY <2>3, <3>1, <3>2
  <2>4. ASSUME NEW r \in rules, NEW s \in rules,
               again[r].gw = again[s].gw, again[r].dir = again[s].dir, again[r].peer = again[s].peer
        PROVE  r = s
    BY <1>4, <2>4 DEF KernelOK, Apart
  <2> QED
    BY <1>6, <2>1, <2>2, <2>3, <2>4 DEF Apart, RuleType
<1>8. KernelOK'
  <2>1. born' \in 0..MaxLives
    BY <1>1, <1>2
  <2> QED
    BY <1>7, <2>1 DEF KernelOK
<1>9. SoundMoves
  <2>1. SUFFICES ASSUME NEW m \in Memories, Sound(m, rules, counted, born, boot)
                 PROVE  Sound(m, rules', counted', born', boot')
    BY DEF SoundMoves
  <2>2. born' \in Nat /\ born <= born' /\ counted' \in [Lives -> Nat]
        /\ \A l \in Lives : counted[l] <= counted'[l]
    BY <1>1, <1>2
  <2>3. \A r \in rules' : (r \in rules /\ boot' = boot) \/ (r.life \in Lives /\ r.life > born)
    BY SMTT(30), <1>2, <1>3, <1>4, <1>6
  <2> QED
    BY <2>1, <2>2, <2>3, SoundStable
<1> QED
  BY <1>4, <1>6, <1>8, <1>9

\* Entries that follow the configuration keep their baseline or lose it.
LEMMA CommittedBooks ==
  ASSUME KernelOK, PanelOK, BooksOK, NEW before, NEW pending \in BOOLEAN
  PROVE  /\ Committed(before, pending) \in Memories
         /\ Sound(Committed(before, pending), rules, counted, born, boot)
<1> DEFINE m == Committed(before, pending)
<1>1. mem \in Memories /\ Sound(mem, rules, counted, born, boot)
  BY DEF PanelOK, BooksOK
<1> DEFINE E == [g \in Gateways |-> Follows(g)]
           q == pending \/ On(before) # {}
<1>2. q \in BOOLEAN /\ m = [mem EXCEPT !.egress = E, !.pending = q]
  BY DEF Committed
<1>8. m = [egress |-> E, pending |-> q, credited |-> mem.credited, skipped |-> mem.skipped]
  <2> HIDE DEF E, q, m
  <2> QED
    BY <1>1, <1>2 DEF Memories
<1>3. /\ m.egress = [g \in Gateways |-> Follows(g)]
      /\ m.pending \in BOOLEAN
      /\ m.credited = mem.credited /\ m.skipped = mem.skipped
      /\ m = [egress |-> m.egress, pending |-> m.pending, credited |-> m.credited, skipped |-> m.skipped]
  <2> HIDE DEF q
  <2> QED
    BY <1>2, <1>8
<1>4. ASSUME NEW g \in Gateways
      PROVE  /\ Follows(g) \in Entries
             /\ HasBaseline(Follows(g)) =>
                  HasBaseline(mem.egress[g]) /\ SameReading(Follows(g), mem.egress[g])
  <2> DEFINE e == Entry(g)
  <2>1. CASE config[g] = Absent
    BY <2>1 DEF Follows, Entries, HasBaseline
  <2>2. CASE config[g] # Absent
    <3>1. e \in EntryRecords
      BY EntryIs
    <3>2. config[g].peer \in Peers
      BY <2>2 DEF PanelOK, Drafts
    <3> DEFINE i == e.init /\ e.peer = config[g].peer
               st == IF config[g].on THEN e.status ELSE "disabled"
    <3>3. i \in BOOLEAN /\ st \in {"waiting", "healthy", "interrupted", "disabled"}
      BY <3>1 DEF EntryRecords
    <3>4. Follows(g) = [e EXCEPT !.init = i, !.peer = config[g].peer, !.status = st]
      BY <2>2, <3>1 DEF Follows, EntryRecords
    <3> HIDE DEF i, st, e
    <3>5. /\ Follows(g) \in EntryRecords
          /\ Follows(g).init = i /\ Follows(g).peer = config[g].peer
          /\ Follows(g).last = e.last /\ Follows(g).gen = e.gen /\ Follows(g).life = e.life
      BY <3>1, <3>2, <3>3, <3>4 DEF EntryRecords
    <3>6. i => /\ mem.egress[g] # NoEntry /\ mem.egress[g] = e
               /\ e.init /\ e.peer = config[g].peer
      BY DEF i, e, Entry, NewEntry
    <3>7. Follows(g) \in Entries
      BY <3>5 DEF Entries, EntryRecords
    <3>8. HasBaseline(Follows(g)) => i
      BY <3>5 DEF HasBaseline
    <3>9. i => SameReading(Follows(g), mem.egress[g])
      BY <3>5, <3>6, <3>3, <3>1 DEF SameReading, EntryRecords
    <3> QED
      BY <3>6, <3>7, <3>8, <3>9 DEF HasBaseline
  <2> QED
    BY <2>1, <2>2
<1> HIDE DEF m
<1>5. m \in Memories
  <2>1. m.egress \in [Gateways -> Entries]
    BY <1>3, <1>4
  <2> QED
    BY <1>1, <1>3, <2>1 DEF Memories
<1>6. ASSUME NEW g \in Gateways, HasBaseline(m.egress[g]), NEW d \in Dirs
      PROVE  BaselineOK(m, g, m.egress[g], d, rules, counted, born, boot)
  <2>1. HasBaseline(mem.egress[g]) /\ SameReading(m.egress[g], mem.egress[g])
    BY <1>3, <1>4, <1>6
  <2>2. BaselineOK(mem, g, mem.egress[g], d, rules, counted, born, boot)
    BY <1>1, <2>1 DEF Sound
  <2> QED
    BY <1>3, <2>1, <2>2 DEF BaselineOK, SameReading
<1>7. Sound(m, rules, counted, born, boot)
  BY <1>1, <1>3, <1>6 DEF Sound
<1> QED
  BY <1>5, <1>7 DEF m

-----------------------------------------------------------------------------
(* Every step preserves the invariant.                                      *)

LEMMA InitIInv == Init => IInv
<1> SUFFICES ASSUME Init PROVE IInv
  OBVIOUS
<1>1. MaxLives \in Nat /\ MaxEvents \in Nat
  BY AccountingAssumption
<1>2. KernelOK
  BY <1>1, FS_EmptySet DEF Init, KernelOK, Apart, Lives
<1>3. mem \in Memories /\ db \in Memories
  BY DEF Init, Memories, Entries
<1>4. PanelOK
  <2>1. config \in [Gateways -> Drafts] /\ old \in [Gateways -> Drafts]
    BY DEF Init, Drafts
  <2>2. pc \in Places /\ kind \in {"sample", "begin", "commit", "reset"}
    BY DEF Init, Places
  <2>3. {touched, unsaved, astray} \subseteq BOOLEAN
    BY DEF Init
  <2>4. events \in 0..MaxEvents
    BY <1>1 DEF Init
  <2> QED
    BY <1>3, <2>1, <2>2, <2>3, <2>4 DEF PanelOK, Init
<1>5. TodoOK
  BY DEF Init, TodoOK, AppendsOnce, Range
<1>6. \A m \in {mem, db} : /\ \A l \in Lives : m.credited[l] = 0 /\ m.skipped[l] = 0
                           /\ \A g \in Gateways : m.egress[g] = NoEntry
  BY DEF Init
<1>7. BooksOK
  BY <1>6 DEF Init, BooksOK, Sound, HasBaseline
<1> QED
  BY <1>2, <1>4, <1>5, <1>7 DEF IInv

\* A step that leaves the kernel alone keeps sound what is sound.
LEMMA StillKernel ==
  ASSUME KernelOK, UNCHANGED kernel
  PROVE  KernelOK' /\ SoundMoves
  BY DEF KernelOK, Apart, SoundMoves, kernel

\* Where a sample ends.
LEMMA SampleEndsOK ==
  ASSUME IInv, KernelOK', SoundMoves, NEW ok \in BOOLEAN, ok => Complete,
         SampleEnds(ok), UNCHANGED <<config, db, kind, old, ghosts, events>>
  PROVE  IInv'
<1>1. Sampled(ok) \in Memories /\ Sound(Sampled(ok), rules, counted, born, boot)
  BY SampledBooks DEF IInv
<1>2. mem' = Sampled(ok) /\ pc' = AfterSample /\ todo' = <<>>
  BY DEF SampleEnds
<1>3. PanelOK'
  BY <1>1, <1>2 DEF IInv, PanelOK, AfterSample, Places, ghosts
<1>4. TodoOK'
  BY <1>2 DEF TodoOK, AppendsOnce, Range, AfterSample
<1>5. db \in Memories /\ Sound(db, rules, counted, born, boot)
  BY DEF IInv, PanelOK, BooksOK
<1>6. BooksOK'
  BY <1>1, <1>2, <1>5 DEF BooksOK, SoundMoves
<1> QED
  BY <1>3, <1>4, <1>6 DEF IInv

\* A step of the panel between samples: the kernel is left alone.
LEMMA PanelStep ==
  ASSUME IInv, UNCHANGED kernel, pc # "commands", pc' # "commands", todo' = todo,
         mem' \in Memories, Sound(mem', rules, counted, born, boot),
         db' = db \/ db' = mem' \/ db' = mem,
         config' \in [Gateways -> Drafts], old' \in [Gateways -> Drafts],
         pc' \in Places, kind' \in {"sample", "begin", "commit", "reset"},
         {touched', unsaved', astray'} \subseteq BOOLEAN, events' \in 0..MaxEvents,
         pc' = "nothing" => On(config') = {}
  PROVE  IInv'
<1>1. KernelOK' /\ SoundMoves
  BY StillKernel DEF IInv
<1>2. PanelOK'
  BY DEF IInv, PanelOK, On
<1>3. TodoOK'
  BY DEF IInv, TodoOK, AppendsOnce, Range
<1>4. BooksOK'
  BY <1>1 DEF IInv, PanelOK, BooksOK, SoundMoves
<1> QED
  BY <1>1, <1>2, <1>3, <1>4 DEF IInv

LEMMA SamplingIInv == IInv /\ Sampling => IInv'
<1> SUFFICES ASSUME IInv, Sampling PROVE IInv'
  OBVIOUS
<1> USE DEF IInv
<1>1. CASE NothingToRead
  <2>1. SampleEnds(TRUE) /\ UNCHANGED <<kernel, config, db, kind, old, ghosts, events>>
    BY <1>1 DEF NothingToRead
  <2>2. Complete
    BY <1>1 DEF NothingToRead, PanelOK, Complete
  <2> QED
    BY <2>1, <2>2, StillKernel, SampleEndsOK
<1>2. CASE Snapshot
  <2>1. /\ pc' = "commands" /\ touched' = FALSE /\ todo' = Plan
        /\ UNCHANGED <<kernel, config, mem, db, kind, old, unsaved, astray, events>>
    BY <1>2 DEF Snapshot
  <2>2. KernelOK' /\ SoundMoves
    BY <2>1, StillKernel
  <2>3. PanelOK'
    BY <2>1 DEF PanelOK, Places, On
  <2>4. BooksOK'
    BY <2>1, <2>2 DEF BooksOK, SoundMoves, PanelOK
  <2>5. Plan \in Seq(Commands) /\ AppendsOnce(Plan)
    BY PlanIs
  <2>6. ASSUME NEW c \in Range(Plan), c.op = "append"
        PROVE  /\ config[c.gw].on
               /\ \A r \in rules : r.gw = c.gw /\ r.dir = c.dir => r.peer # config[c.gw].peer
    <3>1. c \in AppendCommands
      BY <2>6, PlanIs, JumpPlan DEF ChainCommands, DeleteCommands
    <3>2. PICK m \in Missing : c.gw = m[1] /\ c.dir = m[2]
      BY <3>1 DEF AppendCommands
    <3>3. config[c.gw].on
      BY <3>2 DEF Missing, On
    <3> QED
      BY <3>2, <3>3 DEF Missing, Kept, Wanted
  <2>7. TodoOK'
    BY <2>1, <2>5, <2>6 DEF TodoOK, kernel, AppendsOnce
  <2> QED
    BY <2>2, <2>3, <2>4, <2>7
<1>3. CASE CommandOk
  <2> DEFINE c == Head(todo)
  <2>1. /\ Executes(c) /\ todo' = Tail(todo) /\ todo # <<>> /\ pc' = pc
        /\ UNCHANGED <<config, mem, db, pc, kind, old, ghosts, events>>
    BY <1>3 DEF CommandOk
  <2>2. todo \in Seq(Commands)
    BY DEF TodoOK
  <2>3. c \in Commands /\ Tail(todo) \in Seq(Commands) /\ Range(todo) = {c} \cup Range(Tail(todo))
    BY <2>1, <2>2, RangeTail
  <2>4. c.op = "append" =>
           /\ config[c.gw].on
           /\ \A r \in rules : r.gw = c.gw /\ r.dir = c.dir => r.peer # config[c.gw].peer
    BY <2>3 DEF TodoOK
  <2> HIDE DEF c
  <2>5. /\ KernelOK' /\ SoundMoves
        /\ \A r \in rules' : r \in rules \/ (c.op = "append" /\ r.gw = c.gw /\ r.dir = c.dir)
    BY <2>1, <2>3, <2>4, ExecutesOK
  <2>6. PanelOK'
    BY <2>1 DEF PanelOK, ghosts, On
  <2>7. BooksOK'
    BY <2>1, <2>5 DEF BooksOK, SoundMoves, PanelOK
  <2>8. \A b \in Range(Tail(todo)) : c.op = "append" /\ b.op = "append" => b # c
    <3>1. Len(todo) \in Nat \ {0} /\ Len(Tail(todo)) = Len(todo) - 1 /\ c = todo[1]
          /\ \A i \in 1..Len(Tail(todo)) : Tail(todo)[i] = todo[i + 1]
      BY <2>1, <2>2 DEF c
    <3>4. DOMAIN Tail(todo) = 1..Len(Tail(todo))
      BY <2>3
    <3>2. \A b \in Range(Tail(todo)) : \E i \in 1..Len(Tail(todo)) : b = Tail(todo)[i]
      BY <3>4 DEF Range
    <3>3. \A i \in 1..Len(Tail(todo)) : i + 1 \in 1..Len(todo) /\ 1 \in 1..Len(todo) /\ i + 1 # 1
      BY <3>1
    <3> QED
      BY <3>1, <3>2, <3>3 DEF TodoOK, AppendsOnce
  <2>9. AppendsOnce(Tail(todo))
    <3>1. Len(todo) \in Nat \ {0} /\ Len(Tail(todo)) = Len(todo) - 1
          /\ \A i \in 1..Len(Tail(todo)) : Tail(todo)[i] = todo[i + 1]
      BY <2>1, <2>2
    <3>2. \A i, j \in 1..Len(todo) : todo[i].op = "append" /\ todo[i] = todo[j] => i = j
      BY DEF TodoOK, AppendsOnce
    <3> QED
      BY <3>1, <3>2 DEF AppendsOnce
  <2>10. ASSUME NEW b \in Range(Tail(todo)), b.op = "append"
         PROVE  /\ config'[b.gw].on
                /\ \A r \in rules' : r.gw = b.gw /\ r.dir = b.dir => r.peer # config'[b.gw].peer
    <3>1. b \in Range(todo) /\ b \in Commands
      BY <2>3 DEF Range
    <3>2. /\ config[b.gw].on
          /\ \A r \in rules : r.gw = b.gw /\ r.dir = b.dir => r.peer # config[b.gw].peer
      BY <2>10, <3>1 DEF TodoOK
    <3>3. ~(c.op = "append" /\ b.gw = c.gw /\ b.dir = c.dir)
      BY <2>3, <2>8, <2>10, <3>1 DEF Commands
    <3> QED
      BY <2>1, <2>5, <3>2, <3>3
  <2>11. TodoOK'
    BY <1>3, <2>1, <2>3, <2>9, <2>10 DEF TodoOK, AppendsOnce, CommandOk
  <2> QED
    BY <2>5, <2>6, <2>7, <2>11
<1>4. CASE CommandFails
  <2>1. SampleEnds(FALSE) /\ UNCHANGED <<config, db, kind, old, ghosts, events>>
        /\ todo # <<>> /\ (UNCHANGED kernel \/ Executes(Head(todo)))
    BY <1>4 DEF CommandFails
  <2>2. CASE UNCHANGED kernel
    BY <2>1, <2>2, StillKernel, SampleEndsOK
  <2>3. CASE Executes(Head(todo))
    <3> DEFINE c == Head(todo)
    <3>1. todo \in Seq(Commands)
      BY DEF TodoOK
    <3>2. c \in Commands /\ Range(todo) = {c} \cup Range(Tail(todo))
      BY <2>1, <3>1, RangeTail
    <3>3. c.op = "append" =>
           /\ config[c.gw].on
           /\ \A r \in rules : r.gw = c.gw /\ r.dir = c.dir => r.peer # config[c.gw].peer
      BY <3>2 DEF TodoOK
    <3> HIDE DEF c
    <3>4. KernelOK' /\ SoundMoves
      BY <2>1, <2>3, <3>2, <3>3, ExecutesOK DEF c
    <3> QED
      BY <2>1, <3>4, SampleEndsOK
  <2> QED
    BY <2>1, <2>2, <2>3
<1>5. CASE ReadsCounters
  BY <1>5, StillKernel, SampleEndsOK DEF ReadsCounters
<1>6. CASE ReadFails
  BY <1>6, StillKernel, SampleEndsOK DEF ReadFails
<1> QED
  BY <1>1, <1>2, <1>3, <1>4, <1>5, <1>6 DEF Sampling

LEMMA PanelIInv ==
  IInv /\ (\/ SampleBegin \/ ResetBegin \/ ChangeBegin \/ ChangeSaved \/ ChangePersisted
           \/ ChangeRefused \/ ChangeUndone \/ ChangeApplied \/ Startup \/ Save)
    => IInv'
<1> SUFFICES ASSUME IInv,
                    \/ SampleBegin \/ ResetBegin \/ ChangeBegin \/ ChangeSaved \/ ChangePersisted
                    \/ ChangeRefused \/ ChangeUndone \/ ChangeApplied \/ Startup \/ Save
             PROVE  IInv'
  OBVIOUS
<1>1. /\ mem \in Memories /\ Sound(mem, rules, counted, born, boot)
      /\ config \in [Gateways -> Drafts] /\ old \in [Gateways -> Drafts]
      /\ kind \in {"sample", "begin", "commit", "reset"}
      /\ {touched, unsaved, astray} \subseteq BOOLEAN /\ events \in 0..MaxEvents
      /\ MaxEvents \in Nat
  BY AccountingAssumption DEF IInv, PanelOK, BooksOK
<1>2. ASSUME Event PROVE events' \in 0..MaxEvents
  BY <1>1, <1>2 DEF Event
<1>3. Reads \in {"snapshot", "nothing"} /\ (Reads = "nothing" => On(config) = {})
  BY DEF Reads
<1>4. CASE SampleBegin
  BY <1>1, <1>3, <1>4, PanelStep DEF SampleBegin, Quiet, ghosts, Places
<1>5. CASE ResetBegin
  BY <1>1, <1>2, <1>3, <1>5, PanelStep DEF ResetBegin, Quiet, ghosts, Places
<1>6. CASE ChangeBegin
  BY <1>1, <1>2, <1>3, <1>6, PanelStep DEF ChangeBegin, Quiet, ghosts, Places
<1>7. CASE ChangeSaved
  BY <1>1, <1>7, PanelStep DEF ChangeSaved, Quiet, ghosts, Places
<1>8. CASE ChangePersisted
  BY <1>1, <1>8, PanelStep DEF ChangePersisted, ghosts, Places
<1>9. CASE ChangeRefused
  BY <1>1, <1>9, PanelStep DEF ChangeRefused, Quiet, ghosts, Places
<1>10. CASE ChangeUndone
  <2>1. /\ UNCHANGED <<kernel, db, todo, touched, mem, events>>
        /\ pc \in {"applying", "persisting"} /\ pc' = "idle" /\ kind' = "sample" /\ old' = config'
    BY <1>10 DEF ChangeUndone
  <2>2. unsaved' \in BOOLEAN /\ astray' \in BOOLEAN
    BY <1>10, <1>1 DEF ChangeUndone
  <2>3. config' \in [Gateways -> Drafts]
    BY <1>10, <1>1 DEF ChangeUndone
  <2> QED
    BY <1>1, <2>1, <2>2, <2>3, PanelStep DEF Places
<1>11. ASSUME NEW before, NEW p \in BOOLEAN, Commits(before, p), old' = config,
              Quiet, UNCHANGED <<config, events>>, pc # "commands"
       PROVE  IInv'
  <2>1. mem' \in Memories /\ Sound(mem', rules, counted, born, boot)
    BY <1>11, CommittedBooks DEF Commits, IInv
  <2>2. pc' \in Places /\ pc' # "commands" /\ (pc' = "nothing" => On(config) = {}) /\ kind' = "commit"
    BY <1>11 DEF Commits, Places
  <2> QED
    BY <1>1, <1>11, <2>1, <2>2, PanelStep DEF Quiet, ghosts
<1>12. CASE ChangeApplied
  BY <1>1, <1>11, <1>12 DEF ChangeApplied, Memories
<1>13. CASE Startup
  <2> DEFINE p == \/ mem.pending \/ Listed(config) # {}
                  \/ \E g \in Gateways : mem.egress[g] # NoEntry
  <2>1. p \in BOOLEAN
    BY <1>1 DEF Memories
  <2>2. Commits(config, p) /\ old' = config /\ Quiet /\ UNCHANGED <<config, events>> /\ pc # "commands"
    BY <1>13 DEF Startup
  <2> HIDE DEF p
  <2> QED
    BY <1>11, <2>1, <2>2
<1>14. CASE Save
  BY <1>1, <1>14, PanelStep DEF Save, ResetDone, Places
<1> QED
  BY <1>4, <1>5, <1>6, <1>7, <1>8, <1>9, <1>10, <1>12, <1>13, <1>14

\* The kernel moves under a panel that stands still.
LEMMA KernelStep ==
  ASSUME IInv, KernelOK', SoundMoves,
         UNCHANGED <<config, mem, db, pc, kind, old, todo>>,
         {touched', unsaved', astray'} \subseteq BOOLEAN, events' \in 0..MaxEvents,
         \A s \in rules' : \E r \in rules : s.gw = r.gw /\ s.dir = r.dir /\ s.peer = r.peer
  PROVE  IInv'
<1>1. PanelOK'
  BY DEF IInv, PanelOK, On
<1>2. BooksOK'
  BY DEF IInv, PanelOK, BooksOK, SoundMoves
<1>3. TodoOK'
  BY DEF IInv, TodoOK, AppendsOnce, Range
<1> QED
  BY <1>1, <1>2, <1>3 DEF IInv

\* The panel dies: what was saved is all it knows, and the kernel may have moved.
LEMMA DiesIInv ==
  ASSUME IInv, KernelOK', SoundMoves, Dies, UNCHANGED <<config, db>>,
         {touched', unsaved'} \subseteq BOOLEAN, events' \in 0..MaxEvents
  PROVE  IInv'
<1>1. db \in Memories /\ Sound(db, rules', counted', born', boot')
  BY DEF IInv, PanelOK, BooksOK, SoundMoves
<1>2. mem' = db /\ pc' = "startup" /\ kind' = "sample" /\ old' = config /\ todo' = <<>>
      /\ astray' \in BOOLEAN
  BY DEF Dies, IInv, PanelOK
<1>3. PanelOK'
  BY <1>1, <1>2 DEF IInv, PanelOK, Places
<1>4. BooksOK'
  BY <1>1, <1>2 DEF BooksOK
<1>5. TodoOK'
  BY <1>2 DEF TodoOK, AppendsOnce, Range
<1> QED
  BY <1>3, <1>4, <1>5 DEF IInv

LEMMA OthersIInv ==
  IInv /\ (\/ \E r \in rules : Packet(r)
           \/ Flush \/ Displaced \/ Zeroed \/ Reboot \/ Crash)
    => IInv'
<1> SUFFICES ASSUME IInv,
                    \/ \E r \in rules : Packet(r)
                    \/ Flush \/ Displaced \/ Zeroed \/ Reboot \/ Crash
             PROVE  IInv'
  OBVIOUS
<1>1. KernelOK /\ PanelOK /\ {touched, unsaved, astray} \subseteq BOOLEAN /\ events \in 0..MaxEvents
      /\ MaxEvents \in Nat
  BY AccountingAssumption DEF IInv, PanelOK
<1> USE <1>1, KernelTypes
<1>2. ASSUME NEW what, Tampering(what)
      PROVE  events' \in 0..MaxEvents /\ touched' = TRUE /\ UNCHANGED <<config, db, unsaved>>
  BY <1>2 DEF Tampering, Event
<1>3. ASSUME NEW r \in rules, Packet(r) PROVE IInv'
  <2>1. /\ counted' = [counted EXCEPT ![r.life] = @ + 1]
        /\ UNCHANGED <<rules, jumps, chains, boot, born, config, mem, db, pc, kind, old, todo, ghosts, events>>
    BY <1>3 DEF Packet
  <2>5. r.life \in Lives
    BY DEF RuleType
  <2>2. counted' \in [Lives -> Nat] /\ \A l \in Lives : counted[l] <= counted'[l]
    BY <2>1, <2>5
  <2>3. KernelOK'
    BY <2>1, <2>2 DEF KernelOK, Apart
  <2>4. SoundMoves
    BY <2>1, <2>2, SoundFewer
  <2> QED
    BY <2>1, <2>3, <2>4, KernelStep DEF ghosts
<1>4. CASE Flush
  <2>1. /\ rules' = {} /\ chains' \in {chains, {}}
        /\ jumps' = [d \in Dirs |-> [n |-> 0, top |-> FALSE]]
        /\ UNCHANGED <<counted, boot, born, mem, pc, kind, old, todo, astray>>
        /\ Tampering("flush")
    BY <1>4 DEF Flush
  <2>2. KernelOK'
    BY <2>1, FS_EmptySet DEF KernelOK, Apart
  <2>3. SoundMoves
    BY <2>1, SoundFewer
  <2> QED
    BY <1>2, <2>1, <2>2, <2>3, KernelStep
<1>5. CASE Displaced
  <2>1. PICK d \in Dirs :
          /\ \/ jumps' = [jumps EXCEPT ![d].top = FALSE] /\ astray' = astray
             \/ jumps' = [jumps EXCEPT ![d].n = 2] /\ astray' = (astray \/ pc = "commands")
          /\ \E what : Tampering(what)
    BY <1>5 DEF Displaced
  <2>2. UNCHANGED <<rules, chains, counted, boot, born, mem, pc, kind, old, todo>>
    BY <1>5 DEF Displaced
  <2>6. jumps' \in [Dirs -> [n : Nat, top : BOOLEAN]]
    <3>1. jumps \in [Dirs -> [n : Nat, top : BOOLEAN]]
      BY DEF KernelOK
    <3>2. CASE jumps' = [jumps EXCEPT ![d].top = FALSE]
      BY <3>1, <3>2
    <3>3. CASE jumps' = [jumps EXCEPT ![d].n = 2]
      BY <3>1, <3>3
    <3> QED
      BY <2>1, <3>2, <3>3
  <2>3. jumps' \in [Dirs -> [n : Nat, top : BOOLEAN]] /\ astray' \in BOOLEAN
    BY <2>1, <2>6
  <2>4. KernelOK'
    BY <2>2, <2>3 DEF KernelOK, Apart
  <2>5. SoundMoves
    BY <2>2, SoundFewer
  <2> QED
    BY <1>2, <2>1, <2>2, <2>3, <2>4, <2>5, KernelStep
<1>6. CASE Zeroed
  <2>1. Tampering("zero") /\ Reborn
        /\ UNCHANGED <<jumps, chains, counted, boot, mem, pc, kind, old, todo, astray>>
    BY <1>6 DEF Zeroed
  <2>2. /\ KernelOK' /\ SoundMoves
        /\ \A s \in rules' : \E r \in rules : s.gw = r.gw /\ s.dir = r.dir /\ s.peer = r.peer
                                              /\ s.gen = r.gen
    BY <2>1, RebornOK DEF KernelOK
  <2> QED
    BY <1>2, <2>1, <2>2, KernelStep
<1>7. CASE Reboot
  <2>1. /\ Tampering("reboot") /\ Dies /\ boot' = boot + 1 /\ counted' = counted
        /\ \/ Reborn /\ UNCHANGED <<jumps, chains>>
           \/ /\ rules' = {} /\ chains' = {} /\ born' = born
              /\ jumps' = [d \in Dirs |-> [n |-> 0, top |-> FALSE]]
    BY <1>7 DEF Reboot
  <2>2. boot' \in Nat \ {0}
    BY <2>1 DEF KernelOK
  <2>3. CASE Reborn /\ UNCHANGED <<jumps, chains>>
    BY <1>2, <2>1, <2>2, <2>3, RebornOK, DiesIInv
  <2>4. CASE /\ rules' = {} /\ chains' = {} /\ born' = born
             /\ jumps' = [d \in Dirs |-> [n |-> 0, top |-> FALSE]]
    <3>1. KernelOK'
      BY <2>1, <2>2, <2>4, FS_EmptySet DEF KernelOK, Apart
    <3>2. SoundMoves
      BY <2>1, <2>4, SoundStable DEF SoundMoves
    <3> QED
      BY <1>2, <2>1, <3>1, <3>2, DiesIInv
  <2> QED
    BY <2>1, <2>3, <2>4
<1>8. CASE Crash
  <2>1. Event /\ Dies /\ UNCHANGED <<kernel, config, db, touched, unsaved>>
    BY <1>8 DEF Crash
  <2>2. KernelOK' /\ SoundMoves
    BY <2>1, StillKernel
  <2> QED
    BY <2>1, <2>2, DiesIInv DEF Event
<1> QED
  BY <1>3, <1>4, <1>5, <1>6, <1>7, <1>8

LEMMA NextIInv == IInv /\ [Next]_vars => IInv'
<1> SUFFICES ASSUME IInv, [Next]_vars PROVE IInv'
  OBVIOUS
<1>1. CASE PollSaves
  <2>1. /\ db' = mem /\ unsaved' = FALSE
        /\ UNCHANGED <<kernel, config, mem, pc, kind, old, todo, touched, astray, events>>
    BY <1>1 DEF PollSaves
  <2>2. KernelOK'
    BY <2>1, StillKernel DEF IInv
  <2>3. PanelOK'
    BY <2>1 DEF IInv, PanelOK, On
  <2>4. TodoOK'
    BY <2>1 DEF IInv, TodoOK, AppendsOnce, kernel
  <2>5. BooksOK'
    BY <2>1 DEF IInv, BooksOK, kernel
  <2> QED
    BY <2>2, <2>3, <2>4, <2>5 DEF IInv
<1>2. CASE UNCHANGED vars
  BY <1>2 DEF vars, kernel, ghosts, IInv, KernelOK, Apart, PanelOK, On, TodoOK, AppendsOnce, BooksOK
<1> QED
  BY <1>1, <1>2, SamplingIInv, PanelIInv, OthersIInv DEF Next

-----------------------------------------------------------------------------
\* What the invariant says of the types.
LEMMA IInvTypeOK == IInv => TypeOK
<1> SUFFICES ASSUME IInv PROVE TypeOK
  OBVIOUS
<1>1. \A r, s \in rules : Wanted(r) /\ Wanted(s) /\ r.gw = s.gw /\ r.dir = s.dir => r = s
  BY DEF IInv, KernelOK, Apart, Wanted
<1> QED
  BY <1>1 DEF IInv, TypeOK, KernelOK, Apart, PanelOK

\* No byte the kernel counted is credited twice, in memory or in what is saved,
\* whatever fails, whoever touches the chains, and whenever the panel dies.
THEOREM NeverCountedTwice == Spec => []NoByteCountedTwice
<1>1. IInv => NoByteCountedTwice
  BY IInvTypeOK DEF NoByteCountedTwice, IInv, BooksOK, Sound
<1> QED
  BY <1>1, InitIInv, NextIInv, PTL DEF Spec

\* What the last reading of a counter showed has all been credited, but for what
\* a baseline left out: no delta is lost between two samples.
THEOREM EveryReadingCredited == Spec => []ReadingsCredited
<1>1. IInv => ReadingsCredited
  BY DEF ReadingsCredited, IInv, BooksOK, Sound, HasBaseline, BaselineOK
<1> QED
  BY <1>1, InitIInv, NextIInv, PTL DEF Spec

-----------------------------------------------------------------------------
(* What SBM put into the kernel is never forgotten, and a healthy gateway is *)
(* counted.  Both rest on what is left to do being enough: to take away what *)
(* is not wanted, and to bring every jump into its place.                    *)

Unjump(d) == [op |-> "unjump", dir |-> d]
Jump(d) == [op |-> "jump", dir |-> d]
OfJump(c, d) == c \in {Unjump(d), Jump(d)}

\* At least n jumps of direction d are taken away in a row.
Block(s, d, n) ==
  \E a \in 1..Len(s) + 1 : \E b \in a..Len(s) + 1 :
    b - a >= n /\ \A i \in a..b - 1 : s[i] = Unjump(d)

\* The jumps j of direction d are right and left alone, or all are taken away
\* and one is put on top.
Repair(s, d, j) ==
  \/ j = [n |-> 1, top |-> TRUE] /\ \A i \in 1..Len(s) : ~OfJump(s[i], d)
  \/ \E a \in 1..Len(s) :
       /\ a + j.n \in 1..Len(s)
       /\ \A i \in a..a + j.n - 1 : s[i] = Unjump(d)
       /\ s[a + j.n] = Jump(d)
       /\ \A i \in 1..Len(s) : i < a \/ i > a + j.n => ~OfJump(s[i], d)

LEMMA BlockConcat ==
  ASSUME NEW S, NEW s \in Seq(S), NEW t \in Seq(S), NEW d, NEW n \in Nat,
         Block(s, d, n) \/ Block(t, d, n)
  PROVE  Block(s \o t, d, n)
<1>1. /\ Len(s \o t) = Len(s) + Len(t) /\ Len(s) \in Nat /\ Len(t) \in Nat
      /\ \A i \in 1..Len(s) : (s \o t)[i] = s[i]
      /\ \A i \in Len(s) + 1..Len(s) + Len(t) : (s \o t)[i] = t[i - Len(s)]
  OBVIOUS
<1>2. CASE Block(s, d, n)
  <2>1. PICK a \in 1..Len(s) + 1, b \in Int :
          b \in a..Len(s) + 1 /\ b - a >= n /\ \A i \in a..b - 1 : s[i] = Unjump(d)
    BY <1>2 DEF Block
  <2>2. a \in 1..Len(s \o t) + 1 /\ b \in a..Len(s \o t) + 1
    BY <1>1, <2>1
  <2>3. \A i \in a..b - 1 : (s \o t)[i] = Unjump(d)
    BY <1>1, <2>1
  <2> QED
    BY <2>1, <2>2, <2>3 DEF Block
<1>3. CASE Block(t, d, n)
  <2>1. PICK a \in 1..Len(t) + 1, b \in Int :
          b \in a..Len(t) + 1 /\ b - a >= n /\ \A i \in a..b - 1 : t[i] = Unjump(d)
    BY <1>3 DEF Block
  <2> DEFINE a2 == a + Len(s)
             b2 == b + Len(s)
  <2>2. a2 \in 1..Len(s \o t) + 1 /\ b2 \in a2..Len(s \o t) + 1 /\ b2 - a2 >= n
    BY <1>1, <2>1
  <2>3. ASSUME NEW i \in a2..b2 - 1 PROVE (s \o t)[i] = Unjump(d)
    <3>1. i - Len(s) \in a..b - 1 /\ i \in Len(s) + 1..Len(s) + Len(t)
      BY <1>1, <2>1
    <3> QED
      BY <1>1, <2>1, <3>1
  <2> QED
    BY <2>2, <2>3 DEF Block
<1> QED
  BY <1>2, <1>3

LEMMA TailIs ==
  ASSUME NEW S, NEW s \in Seq(S), s # <<>>
  PROVE  /\ Len(s) \in Nat \ {0} /\ Len(Tail(s)) = Len(s) - 1 /\ Head(s) = s[1]
         /\ Tail(s) \in Seq(S)
         /\ \A i \in 1..Len(s) - 1 : Tail(s)[i] = s[i + 1]
  OBVIOUS

LEMMA BlockEmpty ==
  ASSUME NEW S, NEW s \in Seq(S), NEW d
  PROVE  Block(s, d, 0)
<1>1. Len(s) \in Nat
  OBVIOUS
<1> QED
  BY <1>1 DEF Block

LEMMA BlockTail ==
  ASSUME NEW S, NEW s \in Seq(S), s # <<>>, NEW d, NEW n \in Nat, NEW k \in Nat,
         Block(s, d, n), k <= n, Head(s) = Unjump(d) => k = n - 1
  PROVE  Block(Tail(s), d, k)
<1>1. PICK a \in 1..Len(s) + 1, b \in Int :
          b \in a..Len(s) + 1 /\ b - a >= n /\ \A i \in a..b - 1 : s[i] = Unjump(d)
  BY DEF Block
<1>2. /\ Len(s) \in Nat \ {0} /\ Len(Tail(s)) = Len(s) - 1 /\ Head(s) = s[1]
      /\ \A i \in 1..Len(s) - 1 : Tail(s)[i] = s[i + 1]
  BY TailIs
<1>3. CASE a > 1
  <2>1. a - 1 \in 1..Len(Tail(s)) + 1 /\ b - 1 \in a - 1..Len(Tail(s)) + 1
        /\ (b - 1) - (a - 1) >= k
    BY <1>1, <1>2, <1>3
  <2>2. ASSUME NEW i \in a - 1..(b - 1) - 1 PROVE Tail(s)[i] = Unjump(d)
    <3>1. i + 1 \in a..b - 1 /\ i \in 1..Len(s) - 1
      BY <1>1, <1>2, <1>3
    <3> QED
      BY <1>1, <1>2, <3>1
  <2> QED
    BY <2>1, <2>2 DEF Block
<1>4. CASE a = 1 /\ b = 1
  <2>1. k = 0 /\ Tail(s) \in Seq(S)
    BY <1>1, <1>4, TailIs
  <2> QED
    BY <2>1, BlockEmpty
<1>5. CASE a = 1 /\ b > 1
  <2>1. Head(s) = Unjump(d)
    BY <1>1, <1>2, <1>5
  <2>2. 1 \in 1..Len(Tail(s)) + 1 /\ b - 1 \in 1..Len(Tail(s)) + 1 /\ (b - 1) - 1 >= k
    BY <1>1, <1>2, <1>5, <2>1
  <2>3. ASSUME NEW i \in 1..(b - 1) - 1 PROVE Tail(s)[i] = Unjump(d)
    <3>1. i + 1 \in a..b - 1 /\ i \in 1..Len(s) - 1
      BY <1>1, <1>2, <1>5
    <3> QED
      BY <1>1, <1>2, <3>1
  <2> QED
    BY <2>2, <2>3 DEF Block
<1> QED
  BY <1>1, <1>2, <1>3, <1>4, <1>5

LEMMA RepairConcat ==
  ASSUME NEW S, NEW s \in Seq(S), NEW t \in Seq(S), NEW d, NEW j, j.n \in Nat,
         \/ Repair(s, d, j) /\ \A c \in Range(t) : ~OfJump(c, d)
         \/ Repair(t, d, j) /\ \A c \in Range(s) : ~OfJump(c, d)
  PROVE  Repair(s \o t, d, j)
<1>1. /\ Len(s \o t) = Len(s) + Len(t) /\ Len(s) \in Nat /\ Len(t) \in Nat
      /\ \A i \in 1..Len(s) : (s \o t)[i] = s[i]
      /\ \A i \in Len(s) + 1..Len(s) + Len(t) : (s \o t)[i] = t[i - Len(s)]
  OBVIOUS
<1>2. /\ \A i \in 1..Len(s) : s[i] \in Range(s)
      /\ \A i \in 1..Len(t) : t[i] \in Range(t)
  BY DEF Range
<1>3. \A i \in Len(s) + 1..Len(s) + Len(t) : i - Len(s) \in 1..Len(t)
  BY <1>1
<1>4. CASE Repair(s, d, j) /\ \A c \in Range(t) : ~OfJump(c, d)
  <2>1. CASE j = [n |-> 1, top |-> TRUE] /\ \A i \in 1..Len(s) : ~OfJump(s[i], d)
    <3>1. \A i \in 1..Len(s \o t) : ~OfJump((s \o t)[i], d)
      BY <1>1, <1>2, <1>3, <1>4, <2>1
    <3> QED
      BY <2>1, <3>1 DEF Repair
  <2>2. ASSUME NEW a \in 1..Len(s),
               /\ a + j.n \in 1..Len(s)
               /\ \A i \in a..a + j.n - 1 : s[i] = Unjump(d)
               /\ s[a + j.n] = Jump(d)
               /\ \A i \in 1..Len(s) : i < a \/ i > a + j.n => ~OfJump(s[i], d)
        PROVE  Repair(s \o t, d, j)
    <3>1. a \in 1..Len(s \o t) /\ a + j.n \in 1..Len(s \o t) /\ (s \o t)[a + j.n] = Jump(d)
      BY <1>1, <2>2
    <3>2. \A i \in a..a + j.n - 1 : (s \o t)[i] = Unjump(d)
      BY <1>1, <2>2
    <3>3. \A i \in 1..Len(s \o t) : i < a \/ i > a + j.n => ~OfJump((s \o t)[i], d)
      BY <1>1, <1>2, <1>3, <1>4, <2>2
    <3> QED
      BY <3>1, <3>2, <3>3 DEF Repair
  <2> QED
    BY <1>4, <2>1, <2>2 DEF Repair
<1>5. CASE Repair(t, d, j) /\ \A c \in Range(s) : ~OfJump(c, d)
  <2>1. CASE j = [n |-> 1, top |-> TRUE] /\ \A i \in 1..Len(t) : ~OfJump(t[i], d)
    <3>1. \A i \in 1..Len(s \o t) : ~OfJump((s \o t)[i], d)
      BY <1>1, <1>2, <1>3, <1>5, <2>1
    <3> QED
      BY <2>1, <3>1 DEF Repair
  <2>2. ASSUME NEW a \in 1..Len(t),
               /\ a + j.n \in 1..Len(t)
               /\ \A i \in a..a + j.n - 1 : t[i] = Unjump(d)
               /\ t[a + j.n] = Jump(d)
               /\ \A i \in 1..Len(t) : i < a \/ i > a + j.n => ~OfJump(t[i], d)
        PROVE  Repair(s \o t, d, j)
    <3> DEFINE x == a + Len(s)
    <3>1. x \in 1..Len(s \o t) /\ x + j.n \in 1..Len(s \o t)
          /\ x + j.n \in Len(s) + 1..Len(s) + Len(t) /\ x + j.n - Len(s) = a + j.n
      BY SMTT(30), <1>1, <2>2
    <3>2. (s \o t)[x + j.n] = Jump(d)
      BY SMTT(30), <1>1, <2>2, <3>1
    <3>3. ASSUME NEW i \in x..x + j.n - 1 PROVE (s \o t)[i] = Unjump(d)
      <4>1. i - Len(s) \in a..a + j.n - 1 /\ i \in Len(s) + 1..Len(s) + Len(t)
        BY SMTT(30), <1>1, <2>2
      <4> QED
        BY <1>1, <2>2, <4>1
    <3>4. ASSUME NEW i \in 1..Len(s \o t), i < x \/ i > x + j.n
          PROVE  ~OfJump((s \o t)[i], d)
      <4>1. CASE i <= Len(s)
        BY <1>1, <1>2, <1>5, <4>1
      <4>2. CASE i > Len(s)
        <5>1. i \in Len(s) + 1..Len(s) + Len(t) /\ i - Len(s) \in 1..Len(t)
              /\ (i - Len(s) < a \/ i - Len(s) > a + j.n)
          BY <1>1, <3>4, <4>2
        <5> QED
          BY <1>1, <2>2, <5>1
      <4> QED
        BY <1>1, <4>1, <4>2
    <3> HIDE DEF x
    <3> QED
      BY <3>1, <3>2, <3>3, <3>4 DEF Repair
  <2> QED
    BY <1>5, <2>1, <2>2 DEF Repair
<1> QED
  BY <1>4, <1>5

LEMMA RepairTail ==
  ASSUME NEW S, NEW s \in Seq(S), s # <<>>, NEW d,
         NEW j \in [n : Nat, top : BOOLEAN], NEW k \in [n : Nat, top : BOOLEAN],
         Repair(s, d, j),
         ~OfJump(Head(s), d) => k = j,
         Head(s) = Unjump(d) => k.n = j.n - 1,
         Head(s) = Jump(d) => k = [n |-> j.n + 1, top |-> TRUE]
  PROVE  Repair(Tail(s), d, k)
<1>1. /\ Len(s) \in Nat \ {0} /\ Len(Tail(s)) = Len(s) - 1 /\ Head(s) = s[1]
      /\ \A i \in 1..Len(s) - 1 : Tail(s)[i] = s[i + 1]
  BY TailIs
<1>2. \A i \in 1..Len(s) - 1 : i + 1 \in 1..Len(s)
  BY <1>1
<1>3. CASE j = [n |-> 1, top |-> TRUE] /\ \A i \in 1..Len(s) : ~OfJump(s[i], d)
  BY <1>1, <1>2, <1>3 DEF Repair
<1>4. ASSUME NEW a \in 1..Len(s),
             /\ a + j.n \in 1..Len(s)
             /\ \A i \in a..a + j.n - 1 : s[i] = Unjump(d)
             /\ s[a + j.n] = Jump(d)
             /\ \A i \in 1..Len(s) : i < a \/ i > a + j.n => ~OfJump(s[i], d)
      PROVE  Repair(Tail(s), d, k)
  <2>1. CASE a > 1
    <3>1. k = j
      BY <1>1, <1>4, <2>1
    <3>2. a - 1 \in 1..Len(Tail(s)) /\ (a - 1) + k.n \in 1..Len(Tail(s))
          /\ (a - 1) + k.n + 1 = a + j.n
      BY <1>1, <1>4, <2>1, <3>1
    <3>3. Tail(s)[(a - 1) + k.n] = Jump(d)
      BY <1>1, <1>4, <3>2
    <3>4. ASSUME NEW i \in a - 1..(a - 1) + k.n - 1 PROVE Tail(s)[i] = Unjump(d)
      <4>1. i + 1 \in a..a + j.n - 1 /\ i \in 1..Len(s) - 1
        BY <1>1, <1>4, <2>1, <3>1
      <4> QED
        BY <1>1, <1>4, <4>1
    <3>5. ASSUME NEW i \in 1..Len(Tail(s)), i < a - 1 \/ i > (a - 1) + k.n
          PROVE  ~OfJump(Tail(s)[i], d)
      <4>1. i + 1 \in 1..Len(s) /\ (i + 1 < a \/ i + 1 > a + j.n) /\ i \in 1..Len(s) - 1
        BY <1>1, <1>4, <3>1, <3>5
      <4> QED
        BY <1>1, <1>4, <4>1
    <3> QED
      BY <3>2, <3>3, <3>4, <3>5 DEF Repair
  <2>2. CASE a = 1 /\ j.n > 0
    <3>1. Head(s) = Unjump(d)
      BY <1>1, <1>4, <2>2
    <3>2. k.n = j.n - 1 /\ 1 \in 1..Len(Tail(s)) /\ 1 + k.n \in 1..Len(Tail(s))
      BY <1>1, <1>4, <2>2, <3>1
    <3>3. Tail(s)[1 + k.n] = Jump(d)
      BY <1>1, <1>4, <2>2, <3>2
    <3>4. ASSUME NEW i \in 1..1 + k.n - 1 PROVE Tail(s)[i] = Unjump(d)
      <4>1. i + 1 \in a..a + j.n - 1 /\ i \in 1..Len(s) - 1
        BY <1>1, <1>4, <2>2, <3>2
      <4> QED
        BY <1>1, <1>4, <4>1
    <3>5. ASSUME NEW i \in 1..Len(Tail(s)), i < 1 \/ i > 1 + k.n
          PROVE  ~OfJump(Tail(s)[i], d)
      <4>1. i + 1 \in 1..Len(s) /\ i + 1 > a + j.n /\ i \in 1..Len(s) - 1
        BY <1>1, <1>4, <2>2, <3>2, <3>5
      <4> QED
        BY <1>1, <1>4, <4>1
    <3> QED
      BY <3>2, <3>3, <3>4, <3>5 DEF Repair
  <2>3. CASE a = 1 /\ j.n = 0
    <3>1. Head(s) = Jump(d)
      BY <1>1, <1>4, <2>3
    <3>2. k = [n |-> 1, top |-> TRUE]
      BY <2>3, <3>1
    <3>3. ASSUME NEW i \in 1..Len(Tail(s)) PROVE ~OfJump(Tail(s)[i], d)
      <4>1. i + 1 \in 1..Len(s) /\ i + 1 > a + j.n /\ i \in 1..Len(s) - 1
        BY <1>1, <2>3
      <4> QED
        BY <1>1, <1>4, <4>1
    <3> QED
      BY <3>2, <3>3 DEF Repair
  <2> QED
    BY <2>1, <2>2, <2>3
<1> QED
  BY <1>3, <1>4 DEF Repair

LEMMA RepairNew ==
  ASSUME NEW s, NEW d, NEW j \in [n : Nat, top : BOOLEAN],
         Len(s) = j.n + 1, s[j.n + 1] = Jump(d), \A i \in 1..j.n : s[i] = Unjump(d)
  PROVE  Repair(s, d, j)
<1>1. j.n \in Nat
  OBVIOUS
<1>2. 1 \in 1..Len(s) /\ 1 + j.n \in 1..Len(s) /\ s[1 + j.n] = Jump(d)
  BY <1>1
<1>3. \A i \in 1..1 + j.n - 1 : s[i] = Unjump(d)
  BY <1>1
<1>4. \A i \in 1..Len(s) : ~(i < 1 \/ i > 1 + j.n)
  BY <1>1
<1> QED
  BY <1>2, <1>3, <1>4 DEF Repair

\* The plan takes away every rule that is not wanted, and every jump when no
\* gateway is enabled; otherwise it brings the jumps into their place.
LEMMA PlanIsEnough ==
  ASSUME KernelOK, PanelOK
  PROVE  /\ \A r \in rules : ~Wanted(r) => [op |-> "delete", gen |-> r.gen] \in Range(Plan)
         /\ \A c \in Range(Plan) : c.op = "jump" => On(config) # {}
         /\ On(config) = {} => \A d \in Dirs : Block(Plan, d, jumps[d].n)
         /\ On(config) # {} => \A d \in Dirs : Repair(Plan, d, jumps[d])
<1> DEFINE p == SetToSeq(ChainCommands) \o SetToSeq(DeleteCommands) \o SetToSeq(AppendCommands)
           x == JumpCommands("tx")
           y == JumpCommands("rx")
<1>1. Plan = (p \o x) \o y
  BY DEF Plan, ChainCommands, DeleteCommands, AppendCommands
<1>2. p \in Seq(Commands) /\ Range(p) = ChainCommands \cup DeleteCommands \cup AppendCommands
  <2> DEFINE c == SetToSeq(ChainCommands)
             d == SetToSeq(DeleteCommands)
             a == SetToSeq(AppendCommands)
             cd == c \o d
  <2>1. /\ c \in Seq(Commands) /\ Range(c) = ChainCommands
        /\ d \in Seq(Commands) /\ Range(d) = DeleteCommands
        /\ a \in Seq(Commands) /\ Range(a) = AppendCommands
    BY PlanSets, SeqOfSet
  <2> HIDE DEF c, d, a
  <2>2. cd \in Seq(Commands) /\ Range(cd) = Range(c) \cup Range(d)
    BY <2>1, RangeConcat
  <2> HIDE DEF cd
  <2>3. cd \o a \in Seq(Commands) /\ Range(cd \o a) = Range(cd) \cup Range(a)
    BY <2>1, <2>2, RangeConcat
  <2> QED
    BY <2>1, <2>2, <2>3 DEF cd, c, d, a
<1>3. \A d : JumpCommands(d) \in Seq(Commands)
             /\ Range(JumpCommands(d)) \subseteq [op : {"unjump", "jump"}, dir : {d} \cap Dirs]
  BY JumpPlan
<1>4. \A r \in rules : ~Wanted(r) => [op |-> "delete", gen |-> r.gen] \in Range(Plan)
  BY PlanIs DEF DeleteCommands, Kept
<1>5. ASSUME NEW d \in Dirs
      PROVE  /\ On(config) = {} => Block(JumpCommands(d), d, jumps[d].n)
             /\ On(config) # {} => Repair(JumpCommands(d), d, jumps[d])
  <2> DEFINE n == jumps[d].n
             U == Repeat([op |-> "unjump", dir |-> d], n)
             J == IF On(config) # {} THEN <<[op |-> "jump", dir |-> d]>> ELSE <<>>
  <2>1. n \in Nat /\ U \in Seq(Commands) /\ Len(U) = n /\ \A i \in 1..n : U[i] = Unjump(d)
    BY DEF KernelOK, Repeat, Unjump, Commands
  <2>2. CASE On(config) # {} /\ jumps[d] = [n |-> 1, top |-> TRUE]
    <3>1. JumpCommands(d) = <<>>
      BY <2>2 DEF JumpCommands
    <3> QED
      BY <2>2, <3>1 DEF Repair
  <2>3. CASE On(config) = {}
    <3>1. JumpCommands(d) = U \o <<>>
      BY <2>3 DEF JumpCommands
    <3> HIDE DEF U
    <3>2. JumpCommands(d) = U
      BY <2>1, <3>1
    <3> HIDE DEF n
    <3>3. 1 \in 1..Len(U) + 1 /\ Len(U) + 1 \in 1..Len(U) + 1 /\ (Len(U) + 1) - 1 >= n
          /\ \A i \in 1..(Len(U) + 1) - 1 : U[i] = Unjump(d)
      BY <2>1
    <3>4. \E b \in 1..Len(U) + 1 : b - 1 >= n /\ \A i \in 1..b - 1 : U[i] = Unjump(d)
      BY <3>3
    <3>5. Block(U, d, n)
      BY <3>3, <3>4 DEF Block
    <3> QED
      BY <2>3, <3>2, <3>5 DEF n
  <2>4. CASE On(config) # {} /\ jumps[d] # [n |-> 1, top |-> TRUE]
    <3>1. JumpCommands(d) = U \o <<Jump(d)>>
      BY <2>4 DEF JumpCommands, Jump
    <3> HIDE DEF U
    <3> DEFINE s == U \o <<Jump(d)>>
    <3>2. Len(s) = n + 1 /\ s[n + 1] = Jump(d) /\ \A i \in 1..n : s[i] = Unjump(d)
      BY SMTT(30), <2>1
    <3> HIDE DEF s, n
    <3>3. jumps[d] \in [n : Nat, top : BOOLEAN] /\ n = jumps[d].n
      BY DEF KernelOK, n
    <3>4. Repair(s, d, jumps[d])
      BY <3>2, <3>3, RepairNew
    <3> QED
      BY <2>4, <3>1, <3>4 DEF s
  <2> QED
    BY <2>2, <2>3, <2>4
<1>6. \A d : \A c \in Range(JumpCommands(d)) : c.op = "jump" => On(config) # {}
  <2> SUFFICES ASSUME NEW d, NEW c \in Range(JumpCommands(d)), c.op = "jump", On(config) = {}
               PROVE  FALSE
    OBVIOUS
  <2> DEFINE n == jumps[d].n
             U == Repeat([op |-> "unjump", dir |-> d], n)
  <2>1. d \in Dirs /\ JumpCommands(d) = U \o <<>>
    <3>1. d \in Dirs
      BY <1>3
    <3> QED
      BY <3>1 DEF JumpCommands
  <2>2. n \in Nat /\ U \in Seq(Commands) /\ Len(U) = n /\ \A i \in 1..n : U[i] = Unjump(d)
    BY <2>1 DEF KernelOK, Repeat, Unjump, Commands
  <2> HIDE DEF U
  <2>3. JumpCommands(d) = U
    BY <2>1, <2>2
  <2>4. c = Unjump(d)
    BY <2>2, <2>3 DEF Range
  <2> QED
    BY <2>4 DEF Unjump
<1>7. \A c \in Range(Plan) : c.op = "jump" => On(config) # {}
  BY <1>6, PlanIs DEF ChainCommands, DeleteCommands, AppendCommands
<1>8. \A c \in Range(p) : \A d : ~OfJump(c, d)
  BY <1>2 DEF ChainCommands, DeleteCommands, AppendCommands, OfJump, Unjump, Jump
<1>9. \A d : \A e : d # e => \A c \in Range(JumpCommands(e)) : ~OfJump(c, d)
  BY <1>3 DEF OfJump, Unjump, Jump
<1>10. x \in Seq(Commands) /\ y \in Seq(Commands)
  BY <1>3
<1> HIDE DEF p, x, y
<1> DEFINE px == p \o x
<1>11. px \in Seq(Commands) /\ Range(px) = Range(p) \cup Range(x)
  BY <1>2, <1>10, RangeConcat
<1>12. ASSUME NEW d \in Dirs, On(config) = {} PROVE Block(Plan, d, jumps[d].n)
  <2>1. jumps[d].n \in Nat
    BY DEF KernelOK
  <2>2. CASE d = "tx"
    <3>1. Block(x, d, jumps[d].n)
      BY <1>5, <1>12, <2>2 DEF x
    <3>2. Block(px, d, jumps[d].n)
      BY <1>2, <1>10, <2>1, <3>1, BlockConcat
    <3> HIDE DEF px
    <3>3. Block(px \o y, d, jumps[d].n)
      BY <1>10, <1>11, <2>1, <3>2, BlockConcat
    <3> QED
      BY <1>1, <3>3 DEF px
  <2>3. CASE d = "rx"
    <3>1. Block(y, d, jumps[d].n)
      BY <1>5, <1>12, <2>3 DEF y
    <3> HIDE DEF px
    <3>3. Block(px \o y, d, jumps[d].n)
      BY <1>10, <1>11, <2>1, <3>1, BlockConcat
    <3> QED
      BY <1>1, <3>3 DEF px
  <2> QED
    BY <2>2, <2>3, AccountingAssumption
<1>13. ASSUME NEW d \in Dirs, On(config) # {} PROVE Repair(Plan, d, jumps[d])
  <2> DEFINE j == jumps[d]
  <2>1. j.n \in Nat
    BY DEF KernelOK
  <2> HIDE DEF j
  <2>2. CASE d = "tx"
    <3>1. Repair(x, d, j) /\ \A c \in Range(y) : ~OfJump(c, d)
      BY <1>5, <1>9, <1>13, <2>2 DEF x, y, j
    <3>2. Repair(px, d, j)
      BY <1>2, <1>8, <1>10, <2>1, <3>1, RepairConcat
    <3> HIDE DEF px
    <3>3. Repair(px \o y, d, j)
      BY <1>10, <1>11, <2>1, <3>1, <3>2, RepairConcat
    <3> QED
      BY <1>1, <3>3 DEF px, j
  <2>3. CASE d = "rx"
    <3>1. Repair(y, d, j) /\ \A c \in Range(x) : ~OfJump(c, d)
      BY <1>5, <1>9, <1>13, <2>3 DEF x, y, j
    <3>2. \A c \in Range(px) : ~OfJump(c, d)
      BY <1>8, <1>11, <3>1
    <3> HIDE DEF px
    <3>3. Repair(px \o y, d, j)
      BY <1>10, <1>11, <2>1, <3>1, <3>2, RepairConcat
    <3> QED
      BY <1>1, <3>3 DEF px, j
  <2> QED
    BY <2>2, <2>3, AccountingAssumption
<1> QED
  BY <1>4, <1>7, <1>12, <1>13

\* What is left to do is enough, until somebody copies a jump meanwhile.
TodoEnough ==
  pc = "commands" =>
    /\ \A r \in rules : ~Wanted(r) => [op |-> "delete", gen |-> r.gen] \in Range(todo)
    /\ \A c \in Range(todo) : c.op = "jump" => On(config) # {}
    /\ ~astray /\ On(config) = {} => \A d \in Dirs : Block(todo, d, jumps[d].n)
    /\ ~astray /\ ~touched /\ On(config) # {} => \A d \in Dirs : Repair(todo, d, jumps[d])

Between == {"idle", "changing", "persisting", "applying", "save"}

HasEntry(m, g) == m.egress[g] # NoEntry

\* What the panel remembers of what it installed, in memory and in its last save.
Remembers ==
  /\ pc = "startup" => mem = db /\ (unsaved => astray)
  /\ pc \notin {"persisting", "applying"} => old = config
  /\ pc \in {"snapshot", "commands"} => mem.pending \/ On(config) # {}
  /\ ~astray =>
       /\ pc # "startup" => \A g \in Listed(old) : HasEntry(mem, g)
       /\ Installed => (pc \in Between => mem.pending \/ On(old) # {}) /\ pc # "nothing"
       /\ ~unsaved =>
            /\ pc # "startup" /\ (pc \in Between \ {"save"} \/ kind # "commit") =>
                 \A g \in Listed(old) : HasEntry(db, g)
            /\ Installed =>
                 \/ db.pending \/ \E g \in Gateways : HasEntry(db, g)
                 \/ pc \notin {"persisting", "applying"} /\ Listed(config) # {}

\* A gateway shown healthy is the one that is counted.
HealthyCounted ==
  ~touched /\ ~astray /\ pc \in Between =>
    \A g \in On(old) : mem.egress[g].status = "healthy" =>
      \A d \in Dirs : /\ jumps[d] = [n |-> 1, top |-> TRUE]
                      /\ \A r \in rules : r.gw = g /\ r.dir = d => r.peer = old[g].peer
                      /\ \E r \in rules : r.gw = g /\ r.dir = d

FullInv == IInv /\ TodoEnough /\ Remembers /\ HealthyCounted

\* A sample has an entry for every gateway that is listed, and shows it healthy
\* only when it was read.
LEMMA SampledListed ==
  ASSUME KernelOK, PanelOK, NEW ok \in BOOLEAN, ok => Complete, NEW g \in Gateways
  PROVE  /\ g \in Listed(config) \/ HasEntry(mem, g) => Sampled(ok).egress[g] # NoEntry
         /\ g \in On(config) /\ ~ok => Sampled(ok).egress[g].status # "healthy"
<1>1. Sampled(ok).egress[g] =
        IF config[g] = Absent THEN mem.egress[g]
        ELSE IF ~config[g].on THEN [Entry(g) EXCEPT !.status = "disabled"]
        ELSE IF ok THEN Read(g)
        ELSE [Entry(g) EXCEPT !.status = "interrupted"]
  BY DEF Sampled
<1>2. Entry(g) \in EntryRecords
  BY EntryIs
<1>3. \A s \in {"disabled", "interrupted"} : [Entry(g) EXCEPT !.status = s].status = s
  BY <1>2 DEF EntryRecords
<1>4. Read(g).status = "healthy" /\ NoEntry.status = "none"
  BY DEF Read, NoEntry
<1>5. CASE config[g] = Absent
  BY <1>1, <1>5 DEF HasEntry, On, Listed, Absent
<1>6. CASE config[g] # Absent /\ ~config[g].on
  BY <1>1, <1>3, <1>4, <1>6 DEF On
<1>7. CASE config[g] # Absent /\ config[g].on /\ ok
  BY <1>1, <1>4, <1>7
<1>8. CASE config[g] # Absent /\ config[g].on /\ ~ok
  BY <1>1, <1>3, <1>4, <1>8
<1> QED
  BY <1>5, <1>6, <1>7, <1>8

LEMMA FollowsListed ==
  ASSUME PanelOK, NEW g \in Gateways
  PROVE  g \in Listed(config) => Follows(g) # NoEntry
<1> SUFFICES ASSUME g \in Listed(config) PROVE Follows(g) # NoEntry
  OBVIOUS
<1> DEFINE e == Entry(g)
           st == IF config[g].on THEN e.status ELSE "disabled"
           i == e.init /\ e.peer = config[g].peer
<1>1. e \in EntryRecords
  BY EntryIs
<1> HIDE DEF e
<1>2. st # "none"
  BY <1>1 DEF EntryRecords
<1>3. Follows(g) = [e EXCEPT !.init = i, !.peer = config[g].peer, !.status = st]
  BY <1>1 DEF EntryRecords, Follows, Listed, e
<1> HIDE DEF st, i
<1>4. Follows(g).status = st
  BY <1>1, <1>3 DEF EntryRecords
<1>5. NoEntry.status = "none"
  BY DEF NoEntry
<1> QED
  BY <1>2, <1>4, <1>5

\* The head of the list, which is what CommandOk and CommandFails run.
LEMMA HeadIs ==
  ASSUME IInv, todo # <<>>
  PROVE  /\ Head(todo) \in Commands /\ Tail(todo) \in Seq(Commands) /\ todo \in Seq(Commands)
         /\ Range(todo) = {Head(todo)} \cup Range(Tail(todo))
         /\ Head(todo).op = "append" => config[Head(todo).gw].on /\ Head(todo).gw \in On(config)
<1>1. todo \in Seq(Commands)
  BY DEF IInv, TodoOK
<1>2. Head(todo) \in Commands /\ Tail(todo) \in Seq(Commands)
      /\ Range(todo) = {Head(todo)} \cup Range(Tail(todo))
  BY <1>1, RangeTail
<1>3. Head(todo).op = "append" => config[Head(todo).gw].on
  BY <1>2 DEF IInv, TodoOK
<1> QED
  BY <1>1, <1>2, <1>3 DEF On, Commands

\* What a command does to the jumps of a direction.
LEMMA JumpsMove ==
  ASSUME KernelOK, NEW c \in Commands, Executes(c), NEW d \in Dirs
  PROVE  /\ ~OfJump(c, d) => jumps'[d] = jumps[d]
         /\ c = Unjump(d) => jumps[d].n > 0 /\ jumps'[d].n = jumps[d].n - 1
         /\ c = Jump(d) => jumps'[d] = [n |-> jumps[d].n + 1, top |-> TRUE]
         /\ jumps'[d] \in [n : Nat, top : BOOLEAN]
<1>1. jumps \in [Dirs -> [n : Nat, top : BOOLEAN]]
  BY DEF KernelOK
<1>2. CASE c.op \in {"chain", "delete", "append"}
  <2>1. jumps' = jumps
    BY <1>2 DEF Executes
  <2> QED
    BY <1>1, <1>2, <2>1 DEF OfJump, Unjump, Jump
<1>3. CASE c.op = "unjump"
  <2>1. /\ jumps' = [jumps EXCEPT ![c.dir] = [n |-> @.n - 1, top |-> @.top /\ @.n > 1]]
        /\ c.dir \in Dirs /\ jumps[c.dir].n > 0 /\ c = Unjump(c.dir)
    BY <1>3 DEF Executes, Commands, Possible, Unjump
  <2>2. CASE d = c.dir
    <3>1. jumps'[d] = [n |-> jumps[d].n - 1, top |-> jumps[d].top /\ jumps[d].n > 1]
      BY <1>1, <2>1, <2>2
    <3>2. jumps[d].n \in Nat /\ (jumps[d].top /\ jumps[d].n > 1) \in BOOLEAN
      BY <1>1
    <3> QED
      BY <2>1, <2>2, <3>1, <3>2 DEF OfJump, Unjump, Jump
  <2>3. CASE d # c.dir
    BY <1>1, <2>1, <2>3 DEF OfJump, Unjump, Jump
  <2> QED
    BY <2>2, <2>3
<1>4. CASE c.op = "jump"
  <2>1. /\ jumps' = [jumps EXCEPT ![c.dir] = [n |-> @.n + 1, top |-> TRUE]]
        /\ c.dir \in Dirs /\ c = Jump(c.dir)
    BY <1>4 DEF Executes, Commands, Jump
  <2>2. CASE d = c.dir
    <3>1. jumps'[d] = [n |-> jumps[d].n + 1, top |-> TRUE]
      BY <1>1, <2>1, <2>2
    <3> QED
      BY <1>1, <2>1, <2>2, <3>1 DEF OfJump, Unjump, Jump
  <2>3. CASE d # c.dir
    BY <1>1, <2>1, <2>3 DEF OfJump, Unjump, Jump
  <2> QED
    BY <2>2, <2>3
<1> QED
  BY <1>2, <1>3, <1>4 DEF Commands

\* One command less to do, one step nearer.
LEMMA CommandEnough ==
  ASSUME IInv, TodoEnough, CommandOk
  PROVE  TodoEnough'
<1> DEFINE c == Head(todo)
<1>1. /\ pc = "commands" /\ todo # <<>> /\ Executes(c) /\ todo' = Tail(todo)
      /\ UNCHANGED <<config, pc, ghosts>>
  BY DEF CommandOk
<1>2. c \in Commands /\ Tail(todo) \in Seq(Commands) /\ todo \in Seq(Commands)
      /\ Range(todo) = {c} \cup Range(Tail(todo))
  BY <1>1, HeadIs
<1>3. KernelOK /\ PanelOK
  BY DEF IInv
<1>4. \A d \in Dirs : /\ ~OfJump(c, d) => jumps'[d] = jumps[d]
                      /\ c = Unjump(d) => jumps[d].n > 0 /\ jumps'[d].n = jumps[d].n - 1
                      /\ c = Jump(d) => jumps'[d] = [n |-> jumps[d].n + 1, top |-> TRUE]
                      /\ jumps'[d] \in [n : Nat, top : BOOLEAN]
                      /\ jumps[d] \in [n : Nat, top : BOOLEAN]
  BY <1>1, <1>2, <1>3, JumpsMove DEF KernelOK
<1>5. ASSUME NEW r \in rules', ~Wanted(r)'
      PROVE  [op |-> "delete", gen |-> r.gen] \in Range(todo')
  <2>1. ~Wanted(r)
    BY <1>1, <1>5 DEF Wanted
  <2>2. r \in rules /\ ~(c = [op |-> "delete", gen |-> r.gen])
    <3>1. CASE c.op = "append"
      <4>1. rules' = rules \cup {[gw |-> c.gw, dir |-> c.dir, peer |-> config[c.gw].peer,
                                  gen |-> born + 1, life |-> born + 1]}
            /\ config[c.gw].on
        BY <1>1, <3>1, HeadIs DEF Executes
      <4> QED
        BY <2>1, <3>1, <4>1 DEF Wanted
    <3>2. CASE c.op = "delete"
      <4>1. rules' = {s \in rules : s.gen # c.gen}
        BY <1>1, <3>2 DEF Executes
      <4>2. r \in rules /\ r.gen # c.gen
        BY <4>1
      <4> HIDE DEF c
      <4> QED
        BY <4>2
    <3>3. CASE c.op \in {"chain", "unjump", "jump"}
      <4>1. rules' = rules
        BY <1>1, <3>3 DEF Executes
      <4> HIDE DEF c
      <4> QED
        BY <3>3, <4>1
    <3> QED
      BY <1>2, <3>1, <3>2, <3>3 DEF Commands
  <2>3. [op |-> "delete", gen |-> r.gen] \in Range(todo)
    BY <1>1, <2>1, <2>2 DEF TodoEnough
  <2> QED
    BY <1>1, <1>2, <2>2, <2>3
<1>6. \A b \in Range(todo') : b.op = "jump" => On(config') # {}
  BY <1>1, <1>2 DEF TodoEnough
<1>7. ASSUME ~astray, On(config) = {}, NEW d \in Dirs
      PROVE  Block(todo', d, jumps'[d].n)
  <2> DEFINE n == jumps[d].n
             k == jumps'[d].n
  <2>1. Block(todo, d, n)
    BY <1>1, <1>7 DEF TodoEnough
  <2>2. n \in Nat /\ k \in Nat
    BY <1>4
  <2>3. c.op # "jump"
    BY <1>1, <1>2, <1>7 DEF TodoEnough
  <2>4. c # Jump(d)
    BY <2>3 DEF Jump
  <2>5. k <= n /\ (c = Unjump(d) => k = n - 1)
    <3>1. CASE c = Unjump(d)
      <4>1. k = n - 1
        BY <1>4, <3>1
      <4> HIDE DEF c, n, k
      <4> QED
        BY <2>2, <4>1
    <3>2. CASE c # Unjump(d)
      <4>1. jumps'[d] = jumps[d]
        BY <1>4, <2>4, <3>2 DEF OfJump
      <4> QED
        BY <2>2, <3>2, <4>1
    <3> QED
      BY <3>1, <3>2
  <2> HIDE DEF n, k
  <2>6. Block(Tail(todo), d, k)
    BY <1>1, <1>2, <2>1, <2>2, <2>5, BlockTail
  <2> QED
    BY <1>1, <2>6 DEF k
<1>8. ASSUME ~astray, ~touched, On(config) # {}, NEW d \in Dirs
      PROVE  Repair(todo', d, jumps'[d])
  <2> DEFINE j == jumps[d]
             k == jumps'[d]
  <2>1. Repair(todo, d, j)
    BY <1>1, <1>8 DEF TodoEnough
  <2>2. j \in [n : Nat, top : BOOLEAN] /\ k \in [n : Nat, top : BOOLEAN]
        /\ (~OfJump(c, d) => k = j) /\ (c = Unjump(d) => k.n = j.n - 1)
        /\ (c = Jump(d) => k = [n |-> j.n + 1, top |-> TRUE])
    BY <1>4
  <2> HIDE DEF j, k
  <2>3. Repair(Tail(todo), d, k)
    BY <1>1, <1>2, <2>1, <2>2, RepairTail
  <2> QED
    BY <1>1, <2>3 DEF k
<1> HIDE DEF c
<1>9. config' = config /\ pc' = pc /\ astray' = astray /\ touched' = touched /\ On(config') = On(config)
  BY <1>1 DEF ghosts, On
<1> QED
  BY <1>5, <1>6, <1>7, <1>8, <1>9 DEF TodoEnough, On

LEMMA OnIsListed == \A c \in [Gateways -> Drafts] : On(c) \subseteq Listed(c)
  BY DEF On, Listed, Absent

\* Where a sample ends: what the kernel holds by then is accounted for.
LEMMA SampleEndsFull ==
  ASSUME IInv, Remembers, pc \in {"nothing", "snapshot", "commands"},
         NEW ok \in BOOLEAN, ok => Complete,
         SampleEnds(ok), UNCHANGED <<config, db, kind, old, ghosts, events>>,
         Installed' => Installed \/ On(config) # {},
         ok /\ ~astray /\ Installed' => On(config) # {},
         ok /\ ~astray /\ ~touched =>
           \A g \in On(config) : \A d \in Dirs :
             /\ jumps'[d] = [n |-> 1, top |-> TRUE]
             /\ \A r \in rules' : r.gw = g /\ r.dir = d => r.peer = config[g].peer
             /\ \E r \in rules' : r.gw = g /\ r.dir = d
  PROVE  TodoEnough' /\ Remembers' /\ HealthyCounted'
<1>1. /\ mem' = Sampled(ok) /\ pc' \in {"changing", "save"} /\ (pc' = "changing" => kind = "begin")
      /\ config' = config /\ old' = config /\ db' = db /\ kind' = kind
      /\ astray' = astray /\ touched' = touched /\ unsaved' = unsaved
  BY DEF SampleEnds, AfterSample, ghosts, Remembers
<1>2. KernelOK /\ PanelOK /\ old = config
  BY DEF IInv, Remembers
<1>3. \A g \in Gateways : /\ g \in Listed(config) => HasEntry(mem', g)
                          /\ g \in On(config) /\ ~ok => mem'.egress[g].status # "healthy"
  BY <1>1, <1>2, SampledListed DEF HasEntry
<1>4. (mem'.pending <=> ~ok) /\ On(config) \subseteq Listed(config) /\ Listed(config) \subseteq Gateways
      /\ On(config) \subseteq Gateways
  BY <1>1, <1>2, OnIsListed DEF Sampled, Listed, PanelOK, On
<1>5. TodoEnough'
  BY <1>1 DEF TodoEnough
<1>6. Remembers'
  <2>1. ASSUME ~astray
        PROVE  /\ \A g \in Listed(config) : HasEntry(mem', g)
               /\ Installed' => mem'.pending \/ On(config) # {}
    BY <1>3, <1>4, <2>1
  <2>2. ASSUME ~astray, ~unsaved, kind # "commit"
        PROVE  \A g \in Listed(config) : HasEntry(db, g)
    BY <1>2, <2>2 DEF Remembers
  <2>3. ASSUME ~astray, ~unsaved, Installed'
        PROVE  db.pending \/ (\E g \in Gateways : HasEntry(db, g)) \/ Listed(config) # {}
    BY <1>4, <2>3 DEF Remembers
  <2> QED
    BY <1>1, <2>1, <2>2, <2>3 DEF Remembers, Between, Listed, On, HasEntry
<1>7. HealthyCounted'
  <2> SUFFICES ASSUME ~touched, ~astray, NEW g \in On(config), mem'.egress[g].status = "healthy",
                      NEW d \in Dirs
               PROVE  /\ jumps'[d] = [n |-> 1, top |-> TRUE]
                      /\ \A r \in rules' : r.gw = g /\ r.dir = d => r.peer = config[g].peer
                      /\ \E r \in rules' : r.gw = g /\ r.dir = d
    BY <1>1 DEF HealthyCounted, On
  <2>1. ok
    BY <1>3, <1>4
  <2> QED
    BY <2>1
<1> QED
  BY <1>5, <1>6, <1>7

LEMMA SamplingFull == FullInv /\ Sampling => TodoEnough' /\ Remembers' /\ HealthyCounted'
<1> SUFFICES ASSUME FullInv, Sampling PROVE TodoEnough' /\ Remembers' /\ HealthyCounted'
  OBVIOUS
<1> USE DEF FullInv
<1>1. KernelOK /\ PanelOK
  BY DEF IInv
<1>2. CASE NothingToRead
  <2>1. /\ SampleEnds(TRUE) /\ UNCHANGED <<kernel, config, db, kind, old, ghosts, events>>
        /\ pc = "nothing" /\ On(config) = {}
    BY <1>1, <1>2 DEF NothingToRead, PanelOK
  <2>2. Complete /\ (Installed' <=> Installed)
    BY <2>1 DEF Complete, Installed, kernel
  <2>3. ~astray => ~Installed
    BY <2>1 DEF Remembers
  <2> QED
    BY <2>1, <2>2, <2>3, SampleEndsFull
<1>3. CASE Snapshot
  <2>1. /\ pc = "snapshot" /\ pc' = "commands" /\ touched' = FALSE /\ todo' = Plan
        /\ UNCHANGED <<kernel, config, mem, db, kind, old, unsaved, astray, events>>
    BY <1>3 DEF Snapshot
  <2>2. TodoEnough'
    BY <1>1, <2>1, PlanIsEnough DEF TodoEnough, Wanted, On, kernel
  <2>3. Remembers'
    BY <2>1 DEF Remembers, Installed, kernel, Between, Listed, On, HasEntry
  <2>4. HealthyCounted'
    BY <2>1 DEF HealthyCounted, Between
  <2> QED
    BY <2>2, <2>3, <2>4
<1>4. ASSUME todo # <<>>, Executes(Head(todo)), Installed'
      PROVE  Installed \/ On(config) # {} \/ \E d : Head(todo) = Jump(d)
  <2> DEFINE c == Head(todo)
  <2>1. c \in Commands /\ (c.op = "append" => On(config) # {})
    BY <1>4, HeadIs
  <2>2. CASE c.op = "append"
    BY <2>1, <2>2
  <2>3. CASE c.op = "jump"
    BY <2>1, <2>3 DEF Commands, Jump
  <2>4. CASE c.op \in {"chain", "delete"}
    <3>1. rules' \subseteq rules /\ jumps' = jumps
      BY <1>4, <2>4 DEF Executes
    <3> QED
      BY <1>4, <3>1 DEF Installed
  <2>5. CASE c.op = "unjump"
    <3>1. rules' = rules
      BY <1>4, <2>5 DEF Executes
    <3>2. \A d \in Dirs : jumps'[d].n > 0 => jumps[d].n > 0
      <4>1. c \notin {Jump(d) : d \in Dirs}
        BY <2>5 DEF Jump
      <4> QED
        BY <1>1, <1>4, <2>1, <4>1, JumpsMove DEF OfJump
    <3> QED
      BY <1>4, <3>1, <3>2 DEF Installed
  <2> HIDE DEF c
  <2> QED
    BY <2>1, <2>2, <2>3, <2>4, <2>5 DEF Commands, c
<1>5. ASSUME pc = "commands", todo # <<>>, Executes(Head(todo)), Installed'
      PROVE  Installed \/ On(config) # {}
  <2>1. Head(todo) \in Range(todo)
    BY <1>5, HeadIs
  <2> QED
    BY <1>4, <1>5, <2>1 DEF TodoEnough, Jump
<1>6. CASE CommandOk
  <2>1. TodoEnough'
    BY <1>6, CommandEnough
  <2>2. /\ pc = "commands" /\ pc' = pc
        /\ UNCHANGED <<config, mem, db, kind, old, touched, unsaved, astray>>
    BY <1>6 DEF CommandOk, ghosts
  <2>3. Installed' => Installed \/ On(config) # {}
    BY <1>5, <1>6 DEF CommandOk
  <2>4. On(config) \subseteq Listed(config)
    BY <1>1, OnIsListed DEF PanelOK
  <2>5. Remembers'
    BY <2>2, <2>3, <2>4 DEF Remembers, Between, Listed, On, HasEntry
  <2>6. HealthyCounted'
    BY <2>2 DEF HealthyCounted, Between
  <2> QED
    BY <2>1, <2>5, <2>6
<1>7. CASE CommandFails
  <2>1. /\ SampleEnds(FALSE) /\ UNCHANGED <<config, db, kind, old, ghosts, events>>
        /\ pc = "commands" /\ todo # <<>> /\ (UNCHANGED kernel \/ Executes(Head(todo)))
    BY <1>7 DEF CommandFails
  <2>2. Installed' => Installed \/ On(config) # {}
    BY <1>5, <2>1 DEF Installed, kernel
  <2> QED
    BY <2>1, <2>2, SampleEndsFull
<1>8. CASE ReadsCounters
  <2>1. /\ pc = "commands" /\ todo = <<>> /\ Complete /\ SampleEnds(TRUE)
        /\ UNCHANGED <<kernel, config, db, kind, old, ghosts, events>>
    BY <1>8 DEF ReadsCounters
  <2>2. \A r \in rules : Wanted(r)
    BY <2>1 DEF TodoEnough, Range
  <2>3. rules' = rules /\ jumps' = jumps /\ (Installed' <=> Installed)
    BY <2>1 DEF Installed, kernel
  <2>4. ASSUME ~astray, On(config) = {} PROVE ~Installed
    <3>1. rules = {}
      BY <1>1, <2>2, <2>4 DEF Wanted, On, KernelOK, Apart
    <3>2. ASSUME NEW d \in Dirs PROVE jumps[d].n = 0
      <4>1. Block(todo, d, jumps[d].n) /\ Len(todo) = 0 /\ jumps[d].n \in Nat
        BY <1>1, <2>1, <2>4 DEF TodoEnough, KernelOK
      <4> QED
        BY <4>1 DEF Block
    <3> QED
      BY <3>1, <3>2 DEF Installed
  <2>5. ASSUME ~astray, ~touched, NEW g \in On(config), NEW d \in Dirs
        PROVE  /\ jumps[d] = [n |-> 1, top |-> TRUE]
               /\ \A r \in rules : r.gw = g /\ r.dir = d => r.peer = config[g].peer
               /\ \E r \in rules : r.gw = g /\ r.dir = d
    <3>1. Repair(todo, d, jumps[d]) /\ Len(todo) = 0
      BY <2>1, <2>5 DEF TodoEnough
    <3>2. jumps[d] = [n |-> 1, top |-> TRUE]
      BY <3>1 DEF Repair
    <3> QED
      BY <2>1, <2>2, <2>5, <3>2 DEF Wanted, Complete
  <2> QED
    BY <2>1, <2>3, <2>4, <2>5, SampleEndsFull
<1>9. CASE ReadFails
  <2>1. /\ pc \in {"commands", "snapshot"} /\ SampleEnds(FALSE)
        /\ UNCHANGED <<kernel, config, db, kind, old, ghosts, events>>
    BY <1>9 DEF ReadFails
  <2>2. Installed' <=> Installed
    BY <2>1 DEF Installed, kernel
  <2> QED
    BY <2>1, <2>2, SampleEndsFull
<1> QED
  BY <1>2, <1>3, <1>6, <1>7, <1>8, <1>9 DEF Sampling

\* The operations around a sample.
LEMMA PanelFull ==
  FullInv /\ (\/ SampleBegin \/ ResetBegin \/ ChangeBegin \/ ChangeSaved \/ ChangePersisted
              \/ ChangeRefused \/ ChangeUndone \/ ChangeApplied \/ Startup \/ Save \/ PollSaves)
    => TodoEnough' /\ Remembers' /\ HealthyCounted'
<1> SUFFICES ASSUME FullInv,
                    \/ SampleBegin \/ ResetBegin \/ ChangeBegin \/ ChangeSaved \/ ChangePersisted
                    \/ ChangeRefused \/ ChangeUndone \/ ChangeApplied \/ Startup \/ Save \/ PollSaves
             PROVE  TodoEnough' /\ Remembers' /\ HealthyCounted'
  OBVIOUS
<1> USE DEF FullInv
<1>1. KernelOK /\ PanelOK
  BY DEF IInv
<1>2. UNCHANGED kernel => (Installed' <=> Installed)
  BY DEF Installed, kernel
<1>3. On(config) \subseteq Listed(config) /\ On(old) \subseteq Listed(old)
      /\ Listed(config) \subseteq Gateways /\ Listed(old) \subseteq Gateways
  BY <1>1, OnIsListed DEF PanelOK, Listed
<1>4. ASSUME pc = "idle", kind' # "commit" \/ kind' = kind,
             \/ pc' = Reads
             \/ pc' = "changing",
             UNCHANGED <<kernel, config, mem, db, unsaved, touched, astray>>, old' = config
      PROVE  TodoEnough' /\ Remembers' /\ HealthyCounted'
  <2>1. old = config /\ old' = old
    BY <1>4 DEF Remembers
  <2>2. pc' \in {"snapshot", "nothing", "changing"}
        /\ (pc' = "snapshot" => mem.pending \/ On(config) # {})
        /\ (pc' = "nothing" => ~mem.pending /\ On(config) = {})
    BY <1>4 DEF Reads
  <2>3. TodoEnough'
    BY <2>2 DEF TodoEnough
  <2>4. Remembers'
    BY <1>2, <1>4, <2>1, <2>2 DEF Remembers, Between, Listed, On, HasEntry
  <2>5. HealthyCounted'
    BY <1>4, <2>1, <2>2 DEF HealthyCounted, Between, kernel, On
  <2> QED
    BY <2>3, <2>4, <2>5
<1>5. CASE SampleBegin
  BY <1>4, <1>5 DEF SampleBegin, Quiet, ghosts, Remembers
<1>6. CASE ResetBegin
  BY <1>4, <1>6 DEF ResetBegin, Quiet, ghosts, Remembers
<1>7. CASE ChangeBegin
  BY <1>4, <1>7 DEF ChangeBegin, Quiet, ghosts
<1>8. CASE ChangeSaved
  <2>1. /\ pc = "changing" /\ pc' = "persisting" /\ old = config
        /\ UNCHANGED <<kernel, db, unsaved, touched, astray, mem, kind, old>>
    BY <1>8 DEF ChangeSaved, Quiet, ghosts, Remembers
  <2>2. TodoEnough'
    BY <2>1 DEF TodoEnough
  <2>3. Remembers'
    BY <1>2, <1>3, <2>1 DEF Remembers, Between, Listed, On, HasEntry
  <2>4. HealthyCounted'
    BY <2>1 DEF HealthyCounted, Between, kernel, On
  <2> QED
    BY <2>2, <2>3, <2>4
<1>9. CASE ChangePersisted
  <2>1. /\ pc = "persisting" /\ pc' = "applying" /\ db' = mem /\ unsaved' = FALSE
        /\ UNCHANGED <<kernel, config, mem, kind, old, touched, astray>>
    BY <1>9 DEF ChangePersisted
  <2>2. TodoEnough'
    BY <2>1 DEF TodoEnough
  <2>3. Remembers'
    BY <1>2, <1>3, <2>1 DEF Remembers, Between, Listed, On, HasEntry
  <2>4. HealthyCounted'
    BY <2>1 DEF HealthyCounted, Between, kernel, On
  <2> QED
    BY <2>2, <2>3, <2>4
<1>10. CASE ChangeRefused
  <2>1. /\ pc = "changing" /\ pc' = "idle" /\ kind' = "sample" /\ old = config
        /\ UNCHANGED <<kernel, db, unsaved, touched, astray, config, mem, old>>
    BY <1>10 DEF ChangeRefused, Quiet, ghosts, Remembers
  <2>2. TodoEnough'
    BY <2>1 DEF TodoEnough
  <2>3. Remembers'
    BY <1>2, <2>1 DEF Remembers, Between, Listed, On, HasEntry
  <2>4. HealthyCounted'
    BY <2>1 DEF HealthyCounted, Between, kernel, On
  <2> QED
    BY <2>2, <2>3, <2>4
<1>11. CASE ChangeUndone
  <2>1. /\ pc \in {"applying", "persisting"} /\ pc' = "idle" /\ kind' = "sample"
        /\ unsaved' = FALSE => unsaved = FALSE
        /\ unsaved' \in BOOLEAN /\ unsaved \in BOOLEAN
        /\ (config' = old /\ astray' = astray) \/ astray' = TRUE
        /\ old' = config'
        /\ UNCHANGED <<kernel, db, touched, mem>>
    BY <1>1, <1>11 DEF ChangeUndone, PanelOK
  <2>2. TodoEnough'
    BY <2>1 DEF TodoEnough
  <2>3. Remembers'
    BY <1>2, <1>3, <2>1 DEF Remembers, Between, Listed, On, HasEntry
  <2>4. HealthyCounted'
    BY <2>1 DEF HealthyCounted, Between, kernel, On
  <2> QED
    BY <2>2, <2>3, <2>4
<1>12. ASSUME NEW before, NEW p \in BOOLEAN, Commits(before, p), old' = config, pc \in {"applying", "startup"},
              UNCHANGED <<kernel, config, db, unsaved, touched, astray>>,
              ~astray /\ Installed => p \/ On(before) # {},
              ~astray /\ ~unsaved /\ Installed => db.pending \/ (\E g \in Gateways : HasEntry(db, g))
                                                  \/ Listed(config) # {}
       PROVE  TodoEnough' /\ Remembers' /\ HealthyCounted'
  <2>1. /\ kind' = "commit" /\ mem' = Committed(before, p)
        /\ pc' \in {"snapshot", "nothing", "save"}
        /\ pc' = "snapshot" => mem'.pending \/ On(config) # {}
        /\ pc' # "snapshot" => ~mem'.pending /\ On(config) = {}
    BY <1>12 DEF Commits
  <2>2. mem'.egress = [g \in Gateways |-> Follows(g)]
        /\ (mem'.pending <=> p \/ On(before) # {})
    BY <1>1, <2>1 DEF Committed, PanelOK, Memories
  <2>3. \A g \in Listed(config) : HasEntry(mem', g)
    BY <1>1, <1>3, <2>2, FollowsListed DEF HasEntry
  <2>4. TodoEnough'
    BY <2>1 DEF TodoEnough
  <2>5. On(config') = On(config) /\ On(old') = On(config) /\ Listed(config') = Listed(config)
        /\ Listed(old') = Listed(config)
    BY <1>12
  <2>6. Remembers'
    <3>1. ~astray /\ Installed => mem'.pending
      BY <1>12, <2>2
    <3> QED
      BY <1>2, <1>12, <2>1, <2>3, <2>5, <3>1 DEF Remembers, Between, HasEntry
  <2>7. HealthyCounted'
    BY <2>1, <2>5 DEF HealthyCounted, Between
  <2> QED
    BY <2>4, <2>6, <2>7
<1>13. CASE ChangeApplied
  <2>1. /\ pc = "applying" /\ Commits(old, mem.pending) /\ old' = config
        /\ UNCHANGED <<kernel, config, db, unsaved, touched, astray>>
    BY <1>13 DEF ChangeApplied, Quiet, ghosts
  <2>2. mem.pending \in BOOLEAN
    BY <1>1 DEF PanelOK, Memories
  <2>3. ~astray /\ Installed => mem.pending \/ On(old) # {}
    BY <2>1 DEF Remembers, Between
  <2>4. ~astray /\ ~unsaved /\ Installed => db.pending \/ \E g \in Gateways : HasEntry(db, g)
    BY <2>1 DEF Remembers
  <2> QED
    BY <1>12, <2>1, <2>2, <2>3, <2>4
<1>14. CASE Startup
  <2> DEFINE p == \/ mem.pending \/ Listed(config) # {}
                  \/ \E g \in Gateways : mem.egress[g] # NoEntry
  <2>1. /\ pc = "startup" /\ Commits(config, p) /\ old' = config
        /\ UNCHANGED <<kernel, config, db, unsaved, touched, astray>>
    BY <1>14 DEF Startup, Quiet, ghosts
  <2>2. p \in BOOLEAN
    BY <1>1 DEF PanelOK, Memories
  <2>3. ~astray /\ Installed => p
    BY <2>1 DEF Remembers, HasEntry
  <2>4. ~astray /\ ~unsaved /\ Installed => db.pending \/ (\E g \in Gateways : HasEntry(db, g))
                                            \/ Listed(config) # {}
    BY <2>1 DEF Remembers
  <2> HIDE DEF p
  <2> QED
    BY <1>12, <2>1, <2>2, <2>3, <2>4
<1>15. CASE Save
  <2>1. /\ pc = "save" /\ pc' = "idle" /\ kind' = "sample" /\ mem' = mem /\ old = config
        /\ (db' = mem /\ unsaved' = FALSE) \/ (db' = db /\ unsaved' = TRUE)
        /\ UNCHANGED <<kernel, config, old, touched, astray>>
    BY <1>15 DEF Save, ResetDone, Remembers
  <2>2. TodoEnough'
    BY <2>1 DEF TodoEnough
  <2>3. Remembers'
    BY <1>2, <1>3, <2>1 DEF Remembers, Between, Listed, On, HasEntry
  <2>4. HealthyCounted'
    BY <2>1 DEF HealthyCounted, Between, kernel, On
  <2> QED
    BY <2>2, <2>3, <2>4
<1>16. CASE PollSaves
  <2>1. /\ pc # "startup" /\ db' = mem /\ unsaved' = FALSE
        /\ UNCHANGED <<kernel, config, mem, pc, kind, old, todo, touched, astray>>
    BY <1>16 DEF PollSaves
  <2>2. TodoEnough'
    BY <2>1 DEF TodoEnough, Wanted, On, kernel
  <2>3. pc \in Places
    BY <1>1 DEF PanelOK
  <2>4. Remembers'
    <3>1. ~astray => \A g \in Listed(old) : HasEntry(mem, g)
      BY <2>1 DEF Remembers
    <3>2. ~astray /\ Installed =>
             mem.pending \/ (\E g \in Gateways : HasEntry(mem, g))
             \/ (pc \notin {"persisting", "applying"} /\ Listed(config) # {})
      <4>1. CASE pc \in Between
        BY <1>3, <3>1, <4>1 DEF Remembers
      <4>2. CASE pc \in {"snapshot", "commands"}
        BY <1>3, <4>2 DEF Remembers
      <4>3. CASE pc = "nothing"
        BY <4>3 DEF Remembers
      <4> QED
        BY <2>1, <2>3, <4>1, <4>2, <4>3 DEF Between, Places
    <3>3. /\ pc' = pc /\ mem' = mem /\ config' = config /\ old' = old /\ kind' = kind /\ astray' = astray
          /\ db' = mem /\ unsaved' = FALSE /\ On(config') = On(config) /\ On(old') = On(old)
          /\ Listed(old') = Listed(old) /\ Listed(config') = Listed(config)
      BY <2>1
    <3>4. Installed' <=> Installed
      BY <1>2, <2>1
    <3>5. Remembers
      OBVIOUS
    <3> QED
      BY <2>1, <3>1, <3>2, <3>3, <3>4, <3>5 DEF Remembers, HasEntry
  <2>5. HealthyCounted'
    BY <2>1 DEF HealthyCounted, Between, kernel, On
  <2> QED
    BY <2>2, <2>4, <2>5
<1> QED
  BY <1>5, <1>6, <1>7, <1>8, <1>9, <1>10, <1>11, <1>13, <1>14, <1>15, <1>16

\* The panel dies: what it forgets with the memory is in its last save, or the
\* last save failed.
LEMMA DiesFull ==
  ASSUME IInv, Remembers, Dies, UNCHANGED <<config, db, unsaved>>,
         Installed' => Installed
  PROVE  TodoEnough' /\ Remembers' /\ HealthyCounted'
<1>1. mem' = db /\ pc' = "startup" /\ kind' = "sample" /\ old' = config /\ (astray' <=> astray \/ unsaved)
  BY DEF Dies
<1>2. TodoEnough'
  BY <1>1 DEF TodoEnough
<1>3. Remembers'
  <2>1. ASSUME ~astray, ~unsaved, Installed'
        PROVE  db.pending \/ (\E g \in Gateways : HasEntry(db, g)) \/ Listed(config) # {}
    BY <2>1 DEF Remembers
  <2>2. astray \in BOOLEAN /\ unsaved \in BOOLEAN
    BY DEF IInv, PanelOK
  <2> QED
    BY <1>1, <2>1, <2>2 DEF Remembers, Between, HasEntry, Listed
<1>4. HealthyCounted'
  BY <1>1 DEF HealthyCounted, Between
<1> QED
  BY <1>2, <1>3, <1>4

\* The kernel moves under a panel that stands still, and nothing is installed
\* by it that was not there.
LEMMA KernelFull ==
  ASSUME FullInv, UNCHANGED <<config, mem, db, pc, kind, old, todo, unsaved>>,
         Installed' => Installed, astray => astray', touched => touched',
         ~touched' => rules' = rules /\ jumps' = jumps,
         \A s \in rules' : \E r \in rules : s.gw = r.gw /\ s.dir = r.dir /\ s.peer = r.peer
                                            /\ s.gen = r.gen,
         pc = "commands" /\ ~astray' => \A d \in Dirs : jumps'[d].n = jumps[d].n \/ jumps'[d].n = 0
  PROVE  TodoEnough' /\ Remembers' /\ HealthyCounted'
<1>1. astray \in BOOLEAN /\ touched \in BOOLEAN /\ todo \in Seq(Commands)
  BY DEF FullInv, IInv, PanelOK, TodoOK
<1>2. TodoEnough'
  <2> SUFFICES ASSUME pc = "commands" PROVE TodoEnough'
    BY DEF TodoEnough
  <2>1. \A s \in rules' : ~Wanted(s)' => [op |-> "delete", gen |-> s.gen] \in Range(todo)
    BY DEF FullInv, TodoEnough, Wanted
  <2>2. \A c \in Range(todo) : c.op = "jump" => On(config) # {}
    BY DEF FullInv, TodoEnough
  <2>3. ASSUME ~astray', On(config) = {}, NEW d \in Dirs PROVE Block(todo, d, jumps'[d].n)
    <3>1. Block(todo, d, jumps[d].n)
      BY <1>1, <2>3 DEF FullInv, TodoEnough
    <3>2. Block(todo, d, 0)
      BY <1>1, BlockEmpty
    <3> QED
      BY <2>3, <3>1, <3>2
  <2>4. ASSUME ~astray', ~touched', On(config) # {}, NEW d \in Dirs
        PROVE  Repair(todo, d, jumps'[d])
    BY <2>4, <1>1 DEF FullInv, TodoEnough
  <2> QED
    BY <2>1, <2>2, <2>3, <2>4 DEF TodoEnough, On
<1>3. Remembers'
  BY <1>1 DEF FullInv, Remembers, Between, Listed, On, HasEntry
<1>4. HealthyCounted'
  BY <1>1 DEF FullInv, HealthyCounted, Between, On
<1> QED
  BY <1>2, <1>3, <1>4

LEMMA OthersFull ==
  FullInv /\ (\/ \E r \in rules : Packet(r)
              \/ Flush \/ Displaced \/ Zeroed \/ Reboot \/ Crash)
    => TodoEnough' /\ Remembers' /\ HealthyCounted'
<1> SUFFICES ASSUME FullInv,
                    \/ \E r \in rules : Packet(r)
                    \/ Flush \/ Displaced \/ Zeroed \/ Reboot \/ Crash
             PROVE  TodoEnough' /\ Remembers' /\ HealthyCounted'
  OBVIOUS
<1>1. KernelOK /\ PanelOK /\ jumps \in [Dirs -> [n : Nat, top : BOOLEAN]]
      /\ astray \in BOOLEAN /\ IInv /\ Remembers
  BY DEF FullInv, IInv, PanelOK, KernelOK
<1>2. ASSUME NEW r \in rules, Packet(r) PROVE TodoEnough' /\ Remembers' /\ HealthyCounted'
  <2>1. UNCHANGED <<rules, jumps, config, mem, db, pc, kind, old, todo, touched, unsaved, astray>>
    BY <1>2 DEF Packet, ghosts
  <2>2. Installed' => Installed
    BY <2>1 DEF Installed
  <2> QED
    BY <2>1, <2>2, KernelFull
<1>3. CASE Flush
  <2>1. /\ rules' = {} /\ jumps' = [d \in Dirs |-> [n |-> 0, top |-> FALSE]]
        /\ UNCHANGED <<config, mem, db, pc, kind, old, todo, unsaved, astray>> /\ touched' = TRUE
    BY <1>3 DEF Flush, Tampering
  <2>2. ~Installed' /\ \A d \in Dirs : jumps'[d].n = 0
    BY <2>1 DEF Installed
  <2> QED
    BY <2>1, <2>2, KernelFull
<1>4. CASE Displaced
  <2>1. PICK d \in Dirs :
          /\ jumps[d].n = 1
          /\ \/ jumps' = [jumps EXCEPT ![d].top = FALSE] /\ astray' = astray
             \/ jumps' = [jumps EXCEPT ![d].n = 2] /\ astray' = (astray \/ pc = "commands")
    BY <1>4 DEF Displaced
  <2>2. UNCHANGED <<rules, config, mem, db, pc, kind, old, todo, unsaved>> /\ touched' = TRUE
    BY <1>4 DEF Displaced, Tampering
  <2>3. Installed
    BY <2>1 DEF Installed
  <2>4. pc = "commands" /\ ~astray' => \A e \in Dirs : jumps'[e].n = jumps[e].n
    <3>1. CASE jumps' = [jumps EXCEPT ![d].top = FALSE] /\ astray' = astray
      BY <1>1, <3>1
    <3> QED
      BY <2>1, <3>1
  <2> QED
    BY <1>1, <2>1, <2>2, <2>3, <2>4, KernelFull
<1>5. CASE Zeroed
  <2>1. /\ Reborn /\ touched' = TRUE /\ rules # {}
        /\ UNCHANGED <<jumps, chains, counted, boot, config, mem, db, pc, kind, old, todo, unsaved, astray>>
    BY <1>5 DEF Zeroed, Tampering
  <2>2. \A s \in rules' : \E r \in rules : s.gw = r.gw /\ s.dir = r.dir /\ s.peer = r.peer
                                           /\ s.gen = r.gen
    BY <1>1, <2>1, RebornOK DEF KernelOK
  <2>3. Installed' => Installed
    BY <2>1 DEF Installed
  <2> QED
    BY <2>1, <2>2, <2>3, KernelFull
<1>6. CASE Reboot
  <2>1. /\ Dies /\ UNCHANGED <<config, db, unsaved>> /\ boot' = boot + 1 /\ counted' = counted
        /\ \/ Reborn /\ UNCHANGED <<jumps, chains>>
           \/ /\ rules' = {}
              /\ jumps' = [d \in Dirs |-> [n |-> 0, top |-> FALSE]]
    BY <1>6 DEF Reboot, Tampering
  <2>2. Installed' => Installed
    <3>1. CASE Reborn /\ UNCHANGED <<jumps, chains>>
      <4>1. \A s \in rules' : \E r \in rules : s.gw = r.gw
        BY <1>1, <2>1, <3>1, RebornOK DEF KernelOK
      <4> QED
        BY <3>1, <4>1 DEF Installed
    <3>2. CASE rules' = {} /\ jumps' = [d \in Dirs |-> [n |-> 0, top |-> FALSE]]
      BY <3>2 DEF Installed
    <3> QED
      BY <2>1, <3>1, <3>2
  <2> QED
    BY <1>1, <2>1, <2>2, DiesFull
<1>7. CASE Crash
  <2>1. Dies /\ UNCHANGED <<config, db, unsaved>> /\ (Installed' => Installed)
    BY <1>7 DEF Crash, kernel, Installed
  <2> QED
    BY <1>1, <2>1, DiesFull
<1> QED
  BY <1>2, <1>3, <1>4, <1>5, <1>6, <1>7

LEMMA InitFull == Init => FullInv
<1> SUFFICES ASSUME Init PROVE FullInv
  OBVIOUS
<1>1. ~Installed /\ Listed(config) = {}
  BY DEF Init, Installed, Listed
<1>2. Remembers
  BY <1>1 DEF Init, Remembers, Between, HasEntry
<1>3. TodoEnough
  BY DEF Init, TodoEnough
<1>4. HealthyCounted
  BY DEF Init, HealthyCounted, On, Absent
<1> QED
  BY <1>2, <1>3, <1>4, InitIInv DEF FullInv

LEMMA NextFull == FullInv /\ [Next]_vars => FullInv'
<1> SUFFICES ASSUME FullInv, [Next]_vars PROVE FullInv'
  OBVIOUS
<1>1. IInv'
  BY NextIInv DEF FullInv
<1>2. CASE UNCHANGED vars
  <2>1. Installed' <=> Installed
    BY <1>2 DEF vars, kernel, Installed
  <2> QED
    BY <1>1, <1>2, <2>1 DEF vars, kernel, ghosts, FullInv, TodoEnough, Wanted, On, Remembers,
                           HasEntry, Listed, HealthyCounted
<1> QED
  BY <1>1, <1>2, SamplingFull, PanelFull, OthersFull DEF Next, FullInv

\* What SBM put into the kernel is remembered until it is gone, through failed
\* commands, rolled back changes and crashes.
THEOREM NothingIsForgotten == Spec => []NothingForgotten
<1>1. FullInv => NothingForgotten
  BY DEF FullInv, Remembers, NothingForgotten, Between, HasEntry
<1> QED
  BY <1>1, InitFull, NextFull, PTL DEF Spec

\* A gateway shown healthy has both its rules, once each, under one jump on top.
THEOREM HealthyGatewaysAreCounted == Spec => []HealthyIsCounted
<1>1. FullInv => HealthyIsCounted
  <2> SUFFICES ASSUME FullInv, pc = "idle", ~touched, ~astray,
                      NEW g \in On(config), mem.egress[g].status = "healthy",
                      NEW d \in Dirs
               PROVE  /\ jumps[d] = [n |-> 1, top |-> TRUE]
                      /\ Cardinality({r \in rules : r.gw = g /\ r.dir = d}) = 1
                      /\ \E r \in rules : r.gw = g /\ r.dir = d /\ Wanted(r)
    BY DEF HealthyIsCounted
  <2>1. old = config
    BY DEF FullInv, Remembers
  <2>2. /\ jumps[d] = [n |-> 1, top |-> TRUE]
        /\ \A r \in rules : r.gw = g /\ r.dir = d => r.peer = config[g].peer
    BY <2>1 DEF FullInv, HealthyCounted, Between
  <2>3. PICK r \in rules : r.gw = g /\ r.dir = d
    BY <2>1 DEF FullInv, HealthyCounted, Between
  <2>4. {s \in rules : s.gw = g /\ s.dir = d} = {r}
    BY <2>2, <2>3 DEF FullInv, IInv, KernelOK, Apart
  <2>5. Cardinality({r}) = 1
    BY FS_Singleton
  <2> QED
    BY <2>2, <2>3, <2>4, <2>5 DEF Wanted, On
<1> QED
  BY <1>1, InitFull, NextFull, PTL DEF Spec
=============================================================================
