-------------------------- MODULE EntryUsageProofs --------------------------
(***************************************************************************)
(* Theorems about the usage of the entry host's billing period             *)
(* (EntryUsage), for any interfaces, schedules, clock readings, bytes and  *)
(* accidents.                                                              *)
(*                                                                         *)
(* The estimate begins at an anchor, the proxy total at vnStat's last save *)
(* or at the start of the period, found in the marks the core samples left.*)
(* That it counts no byte twice is not inductive.  The invariant relates   *)
(* the three places the anchor comes from to what vnStat saw: a mark holds *)
(* at least what had been sampled at any instant before the next mark, the *)
(* last one at any instant at all; an anchor at least what had been        *)
(* sampled at any instant up to its own; and so does the anchor in the     *)
(* checkpoint, which a crash brings back.  No instant an anchor is for     *)
(* comes again: vnStat saved then, or it is past.                          *)
(*                                                                         *)
(* The measured usage is compared with Between, what vnStat recorded on    *)
(* the configured interface between two instants.  UsageInv says of every  *)
(* bucket the panel may ever sum, in vnStat's database, in traffic.db and  *)
(* in a record still to be saved, that it holds no more than was recorded  *)
(* in the part of it that its source answers for, and exactly that much    *)
(* unless something went astray; that the sources answer for stretches of  *)
(* time that lie apart; and that the figures of the state and of the       *)
(* checkpoint are sums of such stretches.  It takes four facts besides:    *)
(* that a source ended before the next begins even where a crash forgot it,*)
(* that a database recreated on the same interface begins after all that   *)
(* was taken of the old one, that what vnStat pruned was whole when it was *)
(* taken, and that a source is numbered anew at most once an accident.     *)
(***************************************************************************)
EXTENDS MCEntryUsage, FiniteSetTheorems, SequenceTheorems, WellFoundedInduction, TLAPS

Fields  == DOMAIN NewState
Instants == Start..Horizon

ClockTypes ==
  /\ now \in Start..Horizon /\ now % 2 = 1
  /\ updated \in Start..now
  /\ iface \in Ifaces /\ schedule \in Schedules
  /\ DOMAIN vn = Ifaces
  /\ \A i \in Ifaces : /\ DOMAIN vn[i] = {"created", "total", "rows"}
                       /\ vn[i].created \in 1..updated
  /\ read # NoRead => /\ read.schedule \in Schedules
                      /\ read.snapshot.updated \in Start..updated
                      /\ read.snapshot.created \in 1..updated

TotalTypes ==
  /\ carried \in Nat /\ total \in 0..carried
  /\ DOMAIN db = {"st", "total", "sources"} /\ db.total \in 0..carried
  /\ DOMAIN past = Instants
  /\ \A t \in Instants : /\ DOMAIN past[t] = {"seen", "sampled"}
                         /\ past[t].sampled \in 0..carried

Marks == [at : Instants, total : Nat]

\* A mark holds what had been sampled before the next.
MarksHold ==
  /\ proxyMarks \in Seq(Marks)
  /\ \A n \in 1..Len(proxyMarks) : proxyMarks[n].at <= now
  /\ \A m, n \in 1..Len(proxyMarks) : m <= n => proxyMarks[m].at <= proxyMarks[n].at
  /\ proxyMarks # <<>> => proxyMarks[Len(proxyMarks)].total = total
  /\ \A n \in 1..Len(proxyMarks), t \in Instants :
       n = Len(proxyMarks) \/ t < proxyMarks[n + 1].at => past[t].sampled <= proxyMarks[n].total

\* An instant that does not come again, at clock reading n, vnStat having saved at u.
Settles(at, n, u) == at < n \/ at <= u

\* An anchor holds what had been sampled up to its instant, which is that of vnStat's
\* save or of the period's start, or later.
Anchored(s, n, u, sampled) ==
  /\ DOMAIN s = Fields
  /\ s.updated \in 0..u /\ s.recordedFrom \in 0..u
  /\ s.period \in Nat /\ Settles(s.period, n, u)
  /\ s.anchorAt \in Nat /\ Settles(s.anchorAt, n, u)
  /\ s.anchor \in Nat /\ s.anchorKnown \in BOOLEAN
  /\ s.updated <= s.anchorAt /\ s.period <= s.anchorAt
  /\ s.generation # 0 => Start <= s.updated
  /\ s.anchorKnown => \A t \in Instants : t <= s.anchorAt => sampled[t].sampled <= s.anchor

EstimateInv ==
  /\ ClockTypes /\ TotalTypes /\ MarksHold
  /\ Anchored(st, now, updated, past) /\ Anchored(db.st, now, updated, past)

-----------------------------------------------------------------------------
(* Least and greatest members. *)

LEMMA LeastOfNaturals ==
  ASSUME NEW S, S \subseteq Nat, S # {}
  PROVE  \E m \in S : \A k \in S : m <= k
<1> DEFINE Less == {ss \in Nat \X Nat : ss[1] < ss[2]}
<1>1. IsWellFoundedOn(Less, Nat)
  BY NatLessThanWellFounded, Zenon DEF OpToRel
<1>2. \A a, b \in Nat : a < b => <<a, b>> \in Less
  OBVIOUS
<1> HIDE DEF Less
<1>3. PICK m \in S : \A k \in S : ~(<<k, m>> \in Less)
  BY <1>1, WFMin
<1>4. ASSUME NEW k \in S PROVE m <= k
  <2>1. k \in Nat /\ m \in Nat /\ ~(k < m)
    BY <1>2, <1>3
  <2> QED
    BY <2>1
<1> QED
  BY <1>4

LEMMA MinIs == ASSUME NEW S, S \subseteq Nat, S # {} PROVE Min(S) \in S /\ \A k \in S : Min(S) <= k
  BY LeastOfNaturals DEF Min

LEMMA MaxIs ==
  ASSUME NEW S, NEW n \in Nat, S \subseteq 0..n, S # {}
  PROVE  Max(S) \in S /\ \A k \in S : k <= Max(S)
<1> DEFINE T == {n - k : k \in S}
<1>1. ASSUME NEW k \in S PROVE k \in Nat /\ n - k \in Nat
  <2>1. k \in 0..n
    OBVIOUS
  <2> QED
    BY <2>1
<1>2. T \subseteq Nat /\ T # {}
  BY <1>1
<1>3. PICK t \in T : \A u \in T : t <= u
  BY <1>2, LeastOfNaturals
<1>4. PICK m \in S : t = n - m
  OBVIOUS
<1>5. \A k \in S : m >= k
  <2> SUFFICES ASSUME NEW k \in S PROVE m >= k
    OBVIOUS
  <2>1. n - m <= n - k /\ m \in Nat /\ k \in Nat
    BY <1>1, <1>3, <1>4
  <2> QED
    BY <2>1
<1>6. Max(S) \in S /\ \A k \in S : Max(S) >= k
  BY <1>4, <1>5 DEF Max
<1> QED
  BY <1>1, <1>6

-----------------------------------------------------------------------------
LEMMA Bounds ==
  /\ Horizon \in Nat /\ Start = 5 /\ Start <= Horizon
  /\ \A S \in Schedules : S \subseteq Nat /\ \A b \in S : b % 4 = 0 /\ b > Start
  BY EntryAssumption DEF Start, Width

LEMMA PreviousReset ==
  ASSUME ClockTypes, NEW S \in Schedules
  PROVE  previousReset(S) \in Nat /\ previousReset(S) < now
<1> DEFINE T == {b \in S : b <= now} \cup {1}
<1>1. now \in Nat /\ now >= 5 /\ now % 2 = 1
  BY Bounds DEF ClockTypes
<1>2. T \subseteq 0..now /\ T # {}
  BY <1>1, Bounds
<1>3. Max(T) \in T
  BY <1>1, <1>2, MaxIs
<1>4. \A b \in T : b \in Nat /\ b < now
  <2> SUFFICES ASSUME NEW b \in T PROVE b \in Nat /\ b < now
    OBVIOUS
  <2>1. CASE b = 1
    BY <1>1, <2>1
  <2>2. CASE b # 1
    <3>1. b \in Nat /\ b % 4 = 0 /\ b <= now
      BY <2>2, Bounds
    <3>2. b # now
      BY <1>1, <3>1
    <3> QED
      BY <1>1, <3>1, <3>2
  <2> QED
    BY <2>1, <2>2
<1> QED
  BY <1>3, <1>4 DEF previousReset

-----------------------------------------------------------------------------
(* The record of a sample. *)

FieldNames ==
  {"generation", "origin", "created", "updated", "last", "rx", "carry", "baseline", "manual",
   "partial", "available", "status", "reset", "period", "next", "recordedFrom", "source",
   "anchor", "anchorAt", "anchorKnown"}

LEMMA FieldsAre == Fields = FieldNames
  BY DEF Fields, NewState, FieldNames

\* The source of a sample decides the period and what there is to know of it.
LEMMA SourcedIs ==
  ASSUME NEW prev, DOMAIN prev = Fields, NEW r
  PROVE  LET s == Sourced(prev, r)
         IN  /\ DOMAIN s = Fields
             /\ s.period \in {prev.period, r.snapshot.created, r.snapshot.updated,
                              Later(previousReset(r.schedule), prev.recordedFrom)}
             /\ s.recordedFrom \in {prev.recordedFrom, r.snapshot.updated}
<1> USE FieldsAre DEF FieldNames
<1> DEFINE n == Renewed(prev, r)
<1>1. /\ DOMAIN n = Fields /\ n.recordedFrom = prev.recordedFrom
      /\ n.period \in {prev.period, r.snapshot.created,
                       Later(previousReset(r.schedule), prev.recordedFrom)}
  <2>1. CASE ~Renews(prev, r)
    BY <2>1 DEF Renewed
  <2>2. CASE Renews(prev, r)
    BY <2>2 DEF Renewed
  <2> QED
    BY <2>1, <2>2
<1> HIDE DEF n
<1>2. CASE prev.generation = 0
  <2>1. Sourced(prev, r) = FirstSample(n, r)
    BY <1>2 DEF Sourced, n
  <2> QED
    BY <1>1, <2>1 DEF FirstSample
<1>3. CASE prev.generation # 0 /\ SameSource(prev, r)
  <2>1. Sourced(prev, r) = n
    BY <1>3 DEF Sourced, n
  <2> QED
    BY <1>1, <2>1
<1>4. CASE prev.generation # 0 /\ ~SameSource(prev, r)
  <2>1. Sourced(prev, r) = SwitchSource(n, prev, r)
    BY <1>4 DEF Sourced, n
  <2>2. /\ DOMAIN SwitchSource(n, prev, r) = Fields
        /\ SwitchSource(n, prev, r).period = n.period
        /\ SwitchSource(n, prev, r).recordedFrom = n.recordedFrom
    BY <1>1 DEF SwitchSource
  <2> QED
    BY <1>1, <2>1, <2>2
<1> QED
  BY <1>2, <1>3, <1>4

LEMMA MeasuredIs ==
  ASSUME NEW prev, NEW s, DOMAIN s = Fields, NEW r
  PROVE  /\ DOMAIN Measured(prev, s, r) = Fields
         /\ Measured(prev, s, r).period = s.period
         /\ Measured(prev, s, r).recordedFrom = s.recordedFrom
<1> USE FieldsAre DEF FieldNames
<1>1. CASE s.manual
  BY <1>1 DEF Measured
<1>2. CASE ~s.manual
  <2>1. \E rx, partial, available :
          Measured(prev, s, r) = [s EXCEPT !.rx = rx, !.partial = partial, !.available = available]
    BY <1>2 DEF Measured
  <2> QED
    BY <2>1
<1> QED
  BY <1>1, <1>2

LEMMA SettledIs ==
  ASSUME NEW prev, NEW s, DOMAIN s = Fields, NEW r
  PROVE  /\ DOMAIN Settled(prev, s, r) = Fields
         /\ Settled(prev, s, r).period = s.period
         /\ Settled(prev, s, r).recordedFrom = s.recordedFrom
         /\ Settled(prev, s, r).updated = r.snapshot.updated
  BY FieldsAre DEF Settled, FieldNames

-----------------------------------------------------------------------------
(* The anchor. *)

LEMMA LaterIs ==
  ASSUME NEW a \in Nat, NEW b \in Nat
  PROVE  Later(a, b) \in {a, b} /\ Later(a, b) >= a /\ Later(a, b) >= b
  BY DEF Later

\* Whichever way it is found, an anchor holds what had been sampled up to its instant.
LEMMA AnchorProxyHolds ==
  ASSUME EstimateInv, NEW s, DOMAIN s = Fields, s.updated \in Start..updated,
         s.recordedFrom \in 0..updated, s.period \in Nat, Settles(s.period, now, updated)
  PROVE  Anchored(anchorProxy(s), now, updated, past)
<1> DEFINE A == AnchorAt(s)
           before == {n \in DOMAIN proxyMarks : proxyMarks[n].at <= A}
           set(a, known) == [s EXCEPT !.anchorAt = A, !.anchor = a, !.anchorKnown = known]
<1>1. /\ now \in Nat /\ updated \in Nat /\ updated <= now /\ s.updated \in Nat
      /\ s.updated <= updated /\ Start \in Nat
  BY Bounds DEF EstimateInv, ClockTypes
<1>2. A \in Nat /\ Settles(A, now, updated) /\ s.updated <= A /\ s.period <= A
  <2>1. A \in {s.updated, s.period} /\ A >= s.updated /\ A >= s.period
    BY <1>1, LaterIs DEF AnchorAt
  <2> QED
    BY <1>1, <2>1 DEF Settles
<1> HIDE DEF A
<1>3. ASSUME NEW a \in Nat, NEW known \in BOOLEAN,
             known => \A t \in Instants : t <= A => past[t].sampled <= a
      PROVE  Anchored(set(a, known), now, updated, past)
  <2>1. /\ DOMAIN set(a, known) = Fields /\ set(a, known).anchorAt = A
        /\ set(a, known).anchor = a /\ set(a, known).anchorKnown = known
        /\ set(a, known).updated = s.updated /\ set(a, known).recordedFrom = s.recordedFrom
        /\ set(a, known).period = s.period
    BY FieldsAre DEF FieldNames
  <2> HIDE DEF set
  <2>2. set(a, known).updated \in 0..updated /\ Start <= set(a, known).updated
    BY <1>1, <2>1
  <2> QED
    BY <1>2, <1>3, <2>1, <2>2 DEF Anchored
<1>4. /\ proxyMarks \in Seq(Marks) /\ DOMAIN proxyMarks = 1..Len(proxyMarks)
      /\ Len(proxyMarks) \in Nat
  BY DEF EstimateInv, MarksHold
<1>5. \A n \in 1..Len(proxyMarks) : /\ proxyMarks[n].at \in Nat /\ proxyMarks[n].total \in Nat
  <2> SUFFICES ASSUME NEW n \in 1..Len(proxyMarks)
               PROVE  proxyMarks[n].at \in Nat /\ proxyMarks[n].total \in Nat
    OBVIOUS
  <2>1. proxyMarks[n] \in Marks
    BY <1>4
  <2>2. proxyMarks[n].at \in Start..Horizon /\ proxyMarks[n].total \in Nat
    BY <2>1 DEF Marks, Instants
  <2> QED
    BY <2>2, Bounds
<1>6. \A t \in Instants : t \in Nat
  BY Bounds DEF Instants
<1>7. CASE st.anchorKnown /\ st.anchorAt = A
  <2>1. anchorProxy(s) = set(st.anchor, TRUE)
    BY <1>7 DEF anchorProxy, A
  <2>2. st.anchor \in Nat /\ \A t \in Instants : t <= A => past[t].sampled <= st.anchor
    BY <1>7 DEF EstimateInv, Anchored
  <2> QED
    BY <1>3, <2>1, <2>2
<1>8. CASE ~(st.anchorKnown /\ st.anchorAt = A) /\ before # {}
  <2>1. anchorProxy(s) = set(proxyMarks[Max(before)].total, TRUE)
    BY <1>8 DEF anchorProxy, A
  <2>2. Max(before) \in before /\ \A k \in before : k <= Max(before)
    <3>1. before \subseteq 0..Len(proxyMarks)
      BY <1>4
    <3> HIDE DEF before
    <3> QED
      BY <1>4, <1>8, <3>1, MaxIs
  <2>3. PICK n \in 1..Len(proxyMarks) : n = Max(before) /\ proxyMarks[n].at <= A
    BY <1>4, <2>2
  <2>4. ASSUME n # Len(proxyMarks)
        PROVE  n + 1 \in 1..Len(proxyMarks) /\ A < proxyMarks[n + 1].at
    <3> HIDE DEF before, set
    <3>1. n + 1 \in 1..Len(proxyMarks) /\ ~(n + 1 <= n)
      BY <1>4, <2>3, <2>4
    <3>2. n + 1 \notin before
      BY <2>2, <2>3, <3>1
    <3>3. ~(proxyMarks[n + 1].at <= A)
      BY <1>4, <3>1, <3>2 DEF before
    <3> QED
      BY <1>2, <1>5, <3>1, <3>3
  <2>5. \A t \in Instants : t <= A => past[t].sampled <= proxyMarks[n].total
    <3> SUFFICES ASSUME NEW t \in Instants, t <= A PROVE past[t].sampled <= proxyMarks[n].total
      OBVIOUS
    <3>1. n = Len(proxyMarks) \/ t < proxyMarks[n + 1].at
      <4>1. CASE n # Len(proxyMarks)
        <5>1. proxyMarks[n + 1].at \in Nat /\ A < proxyMarks[n + 1].at /\ t \in Nat
          BY <1>5, <1>6, <2>4, <4>1
        <5> QED
          BY <1>2, <5>1
      <4> QED
        BY <4>1
    <3> QED
      BY <3>1 DEF EstimateInv, MarksHold
  <2>6. proxyMarks[n].total \in Nat
    BY <1>5
  <2> QED
    BY <1>3, <2>1, <2>3, <2>5, <2>6
<1>9. CASE ~(st.anchorKnown /\ st.anchorAt = A) /\ before = {} /\ proxyMarks # <<>>
  <2>1. anchorProxy(s) = set(proxyMarks[1].total, TRUE)
    BY <1>9 DEF anchorProxy, A
  <2>2. 1 \in 1..Len(proxyMarks)
    BY <1>4, <1>9
  <2>3. A < proxyMarks[1].at
    <3>1. ~(proxyMarks[1].at <= A)
      BY <1>4, <1>9, <2>2
    <3> QED
      BY <1>2, <1>5, <2>2, <3>1
  <2>4. \A t \in Instants : t <= A => past[t].sampled <= proxyMarks[1].total
    <3> SUFFICES ASSUME NEW t \in Instants, t <= A PROVE past[t].sampled <= proxyMarks[1].total
      OBVIOUS
    <3>1. CASE Len(proxyMarks) = 1
      BY <2>2, <3>1 DEF EstimateInv, MarksHold
    <3>2. CASE Len(proxyMarks) # 1
      <4>1. 2 \in 1..Len(proxyMarks) /\ 1 + 1 = 2
        BY <1>4, <2>2, <3>2
      <4>2. proxyMarks[1].at <= proxyMarks[2].at
        BY <2>2, <4>1 DEF EstimateInv, MarksHold
      <4>3. t < proxyMarks[1 + 1].at
        BY <1>2, <1>5, <1>6, <2>2, <2>3, <4>1, <4>2
      <4> QED
        BY <2>2, <4>3 DEF EstimateInv, MarksHold
    <3> QED
      BY <3>1, <3>2
  <2>5. proxyMarks[1].total \in Nat
    BY <1>5, <2>2
  <2> QED
    BY <1>3, <2>1, <2>4, <2>5
<1>10. CASE ~(st.anchorKnown /\ st.anchorAt = A) /\ before = {} /\ proxyMarks = <<>>
  <2>1. anchorProxy(s) = set(0, FALSE)
    BY <1>10 DEF anchorProxy, A
  <2> QED
    BY <1>3, <2>1
<1> QED
  BY <1>7, <1>8, <1>9, <1>10

\* A sample of vnStat leaves the state with an anchor of its own.
LEMMA SampledHolds ==
  ASSUME EstimateInv, ~Idle
  PROVE  Anchored(Sampled(st, read), now, updated, past)
<1> DEFINE s1 == Sourced(st, read)
           s2 == Measured(st, s1, read)
           s3 == Settled(st, s2, read)
<1>1. Sampled(st, read) = anchorProxy(s3)
  BY DEF Sampled
<1>2. /\ read.schedule \in Schedules /\ read.snapshot.updated \in Start..updated
      /\ read.snapshot.created \in 1..updated
      /\ updated \in Nat /\ now \in Nat /\ updated <= now /\ Start \in Nat
  BY Bounds DEF EstimateInv, ClockTypes, Idle
<1>3. /\ DOMAIN st = Fields /\ st.recordedFrom \in 0..updated /\ st.period \in Nat
      /\ Settles(st.period, now, updated)
  BY DEF EstimateInv, Anchored
<1>4. /\ DOMAIN s1 = Fields
      /\ s1.period \in {st.period, read.snapshot.created, read.snapshot.updated,
                        Later(previousReset(read.schedule), st.recordedFrom)}
      /\ s1.recordedFrom \in {st.recordedFrom, read.snapshot.updated}
  BY <1>3, SourcedIs
<1> HIDE DEF s1
<1>5. DOMAIN s2 = Fields /\ s2.period = s1.period /\ s2.recordedFrom = s1.recordedFrom
  BY <1>4, MeasuredIs
<1> HIDE DEF s2
<1>6. /\ DOMAIN s3 = Fields /\ s3.period = s2.period /\ s3.recordedFrom = s2.recordedFrom
      /\ s3.updated = read.snapshot.updated
  BY <1>5, SettledIs
<1> HIDE DEF s3
<1>7. s3.recordedFrom \in 0..updated
  BY <1>2, <1>3, <1>4, <1>5, <1>6
<1>8. s3.period \in Nat /\ Settles(s3.period, now, updated)
  <2> DEFINE renewed == Later(previousReset(read.schedule), st.recordedFrom)
  <2>1. previousReset(read.schedule) \in Nat /\ previousReset(read.schedule) < now
    BY <1>2, PreviousReset DEF EstimateInv
  <2>2. renewed \in Nat /\ Settles(renewed, now, updated)
    <3>1. st.recordedFrom \in Nat /\ st.recordedFrom <= updated
      BY <1>2, <1>3
    <3>2. renewed \in {previousReset(read.schedule), st.recordedFrom}
      BY <2>1, <3>1, LaterIs
    <3> HIDE DEF renewed
    <3> QED
      BY <2>1, <3>1, <3>2 DEF Settles
  <2>3. read.snapshot.created \in Nat /\ Settles(read.snapshot.created, now, updated)
    BY <1>2 DEF Settles
  <2>4. read.snapshot.updated \in Nat /\ Settles(read.snapshot.updated, now, updated)
    BY <1>2 DEF Settles
  <2> HIDE DEF renewed
  <2>5. s3.period \in {st.period, read.snapshot.created, read.snapshot.updated, renewed}
    BY <1>4, <1>5, <1>6 DEF renewed
  <2> QED
    BY <1>3, <2>2, <2>3, <2>4, <2>5
<1> QED
  BY <1>1, <1>2, <1>6, <1>7, <1>8, AnchorProxyHolds

-----------------------------------------------------------------------------
(* The steps. *)

\* Time and vnStat's saves only add instants that had not settled.
LEMMA AnchoredStays ==
  ASSUME NEW s, NEW n \in Nat, NEW u \in Nat, NEW p, Anchored(s, n, u, p),
         NEW nn \in Nat, NEW uu \in Nat, NEW pp, n <= nn, u <= uu,
         \A t \in Instants : Settles(t, n, u) => pp[t].sampled <= p[t].sampled,
         \A t \in Instants : p[t].sampled \in Nat /\ pp[t].sampled \in Nat
  PROVE  Anchored(s, nn, uu, pp)
<1>1. \A t \in Instants : t \in Nat
  BY Bounds DEF Instants
<1>2. Settles(s.period, nn, uu) /\ Settles(s.anchorAt, nn, uu)
  BY DEF Anchored, Settles
<1>3. s.updated \in 0..uu /\ s.recordedFrom \in 0..uu
  BY DEF Anchored
<1>4. ASSUME s.anchorKnown, NEW t \in Instants, t <= s.anchorAt PROVE pp[t].sampled <= s.anchor
  <2>1. Settles(t, n, u)
    BY <1>1, <1>4 DEF Anchored, Settles
  <2>2. p[t].sampled <= s.anchor /\ s.anchor \in Nat
    BY <1>4 DEF Anchored
  <2> QED
    BY <2>1, <2>2
<1> QED
  BY <1>2, <1>3, <1>4 DEF Anchored

LEMMA StateAnchored ==
  ASSUME EstimateInv
  PROVE  /\ Anchored(st, now, updated, past) /\ Anchored(db.st, now, updated, past)
         /\ now \in Nat /\ updated \in Nat /\ updated <= now /\ Start <= updated
         /\ \A t \in Instants : t \in Nat /\ past[t].sampled \in Nat /\ past[t].sampled <= carried
         /\ carried \in Nat /\ total \in Nat /\ total <= carried
  BY Bounds DEF EstimateInv, ClockTypes, TotalTypes, Instants

\* What had been sampled when vnStat saved, or when a bucket boundary passed, is noted.
LEMMA NotedHolds ==
  ASSUME EstimateInv, NEW at \in Instants, NEW n \in Nat, NEW u \in Nat,
         at >= now, updated < at, n >= now, u >= updated,
         NEW seen, past' = [past EXCEPT ![at] = [seen |-> seen, sampled |-> total]],
         UNCHANGED <<carried, total, db, proxyMarks, st>>,
         now' = n, updated' = u
  PROVE  /\ TotalTypes' /\ MarksHold'
         /\ Anchored(st', now', updated', past') /\ Anchored(db'.st, now', updated', past')
<1>1. /\ \A t \in Instants : past'[t].sampled = IF t = at THEN total ELSE past[t].sampled
      /\ DOMAIN past' = Instants
      /\ \A t \in Instants : DOMAIN past'[t] = {"seen", "sampled"}
  BY DEF EstimateInv, TotalTypes
<1>2. \A t \in Instants : past'[t].sampled \in Nat /\ past'[t].sampled <= carried
  BY <1>1, StateAnchored
<1>3. TotalTypes'
  BY <1>1, <1>2 DEF EstimateInv, TotalTypes
<1>4. \A t \in Instants : Settles(t, now, updated) => past'[t].sampled <= past[t].sampled
  BY <1>1, StateAnchored DEF Settles
<1>5. /\ Anchored(st, n, u, past') /\ Anchored(db.st, n, u, past')
  BY <1>2, <1>4, StateAnchored, AnchoredStays
<1>6. MarksHold'
  <2>1. ASSUME NEW k \in 1..Len(proxyMarks), NEW t \in Instants,
               k = Len(proxyMarks) \/ t < proxyMarks[k + 1].at
        PROVE  past'[t].sampled <= proxyMarks[k].total
    <3>1. CASE t = at
      <4>1. k = Len(proxyMarks)
        <5>1. SUFFICES ASSUME k # Len(proxyMarks) PROVE FALSE
          OBVIOUS
        <5>2. k + 1 \in 1..Len(proxyMarks)
          BY <5>1 DEF EstimateInv, MarksHold
        <5>3. proxyMarks[k + 1].at <= now /\ proxyMarks[k + 1] \in Marks
          BY <5>2 DEF EstimateInv, MarksHold
        <5>4. proxyMarks[k + 1].at \in Nat
          BY <5>3, Bounds DEF Marks, Instants
        <5> QED
          BY SMTT(30), <2>1, <3>1, <5>1, <5>3, <5>4, StateAnchored
      <4>2. proxyMarks[Len(proxyMarks)].total = total
        BY DEF EstimateInv, MarksHold
      <4> QED
        BY <1>1, <3>1, <4>1, <4>2, StateAnchored
    <3>2. CASE t # at
      BY <1>1, <2>1, <3>2 DEF EstimateInv, MarksHold
    <3> QED
      BY <3>1, <3>2
  <2>2. \A k \in 1..Len(proxyMarks) : proxyMarks[k].at <= n
    <3> SUFFICES ASSUME NEW k \in 1..Len(proxyMarks) PROVE proxyMarks[k].at <= n
      OBVIOUS
    <3>1. proxyMarks[k].at <= now /\ proxyMarks[k] \in Marks
      BY DEF EstimateInv, MarksHold
    <3>2. proxyMarks[k].at \in Nat
      BY <3>1, Bounds DEF Marks, Instants
    <3> QED
      BY <3>1, <3>2, StateAnchored
  <2> QED
    BY <2>1, <2>2 DEF EstimateInv, MarksHold
<1> QED
  BY <1>3, <1>5, <1>6

LEMMA TickHolds == ASSUME EstimateInv, Tick PROVE EstimateInv'
<1>1. /\ now + 2 <= Horizon /\ now' = now + 2 /\ Idle
      /\ past' = [past EXCEPT ![now + 1] = [seen |-> recorded, sampled |-> total]]
      /\ UNCHANGED <<iface, schedule, vn, updated, carried, total, proxyMarks, st, read, db>>
  BY DEF Tick, environment, panel, Truth
<1>2. now + 1 \in Instants /\ now \in Start..Horizon
  BY <1>1, Bounds DEF Instants, EstimateInv, ClockTypes
<1>3. now' \in Start..Horizon /\ now' % 2 = 1 /\ updated \in Start..now'
  BY <1>1, <1>2, Bounds DEF EstimateInv, ClockTypes
<1>4. ClockTypes'
  BY <1>1, <1>3 DEF EstimateInv, ClockTypes
<1>5. /\ TotalTypes' /\ MarksHold'
      /\ Anchored(st', now', updated', past') /\ Anchored(db'.st, now', updated', past')
  <2>1. /\ now + 1 >= now /\ updated < now + 1 /\ now + 2 \in Nat /\ now + 2 >= now
        /\ updated >= updated
    BY StateAnchored
  <2> QED
    BY <1>1, <1>2, <2>1, StateAnchored, NotedHolds
<1> QED
  BY <1>4, <1>5 DEF EstimateInv

LEMMA CarryHolds == ASSUME EstimateInv, Carry PROVE EstimateInv'
<1>1. /\ carried' = carried + 1
      /\ UNCHANGED <<now, iface, schedule, vn, updated, total, proxyMarks, st, read, db, past>>
  BY DEF Carry, panel, ghosts
<1>2. ClockTypes' /\ MarksHold'
  BY <1>1 DEF EstimateInv, ClockTypes, MarksHold
<1>3. TotalTypes'
  BY <1>1 DEF EstimateInv, TotalTypes
<1> QED
  BY <1>1, <1>2, <1>3 DEF EstimateInv

\* vnStat saves, or loses its database and starts another.
LEMMA SavesHolds == ASSUME EstimateInv, Records \/ Recreate PROVE EstimateInv'
<1>1. /\ Idle /\ updated < now /\ updated' = now
      /\ \E seen : past' = [past EXCEPT ![now] = [seen |-> seen, sampled |-> total]]
      /\ UNCHANGED <<now, iface, schedule, carried, total, proxyMarks, st, read, db>>
  BY DEF Records, Recreate, Accident, panel, Truth
<1>2. DOMAIN vn' = Ifaces /\ \A i \in Ifaces : /\ DOMAIN vn'[i] = {"created", "total", "rows"}
                                               /\ vn'[i].created \in 1..now
  <2>1. updated \in Nat /\ now \in Nat /\ 1 <= now
    BY StateAnchored, Bounds
  <2>2. CASE Recreate
    <3>1. vn' = [i \in Ifaces |-> [created |-> now, total |-> 0, rows |-> NoRows]]
      BY <2>2 DEF Recreate
    <3> QED
      BY <2>1, <3>1
  <2>3. CASE Records
    <3> DEFINE delta(i) == IF i = iface THEN fresh ELSE Foreign
               grown(i, held) == delta(i) + (IF Slot(now) \in DOMAIN held THEN held[Slot(now)] ELSE 0)
    <3>1. vn' = [i \in Ifaces |->
                   [vn[i] EXCEPT !.total = @ + delta(i),
                                 !.rows = Overlay(@, [b \in {Slot(now)} |-> grown(i, @)])]]
      BY <2>3 DEF Records
    <3>2. \A i \in Ifaces : \E a, b : vn'[i] = [vn[i] EXCEPT !.total = a, !.rows = b]
      BY <3>1
    <3>3. \A i \in Ifaces : DOMAIN vn[i] = {"created", "total", "rows"} /\ vn[i].created \in 1..updated
      BY DEF EstimateInv, ClockTypes
    <3>4. \A i \in Ifaces : DOMAIN vn'[i] = {"created", "total", "rows"} /\ vn'[i].created = vn[i].created
      BY <3>2, <3>3
    <3>5. DOMAIN vn' = Ifaces
      BY <3>1
    <3>6. \A i \in Ifaces : vn'[i].created \in 1..now
      BY <1>1, <2>1, <3>3, <3>4
    <3> QED
      BY <3>4, <3>5, <3>6
  <2> QED
    BY <2>2, <2>3
<1>3. ClockTypes'
  <2>1. updated' \in Start..now'
    BY <1>1 DEF EstimateInv, ClockTypes
  <2>2. read' = NoRead
    BY <1>1 DEF Idle
  <2> QED
    BY <1>1, <1>2, <2>1, <2>2 DEF EstimateInv, ClockTypes
<1>4. /\ TotalTypes' /\ MarksHold'
      /\ Anchored(st', now', updated', past') /\ Anchored(db'.st, now', updated', past')
  <2>1. PICK seen : past' = [past EXCEPT ![now] = [seen |-> seen, sampled |-> total]]
    BY <1>1
  <2>2. now \in Instants
    BY DEF EstimateInv, ClockTypes, Instants
  <2>3. now >= now /\ now >= updated
    BY StateAnchored
  <2> QED
    BY <1>1, <2>1, <2>2, <2>3, StateAnchored, NotedHolds
<1> QED
  BY <1>3, <1>4 DEF EstimateInv

\* What vnStat holds may change, and the settings.
LEMMA SurroundingsHold == ASSUME EstimateInv, SetBack \/ Prune \/ Configure PROVE EstimateInv'
<1>1. UNCHANGED <<now, updated, carried, total, proxyMarks, st, read, db, past>>
  BY DEF SetBack, Prune, Configure, panel, ghosts
<1>2. iface' \in Ifaces /\ schedule' \in Schedules
  <2>1. CASE SetBack \/ Prune
    BY <2>1 DEF SetBack, Prune, EstimateInv, ClockTypes
  <2>2. CASE Configure
    BY <2>2 DEF Configure
  <2> QED
    BY <2>1, <2>2
<1>3. /\ DOMAIN vn' = Ifaces
      /\ \A i \in Ifaces : DOMAIN vn'[i] = DOMAIN vn[i] /\ vn'[i].created = vn[i].created
  <2>1. DOMAIN vn = Ifaces /\ \A i \in Ifaces : DOMAIN vn[i] = {"created", "total", "rows"}
    BY DEF EstimateInv, ClockTypes
  <2>2. CASE Configure
    BY <2>1, <2>2 DEF Configure
  <2>3. CASE SetBack
    <3>1. PICK b : vn' = [vn EXCEPT ![iface].rows[b] = @ - 1, ![iface].total = @ - 1]
      BY <2>3 DEF SetBack
    <3>2. DOMAIN vn' = Ifaces
      BY <2>1, <3>1
    <3>3. \A i \in Ifaces : DOMAIN vn'[i] = DOMAIN vn[i] /\ vn'[i].created = vn[i].created
      BY <2>1, <3>1
    <3> QED
      BY <3>2, <3>3
  <2>4. CASE Prune
    <3>1. PICK b : vn' = [vn EXCEPT ![iface].rows = [a \in DOMAIN @ \ {b} |-> @[a]]]
      BY <2>4 DEF Prune
    <3> QED
      BY <2>1, <3>1
  <2> QED
    BY <2>2, <2>3, <2>4
<1>4. ClockTypes'
  BY <1>1, <1>2, <1>3 DEF EstimateInv, ClockTypes
<1>5. TotalTypes' /\ MarksHold'
  BY <1>1 DEF EstimateInv, TotalTypes, MarksHold
<1> QED
  BY <1>1, <1>4, <1>5 DEF EstimateInv

\* Steps that leave vnStat and the clock alone.
LEMMA ClockStays ==
  ASSUME EstimateInv, UNCHANGED <<now, iface, schedule, vn, updated>>,
         read' \in {read, NoRead}
  PROVE  ClockTypes'
  BY DEF EstimateInv, ClockTypes

LEMMA PersistHolds == ASSUME EstimateInv, Persist PROVE EstimateInv'
<1>1. /\ UNCHANGED <<now, iface, schedule, vn, updated, carried, total, proxyMarks, st, read, past>>
      /\ db' = Checkpoint(st, total, pending)
  BY DEF Persist, Saved, environment, ghosts
<1>2. DOMAIN db' = {"st", "total", "sources"} /\ db'.st = st /\ db'.total = total
  BY <1>1 DEF Checkpoint
<1>3. ClockTypes'
  BY <1>1, ClockStays
<1>4. TotalTypes' /\ MarksHold'
  BY <1>1, <1>2 DEF EstimateInv, TotalTypes, MarksHold
<1> QED
  BY <1>1, <1>2, <1>3, <1>4 DEF EstimateInv

LEMMA CrashHolds == ASSUME EstimateInv, Crash PROVE EstimateInv'
<1>1. /\ UNCHANGED <<now, iface, schedule, vn, updated, carried, db, past>>
      /\ st' = db.st /\ total' = db.total /\ proxyMarks' = <<>> /\ read' = NoRead
  BY DEF Crash, environment, ghosts
<1>2. ClockTypes'
  BY <1>1, ClockStays
<1>3. TotalTypes'
  BY <1>1 DEF EstimateInv, TotalTypes
<1>4. MarksHold'
  BY <1>1 DEF MarksHold
<1> QED
  BY <1>1, <1>2, <1>3, <1>4 DEF EstimateInv

LEMMA ReadSampleHolds == ASSUME EstimateInv, ReadSample PROVE EstimateInv'
<1>1. UNCHANGED <<now, iface, schedule, vn, updated, carried, total, proxyMarks, st, db, past>>
  BY DEF ReadSample, environment, ghosts
<1>2. PICK asked : read' = [iface |-> iface, schedule |-> schedule, asked |-> asked,
                            snapshot |-> [created |-> vn[iface].created, updated |-> updated,
                                          total |-> vn[iface].total, rows |-> vn[iface].rows]]
  BY DEF ReadSample, Reads
<1>3. vn[iface].created \in 1..updated /\ schedule \in Schedules
  BY DEF EstimateInv, ClockTypes
<1>4. /\ read'.schedule \in Schedules /\ read'.snapshot.updated = updated
      /\ read'.snapshot.created \in 1..updated
  BY <1>2, <1>3
<1>5. updated \in Start..updated
  BY StateAnchored, Bounds
<1>6. ClockTypes'
  BY <1>1, <1>4, <1>5 DEF EstimateInv, ClockTypes
<1>7. TotalTypes' /\ MarksHold'
  BY <1>1 DEF EstimateInv, TotalTypes, MarksHold
<1> QED
  BY <1>1, <1>6, <1>7 DEF EstimateInv

\* A sample that is dropped, refused or fails leaves the state, but for its status.
LEMMA NoSampleHolds ==
  ASSUME EstimateInv, SampleFails \/ DropSample \/ RefuseSample PROVE EstimateInv'
<1>1. /\ UNCHANGED <<now, iface, schedule, vn, updated, carried, total, proxyMarks, db, past>>
      /\ read' = NoRead /\ (st' = st \/ st' = [st EXCEPT !.status = "interrupted"])
  BY DEF SampleFails, DropSample, RefuseSample, NetworkFailure, environment, ghosts
<1>2. ClockTypes'
  BY <1>1, ClockStays
<1>3. TotalTypes' /\ MarksHold'
  BY <1>1 DEF EstimateInv, TotalTypes, MarksHold
<1>4. Anchored(st', now, updated, past)
  <2>1. CASE st' = st
    BY <2>1 DEF EstimateInv
  <2>2. CASE st' = [st EXCEPT !.status = "interrupted"]
    BY <2>2, FieldsAre DEF EstimateInv, Anchored, FieldNames
  <2> QED
    BY <1>1, <2>1, <2>2
<1> QED
  BY <1>1, <1>2, <1>3, <1>4 DEF EstimateInv

\* The newest mark holds everything; those that are trimmed are the oldest.
LEMMA MarksExtended ==
  ASSUME EstimateInv, UNCHANGED <<now, past>>, total' = carried,
         proxyMarks' = Trimmed(Append(proxyMarks, [at |-> now, total |-> carried]))
  PROVE  MarksHold'
<1> DEFINE all == Append(proxyMarks, [at |-> now, total |-> carried])
           length == Len(all)
           young == {n \in DOMAIN all : now - all[n].at <= proxyMarkWindow}
           first == Min({length} \cup young)
<1>1. /\ proxyMarks \in Seq(Marks) /\ Len(proxyMarks) \in Nat
      /\ now \in Instants /\ carried \in Nat
  BY StateAnchored DEF EstimateInv, MarksHold, ClockTypes, Instants
<1>2. [at |-> now, total |-> carried] \in Marks
  BY <1>1 DEF Marks
<1>3. /\ all \in Seq(Marks) /\ length = Len(proxyMarks) + 1 /\ DOMAIN all = 1..length
      /\ \A n \in 1..Len(proxyMarks) : all[n] = proxyMarks[n]
      /\ all[length] = [at |-> now, total |-> carried]
  BY <1>1, <1>2
<1>4. \A n \in 1..length : n = length \/ n \in 1..Len(proxyMarks)
  <2> HIDE DEF all, length
  <2> QED
    BY <1>1, <1>3
<1>5. \A n \in 1..Len(proxyMarks) : proxyMarks[n].at \in Nat /\ proxyMarks[n].at <= now
  <2> SUFFICES ASSUME NEW n \in 1..Len(proxyMarks)
               PROVE  proxyMarks[n].at \in Nat /\ proxyMarks[n].at <= now
    OBVIOUS
  <2>1. proxyMarks[n] \in Marks
    BY <1>1
  <2> QED
    BY <2>1, Bounds DEF Marks, Instants, EstimateInv, MarksHold
<1> HIDE DEF all, length
<1>6. \A n \in 1..length : all[n].at <= now
  <2> SUFFICES ASSUME NEW n \in 1..length PROVE all[n].at <= now
    OBVIOUS
  <2>1. CASE n = length
    BY <1>3, <2>1, StateAnchored
  <2>2. CASE n \in 1..Len(proxyMarks)
    BY <1>3, <1>5, <2>2
  <2> QED
    BY <1>4, <2>1, <2>2
<1>7. \A m, n \in 1..length : m <= n => all[m].at <= all[n].at
  <2> SUFFICES ASSUME NEW m \in 1..length, NEW n \in 1..length, m <= n
               PROVE  all[m].at <= all[n].at
    OBVIOUS
  <2>1. CASE n = length
    BY <1>3, <1>6, <2>1
  <2>2. CASE n \in 1..Len(proxyMarks)
    <3>1. m \in 1..Len(proxyMarks)
      BY <1>1, <2>2
    <3>2. proxyMarks[m].at <= proxyMarks[n].at
      BY <2>2, <3>1 DEF EstimateInv, MarksHold
    <3> QED
      BY <1>3, <2>2, <3>1, <3>2
  <2> QED
    BY <1>4, <2>1, <2>2
<1>8. \A n \in 1..length, t \in Instants :
        n = length \/ t < all[n + 1].at => past[t].sampled <= all[n].total
  <2> SUFFICES ASSUME NEW n \in 1..length, NEW t \in Instants, n = length \/ t < all[n + 1].at
               PROVE  past[t].sampled <= all[n].total
    OBVIOUS
  <2>1. CASE n = length
    BY <1>3, <2>1, StateAnchored
  <2>2. CASE n # length /\ n \in 1..Len(proxyMarks)
    <3>1. all[n] = proxyMarks[n]
      BY <1>3, <2>2
    <3>2. CASE n = Len(proxyMarks)
      BY <2>2, <3>1, <3>2 DEF EstimateInv, MarksHold
    <3>3. CASE n # Len(proxyMarks)
      <4>1. n + 1 \in 1..Len(proxyMarks)
        BY <1>1, <2>2, <3>3
      <4>2. t < proxyMarks[n + 1].at
        BY <1>3, <2>2, <4>1
      <4> QED
        BY <2>2, <3>1, <4>2 DEF EstimateInv, MarksHold
    <3> QED
      BY <3>2, <3>3
  <2> QED
    BY <1>4, <2>1, <2>2
<1>9. first \in 1..length
  <2>1. young \subseteq 1..length
    BY <1>3
  <2> HIDE DEF young
  <2>2. length \in Nat /\ length >= 1
    BY <1>1, <1>3
  <2>3. {length} \cup young \subseteq Nat /\ {length} \cup young \subseteq 1..length
    BY <2>1, <2>2
  <2> QED
    BY <2>3, MinIs
<1>10. proxyMarks' = SubSeq(all, first, length)
  BY DEF Trimmed, all, length
<1> HIDE DEF first, young
<1>11. length \in Nat /\ first \in Nat /\ first <= length
  BY <1>1, <1>3, <1>9
<1>12. /\ proxyMarks' \in Seq(Marks) /\ Len(proxyMarks') = length - first + 1
       /\ \A n \in 1..(length - first + 1) : proxyMarks'[n] = all[first + n - 1]
  <2>1. length = Len(all) /\ first \in 1..Len(all)
    BY <1>9 DEF length
  <2>2. /\ SubSeq(all, first, length) \in Seq(Marks)
        /\ Len(SubSeq(all, first, length)) = length - first + 1
        /\ \A n \in 1..(length - first + 1) : SubSeq(all, first, length)[n] = all[first + n - 1]
    BY <1>3, <1>11, <2>1, SubSeqProperties
  <2> QED
    BY <1>10, <2>2
<1> DEFINE left == length - first + 1
<1>13. /\ left \in Nat /\ left # 0 /\ first + left - 1 = length
       /\ \A n \in 1..left : first + n - 1 \in 1..length
  BY <1>11, <1>9
<1>14. \A n \in 1..left : proxyMarks'[n].at <= now
  BY <1>6, <1>12, <1>13
<1>15. \A m, n \in 1..left : m <= n => proxyMarks'[m].at <= proxyMarks'[n].at
  <2> SUFFICES ASSUME NEW m \in 1..left, NEW n \in 1..left, m <= n
               PROVE  proxyMarks'[m].at <= proxyMarks'[n].at
    OBVIOUS
  <2>1. first + m - 1 <= first + n - 1
    BY <1>11, <1>13
  <2>2. all[first + m - 1].at <= all[first + n - 1].at
    BY <1>7, <1>13, <2>1
  <2> QED
    BY <1>12, <2>2
<1>16. proxyMarks'[left].total = carried
  BY <1>3, <1>12, <1>13
<1>17. \A n \in 1..left, t \in Instants :
         n = left \/ t < proxyMarks'[n + 1].at => past[t].sampled <= proxyMarks'[n].total
  <2> SUFFICES ASSUME NEW n \in 1..left, NEW t \in Instants,
                      n = left \/ t < proxyMarks'[n + 1].at
               PROVE  past[t].sampled <= proxyMarks'[n].total
    OBVIOUS
  <2>1. first + n - 1 = length \/ t < all[first + n - 1 + 1].at
    <3>1. CASE n = left
      BY <1>13, <3>1
    <3>2. CASE n # left
      <4>1. n + 1 \in 1..left /\ first + (n + 1) - 1 = first + n - 1 + 1
        BY <1>11, <1>13, <3>2
      <4>2. proxyMarks'[n + 1] = all[first + n - 1 + 1]
        BY <1>12, <4>1
      <4> QED
        BY <3>2, <4>2
    <3> QED
      BY <3>1, <3>2
  <2>2. past[t].sampled <= all[first + n - 1].total
    BY <1>8, <1>13, <2>1
  <2> QED
    BY <1>12, <2>2
<1> QED
  BY <1>12, <1>13, <1>14, <1>15, <1>16, <1>17 DEF MarksHold

LEMMA ApplySampleHolds == ASSUME EstimateInv, ApplySample PROVE EstimateInv'
<1>1. /\ UNCHANGED <<now, iface, schedule, vn, updated, carried, read, past>>
      /\ total' = carried
      /\ proxyMarks' = Trimmed(Append(proxyMarks, [at |-> now, total |-> carried]))
      /\ st' = IF st.generation # 0 /\ ~st.anchorKnown
               THEN [st EXCEPT !.anchor = carried, !.anchorKnown = TRUE] ELSE st
  BY DEF ApplySample, environment, ghosts
<1>2. db' = db \/ (DOMAIN db' = {"st", "total", "sources"} /\ db'.st = st' /\ db'.total = total')
  BY DEF ApplySample, Saved, NotSaved, Checkpoint
<1>3. ClockTypes'
  BY <1>1, ClockStays
<1>4. MarksHold'
  BY <1>1, MarksExtended
<1>5. TotalTypes'
  <2>1. carried \in Nat /\ total' = carried /\ carried' = carried /\ past' = past
    BY <1>1, StateAnchored
  <2>2. DOMAIN db' = {"st", "total", "sources"} /\ db'.total \in 0..carried
    BY <1>2, <2>1 DEF EstimateInv, TotalTypes
  <2> QED
    BY <2>1, <2>2 DEF EstimateInv, TotalTypes
<1>6. Anchored(st', now, updated, past)
  <2>1. CASE ~(st.generation # 0 /\ ~st.anchorKnown)
    BY <1>1, <2>1 DEF EstimateInv
  <2>2. CASE st.generation # 0 /\ ~st.anchorKnown
    <3>1. /\ st' = [st EXCEPT !.anchor = carried, !.anchorKnown = TRUE] /\ DOMAIN st = Fields
      BY <1>1, <2>2 DEF EstimateInv, Anchored
    <3>2. /\ DOMAIN st' = Fields /\ st'.anchor = carried /\ st'.anchorKnown = TRUE
          /\ st'.updated = st.updated /\ st'.recordedFrom = st.recordedFrom
          /\ st'.period = st.period /\ st'.anchorAt = st.anchorAt
          /\ st'.generation = st.generation
      BY <3>1, FieldsAre DEF FieldNames
    <3> QED
      BY <3>2, StateAnchored DEF Anchored
  <2> QED
    BY <2>1, <2>2
<1>7. Anchored(db'.st, now, updated, past)
  BY <1>2, <1>6 DEF EstimateInv
<1> QED
  BY <1>1, <1>3, <1>4, <1>5, <1>6, <1>7 DEF EstimateInv

LEMMA PublishSampleHolds == ASSUME EstimateInv, PublishSample PROVE EstimateInv'
<1>1. /\ UNCHANGED <<now, iface, schedule, vn, updated, carried, total, proxyMarks, past>>
      /\ ~Idle /\ read' = NoRead /\ st' = Sampled(st, read)
  BY DEF PublishSample, environment, ghosts
<1>2. db' = db \/ (DOMAIN db' = {"st", "total", "sources"} /\ db'.st = st' /\ db'.total = total)
  BY DEF PublishSample, Saved, NotSaved, Checkpoint
<1>3. ClockTypes'
  BY <1>1, ClockStays
<1>4. TotalTypes' /\ MarksHold'
  BY <1>1, <1>2 DEF EstimateInv, TotalTypes, MarksHold
<1>5. Anchored(st', now, updated, past)
  BY <1>1, SampledHolds
<1>6. Anchored(db'.st, now, updated, past)
  BY <1>2, <1>5 DEF EstimateInv
<1> QED
  BY <1>1, <1>3, <1>4, <1>5, <1>6 DEF EstimateInv

LEMMA ManualResetHolds == ASSUME EstimateInv, ManualReset PROVE EstimateInv'
<1>1. /\ UNCHANGED <<now, iface, schedule, vn, updated, carried, total, proxyMarks, read, past>>
      /\ \/ st' = st
         \/ st' = [st EXCEPT !.manual = TRUE, !.baseline = st.last, !.carry = 0, !.rx = 0,
                             !.partial = FALSE, !.period = st.updated]
  BY DEF ManualReset, environment, ghosts
<1>2. db' = db \/ (DOMAIN db' = {"st", "total", "sources"} /\ db'.st = st' /\ db'.total = total)
  BY DEF ManualReset, Saved, NotSaved, Checkpoint
<1>3. ClockTypes'
  BY <1>1, ClockStays
<1>4. TotalTypes' /\ MarksHold'
  BY <1>1, <1>2 DEF EstimateInv, TotalTypes, MarksHold
<1>5. Anchored(st', now, updated, past)
  <2>1. CASE st' = st
    BY <2>1 DEF EstimateInv
  <2>2. CASE st' # st
    <3>1. /\ st' = [st EXCEPT !.manual = TRUE, !.baseline = st.last, !.carry = 0, !.rx = 0,
                              !.partial = FALSE, !.period = st.updated]
          /\ DOMAIN st = Fields
      BY <1>1, <2>2 DEF EstimateInv, Anchored
    <3>2. /\ DOMAIN st' = Fields /\ st'.period = st.updated
          /\ st'.anchor = st.anchor /\ st'.anchorKnown = st.anchorKnown
          /\ st'.updated = st.updated /\ st'.recordedFrom = st.recordedFrom
          /\ st'.anchorAt = st.anchorAt /\ st'.generation = st.generation
      BY <3>1, FieldsAre DEF FieldNames
    <3>3. st.updated \in Nat /\ st.updated <= updated
      BY StateAnchored DEF Anchored
    <3>4. Settles(st.updated, now, updated)
      BY <3>3 DEF Settles
    <3> QED
      BY <3>2, <3>3, <3>4, StateAnchored DEF Anchored
  <2> QED
    BY <2>1, <2>2
<1>6. Anchored(db'.st, now, updated, past)
  BY <1>2, <1>5 DEF EstimateInv
<1> QED
  BY <1>1, <1>3, <1>4, <1>5, <1>6 DEF EstimateInv

-----------------------------------------------------------------------------
LEMMA EstimateInit == ASSUME Init PROVE EstimateInv
<1>1. /\ now = Start /\ updated = Start /\ carried = 0 /\ total = 0 /\ proxyMarks = <<>>
      /\ st = NewState /\ read = NoRead
      /\ db = [st |-> NewState, total |-> 0, sources |-> <<>>]
      /\ past = [at \in Start..Horizon |-> [seen |-> 0, sampled |-> 0]]
  BY DEF Init
<1>2. ClockTypes
  <2>1. iface \in Ifaces /\ schedule \in Schedules
    BY EntryAssumption DEF Init
  <2>2. vn = [i \in Ifaces |-> [created |-> 1, total |-> 2, rows |-> [b \in {0, Width} |-> 1]]]
    BY DEF Init
  <2>3. \A i \in Ifaces : DOMAIN vn[i] = {"created", "total", "rows"} /\ vn[i].created \in 1..5
    BY <2>2
  <2> QED
    BY <1>1, <2>1, <2>2, <2>3, Bounds DEF ClockTypes
<1>3. TotalTypes
  BY <1>1 DEF TotalTypes, Instants
<1>4. MarksHold
  BY <1>1 DEF MarksHold
<1>5. Anchored(NewState, now, updated, past)
  BY <1>1, Bounds DEF Anchored, NewState, Fields, Settles
<1> QED
  BY <1>1, <1>2, <1>3, <1>4, <1>5 DEF EstimateInv

LEMMA EstimateStep == ASSUME EstimateInv, [Next]_vars PROVE EstimateInv'
<1>1. CASE Next
  BY <1>1, TickHolds, CarryHolds, SavesHolds, SurroundingsHold, ApplySampleHolds, ReadSampleHolds,
     NoSampleHolds, PublishSampleHolds, ManualResetHolds, PersistHolds, CrashHolds DEF Next
<1>2. CASE UNCHANGED vars
  <2>1. UNCHANGED <<now, iface, schedule, vn, updated, carried, total, proxyMarks, st, read, db, past>>
    BY <1>2 DEF vars, environment, panel, ghosts
  <2>2. ClockTypes'
    BY <2>1, ClockStays
  <2> QED
    BY <2>1, <2>2 DEF EstimateInv, TotalTypes, MarksHold
<1> QED
  BY <1>1, <1>2

LEMMA EstimateFollows == ASSUME EstimateInv PROVE EstimateCountsOnce
<1> SUFFICES ASSUME st.generation # 0, st.anchorKnown
             PROVE  Later(0, total - st.anchor)
                      <= carried - past[Later(st.updated, st.period)].sampled
  BY DEF EstimateCountsOnce
<1> DEFINE A == Later(st.updated, st.period)
<1>1. /\ st.updated \in Nat /\ Start <= st.updated /\ st.updated <= updated
      /\ st.period \in Nat /\ Settles(st.period, now, updated)
      /\ st.anchorAt \in Nat /\ st.updated <= st.anchorAt /\ st.period <= st.anchorAt
      /\ st.anchor \in Nat /\ Start \in Nat
  BY StateAnchored, Bounds DEF Anchored
<1>2. now \in Nat /\ now <= Horizon /\ Horizon \in Nat
  BY Bounds DEF EstimateInv, ClockTypes
<1>3. A \in {st.updated, st.period} /\ A >= st.updated /\ A >= st.period
  BY <1>1, LaterIs
<1> HIDE DEF A
<1>4. A \in Nat /\ Start <= A /\ A <= now /\ A <= st.anchorAt
  BY <1>1, <1>2, <1>3, StateAnchored DEF Settles
<1>5. A \in Instants
  BY <1>1, <1>2, <1>4 DEF Instants
<1>6. past[A].sampled <= st.anchor
  BY <1>4, <1>5 DEF EstimateInv, Anchored
<1>7. past[A].sampled \in Nat /\ past[A].sampled <= carried
  BY <1>5, StateAnchored
<1>8. Later(0, total - st.anchor) \in {0, total - st.anchor}
  BY DEF Later
<1>9. Later(0, total - st.anchor) <= carried - past[A].sampled
  <2> HIDE DEF Later
  <2> QED
    BY <1>1, <1>6, <1>7, <1>8, StateAnchored
<1> QED
  BY <1>9 DEF A

\* The estimate holds no proxy byte that a core sample had already brought in when vnStat
\* saved, or when the period began (EstimateCountsOnce): whatever vnStat does, whichever
\* samples are dropped, refused, not saved or lost, and however often the panel restarts
\* (network.go, anchorProxyLocked and recordProxyMarkLocked).
THEOREM EstimateAlwaysCountsOnce == Spec => []EstimateCountsOnce
<1>1. Init => EstimateInv
  BY EstimateInit
<1>2. EstimateInv /\ [Next]_vars => EstimateInv'
  BY EstimateStep
<1>3. EstimateInv => EstimateCountsOnce
  BY EstimateFollows
<1> QED
  BY <1>1, <1>2, <1>3, PTL DEF Spec

LEMMA ScenesRun == MCSpec => Spec
<1>1. MCInit => Init
  BY DEF MCInit
<1>2. [MCNext]_<<scene, vars, iVars, rVars>> => [Next]_vars
  BY DEF MCNext, EntryNext
<1> QED
  BY <1>1, <1>2, PTL DEF MCSpec, Spec

\* The same in the run that has the scenes side by side.
THEOREM EstimateCountsOnceInTheScenes == MCSpec => []EstimateCountsOnce
  BY ScenesRun, EstimateAlwaysCountsOnce, PTL

-----------------------------------------------------------------------------
LEMMA Counting ==
  ASSUME NEW P, 0 \in P, \A n \in Nat : n \in P => n + 1 \in P
  PROVE  Nat \subseteq P
<1> SUFFICES ASSUME Nat \ P # {} PROVE FALSE
  OBVIOUS
<1>1. PICK m \in Nat \ P : \A k \in Nat \ P : m <= k
  BY LeastOfNaturals
<1>2. m \in Nat /\ m # 0 /\ m \notin P
  BY <1>1
<1>3. m - 1 \in Nat /\ ~(m <= m - 1) /\ (m - 1) + 1 = m
  BY <1>2
<1>4. m - 1 \in P
  BY <1>1, <1>3
<1> QED
  BY <1>2, <1>3, <1>4

\* What holds of a finite set when it holds of the smaller ones, holds of all its subsets.
LEMMA SubsetInduction ==
  ASSUME NEW S, IsFiniteSet(S), NEW P,
         \A s \in SUBSET S : (\A t \in SUBSET s : t # s => t \in P) => s \in P
  PROVE  SUBSET S \subseteq P
<1> DEFINE Q == {n \in Nat : \A s \in SUBSET S : Cardinality(s) <= n => s \in P}
<1>1. \A s \in SUBSET S : IsFiniteSet(s) /\ Cardinality(s) \in Nat
  BY FS_Subset, FS_CardinalityType
<1>2. \A s \in SUBSET S : \A t \in SUBSET s : t # s => Cardinality(t) < Cardinality(s)
  <2> SUFFICES ASSUME NEW s \in SUBSET S, NEW t \in SUBSET s, t # s
               PROVE  Cardinality(t) < Cardinality(s)
    OBVIOUS
  <2>1. IsFiniteSet(s) /\ Cardinality(s) \in Nat /\ Cardinality(t) \in Nat
    BY <1>1
  <2>2. Cardinality(t) <= Cardinality(s) /\ (Cardinality(s) = Cardinality(t) => s = t)
    BY <2>1, FS_Subset
  <2> QED
    BY <2>1, <2>2
<1>3. 0 \in Q
  <2> SUFFICES ASSUME NEW s \in SUBSET S, Cardinality(s) <= 0 PROVE s \in P
    OBVIOUS
  <2>1. ASSUME NEW t \in SUBSET s, t # s PROVE FALSE
    <3>1. Cardinality(t) < Cardinality(s) /\ Cardinality(t) \in Nat /\ Cardinality(s) \in Nat
      BY <1>1, <1>2, <2>1
    <3> QED
      BY <3>1
  <2> QED
    BY <2>1
<1>4. ASSUME NEW n \in Nat, n \in Q PROVE n + 1 \in Q
  <2> SUFFICES ASSUME NEW s \in SUBSET S, Cardinality(s) <= n + 1 PROVE s \in P
    OBVIOUS
  <2>1. ASSUME NEW t \in SUBSET s, t # s PROVE t \in P
    <3>1. /\ Cardinality(t) < Cardinality(s) /\ Cardinality(t) \in Nat /\ Cardinality(s) \in Nat
          /\ t \in SUBSET S
      BY <1>1, <1>2, <2>1
    <3>2. Cardinality(t) <= n
      BY <3>1
    <3> QED
      BY <1>4, <3>1, <3>2
  <2> QED
    BY <2>1
<1> HIDE DEF Q
<1>5. Nat \subseteq Q
  BY <1>3, <1>4, Counting
<1> SUFFICES ASSUME NEW s \in SUBSET S PROVE s \in P
  OBVIOUS
<1>6. Cardinality(s) \in Q /\ Cardinality(s) <= Cardinality(s)
  BY <1>1, <1>5
<1> QED
  BY <1>6 DEF Q

-----------------------------------------------------------------------------
\* A sum over a set, as the community modules define it: by taking out one member after another.
Step(f, g, s) == IF s = {} THEN 0 ELSE f[CHOOSE x \in s : TRUE] + g[s \ {CHOOSE x \in s : TRUE}]
Rec(f, S) == CHOOSE g : g = [s \in SUBSET S |-> Step(f, g, s)]
Total(f, S) == Rec(f, S)[S]

LEMMA RecExists ==
  ASSUME NEW f, NEW S, IsFiniteSet(S)
  PROVE  \E g : g = [s \in SUBSET S |-> Step(f, g, s)]
<1> DEFINE c(s) == CHOOSE x \in s : TRUE
           Good(g, n) == /\ g = [s \in SUBSET S |-> g[s]]
                         /\ \A s \in SUBSET S : Cardinality(s) <= n => g[s] = Step(f, g, s)
           Q == {n \in Nat : \E g : Good(g, n)}
<1>1. \A s \in SUBSET S : IsFiniteSet(s) /\ Cardinality(s) \in Nat
  BY FS_Subset, FS_CardinalityType
<1>2. \A s \in SUBSET S : s # {} => /\ s \ {c(s)} \in SUBSET S
                                     /\ Cardinality(s \ {c(s)}) = Cardinality(s) - 1
  <2> SUFFICES ASSUME NEW s \in SUBSET S, s # {}
               PROVE  s \ {c(s)} \in SUBSET S /\ Cardinality(s \ {c(s)}) = Cardinality(s) - 1
    OBVIOUS
  <2>1. c(s) \in s /\ IsFiniteSet(s)
    BY <1>1
  <2> QED
    BY <2>1, FS_RemoveElement
<1>3. 0 \in Q
  <2> DEFINE g == [s \in SUBSET S |-> 0]
  <2>1. \A s \in SUBSET S : Cardinality(s) <= 0 => s = {}
    <3> SUFFICES ASSUME NEW s \in SUBSET S, Cardinality(s) <= 0 PROVE s = {}
      OBVIOUS
    <3>1. Cardinality(s) = 0 /\ IsFiniteSet(s)
      BY <1>1
    <3> QED
      BY <3>1, FS_EmptySet
  <2>2. Good(g, 0)
    BY <2>1 DEF Step
  <2> QED
    BY <2>2
<1>4. ASSUME NEW n \in Nat, n \in Q PROVE n + 1 \in Q
  <2>1. PICK g : Good(g, n)
    BY <1>4
  <2> DEFINE h == [s \in SUBSET S |-> IF Cardinality(s) <= n THEN g[s] ELSE Step(f, g, s)]
  <2>2. \A s \in SUBSET S : h[s] = IF Cardinality(s) <= n THEN g[s] ELSE Step(f, g, s)
    OBVIOUS
  <2>3. h = [s \in SUBSET S |-> h[s]]
    OBVIOUS
  <2> HIDE DEF h
  <2>4. ASSUME NEW s \in SUBSET S, Cardinality(s) <= n + 1 PROVE h[s] = Step(f, h, s)
    <3>1. CASE s = {}
      <4>1. Step(f, g, s) = 0 /\ Step(f, h, s) = 0
        BY <3>1 DEF Step
      <4>2. Cardinality(s) <= n => g[s] = Step(f, g, s)
        BY <2>1
      <4> QED
        BY <2>2, <4>1, <4>2
    <3>2. CASE s # {}
      <4>1. /\ s \ {c(s)} \in SUBSET S /\ Cardinality(s \ {c(s)}) <= n
        BY <1>1, <1>2, <2>4, <3>2
      <4>2. h[s \ {c(s)}] = g[s \ {c(s)}]
        BY <2>2, <4>1
      <4>3. Step(f, h, s) = Step(f, g, s)
        BY <3>2, <4>2 DEF Step
      <4>4. Cardinality(s) <= n => g[s] = Step(f, g, s)
        BY <2>1
      <4> QED
        BY <2>2, <4>3, <4>4
    <3> QED
      BY <3>1, <3>2
  <2>5. Good(h, n + 1)
    BY <2>3, <2>4
  <2> HIDE DEF Good
  <2>6. n + 1 \in Nat /\ \E k : Good(k, n + 1)
    BY <2>5
  <2> QED
    BY <2>6
<1> HIDE DEF Q
<1>5. Nat \subseteq Q
  BY <1>3, <1>4, Counting
<1>6. Cardinality(S) \in Nat
  BY FS_CardinalityType
<1>7. PICK g : Good(g, Cardinality(S))
  BY <1>5, <1>6 DEF Q
<1>8. \A s \in SUBSET S : Cardinality(s) <= Cardinality(S)
  BY FS_Subset
<1>9. \A s \in SUBSET S : g[s] = Step(f, g, s)
  BY <1>7, <1>8
<1>10. g = [s \in SUBSET S |-> g[s]]
  BY <1>7
<1>11. g = [s \in SUBSET S |-> Step(f, g, s)]
  <2> HIDE DEF Good
  <2> QED
    BY <1>9, <1>10
<1> QED
  BY <1>11

LEMMA RecIs ==
  ASSUME NEW f, NEW S, IsFiniteSet(S)
  PROVE  \A s \in SUBSET S : Rec(f, S)[s] = Step(f, Rec(f, S), s)
<1>1. Rec(f, S) = [s \in SUBSET S |-> Step(f, Rec(f, S), s)]
  BY RecExists DEF Rec
<1>2. \A s \in SUBSET S : [t \in SUBSET S |-> Step(f, Rec(f, S), t)][s] = Step(f, Rec(f, S), s)
  OBVIOUS
<1> QED
  BY <1>1, <1>2

\* A sum looks at the members of its set only.
LEMMA SameRec ==
  ASSUME NEW f, NEW S, IsFiniteSet(S), NEW h, NEW T, IsFiniteSet(T), NEW U,
         U \subseteq S, U \subseteq T, \A x \in U : f[x] = h[x]
  PROVE  Rec(f, S)[U] = Rec(h, T)[U]
<1> DEFINE P == {s \in SUBSET U : Rec(f, S)[s] = Rec(h, T)[s]}
<1>1. IsFiniteSet(U)
  BY FS_Subset
<1>2. \A s \in SUBSET S : Rec(f, S)[s] = Step(f, Rec(f, S), s)
  BY RecIs
<1>3. \A s \in SUBSET T : Rec(h, T)[s] = Step(h, Rec(h, T), s)
  BY RecIs
<1>4. ASSUME NEW s \in SUBSET U, \A t \in SUBSET s : t # s => t \in P
      PROVE  s \in P
  <2>1. Rec(f, S)[s] = Step(f, Rec(f, S), s) /\ Rec(h, T)[s] = Step(h, Rec(h, T), s)
    <3>1. s \in SUBSET S /\ s \in SUBSET T
      OBVIOUS
    <3> QED
      BY <1>2, <1>3, <3>1
  <2>2. CASE s = {}
    BY <2>1, <2>2 DEF Step
  <2>3. CASE s # {}
    <3> DEFINE c == CHOOSE x \in s : TRUE
    <3>1. c \in s /\ s \ {c} \in SUBSET s /\ s \ {c} # s /\ s \in SUBSET U
      BY <2>3
    <3>2. Rec(f, S)[s \ {c}] = Rec(h, T)[s \ {c}]
      BY <1>4, <3>1
    <3>3. f[c] = h[c]
      BY <3>1
    <3> QED
      BY <2>1, <2>3, <3>1, <3>2, <3>3 DEF Step
  <2> QED
    BY <2>2, <2>3
<1> HIDE DEF P
<1>5. SUBSET U \subseteq P
  BY <1>1, <1>4, SubsetInduction
<1> QED
  BY <1>5 DEF P

LEMMA TotalEmpty == ASSUME NEW f PROVE Total(f, {}) = 0
<1>1. IsFiniteSet({}) /\ {} \in SUBSET {}
  BY FS_EmptySet
<1> QED
  BY <1>1, RecIs DEF Step, Total

LEMMA SameTotal ==
  ASSUME NEW f, NEW h, NEW S, IsFiniteSet(S), \A x \in S : f[x] = h[x]
  PROVE  Total(f, S) = Total(h, S)
  BY SameRec DEF Total

\* One member more, whichever.
LEMMA TotalMember ==
  ASSUME NEW f, NEW S, IsFiniteSet(S), \A x \in S : f[x] \in Int
  PROVE  /\ Total(f, S) \in Int
         /\ \A x \in S : Total(f, S) = f[x] + Total(f, S \ {x})
<1> DEFINE g == Rec(f, S)
           P == {s \in SUBSET S : g[s] \in Int /\ \A x \in s : g[s] = f[x] + g[s \ {x}]}
<1>1. \A s \in SUBSET S : g[s] = Step(f, g, s)
  BY RecIs
<1> HIDE DEF g
<1>2. ASSUME NEW s \in SUBSET S, \A t \in SUBSET s : t # s => t \in P
      PROVE  s \in P
  <2>1. CASE s = {}
    <3>1. g[s] = 0
      BY <1>1, <2>1 DEF Step
    <3> QED
      BY <2>1, <3>1
  <2>2. CASE s # {}
    <3> DEFINE c == CHOOSE x \in s : TRUE
    <3>1. c \in s
      BY <2>2
    <3>2. g[s] = f[c] + g[s \ {c}]
      BY <1>1, <2>2 DEF Step
    <3> HIDE DEF c
    <3>3. \A x \in s : s \ {x} \in P /\ f[x] \in Int
      BY <1>2
    <3>4. g[s] \in Int
      BY <3>1, <3>2, <3>3
    <3>5. ASSUME NEW x \in s PROVE g[s] = f[x] + g[s \ {x}]
      <4>1. CASE x = c
        BY <3>2, <4>1
      <4>2. CASE x # c
        <5>1. x \in s \ {c} /\ c \in s \ {x} /\ (s \ {c}) \ {x} = (s \ {x}) \ {c}
          BY <3>1, <4>2
        <5>2. (s \ {c}) \ {x} \in P
          BY <1>2, <5>1
        <5>3. g[s \ {c}] = f[x] + g[(s \ {c}) \ {x}] /\ g[s \ {x}] = f[c] + g[(s \ {x}) \ {c}]
          BY <3>1, <3>3, <5>1
        <5>4. f[x] \in Int /\ f[c] \in Int /\ g[(s \ {c}) \ {x}] \in Int
          BY <3>1, <3>3, <5>2
        <5>5. g[s \ {x}] = f[c] + g[(s \ {c}) \ {x}]
          BY <5>1, <5>3
        <5> HIDE DEF P
        <5> QED
          BY <3>2, <5>3, <5>4, <5>5
      <4> QED
        BY <4>1, <4>2
    <3> QED
      BY <3>4, <3>5
  <2> QED
    BY <2>1, <2>2
<1> HIDE DEF P
<1>3. SUBSET S \subseteq P
  BY <1>2, SubsetInduction
<1>4. /\ g[S] \in Int /\ \A x \in S : g[S] = f[x] + g[S \ {x}]
  BY <1>3 DEF P
<1>5. ASSUME NEW x \in S PROVE g[S \ {x}] = Total(f, S \ {x})
  <2>1. IsFiniteSet(S \ {x}) /\ S \ {x} \subseteq S
    BY FS_Subset
  <2>2. Rec(f, S)[S \ {x}] = Rec(f, S \ {x})[S \ {x}]
    BY <2>1, SameRec
  <2> QED
    BY <2>2 DEF g, Total
<1> QED
  BY <1>4, <1>5 DEF g, Total

\* The sums of the model.
LEMMA SumOfIs == ASSUME NEW f, NEW which PROVE SumOf(f, which) = Total(f, which)
  BY DEF SumOf, MapThenSumSet, MapThenFoldSet, Total, Rec, Step

\* Naturals between bounds, one of them the greatest.
LEMMA Greatest ==
  ASSUME NEW S, S # {}, NEW f, NEW n \in Nat, \A x \in S : f[x] \in Nat /\ f[x] <= n
  PROVE  \E m \in S : \A x \in S : f[x] <= f[m]
<1> DEFINE T == {f[x] : x \in S}
<1>1. T \subseteq 0..n /\ T # {}
  OBVIOUS
<1>2. Max(T) \in T /\ \A k \in T : k <= Max(T)
  <2> HIDE DEF T
  <2> QED
    BY <1>1, MaxIs
<1> QED
  BY <1>2

\* Disjoint intervals.
Apart(K, o, c) == \A k, l \in K : k # l => c[k] <= o[l] \/ c[l] <= o[k]
Within(K, o, c, from, to) ==
  \A k \in K : /\ o[k] \in Nat /\ c[k] \in Nat
               /\ from <= o[k] /\ o[k] < c[k] /\ c[k] <= to
Covers(K, o, c, from, to) == \A x \in from..(to - 1) : \E k \in K : o[k] <= x /\ x < c[k]
Grows(F) == /\ \A t \in Nat : F[t] \in Nat
            /\ \A s, t \in Nat : s <= t => F[s] <= F[t]

LEMMA LastApart ==
  ASSUME NEW K, NEW o, NEW c, NEW from \in Nat, NEW to \in Nat,
         Within(K, o, c, from, to), Apart(K, o, c), K # {}
  PROVE  \E m \in K : \A k \in K : c[k] <= c[m] /\ (k # m => c[k] <= o[m])
<1>1. \A k \in K : c[k] \in Nat /\ c[k] <= to
  BY DEF Within
<1>2. PICK m \in K : \A k \in K : c[k] <= c[m]
  BY <1>1, Greatest
<1>3. ASSUME NEW k \in K, k # m PROVE c[k] <= o[m]
  <2>1. c[k] <= o[m] \/ c[m] <= o[k]
    BY <1>3 DEF Apart
  <2>2. o[k] \in Nat /\ c[k] \in Nat /\ o[k] < c[k] /\ c[k] <= c[m] /\ c[m] \in Nat
    BY <1>1, <1>2 DEF Within
  <2> QED
    BY <2>1, <2>2
<1> QED
  BY <1>2, <1>3

\* What they hold is no more than what lies from the first to the last.
LEMMA SumWithin ==
  ASSUME NEW K, IsFiniteSet(K), NEW o, NEW c, NEW v, NEW F, Grows(F),
         NEW from \in Nat, NEW to \in Nat, from <= to,
         Within(K, o, c, from, to), Apart(K, o, c),
         \A k \in K : v[k] \in Nat /\ v[k] <= F[c[k]] - F[o[k]]
  PROVE  Total(v, K) \in Nat /\ Total(v, K) <= F[to] - F[from]
<1> DEFINE P == {s \in SUBSET K : \A t \in Nat :
                   from <= t /\ (\A k \in s : c[k] <= t) =>
                     Total(v, s) \in Nat /\ Total(v, s) <= F[t] - F[from]}
<1>1. ASSUME NEW s \in SUBSET K, \A q \in SUBSET s : q # s => q \in P PROVE s \in P
  <2> SUFFICES ASSUME NEW t \in Nat, from <= t, \A k \in s : c[k] <= t
               PROVE  Total(v, s) \in Nat /\ Total(v, s) <= F[t] - F[from]
    OBVIOUS
  <2>1. F[t] \in Nat /\ F[from] \in Nat /\ F[from] <= F[t]
    BY DEF Grows
  <2>2. CASE s = {}
    BY <2>1, <2>2, TotalEmpty
  <2>3. CASE s # {}
    <3>1. Within(s, o, c, from, to) /\ Apart(s, o, c)
      BY DEF Within, Apart
    <3>2. PICK m \in s : \A k \in s : c[k] <= c[m] /\ (k # m => c[k] <= o[m])
      BY <2>3, <3>1, LastApart
    <3>3. /\ o[m] \in Nat /\ c[m] \in Nat /\ from <= o[m] /\ c[m] <= t
      BY DEF Within
    <3>4. s \ {m} \in P /\ \A k \in s \ {m} : c[k] <= o[m]
      BY <1>1, <3>2
    <3>5. Total(v, s \ {m}) \in Nat /\ Total(v, s \ {m}) <= F[o[m]] - F[from]
      BY <3>3, <3>4
    <3>6. IsFiniteSet(s) /\ \A k \in s : v[k] \in Int
      BY FS_Subset
    <3>7. Total(v, s) = v[m] + Total(v, s \ {m})
      BY <3>6, TotalMember
    <3>8. /\ F[o[m]] \in Nat /\ F[c[m]] \in Nat /\ F[c[m]] <= F[t]
          /\ v[m] \in Nat /\ v[m] <= F[c[m]] - F[o[m]]
      BY <3>3 DEF Grows
    <3> QED
      BY <2>1, <3>5, <3>7, <3>8
  <2> QED
    BY <2>2, <2>3
<1> HIDE DEF P
<1>2. SUBSET K \subseteq P
  BY <1>1, SubsetInduction
<1>3. \A k \in K : c[k] <= to
  BY DEF Within
<1> QED
  BY <1>2, <1>3 DEF P

\* Without a gap between them they hold all of it.
LEMMA SumCovers ==
  ASSUME NEW K, IsFiniteSet(K), NEW o, NEW c, NEW v, NEW F, Grows(F),
         NEW from \in Nat, NEW to \in Nat, from <= to,
         Within(K, o, c, from, to), Apart(K, o, c), Covers(K, o, c, from, to),
         \A k \in K : v[k] = F[c[k]] - F[o[k]]
  PROVE  Total(v, K) = F[to] - F[from]
<1> DEFINE P == {s \in SUBSET K : \A t \in Nat :
                   from <= t /\ (\A k \in s : c[k] <= t) /\ Covers(s, o, c, from, t) =>
                     Total(v, s) = F[t] - F[from]}
<1>0. \A k \in K : o[k] \in Nat /\ c[k] \in Nat /\ F[o[k]] \in Nat /\ F[c[k]] \in Nat /\ v[k] \in Int
  BY DEF Within, Grows
<1>1. ASSUME NEW s \in SUBSET K, \A q \in SUBSET s : q # s => q \in P PROVE s \in P
  <2> SUFFICES ASSUME NEW t \in Nat, from <= t, \A k \in s : c[k] <= t, Covers(s, o, c, from, t)
               PROVE  Total(v, s) = F[t] - F[from]
    OBVIOUS
  <2>1. F[t] \in Nat /\ F[from] \in Nat
    BY DEF Grows
  <2>2. CASE s = {}
    <3>1. t = from
      <4>1. CASE from < t
        <5>1. from \in from..(t - 1)
          BY <4>1
        <5> QED
          BY <2>2, <5>1 DEF Covers
      <4> QED
        BY <4>1
    <3> QED
      BY <2>1, <2>2, <3>1, TotalEmpty
  <2>3. CASE s # {}
    <3>1. Within(s, o, c, from, to) /\ Apart(s, o, c)
      BY DEF Within, Apart
    <3>2. PICK m \in s : \A k \in s : c[k] <= c[m] /\ (k # m => c[k] <= o[m])
      BY <2>3, <3>1, LastApart
    <3>3. /\ o[m] \in Nat /\ c[m] \in Nat /\ from <= o[m] /\ o[m] < c[m] /\ c[m] <= t
      BY DEF Within
    <3>4. c[m] = t
      <4>1. t - 1 \in from..(t - 1)
        BY <3>3
      <4>2. PICK k \in s : o[k] <= t - 1 /\ t - 1 < c[k]
        BY <4>1 DEF Covers
      <4>3. c[k] \in Nat /\ c[k] <= c[m]
        BY <1>0, <3>2
      <4> QED
        BY <3>3, <4>2, <4>3
    <3>5. s \ {m} \in P /\ \A k \in s \ {m} : c[k] <= o[m]
      BY <1>1, <3>2
    <3>6. Covers(s \ {m}, o, c, from, o[m])
      <4> SUFFICES ASSUME NEW x \in from..(o[m] - 1) PROVE \E k \in s \ {m} : o[k] <= x /\ x < c[k]
        BY DEF Covers
      <4>1. x \in from..(t - 1) /\ ~(o[m] <= x)
        BY <3>3, <3>4
      <4> QED
        BY <4>1 DEF Covers
    <3>7. Total(v, s \ {m}) = F[o[m]] - F[from]
      BY <3>3, <3>5, <3>6
    <3>8. IsFiniteSet(s) /\ \A k \in s : v[k] \in Int
      BY <1>0, FS_Subset
    <3>9. Total(v, s) = v[m] + Total(v, s \ {m})
      BY <3>8, TotalMember
    <3>10. v[m] = F[c[m]] - F[o[m]] /\ F[o[m]] \in Nat /\ F[c[m]] \in Nat
      BY <1>0
    <3> QED
      BY <2>1, <3>4, <3>7, <3>9, <3>10
  <2> QED
    BY <2>2, <2>3
<1> HIDE DEF P
<1>2. SUBSET K \subseteq P
  BY <1>1, SubsetInduction
<1>3. \A k \in K : c[k] <= to
  BY DEF Within
<1> QED
  BY <1>2, <1>3 DEF P

-----------------------------------------------------------------------------
(* What vnStat had recorded at an instant. *)

Hull(p) == [t \in Nat |-> Max({0} \cup {p[i].seen : i \in {i \in Instants : i <= t}})]
Between(w, a, b) == Later(0, w.seen[b] - w.seen[a])

LEMMA HullIs ==
  ASSUME NEW p, NEW r \in Nat, \A i \in Instants : p[i].seen \in 0..r, NEW t \in Nat
  PROVE  /\ Hull(p)[t] \in 0..r
         /\ \A i \in Instants : i <= t => p[i].seen <= Hull(p)[t]
         /\ Hull(p)[t] = 0 \/ \E i \in Instants : i <= t /\ p[i].seen = Hull(p)[t]
<1> DEFINE S == {0} \cup {p[i].seen : i \in {i \in Instants : i <= t}}
<1>1. S \subseteq 0..r /\ S # {}
  OBVIOUS
<1>2. Hull(p)[t] = Max(S)
  BY DEF Hull
<1>3. Max(S) \in S /\ \A k \in S : k <= Max(S)
  <2> HIDE DEF S
  <2> QED
    BY <1>1, MaxIs
<1> QED
  BY <1>1, <1>2, <1>3

LEMMA HullGrows ==
  ASSUME NEW p, NEW r \in Nat, \A i \in Instants : p[i].seen \in 0..r
  PROVE  Grows(Hull(p)) /\ \A t \in Nat : Hull(p)[t] <= r
<1>1. \A t \in Nat : Hull(p)[t] \in 0..r
  BY HullIs
<1>2. ASSUME NEW s \in Nat, NEW t \in Nat, s <= t PROVE Hull(p)[s] <= Hull(p)[t]
  <2>1. Hull(p)[s] \in Nat /\ Hull(p)[t] \in Nat
    BY <1>1
  <2>2. CASE Hull(p)[s] = 0
    BY <2>1, <2>2
  <2>3. CASE Hull(p)[s] # 0
    <3>1. PICK i \in Instants : i <= s /\ p[i].seen = Hull(p)[s]
      BY <2>3, HullIs
    <3>2. i <= t
      BY <1>2, <3>1, Bounds DEF Instants
    <3> QED
      BY <3>1, <3>2, HullIs
  <2> QED
    BY <2>2, <2>3
<1> QED
  BY <1>1, <1>2 DEF Grows

\* Noting at an instant no less than anything noted before.
Notes(p, at, x, q) ==
  /\ DOMAIN p = Instants /\ at \in Instants /\ q = [p EXCEPT ![at] = x]
  /\ x.seen \in Nat /\ \A i \in Instants : p[i].seen \in 0..x.seen

LEMMA HullNoted ==
  ASSUME NEW p, NEW at, NEW x, NEW q, Notes(p, at, x, q)
  PROVE  \A t \in Nat : Hull(q)[t] = IF t < at THEN Hull(p)[t] ELSE x.seen
<1> USE DEF Notes
<1>1. \A i \in Instants : q[i] = IF i = at THEN x ELSE p[i]
  OBVIOUS
<1>2. \A i \in Instants : q[i].seen \in 0..x.seen /\ p[i].seen \in 0..x.seen
  <2> SUFFICES ASSUME NEW i \in Instants PROVE q[i].seen \in 0..x.seen /\ p[i].seen \in 0..x.seen
    OBVIOUS
  <2>1. p[i].seen \in 0..x.seen
    OBVIOUS
  <2>2. CASE i = at
    BY <1>1, <2>1, <2>2
  <2>3. CASE i # at
    BY <1>1, <2>1, <2>3
  <2> QED
    BY <2>2, <2>3
<1> SUFFICES ASSUME NEW t \in Nat PROVE Hull(q)[t] = IF t < at THEN Hull(p)[t] ELSE x.seen
  OBVIOUS
<1>3. at \in Nat /\ \A i \in Instants : i \in Nat
  BY Bounds DEF Instants
<1>4. Hull(q)[t] \in 0..x.seen /\ Hull(p)[t] \in 0..x.seen
  BY <1>2, HullIs
<1>5. CASE at <= t
  <2>1. q[at].seen = x.seen
    BY <1>1
  <2>2. x.seen <= Hull(q)[t]
    BY <1>2, <1>5, <2>1, HullIs
  <2>3. ~(t < at)
    BY <1>3, <1>5
  <2> QED
    BY <1>4, <2>2, <2>3
<1>6. CASE ~(at <= t)
  <2>1. t < at
    BY <1>3, <1>6
  <2>2. \A i \in Instants : i <= t => q[i].seen = p[i].seen
    BY <1>1, <1>6
  <2>3. Hull(q)[t] <= Hull(p)[t]
    <3>1. CASE Hull(q)[t] = 0
      BY <1>4, <3>1
    <3>2. CASE Hull(q)[t] # 0
      <4>1. PICK i \in Instants : i <= t /\ q[i].seen = Hull(q)[t]
        BY <1>2, <3>2, HullIs
      <4> QED
        BY <1>2, <2>2, <4>1, HullIs
    <3> QED
      BY <3>1, <3>2
  <2>4. Hull(p)[t] <= Hull(q)[t]
    <3>1. CASE Hull(p)[t] = 0
      BY <1>4, <3>1
    <3>2. CASE Hull(p)[t] # 0
      <4>1. PICK i \in Instants : i <= t /\ p[i].seen = Hull(p)[t]
        BY <1>2, <3>2, HullIs
      <4> QED
        BY <1>2, <2>2, <4>1, HullIs
    <3> QED
      BY <3>1, <3>2
  <2> QED
    BY <1>4, <2>1, <2>3, <2>4
<1> QED
  BY <1>5, <1>6

LEMMA BetweenIs ==
  ASSUME NEW w, Grows(w.seen), NEW a \in Nat, NEW b \in Nat
  PROVE  /\ w.seen[a] \in Nat /\ w.seen[b] \in Nat
         /\ Between(w, a, b) \in Nat
         /\ a <= b => Between(w, a, b) = w.seen[b] - w.seen[a] /\ w.seen[a] <= w.seen[b]
         /\ b <= a => Between(w, a, b) = 0 /\ w.seen[b] <= w.seen[a]
         /\ Between(w, a, b) >= w.seen[b] - w.seen[a]
<1>1. /\ w.seen[a] \in Nat /\ w.seen[b] \in Nat
      /\ (a <= b => w.seen[a] <= w.seen[b]) /\ (b <= a => w.seen[b] <= w.seen[a])
  BY DEF Grows
<1> QED
  BY <1>1 DEF Between, Later

\* A wider stretch of time holds no less.
LEMMA BetweenGrows ==
  ASSUME NEW w, Grows(w.seen), NEW a \in Nat, NEW b \in Nat, NEW c \in Nat, NEW d \in Nat, c <= a, b <= d
  PROVE  Between(w, a, b) <= Between(w, c, d)
<1>1. /\ w.seen[a] \in Nat /\ w.seen[b] \in Nat /\ w.seen[c] \in Nat /\ w.seen[d] \in Nat
      /\ w.seen[c] <= w.seen[a] /\ w.seen[b] <= w.seen[d]
  BY DEF Grows
<1> QED
  BY <1>1 DEF Between, Later

-----------------------------------------------------------------------------
(* Slots. *)

LEMMA SlotIs ==
  ASSUME NEW x \in Nat
  PROVE  Slot(x) \in Nat /\ Slot(x) % 4 = 0 /\ Slot(x) <= x /\ x < Slot(x) + 4
  BY DEF Slot, Width

LEMMA SlotsAre ==
  /\ IsFiniteSet(Slots)
  /\ \A b \in Slots : b \in Nat /\ b % 4 = 0 /\ b <= Horizon
  /\ \A x \in 0..Horizon : Slot(x) \in Slots
<1>1. 0 \in Int /\ Horizon \in Int
  BY Bounds
<1>2. IsFiniteSet(0..Horizon)
  BY <1>1, FS_Interval
<1>3. IsFiniteSet(Slots)
  <2>1. Slots \subseteq 0..Horizon
    <3> SUFFICES ASSUME NEW x \in 0..Horizon PROVE Slot(x) \in 0..Horizon
      BY DEF Slots
    <3>1. x \in Nat /\ x <= Horizon /\ Horizon \in Nat
      BY Bounds
    <3> QED
      BY <3>1, SlotIs
  <2> QED
    BY <1>2, <2>1, FS_Subset
<1>4. \A b \in Slots : b \in Nat /\ b % 4 = 0 /\ b <= Horizon
  <2> SUFFICES ASSUME NEW x \in 0..Horizon PROVE Slot(x) \in Nat /\ Slot(x) % 4 = 0 /\ Slot(x) <= Horizon
    BY DEF Slots
  <2>1. x \in Nat /\ x <= Horizon /\ Horizon \in Nat
    BY Bounds
  <2> QED
    BY <2>1, SlotIs
<1> QED
  BY <1>3, <1>4 DEF Slots

LEMMA SlotsApart ==
  ASSUME NEW a \in Nat, NEW b \in Nat, a % 4 = 0, b % 4 = 0, a < b PROVE a + 4 <= b
  OBVIOUS

-----------------------------------------------------------------------------
(* Sums of buckets. *)

RowsTyped(taken) == DOMAIN taken \subseteq Slots /\ \A b \in DOMAIN taken : taken[b] \in Nat

\* A bucket holds what vnStat recorded in it while it was a bucket of this source.
Counts(w, s) ==
  \A b \in DOMAIN s.rows : s.created < b + Width =>
    /\ s.rows[b] <= Between(w, Opens(s, b), Closes(s, b))
    /\ ~w.astray => s.rows[b] = Between(w, Opens(s, b), Closes(s, b))

LEMMA OpensIs ==
  ASSUME NEW s, s.created \in Nat, s.updated \in Nat, NEW b \in Nat
  PROVE  /\ Opens(s, b) \in Nat /\ Closes(s, b) \in Nat
         /\ b <= Opens(s, b) /\ s.created <= Opens(s, b) /\ Opens(s, b) \in {b, s.created}
         /\ Closes(s, b) <= b + 4 /\ Closes(s, b) <= s.updated /\ Closes(s, b) \in {b + 4, s.updated}
  BY DEF Opens, Closes, Later, Earlier, Width

LEMMA SumHolds ==
  ASSUME NEW w, Grows(w.seen), NEW s, s.created \in Nat, s.updated \in Nat, s.updated <= Horizon,
         RowsTyped(s.rows), Counts(w, s), NEW start \in Nat, NEW end \in Nat
  PROVE  /\ Sum(s, start, end).bytes \in Nat
         /\ Sum(s, start, end).bytes
              <= Between(w, Later(start, s.created), Earlier(end, s.updated))
         /\ Sum(s, start, end).bytes <= Between(w, start, end)
         /\ ~w.astray /\ ~Sum(s, start, end).partial /\ start < end /\ end <= s.updated
              => Sum(s, start, end).bytes = Between(w, start, end)
<1> DEFINE from == Later(start, s.created)
           to == Earlier(end, s.updated)
           touched == {b \in Slots : Later(b, from) < Earlier(b + Width, to)}
           whole == {b \in touched \cap DOMAIN s.rows :
                       Later(b, from) = Opens(s, b) /\ Earlier(b + Width, to) = Closes(s, b)}
<1>1. /\ from \in Nat /\ start <= from /\ s.created <= from /\ from \in {start, s.created}
      /\ to \in Nat /\ to <= end /\ to <= s.updated /\ to \in {end, s.updated}
      /\ Horizon \in Nat
  BY Bounds DEF Later, Earlier
<1> HIDE DEF from, to
<1>2. Between(w, start, end) \in Nat /\ Between(w, from, to) \in Nat
  BY <1>1, BetweenIs
<1>3. CASE end <= start
  <2>1. Sum(s, start, end).bytes = 0 /\ ~(start < end)
    BY <1>3 DEF Sum
  <2> QED
    BY <1>2, <2>1 DEF from, to
<1>4. CASE ~(end <= start) /\ to <= from
  <2>1. /\ Sum(s, start, end).bytes = 0
        /\ ~Sum(s, start, end).partial => ~(start < s.created)
    BY <1>4 DEF Sum, from, to
  <2>2. ASSUME ~Sum(s, start, end).partial, end <= s.updated PROVE FALSE
    <3>1. s.created <= start
      BY <2>1, <2>2
    <3>2. from = start
      BY <3>1 DEF from, Later
    <3>3. to = end
      BY <2>2 DEF to, Earlier
    <3> QED
      BY <1>4, <3>2, <3>3
  <2> QED
    BY <1>2, <2>1, <2>2 DEF from, to
<1>5. CASE ~(end <= start) /\ ~(to <= from)
  <2>1. /\ Sum(s, start, end).bytes = Total(s.rows, whole)
        /\ ~Sum(s, start, end).partial => ~(start < s.created) /\ whole = touched
    BY <1>5, SumOfIs DEF Sum, from, to
  <2> DEFINE o == [b \in whole |-> Opens(s, b)]
             c == [b \in whole |-> Closes(s, b)]
  <2>2. IsFiniteSet(whole) /\ \A b \in touched : b \in Nat /\ b % 4 = 0
    <3>1. IsFiniteSet(whole)
      BY SlotsAre, FS_Subset
    <3> QED
      BY <3>1, SlotsAre
  <2>3. \A b \in touched : /\ Later(b, from) \in Nat /\ Earlier(b + Width, to) \in Nat
                           /\ from <= Later(b, from) /\ b <= Later(b, from)
                           /\ Earlier(b + Width, to) <= to /\ Earlier(b + Width, to) <= b + 4
                           /\ Later(b, from) < Earlier(b + Width, to)
    <3> SUFFICES ASSUME NEW b \in touched
                 PROVE  /\ Later(b, from) \in Nat /\ Earlier(b + Width, to) \in Nat
                        /\ from <= Later(b, from) /\ b <= Later(b, from)
                        /\ Earlier(b + Width, to) <= to /\ Earlier(b + Width, to) <= b + 4
                        /\ Later(b, from) < Earlier(b + Width, to)
      OBVIOUS
    <3>1. b \in Nat /\ Later(b, from) < Earlier(b + Width, to)
      BY <2>2
    <3> QED
      BY <1>1, <3>1 DEF Later, Earlier, Width
  <2>4. \A b \in whole : o[b] = Later(b, from) /\ c[b] = Earlier(b + Width, to) /\ b \in touched
    OBVIOUS
  <2>5. \A b \in whole : o[b] = Opens(s, b) /\ c[b] = Closes(s, b) /\ b \in DOMAIN s.rows
    OBVIOUS
  <2> HIDE DEF touched, whole, o, c
  <2>6. Within(whole, o, c, from, to)
    BY <2>3, <2>4 DEF Within
  <2>7. Apart(whole, o, c)
    <3> SUFFICES ASSUME NEW k \in whole, NEW l \in whole, k < l PROVE c[k] <= o[l]
      <4>1. \A k, l \in whole : k # l => k < l \/ l < k
        BY <2>2, <2>4
      <4> QED
        BY <4>1 DEF Apart
    <3>1. k \in Nat /\ l \in Nat /\ k + 4 <= l
      BY <2>2, <2>4, SlotsApart
    <3>2. c[k] \in Nat /\ c[k] <= k + 4 /\ o[l] \in Nat /\ l <= o[l]
      BY <2>3, <2>4
    <3> QED
      BY <3>1, <3>2
  <2>8. \A b \in whole : /\ s.rows[b] \in Nat /\ s.rows[b] <= w.seen[c[b]] - w.seen[o[b]]
                         /\ ~w.astray => s.rows[b] = w.seen[c[b]] - w.seen[o[b]]
    <3> SUFFICES ASSUME NEW b \in whole
                 PROVE  /\ s.rows[b] \in Nat /\ s.rows[b] <= w.seen[c[b]] - w.seen[o[b]]
                        /\ ~w.astray => s.rows[b] = w.seen[c[b]] - w.seen[o[b]]
      OBVIOUS
    <3>1. o[b] \in Nat /\ c[b] \in Nat /\ o[b] < c[b] /\ c[b] <= b + 4 /\ b \in Nat
      BY <2>2, <2>3, <2>4
    <3>2. s.created < b + Width
      <4>1. s.created <= o[b]
        BY <2>5, <3>1, OpensIs
      <4> QED
        BY <3>1, <4>1 DEF Width
    <3>3. /\ s.rows[b] <= Between(w, o[b], c[b])
          /\ ~w.astray => s.rows[b] = Between(w, o[b], c[b])
      BY <2>5, <3>2 DEF Counts
    <3>4. Between(w, o[b], c[b]) = w.seen[c[b]] - w.seen[o[b]]
      <4>1. o[b] <= c[b]
        BY <3>1
      <4> QED
        BY <3>1, <4>1, BetweenIs
    <3> QED
      BY <2>5, <3>3, <3>4 DEF RowsTyped
  <2>9. from <= to /\ start <= end
    BY <1>1, <1>5
  <2>10. Total(s.rows, whole) \in Nat /\ Total(s.rows, whole) <= w.seen[to] - w.seen[from]
    BY <1>1, <2>2, <2>6, <2>7, <2>8, <2>9, SumWithin
  <2>11. /\ w.seen[to] \in Nat /\ w.seen[from] \in Nat /\ w.seen[start] \in Nat /\ w.seen[end] \in Nat
         /\ w.seen[start] <= w.seen[from] /\ w.seen[to] <= w.seen[end]
         /\ Between(w, start, end) = w.seen[end] - w.seen[start]
    <3>1. Between(w, start, end) = w.seen[end] - w.seen[start]
      BY <2>9, BetweenIs
    <3> QED
      BY <1>1, <3>1 DEF Grows
  <2>12. ASSUME ~w.astray, ~Sum(s, start, end).partial, end <= s.updated
         PROVE  Total(s.rows, whole) = Between(w, start, end)
    <3>1. from = start /\ to = end /\ whole = touched
      <4>1. s.created <= start /\ whole = touched
        BY <2>1, <2>12
      <4>2. from = start
        BY <4>1 DEF from, Later
      <4>3. to = end
        BY <2>12 DEF to, Earlier
      <4> QED
        BY <4>1, <4>2, <4>3
    <3>2. Covers(whole, o, c, from, to)
      <4> SUFFICES ASSUME NEW x \in from..(to - 1) PROVE \E b \in whole : o[b] <= x /\ x < c[b]
        BY DEF Covers
      <4>1. x \in Nat /\ x \in 0..Horizon /\ from <= x /\ x < to
        BY <1>1, <2>12, <3>1
      <4>2. Slot(x) \in Slots /\ Slot(x) \in Nat /\ Slot(x) <= x /\ x < Slot(x) + 4
        BY <4>1, SlotIs, SlotsAre
      <4>3. Later(Slot(x), from) <= x /\ x < Earlier(Slot(x) + Width, to)
        BY <1>1, <4>1, <4>2 DEF Later, Earlier, Width
      <4>4. Slot(x) \in touched
        <5>1. Later(Slot(x), from) \in Nat /\ Earlier(Slot(x) + Width, to) \in Nat
          BY <1>1, <4>2 DEF Later, Earlier, Width
        <5>2. Later(Slot(x), from) < Earlier(Slot(x) + Width, to)
          BY <4>1, <4>3, <5>1
        <5> QED
          BY <4>2, <5>2 DEF touched
      <4> QED
        BY <2>4, <3>1, <4>3, <4>4
    <3>3. \A b \in whole : s.rows[b] = w.seen[c[b]] - w.seen[o[b]]
      BY <2>8, <2>12
    <3>4. Total(s.rows, whole) = w.seen[to] - w.seen[from]
      BY <1>1, <2>2, <2>6, <2>7, <2>9, <3>2, <3>3, SumCovers
    <3> QED
      BY <2>11, <3>1, <3>4
  <2>13. Total(s.rows, whole) <= Between(w, start, end)
    BY <2>10, <2>11
  <2>14. Total(s.rows, whole) <= Between(w, from, to)
    <3>1. Between(w, from, to) = w.seen[to] - w.seen[from]
      BY <1>1, <2>9, BetweenIs
    <3> QED
      BY <2>10, <3>1
  <2> QED
    BY <2>1, <2>10, <2>12, <2>13, <2>14 DEF from, to
<1> QED
  BY <1>3, <1>4, <1>5

-----------------------------------------------------------------------------
(* Sums of sources. *)

\* A source whose buckets hold what they should.
Sound(w, x) ==
  /\ x.available \in Nat /\ x.ended \in Nat
  /\ x.snapshot.created \in Nat /\ x.snapshot.updated \in 0..Horizon
  /\ RowsTyped(x.snapshot.rows) /\ Counts(w, x.snapshot)

\* No instant is in two of them.
Separate(T) ==
  \A x, y \in T : x # y => \/ x.snapshot.updated <= y.available
                           \/ y.snapshot.updated <= x.available

LEMMA ToIs ==
  ASSUME NEW x, x.snapshot.updated \in Nat, x.ended \in Nat, NEW end \in Nat
  PROVE  To(x, end) \in Nat /\ To(x, end) <= end /\ To(x, end) <= x.snapshot.updated
<1> DEFINE S == {end, x.snapshot.updated} \cup ({x.ended} \ {0})
<1>1. S \subseteq Nat /\ S # {} /\ end \in S /\ x.snapshot.updated \in S
  OBVIOUS
<1>2. To(x, end) = Min(S)
  BY DEF To
<1> HIDE DEF S
<1>3. Min(S) \in S /\ \A k \in S : Min(S) <= k
  BY <1>1, MinIs
<1> QED
  BY <1>1, <1>2, <1>3

LEMMA SourcesHold ==
  ASSUME NEW w, Grows(w.seen), NEW T, IsFiniteSet(T), \A x \in T : Sound(w, x), Separate(T),
         NEW start \in Nat, NEW end \in Nat
  PROVE  /\ sumNetworkSources(T, start, end).bytes \in Nat
         /\ sumNetworkSources(T, start, end).bytes <= Between(w, start, end)
         /\ ~w.astray /\ ~sumNetworkSources(T, start, end).partial
              => sumNetworkSources(T, start, end).bytes = Between(w, start, end)
<1> DEFINE K == Answering(T, start, end)
           o == [x \in K |-> From(x, start)]
           c == [x \in K |-> To(x, end)]
           sum == [x \in K |-> Sum(x.snapshot, From(x, start), To(x, end))]
           v == [x \in K |-> sum[x].bytes]
<1>1. /\ sumNetworkSources(T, start, end).bytes = Total(v, K)
      /\ ~sumNetworkSources(T, start, end).partial
           => ~Gap(K, start, end) /\ \A x \in K : ~sum[x].partial
  BY SumOfIs DEF sumNetworkSources
<1>2. K \subseteq T /\ \A x \in K : From(x, start) < To(x, end)
  BY DEF Answering
<1>3. IsFiniteSet(K)
  BY <1>2, FS_Subset
<1>4. \A x \in K : /\ o[x] = From(x, start) /\ c[x] = To(x, end) /\ v[x] = sum[x].bytes
                   /\ sum[x] = Sum(x.snapshot, o[x], c[x])
  OBVIOUS
<1> HIDE DEF K, o, c, sum, v
<1>5. \A x \in K : /\ o[x] \in Nat /\ c[x] \in Nat /\ start <= o[x] /\ x.available <= o[x]
                   /\ o[x] < c[x] /\ c[x] <= end /\ c[x] <= x.snapshot.updated
  <2> SUFFICES ASSUME NEW x \in K
               PROVE  /\ o[x] \in Nat /\ c[x] \in Nat /\ start <= o[x] /\ x.available <= o[x]
                      /\ o[x] < c[x] /\ c[x] <= end /\ c[x] <= x.snapshot.updated
    OBVIOUS
  <2>1. x.available \in Nat /\ x.ended \in Nat /\ x.snapshot.updated \in Nat
    BY <1>2 DEF Sound
  <2>2. To(x, end) \in Nat /\ To(x, end) <= end /\ To(x, end) <= x.snapshot.updated
    BY <2>1, ToIs
  <2>3. From(x, start) \in Nat /\ start <= From(x, start) /\ x.available <= From(x, start)
    BY <2>1, LaterIs DEF From
  <2> QED
    BY <1>2, <1>4, <2>2, <2>3
<1>6. \A x \in K : /\ v[x] \in Nat /\ v[x] <= w.seen[c[x]] - w.seen[o[x]]
                   /\ ~w.astray /\ ~sum[x].partial => v[x] = w.seen[c[x]] - w.seen[o[x]]
  <2> SUFFICES ASSUME NEW x \in K
               PROVE  /\ v[x] \in Nat /\ v[x] <= w.seen[c[x]] - w.seen[o[x]]
                      /\ ~w.astray /\ ~sum[x].partial => v[x] = w.seen[c[x]] - w.seen[o[x]]
    OBVIOUS
  <2>1. /\ x.snapshot.created \in Nat /\ x.snapshot.updated \in Nat
        /\ x.snapshot.updated <= Horizon /\ RowsTyped(x.snapshot.rows) /\ Counts(w, x.snapshot)
    BY <1>2, Bounds DEF Sound
  <2>2. o[x] \in Nat /\ c[x] \in Nat /\ o[x] < c[x] /\ o[x] <= c[x] /\ c[x] <= x.snapshot.updated
    BY <1>5
  <2>3. /\ Sum(x.snapshot, o[x], c[x]).bytes \in Nat
        /\ Sum(x.snapshot, o[x], c[x]).bytes <= Between(w, o[x], c[x])
        /\ ~w.astray /\ ~Sum(x.snapshot, o[x], c[x]).partial
             => Sum(x.snapshot, o[x], c[x]).bytes = Between(w, o[x], c[x])
    <3> DEFINE s == x.snapshot
               a == o[x]
               b == c[x]
    <3>1. /\ s.created \in Nat /\ s.updated \in Nat /\ s.updated <= Horizon /\ RowsTyped(s.rows)
          /\ Counts(w, s) /\ a \in Nat /\ b \in Nat /\ a < b /\ b <= s.updated
      BY <2>1, <2>2
    <3> HIDE DEF s, a, b
    <3>2. /\ Sum(s, a, b).bytes \in Nat
          /\ Sum(s, a, b).bytes <= Between(w, a, b)
          /\ ~w.astray /\ ~Sum(s, a, b).partial => Sum(s, a, b).bytes = Between(w, a, b)
      BY <3>1, SumHolds
    <3> QED
      BY <3>2 DEF s, a, b
  <2>4. Between(w, o[x], c[x]) = w.seen[c[x]] - w.seen[o[x]]
    BY <2>2, BetweenIs
  <2> QED
    BY <1>4, <2>3, <2>4
<1>7. CASE start <= end
  <2>1. Within(K, o, c, start, end)
    BY <1>5 DEF Within
  <2>2. Apart(K, o, c)
    <3> SUFFICES ASSUME NEW x \in K, NEW y \in K, x # y PROVE c[x] <= o[y] \/ c[y] <= o[x]
      BY DEF Apart
    <3>1. x.snapshot.updated <= y.available \/ y.snapshot.updated <= x.available
      BY <1>2 DEF Separate
    <3>2. /\ x.snapshot.updated \in Nat /\ y.snapshot.updated \in Nat
          /\ x.available \in Nat /\ y.available \in Nat
      BY <1>2 DEF Sound
    <3> QED
      BY <1>5, <3>1, <3>2
  <2>3. Between(w, start, end) = w.seen[end] - w.seen[start]
    BY <1>7, BetweenIs
  <2>4. Total(v, K) \in Nat /\ Total(v, K) <= w.seen[end] - w.seen[start]
    <3>1. \A x \in K : v[x] \in Nat /\ v[x] <= w.seen[c[x]] - w.seen[o[x]]
      BY <1>6
    <3> QED
      BY <1>3, <1>7, <2>1, <2>2, <3>1, SumWithin
  <2>5. ASSUME ~w.astray, ~sumNetworkSources(T, start, end).partial
        PROVE  Total(v, K) = w.seen[end] - w.seen[start]
    <3>1. \A x \in K : v[x] = w.seen[c[x]] - w.seen[o[x]]
      BY <1>1, <1>6, <2>5
    <3>2. Covers(K, o, c, start, end)
      <4> SUFFICES ASSUME NEW at \in start..(end - 1) PROVE \E x \in K : o[x] <= at /\ at < c[x]
        BY DEF Covers
      <4>1. PICK x \in K : at \in From(x, start)..(To(x, end) - 1)
        BY <1>1, <2>5 DEF Gap
      <4>2. at \in o[x]..(c[x] - 1)
        BY <1>4, <4>1
      <4>3. o[x] \in Nat /\ c[x] \in Nat
        BY <1>5
      <4> QED
        BY <4>2, <4>3
    <3> QED
      BY <1>3, <1>7, <2>1, <2>2, <3>1, <3>2, SumCovers
  <2> QED
    BY <1>1, <2>3, <2>4, <2>5
<1>8. CASE ~(start <= end)
  <2>1. K = {}
    <3> SUFFICES ASSUME NEW x \in K PROVE FALSE
      OBVIOUS
    <3>1. /\ o[x] \in Nat /\ c[x] \in Nat /\ start <= o[x] /\ o[x] < c[x] /\ c[x] <= end
      BY <1>5
    <3> QED
      BY <1>8, <3>1
  <2>2. Total(v, K) = 0
    BY <2>1, TotalEmpty
  <2>3. Between(w, start, end) = 0
    BY <1>8, BetweenIs
  <2> QED
    BY <1>1, <2>2, <2>3
<1> QED
  BY <1>7, <1>8

-----------------------------------------------------------------------------
(* The surroundings w as the panel's figures are compared with them: the   *)
(* clock, the accidents so far, what vnStat had recorded at each instant,  *)
(* the instants that past and seen agree on, whether something went        *)
(* astray, the configured interface and vnStat's database of it.           *)

Present(i) == [created |-> vn[i].created, updated |-> updated,
               total |-> vn[i].total, rows |-> vn[i].rows]
Noted(h) == {t \in Instants : t <= now /\ past[t].seen = h[t]}
World == [now |-> now, events |-> events, seen |-> Hull(past), noted |-> Noted(Hull(past)),
          astray |-> astray, iface |-> iface, vn |-> Present(iface)]

\* A snapshot has the bucket of its last save, unless it was made then.
Snapshot(x) ==
  /\ DOMAIN x = {"created", "updated", "total", "rows"}
  /\ x.created \in Nat /\ x.updated \in Nat /\ x.created <= x.updated /\ x.total \in Int
  /\ RowsTyped(x.rows) /\ \A b \in DOMAIN x.rows : b <= x.updated
  /\ IF x.created = x.updated THEN DOMAIN x.rows = {} ELSE Slot(x.updated) \in DOMAIN x.rows

Books ==
  /\ {recorded, fresh, events} \subseteq Nat /\ recorded + fresh <= carried
  /\ carried <= MaxBytes /\ events <= MaxEvents
  /\ astray \in BOOLEAN
  /\ \A t \in Instants : past[t].seen \in 0..recorded
  /\ past[updated].seen = recorded
  /\ \A t \in Instants : t % 2 = 0 /\ t < now => past[t].seen = Hull(past)[t]
  /\ DOMAIN inSlot = Slots
  /\ \A b \in Slots : inSlot[b] = Hull(past)[b + 4] - Hull(past)[b]
  /\ \A i \in Ifaces : Snapshot(Present(i))
  /\ read # NoRead => read.iface \in Ifaces /\ read.snapshot = Present(read.iface)

-----------------------------------------------------------------------------
(* The panel: a state s, the checkpoint's o, the saved sources D and the   *)
(* record p that is still to be saved.                                     *)

RowsOf(D, g) == IF g \in DOMAIN D THEN D[g].rows ELSE NoRows
PrefixOf(D, g) == IF g \in DOMAIN D THEN D[g].prefix ELSE NoRows
Merge(D, g, snapshot) == [snapshot EXCEPT !.rows = Overlay(RowsOf(D, g), @)]

\* What is cut off the rows of the present source.
Cuts(s, D, p) ==
  Overlay(IF p.generation = s.generation THEN p.prefix ELSE NoRows, PrefixOf(D, s.generation))

\* The present source, the one that is still to be saved, a saved one.
Current(w, s, D, p) ==
  networkSince(Merge(D, s.generation, w.vn), s.source, Cuts(s, D, p))
Owed(D, p) ==
  networkSince(Merge(D, p.generation, p.snapshot), p.available,
               Overlay(p.prefix, PrefixOf(D, p.generation)))
Row(D, g) == networkSince(D[g], D[g].available, D[g].prefix)

Live(w, s) == s.generation # 0 /\ s.origin = w.iface /\ s.created = w.vn.created
Rebuilt(w, s) == s.generation # 0 /\ s.origin = w.iface /\ s.updated < w.vn.created

RecordTypes(o, D, p) ==
  /\ D = [g \in DOMAIN D |-> D[g]] /\ DOMAIN D \subseteq 1..o.generation
  /\ \A g \in DOMAIN D :
       /\ DOMAIN D[g] = {"created", "available", "ended", "updated", "rows", "prefix"}
       /\ {D[g].created, D[g].available, D[g].updated, D[g].ended} \subseteq Nat
       /\ RowsTyped(D[g].rows) /\ RowsTyped(D[g].prefix)
  /\ IF p.generation = 0 THEN p = NoRecord
     ELSE /\ DOMAIN p.snapshot = {"created", "updated", "total", "rows"}
          /\ {p.snapshot.created, p.snapshot.updated, p.available} \subseteq Nat
          /\ RowsTyped(p.snapshot.rows) /\ RowsTyped(p.prefix)

\* Each new source takes an event.
Numbers(w, s, o, D, p) ==
  /\ s.generation \in Nat /\ o.generation \in 0..s.generation
  /\ p.generation \in {0, s.generation}
  /\ s.generation # 0 /\ p.generation = 0 => s.generation \in DOMAIN D
  /\ o.generation # 0 => o.generation \in DOMAIN D
  /\ \A x \in {s, o} : /\ x.generation <= w.events + 1
                       /\ x.generation # 0 /\ ~Live(w, x) => x.generation <= w.events
  /\ Live(w, o) => o.generation = s.generation

\* A source ends before the next begins.
Order(w, s, o, D, p) ==
  /\ s.source \in Nat /\ s.source <= w.now /\ o.source \in Nat /\ o.source <= s.source
  /\ \A x \in {s, o} : x.generation = 0 => x.source = 0
  /\ \A x \in {s, o} : x.generation # 0 =>
       /\ x.created \in Nat /\ x.created <= x.updated /\ x.created <= x.source
       /\ x.updated <= w.vn.updated
       /\ Rebuilt(w, x) => x.source <= w.vn.created
  /\ o.generation = s.generation =>
       o.source = s.source /\ o.created = s.created /\ o.origin = s.origin
  /\ o.generation # 0 =>
       /\ o.updated <= s.updated
       /\ D[o.generation].available = o.source /\ D[o.generation].created = o.created
  /\ \A g \in DOMAIN D :
       /\ D[g].updated <= o.updated /\ D[g].available <= o.source
       /\ g # s.generation => D[g].updated <= s.source
       /\ \A h \in DOMAIN D : g < h => D[g].updated <= D[h].available
  /\ p.generation # 0 =>
       /\ p.available = s.source /\ p.snapshot.created = s.created
       /\ p.snapshot.updated = s.updated
       /\ p.generation \in DOMAIN D => p.prefix = NoRows

\* The figures of a state.
Figures(w, s) ==
  /\ s.rx \in 0..w.seen[w.vn.updated]
  /\ s.generation # 0 =>
       /\ s.rx <= Between(w, s.period, s.updated)
       /\ ~w.astray /\ ~s.partial => s.rx = Between(w, s.period, s.updated)
       /\ s.last \in Int
       /\ s.manual => /\ s.carry \in Int /\ s.baseline \in Int /\ s.baseline <= s.last
                      /\ s.rx = s.carry + s.last - s.baseline
       /\ s.updated < s.period => w.seen[s.period] = w.seen[s.updated]
       /\ {s.updated, s.period, s.recordedFrom} \subseteq w.noted
       /\ s.reset \in Schedules /\ s.next \in Nat
       /\ s.next # 0 => /\ s.period < s.next /\ s.updated < s.next
                        /\ s.next \in s.reset \cup {Beyond}

\* What vnStat counted since a state of its present database.
Ahead(w, s) ==
  Live(w, s) =>
    /\ w.vn.total - s.last <= w.seen[w.vn.updated] - w.seen[s.updated]
    /\ ~w.astray => w.vn.total - s.last = w.seen[w.vn.updated] - w.seen[s.updated]

\* The saved sources, the one still to be saved, and the present one.
Saves(w, s, D, p) ==
  /\ \A g \in DOMAIN D : Counts(w, Row(D, g))
  /\ p.generation # 0 => Counts(w, Owed(D, p))
  /\ Rebuilt(w, s) => Counts(w, w.vn)

\* The rows that were taken of the present source.
Taken(s, D, p) ==
  {RowsOf(D, s.generation)} \cup (IF p.generation = 0 THEN {} ELSE {p.snapshot.rows})

Cut(n, b, cuts) == IF b \in DOMAIN cuts THEN Later(0, n - cuts[b]) ELSE n

\* The present source, and of what vnStat has pruned since it was taken: that was whole.
Continues(w, s, D, p) ==
  Live(w, s) =>
    /\ Counts(w, Current(w, s, D, p))
    /\ ~w.astray =>
         /\ \A b \in DOMAIN Cuts(s, D, p) :
              \/ b \in DOMAIN w.vn.rows /\ Cuts(s, D, p)[b] <= w.vn.rows[b]
              \/ b + 4 <= w.vn.updated
         /\ \A taken \in Taken(s, D, p) : \A b \in DOMAIN taken \ DOMAIN w.vn.rows :
              /\ b + 4 <= w.vn.updated
              /\ s.source < b + 4 =>
                   Cut(taken[b], b, Cuts(s, D, p)) = Between(w, Later(b, s.source), b + 4)

Panel(w, s, o, D, p) ==
  /\ RecordTypes(o, D, p) /\ Numbers(w, s, o, D, p) /\ Order(w, s, o, D, p)
  /\ Figures(w, s) /\ Figures(w, o) /\ Ahead(w, s) /\ Ahead(w, o)
  /\ Saves(w, s, D, p) /\ Saves(w, o, D, p) /\ Continues(w, s, D, p)

UsageInv == EstimateInv /\ Books /\ Panel(World, st, db.st, db.sources, pending)

-----------------------------------------------------------------------------
(* The surroundings. *)

Surroundings(w) ==
  /\ w.now \in Nat /\ 5 <= w.now /\ w.now <= Horizon /\ w.now % 2 = 1
  /\ w.events \in Nat /\ w.astray \in BOOLEAN
  /\ Grows(w.seen) /\ Snapshot(w.vn) /\ 5 <= w.vn.updated /\ w.vn.updated <= w.now
  /\ \A t \in Nat : w.vn.updated <= t => w.seen[t] = w.seen[w.vn.updated]
  /\ \A t \in w.noted : t \in Nat /\ 5 <= t /\ t <= w.now
  /\ w.vn.updated \in w.noted
  /\ \A t \in Nat : 5 <= t /\ t < w.now /\ t % 2 = 0 => t \in w.noted

LEMMA HullLast ==
  ASSUME EstimateInv, Books
  PROVE  /\ Grows(Hull(past)) /\ recorded \in Nat
         /\ \A t \in Nat : Hull(past)[t] <= recorded
         /\ \A t \in Nat : updated <= t => Hull(past)[t] = recorded
<1>1. recorded \in Nat /\ \A i \in Instants : past[i].seen \in 0..recorded
  BY DEF Books
<1>2. Grows(Hull(past)) /\ \A t \in Nat : Hull(past)[t] <= recorded
  BY <1>1, HullGrows
<1>3. updated \in Instants /\ past[updated].seen = recorded
  BY Bounds DEF Books, EstimateInv, ClockTypes, Instants
<1>4. ASSUME NEW t \in Nat, updated <= t PROVE Hull(past)[t] = recorded
  <2>1. recorded <= Hull(past)[t]
    BY <1>1, <1>3, <1>4, HullIs
  <2>2. Hull(past)[t] \in Nat /\ Hull(past)[t] <= recorded
    BY <1>2 DEF Grows
  <2> QED
    BY <1>1, <2>1, <2>2
<1> QED
  BY <1>1, <1>2, <1>4

LEMMA WorldIs ==
  /\ World.now = now /\ World.events = events /\ World.seen = Hull(past)
  /\ World.noted = Noted(Hull(past)) /\ World.astray = astray /\ World.iface = iface
  /\ World.vn = Present(iface)
  BY DEF World

LEMMA PresentIs ==
  ASSUME NEW i
  PROVE  /\ DOMAIN Present(i) = {"created", "updated", "total", "rows"}
         /\ Present(i).created = vn[i].created /\ Present(i).updated = updated
         /\ Present(i).total = vn[i].total /\ Present(i).rows = vn[i].rows
  BY DEF Present

LEMMA WorldHolds == ASSUME EstimateInv, Books PROVE Surroundings(World)
<1>1. /\ now \in Nat /\ 5 <= now /\ now <= Horizon /\ now % 2 = 1 /\ Horizon \in Nat
      /\ updated \in Nat /\ 5 <= updated /\ updated <= now /\ iface \in Ifaces
  BY Bounds DEF EstimateInv, ClockTypes
<1>2. events \in Nat /\ astray \in BOOLEAN /\ recorded \in Nat /\ Snapshot(Present(iface))
  BY <1>1 DEF Books
<1>3. /\ Grows(Hull(past)) /\ \A t \in Nat : updated <= t => Hull(past)[t] = recorded
  BY HullLast
<1>4. \A t \in Nat : updated <= t => Hull(past)[t] = Hull(past)[updated]
  BY <1>1, <1>3
<1>5. \A t \in Noted(Hull(past)) : t \in Nat /\ 5 <= t /\ t <= now
  BY Bounds DEF Noted, Instants
<1>6. \A t \in Nat : 5 <= t /\ t <= now => t \in Instants
  BY <1>1, Bounds DEF Instants
<1>7. updated \in Noted(Hull(past))
  <2>1. past[updated].seen = recorded /\ Hull(past)[updated] = recorded
    BY <1>1, <1>3 DEF Books
  <2> QED
    BY <1>1, <1>6, <2>1 DEF Noted
<1>8. \A t \in Nat : 5 <= t /\ t < now /\ t % 2 = 0 => t \in Noted(Hull(past))
  <2> SUFFICES ASSUME NEW t \in Nat, 5 <= t, t < now, t % 2 = 0 PROVE t \in Noted(Hull(past))
    OBVIOUS
  <2>1. t <= now
    BY <1>1
  <2>2. t \in Instants
    BY <1>6, <2>1
  <2> QED
    BY <2>1, <2>2 DEF Noted, Books
<1>9. Present(iface).updated = updated
  BY PresentIs
<1> QED
  BY <1>1, <1>2, <1>3, <1>4, <1>5, <1>7, <1>8, <1>9, WorldIs DEF Surroundings

-----------------------------------------------------------------------------
(* Sources: what is cut, merged and saved. *)

LEMMA SinceIs ==
  ASSUME NEW x, NEW a, NEW cuts
  PROVE  /\ networkSince(x, a, cuts).created = Later(x.created, a)
         /\ networkSince(x, a, cuts).updated = x.updated
         /\ DOMAIN networkSince(x, a, cuts).rows = DOMAIN x.rows
         /\ \A b \in DOMAIN x.rows : networkSince(x, a, cuts).rows[b] = Cut(x.rows[b], b, cuts)
  BY DEF networkSince, Cut

LEMMA OverlayIs ==
  ASSUME NEW old, NEW new
  PROVE  /\ DOMAIN Overlay(old, new) = DOMAIN old \cup DOMAIN new
         /\ \A b \in DOMAIN new : Overlay(old, new)[b] = new[b]
         /\ \A b \in DOMAIN old \ DOMAIN new : Overlay(old, new)[b] = old[b]
  BY DEF Overlay

LEMMA NothingOverlaid == DOMAIN NoRows = {} /\ RowsTyped(NoRows)
  BY DEF NoRows, RowsTyped

LEMMA RowsOverlaid ==
  ASSUME NEW old, NEW new, RowsTyped(old), RowsTyped(new) PROVE RowsTyped(Overlay(old, new))
<1> DEFINE r == Overlay(old, new)
<1>1. /\ DOMAIN r = DOMAIN old \cup DOMAIN new
      /\ \A b \in DOMAIN new : r[b] = new[b]
      /\ \A b \in DOMAIN old \ DOMAIN new : r[b] = old[b]
  BY OverlayIs
<1> HIDE DEF r
<1>2. \A b \in DOMAIN r : r[b] \in Nat
  BY <1>1 DEF RowsTyped
<1>3. DOMAIN r \subseteq Slots
  BY <1>1 DEF RowsTyped
<1>4. RowsTyped(r)
  BY <1>2, <1>3 DEF RowsTyped
<1> QED
  BY <1>4 DEF r

LEMMA CutIs ==
  ASSUME NEW n \in Nat, NEW b, NEW cuts, RowsTyped(cuts)
  PROVE  Cut(n, b, cuts) \in Nat /\ Cut(n, b, cuts) <= n
<1>1. b \in DOMAIN cuts => cuts[b] \in Nat
  BY DEF RowsTyped
<1> QED
  BY <1>1 DEF Cut, Later

LEMMA RowsSince ==
  ASSUME NEW x, RowsTyped(x.rows), NEW a, NEW cuts, RowsTyped(cuts)
  PROVE  RowsTyped(networkSince(x, a, cuts).rows)
<1>1. \A b \in DOMAIN x.rows : x.rows[b] \in Nat /\ b \in Slots
  BY DEF RowsTyped
<1>2. \A b \in DOMAIN x.rows : networkSince(x, a, cuts).rows[b] \in Nat
  BY <1>1, SinceIs, CutIs
<1> QED
  BY <1>1, <1>2, SinceIs DEF RowsTyped

LEMMA MergeIs ==
  ASSUME NEW D, NEW g, NEW x, DOMAIN x = {"created", "updated", "total", "rows"}
  PROVE  /\ Merge(D, g, x).created = x.created /\ Merge(D, g, x).updated = x.updated
         /\ Merge(D, g, x).rows = Overlay(RowsOf(D, g), x.rows)
  BY DEF Merge

LEMMA RowsOfIs ==
  ASSUME NEW o, NEW D, NEW p, RecordTypes(o, D, p), NEW g
  PROVE  RowsTyped(RowsOf(D, g)) /\ RowsTyped(PrefixOf(D, g))
  BY NothingOverlaid DEF RowsOf, PrefixOf, RecordTypes

LEMMA CutsTyped ==
  ASSUME NEW s, NEW o, NEW D, NEW p, RecordTypes(o, D, p), s.generation # 0
  PROVE  RowsTyped(Cuts(s, D, p))
<1>1. RowsTyped(PrefixOf(D, s.generation))
  BY RowsOfIs
<1>2. p.generation = s.generation => RowsTyped(p.prefix)
  BY DEF RecordTypes
<1> QED
  BY <1>1, <1>2, RowsOverlaid, NothingOverlaid DEF Cuts

\* A source counts from the instant it became available.
LEMMA CurrentIs ==
  ASSUME NEW w, Snapshot(w.vn), NEW s, s.source \in Nat, w.vn.created <= s.source,
         s.generation # 0, NEW o, NEW D, NEW p, RecordTypes(o, D, p)
  PROVE  LET c == Current(w, s, D, p)
             old == RowsOf(D, s.generation)
         IN  /\ c.created = s.source /\ c.updated = w.vn.updated
             /\ DOMAIN c.rows = DOMAIN old \cup DOMAIN w.vn.rows
             /\ \A b \in DOMAIN w.vn.rows : c.rows[b] = Cut(w.vn.rows[b], b, Cuts(s, D, p))
             /\ \A b \in DOMAIN old \ DOMAIN w.vn.rows : c.rows[b] = Cut(old[b], b, Cuts(s, D, p))
             /\ RowsTyped(c.rows)
<1> DEFINE m == Merge(D, s.generation, w.vn)
           old == RowsOf(D, s.generation)
           cuts == Cuts(s, D, p)
<1>1. m.created = w.vn.created /\ m.updated = w.vn.updated /\ m.rows = Overlay(old, w.vn.rows)
  BY MergeIs DEF Snapshot
<1>2. Current(w, s, D, p) = networkSince(m, s.source, cuts)
  BY DEF Current
<1>3. RowsTyped(old) /\ RowsTyped(cuts) /\ RowsTyped(w.vn.rows)
  BY RowsOfIs, CutsTyped DEF Snapshot
<1> HIDE DEF m, old, cuts
<1>4. RowsTyped(m.rows)
  BY <1>1, <1>3, RowsOverlaid
<1>5. RowsTyped(networkSince(m, s.source, cuts).rows)
  BY <1>3, <1>4, RowsSince
<1>6. Later(w.vn.created, s.source) = s.source
  BY DEF Later, Snapshot
<1>7. /\ DOMAIN m.rows = DOMAIN old \cup DOMAIN w.vn.rows
      /\ \A b \in DOMAIN w.vn.rows : m.rows[b] = w.vn.rows[b]
      /\ \A b \in DOMAIN old \ DOMAIN w.vn.rows : m.rows[b] = old[b]
  <2> DEFINE new == w.vn.rows
  <2> HIDE DEF new
  <2>1. /\ DOMAIN Overlay(old, new) = DOMAIN old \cup DOMAIN new
        /\ \A b \in DOMAIN new : Overlay(old, new)[b] = new[b]
        /\ \A b \in DOMAIN old \ DOMAIN new : Overlay(old, new)[b] = old[b]
    BY OverlayIs
  <2> QED
    BY <1>1, <2>1 DEF new
<1> QED
  BY <1>1, <1>2, <1>5, <1>6, <1>7, SinceIs DEF old, cuts

LEMMA OwedIs ==
  ASSUME NEW o, NEW D, NEW p, RecordTypes(o, D, p), p.generation # 0,
         p.snapshot.created <= p.available
  PROVE  LET c == Owed(D, p)
             old == RowsOf(D, p.generation)
             cuts == Overlay(p.prefix, PrefixOf(D, p.generation))
         IN  /\ c.created = p.available /\ c.updated = p.snapshot.updated
             /\ DOMAIN c.rows = DOMAIN old \cup DOMAIN p.snapshot.rows
             /\ \A b \in DOMAIN p.snapshot.rows : c.rows[b] = Cut(p.snapshot.rows[b], b, cuts)
             /\ \A b \in DOMAIN old \ DOMAIN p.snapshot.rows : c.rows[b] = Cut(old[b], b, cuts)
             /\ RowsTyped(c.rows)
<1> DEFINE x == p.snapshot
           m == Merge(D, p.generation, x)
           old == RowsOf(D, p.generation)
           cuts == Overlay(p.prefix, PrefixOf(D, p.generation))
<1>0. /\ DOMAIN x = {"created", "updated", "total", "rows"} /\ x.created \in Nat /\ x.updated \in Nat
      /\ p.available \in Nat /\ RowsTyped(x.rows) /\ RowsTyped(p.prefix)
  BY DEF RecordTypes
<1>1. m.created = x.created /\ m.updated = x.updated /\ m.rows = Overlay(old, x.rows)
  BY <1>0, MergeIs
<1>2. Owed(D, p) = networkSince(m, p.available, cuts)
  BY DEF Owed
<1>3. RowsTyped(old) /\ RowsTyped(cuts)
  BY <1>0, RowsOfIs, RowsOverlaid
<1>4. Later(x.created, p.available) = p.available
  BY <1>0 DEF Later
<1> HIDE DEF m, old, cuts, x
<1>5. RowsTyped(m.rows)
  BY <1>0, <1>1, <1>3, RowsOverlaid
<1>6. RowsTyped(networkSince(m, p.available, cuts).rows)
  BY <1>3, <1>5, RowsSince
<1>7. /\ DOMAIN m.rows = DOMAIN old \cup DOMAIN x.rows
      /\ \A b \in DOMAIN x.rows : m.rows[b] = x.rows[b]
      /\ \A b \in DOMAIN old \ DOMAIN x.rows : m.rows[b] = old[b]
  <2> DEFINE new == x.rows
  <2> HIDE DEF new
  <2>1. /\ DOMAIN Overlay(old, new) = DOMAIN old \cup DOMAIN new
        /\ \A b \in DOMAIN new : Overlay(old, new)[b] = new[b]
        /\ \A b \in DOMAIN old \ DOMAIN new : Overlay(old, new)[b] = old[b]
    BY OverlayIs
  <2> QED
    BY <1>1, <2>1 DEF new
<1> QED
  BY <1>1, <1>2, <1>4, <1>6, <1>7, SinceIs DEF old, cuts, x

LEMMA RowIs ==
  ASSUME NEW o, NEW D, NEW p, RecordTypes(o, D, p), NEW g \in DOMAIN D
  PROVE  /\ Row(D, g).created = Later(D[g].created, D[g].available)
         /\ Row(D, g).updated = D[g].updated /\ DOMAIN Row(D, g).rows = DOMAIN D[g].rows
         /\ \A b \in DOMAIN D[g].rows : Row(D, g).rows[b] = Cut(D[g].rows[b], b, D[g].prefix)
         /\ RowsTyped(Row(D, g).rows)
<1>1. RowsTyped(D[g].rows) /\ RowsTyped(D[g].prefix)
  BY DEF RecordTypes
<1> QED
  BY <1>1, SinceIs, RowsSince DEF Row

-----------------------------------------------------------------------------
(* Time passes for the panel. *)

LEMMA CountsSame ==
  ASSUME NEW w, NEW w2, w2.seen = w.seen, w2.astray = w.astray, NEW x
  PROVE  Counts(w2, x) <=> Counts(w, x)
  BY DEF Counts, Between

LEMMA FiguresSame ==
  ASSUME NEW w, NEW w2, w2.seen = w.seen, w.astray => w2.astray, w.noted \subseteq w2.noted,
         w.seen[w2.vn.updated] = w.seen[w.vn.updated], NEW s, Figures(w, s)
  PROVE  Figures(w2, s)
  BY DEF Figures, Between

\* The same for vnStat, only later.
Older(w, w2) ==
  /\ w2.seen = w.seen /\ w2.astray = w.astray /\ w2.iface = w.iface /\ w2.vn = w.vn
  /\ w.now <= w2.now /\ w.events <= w2.events /\ w.noted \subseteq w2.noted

LEMMA PanelOlder ==
  ASSUME NEW w, NEW w2, Surroundings(w), Surroundings(w2), Older(w, w2),
         NEW s, NEW o, NEW D, NEW p, Panel(w, s, o, D, p)
  PROVE  Panel(w2, s, o, D, p)
<1>1. /\ w2.seen = w.seen /\ w2.astray = w.astray /\ w2.iface = w.iface /\ w2.vn = w.vn
      /\ w.now <= w2.now /\ w.events <= w2.events /\ w.noted \subseteq w2.noted
      /\ w.now \in Nat /\ w2.now \in Nat /\ w.events \in Nat /\ w2.events \in Nat
  BY DEF Older, Surroundings
<1>2. \A x : (Live(w2, x) <=> Live(w, x)) /\ (Rebuilt(w2, x) <=> Rebuilt(w, x))
  BY <1>1 DEF Live, Rebuilt
<1>3. \A x : Counts(w2, x) <=> Counts(w, x)
  BY <1>1, CountsSame
<1>4. Numbers(w2, s, o, D, p)
  <2>1. s.generation \in Nat /\ o.generation \in Nat
    BY DEF Panel, Numbers
  <2>2. \A x \in {s, o} : /\ x.generation \in Nat /\ x.generation <= w.events + 1
                          /\ x.generation # 0 /\ ~Live(w, x) => x.generation <= w.events
    BY <2>1 DEF Panel, Numbers
  <2>3. \A x \in {s, o} : /\ x.generation <= w2.events + 1
                          /\ x.generation # 0 /\ ~Live(w2, x) => x.generation <= w2.events
    BY <1>1, <1>2, <2>2
  <2> QED
    BY <1>2, <2>3 DEF Panel, Numbers
<1>5. Order(w2, s, o, D, p)
  <2>1. s.source \in Nat /\ s.source <= w2.now
    BY <1>1 DEF Panel, Order
  <2>2. \A x \in {s, o} : x.generation # 0 =>
          /\ x.created \in Nat /\ x.created <= x.updated /\ x.created <= x.source
          /\ x.updated <= w2.vn.updated
          /\ Rebuilt(w2, x) => x.source <= w2.vn.created
    BY <1>1, <1>2 DEF Panel, Order
  <2> QED
    BY <2>1, <2>2 DEF Panel, Order
<1>6. Figures(w2, s) /\ Figures(w2, o)
  BY <1>1, FiguresSame DEF Panel
<1>7. Ahead(w2, s) /\ Ahead(w2, o)
  BY <1>1, <1>2 DEF Panel, Ahead
<1>8. Saves(w2, s, D, p) /\ Saves(w2, o, D, p)
  BY <1>1, <1>2, <1>3 DEF Panel, Saves
<1>9. Continues(w2, s, D, p)
  <2>1. Current(w2, s, D, p) = Current(w, s, D, p)
    BY <1>1 DEF Current
  <2> QED
    BY <1>1, <1>2, <1>3, <2>1 DEF Panel, Continues, Between
<1> QED
  BY <1>4, <1>5, <1>6, <1>7, <1>8, <1>9 DEF Panel

-----------------------------------------------------------------------------
(* vnStat saves n bytes. *)

Looks(w, w2, n) ==
  /\ n \in Nat
  /\ w2.now = w.now /\ w2.events = w.events /\ w2.astray = w.astray /\ w2.iface = w.iface
  /\ w.noted \subseteq w2.noted
  /\ w.vn.updated < w.now /\ w2.vn.updated = w.now
  /\ w2.vn.created = w.vn.created /\ w2.vn.total = w.vn.total + n
  /\ DOMAIN w2.vn.rows = DOMAIN w.vn.rows \cup {Slot(w.now)}
  /\ \A b \in DOMAIN w.vn.rows \ {Slot(w.now)} : w2.vn.rows[b] = w.vn.rows[b]
  /\ w2.vn.rows[Slot(w.now)]
       = n + (IF Slot(w.now) \in DOMAIN w.vn.rows THEN w.vn.rows[Slot(w.now)] ELSE 0)
  /\ \A t \in Nat : w2.seen[t] = IF t < w.now THEN w.seen[t] ELSE w.seen[w.vn.updated] + n

LEMMA LooksSeen ==
  ASSUME NEW w, NEW w2, Surroundings(w), NEW n, Looks(w, w2, n), NEW a \in Nat, NEW b \in Nat
  PROVE  /\ b < w.now => Between(w2, a, b) = Between(w, a, b)
         /\ w.now <= b /\ a < w.now =>
              Between(w2, a, b) = Between(w, a, w.vn.updated) + n
         /\ Between(w, a, b) <= Between(w2, a, b)
<1> DEFINE r == w.seen[w.vn.updated]
<1>1. /\ Grows(w.seen) /\ w.vn.updated \in Nat /\ w.now \in Nat /\ n \in Nat /\ w.vn.updated < w.now
      /\ \A t \in Nat : w.vn.updated <= t => w.seen[t] = r
  BY DEF Surroundings, Looks, Snapshot
<1>2. \A t \in Nat : w.seen[t] \in Nat /\ w.seen[t] <= r
  <2> SUFFICES ASSUME NEW t \in Nat PROVE w.seen[t] \in Nat /\ w.seen[t] <= r
    OBVIOUS
  <2>1. w.seen[t] \in Nat /\ r \in Nat
    BY <1>1 DEF Grows
  <2>2. CASE t <= w.vn.updated
    BY <1>1, <2>1, <2>2 DEF Grows
  <2>3. CASE ~(t <= w.vn.updated)
    BY <1>1, <2>1, <2>3
  <2> QED
    BY <2>1, <2>2, <2>3
<1>3. \A t \in Nat : w2.seen[t] = IF t < w.now THEN w.seen[t] ELSE r + n
  BY DEF Looks
<1>4. r \in Nat
  BY <1>1, <1>2
<1> HIDE DEF r
<1>5. CASE b < w.now
  <2>1. w2.seen[b] = w.seen[b]
    BY <1>3, <1>5
  <2>2. CASE a < w.now
    BY <1>1, <1>2, <1>3, <1>5, <2>1, <2>2 DEF Between, Later
  <2>3. CASE ~(a < w.now)
    <3>1. w2.seen[a] = r + n /\ w.seen[a] = r /\ w.seen[b] \in Nat /\ w.seen[b] <= r
      BY <1>1, <1>2, <1>3, <2>3
    <3>2. Between(w2, a, b) = 0 /\ Between(w, a, b) = 0
      BY <1>1, <1>4, <2>1, <3>1 DEF Between, Later
    <3> QED
      BY <1>1, <1>5, <3>2
  <2> QED
    BY <2>2, <2>3
<1>6. CASE ~(b < w.now)
  <2>1. w2.seen[b] = r + n /\ w.seen[b] = r
    BY <1>1, <1>3, <1>6
  <2>2. CASE a < w.now
    <3>1. w2.seen[a] = w.seen[a] /\ w.seen[a] \in Nat /\ w.seen[a] <= r
      BY <1>2, <1>3, <2>2
    <3>2. /\ Between(w2, a, b) = r + n - w.seen[a] /\ Between(w, a, b) = r - w.seen[a]
          /\ Between(w, a, w.vn.updated) = r - w.seen[a]
      BY <1>1, <1>4, <2>1, <3>1 DEF Between, Later, r
    <3> QED
      BY <1>1, <1>4, <1>6, <3>1, <3>2
  <2>3. CASE ~(a < w.now)
    <3>1. w2.seen[a] = r + n /\ w.seen[a] = r
      BY <1>1, <1>3, <2>3
    <3>2. Between(w2, a, b) = 0 /\ Between(w, a, b) = 0
      BY <1>1, <1>4, <2>1, <3>1 DEF Between, Later
    <3> QED
      BY <1>1, <1>6, <2>3, <3>2
  <2> QED
    BY <2>2, <2>3
<1> QED
  BY <1>5, <1>6

Looked(w, w2, n) ==
  /\ \A a, c \in Nat : /\ c < w.now => Between(w2, a, c) = Between(w, a, c)
                       /\ Between(w, a, c) <= Between(w2, a, c)
  /\ \A a \in Nat : a < w.now => Between(w2, a, w.now) = Between(w, a, w.vn.updated) + n

LEMMA LooksBefore ==
  ASSUME NEW w, NEW w2, Surroundings(w), NEW n, Looks(w, w2, n) PROVE Looked(w, w2, n)
<1>1. \A a, c \in Nat : /\ c < w.now => Between(w2, a, c) = Between(w, a, c)
                        /\ Between(w, a, c) <= Between(w2, a, c)
                        /\ w.now <= c /\ a < w.now
                            => Between(w2, a, c) = Between(w, a, w.vn.updated) + n
  BY LooksSeen
<1>2. w.now \in Nat /\ w.now <= w.now
  BY DEF Surroundings
<1> QED
  BY <1>1, <1>2 DEF Looked

\* What ended before is not touched.
LEMMA LooksKeeps ==
  ASSUME NEW w, NEW w2, Surroundings(w), NEW n, Looks(w, w2, n),
         NEW x, x.created \in Nat, x.updated \in Nat, x.updated < w.now, RowsTyped(x.rows),
         Counts(w, x)
  PROVE  Counts(w2, x)
<1>looked. Looked(w, w2, n)
  BY LooksBefore
<1>0. \A a, c \in Nat : c < w.now => Between(w2, a, c) = Between(w, a, c)
  BY <1>looked DEF Looked
<1> SUFFICES ASSUME NEW b \in DOMAIN x.rows, x.created < b + Width
             PROVE  /\ x.rows[b] <= Between(w2, Opens(x, b), Closes(x, b))
                    /\ ~w2.astray => x.rows[b] = Between(w2, Opens(x, b), Closes(x, b))
  BY DEF Counts
<1>1. b \in Nat
  BY SlotsAre DEF RowsTyped
<1>2. Opens(x, b) \in Nat /\ Closes(x, b) \in Nat /\ Closes(x, b) <= x.updated
  BY <1>1, OpensIs
<1>3. Closes(x, b) < w.now /\ w.now \in Nat
  BY <1>2 DEF Surroundings
<1>4. Between(w2, Opens(x, b), Closes(x, b)) = Between(w, Opens(x, b), Closes(x, b))
  BY <1>0, <1>2, <1>3
<1> QED
  BY <1>4 DEF Counts, Looks

\* A source of the present database goes on.
LEMMA LooksExtends ==
  ASSUME NEW w, NEW w2, Surroundings(w), NEW n, Looks(w, w2, n),
         NEW x, NEW y, x.created \in Nat, x.created < w.now, x.updated = w.vn.updated,
         RowsTyped(x.rows), Counts(w, x),
         y.created = x.created, y.updated = w.now,
         DOMAIN y.rows = DOMAIN x.rows \cup {Slot(w.now)},
         \A b \in DOMAIN x.rows \ {Slot(w.now)} : y.rows[b] = x.rows[b],
         LET b == Slot(w.now)
             old == IF b \in DOMAIN x.rows THEN x.rows[b] ELSE 0
         IN  /\ y.rows[b] \in Nat /\ y.rows[b] <= old + n
             /\ ~w.astray => y.rows[b] = old + n,
         ~w.astray => \A b \in DOMAIN x.rows : b <= w.vn.updated \/ b + 4 <= w.vn.updated,
         ~w.astray /\ Slot(w.now) \notin DOMAIN x.rows
           => w.vn.updated <= x.created \/ w.vn.updated <= Slot(w.now)
  PROVE  Counts(w2, y)
<1>looked. Looked(w, w2, n)
  BY LooksBefore
<1>0. /\ \A a, c \in Nat : /\ c < w.now => Between(w2, a, c) = Between(w, a, c)
                            /\ Between(w, a, c) <= Between(w2, a, c)
      /\ \A a \in Nat : a < w.now => Between(w2, a, w.now) = Between(w, a, w.vn.updated) + n
  BY <1>looked DEF Looked
<1> DEFINE S == Slot(w.now)
           u == w.vn.updated
           r == w.seen[w.vn.updated]
<1>1. /\ w.now \in Nat /\ w.now % 2 = 1 /\ w.now <= Horizon /\ u \in Nat /\ u < w.now /\ n \in Nat
      /\ Grows(w.seen) /\ \A t \in Nat : u <= t => w.seen[t] = r
      /\ w2.astray = w.astray
  BY DEF Surroundings, Looks, Snapshot
<1>2. S \in Nat /\ S % 4 = 0 /\ S < w.now /\ w.now < S + 4
  <2>1. S \in Nat /\ S % 4 = 0 /\ S <= w.now /\ w.now < S + 4
    BY <1>1, SlotIs
  <2>2. S # w.now
    BY <1>1, <2>1
  <2> QED
    BY <1>1, <2>1, <2>2
<1>3. \A b \in DOMAIN x.rows : b \in Nat /\ b % 4 = 0 /\ x.rows[b] \in Nat
  BY SlotsAre DEF RowsTyped
<1> SUFFICES ASSUME NEW b \in DOMAIN y.rows, y.created < b + Width
             PROVE  /\ y.rows[b] <= Between(w2, Opens(y, b), Closes(y, b))
                    /\ ~w.astray => y.rows[b] = Between(w2, Opens(y, b), Closes(y, b))
  BY <1>1 DEF Counts
<1>4. CASE b = S
  <2>1. Opens(y, S) \in Nat /\ Opens(y, S) < w.now /\ Opens(y, S) \in {S, x.created}
        /\ S <= Opens(y, S) /\ x.created <= Opens(y, S)
    BY <1>1, <1>2 DEF Opens, Later
  <2>2. Closes(y, S) = w.now
    BY <1>1, <1>2 DEF Closes, Earlier, Width
  <2>3. Between(w2, Opens(y, S), Closes(y, S)) = Between(w, Opens(y, S), u) + n
    <3> DEFINE o == Opens(y, S)
    <3>1. o \in Nat /\ o < w.now /\ w.now <= w.now
      BY <1>1, <2>1
    <3> HIDE DEF o
    <3>2. Between(w2, o, w.now) = Between(w, o, u) + n
      BY <1>1, <3>1, <1>0
    <3> QED
      BY <2>2, <3>2 DEF o
  <2>4. Between(w, Opens(y, S), u) \in Nat
    BY <1>1, <2>1, BetweenIs
  <2>5. CASE S \in DOMAIN x.rows
    <3>1. Opens(x, S) = Opens(y, S)
      BY DEF Opens
    <3>2. Closes(x, S) = u
      BY <1>1, <1>2 DEF Closes, Earlier, Width
    <3>3. /\ x.rows[S] <= Between(w, Opens(y, S), u)
          /\ ~w.astray => x.rows[S] = Between(w, Opens(y, S), u)
      BY <1>4, <2>5, <3>1, <3>2 DEF Counts
    <3>4. x.rows[S] \in Nat /\ y.rows[S] \in Nat /\ y.rows[S] <= x.rows[S] + n
          /\ (~w.astray => y.rows[S] = x.rows[S] + n)
      BY <1>3, <2>5
    <3> QED
      BY <1>1, <1>4, <2>3, <2>4, <3>3, <3>4
  <2>6. CASE S \notin DOMAIN x.rows
    <3>1. y.rows[S] \in Nat /\ y.rows[S] <= n /\ (~w.astray => y.rows[S] = n)
      BY <1>1, <2>6
    <3>2. ASSUME ~w.astray PROVE Between(w, Opens(y, S), u) = 0
      <4>1. u <= Opens(y, S)
        BY <1>1, <1>2, <2>1, <2>6, <3>2
      <4> QED
        BY <1>1, <2>1, <4>1, BetweenIs
    <3> QED
      BY <1>1, <1>4, <2>3, <2>4, <3>1, <3>2
  <2> QED
    BY <2>5, <2>6
<1>5. CASE b # S
  <2>1. b \in DOMAIN x.rows /\ y.rows[b] = x.rows[b] /\ b \in Nat /\ b % 4 = 0
        /\ x.rows[b] \in Nat
    BY <1>3, <1>5
  <2>2. Opens(x, b) = Opens(y, b) /\ Opens(x, b) \in Nat
    BY <2>1 DEF Opens, Later
  <2>3. /\ x.rows[b] <= Between(w, Opens(x, b), Closes(x, b))
        /\ ~w.astray => x.rows[b] = Between(w, Opens(x, b), Closes(x, b))
    BY <2>1 DEF Counts
  <2>4. /\ Closes(x, b) \in Nat /\ Closes(y, b) \in Nat /\ Closes(x, b) <= Closes(y, b)
        /\ Closes(x, b) \in {b + 4, u} /\ Closes(y, b) \in {b + 4, w.now}
        /\ Closes(x, b) <= b + 4
    BY <1>1, <2>1 DEF Closes, Earlier, Width
  <2>5. Between(w, Opens(x, b), Closes(x, b)) <= Between(w2, Opens(x, b), Closes(y, b))
    <3>1. Between(w, Opens(x, b), Closes(x, b)) <= Between(w, Opens(x, b), Closes(y, b))
      BY <1>1, <2>2, <2>4, BetweenGrows
    <3>2. Between(w, Opens(x, b), Closes(y, b)) <= Between(w2, Opens(x, b), Closes(y, b))
      <4> DEFINE a == Opens(x, b)
                 c == Closes(y, b)
      <4>1. a \in Nat /\ c \in Nat
        BY <2>2, <2>4
      <4> HIDE DEF a, c
      <4>2. Between(w, a, c) <= Between(w2, a, c)
        BY <1>looked, <4>1, Zenon DEF Looked
      <4> QED
        BY <4>2 DEF a, c
    <3>3. /\ Between(w, Opens(x, b), Closes(x, b)) \in Nat
          /\ Between(w, Opens(x, b), Closes(y, b)) \in Nat
          /\ Between(w2, Opens(x, b), Closes(y, b)) \in Int
      <4>1. Between(w2, Opens(x, b), Closes(y, b)) \in Int
        <5>1. \A t \in Nat : w2.seen[t] \in Int
          BY <1>1 DEF Looks, Grows
        <5>2. w2.seen[Opens(x, b)] \in Int /\ w2.seen[Closes(y, b)] \in Int
          BY <2>2, <2>4, <5>1
        <5> QED
          BY <5>2 DEF Between, Later
      <4> QED
        BY <1>1, <2>2, <2>4, <4>1, BetweenIs
    <3> QED
      BY <3>1, <3>2, <3>3
  <2>6. ASSUME ~w.astray
        PROVE  Between(w2, Opens(x, b), Closes(y, b)) = Between(w, Opens(x, b), Closes(x, b))
    <3>1. b < S
      BY <1>1, <1>2, <1>5, <2>1, <2>6, SlotsApart
    <3>2. b + 4 < w.now
      <4>1. b + 4 <= S
        BY <1>2, <2>1, <3>1, SlotsApart
      <4> QED
        BY <1>1, <1>2, <2>1, <4>1
    <3>3. Closes(y, b) = b + 4
      BY <1>1, <2>1, <3>2 DEF Closes, Earlier, Width
    <3>4. Between(w2, Opens(x, b), b + 4) = Between(w, Opens(x, b), b + 4)
      BY <1>0, <1>1, <2>1, <2>2, <3>2
    <3>5. w.seen[b + 4] = w.seen[Closes(x, b)]
      <4>1. CASE Closes(x, b) = b + 4
        BY <4>1
      <4>2. CASE Closes(x, b) = u
        BY <1>1, <2>1, <2>4, <4>2
      <4> QED
        BY <2>4, <4>1, <4>2
    <3> QED
      BY <3>3, <3>4, <3>5 DEF Between
  <2>7. Between(w2, Opens(x, b), Closes(y, b)) \in Int /\ Between(w, Opens(x, b), Closes(x, b)) \in Int
    <3>1. \A t \in Nat : w2.seen[t] \in Int /\ w.seen[t] \in Int
      BY <1>1 DEF Looks, Grows
    <3>2. /\ w2.seen[Opens(x, b)] \in Int /\ w2.seen[Closes(y, b)] \in Int
          /\ w.seen[Opens(x, b)] \in Int /\ w.seen[Closes(x, b)] \in Int
      BY <2>2, <2>4, <3>1
    <3> QED
      BY <3>2 DEF Between, Later
  <2>8. Opens(y, b) = Opens(x, b)
    BY <2>2
  <2> HIDE DEF Opens, Closes, Between
  <2> QED
    BY <2>1, <2>3, <2>5, <2>6, <2>7, <2>8
<1> QED
  BY <1>4, <1>5

LEMMA SlotIsThe ==
  ASSUME NEW b \in Nat, b % 4 = 0, NEW x \in Nat, b <= x, x < b + 4 PROVE Slot(x) = b
<1>1. Slot(x) \in Nat /\ Slot(x) % 4 = 0 /\ Slot(x) <= x /\ x < Slot(x) + 4
  BY SlotIs
<1>2. ~(Slot(x) < b) /\ ~(b < Slot(x))
  BY <1>1, SlotsApart
<1> QED
  BY <1>1, <1>2

\* What the panel's records say of vnStat's database is still so.
LEMMA LooksFigures ==
  ASSUME NEW w, NEW w2, Surroundings(w), NEW n, Looks(w, w2, n),
         NEW s, Figures(w, s), s.generation # 0 => s.period < w.now /\ s.updated <= w.vn.updated
  PROVE  Figures(w2, s)
<1>looked. Looked(w, w2, n)
  BY LooksBefore
<1>0. \A a, c \in Nat : c < w.now => Between(w2, a, c) = Between(w, a, c)
  BY <1>looked DEF Looked
<1>1. /\ w.now \in Nat /\ w.vn.updated \in Nat /\ w.vn.updated < w.now /\ n \in Nat
      /\ w2.vn.updated = w.now /\ w2.astray = w.astray /\ w.noted \subseteq w2.noted
      /\ w.seen[w.vn.updated] \in Nat
      /\ \A t \in w.noted : t \in Nat
  BY DEF Surroundings, Looks, Snapshot, Grows
<1>2. w2.seen[w2.vn.updated] = w.seen[w.vn.updated] + n
  BY <1>1 DEF Looks
<1>3. s.rx \in 0..w2.seen[w2.vn.updated]
  <2>1. s.rx \in Nat /\ s.rx <= w.seen[w.vn.updated]
    BY <1>1 DEF Figures
  <2> QED
    BY <1>1, <1>2, <2>1
<1>4. ASSUME s.generation # 0
      PROVE  /\ Between(w2, s.period, s.updated) = Between(w, s.period, s.updated)
             /\ w2.seen[s.period] = w.seen[s.period] /\ w2.seen[s.updated] = w.seen[s.updated]
             /\ {s.updated, s.period, s.recordedFrom} \subseteq w2.noted
  <2>1. {s.updated, s.period, s.recordedFrom} \subseteq w.noted
    BY <1>4 DEF Figures
  <2>2. s.period \in Nat /\ s.updated \in Nat /\ s.period < w.now /\ s.updated < w.now
    BY <1>1, <1>4, <2>1
  <2> QED
    BY <1>0, <1>1, <2>1, <2>2 DEF Looks
<1> QED
  BY <1>1, <1>3, <1>4 DEF Figures

LEMMA LooksSaves ==
  ASSUME NEW w, NEW w2, Surroundings(w), NEW n, Looks(w, w2, n),
         NEW s, NEW o, NEW D, NEW p, Panel(w, s, o, D, p), NEW x, Saves(w, x, D, p)
  PROVE  Saves(w2, x, D, p)
<1>1. /\ w.now \in Nat /\ w.now <= Horizon /\ w.vn.updated \in Nat /\ w.vn.created \in Nat
      /\ w.vn.created <= w.vn.updated /\ w.vn.updated < w.now /\ n \in Nat /\ Snapshot(w.vn)
      /\ w.now % 2 = 1
  BY DEF Surroundings, Looks, Snapshot
<1>2. RecordTypes(o, D, p) /\ Order(w, s, o, D, p) /\ Numbers(w, s, o, D, p)
  BY DEF Panel
<1>3. \A y \in {s, o} : y.generation # 0 => y.updated <= w.vn.updated
  BY <1>2 DEF Order
<1>4. \A y \in {s, o} : y.generation # 0 => y.updated \in Nat
  <2>1. \A t \in w.noted : t \in Nat
    BY DEF Surroundings
  <2> QED
    BY <2>1 DEF Panel, Figures
<1>5. ASSUME NEW g \in DOMAIN D PROVE Counts(w2, Row(D, g))
  <2>1. g \in 1..o.generation /\ D[g].created \in Nat /\ D[g].available \in Nat /\ D[g].updated \in Nat
    BY <1>2 DEF RecordTypes
  <2>2. o.generation \in Nat
    BY <1>2 DEF Numbers
  <2>3. o.generation # 0 /\ D[g].updated <= o.updated
    BY <1>2, <2>1, <2>2 DEF Order
  <2>4. D[g].updated < w.now
    BY <1>1, <1>3, <1>4, <2>1, <2>3
  <2>5. /\ Row(D, g).created \in Nat /\ Row(D, g).updated = D[g].updated
        /\ RowsTyped(Row(D, g).rows)
    BY <1>2, <2>1, RowIs, LaterIs
  <2>6. Counts(w, Row(D, g))
    BY DEF Saves
  <2> DEFINE y == Row(D, g)
  <2>7. y.created \in Nat /\ y.updated \in Nat /\ y.updated < w.now /\ RowsTyped(y.rows) /\ Counts(w, y)
    BY <2>1, <2>4, <2>5, <2>6
  <2> HIDE DEF y
  <2>8. Counts(w2, y)
    BY <2>7, LooksKeeps
  <2> QED
    BY <2>8 DEF y
<1>6. ASSUME p.generation # 0 PROVE Counts(w2, Owed(D, p))
  <2>1. /\ s.generation # 0 /\ p.snapshot.created = s.created /\ p.available = s.source
        /\ p.snapshot.updated = s.updated /\ s.created <= s.source /\ s.source \in Nat
    BY <1>2, <1>6 DEF Numbers, Order
  <2>2. /\ Owed(D, p).created = p.available /\ Owed(D, p).updated = p.snapshot.updated
        /\ RowsTyped(Owed(D, p).rows)
    BY <1>2, <1>6, <2>1, OwedIs
  <2>3. s.updated \in Nat /\ s.updated < w.now
    BY <1>1, <1>3, <1>4, <2>1
  <2>4. Counts(w, Owed(D, p))
    BY <1>6 DEF Saves
  <2> DEFINE y == Owed(D, p)
  <2>5. y.created \in Nat /\ y.updated \in Nat /\ y.updated < w.now /\ RowsTyped(y.rows) /\ Counts(w, y)
    BY <2>1, <2>2, <2>3, <2>4
  <2> HIDE DEF y
  <2>6. Counts(w2, y)
    BY <2>5, LooksKeeps
  <2> QED
    BY <2>6 DEF y
<1>7. ASSUME Rebuilt(w2, x) PROVE Counts(w2, w2.vn)
  <2> DEFINE S == Slot(w.now)
             v == w.vn
             v2 == w2.vn
  <2>1. Rebuilt(w, x)
    BY <1>7 DEF Rebuilt, Looks
  <2>2. Counts(w, v)
    BY <2>1 DEF Saves
  <2>3. /\ v.created \in Nat /\ v.created < w.now /\ v.updated = w.vn.updated /\ RowsTyped(v.rows)
        /\ v2.created = v.created /\ v2.updated = w.now
        /\ DOMAIN v2.rows = DOMAIN v.rows \cup {S}
        /\ \A b \in DOMAIN v.rows \ {S} : v2.rows[b] = v.rows[b]
        /\ v2.rows[S] = n + (IF S \in DOMAIN v.rows THEN v.rows[S] ELSE 0)
        /\ \A b \in DOMAIN v.rows : b <= v.updated
        /\ IF v.created = v.updated THEN DOMAIN v.rows = {} ELSE Slot(v.updated) \in DOMAIN v.rows
    BY <1>1 DEF Looks, Snapshot
  <2>4. S \in Nat /\ S % 4 = 0 /\ S <= w.now /\ w.now < S + 4
    BY <1>1, SlotIs
  <2>5. v2.rows[S] \in Nat /\ v2.rows[S] = (IF S \in DOMAIN v.rows THEN v.rows[S] ELSE 0) + n
    <3>1. S \in DOMAIN v.rows => v.rows[S] \in Nat
      BY <2>3 DEF RowsTyped
    <3> QED
      BY <1>1, <2>3, <3>1
  <2>6. ASSUME S \notin DOMAIN v.rows PROVE v.updated <= v.created \/ v.updated <= S
    <3>1. CASE v.created = v.updated
      BY <1>1, <3>1
    <3>2. CASE v.created # v.updated
      <4>1. Slot(v.updated) # S
        BY <2>3, <2>6, <3>2
      <4>2. ~(S <= v.updated)
        BY <1>1, <2>4, <4>1, SlotIsThe
      <4> QED
        BY <1>1, <2>4, <4>2
    <3> QED
      BY <3>1, <3>2
  <2> HIDE DEF S, v, v2
  <2>7. v2.rows[S] <= (IF S \in DOMAIN v.rows THEN v.rows[S] ELSE 0) + n
    <3>1. v2.rows[S] <= v2.rows[S]
      BY <2>5
    <3> QED
      BY <2>5, <3>1
  <2>8. Counts(w2, v2)
    BY <2>2, <2>3, <2>5, <2>6, <2>7, LooksExtends DEF S
  <2> QED
    BY <2>8 DEF v2
<1> QED
  BY <1>5, <1>6, <1>7 DEF Saves

LEMMA LooksContinues ==
  ASSUME NEW w, NEW w2, Surroundings(w), Surroundings(w2), NEW n, Looks(w, w2, n),
         NEW s, NEW o, NEW D, NEW p, Panel(w, s, o, D, p), s.source # w.now
  PROVE  Continues(w2, s, D, p)
<1> DEFINE S == Slot(w.now)
           v == w.vn
           v2 == w2.vn
           x == Current(w, s, D, p)
           y == Current(w2, s, D, p)
           old == RowsOf(D, s.generation)
           cuts == Cuts(s, D, p)
           u == w.vn.updated
<1> SUFFICES ASSUME Live(w2, s)
             PROVE  /\ Counts(w2, y)
                    /\ ~w2.astray =>
                         /\ \A b \in DOMAIN cuts : \/ b \in DOMAIN v2.rows /\ cuts[b] <= v2.rows[b]
                                                   \/ b + 4 <= v2.updated
                         /\ \A taken \in Taken(s, D, p) : \A b \in DOMAIN taken \ DOMAIN v2.rows :
                              /\ b + 4 <= v2.updated
                              /\ s.source < b + 4 =>
                                   Cut(taken[b], b, cuts) = Between(w2, Later(b, s.source), b + 4)
  BY DEF Continues
<1>1. /\ w.now \in Nat /\ w.now <= Horizon /\ u \in Nat /\ v.created \in Nat
      /\ v.created <= u /\ u < w.now /\ n \in Nat /\ w.now % 2 = 1
      /\ Snapshot(v) /\ Snapshot(v2)
  BY DEF Surroundings, Looks, Snapshot
<1>2. /\ v2.created = v.created /\ v2.updated = w.now /\ w2.astray = w.astray
      /\ DOMAIN v2.rows = DOMAIN v.rows \cup {S}
      /\ \A b \in DOMAIN v.rows \ {S} : v2.rows[b] = v.rows[b]
      /\ v2.rows[S] = n + (IF S \in DOMAIN v.rows THEN v.rows[S] ELSE 0)
  BY DEF Looks
<1>3. /\ RowsTyped(v.rows) /\ \A b \in DOMAIN v.rows : b <= u
      /\ IF v.created = u THEN DOMAIN v.rows = {} ELSE Slot(u) \in DOMAIN v.rows
  BY <1>1 DEF Snapshot
<1>4. RecordTypes(o, D, p) /\ Order(w, s, o, D, p) /\ Continues(w, s, D, p)
  BY DEF Panel
<1>5. Live(w, s) /\ s.generation # 0 /\ s.created = v.created
  BY DEF Live, Looks
<1>6. s.source \in Nat /\ v.created <= s.source /\ s.source < w.now
  <2>1. s.source \in Nat /\ s.source <= w.now /\ v.created <= s.source
    BY <1>4, <1>5 DEF Order
  <2> QED
    BY <1>1, <2>1
<1>7. /\ x.created = s.source /\ x.updated = u /\ DOMAIN x.rows = DOMAIN old \cup DOMAIN v.rows
      /\ \A b \in DOMAIN v.rows : x.rows[b] = Cut(v.rows[b], b, cuts)
      /\ \A b \in DOMAIN old \ DOMAIN v.rows : x.rows[b] = Cut(old[b], b, cuts)
      /\ RowsTyped(x.rows)
  BY <1>1, <1>4, <1>5, <1>6, CurrentIs
<1>8. /\ y.created = s.source /\ y.updated = w.now /\ DOMAIN y.rows = DOMAIN old \cup DOMAIN v2.rows
      /\ \A b \in DOMAIN v2.rows : y.rows[b] = Cut(v2.rows[b], b, cuts)
      /\ \A b \in DOMAIN old \ DOMAIN v2.rows : y.rows[b] = Cut(old[b], b, cuts)
  <2>1. v2.created <= s.source
    BY <1>2, <1>6
  <2> QED
    BY <1>1, <1>2, <1>4, <1>5, <1>6, <2>1, CurrentIs
<1>9. RowsTyped(cuts) /\ RowsTyped(old)
  BY <1>4, <1>5, CutsTyped, RowsOfIs
<1>10. S \in Nat /\ S % 4 = 0 /\ S <= w.now /\ w.now < S + 4
  BY <1>1, SlotIs
<1>11. Counts(w, x)
  BY <1>4, <1>5 DEF Continues
<1>12. ASSUME ~w.astray
       PROVE  /\ \A b \in DOMAIN cuts : (b \in DOMAIN v.rows /\ cuts[b] <= v.rows[b]) \/ b + 4 <= u
              /\ \A taken \in Taken(s, D, p) : \A b \in DOMAIN taken \ DOMAIN v.rows :
                   /\ b + 4 <= u
                   /\ s.source < b + 4 =>
                        Cut(taken[b], b, cuts) = Between(w, Later(b, s.source), b + 4)
  BY <1>4, <1>5, <1>12 DEF Continues
<1>13. old \in Taken(s, D, p)
  BY DEF Taken
<1> HIDE DEF S, v, v2, x, y, old, cuts, u
<1>14. ~(S + 4 <= u)
  BY <1>1, <1>10
<1>15. ASSUME ~w.astray, S \notin DOMAIN v.rows PROVE S \notin DOMAIN cuts /\ S \notin DOMAIN old
  <2>1. S \notin DOMAIN cuts
    BY <1>12, <1>14, <1>15
  <2>2. S \notin DOMAIN old
    BY <1>12, <1>13, <1>14, <1>15
  <2> QED
    BY <2>1, <2>2
<1>16. DOMAIN y.rows = DOMAIN x.rows \cup {S}
  BY <1>2, <1>7, <1>8
<1>17. \A b \in DOMAIN x.rows \ {S} : y.rows[b] = x.rows[b]
  <2> SUFFICES ASSUME NEW b \in DOMAIN x.rows \ {S} PROVE y.rows[b] = x.rows[b]
    OBVIOUS
  <2>1. CASE b \in DOMAIN v.rows
    BY <1>2, <1>7, <1>8, <2>1
  <2>2. CASE b \notin DOMAIN v.rows
    BY <1>2, <1>7, <1>8, <2>2
  <2> QED
    BY <2>1, <2>2
<1> DEFINE held == IF S \in DOMAIN x.rows THEN x.rows[S] ELSE 0
<1>18. y.rows[S] \in Nat /\ y.rows[S] <= held + n /\ (~w.astray => y.rows[S] = held + n)
  <2>1. held \in Nat
    BY <1>7 DEF RowsTyped
  <2>2. y.rows[S] = Cut(v2.rows[S], S, cuts)
    BY <1>2, <1>8
  <2>3. CASE S \in DOMAIN v.rows
    <3>1. v.rows[S] \in Nat /\ v2.rows[S] = n + v.rows[S] /\ held = Cut(v.rows[S], S, cuts)
      BY <1>2, <1>3, <1>7, <2>3 DEF RowsTyped
    <3>2. CASE S \in DOMAIN cuts
      <4>1. cuts[S] \in Nat /\ held = Later(0, v.rows[S] - cuts[S])
            /\ y.rows[S] = Later(0, (n + v.rows[S]) - cuts[S])
        <5>1. cuts[S] \in Nat
          BY <1>9, <3>2 DEF RowsTyped
        <5> HIDE DEF held
        <5>2. held = Later(0, v.rows[S] - cuts[S])
          BY <3>1, <3>2 DEF Cut
        <5>3. y.rows[S] = Later(0, v2.rows[S] - cuts[S])
          BY <2>2, <3>2 DEF Cut
        <5> QED
          BY <3>1, <5>1, <5>2, <5>3
      <4>2. ~w.astray => cuts[S] <= v.rows[S]
        BY <1>12, <1>14, <3>2
      <4> HIDE DEF held
      <4> QED
        BY <1>1, <3>1, <4>1, <4>2 DEF Later
    <3>3. CASE S \notin DOMAIN cuts
      <4>1. held = v.rows[S] /\ y.rows[S] = n + v.rows[S]
        BY <2>2, <3>1, <3>3 DEF Cut
      <4> HIDE DEF held
      <4> QED
        BY <1>1, <3>1, <4>1
    <3> QED
      BY <3>2, <3>3
  <2>4. CASE S \notin DOMAIN v.rows
    <3>1. v2.rows[S] = n
      BY <1>1, <1>2, <2>4
    <3>2. y.rows[S] \in Nat /\ y.rows[S] <= n
      BY <1>1, <1>9, <2>2, <3>1, CutIs
    <3>3. ASSUME ~w.astray PROVE y.rows[S] = n /\ held = 0
      BY <1>7, <1>15, <2>2, <2>4, <3>1, <3>3 DEF Cut
    <3> HIDE DEF held
    <3> QED
      BY <1>1, <2>1, <3>2, <3>3
  <2> QED
    BY <2>3, <2>4
<1>19. ~w.astray => \A b \in DOMAIN x.rows : b <= u \/ b + 4 <= u
  BY <1>3, <1>7, <1>12, <1>13
<1>20. ASSUME ~w.astray, S \notin DOMAIN x.rows PROVE u <= x.created \/ u <= S
  <2>1. S \notin DOMAIN v.rows
    BY <1>7, <1>20
  <2>2. CASE v.created = u
    BY <1>6, <1>7, <2>2
  <2>3. CASE v.created # u
    <3>1. Slot(u) # S
      BY <1>3, <2>1, <2>3
    <3>2. ~(S <= u)
      <4>1. u < S + 4
        BY <1>1, <1>10
      <4> QED
        BY <1>1, <1>10, <3>1, <4>1, SlotIsThe
    <3> QED
      BY <1>1, <1>10, <3>2
  <2> QED
    BY <2>2, <2>3
<1>21. Counts(w2, y)
  <2>1. x.created \in Nat /\ x.created < w.now /\ x.updated = w.vn.updated
    BY <1>6, <1>7 DEF u
  <2>2. y.created = x.created /\ y.updated = w.now
    BY <1>7, <1>8
  <2> HIDE DEF held
  <2>3. /\ y.rows[Slot(w.now)] \in Nat
        /\ y.rows[Slot(w.now)] <= (IF Slot(w.now) \in DOMAIN x.rows THEN x.rows[Slot(w.now)] ELSE 0) + n
        /\ ~w.astray => y.rows[Slot(w.now)]
                         = (IF Slot(w.now) \in DOMAIN x.rows THEN x.rows[Slot(w.now)] ELSE 0) + n
    BY <1>18 DEF S, held
  <2>4. /\ DOMAIN y.rows = DOMAIN x.rows \cup {Slot(w.now)}
        /\ \A b \in DOMAIN x.rows \ {Slot(w.now)} : y.rows[b] = x.rows[b]
    BY <1>16, <1>17 DEF S
  <2>5. ~w.astray => \A b \in DOMAIN x.rows : b <= w.vn.updated \/ b + 4 <= w.vn.updated
    BY <1>19 DEF u
  <2>6. ~w.astray /\ Slot(w.now) \notin DOMAIN x.rows
          => w.vn.updated <= x.created \/ w.vn.updated <= Slot(w.now)
    BY <1>20 DEF u, S
  <2> QED
    BY <1>7, <1>11, <2>1, <2>2, <2>3, <2>4, <2>5, <2>6, LooksExtends
<1>22. ASSUME ~w.astray, NEW b \in DOMAIN cuts
       PROVE  (b \in DOMAIN v2.rows /\ cuts[b] <= v2.rows[b]) \/ b + 4 <= v2.updated
  <2>1. cuts[b] \in Nat /\ b \in Nat
    BY <1>9, SlotsAre DEF RowsTyped
  <2>2. CASE b \in DOMAIN v.rows /\ cuts[b] <= v.rows[b]
    <3>1. v.rows[b] \in Nat /\ v2.rows[b] \in {v.rows[b], n + v.rows[b]} /\ b \in DOMAIN v2.rows
      BY <1>2, <1>3, <2>2 DEF RowsTyped
    <3> QED
      BY <1>1, <2>1, <2>2, <3>1
  <2>3. CASE b + 4 <= u
    BY <1>1, <1>2, <2>1, <2>3
  <2> QED
    BY <1>12, <1>22, <2>2, <2>3
<1>23. ASSUME ~w.astray, NEW taken \in Taken(s, D, p), NEW b \in DOMAIN taken \ DOMAIN v2.rows
       PROVE  /\ b + 4 <= v2.updated
              /\ s.source < b + 4 =>
                   Cut(taken[b], b, cuts) = Between(w2, Later(b, s.source), b + 4)
  <2>1. /\ b + 4 <= u
        /\ s.source < b + 4 => Cut(taken[b], b, cuts) = Between(w, Later(b, s.source), b + 4)
    BY <1>2, <1>12, <1>23
  <2>2. b \in Nat
    <3>1. taken = old \/ (p.generation # 0 /\ taken = p.snapshot.rows)
      BY DEF Taken, old
    <3>2. RowsTyped(taken)
      BY <1>4, <1>9, <3>1 DEF RecordTypes
    <3> QED
      BY <3>2, SlotsAre DEF RowsTyped
  <2>3. b + 4 \in Nat /\ b + 4 < w.now /\ Later(b, s.source) \in Nat
    <3>1. Later(b, s.source) \in Nat
      BY <1>6, <2>2, LaterIs
    <3>2. b + 4 <= u
      BY <2>1
    <3> QED
      BY <1>1, <2>2, <3>1, <3>2
  <2>4. Between(w2, Later(b, s.source), b + 4) = Between(w, Later(b, s.source), b + 4)
    <3> DEFINE a == Later(b, s.source)
               c == b + 4
    <3>1. a \in Nat /\ c \in Nat /\ c < w.now
      BY <2>3
    <3> HIDE DEF a, c
    <3>2. Looked(w, w2, n)
      BY LooksBefore
    <3>3. Between(w2, a, c) = Between(w, a, c)
      BY <3>1, <3>2 DEF Looked
    <3> QED
      BY <3>3 DEF a, c
  <2> QED
    BY <1>1, <1>2, <2>1, <2>2, <2>4
<1> QED
  BY <1>2, <1>21, <1>22, <1>23

LEMMA PanelLooks ==
  ASSUME NEW w, NEW w2, Surroundings(w), Surroundings(w2), NEW n, Looks(w, w2, n),
         NEW s, NEW o, NEW D, NEW p, Panel(w, s, o, D, p), s.source # w.now,
         \A x \in {s, o} : x.generation # 0 => x.period < w.now
  PROVE  Panel(w2, s, o, D, p)
<1>1. /\ w2.now = w.now /\ w2.events = w.events /\ w2.astray = w.astray /\ w2.iface = w.iface
      /\ w2.vn.created = w.vn.created /\ w2.vn.updated = w.now /\ w.vn.updated < w.now
      /\ w.vn.updated \in Nat /\ w.now \in Nat /\ n \in Nat
      /\ w2.vn.total = w.vn.total + n /\ w.vn.total \in Int
      /\ \A t \in w.noted : t \in Nat
  BY DEF Looks, Surroundings, Snapshot
<1>2. \A x : (Live(w2, x) <=> Live(w, x)) /\ (Rebuilt(w2, x) <=> Rebuilt(w, x))
  BY <1>1 DEF Live, Rebuilt
<1>3. \A x \in {s, o} : x.generation # 0 =>
        x.updated \in Nat /\ x.updated <= w.vn.updated /\ x.last \in Int
  BY <1>1 DEF Panel, Order, Figures
<1>4. Numbers(w2, s, o, D, p)
  BY <1>1, <1>2 DEF Panel, Numbers
<1>5. Order(w2, s, o, D, p)
  <2>1. \A x \in {s, o} : x.generation # 0 =>
          /\ x.created \in Nat /\ x.created <= x.updated /\ x.created <= x.source
          /\ x.updated <= w2.vn.updated
          /\ Rebuilt(w2, x) => x.source <= w2.vn.created
    <3> SUFFICES ASSUME NEW x \in {s, o}, x.generation # 0
                 PROVE  /\ x.created \in Nat /\ x.created <= x.updated /\ x.created <= x.source
                        /\ x.updated <= w2.vn.updated
                        /\ Rebuilt(w2, x) => x.source <= w2.vn.created
      OBVIOUS
    <3>1. x.updated <= w2.vn.updated
      BY <1>1, <1>3
    <3> QED
      BY <1>1, <1>2, <3>1 DEF Panel, Order
  <2> QED
    BY <1>1, <2>1 DEF Panel, Order
<1>6. \A x \in {s, o} : Figures(w2, x)
  <2> SUFFICES ASSUME NEW x \in {s, o} PROVE Figures(w2, x)
    OBVIOUS
  <2>1. Figures(w, x) /\ (x.generation # 0 => x.period < w.now /\ x.updated <= w.vn.updated)
    BY <1>3 DEF Panel
  <2> QED
    BY <2>1, LooksFigures
<1>7. \A x \in {s, o} : Ahead(w2, x)
  <2> SUFFICES ASSUME NEW x \in {s, o}, Live(w2, x)
               PROVE  /\ w2.vn.total - x.last <= w2.seen[w2.vn.updated] - w2.seen[x.updated]
                      /\ ~w2.astray => w2.vn.total - x.last = w2.seen[w2.vn.updated] - w2.seen[x.updated]
    BY DEF Ahead
  <2>1. Live(w, x) /\ x.generation # 0 /\ Ahead(w, x)
    BY <1>2 DEF Panel, Live
  <2>2. x.updated \in Nat /\ x.updated < w.now /\ x.last \in Int
    BY <1>1, <1>3, <2>1
  <2>3. w2.seen[x.updated] = w.seen[x.updated] /\ w2.seen[w2.vn.updated] = w.seen[w.vn.updated] + n
    BY <1>1, <2>2 DEF Looks
  <2>4. w.seen[x.updated] \in Nat /\ w.seen[w.vn.updated] \in Nat
    BY <1>1, <2>2 DEF Surroundings, Grows
  <2>5. /\ w.vn.total - x.last <= w.seen[w.vn.updated] - w.seen[x.updated]
        /\ ~w.astray => w.vn.total - x.last = w.seen[w.vn.updated] - w.seen[x.updated]
    BY <2>1 DEF Ahead
  <2> QED
    BY <1>1, <2>2, <2>3, <2>4, <2>5
<1>8. Saves(w2, s, D, p) /\ Saves(w2, o, D, p)
  <2>1. Saves(w, s, D, p) /\ Saves(w, o, D, p)
    BY DEF Panel
  <2> QED
    BY <2>1, LooksSaves
<1>9. Continues(w2, s, D, p)
  BY LooksContinues
<1>10. RecordTypes(o, D, p)
  BY DEF Panel
<1> QED
  BY <1>4, <1>5, <1>6, <1>7, <1>8, <1>9, <1>10 DEF Panel

-----------------------------------------------------------------------------
(* vnStat's database is lost, or another one is asked for. *)

LEMMA PanelApart ==
  ASSUME NEW w, NEW w2, Surroundings(w), Surroundings(w2),
         w2.seen = w.seen, w2.astray = w.astray, w.now <= w2.now, w.noted \subseteq w2.noted,
         w.events + 1 <= w2.events, w.vn.updated <= w2.vn.updated,
         NEW s, NEW o, NEW D, NEW p, Panel(w, s, o, D, p),
         \A x \in {s, o} : /\ ~Live(w2, x)
                           /\ Rebuilt(w2, x) => Counts(w2, w2.vn) /\ x.source <= w2.vn.created
  PROVE  Panel(w2, s, o, D, p)
<1>1. /\ w.now \in Nat /\ w2.now \in Nat /\ w.events \in Nat /\ w2.events \in Nat
      /\ w.vn.updated \in Nat /\ w2.vn.updated \in Nat
      /\ w.seen[w2.vn.updated] = w.seen[w.vn.updated]
      /\ \A t \in w.noted : t \in Nat
  BY DEF Surroundings, Snapshot
<1>2. \A x : Counts(w2, x) <=> Counts(w, x)
  BY CountsSame
<1>3. Numbers(w2, s, o, D, p)
  <2>1. \A x \in {s, o} : x.generation \in Nat /\ x.generation <= w.events + 1
    BY DEF Panel, Numbers
  <2>2. \A x \in {s, o} : x.generation <= w2.events + 1 /\ x.generation <= w2.events
    BY <1>1, <2>1
  <2> QED
    BY <2>2 DEF Panel, Numbers
<1>4. Order(w2, s, o, D, p)
  <2>1. s.source \in Nat /\ s.source <= w2.now
    BY <1>1 DEF Panel, Order
  <2>2. \A x \in {s, o} : x.generation # 0 =>
          /\ x.created \in Nat /\ x.created <= x.updated /\ x.created <= x.source
          /\ x.updated <= w2.vn.updated
          /\ Rebuilt(w2, x) => x.source <= w2.vn.created
    <3> SUFFICES ASSUME NEW x \in {s, o}, x.generation # 0
                 PROVE  /\ x.created \in Nat /\ x.created <= x.updated /\ x.created <= x.source
                        /\ x.updated <= w2.vn.updated
      OBVIOUS
    <3>1. x.updated \in Nat /\ x.updated <= w.vn.updated
      BY <1>1 DEF Panel, Order, Figures
    <3>2. x.updated <= w2.vn.updated
      BY <1>1, <3>1
    <3> QED
      BY <3>2 DEF Panel, Order
  <2> QED
    BY <2>1, <2>2 DEF Panel, Order
<1>5. Figures(w2, s) /\ Figures(w2, o)
  BY <1>1, FiguresSame DEF Panel
<1>6. Ahead(w2, s) /\ Ahead(w2, o) /\ Continues(w2, s, D, p)
  BY DEF Ahead, Continues
<1>7. Saves(w2, s, D, p) /\ Saves(w2, o, D, p)
  BY <1>2 DEF Panel, Saves
<1> QED
  BY <1>3, <1>4, <1>5, <1>6, <1>7 DEF Panel

-----------------------------------------------------------------------------
(* vnStat is set back or prunes a bucket. *)

\* The buckets of the present source that are saved, and what is cut off them.
LEMMA SavedCurrent ==
  ASSUME NEW w, NEW s, NEW o, NEW D, NEW p, Surroundings(w), Panel(w, s, o, D, p),
         s.generation \in DOMAIN D
  PROVE  LET g == s.generation
         IN  /\ g # 0 /\ o.generation = g
             /\ Row(D, g).created = s.source /\ Row(D, g).updated = D[g].updated
             /\ D[g].updated \in Nat /\ D[g].updated <= s.updated /\ s.updated \in Nat
             /\ s.updated <= w.vn.updated
             /\ \A b : \A n : Cut(n, b, Cuts(s, D, p)) = Cut(n, b, D[g].prefix)
             /\ Cuts(s, D, p) = Overlay(NoRows, D[g].prefix)
<1> DEFINE g == s.generation
<1>1. RecordTypes(o, D, p) /\ Numbers(w, s, o, D, p) /\ Order(w, s, o, D, p)
  BY DEF Panel
<1>2. g \in Nat /\ o.generation \in Nat /\ o.generation <= g /\ g \in 1..o.generation
  BY <1>1 DEF RecordTypes, Numbers
<1>3. g # 0 /\ o.generation = g
  BY <1>2
<1>4. /\ D[g].available = s.source /\ D[g].created = s.created /\ s.created \in Nat
      /\ s.created <= s.source /\ s.source \in Nat
  BY <1>1, <1>3 DEF Order
<1>5. D[g].updated \in Nat /\ D[g].updated <= o.updated /\ o.updated <= s.updated
  BY <1>1, <1>3 DEF Order, RecordTypes
<1>6. \A x \in {s, o} : x.generation # 0 => x.updated \in Nat /\ x.updated <= w.vn.updated
  <2>1. \A t \in w.noted : t \in Nat
    BY DEF Surroundings
  <2> QED
    BY <2>1 DEF Panel, Figures, Order
<1>7. s.updated \in Nat /\ o.updated \in Nat /\ s.updated <= w.vn.updated
  BY <1>3, <1>6
<1>8. Row(D, g).created = Later(D[g].created, D[g].available) /\ Row(D, g).updated = D[g].updated
  BY <1>1, RowIs
<1>9. Row(D, g).created = s.source
  BY <1>4, <1>8 DEF Later
<1>10. Cuts(s, D, p) = Overlay(NoRows, D[g].prefix)
  <2>1. PrefixOf(D, g) = D[g].prefix
    BY DEF PrefixOf
  <2>2. p.generation = g => p.prefix = NoRows
    BY <1>1, <1>3 DEF Order
  <2> QED
    BY <2>1, <2>2 DEF Cuts
<1>11. \A b : \A n : Cut(n, b, Cuts(s, D, p)) = Cut(n, b, D[g].prefix)
  <2> DEFINE d == D[g].prefix
             c == Overlay(NoRows, d)
  <2> HIDE DEF d
  <2>1. DOMAIN c = DOMAIN d /\ \A b \in DOMAIN d : c[b] = d[b]
    BY NothingOverlaid DEF Overlay
  <2> HIDE DEF c
  <2>2. \A b : \A n : Cut(n, b, c) = Cut(n, b, d)
    BY <2>1 DEF Cut
  <2> QED
    BY <1>10, <2>2 DEF c, d
<1> QED
  BY <1>3, <1>5, <1>7, <1>8, <1>9, <1>10, <1>11

LEMMA CutGrows ==
  ASSUME NEW m \in Nat, NEW n \in Nat, m <= n, NEW b, NEW cuts, RowsTyped(cuts)
  PROVE  Cut(m, b, cuts) <= Cut(n, b, cuts)
<1>1. b \in DOMAIN cuts => cuts[b] \in Nat
  BY DEF RowsTyped
<1> QED
  BY <1>1 DEF Cut, Later

\* A bucket with no more in it, of a source that has gone on.
LEMMA BucketBelow ==
  ASSUME NEW w, Grows(w.seen), NEW x, x.created \in Nat, x.updated \in Nat,
         NEW y, y.created = x.created, y.updated \in Nat, x.updated <= y.updated,
         RowsTyped(x.rows), Counts(w, x), NEW b \in DOMAIN x.rows, x.created < b + Width,
         NEW n \in Nat, n <= x.rows[b]
  PROVE  n <= Between(w, Opens(y, b), Closes(y, b))
<1>1. b \in Nat /\ x.rows[b] \in Nat
  BY SlotsAre DEF RowsTyped
<1>2. Opens(y, b) = Opens(x, b) /\ Opens(x, b) \in Nat
  BY <1>1, OpensIs DEF Opens
<1>3. Closes(x, b) \in Nat /\ Closes(y, b) \in Nat /\ Closes(x, b) <= Closes(y, b)
  BY <1>1 DEF Closes, Earlier, Width
<1>4. x.rows[b] <= Between(w, Opens(x, b), Closes(x, b))
  BY DEF Counts
<1>5. /\ Between(w, Opens(x, b), Closes(x, b)) \in Nat /\ Between(w, Opens(x, b), Closes(y, b)) \in Nat
      /\ Between(w, Opens(x, b), Closes(x, b)) <= Between(w, Opens(x, b), Closes(y, b))
  <2> DEFINE a == Opens(x, b)
             c == Closes(x, b)
             d == Closes(y, b)
  <2>1. a \in Nat /\ c \in Nat /\ d \in Nat /\ c <= d /\ a <= a
    BY <1>2, <1>3
  <2> HIDE DEF a, c, d
  <2>2. Between(w, a, c) \in Nat /\ Between(w, a, d) \in Nat /\ Between(w, a, c) <= Between(w, a, d)
    BY <2>1, BetweenIs, BetweenGrows
  <2> QED
    BY <2>2 DEF a, c, d
<1> QED
  BY <1>1, <1>2, <1>4, <1>5

\* Nothing counted where less is left.
Worse(w, w2) ==
  /\ w2.seen = w.seen /\ w2.astray /\ w2.iface = w.iface /\ w2.now = w.now
  /\ w.events <= w2.events /\ w.noted \subseteq w2.noted
  /\ w2.vn.created = w.vn.created /\ w2.vn.updated = w.vn.updated /\ w2.vn.total <= w.vn.total
  /\ DOMAIN w2.vn.rows \subseteq DOMAIN w.vn.rows
  /\ \A b \in DOMAIN w2.vn.rows : w2.vn.rows[b] <= w.vn.rows[b]

LEMMA CountsWorse ==
  ASSUME NEW w, NEW w2, Worse(w, w2), NEW x, Counts(w, x) PROVE Counts(w2, x)
  BY DEF Worse, Counts, Between

LEMMA WorseContinues ==
  ASSUME NEW w, NEW w2, Surroundings(w), Surroundings(w2), Worse(w, w2),
         NEW s, NEW o, NEW D, NEW p, Panel(w, s, o, D, p)
  PROVE  Continues(w2, s, D, p)
<1> DEFINE v == w.vn
           v2 == w2.vn
           x == Current(w, s, D, p)
           y == Current(w2, s, D, p)
           old == RowsOf(D, s.generation)
           cuts == Cuts(s, D, p)
<1> SUFFICES ASSUME Live(w2, s) PROVE Counts(w2, y)
  BY DEF Continues, Worse
<1>1. /\ Snapshot(v) /\ Snapshot(v2) /\ Grows(w.seen) /\ v.updated \in Nat /\ v.created \in Nat
      /\ v2.created = v.created /\ v2.updated = v.updated /\ w2.astray /\ w2.seen = w.seen
      /\ DOMAIN v2.rows \subseteq DOMAIN v.rows
      /\ \A b \in DOMAIN v2.rows : v2.rows[b] <= v.rows[b]
      /\ RowsTyped(v.rows) /\ RowsTyped(v2.rows)
  BY DEF Surroundings, Worse, Snapshot
<1>2. RecordTypes(o, D, p) /\ Order(w, s, o, D, p) /\ Continues(w, s, D, p)
  BY DEF Panel
<1>3. Live(w, s) /\ s.generation # 0 /\ s.created = v.created
  BY DEF Live, Worse
<1>4. s.source \in Nat /\ v.created <= s.source /\ v2.created <= s.source
  BY <1>1, <1>2, <1>3 DEF Order
<1>5. /\ x.created = s.source /\ x.updated = v.updated
      /\ DOMAIN x.rows = DOMAIN old \cup DOMAIN v.rows
      /\ \A b \in DOMAIN v.rows : x.rows[b] = Cut(v.rows[b], b, cuts)
      /\ RowsTyped(x.rows)
  BY <1>1, <1>2, <1>3, <1>4, CurrentIs
<1>6. /\ y.created = s.source /\ y.updated = v.updated
      /\ DOMAIN y.rows = DOMAIN old \cup DOMAIN v2.rows
      /\ \A b \in DOMAIN v2.rows : y.rows[b] = Cut(v2.rows[b], b, cuts)
      /\ \A b \in DOMAIN old \ DOMAIN v2.rows : y.rows[b] = Cut(old[b], b, cuts)
      /\ RowsTyped(y.rows)
  BY <1>1, <1>2, <1>3, <1>4, CurrentIs
<1>7. RowsTyped(cuts)
  BY <1>2, <1>3, CutsTyped
<1>8. Counts(w, x)
  BY <1>2, <1>3 DEF Continues
<1>9. ASSUME NEW b \in DOMAIN y.rows, y.created < b + Width
      PROVE  y.rows[b] <= Between(w, Opens(y, b), Closes(y, b))
  <2>1. y.rows[b] \in Nat
    BY <1>6 DEF RowsTyped
  <2>2. CASE b \in DOMAIN v2.rows
    <3>1. v2.rows[b] \in Nat /\ v.rows[b] \in Nat /\ v2.rows[b] <= v.rows[b] /\ b \in DOMAIN v.rows
      BY <1>1, <2>2 DEF RowsTyped
    <3>2. y.rows[b] <= x.rows[b] /\ b \in DOMAIN x.rows
      <4>1. Cut(v2.rows[b], b, cuts) <= Cut(v.rows[b], b, cuts)
        BY <1>7, <3>1, CutGrows
      <4> QED
        BY <1>5, <1>6, <2>2, <3>1, <4>1
    <3> HIDE DEF x, y
    <3>3. /\ x.created \in Nat /\ x.updated \in Nat /\ y.created = x.created /\ y.updated \in Nat
          /\ x.updated <= y.updated /\ x.created < b + Width
      BY <1>1, <1>4, <1>5, <1>6, <1>9
    <3> QED
      BY <1>1, <1>5, <1>8, <2>1, <3>2, <3>3, BucketBelow
  <2>3. CASE b \notin DOMAIN v2.rows
    <3> DEFINE g == s.generation
               z == Row(D, g)
    <3>1. b \in DOMAIN old /\ y.rows[b] = Cut(old[b], b, cuts)
      BY <1>6, <2>3
    <3>2. g \in DOMAIN D /\ old = D[g].rows
      BY <3>1, NothingOverlaid DEF RowsOf
    <3>3. /\ z.created = s.source /\ z.updated \in Nat /\ z.updated <= v.updated
          /\ \A n : Cut(n, b, cuts) = Cut(n, b, D[g].prefix)
      <4>1. /\ z.created = s.source /\ z.updated = D[g].updated /\ D[g].updated \in Nat
            /\ D[g].updated <= s.updated /\ s.updated \in Nat /\ s.updated <= v.updated
            /\ \A n : Cut(n, b, cuts) = Cut(n, b, D[g].prefix)
        BY <3>2, SavedCurrent
      <4> QED
        BY <1>1, <4>1
    <3>4. z.rows[b] = Cut(old[b], b, D[g].prefix) /\ b \in DOMAIN z.rows /\ RowsTyped(z.rows)
      BY <1>2, <3>1, <3>2, RowIs
    <3>5. Counts(w, z)
      BY <3>2 DEF Panel, Saves
    <3>6. y.rows[b] = z.rows[b]
      BY <3>1, <3>3, <3>4
    <3> HIDE DEF z, y
    <3>7. z.rows[b] \in Nat /\ y.rows[b] <= z.rows[b]
      BY <2>1, <3>6
    <3>8. /\ z.created \in Nat /\ y.created = z.created /\ y.updated \in Nat
          /\ z.updated <= y.updated /\ z.created < b + Width
      BY <1>1, <1>4, <1>6, <1>9, <3>3
    <3> QED
      BY <1>1, <2>1, <3>3, <3>4, <3>5, <3>7, <3>8, BucketBelow
  <2> QED
    BY <2>2, <2>3
<1>10. \A a, c : Between(w2, a, c) = Between(w, a, c)
  BY <1>1 DEF Between
<1> QED
  BY <1>1, <1>9, <1>10 DEF Counts

LEMMA PanelWorse ==
  ASSUME NEW w, NEW w2, Surroundings(w), Surroundings(w2), Worse(w, w2),
         NEW s, NEW o, NEW D, NEW p, Panel(w, s, o, D, p)
  PROVE  Panel(w2, s, o, D, p)
<1>1. /\ w2.seen = w.seen /\ w2.astray /\ w2.iface = w.iface /\ w2.now = w.now
      /\ w.events <= w2.events /\ w.noted \subseteq w2.noted
      /\ w2.vn.created = w.vn.created /\ w2.vn.updated = w.vn.updated
      /\ w2.vn.total <= w.vn.total /\ w2.vn.total \in Int /\ w.vn.total \in Int
      /\ w.events \in Nat /\ w2.events \in Nat
      /\ Grows(w.seen) /\ w.vn.updated \in Nat
      /\ \A t \in w.noted : t \in Nat
  BY DEF Worse, Surroundings, Snapshot
<1>2. \A x : (Live(w2, x) <=> Live(w, x)) /\ (Rebuilt(w2, x) <=> Rebuilt(w, x))
  BY <1>1 DEF Live, Rebuilt
<1>3. Numbers(w2, s, o, D, p)
  <2>1. s.generation \in Nat /\ o.generation \in Nat
    BY DEF Panel, Numbers
  <2>2. \A x \in {s, o} : /\ x.generation \in Nat /\ x.generation <= w.events + 1
                          /\ x.generation # 0 /\ ~Live(w, x) => x.generation <= w.events
    BY <2>1 DEF Panel, Numbers
  <2>3. \A x \in {s, o} : /\ x.generation <= w2.events + 1
                          /\ x.generation # 0 /\ ~Live(w2, x) => x.generation <= w2.events
    BY <1>1, <1>2, <2>2
  <2> QED
    BY <1>2, <2>3 DEF Panel, Numbers
<1>4. Order(w2, s, o, D, p)
  BY <1>1, <1>2 DEF Panel, Order
<1>5. Figures(w2, s) /\ Figures(w2, o)
  BY <1>1, FiguresSame DEF Panel
<1>6. \A x \in {s, o} : Ahead(w2, x)
  <2> SUFFICES ASSUME NEW x \in {s, o}, Live(w2, x)
               PROVE  w2.vn.total - x.last <= w2.seen[w2.vn.updated] - w2.seen[x.updated]
    BY <1>1 DEF Ahead
  <2>1. Live(w, x) /\ x.generation # 0 /\ Ahead(w, x) /\ Figures(w, x)
    BY <1>2 DEF Panel, Live
  <2>2. w.vn.total - x.last <= w.seen[w.vn.updated] - w.seen[x.updated]
    BY <2>1 DEF Ahead
  <2>3. x.last \in Int /\ x.updated \in Nat
    BY <1>1, <2>1 DEF Figures
  <2>4. w.seen[w.vn.updated] \in Nat /\ w.seen[x.updated] \in Nat
    BY <1>1, <2>3 DEF Grows
  <2> QED
    BY <1>1, <2>2, <2>3, <2>4
<1>7. \A x \in {s, o} : Saves(w2, x, D, p)
  <2> SUFFICES ASSUME NEW x \in {s, o}, Rebuilt(w2, x) PROVE Counts(w2, w2.vn)
    BY CountsWorse DEF Panel, Saves
  <2>1. Counts(w, w.vn)
    BY <1>2 DEF Panel, Saves
  <2>2. /\ RowsTyped(w.vn.rows) /\ RowsTyped(w2.vn.rows) /\ w.vn.created \in Nat
        /\ DOMAIN w2.vn.rows \subseteq DOMAIN w.vn.rows
        /\ \A b \in DOMAIN w2.vn.rows : w2.vn.rows[b] <= w.vn.rows[b]
    BY DEF Worse, Surroundings, Snapshot
  <2>3. ASSUME NEW b \in DOMAIN w2.vn.rows, w2.vn.created < b + Width
        PROVE  w2.vn.rows[b] <= Between(w, Opens(w2.vn, b), Closes(w2.vn, b))
    <3> DEFINE x1 == w.vn
               y1 == w2.vn
               n == y1.rows[b]
    <3>1. /\ x1.created \in Nat /\ x1.updated \in Nat /\ y1.created = x1.created
          /\ y1.updated \in Nat /\ x1.updated <= y1.updated /\ RowsTyped(x1.rows)
          /\ Counts(w, x1) /\ b \in DOMAIN x1.rows /\ x1.created < b + Width
          /\ n \in Nat /\ n <= x1.rows[b]
      BY <1>1, <2>1, <2>2, <2>3 DEF RowsTyped
    <3> HIDE DEF x1, y1, n
    <3>2. n <= Between(w, Opens(y1, b), Closes(y1, b))
      BY <1>1, <3>1, BucketBelow
    <3> QED
      BY <3>2 DEF x1, y1, n
  <2>4. \A a, c : Between(w2, a, c) = Between(w, a, c)
    BY <1>1 DEF Between
  <2> QED
    BY <1>1, <2>3, <2>4 DEF Counts
<1>8. Continues(w2, s, D, p) /\ RecordTypes(o, D, p)
  BY WorseContinues DEF Panel
<1> QED
  BY <1>3, <1>4, <1>5, <1>6, <1>7, <1>8 DEF Panel

\* A bucket passes the retention that nobody had taken half full.
Pruned(w, w2, a) ==
  /\ w2.seen = w.seen /\ w2.astray = w.astray /\ w2.iface = w.iface /\ w2.now = w.now
  /\ w.events <= w2.events /\ w.noted \subseteq w2.noted
  /\ w2.vn.created = w.vn.created /\ w2.vn.updated = w.vn.updated /\ w2.vn.total = w.vn.total
  /\ a \in DOMAIN w.vn.rows /\ a # Slot(w.vn.updated)
  /\ DOMAIN w2.vn.rows = DOMAIN w.vn.rows \ {a}
  /\ \A b \in DOMAIN w2.vn.rows : w2.vn.rows[b] = w.vn.rows[b]

LEMMA CountsPart ==
  ASSUME NEW w, NEW w2, w2.seen = w.seen, w2.astray = w.astray, NEW x, Counts(w, x),
         NEW y, y.created = x.created, y.updated = x.updated, DOMAIN y.rows \subseteq DOMAIN x.rows,
         \A b \in DOMAIN y.rows : y.rows[b] = x.rows[b]
  PROVE  Counts(w2, y)
  BY DEF Counts, Between, Opens, Closes

LEMMA PrunedContinues ==
  ASSUME NEW w, NEW w2, Surroundings(w), Surroundings(w2), NEW a, Pruned(w, w2, a),
         NEW s, NEW o, NEW D, NEW p, Panel(w, s, o, D, p), ~w.astray,
         \A taken \in Taken(s, D, p) : a \in DOMAIN taken => taken[a] = w.vn.rows[a]
  PROVE  Continues(w2, s, D, p)
<1> DEFINE v == w.vn
           v2 == w2.vn
           x == Current(w, s, D, p)
           y == Current(w2, s, D, p)
           old == RowsOf(D, s.generation)
           cuts == Cuts(s, D, p)
<1> SUFFICES ASSUME Live(w2, s)
             PROVE  /\ Counts(w2, y)
                    /\ \A b \in DOMAIN cuts : \/ b \in DOMAIN v2.rows /\ cuts[b] <= v2.rows[b]
                                              \/ b + 4 <= v2.updated
                    /\ \A taken \in Taken(s, D, p) : \A b \in DOMAIN taken \ DOMAIN v2.rows :
                         /\ b + 4 <= v2.updated
                         /\ s.source < b + 4 =>
                              Cut(taken[b], b, cuts) = Between(w2, Later(b, s.source), b + 4)
  BY DEF Continues
<1>1. /\ Snapshot(v) /\ Snapshot(v2) /\ Grows(w.seen) /\ v.updated \in Nat /\ v.created \in Nat
      /\ v2.created = v.created /\ v2.updated = v.updated /\ w2.astray = w.astray /\ w2.seen = w.seen
      /\ DOMAIN v2.rows = DOMAIN v.rows \ {a} /\ a \in DOMAIN v.rows /\ a # Slot(v.updated)
      /\ \A b \in DOMAIN v2.rows : v2.rows[b] = v.rows[b]
      /\ RowsTyped(v.rows) /\ \A b \in DOMAIN v.rows : b <= v.updated
  BY DEF Surroundings, Pruned, Snapshot
<1>2. RecordTypes(o, D, p) /\ Order(w, s, o, D, p) /\ Continues(w, s, D, p)
  BY DEF Panel
<1>3. Live(w, s) /\ s.generation # 0 /\ s.created = v.created
  BY DEF Live, Pruned
<1>4. s.source \in Nat /\ v.created <= s.source /\ v2.created <= s.source
  BY <1>1, <1>2, <1>3 DEF Order
<1>5. /\ x.created = s.source /\ x.updated = v.updated
      /\ DOMAIN x.rows = DOMAIN old \cup DOMAIN v.rows
      /\ \A b \in DOMAIN v.rows : x.rows[b] = Cut(v.rows[b], b, cuts)
      /\ \A b \in DOMAIN old \ DOMAIN v.rows : x.rows[b] = Cut(old[b], b, cuts)
  BY <1>1, <1>2, <1>3, <1>4, CurrentIs
<1>6. /\ y.created = s.source /\ y.updated = v.updated
      /\ DOMAIN y.rows = DOMAIN old \cup DOMAIN v2.rows
      /\ \A b \in DOMAIN v2.rows : y.rows[b] = Cut(v2.rows[b], b, cuts)
      /\ \A b \in DOMAIN old \ DOMAIN v2.rows : y.rows[b] = Cut(old[b], b, cuts)
  BY <1>1, <1>2, <1>3, <1>4, CurrentIs
<1>7. Counts(w, x)
  BY <1>2, <1>3 DEF Continues
<1>8. /\ \A b \in DOMAIN cuts : (b \in DOMAIN v.rows /\ cuts[b] <= v.rows[b]) \/ b + 4 <= v.updated
      /\ \A taken \in Taken(s, D, p) : \A b \in DOMAIN taken \ DOMAIN v.rows :
           /\ b + 4 <= v.updated
           /\ s.source < b + 4 => Cut(taken[b], b, cuts) = Between(w, Later(b, s.source), b + 4)
  BY <1>2, <1>3 DEF Continues
<1>9. a \in Nat /\ a % 4 = 0 /\ a + 4 <= v.updated
  <2>1. a \in Nat /\ a % 4 = 0 /\ a <= v.updated
    BY <1>1, SlotsAre DEF RowsTyped
  <2>2. ~(v.updated < a + 4)
    BY <1>1, <2>1, SlotIsThe
  <2> QED
    BY <1>1, <2>1, <2>2
<1>10. old \in Taken(s, D, p)
  BY DEF Taken
<1> HIDE DEF v, v2, x, y, old, cuts
<1>11. \A b \in DOMAIN y.rows : b \in DOMAIN x.rows /\ y.rows[b] = x.rows[b]
  <2> SUFFICES ASSUME NEW b \in DOMAIN y.rows PROVE b \in DOMAIN x.rows /\ y.rows[b] = x.rows[b]
    OBVIOUS
  <2>1. CASE b \in DOMAIN v2.rows
    BY <1>1, <1>5, <1>6, <2>1
  <2>2. CASE b \notin DOMAIN v2.rows
    <3>1. b \in DOMAIN old /\ y.rows[b] = Cut(old[b], b, cuts)
      BY <1>6, <2>2
    <3>2. CASE b = a
      <4>1. old[a] = v.rows[a]
        BY <1>10, <3>1, <3>2 DEF v
      <4> QED
        BY <1>1, <1>5, <3>1, <3>2, <4>1
    <3>3. CASE b # a
      BY <1>1, <1>5, <2>2, <3>1, <3>3
    <3> QED
      BY <3>2, <3>3
  <2> QED
    BY <2>1, <2>2
<1>12. Counts(w2, y)
  BY <1>1, <1>5, <1>6, <1>7, <1>11, CountsPart
<1>13. \A b \in DOMAIN cuts : (b \in DOMAIN v2.rows /\ cuts[b] <= v2.rows[b]) \/ b + 4 <= v2.updated
  BY <1>1, <1>8, <1>9
<1>14. ASSUME NEW taken \in Taken(s, D, p), NEW b \in DOMAIN taken \ DOMAIN v2.rows
       PROVE  /\ b + 4 <= v2.updated
              /\ s.source < b + 4 =>
                   Cut(taken[b], b, cuts) = Between(w2, Later(b, s.source), b + 4)
  <2>1. CASE b = a
    <3>1. taken[b] = v.rows[b] /\ b \in DOMAIN v.rows
      BY <1>1, <1>14, <2>1 DEF v
    <3>2. ASSUME s.source < b + 4
          PROVE  Cut(taken[b], b, cuts) = Between(w, Later(b, s.source), b + 4)
      <4>1. x.rows[b] = Cut(taken[b], b, cuts) /\ b \in DOMAIN x.rows
        BY <1>5, <3>1
      <4>2. x.rows[b] = Between(w, Opens(x, b), Closes(x, b))
        BY <1>5, <1>7, <3>2, <4>1 DEF Counts, Width
      <4>3. Opens(x, b) = Later(b, s.source)
        BY <1>5 DEF Opens
      <4>4. Closes(x, b) = b + 4
        BY <1>1, <1>5, <1>9, <2>1 DEF Closes, Earlier, Width
      <4> QED
        BY <4>1, <4>2, <4>3, <4>4
    <3> QED
      BY <1>1, <1>9, <2>1, <3>2 DEF Between
  <2>2. CASE b # a
    <3>1. b \notin DOMAIN v.rows
      BY <1>1, <2>2
    <3> QED
      BY <1>1, <1>8, <3>1 DEF Between
  <2> QED
    BY <2>1, <2>2
<1> QED
  BY <1>12, <1>13, <1>14

LEMMA PanelPruned ==
  ASSUME NEW w, NEW w2, Surroundings(w), Surroundings(w2), NEW a, Pruned(w, w2, a),
         NEW s, NEW o, NEW D, NEW p, Panel(w, s, o, D, p), ~w.astray,
         \A taken \in Taken(s, D, p) : a \in DOMAIN taken => taken[a] = w.vn.rows[a]
  PROVE  Panel(w2, s, o, D, p)
<1>1. /\ w2.seen = w.seen /\ w2.astray = w.astray /\ w2.iface = w.iface /\ w2.now = w.now
      /\ w.events <= w2.events /\ w.noted \subseteq w2.noted
      /\ w2.vn.created = w.vn.created /\ w2.vn.updated = w.vn.updated
      /\ w2.vn.total = w.vn.total /\ w.events \in Nat /\ w2.events \in Nat
  BY DEF Pruned, Surroundings
<1>2. \A x : (Live(w2, x) <=> Live(w, x)) /\ (Rebuilt(w2, x) <=> Rebuilt(w, x))
  BY <1>1 DEF Live, Rebuilt
<1>3. Numbers(w2, s, o, D, p)
  <2>1. s.generation \in Nat /\ o.generation \in Nat
    BY DEF Panel, Numbers
  <2>2. \A x \in {s, o} : /\ x.generation \in Nat /\ x.generation <= w.events + 1
                          /\ x.generation # 0 /\ ~Live(w, x) => x.generation <= w.events
    BY <2>1 DEF Panel, Numbers
  <2>3. \A x \in {s, o} : /\ x.generation <= w2.events + 1
                          /\ x.generation # 0 /\ ~Live(w2, x) => x.generation <= w2.events
    BY <1>1, <1>2, <2>2
  <2> QED
    BY <1>2, <2>3 DEF Panel, Numbers
<1>4. Order(w2, s, o, D, p)
  BY <1>1, <1>2 DEF Panel, Order
<1>5. Figures(w2, s) /\ Figures(w2, o)
  BY <1>1, FiguresSame DEF Panel
<1>6. Ahead(w2, s) /\ Ahead(w2, o)
  BY <1>1, <1>2 DEF Panel, Ahead
<1>7. \A x : Counts(w2, x) <=> Counts(w, x)
  BY <1>1, CountsSame
<1>8. \A x \in {s, o} : Saves(w2, x, D, p)
  <2> SUFFICES ASSUME NEW x \in {s, o}, Rebuilt(w2, x) PROVE Counts(w2, w2.vn)
    BY <1>7 DEF Panel, Saves
  <2>1. Counts(w, w.vn)
    BY <1>2 DEF Panel, Saves
  <2>2. /\ DOMAIN w2.vn.rows \subseteq DOMAIN w.vn.rows
        /\ \A b \in DOMAIN w2.vn.rows : w2.vn.rows[b] = w.vn.rows[b]
    BY DEF Pruned
  <2> QED
    BY <1>1, <2>1, <2>2, CountsPart
<1>9. Continues(w2, s, D, p) /\ RecordTypes(o, D, p)
  BY PrunedContinues DEF Panel
<1> QED
  BY <1>3, <1>4, <1>5, <1>6, <1>8, <1>9 DEF Panel

-----------------------------------------------------------------------------
(* Samples of the core, saves, crashes, and the end of a manual reset. *)

\* What the figures say of a state is in these fields.
SameFigures(s, x) ==
  /\ x.generation = s.generation /\ x.origin = s.origin /\ x.created = s.created
  /\ x.updated = s.updated /\ x.last = s.last /\ x.rx = s.rx /\ x.carry = s.carry
  /\ x.baseline = s.baseline /\ x.manual = s.manual /\ x.partial = s.partial
  /\ x.reset = s.reset /\ x.period = s.period /\ x.next = s.next
  /\ x.recordedFrom = s.recordedFrom /\ x.source = s.source

\* The source of a state is in these.
SameSourceOf(s, x) ==
  /\ x.generation = s.generation /\ x.origin = s.origin /\ x.created = s.created
  /\ x.updated = s.updated /\ x.last = s.last /\ x.source = s.source

LEMMA PanelChanged ==
  ASSUME NEW w, NEW s, NEW o, NEW D, NEW p, Panel(w, s, o, D, p),
         NEW x, SameSourceOf(s, x), Figures(w, x)
  PROVE  Panel(w, x, o, D, p)
<1>1. /\ x.generation = s.generation /\ x.origin = s.origin /\ x.created = s.created
      /\ x.updated = s.updated /\ x.last = s.last /\ x.source = s.source
  BY DEF SameSourceOf
<1>2. (Live(w, x) <=> Live(w, s)) /\ (Rebuilt(w, x) <=> Rebuilt(w, s))
  BY <1>1 DEF Live, Rebuilt
<1>3. Numbers(w, x, o, D, p)
  BY <1>1, <1>2 DEF Panel, Numbers
<1>4. Order(w, x, o, D, p)
  <2>1. Order(w, s, o, D, p)
    BY DEF Panel
  <2>2. \A y \in {x, o} : y.generation # 0 =>
          /\ y.created \in Nat /\ y.created <= y.updated /\ y.created <= y.source
          /\ y.updated <= w.vn.updated
          /\ Rebuilt(w, y) => y.source <= w.vn.created
    BY <1>1, <1>2, <2>1 DEF Order
  <2> QED
    BY <1>1, <2>1, <2>2 DEF Order
<1>5. Ahead(w, x) /\ Saves(w, x, D, p)
  BY <1>1, <1>2 DEF Panel, Ahead, Saves
<1>6. Cuts(x, D, p) = Cuts(s, D, p) /\ Taken(x, D, p) = Taken(s, D, p)
  BY <1>1 DEF Cuts, Taken
<1>7. Current(w, x, D, p) = Current(w, s, D, p)
  BY <1>1, <1>6 DEF Current
<1>8. Continues(w, x, D, p)
  BY <1>1, <1>2, <1>6, <1>7 DEF Panel, Continues
<1> QED
  BY <1>3, <1>4, <1>5, <1>8 DEF Panel

LEMMA PanelSame ==
  ASSUME NEW w, NEW s, NEW o, NEW D, NEW p, Panel(w, s, o, D, p), NEW x, SameFigures(s, x)
  PROVE  Panel(w, x, o, D, p)
<1>1. Figures(w, x)
  BY DEF SameFigures, Figures, Panel
<1> QED
  BY <1>1, PanelChanged DEF SameFigures, SameSourceOf

\* A manual reset begins a period at vnStat's last save.
LEMMA PanelReset ==
  ASSUME NEW w, Surroundings(w), NEW s, NEW o, NEW D, NEW p, Panel(w, s, o, D, p),
         s.generation # 0, NEW x, SameSourceOf(s, x),
         x.manual = TRUE, x.baseline = s.last, x.carry = 0, x.rx = 0, x.partial = FALSE,
         x.period = s.updated, x.reset = s.reset, x.next = s.next, x.recordedFrom = s.recordedFrom
  PROVE  Panel(w, x, o, D, p)
<1>1. /\ x.generation = s.generation /\ x.updated = s.updated /\ x.last = s.last
  BY DEF SameSourceOf
<1>2. /\ s.last \in Int /\ {s.updated, s.recordedFrom} \subseteq w.noted
      /\ s.reset \in Schedules /\ s.next \in Nat
      /\ s.next # 0 => s.updated < s.next /\ s.next \in s.reset \cup {Beyond}
  BY DEF Panel, Figures
<1>3. s.updated \in Nat /\ Grows(w.seen) /\ w.vn.updated \in Nat
  BY <1>2 DEF Surroundings, Snapshot
<1>4. w.seen[w.vn.updated] \in Nat /\ Between(w, s.updated, s.updated) = 0
  <2> DEFINE u == s.updated
  <2>1. u \in Nat
    BY <1>3
  <2> HIDE DEF u
  <2>2. Between(w, u, u) = 0
    BY <1>3, <2>1, BetweenIs
  <2> QED
    BY <1>3, <2>2 DEF u, Grows
<1>5. x.rx = (x.carry + x.last) - x.baseline
  BY <1>1, <1>2
<1>6. Figures(w, x)
  BY <1>1, <1>2, <1>3, <1>4, <1>5 DEF Figures
<1> QED
  BY <1>6, PanelChanged

\* The panel dies before it saved.
LEMMA PanelLost ==
  ASSUME NEW w, Surroundings(w), NEW s, NEW o, NEW D, NEW p, Panel(w, s, o, D, p)
  PROVE  Panel(w, o, o, D, NoRecord)
<1>1. /\ RecordTypes(o, D, p) /\ Numbers(w, s, o, D, p) /\ Order(w, s, o, D, p)
      /\ Saves(w, o, D, p) /\ Continues(w, s, D, p)
  BY DEF Panel
<1>2. NoRecord.generation = 0
  BY DEF NoRecord
<1>3. RecordTypes(o, D, NoRecord)
  BY <1>1, <1>2 DEF RecordTypes
<1>4. o.generation \in Nat /\ s.generation \in Nat
  BY <1>1 DEF Numbers
<1>5. Numbers(w, o, o, D, NoRecord)
  BY <1>1, <1>2, <1>4 DEF Numbers
<1>6. Order(w, o, o, D, NoRecord)
  <2>1. o.source \in Nat /\ o.source <= w.now /\ (o.generation = 0 => o.source = 0)
    BY <1>1 DEF Order, Surroundings
  <2>2. ASSUME NEW g \in DOMAIN D, g # o.generation PROVE D[g].updated <= o.source
    <3>1. g \in Nat /\ g <= o.generation /\ o.generation # 0
      BY <1>1, <1>4, <2>2 DEF RecordTypes
    <3>2. o.generation \in DOMAIN D /\ g < o.generation
      BY <1>1, <1>4, <2>2, <3>1 DEF Numbers
    <3>3. D[g].updated <= D[o.generation].available /\ D[o.generation].available = o.source
      BY <1>1, <3>1, <3>2 DEF Order
    <3> QED
      BY <3>3
  <2>3. \A g \in DOMAIN D :
          /\ D[g].updated <= o.updated /\ D[g].available <= o.source
          /\ \A h \in DOMAIN D : g < h => D[g].updated <= D[h].available
    BY <1>1 DEF Order
  <2>4. o.generation # 0 =>
          /\ o.created \in Nat /\ o.created <= o.updated /\ o.created <= o.source
          /\ o.updated <= w.vn.updated
          /\ Rebuilt(w, o) => o.source <= w.vn.created
          /\ D[o.generation].available = o.source /\ D[o.generation].created = o.created
    BY <1>1 DEF Order
  <2>5. o.generation # 0 => o.updated <= o.updated
    BY DEF Panel, Figures, Surroundings
  <2> QED
    BY <1>2, <2>1, <2>2, <2>3, <2>4, <2>5 DEF Order
<1>7. Saves(w, o, D, NoRecord)
  BY <1>1, <1>2 DEF Saves
<1>8. Continues(w, o, D, NoRecord)
  <2> SUFFICES ASSUME Live(w, o) PROVE Continues(w, o, D, NoRecord)
    BY DEF Continues
  <2>1. o.generation = s.generation /\ o.generation # 0 /\ o.generation \in DOMAIN D
    BY <1>1 DEF Numbers, Live
  <2>2. o.source = s.source /\ o.created = s.created /\ o.origin = s.origin /\ Live(w, s)
    BY <1>1, <2>1 DEF Order, Live
  <2>3. p.generation = s.generation => p.prefix = NoRows
    BY <1>1, <2>1 DEF Order
  <2>4. Cuts(o, D, NoRecord) = Cuts(s, D, p)
    BY <1>2, <2>1, <2>3 DEF Cuts
  <2>5. Current(w, o, D, NoRecord) = Current(w, s, D, p)
    BY <2>1, <2>2, <2>4 DEF Current
  <2>6. Taken(o, D, NoRecord) \subseteq Taken(s, D, p)
    BY <1>2, <2>1 DEF Taken
  <2> QED
    BY <1>1, <2>2, <2>4, <2>5, <2>6 DEF Continues
<1> QED
  BY <1>3, <1>5, <1>6, <1>7, <1>8 DEF Panel

-----------------------------------------------------------------------------
(* A save. *)

\* What a save makes of the sources D.
SavedAs(D, p, D2) ==
  LET g == p.generation
  IN  /\ D2 = [h \in DOMAIN D2 |-> D2[h]] /\ DOMAIN D2 = DOMAIN D \cup {g}
      /\ \A h \in DOMAIN D2 :
           /\ DOMAIN D2[h] = {"created", "available", "ended", "updated", "rows", "prefix"}
           /\ D2[h].ended \in Nat
      /\ \A h \in DOMAIN D \ {g} :
           /\ D2[h].created = D[h].created /\ D2[h].available = D[h].available
           /\ D2[h].updated = D[h].updated /\ D2[h].rows = D[h].rows
           /\ D2[h].prefix = D[h].prefix
      /\ D2[g].created = IF g \in DOMAIN D THEN D[g].created ELSE p.snapshot.created
      /\ D2[g].available = IF g \in DOMAIN D THEN D[g].available ELSE p.available
      /\ D2[g].updated = p.snapshot.updated
      /\ D2[g].rows = Overlay(RowsOf(D, g), p.snapshot.rows)
      /\ D2[g].prefix = Overlay(p.prefix, PrefixOf(D, g))

LEMMA SaveIs ==
  ASSUME NEW o, NEW D, NEW p, RecordTypes(o, D, p), p.generation # 0
  PROVE  SavedAs(D, p, saveNetworks(D, p))
<1> DEFINE g == p.generation
           D2 == saveNetworks(D, p)
           close(s) == IF s.ended = 0 THEN [s EXCEPT !.ended = p.available] ELSE s
           new == [created |-> p.snapshot.created, available |-> p.available, ended |-> 0,
                   updated |-> 0, rows |-> NoRows, prefix |-> NoRows]
           row == IF g \in DOMAIN D THEN D[g] ELSE new
           saved == [row EXCEPT !.updated = p.snapshot.updated,
                                !.rows = Overlay(@, p.snapshot.rows),
                                !.prefix = Overlay(p.prefix, @)]
           names == {"created", "available", "ended", "updated", "rows", "prefix"}
<1>1. D2 = [h \in DOMAIN D \cup {g} |-> IF h # g THEN close(D[h]) ELSE saved]
  BY DEF saveNetworks
<1>2. /\ \A h \in DOMAIN D : DOMAIN D[h] = names /\ D[h].ended \in Nat
      /\ p.available \in Nat
  BY DEF RecordTypes
<1>3. ASSUME NEW x, DOMAIN x = names, x.ended \in Nat
      PROVE  /\ DOMAIN close(x) = names /\ close(x).ended \in Nat
             /\ close(x).created = x.created /\ close(x).available = x.available
             /\ close(x).updated = x.updated /\ close(x).rows = x.rows
             /\ close(x).prefix = x.prefix
  BY <1>2, <1>3
<1>4. /\ DOMAIN row = names /\ row.ended \in Nat
      /\ row.created = IF g \in DOMAIN D THEN D[g].created ELSE p.snapshot.created
      /\ row.available = IF g \in DOMAIN D THEN D[g].available ELSE p.available
      /\ row.rows = RowsOf(D, g) /\ row.prefix = PrefixOf(D, g)
  BY <1>2 DEF RowsOf, PrefixOf
<1> HIDE DEF row
<1>5. /\ DOMAIN saved = names /\ saved.ended \in Nat
      /\ saved.created = row.created /\ saved.available = row.available
      /\ saved.updated = p.snapshot.updated
      /\ saved.rows = Overlay(RowsOf(D, g), p.snapshot.rows)
      /\ saved.prefix = Overlay(p.prefix, PrefixOf(D, g))
  BY <1>4
<1> HIDE DEF saved, close, D2
<1>6. D2 = [h \in DOMAIN D2 |-> D2[h]] /\ DOMAIN D2 = DOMAIN D \cup {g}
  BY <1>1
<1>7. D2[g] = saved /\ \A h \in DOMAIN D \ {g} : D2[h] = close(D[h])
  BY <1>1
<1>8. \A h \in DOMAIN D2 : DOMAIN D2[h] = names /\ D2[h].ended \in Nat
  <2> SUFFICES ASSUME NEW h \in DOMAIN D2 PROVE DOMAIN D2[h] = names /\ D2[h].ended \in Nat
    OBVIOUS
  <2>1. CASE h = g
    BY <1>5, <1>7, <2>1
  <2>2. CASE h # g
    <3>1. h \in DOMAIN D \ {g}
      BY <1>6, <2>2
    <3> QED
      BY <1>2, <1>3, <1>7, <3>1
  <2> QED
    BY <2>1, <2>2
<1>9. \A h \in DOMAIN D \ {g} :
        /\ D2[h].created = D[h].created /\ D2[h].available = D[h].available
        /\ D2[h].updated = D[h].updated /\ D2[h].rows = D[h].rows
        /\ D2[h].prefix = D[h].prefix
  <2> SUFFICES ASSUME NEW h \in DOMAIN D \ {g}
               PROVE  /\ D2[h].created = D[h].created /\ D2[h].available = D[h].available
                      /\ D2[h].updated = D[h].updated /\ D2[h].rows = D[h].rows
                      /\ D2[h].prefix = D[h].prefix
    OBVIOUS
  <2> QED
    BY <1>2, <1>3, <1>7
<1>10. /\ D2[g].created = IF g \in DOMAIN D THEN D[g].created ELSE p.snapshot.created
       /\ D2[g].available = IF g \in DOMAIN D THEN D[g].available ELSE p.available
       /\ D2[g].updated = p.snapshot.updated
       /\ D2[g].rows = Overlay(RowsOf(D, g), p.snapshot.rows)
       /\ D2[g].prefix = Overlay(p.prefix, PrefixOf(D, g))
  BY <1>4, <1>5, <1>7
<1> QED
  BY <1>6, <1>8, <1>9, <1>10 DEF D2, SavedAs

LEMMA OverlaidOnNothing ==
  ASSUME NEW a, NEW b PROVE Overlay(NoRows, Overlay(a, b)) = Overlay(a, b)
<1> DEFINE c == Overlay(a, b)
<1>1. c = [x \in DOMAIN c |-> c[x]]
  BY DEF Overlay
<1> HIDE DEF c
<1>2. Overlay(NoRows, c) = c
  BY <1>1, NothingOverlaid DEF Overlay
<1> QED
  BY <1>2 DEF c

\* With nothing to be saved the checkpoint may take the state.
LEMMA PanelSettled ==
  ASSUME NEW w, Surroundings(w), NEW s, NEW o, NEW D, Panel(w, s, o, D, NoRecord)
  PROVE  Panel(w, s, s, D, NoRecord)
<1>0. NoRecord.generation = 0
  BY DEF NoRecord
<1>1. RecordTypes(o, D, NoRecord) /\ Numbers(w, s, o, D, NoRecord) /\ Order(w, s, o, D, NoRecord)
  BY DEF Panel
<1>2. o.generation \in Nat /\ s.generation \in Nat /\ o.generation <= s.generation
  BY <1>1 DEF Numbers
<1>3. s.generation = o.generation
  <2>1. s.generation # 0 => s.generation \in 1..o.generation
    BY <1>0, <1>1 DEF Numbers, RecordTypes
  <2> QED
    BY <1>2, <2>1
<1>4. RecordTypes(s, D, NoRecord)
  BY <1>1, <1>3 DEF RecordTypes
<1>5. Numbers(w, s, s, D, NoRecord)
  BY <1>1, <1>2, <1>3 DEF Numbers
<1>6. Order(w, s, s, D, NoRecord)
  <2>1. s.generation # 0 =>
          /\ s.updated \in Nat /\ o.updated \in Nat /\ o.updated <= s.updated
          /\ o.source = s.source /\ o.created = s.created
          /\ D[s.generation].available = s.source /\ D[s.generation].created = s.created
    BY <1>1, <1>3 DEF Panel, Figures, Surroundings, Order
  <2>2. s.source \in Nat /\ s.source <= w.now /\ (s.generation = 0 => s.source = 0)
    BY <1>1 DEF Order
  <2>3. ASSUME NEW g \in DOMAIN D
        PROVE  D[g].updated <= s.updated /\ D[g].available <= s.source
    <3>1. s.generation # 0
      BY <1>1, <1>2, <1>3 DEF RecordTypes
    <3>2. D[g].updated \in Nat /\ D[g].available \in Nat
      BY <1>1 DEF RecordTypes
    <3>3. D[g].updated <= o.updated /\ D[g].available <= o.source
      BY <1>1 DEF Order
    <3> QED
      BY <2>1, <3>1, <3>2, <3>3
  <2>4. \A g \in DOMAIN D :
          /\ g # s.generation => D[g].updated <= s.source
          /\ \A h \in DOMAIN D : g < h => D[g].updated <= D[h].available
    BY <1>1 DEF Order
  <2>5. s.generation # 0 =>
          /\ s.created \in Nat /\ s.created <= s.updated /\ s.created <= s.source
          /\ s.updated <= w.vn.updated
          /\ Rebuilt(w, s) => s.source <= w.vn.created
    BY <1>1 DEF Order
  <2> QED
    BY <1>0, <2>1, <2>2, <2>3, <2>4, <2>5 DEF Order
<1>7. Saves(w, s, D, NoRecord) /\ Continues(w, s, D, NoRecord)
  BY DEF Panel
<1> QED
  BY <1>4, <1>5, <1>6, <1>7 DEF Panel

LEMMA SavedOrder ==
  ASSUME NEW w, Surroundings(w), NEW s, NEW o, NEW D, NEW p, Panel(w, s, o, D, p),
         p.generation # 0
  PROVE  /\ p.generation = s.generation
         /\ RecordTypes(s, saveNetworks(D, p), NoRecord)
         /\ Numbers(w, s, s, saveNetworks(D, p), NoRecord)
         /\ Order(w, s, s, saveNetworks(D, p), NoRecord)
<1> DEFINE g == p.generation
           D2 == saveNetworks(D, p)
<1>0. NoRecord.generation = 0
  BY DEF NoRecord
<1>1. RecordTypes(o, D, p) /\ Numbers(w, s, o, D, p) /\ Order(w, s, o, D, p)
  BY DEF Panel
<1>2. /\ o.generation \in Nat /\ s.generation \in Nat /\ o.generation <= s.generation
      /\ g = s.generation /\ g # 0 /\ g \in Nat
  BY <1>1 DEF Numbers
<1>3. SavedAs(D, p, D2)
  BY <1>1, <1>2, SaveIs
<1> HIDE DEF D2
<1>4. /\ p.available = s.source /\ p.snapshot.created = s.created
      /\ p.snapshot.updated = s.updated
      /\ s.source \in Nat /\ s.source <= w.now /\ o.source \in Nat /\ o.source <= s.source
  BY <1>1 DEF Order
<1>5. /\ s.created \in Nat /\ s.created <= s.updated /\ s.created <= s.source
      /\ s.updated <= w.vn.updated /\ s.updated \in Nat
      /\ Rebuilt(w, s) => s.source <= w.vn.created
  BY <1>1, <1>2 DEF Order, Panel, Figures, Surroundings
<1>6. g \in DOMAIN D => o.generation = g /\ D[g].created = s.created /\ D[g].available = s.source
  <2>1. g \in DOMAIN D => g \in 1..o.generation
    BY <1>1 DEF RecordTypes
  <2> QED
    BY <1>1, <1>2, <2>1 DEF Order
<1>7. D2[g].created = s.created /\ D2[g].available = s.source /\ D2[g].updated = s.updated
  BY <1>3, <1>4, <1>6 DEF SavedAs
<1>8. RecordTypes(s, D2, NoRecord)
  <2>1. DOMAIN D2 \subseteq 1..s.generation
    BY <1>1, <1>2, <1>3 DEF RecordTypes, SavedAs
  <2>2. RowsTyped(D2[g].rows) /\ RowsTyped(D2[g].prefix)
    <3>1. /\ RowsTyped(RowsOf(D, g)) /\ RowsTyped(PrefixOf(D, g))
          /\ RowsTyped(p.snapshot.rows) /\ RowsTyped(p.prefix)
      BY <1>1, RowsOfIs DEF RecordTypes
    <3> QED
      BY <1>3, <3>1, RowsOverlaid DEF SavedAs
  <2>3. ASSUME NEW h \in DOMAIN D2
        PROVE  /\ DOMAIN D2[h] = {"created", "available", "ended", "updated", "rows", "prefix"}
               /\ {D2[h].created, D2[h].available, D2[h].updated, D2[h].ended} \subseteq Nat
               /\ RowsTyped(D2[h].rows) /\ RowsTyped(D2[h].prefix)
    <3>1. CASE h = g
      BY <1>3, <1>4, <1>5, <1>7, <2>2, <3>1 DEF SavedAs
    <3>2. CASE h # g
      <4>1. h \in DOMAIN D \ {g}
        BY <1>3, <3>2 DEF SavedAs
      <4>2. /\ {D[h].created, D[h].available, D[h].updated, D[h].ended} \subseteq Nat
            /\ RowsTyped(D[h].rows) /\ RowsTyped(D[h].prefix)
        BY <1>1, <4>1 DEF RecordTypes
      <4> QED
        BY <1>3, <4>1, <4>2 DEF SavedAs
    <3> QED
      BY <3>1, <3>2
  <2> QED
    BY <1>0, <1>3, <2>1, <2>3 DEF RecordTypes, SavedAs
<1>9. Numbers(w, s, s, D2, NoRecord)
  BY <1>0, <1>1, <1>2, <1>3 DEF Numbers, SavedAs
<1>10. ASSUME NEW h \in DOMAIN D2
       PROVE  /\ D2[h].updated <= s.updated /\ D2[h].available <= s.source
              /\ h # s.generation => D2[h].updated <= s.source
              /\ \A k \in DOMAIN D2 : h < k => D2[h].updated <= D2[k].available
  <2>1. CASE h = g
    <3>1. \A k \in DOMAIN D2 : ~(h < k)
      BY <1>1, <1>2, <1>3, <2>1 DEF RecordTypes, SavedAs
    <3> QED
      BY <1>2, <1>4, <1>5, <1>7, <2>1, <3>1
  <2>2. CASE h # g
    <3>1. h \in DOMAIN D \ {g} /\ D2[h].updated = D[h].updated /\ D2[h].available = D[h].available
      BY <1>3, <2>2 DEF SavedAs
    <3>2. D[h].updated \in Nat /\ D[h].available \in Nat /\ o.generation # 0
      BY <1>1, <1>2, <3>1 DEF RecordTypes
    <3>3. /\ D[h].updated <= o.updated /\ D[h].available <= o.source /\ o.updated <= s.updated
          /\ D[h].updated <= s.source
          /\ \A k \in DOMAIN D : h < k => D[h].updated <= D[k].available
      BY <1>1, <1>2, <2>2, <3>1, <3>2 DEF Order
    <3>4. o.updated \in Nat
      BY <3>2 DEF Panel, Figures, Surroundings
    <3>5. \A k \in DOMAIN D2 : h < k => D2[h].updated <= D2[k].available
      BY <1>3, <1>7, <3>1, <3>3 DEF SavedAs
    <3> QED
      BY <1>4, <1>5, <3>1, <3>2, <3>3, <3>4, <3>5
  <2> QED
    BY <2>1, <2>2
<1>11. Order(w, s, s, D2, NoRecord)
  BY <1>0, <1>2, <1>4, <1>5, <1>7, <1>10 DEF Order
<1> QED
  BY <1>2, <1>8, <1>9, <1>11 DEF D2

LEMMA SavedRow ==
  ASSUME NEW w, Surroundings(w), NEW s, NEW o, NEW D, NEW p, Panel(w, s, o, D, p),
         p.generation # 0
  PROVE  /\ Owed(D, p).created = s.source /\ Owed(D, p).updated = s.updated
         /\ RowsTyped(Owed(D, p).rows)
         /\ DOMAIN Owed(D, p).rows = DOMAIN RowsOf(D, s.generation) \cup DOMAIN p.snapshot.rows
         /\ \A b \in DOMAIN p.snapshot.rows :
              Owed(D, p).rows[b] = Cut(p.snapshot.rows[b], b, Cuts(s, D, p))
         /\ \A b \in DOMAIN RowsOf(D, s.generation) \ DOMAIN p.snapshot.rows :
              Owed(D, p).rows[b] = Cut(RowsOf(D, s.generation)[b], b, Cuts(s, D, p))
         /\ s.source \in Nat /\ s.created \in Nat /\ s.created <= s.source
         /\ s.updated \in Nat /\ s.updated <= w.vn.updated
<1>1. RecordTypes(o, D, p) /\ Numbers(w, s, o, D, p) /\ Order(w, s, o, D, p)
  BY DEF Panel
<1>2. p.generation = s.generation /\ s.generation # 0
  BY <1>1 DEF Numbers
<1>3. /\ p.available = s.source /\ p.snapshot.created = s.created
      /\ p.snapshot.updated = s.updated
      /\ s.source \in Nat /\ s.created \in Nat /\ s.created <= s.source
      /\ s.updated \in Nat /\ s.updated <= w.vn.updated
  BY <1>1, <1>2 DEF Order, Panel, Figures, Surroundings
<1>4. Cuts(s, D, p) = Overlay(p.prefix, PrefixOf(D, p.generation))
  BY <1>2 DEF Cuts
<1>5. /\ Owed(D, p).created = p.available /\ Owed(D, p).updated = p.snapshot.updated
      /\ DOMAIN Owed(D, p).rows = DOMAIN RowsOf(D, p.generation) \cup DOMAIN p.snapshot.rows
      /\ \A b \in DOMAIN p.snapshot.rows :
           Owed(D, p).rows[b] = Cut(p.snapshot.rows[b], b, Cuts(s, D, p))
      /\ \A b \in DOMAIN RowsOf(D, p.generation) \ DOMAIN p.snapshot.rows :
           Owed(D, p).rows[b] = Cut(RowsOf(D, p.generation)[b], b, Cuts(s, D, p))
      /\ RowsTyped(Owed(D, p).rows)
  BY <1>1, <1>2, <1>3, <1>4, OwedIs
<1> QED
  BY <1>2, <1>3, <1>5

LEMMA SavedSaves ==
  ASSUME NEW w, Surroundings(w), NEW s, NEW o, NEW D, NEW p, Panel(w, s, o, D, p),
         p.generation # 0, NEW D2, SavedAs(D, p, D2), Order(w, s, s, D2, NoRecord)
  PROVE  Saves(w, s, D2, NoRecord)
<1> DEFINE g == p.generation
<1>0. NoRecord.generation = 0
  BY DEF NoRecord
<1>1. Saves(w, s, D, p) /\ RecordTypes(o, D, p) /\ g = s.generation /\ Order(w, s, o, D, p)
  BY DEF Panel, Numbers
<1>2. ASSUME NEW h \in DOMAIN D \ {g} PROVE Row(D2, h) = Row(D, h)
  BY DEF Row, networkSince, SavedAs
<1>3. Row(D2, g) = Owed(D, p)
  <2>1. /\ D2[g].created = s.created /\ D2[g].available = s.source
        /\ D2[g].updated = p.snapshot.updated
        /\ D2[g].rows = Overlay(RowsOf(D, g), p.snapshot.rows)
        /\ D2[g].prefix = Overlay(p.prefix, PrefixOf(D, g))
    BY <1>1 DEF SavedAs, Order
  <2>2. /\ p.snapshot.created = s.created /\ p.available = s.source
        /\ DOMAIN p.snapshot = {"created", "updated", "total", "rows"}
    BY <1>1 DEF Order, RecordTypes
  <2>3. /\ Merge(D, g, p.snapshot).created = s.created
        /\ Merge(D, g, p.snapshot).updated = p.snapshot.updated
        /\ Merge(D, g, p.snapshot).rows = D2[g].rows
    BY <2>1, <2>2, MergeIs
  <2> QED
    BY <2>1, <2>2, <2>3 DEF Row, Owed, networkSince
<1>4. Counts(w, Owed(D, p)) /\ \A h \in DOMAIN D : Counts(w, Row(D, h))
  BY <1>1 DEF Saves
<1>5. \A h \in DOMAIN D2 : Counts(w, Row(D2, h))
  <2> SUFFICES ASSUME NEW h \in DOMAIN D2 PROVE Counts(w, Row(D2, h))
    OBVIOUS
  <2>1. h = g \/ h \in DOMAIN D \ {g}
    BY DEF SavedAs
  <2>2. CASE h = g
    BY <1>3, <1>4, <2>2
  <2>3. CASE h \in DOMAIN D \ {g}
    <3>1. Row(D2, h) = Row(D, h)
      BY <1>2, <2>3
    <3>2. Counts(w, Row(D, h))
      BY <1>4, <2>3
    <3> QED
      BY <3>1, <3>2
  <2> QED
    BY <2>1, <2>2, <2>3
<1> QED
  BY <1>0, <1>1, <1>5 DEF Saves

LEMMA SavedContinues ==
  ASSUME NEW w, Surroundings(w), NEW s, NEW o, NEW D, NEW p, Panel(w, s, o, D, p),
         p.generation # 0, NEW D2, SavedAs(D, p, D2), RecordTypes(s, D2, NoRecord)
  PROVE  Continues(w, s, D2, NoRecord)
<1> DEFINE g == s.generation
           v == w.vn
           old == RowsOf(D, g)
           old2 == RowsOf(D2, g)
           new == p.snapshot.rows
           cuts == Cuts(s, D, p)
           x == Current(w, s, D, p)
           y == Current(w, s, D2, NoRecord)
           z == Owed(D, p)
<1> SUFFICES ASSUME Live(w, s) PROVE Continues(w, s, D2, NoRecord)
  BY DEF Continues
<1>0. NoRecord.generation = 0
  BY DEF NoRecord
<1>1. /\ Continues(w, s, D, p) /\ RecordTypes(o, D, p) /\ Order(w, s, o, D, p)
      /\ p.generation = g /\ g # 0 /\ Counts(w, z)
  BY DEF Panel, Numbers, Saves, Live
<1>2. Cuts(s, D2, NoRecord) = cuts
  <2>1. PrefixOf(D2, g) = Overlay(p.prefix, PrefixOf(D, g))
    BY <1>1 DEF PrefixOf, SavedAs
  <2> QED
    BY <1>0, <1>1, <2>1, OverlaidOnNothing DEF Cuts
<1>3. old2 = Overlay(old, new)
  BY <1>1 DEF RowsOf, SavedAs
<1>4. /\ DOMAIN old2 = DOMAIN old \cup DOMAIN new
      /\ \A b \in DOMAIN new : old2[b] = new[b]
      /\ \A b \in DOMAIN old \ DOMAIN new : old2[b] = old[b]
  <2> HIDE DEF old2, old, new
  <2>1. /\ DOMAIN Overlay(old, new) = DOMAIN old \cup DOMAIN new
        /\ \A b \in DOMAIN new : Overlay(old, new)[b] = new[b]
        /\ \A b \in DOMAIN old \ DOMAIN new : Overlay(old, new)[b] = old[b]
    BY OverlayIs
  <2> QED
    BY <1>3, <2>1
<1>5. old \in Taken(s, D, p) /\ new \in Taken(s, D, p) /\ Taken(s, D2, NoRecord) = {old2}
  BY <1>0, <1>1 DEF Taken
<1>6. /\ z.created = s.source /\ z.updated = s.updated /\ RowsTyped(z.rows)
      /\ DOMAIN z.rows = DOMAIN old \cup DOMAIN new
      /\ \A b \in DOMAIN new : z.rows[b] = Cut(new[b], b, cuts)
      /\ s.source \in Nat /\ s.created \in Nat /\ s.created <= s.source
      /\ s.updated \in Nat /\ s.updated <= v.updated
  BY SavedRow
<1>7. /\ Snapshot(v) /\ Grows(w.seen) /\ v.created = s.created /\ v.updated \in Nat
      /\ v.created <= s.source
  BY <1>6 DEF Surroundings, Snapshot, Live
<1>8. /\ x.created = s.source /\ x.updated = v.updated
      /\ DOMAIN x.rows = DOMAIN old \cup DOMAIN v.rows
      /\ \A b \in DOMAIN v.rows : x.rows[b] = Cut(v.rows[b], b, cuts)
      /\ \A b \in DOMAIN old \ DOMAIN v.rows : x.rows[b] = Cut(old[b], b, cuts)
  BY <1>1, <1>6, <1>7, CurrentIs
<1>9. /\ y.created = s.source /\ y.updated = v.updated
      /\ DOMAIN y.rows = DOMAIN old2 \cup DOMAIN v.rows
      /\ \A b \in DOMAIN v.rows : y.rows[b] = Cut(v.rows[b], b, cuts)
      /\ \A b \in DOMAIN old2 \ DOMAIN v.rows : y.rows[b] = Cut(old2[b], b, cuts)
      /\ RowsTyped(y.rows)
  BY <1>1, <1>2, <1>6, <1>7, CurrentIs
<1>10. /\ Counts(w, x)
       /\ ~w.astray =>
            /\ \A b \in DOMAIN cuts : (b \in DOMAIN v.rows /\ cuts[b] <= v.rows[b]) \/ b + 4 <= v.updated
            /\ \A taken \in Taken(s, D, p) : \A b \in DOMAIN taken \ DOMAIN v.rows :
                 /\ b + 4 <= v.updated
                 /\ s.source < b + 4 => Cut(taken[b], b, cuts) = Between(w, Later(b, s.source), b + 4)
  BY <1>1 DEF Continues
<1> HIDE DEF g, v, old, old2, new, cuts, x, y, z
<1>11. ~w.astray => \A b \in DOMAIN old2 \ DOMAIN v.rows :
         /\ b + 4 <= v.updated
         /\ s.source < b + 4 => Cut(old2[b], b, cuts) = Between(w, Later(b, s.source), b + 4)
  BY <1>4, <1>5, <1>10
<1>12. ASSUME NEW b \in DOMAIN y.rows, y.created < b + Width
       PROVE  /\ y.rows[b] <= Between(w, Opens(y, b), Closes(y, b))
              /\ ~w.astray => y.rows[b] = Between(w, Opens(y, b), Closes(y, b))
  <2>1. b \in Nat /\ b % 4 = 0 /\ y.rows[b] \in Nat
    BY <1>9, SlotsAre DEF RowsTyped
  <2>2. CASE b \in DOMAIN x.rows /\ y.rows[b] = x.rows[b]
    BY <1>8, <1>9, <1>10, <1>12, <2>2 DEF Counts, Opens, Closes
  <2>3. CASE ~(b \in DOMAIN x.rows /\ y.rows[b] = x.rows[b])
    <3>1. b \notin DOMAIN v.rows /\ b \in DOMAIN new /\ y.rows[b] = Cut(new[b], b, cuts)
      BY <1>4, <1>8, <1>9, <2>3
    <3>2. b \in DOMAIN old2 /\ old2[b] = new[b]
      BY <1>4, <3>1
    <3>3. y.rows[b] = z.rows[b] /\ b \in DOMAIN z.rows /\ z.rows[b] <= z.rows[b]
      BY <1>6, <2>1, <3>1
    <3>4. /\ z.created \in Nat /\ z.updated \in Nat /\ y.created = z.created /\ y.updated \in Nat
          /\ z.updated <= y.updated /\ z.created < b + Width
      BY <1>6, <1>7, <1>9, <1>12
    <3>5. y.rows[b] <= Between(w, Opens(y, b), Closes(y, b))
      BY <1>1, <1>6, <1>7, <2>1, <3>3, <3>4, BucketBelow DEF z
    <3>6. ASSUME ~w.astray PROVE y.rows[b] = Between(w, Opens(y, b), Closes(y, b))
      <4>1. b + 4 <= v.updated /\ y.rows[b] = Between(w, Later(b, s.source), b + 4)
        BY <1>9, <1>11, <1>12, <3>1, <3>2, <3>6 DEF Width
      <4>2. Opens(y, b) = Later(b, s.source)
        BY <1>9 DEF Opens
      <4>3. Closes(y, b) = b + 4
        BY <1>7, <1>9, <2>1, <4>1 DEF Closes, Earlier, Width
      <4> QED
        BY <4>1, <4>2, <4>3
    <3> QED
      BY <3>5, <3>6
  <2> QED
    BY <2>2, <2>3
<1>13. Counts(w, y)
  BY <1>12 DEF Counts
<1> QED
  BY <1>2, <1>5, <1>10, <1>11, <1>13 DEF Continues, y, v

LEMMA PanelSaved ==
  ASSUME NEW w, Surroundings(w), NEW s, NEW o, NEW D, NEW p, Panel(w, s, o, D, p)
  PROVE  Panel(w, s, s, IF p = NoRecord THEN D ELSE saveNetworks(D, p), NoRecord)
<1>1. CASE p = NoRecord
  BY <1>1, PanelSettled
<1>2. CASE p # NoRecord
  <2>1. p.generation # 0 /\ RecordTypes(o, D, p)
    BY <1>2 DEF Panel, RecordTypes
  <2>2. SavedAs(D, p, saveNetworks(D, p))
    BY <2>1, SaveIs
  <2>3. /\ RecordTypes(s, saveNetworks(D, p), NoRecord)
        /\ Numbers(w, s, s, saveNetworks(D, p), NoRecord)
        /\ Order(w, s, s, saveNetworks(D, p), NoRecord)
    BY <2>1, SavedOrder
  <2>4. Saves(w, s, saveNetworks(D, p), NoRecord)
    BY <2>1, <2>2, <2>3, SavedSaves
  <2>5. Continues(w, s, saveNetworks(D, p), NoRecord)
    BY <2>1, <2>2, <2>3, SavedContinues
  <2> QED
    BY <1>2, <2>3, <2>4, <2>5 DEF Panel
<1> QED
  BY <1>1, <1>2

-----------------------------------------------------------------------------
(* Sums of the saved sources. *)

LEMMA SavedSound ==
  ASSUME NEW w, Surroundings(w), NEW s, NEW o, NEW D, NEW p, Panel(w, s, o, D, p),
         NEW h \in DOMAIN D, NEW x, x.available = D[h].available, x.ended \in Nat,
         x.snapshot = Row(D, h)
  PROVE  Sound(w, x) /\ x.snapshot.updated = D[h].updated
<1>1. RecordTypes(o, D, p) /\ Numbers(w, s, o, D, p) /\ Order(w, s, o, D, p)
      /\ Counts(w, Row(D, h))
  BY DEF Panel, Saves
<1>2. {D[h].created, D[h].available, D[h].updated} \subseteq Nat /\ o.generation # 0
  BY <1>1 DEF RecordTypes, Numbers
<1>3. D[h].updated <= o.updated /\ o.updated <= w.vn.updated
  BY <1>1, <1>2 DEF Order
<1>4. /\ w.vn.updated \in Nat /\ w.vn.updated <= w.now /\ w.now \in Nat /\ w.now <= Horizon
      /\ Horizon \in Nat
  BY Bounds DEF Surroundings, Snapshot
<1>5. o.updated \in Nat
  BY <1>2 DEF Panel, Figures, Surroundings
<1>6. D[h].updated \in 0..Horizon
  BY <1>2, <1>3, <1>4, <1>5
<1>7. Row(D, h).created \in Nat /\ Row(D, h).updated = D[h].updated /\ RowsTyped(Row(D, h).rows)
  <2>1. Row(D, h).created = Later(D[h].created, D[h].available)
    BY <1>1, RowIs
  <2>2. Row(D, h).created \in Nat
    BY <1>2, <2>1, LaterIs
  <2> QED
    BY <1>1, <2>2, RowIs
<1> QED
  BY <1>1, <1>2, <1>6, <1>7 DEF Sound

\* Of the saved sources those that are asked for.
LEMMA SavedSources ==
  ASSUME NEW w, Surroundings(w), NEW s, NEW o, NEW D, NEW p, Panel(w, s, o, D, p),
         NEW g, NEW start, NEW end
  PROVE  LET T == networkSources(D, g, start, end)
         IN  /\ IsFiniteSet(T) /\ Separate(T)
             /\ \A x \in T : /\ Sound(w, x)
                             /\ \E h \in DOMAIN D \ {g} :
                                  /\ x.available = D[h].available /\ x.snapshot = Row(D, h)
<1> DEFINE H == {h \in DOMAIN D \ {g} : /\ D[h].available < end
                                        /\ D[h].ended = 0 \/ D[h].ended > start}
           f == [h \in H |-> [generation |-> h, available |-> D[h].available,
                              ended |-> D[h].ended, snapshot |-> Row(D, h)]]
           T == networkSources(D, g, start, end)
<1>1. RecordTypes(o, D, p) /\ Numbers(w, s, o, D, p) /\ Order(w, s, o, D, p)
  BY DEF Panel
<1>2. T = {f[h] : h \in H}
  BY DEF networkSources, Row
<1>3. IsFiniteSet(H)
  <2>1. o.generation \in Nat
    BY <1>1 DEF Numbers
  <2>2. IsFiniteSet(1..o.generation)
    BY <2>1, FS_Interval
  <2>3. H \in SUBSET (1..o.generation)
    BY <1>1 DEF RecordTypes
  <2> HIDE DEF H
  <2> QED
    BY <2>2, <2>3, FS_Subset
<1>4. \A h \in H : /\ f[h].available = D[h].available /\ f[h].ended = D[h].ended
                   /\ f[h].snapshot = Row(D, h) /\ h \in DOMAIN D \ {g}
  OBVIOUS
<1>5. f = [h \in H |-> f[h]]
  OBVIOUS
<1> HIDE DEF H, f, T
<1>6. IsFiniteSet(T)
  <2>1. f \in Surjection(H, T)
    BY <1>2, <1>5 DEF Surjection
  <2> QED
    BY <1>3, <2>1, FS_Surjection
<1>7. \A h \in H : Sound(w, f[h]) /\ f[h].snapshot.updated = D[h].updated
  <2> SUFFICES ASSUME NEW h \in H PROVE Sound(w, f[h]) /\ f[h].snapshot.updated = D[h].updated
    OBVIOUS
  <2> DEFINE x == f[h]
  <2>1. h \in DOMAIN D /\ x.available = D[h].available /\ x.snapshot = Row(D, h) /\ x.ended \in Nat
    BY <1>1, <1>4 DEF RecordTypes
  <2> HIDE DEF x
  <2>2. Sound(w, x) /\ x.snapshot.updated = D[h].updated
    BY <2>1, SavedSound
  <2> QED
    BY <2>2 DEF x
<1>8. \A x \in T : /\ Sound(w, x)
                   /\ \E h \in DOMAIN D \ {g} :
                        /\ x.available = D[h].available /\ x.snapshot = Row(D, h)
  BY <1>2, <1>4, <1>7
<1>9. Separate(T)
  <2> SUFFICES ASSUME NEW h \in H, NEW k \in H, f[h] # f[k]
               PROVE  \/ f[h].snapshot.updated <= f[k].available
                      \/ f[k].snapshot.updated <= f[h].available
    BY <1>2 DEF Separate
  <2>1. h \in DOMAIN D /\ k \in DOMAIN D /\ h # k /\ h \in Nat /\ k \in Nat
    BY <1>1, <1>4 DEF RecordTypes
  <2>2. D[h].updated <= D[k].available \/ D[k].updated <= D[h].available
    BY <1>1, <2>1 DEF Order
  <2> QED
    BY <1>4, <1>7, <2>2
<1> QED
  BY <1>6, <1>8, <1>9 DEF T

LEMMA SavedSum ==
  ASSUME NEW w, Surroundings(w), NEW s, NEW o, NEW D, NEW p, Panel(w, s, o, D, p),
         NEW g, NEW a, NEW c, NEW start \in Nat, NEW end \in Nat
  PROVE  LET sum == sumNetworkSources(networkSources(D, g, a, c), start, end)
         IN  /\ sum.bytes \in Nat /\ sum.bytes <= Between(w, start, end)
             /\ ~w.astray /\ ~sum.partial => sum.bytes = Between(w, start, end)
<1> DEFINE T == networkSources(D, g, a, c)
<1>1. IsFiniteSet(T) /\ Separate(T) /\ (\A x \in T : Sound(w, x)) /\ Grows(w.seen)
  BY SavedSources DEF Surroundings
<1> HIDE DEF T
<1>2. /\ sumNetworkSources(T, start, end).bytes \in Nat
      /\ sumNetworkSources(T, start, end).bytes <= Between(w, start, end)
      /\ ~w.astray /\ ~sumNetworkSources(T, start, end).partial
           => sumNetworkSources(T, start, end).bytes = Between(w, start, end)
  BY <1>1, SourcesHold
<1> QED
  BY <1>2 DEF T

\* A source that ends when the next begins.
Closed(y, at) == [y EXCEPT !.ended = IF @ = 0 \/ @ > at THEN at ELSE @]

\* What of a period that began at start a sum accounts for.
SumsUp(w, sum, start) ==
  /\ sum.bytes \in Nat /\ sum.bytes <= Between(w, start, w.vn.updated)
  /\ ~w.astray /\ ~sum.partial => sum.bytes = Between(w, start, w.vn.updated)

\* The saved ones and the present one.
LEMMA BucketsSum ==
  ASSUME NEW w, Surroundings(w), NEW s, NEW o, NEW D, NEW p, Panel(w, s, o, D, p), Live(w, s),
         NEW start \in Nat,
         NEW current, current.available = s.source, current.ended = 0,
         current.snapshot = Current(w, s, D, p),
         NEW others, IsFiniteSet(others),
         \A x \in others : \E y \in networkSources(D, s.generation, start, s.source) :
           x = Closed(y, s.source)
  PROVE  SumsUp(w, sumNetworkSources(others \cup {current}, start, w.vn.updated), start)
<1> DEFINE g == s.generation
           S == networkSources(D, g, start, s.source)
           T == others \cup {current}
<1>1. RecordTypes(o, D, p) /\ Numbers(w, s, o, D, p) /\ Order(w, s, o, D, p)
      /\ Continues(w, s, D, p)
  BY DEF Panel
<1>2. Separate(S) /\ \A y \in S : /\ Sound(w, y)
                                  /\ \E h \in DOMAIN D \ {g} :
                                       /\ y.available = D[h].available /\ y.snapshot = Row(D, h)
  BY SavedSources
<1>3. \A y \in S : DOMAIN y = {"generation", "available", "ended", "snapshot"}
  BY DEF networkSources
<1>4. /\ Snapshot(w.vn) /\ Grows(w.seen) /\ s.source \in Nat /\ g # 0 /\ w.vn.created <= s.source
      /\ w.vn.updated \in 0..Horizon
  BY <1>1, Bounds DEF Order, Live, Surroundings, Snapshot
<1>5. /\ current.snapshot.created = s.source /\ current.snapshot.updated = w.vn.updated
      /\ RowsTyped(current.snapshot.rows)
  BY <1>1, <1>4, CurrentIs
<1>6. Sound(w, current)
  BY <1>1, <1>4, <1>5 DEF Sound, Continues
<1> HIDE DEF S, g
<1>7. \A x \in others : \E y \in S :
        /\ x.available = y.available /\ x.ended \in Nat /\ x.snapshot = y.snapshot
        /\ x = Closed(y, s.source)
  <2> SUFFICES ASSUME NEW x \in others, NEW y \in S,
                      x = Closed(y, s.source)
               PROVE  /\ x.available = y.available /\ x.ended \in Nat /\ x.snapshot = y.snapshot
    BY DEF S, g
  <2>1. y.ended \in Nat
    BY <1>2 DEF Sound
  <2> QED
    BY <1>3, <1>4, <2>1 DEF Closed
<1>8. \A x \in T : Sound(w, x)
  <2>1. \A x \in others : Sound(w, x)
    BY <1>2, <1>7 DEF Sound
  <2> QED
    BY <1>6, <2>1
<1>9. \A y \in S : y.snapshot.updated <= s.source
  <2> SUFFICES ASSUME NEW y \in S, NEW h \in DOMAIN D \ {g}, y.snapshot = Row(D, h)
               PROVE  y.snapshot.updated <= s.source
    BY <1>2
  <2>1. Row(D, h).updated = D[h].updated
    BY <1>1, RowIs
  <2> QED
    BY <1>1, <2>1 DEF Order, g
<1>10. Separate(T)
  <2> SUFFICES ASSUME NEW x \in T, NEW y \in T, x # y
               PROVE  \/ x.snapshot.updated <= y.available
                      \/ y.snapshot.updated <= x.available
    BY DEF Separate
  <2>1. \A z \in others : z.snapshot.updated <= current.available
    BY <1>7, <1>9
  <2>2. CASE x \in others /\ y \in others
    <3>1. PICK x1 \in S : /\ x.available = x1.available /\ x.snapshot = x1.snapshot
                          /\ x = Closed(x1, s.source)
      BY <1>7, <2>2
    <3>2. PICK y1 \in S : /\ y.available = y1.available /\ y.snapshot = y1.snapshot
                          /\ y = Closed(y1, s.source)
      BY <1>7, <2>2
    <3>3. x1 # y1
      BY <3>1, <3>2
    <3> QED
      BY <1>2, <3>1, <3>2, <3>3 DEF Separate
  <2> QED
    BY <2>1, <2>2
<1>11. IsFiniteSet(T)
  BY FS_AddElement
<1> HIDE DEF T
<1> DEFINE u == w.vn.updated
<1>12. u \in Nat
  BY <1>4
<1> HIDE DEF u
<1>13. LET sum == sumNetworkSources(T, start, u)
       IN  /\ sum.bytes \in Nat /\ sum.bytes <= Between(w, start, u)
           /\ ~w.astray /\ ~sum.partial => sum.bytes = Between(w, start, u)
  BY <1>4, <1>8, <1>10, <1>11, <1>12, SourcesHold
<1> QED
  BY <1>13 DEF T, u, SumsUp

-----------------------------------------------------------------------------
(* A sample of vnStat. *)

Reading == /\ UsageInv /\ ~Idle /\ ~Outdated
           /\ ~Refused(read)

LEMMA ReadingIs ==
  ASSUME Reading
  PROVE  /\ DOMAIN st = Fields /\ Surroundings(World)
         /\ Panel(World, st, db.st, db.sources, pending)
         /\ read.iface = World.iface /\ read.snapshot = World.vn /\ read.schedule \in Schedules
         /\ World.now = now /\ schedule \in Schedules /\ read.schedule = schedule
         /\ World.vn.updated \in Nat /\ World.vn.created \in Nat
         /\ World.vn.created <= World.vn.updated /\ World.vn.updated <= now /\ now \in Nat
<1>1. /\ EstimateInv /\ Books /\ Panel(World, st, db.st, db.sources, pending)
      /\ read # NoRead /\ read.iface = iface /\ read.schedule = schedule
  BY DEF Reading, UsageInv, Idle, Outdated
<1>2. DOMAIN st = Fields /\ schedule \in Schedules
  BY <1>1 DEF EstimateInv, Anchored, ClockTypes
<1>3. read.snapshot = Present(iface)
  BY <1>1 DEF Books
<1>4. Surroundings(World)
  BY <1>1, WorldHolds
<1>5. World.now = now /\ World.iface = iface /\ World.vn = Present(iface)
  BY WorldIs
<1>6. /\ World.vn.updated \in Nat /\ World.vn.created \in Nat
      /\ World.vn.created <= World.vn.updated /\ World.vn.updated <= World.now /\ World.now \in Nat
  BY <1>4 DEF Surroundings, Snapshot
<1> QED
  BY <1>1, <1>2, <1>3, <1>4, <1>5, <1>6

LEMMA AnchoredSame == ASSUME NEW s, DOMAIN s = Fields PROVE SameFigures(s, anchorProxy(s))
  BY FieldsAre DEF FieldNames, SameFigures, anchorProxy

LEMMA SettledFields ==
  ASSUME NEW prev, NEW s, DOMAIN s = Fields, NEW r
  PROVE  LET x == Settled(prev, s, r)
         IN  /\ DOMAIN x = Fields
             /\ x.generation = Generation(prev, r) /\ x.origin = r.iface
             /\ x.created = r.snapshot.created /\ x.updated = r.snapshot.updated
             /\ x.last = r.snapshot.total /\ x.reset = r.schedule
             /\ x.next = IF r.schedule = {} THEN 0 ELSE nextReset(r.schedule)
             /\ x.rx = s.rx /\ x.partial = s.partial /\ x.carry = s.carry
             /\ x.baseline = s.baseline /\ x.manual = s.manual /\ x.period = s.period
             /\ x.recordedFrom = s.recordedFrom /\ x.source = s.source
  BY FieldsAre DEF FieldNames, Settled

\* What a sample measures is the received bytes.
Received(prev, s, r) ==
  LET sum == FromBuckets(prev, s, r)
  IN IF sum.partial /\ resetChanged(prev, r) /\ s.period <= prev.period
     THEN Later(sum.bytes, prev.rx) ELSE sum.bytes

LEMMA MeasuredKeeps ==
  ASSUME NEW prev, NEW s, DOMAIN s = Fields, NEW r
  PROVE  LET x == Measured(prev, s, r)
         IN  /\ DOMAIN x = Fields
             /\ x.carry = s.carry /\ x.baseline = s.baseline /\ x.manual = s.manual
             /\ x.period = s.period /\ x.recordedFrom = s.recordedFrom /\ x.source = s.source
<1>1. CASE s.manual
  BY <1>1, FieldsAre DEF FieldNames, Measured
<1>2. CASE ~s.manual
  <2>1. \E rx, partial, available :
          Measured(prev, s, r) = [s EXCEPT !.rx = rx, !.partial = partial, !.available = available]
    BY <1>2, Zenon DEF Measured
  <2> QED
    BY <2>1, FieldsAre DEF FieldNames
<1> QED
  BY <1>1, <1>2

LEMMA MeasuredFields ==
  ASSUME NEW prev, NEW s, DOMAIN s = Fields, NEW r
  PROVE  LET x == Measured(prev, s, r)
         IN  /\ s.manual => /\ x.rx = s.carry + Later(0, r.snapshot.total - s.baseline)
                            /\ x.partial = s.partial
             /\ ~s.manual =>
                  /\ x.rx = IF Held(prev, r, Received(prev, s, r)) THEN prev.rx
                            ELSE Received(prev, s, r)
                  /\ ~x.partial => /\ ~FromBuckets(prev, s, r).partial
                                   /\ ~Held(prev, r, Received(prev, s, r))
<1>1. CASE s.manual
  BY <1>1, FieldsAre DEF FieldNames, Measured
<1>2. CASE ~s.manual
  <2> DEFINE rx == Received(prev, s, r)
             held == Held(prev, r, rx)
             sum == FromBuckets(prev, s, r)
             x == [s EXCEPT !.rx = IF held THEN prev.rx ELSE rx,
                            !.partial = sum.partial \/ held,
                            !.available = sum.available \/ r.snapshot.updated = s.period]
  <2>1. Measured(prev, s, r) = x
    BY <1>2 DEF Measured, Received
  <2> HIDE DEF rx, held, sum
  <2>2. /\ x.rx = IF held THEN prev.rx ELSE rx
        /\ ~x.partial => ~sum.partial /\ ~held
    BY FieldsAre DEF FieldNames
  <2> HIDE DEF x
  <2> QED
    BY <1>2, <2>1, <2>2 DEF rx, held, sum
<1> QED
  BY <1>1, <1>2

LEMMA SourcedFields == ASSUME NEW prev, DOMAIN prev = Fields, NEW r PROVE DOMAIN Sourced(prev, r) = Fields
  BY SourcedIs

LEMMA SampledFields ==
  ASSUME DOMAIN st = Fields
  PROVE  LET s == Sourced(st, read)
             m == Measured(st, s, read)
             x == Sampled(st, read)
         IN  /\ x.generation = Generation(st, read) /\ x.origin = read.iface
             /\ x.created = read.snapshot.created /\ x.updated = read.snapshot.updated
             /\ x.last = read.snapshot.total /\ x.reset = read.schedule
             /\ x.next = IF read.schedule = {} THEN 0 ELSE nextReset(read.schedule)
             /\ x.rx = m.rx /\ x.partial = m.partial
             /\ x.carry = s.carry /\ x.baseline = s.baseline /\ x.manual = s.manual
             /\ x.period = s.period /\ x.recordedFrom = s.recordedFrom /\ x.source = s.source
<1> DEFINE s == Sourced(st, read)
           m == Measured(st, s, read)
           y == Settled(st, m, read)
           x == anchorProxy(y)
<1>1. DOMAIN s = Fields
  BY SourcedFields
<1> HIDE DEF s
<1>2. /\ DOMAIN m = Fields
      /\ m.carry = s.carry /\ m.baseline = s.baseline /\ m.manual = s.manual
      /\ m.period = s.period /\ m.recordedFrom = s.recordedFrom /\ m.source = s.source
  BY <1>1, MeasuredKeeps
<1> HIDE DEF m
<1>3. /\ DOMAIN y = Fields
      /\ y.generation = Generation(st, read) /\ y.origin = read.iface
      /\ y.created = read.snapshot.created /\ y.updated = read.snapshot.updated
      /\ y.last = read.snapshot.total /\ y.reset = read.schedule
      /\ y.next = IF read.schedule = {} THEN 0 ELSE nextReset(read.schedule)
      /\ y.rx = m.rx /\ y.partial = m.partial /\ y.carry = m.carry
      /\ y.baseline = m.baseline /\ y.manual = m.manual /\ y.period = m.period
      /\ y.recordedFrom = m.recordedFrom /\ y.source = m.source
  BY <1>2, SettledFields
<1> HIDE DEF y
<1>4. SameFigures(y, x)
  BY <1>3, AnchoredSame
<1>5. Sampled(st, read) = x
  BY DEF Sampled, s, m, y
<1> HIDE DEF x
<1> QED
  BY <1>2, <1>3, <1>4, <1>5 DEF SameFigures, s, m

LEMMA RenewedFields ==
  ASSUME NEW prev, DOMAIN prev = Fields, NEW r
  PROVE  LET x == Renewed(prev, r)
         IN  /\ DOMAIN x = Fields
             /\ x.baseline = prev.baseline /\ x.rx = prev.rx /\ x.partial = prev.partial
             /\ x.source = prev.source /\ x.recordedFrom = prev.recordedFrom
             /\ ~Renews(prev, r) => /\ x.manual = prev.manual /\ x.carry = prev.carry
                                    /\ x.period = prev.period
             /\ Renews(prev, r) =>
                  /\ ~x.manual
                  /\ x.period = IF r.schedule # {}
                                THEN Later(previousReset(r.schedule), prev.recordedFrom)
                                ELSE IF prev.period = 0 THEN r.snapshot.created ELSE prev.period
  BY FieldsAre DEF FieldNames, Renewed

\* The period begins at an instant at which it is noted what vnStat had recorded.
LEMMA PeriodNoted ==
  ASSUME Reading, st.generation # 0
  PROVE  Renewed(st, read).period \in World.noted
<1>1. /\ DOMAIN st = Fields /\ Surroundings(World) /\ read.schedule \in Schedules
      /\ {st.period, st.recordedFrom} \subseteq World.noted
  BY ReadingIs DEF Panel, Figures
<1>2. ClockTypes /\ now \in Nat /\ now % 2 = 1 /\ World.now = now
  BY ReadingIs, Bounds DEF Reading, UsageInv, EstimateInv, ClockTypes
<1>3. \A t \in World.noted : t \in Nat /\ 5 <= t
  BY <1>1 DEF Surroundings
<1> DEFINE S == read.schedule
           a == previousReset(S)
<1>4. S # {} => Later(a, st.recordedFrom) \in World.noted
  <2>1. a \in {b \in S : b <= now} \cup {1} /\ a \in Nat /\ a < now
    <3>1. a \in Nat /\ a < now
      BY <1>1, <1>2, PreviousReset
    <3>2. {b \in S : b <= now} \cup {1} \subseteq 0..now
      BY <1>1, <1>2, Bounds
    <3> DEFINE X == {b \in S : b <= now} \cup {1}
    <3>3. X \subseteq 0..now /\ X # {}
      BY <3>2
    <3>4. a = Max(X)
      BY DEF previousReset
    <3> HIDE DEF X
    <3>5. a \in X
      BY <1>2, <3>3, <3>4, MaxIs
    <3> QED
      BY <3>1, <3>5 DEF X
  <2>2. CASE a = 1
    BY <1>1, <1>3, <2>2 DEF Later
  <2>3. CASE a \in S
    <3>1. a % 4 = 0 /\ a > 5
      BY <1>1, <2>3, Bounds
    <3>2. a % 2 = 0
      BY <2>1, <3>1
    <3>3. a \in World.noted
      BY <1>1, <1>2, <2>1, <3>1, <3>2 DEF Surroundings
    <3> QED
      BY <1>1, <3>3 DEF Later
  <2> QED
    BY <2>1, <2>2, <2>3
<1>5. st.period # 0
  BY <1>1, <1>3
<1> QED
  BY <1>1, <1>4, <1>5, RenewedFields

LEMMA NextReset ==
  ASSUME Reading, read.schedule # {}
  PROVE  LET n == nextReset(read.schedule)
         IN  n \in Nat /\ now < n /\ n \in read.schedule \cup {Beyond}
<1> DEFINE X == {b \in read.schedule : b > now} \cup {Beyond}
<1>1. read.schedule \in Schedules /\ now \in Nat /\ World.now = now /\ Surroundings(World)
  BY ReadingIs
<1>2. Beyond \in Nat /\ now < Beyond
  BY <1>1, Bounds DEF Beyond, Width, Surroundings
<1>3. X \subseteq Nat /\ X # {}
  BY <1>1, <1>2, Bounds
<1>4. nextReset(read.schedule) = Min(X)
  BY DEF nextReset
<1> HIDE DEF X
<1>5. Min(X) \in X
  BY <1>3, MinIs
<1>6. \A n \in X : n \in Nat /\ now < n /\ n \in read.schedule \cup {Beyond}
  BY <1>1, <1>2, Bounds DEF X
<1> QED
  BY <1>4, <1>5, <1>6

\* Figures of a sample just published.
LEMMA FiguresFrom ==
  ASSUME NEW w, Surroundings(w), NEW x, x.updated = w.vn.updated, x.last = w.vn.total,
         {x.period, x.recordedFrom} \subseteq w.noted, x.reset \in Schedules,
         x.next \in Nat, x.next # 0 => w.now < x.next /\ x.next \in x.reset \cup {Beyond},
         x.rx \in Nat, x.rx <= Between(w, x.period, w.vn.updated),
         ~w.astray /\ ~x.partial => x.rx = Between(w, x.period, w.vn.updated),
         x.manual => /\ x.carry \in Int /\ x.baseline \in Int /\ x.baseline <= x.last
                     /\ x.rx = (x.carry + x.last) - x.baseline
  PROVE  Figures(w, x)
<1>1. /\ Grows(w.seen) /\ w.vn.updated \in Nat /\ w.vn.updated <= w.now /\ w.now \in Nat
      /\ w.vn.updated \in w.noted /\ x.period \in Nat /\ x.period <= w.now
      /\ w.vn.total \in Int
      /\ \A t \in Nat : w.vn.updated <= t => w.seen[t] = w.seen[w.vn.updated]
  BY DEF Surroundings, Snapshot
<1>2. w.seen[w.vn.updated] \in Nat /\ w.seen[x.period] \in Nat
  BY <1>1 DEF Grows
<1>3. Between(w, x.period, w.vn.updated) <= w.seen[w.vn.updated]
  BY <1>2 DEF Between, Later
<1>4. Between(w, x.period, w.vn.updated) \in Nat
  BY <1>2 DEF Between, Later
<1>5. x.rx \in 0..w.seen[w.vn.updated]
  BY <1>2, <1>3, <1>4
<1>6. x.next # 0 => x.period < x.next /\ x.updated < x.next
  BY <1>1
<1>7. x.updated < x.period => w.seen[x.period] = w.seen[x.updated]
  BY <1>1
<1> QED
  BY <1>1, <1>5, <1>6, <1>7 DEF Figures

\* What is cut off a source that begins at s, in the database v.
Before(v, s) ==
  [b \in {b \in DOMAIN v.rows : s > v.created /\ b <= s /\ s < b + Width} |-> v.rows[b]]

\* A source that was not there before.
Fresh(w, x, D, q) ==
  /\ x.generation \in Nat \ {0} /\ x.generation \notin DOMAIN D
  /\ q.generation = x.generation /\ q.snapshot = w.vn /\ q.available = x.source
  /\ q.prefix = Before(w.vn, x.source)
  /\ x.source \in Nat
  /\ w.vn.updated <= x.source \/ (x.source = w.vn.created /\ Counts(w, w.vn))

LEMMA FreshTypes ==
  ASSUME NEW w, Surroundings(w), NEW o, NEW D, NEW p, RecordTypes(o, D, p),
         NEW x, NEW q, Fresh(w, x, D, q)
  PROVE  RecordTypes(o, D, q)
<1>1. /\ DOMAIN w.vn = {"created", "updated", "total", "rows"} /\ w.vn.created \in Nat
      /\ w.vn.updated \in Nat /\ RowsTyped(w.vn.rows)
  BY DEF Surroundings, Snapshot
<1>2. RowsTyped(q.prefix)
  BY <1>1 DEF Fresh, Before, RowsTyped
<1> QED
  BY <1>1, <1>2 DEF RecordTypes, Fresh

LEMMA FreshContinues ==
  ASSUME NEW w, Surroundings(w), NEW o, NEW D, NEW p, RecordTypes(o, D, p),
         NEW x, NEW q, Fresh(w, x, D, q)
  PROVE  Continues(w, x, D, q) /\ Counts(w, Owed(D, q))
<1> DEFINE v == w.vn
           c == Current(w, x, D, q)
           cuts == Cuts(x, D, q)
           old == RowsOf(D, x.generation)
<1>1. /\ Snapshot(v) /\ Grows(w.seen) /\ v.created \in Nat /\ v.updated \in Nat
      /\ v.created <= v.updated /\ RowsTyped(v.rows) /\ \A b \in DOMAIN v.rows : b <= v.updated
      /\ v.created = v.updated => DOMAIN v.rows = {}
  BY DEF Surroundings, Snapshot
<1>2. RecordTypes(o, D, q)
  BY FreshTypes
<1>3. /\ x.generation # 0 /\ old = NoRows /\ PrefixOf(D, x.generation) = NoRows
      /\ q.generation = x.generation /\ q.snapshot = v /\ q.available = x.source
      /\ q.prefix = Before(v, x.source) /\ x.source \in Nat
      /\ v.updated <= x.source \/ (x.source = v.created /\ Counts(w, v))
  BY DEF Fresh, RowsOf, PrefixOf
<1>4. v.created <= x.source
  BY <1>1, <1>3
<1>5. Owed(D, q) = c
  BY <1>3 DEF Owed, Current, Cuts
<1>6. /\ c.created = x.source /\ c.updated = v.updated
      /\ DOMAIN c.rows = DOMAIN v.rows
      /\ \A b \in DOMAIN v.rows : c.rows[b] = Cut(v.rows[b], b, cuts)
  <2>1. /\ c.created = x.source /\ c.updated = v.updated
        /\ DOMAIN c.rows = DOMAIN old \cup DOMAIN v.rows
        /\ \A b \in DOMAIN v.rows : c.rows[b] = Cut(v.rows[b], b, cuts)
    BY <1>1, <1>2, <1>3, <1>4, CurrentIs
  <2> HIDE DEF c, cuts, v, old
  <2> QED
    BY <1>3, <2>1, NothingOverlaid
<1>7. /\ DOMAIN cuts = {b \in DOMAIN v.rows : x.source > v.created /\ b <= x.source /\ x.source < b + Width}
      /\ \A b \in DOMAIN cuts : cuts[b] = v.rows[b]
  <2> DEFINE f == Before(v, x.source)
  <2>1. /\ DOMAIN f = {b \in DOMAIN v.rows : x.source > v.created /\ b <= x.source /\ x.source < b + Width}
        /\ \A b \in DOMAIN f : f[b] = v.rows[b]
    BY DEF Before
  <2>2. cuts = Overlay(f, NoRows)
    BY <1>3 DEF Cuts
  <2> HIDE DEF f, cuts
  <2>3. DOMAIN cuts = DOMAIN f /\ \A b \in DOMAIN f : cuts[b] = f[b]
    BY <2>2, NothingOverlaid DEF Overlay
  <2> QED
    BY <2>1, <2>3
<1>8. Taken(x, D, q) = {NoRows, v.rows}
  BY <1>3 DEF Taken
<1> HIDE DEF c, cuts, v, old
<1>9. ASSUME NEW b \in DOMAIN c.rows, c.created < b + Width
      PROVE  c.rows[b] = Between(w, Opens(c, b), Closes(c, b)) \/
               (x.source = v.created /\ Counts(w, v) /\ c.rows[b] = v.rows[b])
  <2>1. b \in DOMAIN v.rows /\ b \in Nat /\ v.rows[b] \in Nat /\ b <= v.updated
    BY <1>1, <1>6, SlotsAre DEF RowsTyped
  <2>2. CASE v.updated <= x.source
    <3>1. b \in DOMAIN cuts
      <4>1. v.created # v.updated
        BY <1>1, <2>1
      <4> QED
        BY <1>1, <1>3, <1>6, <1>7, <1>9, <2>1, <2>2, <4>1
    <3>2. c.rows[b] = 0
      BY <1>6, <1>7, <2>1, <3>1 DEF Cut, Later
    <3>3. Opens(c, b) = x.source
      BY <1>3, <1>6, <2>1, <2>2, <1>1 DEF Opens, Later
    <3>4. Closes(c, b) = v.updated
      BY <1>1, <1>3, <1>6, <1>9, <2>1, <2>2 DEF Closes, Earlier, Width
    <3>5. Between(w, x.source, v.updated) = 0
      BY <1>1, <1>3, <2>2, BetweenIs
    <3> QED
      BY <3>2, <3>3, <3>4, <3>5
  <2>3. CASE x.source = v.created /\ Counts(w, v)
    <3>1. b \notin DOMAIN cuts
      BY <1>1, <1>7, <2>3
    <3> QED
      BY <1>6, <2>1, <2>3, <3>1 DEF Cut
  <2> QED
    BY <1>3, <2>2, <2>3
<1>10. Counts(w, c)
  <2> SUFFICES ASSUME NEW b \in DOMAIN c.rows, c.created < b + Width
               PROVE  /\ c.rows[b] <= Between(w, Opens(c, b), Closes(c, b))
                      /\ ~w.astray => c.rows[b] = Between(w, Opens(c, b), Closes(c, b))
    BY DEF Counts
  <2>1. CASE c.rows[b] = Between(w, Opens(c, b), Closes(c, b))
    <3>1. b \in Nat /\ c.created \in Nat /\ c.updated \in Nat
      BY <1>1, <1>3, <1>6, SlotsAre DEF RowsTyped
    <3>2. Opens(c, b) \in Nat /\ Closes(c, b) \in Nat
      BY <3>1, OpensIs
    <3>3. Between(w, Opens(c, b), Closes(c, b)) \in Nat
      BY <1>1, <3>2, BetweenIs
    <3> QED
      BY <2>1, <3>3
  <2>2. CASE x.source = v.created /\ Counts(w, v) /\ c.rows[b] = v.rows[b]
    BY <1>6, <2>2 DEF Counts, Opens, Closes
  <2> QED
    BY <1>9, <2>1, <2>2
<1>11. ~w.astray =>
         /\ \A b \in DOMAIN cuts : (b \in DOMAIN v.rows /\ cuts[b] <= v.rows[b]) \/ b + 4 <= v.updated
         /\ \A taken \in Taken(x, D, q) : DOMAIN taken \ DOMAIN v.rows = {}
  <2>1. \A b \in DOMAIN cuts : b \in DOMAIN v.rows /\ cuts[b] <= v.rows[b]
    BY <1>1, <1>7 DEF RowsTyped
  <2> QED
    BY <1>8, <2>1, NothingOverlaid
<1> QED
  BY <1>5, <1>10, <1>11 DEF Continues, c, cuts, v

\* The panel once a new source is published.
LEMMA PanelFresh ==
  ASSUME NEW w, Surroundings(w), NEW s, NEW o, NEW D, NEW p, Panel(w, s, o, D, p),
         NEW x, NEW q, Fresh(w, x, D, q), Figures(w, x), ~Live(w, s),
         x.generation = s.generation + 1, x.origin = w.iface, x.created = w.vn.created,
         x.updated = w.vn.updated, x.last = w.vn.total,
         x.source <= w.now, s.source <= x.source,
         \A g \in DOMAIN D : D[g].updated <= x.source
  PROVE  Panel(w, x, o, D, q)
<1>1. /\ RecordTypes(o, D, p) /\ Numbers(w, s, o, D, p) /\ Order(w, s, o, D, p)
      /\ Figures(w, o) /\ Ahead(w, o) /\ Saves(w, o, D, p)
  BY DEF Panel
<1>2. /\ w.vn.created \in Nat /\ w.vn.updated \in Nat /\ w.vn.created <= w.vn.updated
      /\ w.now \in Nat /\ w.events \in Nat /\ w.vn.total \in Int /\ Grows(w.seen)
      /\ w.vn.updated <= w.now
  BY DEF Surroundings, Snapshot
<1>3. /\ s.generation \in Nat /\ o.generation \in Nat /\ o.generation <= s.generation
      /\ x.generation \in Nat /\ x.generation # 0
      /\ s.generation # 0 => s.generation <= w.events
  BY <1>1 DEF Numbers
<1>4. Live(w, x) /\ ~Rebuilt(w, x)
  BY <1>2, <1>3 DEF Live, Rebuilt
<1>5. ~Live(w, o)
  BY <1>1 DEF Numbers, Order, Live
<1>6. q.generation = x.generation /\ q.available = x.source /\ q.snapshot = w.vn
  BY DEF Fresh
<1>7. Numbers(w, x, o, D, q)
  <2>1. x.generation <= w.events + 1
    BY <1>2, <1>3
  <2>2. o.generation <= w.events + 1 /\ (o.generation # 0 => o.generation <= w.events)
    BY <1>1, <1>5 DEF Numbers
  <2>3. o.generation # 0 => o.generation \in DOMAIN D
    BY <1>1 DEF Numbers
  <2> QED
    BY <1>3, <1>4, <1>5, <1>6, <2>1, <2>2, <2>3 DEF Numbers
<1>8. Order(w, x, o, D, q)
  <2>1. x.source \in Nat /\ o.source \in Nat /\ o.source <= x.source
    BY <1>1 DEF Order, Fresh
  <2>2. w.vn.created <= x.source
    BY <1>2, <2>1 DEF Fresh
  <2>6. o.generation = 0 => o.source = 0
    BY <1>1 DEF Order
  <2>3. o.generation # 0 =>
          /\ o.created \in Nat /\ o.created <= o.updated /\ o.created <= o.source
          /\ o.updated <= w.vn.updated
          /\ Rebuilt(w, o) => o.source <= w.vn.created
          /\ D[o.generation].available = o.source /\ D[o.generation].created = o.created
    BY <1>1 DEF Order
  <2>4. \A g \in DOMAIN D :
          /\ D[g].updated <= o.updated /\ D[g].available <= o.source
          /\ \A h \in DOMAIN D : g < h => D[g].updated <= D[h].available
    BY <1>1 DEF Order
  <2>5. q.generation \notin DOMAIN D /\ o.generation # x.generation
    BY <1>3 DEF Fresh
  <2> QED
    BY <1>2, <1>3, <1>4, <1>6, <2>1, <2>2, <2>3, <2>4, <2>5, <2>6 DEF Order
<1>9. Ahead(w, x)
  BY <1>2 DEF Ahead, Grows
<1>10. Continues(w, x, D, q) /\ Counts(w, Owed(D, q)) /\ RecordTypes(o, D, q)
  BY <1>1, FreshContinues, FreshTypes
<1>11. Saves(w, x, D, q) /\ Saves(w, o, D, q)
  BY <1>1, <1>4, <1>10 DEF Saves
<1> QED
  BY <1>1, <1>7, <1>8, <1>9, <1>10, <1>11 DEF Panel

\* The panel once a sample of the present source is published.
LEMMA PanelContinued ==
  ASSUME NEW w, Surroundings(w), NEW s, NEW o, NEW D, NEW p, Panel(w, s, o, D, p), Live(w, s),
         NEW x, Figures(w, x), x.generation = s.generation, x.origin = w.iface,
         x.created = w.vn.created, x.updated = w.vn.updated, x.last = w.vn.total,
         x.source = s.source,
         NEW q, q.generation = s.generation, q.snapshot = w.vn, q.available = s.source,
         q.prefix = IF p.generation = s.generation THEN p.prefix ELSE NoRows
  PROVE  Panel(w, x, o, D, q)
<1>1. /\ RecordTypes(o, D, p) /\ Numbers(w, s, o, D, p) /\ Order(w, s, o, D, p)
      /\ Figures(w, o) /\ Ahead(w, o) /\ Saves(w, o, D, p) /\ Continues(w, s, D, p)
  BY DEF Panel
<1>2. /\ w.vn.created \in Nat /\ w.vn.updated \in Nat /\ w.vn.created <= w.vn.updated
      /\ w.now \in Nat /\ w.events \in Nat /\ w.vn.total \in Int /\ Grows(w.seen)
      /\ DOMAIN w.vn = {"created", "updated", "total", "rows"} /\ RowsTyped(w.vn.rows)
  BY DEF Surroundings, Snapshot
<1>3. s.generation # 0 /\ s.origin = w.iface /\ s.created = w.vn.created
  BY DEF Live
<1>4. Live(w, x) /\ ~Rebuilt(w, x)
  BY <1>2, <1>3 DEF Live, Rebuilt
<1>5. Numbers(w, x, o, D, q)
  BY <1>1, <1>3, <1>4 DEF Numbers
<1>6. Order(w, x, o, D, q)
  <2>1. /\ s.source \in Nat /\ s.source <= w.now /\ o.source \in Nat /\ o.source <= s.source
        /\ s.created <= s.source
        /\ o.generation = s.generation =>
             o.source = s.source /\ o.created = s.created /\ o.origin = s.origin
    BY <1>1, <1>3 DEF Order
  <2>6. o.generation = 0 => o.source = 0
    BY <1>1 DEF Order
  <2>2. o.generation # 0 =>
          /\ o.created \in Nat /\ o.created <= o.updated /\ o.created <= o.source
          /\ o.updated <= w.vn.updated
          /\ Rebuilt(w, o) => o.source <= w.vn.created
          /\ D[o.generation].available = o.source /\ D[o.generation].created = o.created
    BY <1>1 DEF Order
  <2>3. \A g \in DOMAIN D :
          /\ D[g].updated <= o.updated /\ D[g].available <= o.source
          /\ g # s.generation => D[g].updated <= s.source
          /\ \A h \in DOMAIN D : g < h => D[g].updated <= D[h].available
    BY <1>1 DEF Order
  <2>4. q.generation \in DOMAIN D => q.prefix = NoRows
    BY <1>1 DEF Order, RecordTypes
  <2> QED
    BY <1>2, <1>3, <1>4, <2>1, <2>2, <2>3, <2>4, <2>6 DEF Order
<1>7. Ahead(w, x)
  BY <1>2 DEF Ahead, Grows
<1>8. Cuts(x, D, q) = Cuts(s, D, p)
  BY DEF Cuts
<1>9. Current(w, x, D, q) = Current(w, s, D, p) /\ Owed(D, q) = Current(w, s, D, p)
  <2>1. Cuts(s, D, p) = Overlay(q.prefix, PrefixOf(D, q.generation))
    BY DEF Cuts
  <2> QED
    BY <1>8, <2>1 DEF Current, Owed
<1>10. Counts(w, Current(w, s, D, p))
  BY <1>1 DEF Continues
<1>11. RecordTypes(o, D, q)
  <2>1. RowsTyped(q.prefix)
    <3>1. p.generation = s.generation => RowsTyped(p.prefix)
      BY <1>1, <1>3 DEF RecordTypes
    <3> DEFINE f == q.prefix
    <3>2. (f = p.prefix /\ p.generation = s.generation) \/ f = NoRows
      OBVIOUS
    <3> HIDE DEF f
    <3>3. RowsTyped(f)
      BY <3>1, <3>2, NothingOverlaid
    <3> QED
      BY <3>3 DEF f
  <2>2. s.source \in Nat
    BY <1>1 DEF Order
  <2> QED
    BY <1>1, <1>2, <1>3, <2>1, <2>2 DEF RecordTypes
<1>12. Saves(w, x, D, q) /\ Saves(w, o, D, q)
  BY <1>1, <1>4, <1>9, <1>10 DEF Saves
<1>13. Continues(w, x, D, q)
  <2>1. Taken(x, D, q) = {RowsOf(D, s.generation), w.vn.rows}
    BY <1>3 DEF Taken
  <2>2. RowsOf(D, s.generation) \in Taken(s, D, p)
    BY DEF Taken
  <2>3. ASSUME ~w.astray, NEW taken \in Taken(x, D, q), NEW b \in DOMAIN taken \ DOMAIN w.vn.rows
        PROVE  /\ b + 4 <= w.vn.updated
               /\ x.source < b + 4 =>
                    Cut(taken[b], b, Cuts(x, D, q)) = Between(w, Later(b, x.source), b + 4)
    <3>1. taken \in Taken(s, D, p)
      BY <2>1, <2>2, <2>3
    <3> QED
      BY <1>1, <1>8, <2>3, <3>1 DEF Continues
  <2>4. ~w.astray => \A b \in DOMAIN Cuts(x, D, q) :
          \/ b \in DOMAIN w.vn.rows /\ Cuts(x, D, q)[b] <= w.vn.rows[b]
          \/ b + 4 <= w.vn.updated
    BY <1>1, <1>8 DEF Continues
  <2> QED
    BY <1>9, <1>10, <2>3, <2>4 DEF Continues
<1> QED
  BY <1>1, <1>5, <1>6, <1>7, <1>11, <1>12, <1>13 DEF Panel

-----------------------------------------------------------------------------
(* The three kinds of samples: the first, one of the same source, one of another. *)

Record(x) == [generation |-> x.generation, snapshot |-> read.snapshot, available |-> x.source,
              prefix |-> Prefix(st, Sourced(st, read), read)]
Publishes == Panel(World, Sampled(st, read), db.st, db.sources, Record(Sampled(st, read)))

LEMMA SampledNext ==
  ASSUME Reading
  PROVE  LET x == Sampled(st, read)
         IN  /\ x.reset \in Schedules /\ x.next \in Nat
             /\ x.next # 0 => World.now < x.next /\ x.next \in x.reset \cup {Beyond}
<1>1. DOMAIN st = Fields /\ World.now = now /\ read.schedule \in Schedules
  BY ReadingIs
<1> DEFINE x == Sampled(st, read)
<1>2. x.reset = read.schedule /\ x.next = IF read.schedule = {} THEN 0 ELSE nextReset(read.schedule)
  BY <1>1, SampledFields
<1> HIDE DEF x
<1> QED
  BY <1>1, <1>2, NextReset DEF x

LEMMA FirstPublished ==
  ASSUME Reading, st.generation = 0 PROVE Publishes
<1> DEFINE w == World
           x == Sampled(st, read)
           s == Sourced(st, read)
           m == Measured(st, s, read)
           r == Renewed(st, read)
           D == db.sources
           o == db.st
           q == Record(x)
<1>1. /\ DOMAIN st = Fields /\ Surroundings(w) /\ Panel(w, st, o, D, pending)
      /\ read.iface = w.iface /\ read.snapshot = w.vn /\ read.schedule \in Schedules
      /\ w.now = now
  BY ReadingIs
<1>2. /\ RecordTypes(o, D, pending) /\ Numbers(w, st, o, D, pending)
      /\ Order(w, st, o, D, pending)
  BY <1>1 DEF Panel
<1>3. o.generation = 0 /\ DOMAIN D = {}
  <2>1. o.generation = 0
    BY <1>2 DEF Numbers
  <2> QED
    BY <1>2, <2>1 DEF RecordTypes
<1>4. DOMAIN r = Fields
  BY <1>1, RenewedFields
<1>5. s = FirstSample(r, read)
  BY DEF Sourced
<1> HIDE DEF r
<1>6. /\ s.recordedFrom = w.vn.updated /\ s.period = w.vn.updated /\ s.source = w.vn.updated
      /\ s.manual = TRUE /\ s.baseline = w.vn.total /\ s.carry = 0
  BY <1>1, <1>4, <1>5, FieldsAre DEF FieldNames, FirstSample
<1>7. ~SameSource(st, read) /\ Generation(st, read) = 1
  BY DEF SameSource, Generation
<1>8. DOMAIN s = Fields
  BY <1>1, SourcedFields
<1> HIDE DEF s
<1>9. m.rx = s.carry + Later(0, read.snapshot.total - s.baseline)
  BY <1>6, <1>8 DEF Measured
<1>10. m.rx = 0
  <2>1. w.vn.total \in Int
    BY <1>1 DEF Surroundings, Snapshot
  <2> QED
    BY <1>1, <1>6, <1>9, <2>1 DEF Later
<1> HIDE DEF m
<1>11. /\ x.generation = 1 /\ x.origin = w.iface /\ x.created = w.vn.created
       /\ x.updated = w.vn.updated /\ x.last = w.vn.total /\ x.rx = 0
       /\ x.carry = 0 /\ x.baseline = w.vn.total /\ x.manual = TRUE /\ x.period = w.vn.updated
       /\ x.recordedFrom = w.vn.updated /\ x.source = w.vn.updated
  BY <1>1, <1>6, <1>7, <1>10, SampledFields DEF m, s
<1>12. /\ x.reset \in Schedules /\ x.next \in Nat
       /\ x.next # 0 => w.now < x.next /\ x.next \in x.reset \cup {Beyond}
  BY SampledNext
<1>13. q.generation = x.generation /\ q.snapshot = w.vn /\ q.available = x.source
       /\ q.prefix = Before(w.vn, x.source)
  BY <1>1, <1>6, <1>7, <1>11 DEF Record, Prefix, Before, s
<1> HIDE DEF x, q, w, o, D
<1>14. /\ w.vn.updated \in Nat /\ w.vn.updated <= w.now /\ w.vn.total \in Int /\ Grows(w.seen)
       /\ w.vn.updated \in w.noted
  BY <1>1 DEF Surroundings, Snapshot
<1>15. Between(w, w.vn.updated, w.vn.updated) = 0
  <2> DEFINE u == w.vn.updated
  <2>1. u \in Nat
    BY <1>14
  <2> HIDE DEF u
  <2>2. Between(w, u, u) = 0
    BY <1>14, <2>1, BetweenIs
  <2> QED
    BY <2>2 DEF u
<1>16. x.rx = (x.carry + x.last) - x.baseline
  BY <1>11, <1>14
<1>17. Figures(w, x)
  BY <1>1, <1>11, <1>12, <1>14, <1>15, <1>16, FiguresFrom
<1>18. Fresh(w, x, D, q)
  BY <1>3, <1>11, <1>13, <1>14 DEF Fresh
<1>19. ~Live(w, st) /\ st.source <= x.source /\ x.source <= w.now /\ x.generation = st.generation + 1
  <2>1. st.source = 0
    BY <1>2 DEF Order
  <2> QED
    BY <1>11, <1>14, <2>1 DEF Live
<1> QED
  BY <1>1, <1>3, <1>11, <1>14, <1>17, <1>18, <1>19, PanelFresh DEF Publishes, w, o, D, q, x

LEMMA ManualGrows ==
  ASSUME NEW w, Surroundings(w), NEW s, Figures(w, s), Ahead(w, s), Live(w, s), s.manual,
         s.last <= w.vn.total, s.updated <= w.vn.updated
  PROVE  LET rx == s.carry + Later(0, w.vn.total - s.baseline)
         IN  /\ rx \in Nat /\ rx <= Between(w, s.period, w.vn.updated)
             /\ ~w.astray /\ ~s.partial => rx = Between(w, s.period, w.vn.updated)
             /\ s.carry \in Int /\ s.baseline \in Int /\ s.baseline <= w.vn.total
             /\ rx = (s.carry + w.vn.total) - s.baseline
<1>1. /\ Grows(w.seen) /\ w.vn.updated \in Nat /\ w.vn.total \in Int
      /\ \A t \in Nat : w.vn.updated <= t => w.seen[t] = w.seen[w.vn.updated]
      /\ \A t \in w.noted : t \in Nat
  BY DEF Surroundings, Snapshot
<1>2. /\ s.carry \in Int /\ s.baseline \in Int /\ s.baseline <= s.last /\ s.last \in Int
      /\ s.rx = (s.carry + s.last) - s.baseline
      /\ s.rx <= Between(w, s.period, s.updated)
      /\ ~w.astray /\ ~s.partial => s.rx = Between(w, s.period, s.updated)
      /\ s.period \in Nat /\ s.updated \in Nat
      /\ s.updated < s.period => w.seen[s.period] = w.seen[s.updated]
      /\ s.rx \in Int /\ 0 <= s.rx
  <2>1. s.generation # 0
    BY DEF Live
  <2>2. s.rx = s.carry + s.last - s.baseline
    BY <2>1 DEF Figures
  <2> QED
    BY <1>1, <2>1, <2>2 DEF Figures
<1>3. /\ w.vn.total - s.last <= w.seen[w.vn.updated] - w.seen[s.updated]
      /\ ~w.astray => w.vn.total - s.last = w.seen[w.vn.updated] - w.seen[s.updated]
  BY DEF Ahead
<1> DEFINE rx == s.carry + Later(0, w.vn.total - s.baseline)
           u == w.vn.updated
           a == w.seen[s.updated]
           c == w.seen[s.period]
           d == w.seen[u]
<1>4. a \in Nat /\ c \in Nat /\ d \in Nat /\ u \in Nat
  BY <1>1, <1>2 DEF Grows
<1>5. a <= d /\ (s.updated < s.period => c = a)
      /\ (s.period <= s.updated => c <= a)
  BY <1>1, <1>2 DEF Grows
<1>6. Between(w, s.period, s.updated) = Later(0, a - c) /\ Between(w, s.period, u) = Later(0, d - c)
  BY DEF Between
<1>7. rx = s.rx + (w.vn.total - s.last) /\ rx = (s.carry + w.vn.total) - s.baseline
  BY <1>1, <1>2 DEF Later
<1> HIDE DEF rx, u, a, c, d
<1>8. rx <= s.rx + (d - a) /\ (~w.astray => rx = s.rx + (d - a)) /\ rx \in Nat
  BY <1>1, <1>2, <1>3, <1>4, <1>7 DEF a, d, u
<1>9. c <= a
  BY <1>2, <1>4, <1>5
<1>10. Later(0, a - c) = a - c /\ Later(0, d - c) = d - c
  BY <1>4, <1>5, <1>9 DEF Later
<1>11. rx <= Between(w, s.period, u) /\ (~w.astray /\ ~s.partial => rx = Between(w, s.period, u))
  BY <1>2, <1>4, <1>6, <1>8, <1>10
<1> QED
  BY <1>1, <1>2, <1>7, <1>8, <1>11 DEF rx, u

LEMMA FromBucketsHolds ==
  ASSUME Reading, SameSource(st, read), NEW s, s.source = st.source, s.period \in Nat
  PROVE  SumsUp(World, FromBuckets(st, s, read), s.period)
<1> DEFINE w == World
           D == db.sources
           g == st.generation
           merged == [read.snapshot EXCEPT !.rows = Overlay(SavedRows(g), @)]
           current == [generation |-> g, available |-> s.source, ended |-> 0,
                       snapshot |-> networkSince(merged, s.source,
                                      Overlay(Prefix(st, s, read), SavedPrefix(g)))]
           asked == networkSources(D, g, s.period, s.source)
           wanted == {y \in asked : s.source > s.period}
           others == {Closed(y, s.source) : y \in wanted}
<1>1. /\ Surroundings(w) /\ Panel(w, st, db.st, D, pending)
      /\ read.iface = w.iface /\ read.snapshot = w.vn
  BY ReadingIs
<1>2. Generation(st, read) = g /\ Live(w, st)
  BY <1>1 DEF Generation, SameSource, Live
<1>3. FromBuckets(st, s, read) = sumNetworkSources(others \cup {current}, s.period, w.vn.updated)
  BY <1>1, <1>2 DEF FromBuckets, Closed
<1>4. /\ current.available = s.source /\ current.ended = 0
      /\ current.snapshot = networkSince(merged, s.source,
                              Overlay(Prefix(st, s, read), SavedPrefix(g)))
  OBVIOUS
<1>5. current.snapshot = Current(w, st, D, pending)
  <2>1. merged = Merge(D, g, w.vn)
    BY <1>1 DEF Merge, SavedRows, RowsOf
  <2>2. Overlay(Prefix(st, s, read), SavedPrefix(g)) = Cuts(st, D, pending)
    BY DEF Prefix, UnsavedPrefix, SavedPrefix, PrefixOf, Cuts
  <2> QED
    BY <1>4, <2>1, <2>2 DEF Current
<1>6. IsFiniteSet(asked)
  <2> HIDE DEF w, D, g
  <2> QED
    BY <1>1, SavedSources
<1>7. wanted \in SUBSET asked
  OBVIOUS
<1>8. IsFiniteSet(wanted)
  <2> HIDE DEF wanted, asked
  <2> QED
    BY <1>6, <1>7, FS_Subset
<1>9. IsFiniteSet(others)
  <2> DEFINE f == [y \in wanted |-> Closed(y, s.source)]
  <2>1. f \in Surjection(wanted, others)
    BY DEF Surjection
  <2> HIDE DEF f, wanted, others
  <2> QED
    BY <1>8, <2>1, FS_Surjection
<1>10. \A x \in others : \E y \in networkSources(D, st.generation, s.period, st.source) :
         x = Closed(y, st.source)
  OBVIOUS
<1> DEFINE start == s.period
<1> HIDE DEF others, current, w, D, start
<1>11. start \in Nat /\ current.available = st.source /\ current.ended = 0
  BY <1>4 DEF start
<1>12. \A x \in others : \E y \in networkSources(D, st.generation, start, st.source) :
         x = Closed(y, st.source)
  BY <1>10 DEF start
<1>13. SumsUp(w, sumNetworkSources(others \cup {current}, start, w.vn.updated), start)
  BY <1>1, <1>2, <1>5, <1>9, <1>11, <1>12, BucketsSum
<1> QED
  BY <1>3, <1>13 DEF w, start

\* An unchanged source: more of the same, or a new period's sum of its buckets.
LEMMA ReceivedHolds ==
  ASSUME Reading, SameSource(st, read), NEW s, s.source = st.source, s.period \in Nat,
         ~Renews(st, read) => s.period = st.period
  PROVE  LET rx == IF Held(st, read, Received(st, s, read)) THEN st.rx ELSE Received(st, s, read)
         IN  /\ rx \in Nat /\ rx <= Between(World, s.period, World.vn.updated)
             /\ /\ ~World.astray /\ ~FromBuckets(st, s, read).partial
                /\ ~Held(st, read, Received(st, s, read))
                => rx = Between(World, s.period, World.vn.updated)
<1> DEFINE w == World
           sum == FromBuckets(st, s, read)
           u == w.vn.updated
           a == s.period
<1>1. /\ Surroundings(w) /\ Panel(w, st, db.st, db.sources, pending)
      /\ read.iface = w.iface /\ read.snapshot = w.vn /\ st.generation # 0
  BY ReadingIs DEF SameSource
<1>2. SumsUp(w, sum, a)
  BY FromBucketsHolds
<1>3. /\ Figures(w, st) /\ Order(w, st, db.st, db.sources, pending)
      /\ Grows(w.seen) /\ u \in Nat /\ \A t \in w.noted : t \in Nat
  BY <1>1 DEF Panel, Surroundings, Snapshot
<1>4. /\ st.rx <= Between(w, st.period, st.updated) /\ st.period \in Nat /\ st.updated \in Nat
      /\ st.updated <= u
  BY <1>1, <1>3 DEF Figures, Order
<1>5. st.rx \in Nat
  <2>1. w.seen[u] \in Nat
    BY <1>3 DEF Grows
  <2> QED
    BY <1>3, <2>1 DEF Figures
<1> HIDE DEF w, sum, u, a
<1>6. a \in Nat
  BY DEF a
<1>7. Between(w, st.period, st.updated) \in Nat /\ Between(w, a, u) \in Nat
  BY <1>3, <1>4, <1>6, BetweenIs
<1>8. a <= st.period => st.rx <= Between(w, a, u)
  <2> DEFINE pp == st.period
             pu == st.updated
  <2>1. pp \in Nat /\ pu \in Nat /\ pu <= u
    BY <1>4
  <2> HIDE DEF pp, pu
  <2>2. a <= pp => Between(w, pp, pu) <= Between(w, a, u)
    BY <1>3, <1>6, <2>1, BetweenGrows
  <2> QED
    BY <1>4, <1>5, <1>7, <2>2 DEF pp, pu
<1>9. /\ sum.bytes \in Nat /\ sum.bytes <= Between(w, a, u)
      /\ ~w.astray /\ ~sum.partial => sum.bytes = Between(w, a, u)
  BY <1>2 DEF SumsUp, u
<1>10. Received(st, s, read) = IF sum.partial /\ resetChanged(st, read) /\ a <= st.period
                               THEN Later(sum.bytes, st.rx) ELSE sum.bytes
  BY DEF Received, sum, a
<1> DEFINE rec == Received(st, s, read)
           held == Held(st, read, rec)
<1>11. held => a = st.period
  BY DEF Held, a
<1>12. /\ rec \in Nat /\ rec <= Between(w, a, u)
       /\ ~w.astray /\ ~sum.partial => rec = Between(w, a, u)
  <2> HIDE DEF rec
  <2>0. rec = IF sum.partial /\ resetChanged(st, read) /\ a <= st.period
              THEN Later(sum.bytes, st.rx) ELSE sum.bytes
    BY <1>10 DEF rec
  <2>1. CASE sum.partial /\ resetChanged(st, read) /\ a <= st.period
    BY <1>5, <1>8, <1>9, <2>0, <2>1 DEF Later
  <2>2. CASE ~(sum.partial /\ resetChanged(st, read) /\ a <= st.period)
    BY <1>9, <2>0, <2>2
  <2> QED
    BY <2>1, <2>2
<1> HIDE DEF rec, held
<1>13. LET rx == IF held THEN st.rx ELSE rec
       IN  /\ rx \in Nat /\ rx <= Between(w, a, u)
           /\ ~w.astray /\ ~sum.partial /\ ~held => rx = Between(w, a, u)
  <2>1. CASE held
    BY <1>4, <1>5, <1>8, <1>11, <2>1
  <2>2. CASE ~held
    BY <1>12, <2>2
  <2> QED
    BY <2>1, <2>2
<1> QED
  BY <1>13 DEF rec, held, sum, u, a, w

LEMMA SamePublished ==
  ASSUME Reading, SameSource(st, read) PROVE Publishes
<1> DEFINE w == World
           x == Sampled(st, read)
           s == Sourced(st, read)
           m == Measured(st, s, read)
           D == db.sources
           o == db.st
           p == pending
           q == Record(x)
<1>1. /\ DOMAIN st = Fields /\ Surroundings(w) /\ Panel(w, st, o, D, p)
      /\ read.iface = w.iface /\ read.snapshot = w.vn /\ read.schedule \in Schedules
      /\ w.now = now
  BY ReadingIs
<1>2. Live(w, st) /\ st.generation # 0 /\ Generation(st, read) = st.generation
  BY <1>1 DEF Generation, SameSource, Live
<1>3. s = Renewed(st, read)
  BY <1>2 DEF Sourced
<1>4. s.period \in w.noted
  BY <1>2, <1>3, PeriodNoted
<1>5. DOMAIN s = Fields
  BY <1>1, SourcedFields
<1> HIDE DEF s
<1>6. /\ s.baseline = st.baseline /\ s.partial = st.partial
      /\ s.source = st.source /\ s.recordedFrom = st.recordedFrom
      /\ ~Renews(st, read) => s.manual = st.manual /\ s.carry = st.carry /\ s.period = st.period
      /\ Renews(st, read) => ~s.manual
  BY <1>1, <1>3, RenewedFields
<1>7. /\ Figures(w, st) /\ Ahead(w, st) /\ Order(w, st, o, D, p)
      /\ \A t \in w.noted : t \in Nat
      /\ w.vn.updated \in Nat /\ w.vn.total \in Int /\ Grows(w.seen)
  BY <1>1 DEF Panel, Surroundings, Snapshot
<1>8. st.recordedFrom \in w.noted /\ st.updated <= w.vn.updated /\ st.last \in Int
  BY <1>2, <1>7 DEF Figures, Order
<1>9. st.last <= w.vn.total
  BY <1>1, <1>7, <1>8 DEF Reading, Refused, Backwards
<1>10. /\ m.rx \in Nat /\ m.rx <= Between(w, s.period, w.vn.updated)
       /\ ~w.astray /\ ~m.partial => m.rx = Between(w, s.period, w.vn.updated)
       /\ s.manual => /\ s.carry \in Int /\ s.baseline \in Int /\ s.baseline <= w.vn.total
                      /\ m.rx = (s.carry + w.vn.total) - s.baseline
  <2>1. CASE s.manual
    <3>1. /\ s.manual = st.manual /\ s.carry = st.carry /\ s.period = st.period /\ st.manual
      BY <1>6, <2>1
    <3>2. m.rx = s.carry + Later(0, w.vn.total - s.baseline) /\ m.partial = s.partial
      <4>1. m = [s EXCEPT !.rx = s.carry + Later(0, read.snapshot.total - s.baseline),
                          !.available = TRUE]
        BY <2>1 DEF Measured
      <4> HIDE DEF m
      <4> QED
        BY <1>1, <1>5, <4>1, FieldsAre DEF FieldNames
    <3> HIDE DEF m, w
    <3>3. LET rx == st.carry + Later(0, w.vn.total - st.baseline)
          IN  /\ rx \in Nat /\ rx <= Between(w, st.period, w.vn.updated)
              /\ ~w.astray /\ ~st.partial => rx = Between(w, st.period, w.vn.updated)
              /\ st.carry \in Int /\ st.baseline \in Int /\ st.baseline <= w.vn.total
              /\ rx = (st.carry + w.vn.total) - st.baseline
      BY <1>1, <1>2, <1>7, <1>8, <1>9, <3>1, ManualGrows
    <3> QED
      BY <1>6, <3>1, <3>2, <3>3
  <2>2. CASE ~s.manual
    <3> DEFINE rec == Received(st, s, read)
               held == Held(st, read, rec)
    <3>1. /\ m.rx = IF held THEN st.rx ELSE rec
          /\ ~m.partial => ~FromBuckets(st, s, read).partial /\ ~held
      BY <1>5, <2>2, MeasuredFields
    <3>2. s.period \in Nat
      BY <1>4, <1>7
    <3>3. LET rx == IF held THEN st.rx ELSE rec
          IN  /\ rx \in Nat /\ rx <= Between(w, s.period, w.vn.updated)
              /\ ~w.astray /\ ~FromBuckets(st, s, read).partial /\ ~held
                   => rx = Between(w, s.period, w.vn.updated)
      BY <1>6, <3>2, ReceivedHolds
    <3> HIDE DEF rec, held, m, w
    <3> QED
      BY <2>2, <3>1, <3>3
  <2> QED
    BY <2>1, <2>2
<1> HIDE DEF m
<1>11. /\ x.generation = st.generation /\ x.origin = w.iface /\ x.created = w.vn.created
       /\ x.updated = w.vn.updated /\ x.last = w.vn.total
       /\ x.rx = m.rx /\ x.partial = m.partial
       /\ x.carry = s.carry /\ x.baseline = s.baseline /\ x.manual = s.manual
       /\ x.period = s.period /\ x.recordedFrom = s.recordedFrom /\ x.source = s.source
  BY <1>1, <1>2, SampledFields DEF m, s
<1>12. /\ x.reset \in Schedules /\ x.next \in Nat
       /\ x.next # 0 => w.now < x.next /\ x.next \in x.reset \cup {Beyond}
  BY SampledNext
<1>13. /\ q.generation = x.generation /\ q.snapshot = w.vn /\ q.available = x.source
       /\ q.prefix = IF p.generation = st.generation THEN p.prefix ELSE NoRows
  BY <1>1 DEF Record, Prefix, UnsavedPrefix, s
<1> HIDE DEF x, q, w, o, D, p
<1>14. Figures(w, x)
  BY <1>1, <1>4, <1>6, <1>8, <1>10, <1>11, <1>12, FiguresFrom
<1> QED
  BY <1>1, <1>2, <1>6, <1>11, <1>13, <1>14, PanelContinued DEF Publishes, w, o, D, q, x, p

\* What is kept of the period when its source is gone.
LEMMA KeptHolds ==
  ASSUME Reading, st.generation # 0, NEW a \in Nat, ~Renews(st, read) => a = st.period
  PROVE  LET kept == Kept(st, read, a).bytes
         IN  /\ kept \in Nat /\ kept <= Between(World, a, st.updated)
             /\ ~Renews(st, read) \/ (~World.astray /\ a <= st.period) => st.rx <= kept
<1> DEFINE w == World
           D == db.sources
           u == st.updated
           pp == st.period
           sum == sumNetworkSources(networkSources(D, 0, a, u), a, u)
<1>1. Surroundings(w) /\ Panel(w, st, db.st, D, pending)
  BY ReadingIs
<1>2. Figures(w, st) /\ Grows(w.seen) /\ w.vn.updated \in Nat /\ \A t \in w.noted : t \in Nat
  BY <1>1 DEF Panel, Surroundings, Snapshot
<1>3. u \in Nat /\ pp \in Nat /\ st.rx <= Between(w, pp, u)
  BY <1>2 DEF Figures
<1>4. st.rx \in Nat
  <2>1. w.seen[w.vn.updated] \in Nat
    BY <1>2 DEF Grows
  <2> QED
    BY <1>2, <2>1 DEF Figures
<1>5. Kept(st, read, a).bytes = IF ~Renews(st, read) THEN st.rx
                                ELSE IF sum.partial /\ a <= pp THEN Later(sum.bytes, st.rx)
                                ELSE sum.bytes
  BY DEF Kept
<1> HIDE DEF u, pp
<1>6. /\ sum.bytes \in Nat /\ sum.bytes <= Between(w, a, u)
      /\ ~w.astray /\ ~sum.partial => sum.bytes = Between(w, a, u)
  <2> HIDE DEF w, D
  <2> QED
    BY <1>1, <1>3, SavedSum
<1> HIDE DEF sum, w, D
<1>7. Between(w, a, u) \in Nat /\ Between(w, pp, u) \in Nat
  BY <1>2, <1>3, BetweenIs
<1>8. a <= pp => Between(w, pp, u) <= Between(w, a, u)
  BY <1>2, <1>3, BetweenGrows
<1>9. CASE ~Renews(st, read)
  <2>1. Kept(st, read, a).bytes = st.rx /\ a = pp
    BY <1>5, <1>9 DEF pp
  <2> QED
    BY <1>3, <1>4, <2>1 DEF w, u
<1>10. CASE Renews(st, read) /\ sum.partial /\ a <= pp
  <2>1. Kept(st, read, a).bytes = Later(sum.bytes, st.rx)
    BY <1>5, <1>10
  <2> QED
    BY <1>3, <1>4, <1>6, <1>7, <1>8, <1>10, <2>1 DEF w, u, Later
<1>11. CASE Renews(st, read) /\ ~(sum.partial /\ a <= pp)
  <2>1. Kept(st, read, a).bytes = sum.bytes
    BY <1>5, <1>11
  <2> QED
    BY <1>3, <1>4, <1>6, <1>7, <1>8, <1>11, <2>1 DEF w, u, pp
<1> QED
  BY <1>9, <1>10, <1>11

\* The new source's own part, of a database that was made after the old one's last save.
LEMMA OldHolds ==
  ASSUME Reading, st.generation # 0, Recreated(st, read), NEW a \in Nat, NEW from \in Nat
  PROVE  LET old == Sum(read.snapshot, Later(a, from), read.snapshot.updated).bytes
         IN  /\ old \in Nat /\ Counts(World, World.vn) /\ st.source <= World.vn.created
             /\ \A kept \in Nat : kept <= Between(World, a, st.updated) =>
                  kept + old <= Between(World, a, World.vn.updated)
<1> DEFINE w == World
           v == w.vn
           u == v.updated
           pu == st.updated
           start == Later(a, from)
           old == Sum(v, start, u).bytes
           low == Later(start, v.created)
<1>1. /\ Surroundings(w) /\ Panel(w, st, db.st, db.sources, pending)
      /\ read.iface = w.iface /\ read.snapshot = v
  BY ReadingIs
<1>2. /\ Figures(w, st) /\ Grows(w.seen) /\ u \in Nat /\ v.created \in Nat /\ v.created <= u
      /\ RowsTyped(v.rows) /\ u <= Horizon /\ \A t \in w.noted : t \in Nat
  BY <1>1, Bounds DEF Panel, Surroundings, Snapshot
<1>3. pu \in Nat
  BY <1>2 DEF Figures
<1>4. pu < v.created /\ Rebuilt(w, st)
  BY <1>1, <1>2, <1>3 DEF Recreated, Rebuilt
<1>5. Counts(w, v) /\ st.source <= v.created
  BY <1>1, <1>4 DEF Panel, Saves, Order
<1>6. start \in Nat /\ a <= start
  BY LaterIs
<1>7. low \in Nat /\ start <= low /\ v.created <= low
  BY <1>2, <1>6, LaterIs
<1> HIDE DEF start
<1>8. old \in Nat /\ old <= Between(w, low, u)
  <2> HIDE DEF v, w, old, u
  <2>1. /\ Sum(v, start, u).bytes \in Nat
        /\ Sum(v, start, u).bytes <= Between(w, Later(start, v.created), Earlier(u, v.updated))
    BY <1>2, <1>5, <1>6, SumHolds DEF u
  <2>2. Earlier(u, v.updated) = u
    BY <1>2 DEF Earlier, u
  <2> QED
    BY <2>1, <2>2 DEF old
<1> HIDE DEF old, v, w, low, u, pu
<1>9. /\ Between(w, a, pu) = Later(0, w.seen[pu] - w.seen[a])
      /\ Between(w, low, u) = Later(0, w.seen[u] - w.seen[low])
      /\ Between(w, a, u) = Later(0, w.seen[u] - w.seen[a])
  BY DEF Between
<1>10. /\ w.seen[pu] \in Nat /\ w.seen[a] \in Nat /\ w.seen[u] \in Nat /\ w.seen[low] \in Nat
       /\ w.seen[pu] <= w.seen[low] /\ w.seen[a] <= w.seen[low] /\ w.seen[pu] <= w.seen[u]
  BY <1>2, <1>3, <1>4, <1>6, <1>7 DEF Grows
<1>11. ASSUME NEW kept \in Nat, kept <= Between(w, a, pu) PROVE kept + old <= Between(w, a, u)
  BY <1>8, <1>9, <1>10, <1>11 DEF Later
<1> QED
  BY <1>1, <1>5, <1>8, <1>11 DEF old, v, w, u, pu, start

LEMMA SwitchFields ==
  ASSUME DOMAIN st = Fields, st.generation # 0, ~SameSource(st, read)
  PROVE  LET s == Sourced(st, read)
             s0 == Renewed(st, read)
             kept == Kept(st, read, s0.period).bytes
         IN  /\ DOMAIN s = Fields
             /\ s.period = s0.period /\ s.recordedFrom = st.recordedFrom
             /\ s.manual = TRUE /\ s.partial = TRUE /\ s.carry = kept
             /\ s.source = IF Recreated(st, read) THEN read.snapshot.created ELSE now
             /\ s.baseline = Baseline(s0, st, read)
<1> DEFINE s0 == Renewed(st, read)
           kept == Kept(st, read, s0.period).bytes
           base == Baseline(s0, st, read)
           from == IF Recreated(st, read) THEN read.snapshot.created ELSE now
           x == [s0 EXCEPT !.rx = kept, !.carry = kept, !.manual = TRUE, !.partial = TRUE,
                           !.source = from, !.baseline = base]
<1>1. Sourced(st, read) = x
  BY DEF Sourced, SwitchSource
<1>2. DOMAIN s0 = Fields /\ s0.recordedFrom = st.recordedFrom
  BY RenewedFields
<1> HIDE DEF s0, kept, base, from
<1>3. /\ DOMAIN x = Fields /\ x.period = s0.period /\ x.recordedFrom = s0.recordedFrom
      /\ x.manual = TRUE /\ x.partial = TRUE /\ x.carry = kept /\ x.source = from
      /\ x.baseline = base
  BY <1>2, FieldsAre DEF FieldNames
<1> HIDE DEF x
<1> QED
  BY <1>1, <1>2, <1>3 DEF s0, kept, base, from

LEMMA SwitchMeasured ==
  ASSUME Reading, st.generation # 0, ~SameSource(st, read)
  PROVE  LET x == Sampled(st, read)
         IN  /\ x.generation = st.generation + 1 /\ x.origin = World.iface
             /\ x.created = World.vn.created /\ x.updated = World.vn.updated
             /\ x.last = World.vn.total /\ x.partial
             /\ x.period \in World.noted /\ x.recordedFrom \in World.noted
             /\ x.source = IF Recreated(st, read) THEN World.vn.created ELSE now
             /\ x.rx \in Nat /\ x.rx <= Between(World, x.period, World.vn.updated)
             /\ x.carry \in Int /\ x.baseline \in Int /\ x.baseline <= x.last
             /\ x.rx = (x.carry + x.last) - x.baseline
             /\ ~Renews(st, read) \/ (~World.astray /\ x.period <= st.period) => st.rx <= x.rx
             /\ Recreated(st, read) =>
                  Counts(World, World.vn) /\ st.source <= World.vn.created
<1> DEFINE w == World
           x == Sampled(st, read)
           s == Sourced(st, read)
           s0 == Renewed(st, read)
           m == Measured(st, s, read)
           kept == Kept(st, read, s0.period).bytes
           old == Sum(read.snapshot, Later(s0.period, s0.recordedFrom), read.snapshot.updated).bytes
           add == IF Recreated(st, read) THEN old ELSE 0
           a == s0.period
<1>1. /\ DOMAIN st = Fields /\ Surroundings(w) /\ Panel(w, st, db.st, db.sources, pending)
      /\ read.iface = w.iface /\ read.snapshot = w.vn
  BY ReadingIs
<1>2. /\ DOMAIN s = Fields /\ s.period = a /\ s.recordedFrom = st.recordedFrom
      /\ s.manual = TRUE /\ s.partial = TRUE /\ s.carry = kept
      /\ s.source = IF Recreated(st, read) THEN w.vn.created ELSE now
      /\ s.baseline = Baseline(s0, st, read)
  BY <1>1, SwitchFields
<1>3. Baseline(s0, st, read) = w.vn.total - add
  BY <1>1 DEF Baseline
<1>4. a \in w.noted /\ (~Renews(st, read) => a = st.period) /\ s0.recordedFrom = st.recordedFrom
  BY <1>1, PeriodNoted, RenewedFields
<1>5. /\ st.recordedFrom \in w.noted /\ \A t \in w.noted : t \in Nat
      /\ w.vn.total \in Int /\ Figures(w, st) /\ Order(w, st, db.st, db.sources, pending)
      /\ Grows(w.seen) /\ w.vn.updated \in Nat
  BY <1>1 DEF Panel, Figures, Surroundings, Snapshot
<1>6. a \in Nat /\ st.recordedFrom \in Nat /\ st.updated \in Nat /\ st.updated <= w.vn.updated
  BY <1>4, <1>5 DEF Figures, Order
<1>7. /\ kept \in Nat /\ kept <= Between(w, a, st.updated)
      /\ ~Renews(st, read) \/ (~w.astray /\ a <= st.period) => st.rx <= kept
  <2> HIDE DEF s0, s, m, x
  <2> QED
    BY <1>4, <1>6, KeptHolds
<1>8. Recreated(st, read) =>
        /\ old \in Nat /\ Counts(w, w.vn) /\ st.source <= w.vn.created
        /\ \A k \in Nat : k <= Between(w, a, st.updated) => k + old <= Between(w, a, w.vn.updated)
  <2> DEFINE from == s0.recordedFrom
  <2>1. from \in Nat
    BY <1>4, <1>6
  <2> HIDE DEF s0, s, m, x, from, a
  <2>2. Recreated(st, read) =>
        LET ol == Sum(read.snapshot, Later(a, from), read.snapshot.updated).bytes
        IN  /\ ol \in Nat /\ Counts(w, w.vn) /\ st.source <= w.vn.created
            /\ \A k \in Nat : k <= Between(w, a, st.updated) => k + ol <= Between(w, a, w.vn.updated)
    BY <1>6, <2>1, OldHolds
  <2> QED
    BY <2>2 DEF from, a
<1> HIDE DEF s0, kept, old, a, w
<1>9. Between(w, a, st.updated) <= Between(w, a, w.vn.updated)
  <2> DEFINE u == w.vn.updated
             pu == st.updated
  <2>1. u \in Nat /\ pu \in Nat /\ pu <= u /\ a <= a
    BY <1>5, <1>6
  <2> HIDE DEF u, pu
  <2>2. Between(w, a, pu) <= Between(w, a, u)
    BY <1>5, <1>6, <2>1, BetweenGrows
  <2> QED
    BY <2>2 DEF u, pu
<1>10. Between(w, a, st.updated) \in Nat /\ Between(w, a, w.vn.updated) \in Nat
  BY <1>5, <1>6 DEF Between, Later, Grows
<1>11. add \in Nat /\ kept + add <= Between(w, a, w.vn.updated)
  <2>1. CASE Recreated(st, read)
    BY <1>7, <1>8, <2>1
  <2>2. CASE ~Recreated(st, read)
    <3>1. add = 0
      BY <2>2
    <3> HIDE DEF add
    <3> QED
      BY <1>7, <1>9, <1>10, <3>1
  <2> QED
    BY <2>1, <2>2
<1>12. m.rx = s.carry + Later(0, w.vn.total - s.baseline) /\ m.partial = s.partial
  <2> HIDE DEF s
  <2>1. m = [s EXCEPT !.rx = s.carry + Later(0, read.snapshot.total - s.baseline),
                      !.available = TRUE]
    BY <1>2 DEF Measured
  <2> HIDE DEF m
  <2> QED
    BY <1>1, <1>2, <2>1, FieldsAre DEF FieldNames
<1> HIDE DEF add, s
<1>13. s.carry = kept /\ s.baseline = w.vn.total - add
  BY <1>2, <1>3
<1> HIDE DEF m
<1>14. m.rx = kept + add /\ m.rx \in Nat /\ s.baseline \in Int /\ s.baseline <= w.vn.total
       /\ m.rx = (s.carry + w.vn.total) - s.baseline
  BY <1>5, <1>7, <1>11, <1>12, <1>13 DEF Later
<1>15. Generation(st, read) = st.generation + 1
  BY DEF Generation
<1>16. /\ x.generation = st.generation + 1 /\ x.origin = w.iface /\ x.created = w.vn.created
       /\ x.updated = w.vn.updated /\ x.last = w.vn.total
       /\ x.rx = m.rx /\ x.partial = m.partial
       /\ x.carry = s.carry /\ x.baseline = s.baseline
       /\ x.period = s.period /\ x.recordedFrom = s.recordedFrom /\ x.source = s.source
  BY <1>1, <1>15, SampledFields DEF m, s
<1> HIDE DEF x
<1>17. ~Renews(st, read) \/ (~w.astray /\ a <= st.period) => st.rx <= m.rx
  <2>1. st.rx \in Int
    BY <1>5 DEF Figures
  <2> QED
    BY <1>7, <1>11, <1>14, <2>1
<1> QED
  BY <1>2, <1>4, <1>5, <1>7, <1>8, <1>11, <1>12, <1>13, <1>14, <1>16, <1>17 DEF x, w

LEMMA SwitchPublished ==
  ASSUME Reading, st.generation # 0, ~SameSource(st, read) PROVE Publishes
<1> DEFINE w == World
           x == Sampled(st, read)
           D == db.sources
           o == db.st
           p == pending
           q == Record(x)
<1>1. /\ DOMAIN st = Fields /\ Surroundings(w) /\ Panel(w, st, o, D, p)
      /\ read.iface = w.iface /\ read.snapshot = w.vn /\ w.now = now
  BY ReadingIs
<1>2. /\ x.generation = st.generation + 1 /\ x.origin = w.iface
      /\ x.created = w.vn.created /\ x.updated = w.vn.updated
      /\ x.last = w.vn.total /\ x.partial
      /\ x.period \in w.noted /\ x.recordedFrom \in w.noted
      /\ x.source = IF Recreated(st, read) THEN w.vn.created ELSE now
      /\ x.rx \in Nat /\ x.rx <= Between(w, x.period, w.vn.updated)
      /\ x.carry \in Int /\ x.baseline \in Int /\ x.baseline <= x.last
      /\ x.rx = (x.carry + x.last) - x.baseline
      /\ Recreated(st, read) => Counts(w, w.vn) /\ st.source <= w.vn.created
  BY SwitchMeasured
<1>3. /\ x.reset \in Schedules /\ x.next \in Nat
      /\ x.next # 0 => w.now < x.next /\ x.next \in x.reset \cup {Beyond}
  BY SampledNext
<1>4. ~Live(w, st)
  BY <1>1 DEF Live, SameSource
<1>5. x.source = Sourced(st, read).source
  BY <1>1, SampledFields
<1>6. /\ q.generation = x.generation /\ q.snapshot = w.vn /\ q.available = x.source
      /\ q.prefix = Before(w.vn, x.source)
  BY <1>1, <1>5 DEF Record, Prefix, Before
<1>7. Recreated(st, read) => st.updated < w.vn.created
  BY <1>1 DEF Recreated
<1> HIDE DEF x, q, w, o, D, p
<1>8. Figures(w, x)
  BY <1>1, <1>2, <1>3, FiguresFrom
<1>9. /\ RecordTypes(o, D, p) /\ Numbers(w, st, o, D, p) /\ Order(w, st, o, D, p)
  BY <1>1 DEF Panel
<1>10. /\ w.vn.created \in Nat /\ w.vn.updated \in Nat /\ w.vn.created <= w.vn.updated
       /\ w.vn.updated <= w.now /\ w.now \in Nat
  BY <1>1 DEF Surroundings, Snapshot
<1>11. x.source \in Nat /\ x.source <= w.now /\ st.source <= x.source
  BY <1>1, <1>2, <1>9, <1>10 DEF Order
<1>12. Fresh(w, x, D, q)
  <2>1. /\ x.generation \in Nat \ {0} /\ x.generation \notin DOMAIN D
    BY <1>2, <1>9 DEF Numbers, RecordTypes
  <2>2. w.vn.updated <= x.source \/ (x.source = w.vn.created /\ Counts(w, w.vn))
    BY <1>1, <1>2, <1>10
  <2> QED
    BY <1>6, <1>11, <2>1, <2>2 DEF Fresh
<1>13. \A g \in DOMAIN D : D[g].updated <= x.source
  <2> SUFFICES ASSUME NEW g \in DOMAIN D PROVE D[g].updated <= x.source
    OBVIOUS
  <2>1. /\ D[g].updated \in Nat /\ D[g].updated <= o.updated /\ o.updated <= st.updated
        /\ o.updated \in Nat
    BY <1>1, <1>9 DEF RecordTypes, Numbers, Order, Panel, Figures, Surroundings
  <2>2. st.updated \in Nat /\ st.updated <= w.vn.updated
    BY <1>1, <1>9 DEF Order, Panel, Figures, Surroundings
  <2>3. D[g].updated <= w.vn.updated /\ (Recreated(st, read) => D[g].updated <= w.vn.created)
    BY <1>7, <1>10, <2>1, <2>2
  <2> QED
    BY <1>1, <1>2, <1>10, <2>1, <2>3
<1> QED
  BY <1>1, <1>2, <1>4, <1>8, <1>11, <1>12, <1>13, PanelFresh DEF Publishes, w, o, D, q, x, p

LEMMA PublishHolds == ASSUME Reading PROVE Publishes
<1>1. CASE st.generation = 0
  BY <1>1, FirstPublished
<1>2. CASE st.generation # 0 /\ SameSource(st, read)
  BY <1>2, SamePublished
<1>3. CASE st.generation # 0 /\ ~SameSource(st, read)
  BY <1>3, SwitchPublished
<1> QED
  BY <1>1, <1>2, <1>3

\* A new period begins after the old one, unless the schedule was changed.
LEMMA PeriodAdvances ==
  ASSUME Reading, st.generation # 0, periodChanged(st, read), ~resetChanged(st, read)
  PROVE  st.period < Renewed(st, read).period
<1> DEFINE S == read.schedule
           X == {b \in S : b <= now} \cup {1}
           n == st.next
           from == st.recordedFrom
<1>1. /\ DOMAIN st = Fields /\ Surroundings(World) /\ S \in Schedules /\ World.now = now
      /\ Panel(World, st, db.st, db.sources, pending)
  BY ReadingIs
<1>2. S # {} /\ n # 0 /\ n <= now /\ st.reset = S
  BY DEF periodChanged, resetChanged
<1>3. /\ st.period < n /\ n \in S \cup {Beyond} /\ st.period \in Nat /\ from \in Nat /\ n \in Nat
  BY <1>1, <1>2 DEF Panel, Figures, Surroundings
<1>4. now \in Nat /\ now < Beyond
  BY <1>1, Bounds DEF Surroundings, Beyond, Width
<1>5. n \in X
  BY <1>2, <1>3, <1>4
<1>6. X \subseteq 0..now /\ X # {}
  BY <1>1, <1>4, Bounds DEF Surroundings
<1>7. previousReset(S) = Max(X)
  BY DEF previousReset
<1>8. Renewed(st, read).period = Later(previousReset(S), from)
  BY <1>1, <1>2, RenewedFields DEF Renews
<1> HIDE DEF X, S, n, from
<1>9. Max(X) \in X /\ n <= Max(X)
  BY <1>4, <1>5, <1>6, MaxIs
<1> DEFINE last == Max(X)
<1> HIDE DEF last
<1>10. last \in X /\ n <= last
  BY <1>9 DEF last
<1>11. Renewed(st, read).period = Later(last, from)
  BY <1>7, <1>8 DEF last, S, from
<1>12. last \in Nat
  BY <1>4, <1>6, <1>10
<1> QED
  BY <1>3, <1>10, <1>11, <1>12 DEF Later

\* A sample whose period begins no later takes back nothing.
LEMMA SampleNeverFalls ==
  ASSUME Reading, st.generation # 0,
         Sampled(st, read).period <= st.period,
         ~astray \/ Sampled(st, read).reset = st.reset
  PROVE  st.rx <= Sampled(st, read).rx
<1> DEFINE w == World
           x == Sampled(st, read)
           s == Sourced(st, read)
           s0 == Renewed(st, read)
           m == Measured(st, s, read)
<1> SUFFICES st.rx <= x.rx
  OBVIOUS
<1>1. /\ DOMAIN st = Fields /\ Surroundings(w) /\ Panel(w, st, db.st, db.sources, pending)
      /\ read.iface = w.iface /\ read.snapshot = w.vn /\ w.astray = astray
  BY ReadingIs, WorldIs
<1>2. x.period = s.period /\ x.reset = read.schedule /\ x.rx = m.rx
  BY <1>1, SampledFields
<1>3. s.period = s0.period /\ s0.period \in Nat
  <2>1. s0.period \in Nat
    BY <1>1, PeriodNoted DEF Surroundings
  <2>2. CASE SameSource(st, read)
    BY <2>1, <2>2 DEF Sourced
  <2>3. CASE ~SameSource(st, read)
    BY <1>1, <2>1, <2>3, SwitchFields
  <2> QED
    BY <2>2, <2>3
<1>4. /\ Figures(w, st) /\ Ahead(w, st) /\ Order(w, st, db.st, db.sources, pending)
      /\ Grows(w.seen) /\ w.vn.updated \in Nat /\ w.vn.total \in Int
      /\ \A t \in w.noted : t \in Nat
  BY <1>1 DEF Panel, Surroundings, Snapshot
<1>5. /\ st.rx \in Nat /\ st.period \in Nat /\ st.updated \in Nat /\ st.updated <= w.vn.updated
      /\ st.rx <= Between(w, st.period, st.updated) /\ st.last \in Int
  <2>1. w.seen[w.vn.updated] \in Nat
    BY <1>4 DEF Grows
  <2> QED
    BY <1>4, <2>1 DEF Figures, Order
<1>6. ~Renews(st, read) \/ ~w.astray
  <2>1. ~resetChanged(st, read) => ~periodChanged(st, read)
    <3>1. ~(st.period < s0.period)
      BY <1>2, <1>3, <1>5
    <3> QED
      BY <3>1, PeriodAdvances
  <2>2. w.astray => ~resetChanged(st, read)
    BY <1>1, <1>2 DEF resetChanged
  <2> QED
    BY <2>1, <2>2 DEF Renews
<1>7. CASE ~SameSource(st, read)
  <2>1. ~Renews(st, read) \/ (~w.astray /\ x.period <= st.period) => st.rx <= x.rx
    BY <1>7, SwitchMeasured
  <2> QED
    BY <1>6, <2>1
<1>8. CASE SameSource(st, read)
  <2>1. s = s0 /\ DOMAIN s = Fields
    BY <1>1, <1>8, SourcedFields DEF Sourced
  <2> HIDE DEF s
  <2>2. /\ s.baseline = st.baseline /\ s.source = st.source
        /\ ~Renews(st, read) => s.manual = st.manual /\ s.carry = st.carry /\ s.period = st.period
        /\ Renews(st, read) => ~s.manual
    BY <1>1, <2>1, RenewedFields
  <2>3. CASE s.manual
    <3>1. st.manual /\ s.carry = st.carry
      BY <2>2, <2>3
    <3>2. st.last <= w.vn.total
      BY <1>1, <1>4, <1>5, <1>8 DEF Reading, Refused, Backwards
    <3>3. /\ st.carry \in Int /\ st.baseline \in Int /\ st.baseline <= st.last
          /\ st.rx = (st.carry + st.last) - st.baseline
      <4>1. st.rx = st.carry + st.last - st.baseline
        BY <1>4, <3>1 DEF Figures
      <4> QED
        BY <1>4, <3>1, <4>1 DEF Figures
    <3>4. m.rx = s.carry + Later(0, w.vn.total - s.baseline)
      <4> HIDE DEF s
      <4>1. m = [s EXCEPT !.rx = s.carry + Later(0, read.snapshot.total - s.baseline),
                          !.available = TRUE]
        BY <2>3 DEF Measured
      <4> HIDE DEF m
      <4> QED
        BY <1>1, <2>1, <4>1, FieldsAre DEF FieldNames
    <3> HIDE DEF m, s, x, w
    <3> QED
      BY <1>2, <1>4, <1>5, <2>2, <3>1, <3>2, <3>3, <3>4 DEF Later
  <2>4. CASE ~s.manual
    <3> HIDE DEF s, s0
    <3> DEFINE rec == Received(st, s, read)
               held == Held(st, read, rec)
               sum == FromBuckets(st, s, read)
               a == s.period
    <3>1. m.rx = IF held THEN st.rx ELSE rec
      BY <2>1, <2>4, MeasuredFields
    <3>2. CASE held
      BY <1>2, <1>5, <3>1, <3>2
    <3>3. CASE ~held
      <4>1. x.rx = rec /\ a \in Nat /\ a <= st.period
        BY <1>2, <1>3, <3>1, <3>3
      <4>2. /\ rec \in Nat
            /\ ~w.astray /\ ~sum.partial => rec = Between(w, a, w.vn.updated)
        <5>1. LET rx == IF held THEN st.rx ELSE rec
              IN  /\ rx \in Nat /\ rx <= Between(w, a, w.vn.updated)
                  /\ ~w.astray /\ ~sum.partial /\ ~held => rx = Between(w, a, w.vn.updated)
          BY <1>8, <2>2, <4>1, ReceivedHolds
        <5> HIDE DEF rec, held, sum, w, a
        <5> QED
          BY <3>3, <5>1
      <4>3. CASE ~Renews(st, read)
        <5>1. ~(rec < st.rx)
          BY <3>3, <4>3 DEF Held
        <5> QED
          BY <1>5, <4>1, <4>2, <5>1
      <4>4. CASE Renews(st, read) /\ sum.partial
        <5>1. resetChanged(st, read)
          <6>1. ~(st.period < s0.period)
            BY <1>3, <1>5, <4>1
          <6> QED
            BY <4>4, <6>1, PeriodAdvances DEF Renews, s0
        <5>2. rec = Later(sum.bytes, st.rx) /\ sum.bytes \in Nat
          <6>1. SumsUp(w, sum, a)
            BY <1>8, <2>2, <4>1, FromBucketsHolds
          <6> QED
            BY <4>1, <4>4, <5>1, <6>1 DEF Received, SumsUp
        <5> HIDE DEF rec, sum, x
        <5> QED
          BY <1>5, <4>1, <5>2 DEF Later
      <4>5. CASE Renews(st, read) /\ ~sum.partial
        <5>1. rec = Between(w, a, w.vn.updated)
          BY <1>6, <4>2, <4>5
        <5>2. Between(w, st.period, st.updated) <= Between(w, a, w.vn.updated)
          <6> DEFINE u == w.vn.updated
                     pp == st.period
                     pu == st.updated
          <6>1. u \in Nat /\ pu \in Nat /\ pu <= u /\ pp \in Nat /\ a <= pp
            BY <1>4, <1>5, <4>1
          <6> HIDE DEF u, pu, pp, a, w
          <6>2. Between(w, pp, pu) <= Between(w, a, u)
            BY <1>4, <4>1, <6>1, BetweenGrows
          <6> QED
            BY <6>2 DEF u, pp, pu
        <5>3. Between(w, st.period, st.updated) \in Nat /\ Between(w, a, w.vn.updated) \in Nat
          BY <1>4, <1>5, <4>1 DEF Between, Later, Grows
        <5> HIDE DEF rec, x, w, a
        <5> QED
          BY <1>5, <4>1, <4>2, <5>1, <5>2, <5>3
      <4> QED
        BY <4>3, <4>4, <4>5
    <3> QED
      BY <3>2, <3>3
  <2> QED
    BY <2>3, <2>4
<1> QED
  BY <1>7, <1>8

-----------------------------------------------------------------------------
(* What does not concern vnStat. *)

LEMMA WorldThen == EstimateInv /\ Books => Surroundings(World)
  BY WorldHolds

LEMMA WorldNext == ASSUME EstimateInv', Books' PROVE Surroundings(World')
<1>1. (EstimateInv /\ Books => Surroundings(World))'
  BY WorldThen, PTL
<1> QED
  BY <1>1

\* World in the next state.
LEMMA WorldNextIs ==
  /\ World'.now = now' /\ World'.events = events' /\ World'.seen = Hull(past')
  /\ World'.noted = {t \in Instants : t <= now' /\ past'[t].seen = Hull(past')[t]}
  /\ World'.astray = astray' /\ World'.iface = iface'
  /\ DOMAIN World'.vn = {"created", "updated", "total", "rows"}
  /\ World'.vn.created = vn'[iface'].created /\ World'.vn.updated = updated'
  /\ World'.vn.total = vn'[iface'].total /\ World'.vn.rows = vn'[iface'].rows
  BY DEF World, Present, Noted

LEMMA BooksStay ==
  ASSUME Books, UNCHANGED <<now, vn, updated, recorded, inSlot, past, astray>>,
         fresh' \in Nat, recorded + fresh' <= carried', carried' <= MaxBytes,
         events' \in Nat, events' <= MaxEvents,
         read' \in {read, NoRead} \/ (read'.iface \in Ifaces /\ read'.snapshot = Present(read'.iface))
  PROVE  Books'
<1>1. \A i : Present(i)' = Present(i)
  BY DEF Present
<1>2. \A i \in Ifaces : Snapshot(Present(i))'
  BY <1>1 DEF Books
<1>3. (read # NoRead => read.iface \in Ifaces /\ read.snapshot = Present(read.iface))'
  BY DEF Present, Books
<1>4. /\ \A t \in Instants : past'[t].seen \in 0..recorded'
      /\ past'[updated'].seen = recorded'
      /\ \A t \in Instants : t % 2 = 0 /\ t < now' => past'[t].seen = Hull(past')[t]
      /\ DOMAIN inSlot' = Slots
      /\ \A b \in Slots : inSlot'[b] = Hull(past')[b + 4] - Hull(past')[b]
  BY DEF Books
<1>5. {recorded, fresh, events}' \subseteq Nat /\ recorded' + fresh' <= carried'
  BY DEF Books
<1> QED
  BY <1>2, <1>3, <1>4, <1>5 DEF Books

LEMMA PanelTime ==
  ASSUME EstimateInv, Books, EstimateInv', Books',
         UNCHANGED <<now, iface, vn, updated, past, astray>>, events <= events',
         NEW s, NEW o, NEW D, NEW p, Panel(World, s, o, D, p)
  PROVE  Panel(World', s, o, D, p)
<1>1. Surroundings(World) /\ Surroundings(World')
  BY WorldHolds, WorldNext
<1>2. World'.vn = World.vn
  BY DEF World, Present
<1>3. World'.noted = World.noted
  BY WorldIs, WorldNextIs DEF Noted
<1>4. now \in Nat
  BY Bounds DEF EstimateInv, ClockTypes
<1>5. Older(World, World')
  BY <1>2, <1>3, <1>4, WorldIs, WorldNextIs DEF Older
<1> QED
  BY <1>1, <1>5, PanelOlder

-----------------------------------------------------------------------------
(* Time, bytes, accidents. *)

LEMMA UsageThen ==
  ASSUME EstimateInv', Books', Panel(World', st', db'.st, db'.sources, pending')
  PROVE  UsageInv'
  BY DEF UsageInv

LEMMA UsageParts ==
  ASSUME UsageInv
  PROVE  /\ EstimateInv /\ Books /\ Panel(World, st, db.st, db.sources, pending)
         /\ Surroundings(World)
         /\ {now, updated, recorded, fresh, carried, events, MaxBytes, MaxEvents} \subseteq Nat
         /\ updated <= now /\ now % 2 = 1 /\ now \in Instants /\ recorded + fresh <= carried
         /\ carried <= MaxBytes /\ events <= MaxEvents /\ iface \in Ifaces
<1>1. EstimateInv /\ Books /\ Panel(World, st, db.st, db.sources, pending)
  BY DEF UsageInv
<1>2. Surroundings(World)
  BY <1>1, WorldHolds
<1>3. now \in Start..Horizon /\ now % 2 = 1 /\ updated \in Start..now /\ iface \in Ifaces
  BY <1>1 DEF EstimateInv, ClockTypes
<1>4. {now, updated} \subseteq Nat /\ updated <= now /\ now \in Instants
  BY <1>3, Bounds DEF Instants
<1>5. /\ recorded \in Nat /\ fresh \in Nat /\ events \in Nat /\ recorded + fresh <= carried
      /\ carried <= MaxBytes /\ events <= MaxEvents
  BY <1>1 DEF Books
<1>6. carried \in Nat /\ MaxBytes \in Nat /\ MaxEvents \in Nat
  BY <1>1, EntryAssumption DEF EstimateInv, TotalTypes
<1> QED
  BY <1>1, <1>2, <1>3, <1>4, <1>5, <1>6

\* What is noted of an instant after vnStat's last save changes nothing.
LEMMA NotedSame ==
  ASSUME UsageInv, NEW at \in Instants, updated <= at, NEW x, x.seen = recorded,
         past' = [past EXCEPT ![at] = x]
  PROVE  /\ Hull(past') = Hull(past) /\ Hull(past)[at] = recorded
         /\ past'[at].seen = recorded /\ \A t \in Instants \ {at} : past'[t] = past[t]
<1>1. DOMAIN past = Instants /\ at \in Nat
  BY Bounds DEF UsageInv, EstimateInv, TotalTypes, Instants
<1>2. \A t \in Nat : updated <= t => Hull(past)[t] = recorded
  BY HullLast DEF UsageInv
<1>3. recorded \in Nat /\ updated \in Nat /\ \A i \in Instants : past[i].seen \in 0..recorded
  BY UsageParts DEF Books
<1>4. \A t \in Nat : Hull(past')[t] = IF t < at THEN Hull(past)[t] ELSE x.seen
  <2>1. x.seen \in Nat /\ \A i \in Instants : past[i].seen \in 0..x.seen
    BY <1>3
  <2>2. Notes(past, at, x, past')
    BY <1>1, <2>1 DEF Notes
  <2> QED
    BY <2>2, HullNoted
<1>5. ASSUME NEW t \in Nat PROVE Hull(past')[t] = Hull(past)[t]
  <2>1. t < at \/ updated <= t
    BY <1>1, <1>3
  <2>2. t < at => Hull(past')[t] = Hull(past)[t]
    BY <1>4
  <2>3. ~(t < at) => Hull(past')[t] = x.seen
    BY <1>4
  <2>4. ~(t < at) => Hull(past)[t] = recorded
    <3>1. ~(t < at) => updated <= t
      BY <1>1, <1>3
    <3> QED
      BY <1>2, <3>1
  <2> QED
    BY <2>2, <2>3, <2>4
<1>6. /\ Hull(past) = [t \in Nat |-> Hull(past)[t]]
      /\ Hull(past') = [t \in Nat |-> Hull(past')[t]]
  BY DEF Hull
<1>7. Hull(past') = Hull(past)
  BY <1>5, <1>6
<1> QED
  BY <1>1, <1>2, <1>7

LEMMA NotedStays ==
  ASSUME UsageInv, NEW at \in Instants, updated <= at, NEW x, x.seen = recorded,
         past' = [past EXCEPT ![at] = x], now' \in Nat, now <= now'
  PROVE  World.noted \subseteq World'.noted
<1>1. /\ Hull(past') = Hull(past) /\ Hull(past)[at] = recorded
      /\ past'[at].seen = recorded /\ \A t \in Instants \ {at} : past'[t] = past[t]
  BY NotedSame
<1>2. now \in Nat /\ \A t \in Instants : t \in Nat
  BY UsageParts, Bounds DEF Instants
<1> QED
  BY <1>1, <1>2, WorldIs, WorldNextIs DEF Noted

LEMMA TickKeepsUsage == ASSUME UsageInv, EstimateInv', Tick PROVE UsageInv'
<1>1. /\ now' = now + 2 /\ now + 2 <= Horizon
      /\ past' = [past EXCEPT ![now + 1] = Truth]
      /\ UNCHANGED <<iface, schedule, vn, updated, fresh, carried, st, pending, read, db,
                     recorded, inSlot, astray, events>>
  BY DEF Tick, environment, panel
<1>2. UsageInv /\ EstimateInv /\ Books /\ {now, updated} \subseteq Nat /\ updated <= now /\ now % 2 = 1
      /\ Panel(World, st, db.st, db.sources, pending) /\ events \in Nat
  BY UsageParts
<1>3. now + 1 \in Instants /\ updated <= now + 1 /\ Truth.seen = recorded
  BY <1>1, <1>2, Bounds, UsageParts DEF Instants, Truth
<1>4. /\ Hull(past') = Hull(past) /\ Hull(past)[now + 1] = recorded
      /\ past'[now + 1].seen = recorded
      /\ \A t \in Instants \ {now + 1} : past'[t] = past[t]
  BY <1>1, <1>3, NotedSame
<1>5. Books'
  <2>1. \A i \in Ifaces : Snapshot(Present(i))'
    BY <1>1, <1>2 DEF Books, Present
  <2>2. (read # NoRead => read.iface \in Ifaces /\ read.snapshot = Present(read.iface))'
    BY <1>1, <1>2 DEF Present, Books
  <2>3. recorded \in Nat /\ \A t \in Instants : past[t].seen \in 0..recorded
    BY <1>2 DEF Books
  <2>4. \A t \in Instants : past'[t].seen \in 0..recorded'
    BY <1>1, <1>4, <2>3
  <2>5. past'[updated'].seen = recorded'
    <3>1. updated \in Instants /\ updated # now + 1 /\ past[updated].seen = recorded
      BY <1>2, Bounds DEF EstimateInv, ClockTypes, Instants, Books
    <3> QED
      BY <1>1, <1>4, <3>1
  <2>6. ASSUME NEW t \in Instants, t % 2 = 0, t < now' PROVE past'[t].seen = Hull(past')[t]
    <3>1. t \in Nat /\ (t = now + 1 \/ t < now)
      BY <1>1, <1>2, <2>6, Bounds DEF Instants
    <3>2. t < now => past[t].seen = Hull(past)[t] /\ t # now + 1
      BY <1>2, <2>6, <3>1 DEF Books
    <3> QED
      BY <1>4, <3>1, <3>2
  <2>7. DOMAIN inSlot' = Slots /\ \A b \in Slots : inSlot'[b] = Hull(past')[b + 4] - Hull(past')[b]
    BY <1>1, <1>2, <1>4 DEF Books
  <2>8. /\ {recorded, fresh, events}' \subseteq Nat /\ recorded' + fresh' <= carried'
        /\ carried' <= MaxBytes /\ events' <= MaxEvents /\ astray' \in BOOLEAN
    BY <1>1, <1>2 DEF Books
  <2> QED
    BY <2>1, <2>2, <2>4, <2>5, <2>6, <2>7, <2>8 DEF Books
<1>6. World.noted \subseteq World'.noted
  <2>1. now' \in Nat /\ now <= now'
    BY <1>1, <1>2
  <2> QED
    BY <1>1, <1>2, <1>3, <2>1, NotedStays
<1>7. World'.vn = World.vn
  BY <1>1 DEF World, Present
<1>8. Older(World, World')
  BY <1>1, <1>2, <1>4, <1>6, <1>7, WorldIs, WorldNextIs DEF Older
<1>9. Surroundings(World) /\ Surroundings(World')
  BY <1>2, <1>5, WorldHolds, WorldNext
<1>10. Panel(World', st, db.st, db.sources, pending)
  BY <1>2, <1>8, <1>9, PanelOlder
<1> QED
  BY <1>1, <1>5, <1>10, UsageThen

LEMMA CarryKeepsUsage == ASSUME UsageInv, EstimateInv', Carry PROVE UsageInv'
<1>1. /\ carried < MaxBytes /\ carried' = carried + 1 /\ fresh' = fresh + 1
      /\ UNCHANGED <<now, iface, schedule, vn, updated, st, pending, read, db,
                     recorded, inSlot, past, astray, events>>
  BY DEF Carry, panel, ghosts
<1>2. /\ EstimateInv /\ Books /\ Panel(World, st, db.st, db.sources, pending)
      /\ {recorded, fresh, carried, events, MaxBytes} \subseteq Nat /\ events <= MaxEvents
      /\ recorded + fresh <= carried
  BY UsageParts
<1>3. Books'
  BY <1>1, <1>2, BooksStay
<1>4. Panel(World', st, db.st, db.sources, pending)
  BY <1>1, <1>2, <1>3, PanelTime
<1> QED
  BY <1>1, <1>3, <1>4, UsageThen

\* Another database: nothing the panel holds is of it.
LEMMA RecreateKeepsUsage == ASSUME UsageInv, EstimateInv', Recreate PROVE UsageInv'
<1>1. /\ updated < now /\ events < MaxEvents /\ events' = events + 1 /\ read = NoRead
      /\ vn' = [i \in Ifaces |-> [created |-> now, total |-> 0, rows |-> NoRows]]
      /\ updated' = now /\ fresh' = 0 /\ past' = [past EXCEPT ![now] = Truth]
      /\ UNCHANGED <<now, iface, schedule, carried, st, pending, read, db, recorded, inSlot, astray>>
  BY DEF Recreate, Accident, Event, Idle, panel
<1>2. /\ UsageInv /\ EstimateInv /\ Books
      /\ {now, updated, recorded, fresh, carried, events, MaxEvents} \subseteq Nat
      /\ now % 2 = 1 /\ now \in Instants /\ iface \in Ifaces /\ recorded + fresh <= carried
      /\ Panel(World, st, db.st, db.sources, pending) /\ Truth.seen = recorded
  BY UsageParts DEF Truth
<1>3. /\ Hull(past') = Hull(past) /\ Hull(past)[now] = recorded
      /\ past'[now].seen = recorded
      /\ \A t \in Instants \ {now} : past'[t] = past[t]
  <2>1. updated <= now
    BY <1>1, <1>2
  <2> QED
    BY <1>1, <1>2, <2>1, NotedSame
<1>4. Books'
  <2>1. ASSUME NEW i \in Ifaces PROVE Snapshot(Present(i))'
    <3>1. vn'[i] = [created |-> now, total |-> 0, rows |-> NoRows]
      BY <1>1
    <3>2. /\ Present(i)' = [created |-> now, updated |-> now, total |-> 0, rows |-> NoRows]
      BY <1>1, <3>1 DEF Present
    <3> QED
      BY <1>2, <3>2, NothingOverlaid DEF Snapshot
  <2>2. read' = NoRead
    BY <1>1
  <2>3. recorded \in Nat /\ \A t \in Instants : past[t].seen \in 0..recorded
    BY <1>2 DEF Books
  <2>4. \A t \in Instants : past'[t].seen \in 0..recorded'
    BY <1>1, <1>3, <2>3
  <2>5. past'[updated'].seen = recorded'
    BY <1>1, <1>3
  <2>6. ASSUME NEW t \in Instants, t % 2 = 0, t < now' PROVE past'[t].seen = Hull(past')[t]
    <3>1. t # now
      BY <1>2, <2>6
    <3> QED
      BY <1>1, <1>2, <1>3, <2>6, <3>1 DEF Books
  <2>7. DOMAIN inSlot' = Slots /\ \A b \in Slots : inSlot'[b] = Hull(past')[b + 4] - Hull(past')[b]
    BY <1>1, <1>2, <1>3 DEF Books
  <2>8. /\ {recorded, fresh, events}' \subseteq Nat /\ recorded' + fresh' <= carried'
        /\ carried' <= MaxBytes /\ events' <= MaxEvents /\ astray' \in BOOLEAN
    BY <1>1, <1>2 DEF Books
  <2> QED
    BY <2>1, <2>2, <2>4, <2>5, <2>6, <2>7, <2>8 DEF Books
<1>5. World.noted \subseteq World'.noted
  <2>1. now' \in Nat /\ now <= now' /\ updated <= now
    BY <1>1, <1>2
  <2> QED
    BY <1>1, <1>2, <2>1, NotedStays
<1>6. Surroundings(World) /\ Surroundings(World')
  BY <1>2, <1>4, WorldHolds, WorldNext
<1>7. /\ World'.seen = World.seen /\ World'.astray = World.astray /\ World'.now = World.now
      /\ World'.events = World.events + 1 /\ World'.vn.created = now /\ World'.vn.updated = now
      /\ World'.vn.rows = NoRows /\ World.now = now /\ World.vn.updated = updated
      /\ World.events = events /\ World'.iface = World.iface
  BY <1>1, <1>2, <1>3, WorldIs, WorldNextIs, PresentIs
<1>8. ASSUME NEW x \in {st, db.st} PROVE ~Live(World', x) /\ x.source <= World'.vn.created
  <2>1. x.generation # 0 => /\ x.created \in Nat /\ x.updated \in Int
                            /\ x.created <= x.updated /\ x.updated <= updated
    <3>1. x.generation # 0 => x.created \in Nat /\ x.created <= x.updated /\ x.updated <= World.vn.updated
      BY <1>2 DEF Panel, Order
    <3>2. x.generation # 0 => x.updated \in Nat
      BY <1>2 DEF EstimateInv, Anchored
    <3> QED
      BY <1>7, <3>1, <3>2
  <2>2. st.source \in Nat /\ st.source <= now /\ db.st.source \in Nat /\ db.st.source <= st.source
    BY <1>2, <1>7 DEF Panel, Order
  <2>3. x.source <= now
    BY <1>2, <2>2
  <2> QED
    BY <1>1, <1>2, <1>7, <2>1, <2>3 DEF Live
<1>9. Counts(World', World'.vn)
  BY <1>7, NothingOverlaid DEF Counts
<1>10. Panel(World', st, db.st, db.sources, pending)
  <2>1. World.now <= World'.now /\ World.events + 1 <= World'.events /\ World.vn.updated <= World'.vn.updated
    BY <1>1, <1>2, <1>7
  <2> QED
    BY <1>2, <1>5, <1>6, <1>7, <1>8, <1>9, <2>1, PanelApart
<1> QED
  BY <1>1, <1>4, <1>10, UsageThen

-----------------------------------------------------------------------------
(* vnStat's saves. *)

\* A database y is x with n bytes more in the bucket at.
Grew(x, y, n, at) ==
  /\ DOMAIN y = {"created", "total", "rows"} /\ y.created = x.created /\ y.total = x.total + n
  /\ DOMAIN y.rows = DOMAIN x.rows \cup {at}
  /\ \A b \in DOMAIN x.rows \ {at} : y.rows[b] = x.rows[b]
  /\ y.rows[at] = n + (IF at \in DOMAIN x.rows THEN x.rows[at] ELSE 0)

LEMMA RecordsGrows ==
  ASSUME UsageInv, Records, NEW i \in Ifaces
  PROVE  Grew(vn[i], vn'[i], IF i = iface THEN fresh ELSE Foreign, Slot(now))
<1> DEFINE n == IF i = iface THEN fresh ELSE Foreign
           at == Slot(now)
           more == n + (IF at \in DOMAIN vn[i].rows THEN vn[i].rows[at] ELSE 0)
           one == [b \in {at} |-> more]
<1>1. vn'[i] = [vn[i] EXCEPT !.total = @ + n, !.rows = Overlay(@, one)]
  BY DEF Records
<1>2. DOMAIN vn[i] = {"created", "total", "rows"}
  BY DEF UsageInv, EstimateInv, ClockTypes
<1>3. DOMAIN one = {at} /\ one[at] = more
  OBVIOUS
<1> HIDE DEF one, more, at, n
<1>4. /\ DOMAIN vn'[i] = {"created", "total", "rows"} /\ vn'[i].created = vn[i].created
      /\ vn'[i].total = vn[i].total + n /\ vn'[i].rows = Overlay(vn[i].rows, one)
  BY <1>1, <1>2
<1>5. /\ DOMAIN vn'[i].rows = DOMAIN vn[i].rows \cup {at}
      /\ \A b \in DOMAIN vn[i].rows \ {at} : vn'[i].rows[b] = vn[i].rows[b]
      /\ vn'[i].rows[at] = more
  <2> DEFINE old == vn[i].rows
             new == Overlay(old, one)
  <2>1. /\ DOMAIN new = DOMAIN old \cup DOMAIN one
        /\ \A b \in DOMAIN one : new[b] = one[b]
        /\ \A b \in DOMAIN old \ DOMAIN one : new[b] = old[b]
    BY OverlayIs
  <2>2. vn'[i].rows = new
    BY <1>4
  <2> HIDE DEF old, new
  <2>3. /\ DOMAIN new = DOMAIN old \cup {at} /\ new[at] = more
        /\ \A b \in DOMAIN old \ {at} : new[b] = old[b]
    BY <1>3, <2>1
  <2> QED
    BY <2>2, <2>3 DEF old
<1> QED
  BY <1>4, <1>5 DEF Grew, more, at, n

LEMMA GrewSnapshot ==
  ASSUME UsageInv, Records, NEW i \in Ifaces PROVE Snapshot(Present(i))'
<1> DEFINE n == IF i = iface THEN fresh ELSE Foreign
           at == Slot(now)
<1>1. Grew(vn[i], vn'[i], n, at)
  BY RecordsGrows
<1>2. n \in Nat
  BY UsageParts, EntryAssumption
<1>3. now \in Nat /\ updated \in Nat /\ updated < now /\ updated' = now /\ at \in Slots /\ at <= now
  <2>1. now \in Nat /\ updated \in Nat /\ now \in Instants
    BY UsageParts
  <2>2. updated < now /\ updated' = now
    BY DEF Records
  <2>3. now \in 0..Horizon
    BY <2>1, Bounds DEF Instants
  <2> QED
    BY <2>1, <2>2, <2>3, SlotIs, SlotsAre
<1>4. Snapshot(Present(i))
  BY UsageParts DEF Books
<1>5. /\ vn[i].created \in Nat /\ vn[i].created <= updated /\ vn[i].total \in Int
      /\ RowsTyped(vn[i].rows) /\ \A b \in DOMAIN vn[i].rows : b <= updated
  BY <1>4, PresentIs DEF Snapshot
<1> DEFINE y == Present(i)'
<1>6. /\ DOMAIN y = {"created", "updated", "total", "rows"} /\ y.created = vn'[i].created
      /\ y.updated = updated' /\ y.total = vn'[i].total /\ y.rows = vn'[i].rows
  BY DEF Present
<1> HIDE DEF n, at, y
<1>7. /\ y.created = vn[i].created /\ y.updated = now /\ y.total = vn[i].total + n
      /\ DOMAIN y.rows = DOMAIN vn[i].rows \cup {at}
      /\ \A b \in DOMAIN vn[i].rows \ {at} : y.rows[b] = vn[i].rows[b]
      /\ y.rows[at] = n + (IF at \in DOMAIN vn[i].rows THEN vn[i].rows[at] ELSE 0)
  BY <1>1, <1>3, <1>6 DEF Grew
<1>8. y.rows[at] \in Nat
  BY <1>2, <1>5, <1>7 DEF RowsTyped
<1>9. RowsTyped(y.rows)
  BY <1>3, <1>5, <1>7, <1>8 DEF RowsTyped
<1>10. \A b \in DOMAIN y.rows : b <= y.updated
  <2> SUFFICES ASSUME NEW b \in DOMAIN y.rows PROVE b <= now
    BY <1>7
  <2>1. CASE b = at
    BY <1>3, <2>1
  <2>2. CASE b # at
    <3>1. b \in DOMAIN vn[i].rows /\ b \in Nat /\ b <= updated
      BY <1>5, <1>7, <2>2, SlotsAre DEF RowsTyped
    <3> QED
      BY <1>3, <3>1
  <2> QED
    BY <2>1, <2>2
<1>11. /\ y.created \in Nat /\ y.updated \in Nat /\ y.created <= y.updated /\ y.total \in Int
       /\ y.created # y.updated /\ Slot(y.updated) \in DOMAIN y.rows
  BY <1>2, <1>3, <1>5, <1>7 DEF at
<1>12. Snapshot(y)
  BY <1>6, <1>9, <1>10, <1>11 DEF Snapshot
<1> QED
  BY <1>12 DEF y

\* What Records notes.
LEMMA RecordsNotes ==
  ASSUME UsageInv, Records
  PROVE  /\ \A t \in Nat : Hull(past')[t] = IF t < now THEN Hull(past)[t] ELSE recorded + fresh
         /\ past'[now].seen = recorded + fresh /\ \A t \in Instants \ {now} : past'[t] = past[t]
<1>1. past' = [past EXCEPT ![now] = [seen |-> recorded + fresh, sampled |-> total]]
  BY DEF Records
<1>2. /\ DOMAIN past = Instants /\ now \in Instants
      /\ recorded \in Nat /\ fresh \in Nat /\ \A i \in Instants : past[i].seen \in 0..recorded
  BY UsageParts DEF EstimateInv, TotalTypes, Books
<1>3. \A i \in Instants : past[i].seen \in 0..(recorded + fresh)
  <2> SUFFICES ASSUME NEW i \in Instants PROVE past[i].seen \in 0..(recorded + fresh)
    OBVIOUS
  <2>1. past[i].seen \in 0..recorded
    BY <1>2
  <2> QED
    BY <1>2, <2>1
<1> DEFINE x == [seen |-> recorded + fresh, sampled |-> total]
<1>4. x.seen = recorded + fresh /\ x.seen \in Nat
  BY <1>2
<1>5. past' = [past EXCEPT ![now] = x]
  BY <1>1
<1> HIDE DEF x
<1>6. Notes(past, now, x, past')
  BY <1>2, <1>3, <1>4, <1>5 DEF Notes
<1>7. \A t \in Nat : Hull(past')[t] = IF t < now THEN Hull(past)[t] ELSE x.seen
  BY <1>6, HullNoted
<1> QED
  BY <1>2, <1>4, <1>5, <1>7

LEMMA RecordsBooks == ASSUME UsageInv, Records PROVE Books'
<1>1. /\ updated < now /\ read = NoRead /\ updated' = now /\ fresh' = 0 /\ recorded' = recorded + fresh
      /\ inSlot' = [inSlot EXCEPT ![Slot(now)] = @ + fresh]
      /\ UNCHANGED <<now, carried, read, astray, events>>
  BY DEF Records, Idle, panel
<1>2. /\ Books /\ {now, updated, recorded, fresh, carried, events} \subseteq Nat /\ now % 2 = 1
      /\ recorded + fresh <= carried /\ carried <= MaxBytes /\ events <= MaxEvents /\ now \in Instants
  BY UsageParts
<1>3. /\ \A t \in Nat : Hull(past')[t] = IF t < now THEN Hull(past)[t] ELSE recorded + fresh
      /\ past'[now].seen = recorded + fresh /\ \A t \in Instants \ {now} : past'[t] = past[t]
  BY RecordsNotes
<1>4. \A i \in Ifaces : Snapshot(Present(i))'
  BY GrewSnapshot
<1>5. ASSUME NEW t \in Instants PROVE past'[t].seen \in 0..recorded'
  <2>1. past[t].seen \in 0..recorded
    BY <1>2 DEF Books
  <2> QED
    BY <1>1, <1>2, <1>3, <2>1
<1>6. past'[updated'].seen = recorded'
  BY <1>1, <1>3
<1>7. ASSUME NEW t \in Instants, t % 2 = 0, t < now' PROVE past'[t].seen = Hull(past')[t]
  <2>1. t \in Nat /\ t < now /\ t # now
    BY <1>1, <1>2, <1>7, Bounds DEF Instants
  <2>2. past[t].seen = Hull(past)[t]
    BY <1>2, <1>7, <2>1 DEF Books
  <2> QED
    BY <1>3, <2>1, <2>2
<1>8. ASSUME NEW b \in Slots PROVE inSlot'[b] = Hull(past')[b + 4] - Hull(past')[b]
  <2>1. b \in Nat /\ b % 4 = 0 /\ b + 4 \in Nat
    BY SlotsAre
  <2>2. /\ Slot(now) \in Nat /\ Slot(now) % 4 = 0 /\ Slot(now) <= now /\ now < Slot(now) + 4
        /\ Slot(now) < now
    <3> DEFINE s == Slot(now)
    <3>1. s \in Nat /\ s % 4 = 0 /\ s <= now /\ now < s + 4
      BY <1>2, SlotIs
    <3> HIDE DEF s
    <3>2. s # now
      BY <1>2, <3>1
    <3>3. s < now
      BY <1>2, <3>1, <3>2
    <3> QED
      BY <3>1, <3>3 DEF s
  <2>3. DOMAIN inSlot = Slots /\ inSlot[b] = Hull(past)[b + 4] - Hull(past)[b]
    BY <1>2 DEF Books
  <2>4. \A t \in Nat : updated <= t => Hull(past)[t] = recorded
    BY HullLast, UsageParts
  <2>5. CASE b = Slot(now)
    <3>1. inSlot'[b] = inSlot[b] + fresh
      BY <1>1, <2>3, <2>5
    <3>2. Hull(past')[b + 4] = recorded + fresh /\ Hull(past')[b] = Hull(past)[b]
      BY <1>2, <1>3, <2>1, <2>2, <2>5
    <3>3. Hull(past)[b + 4] = recorded
      BY <1>1, <1>2, <2>1, <2>2, <2>4, <2>5
    <3>4. Hull(past)[b] \in Nat
      BY <2>1, HullLast, UsageParts DEF Grows
    <3> QED
      BY <1>2, <2>3, <3>1, <3>2, <3>3, <3>4
  <2>6. CASE b # Slot(now)
    <3>1. inSlot'[b] = inSlot[b]
      BY <1>1, <2>3, <2>6
    <3>2. CASE b < Slot(now)
      <4>1. b + 4 < now /\ b < now
        BY <1>2, <2>1, <2>2, <3>2
      <4> QED
        BY <1>3, <2>1, <2>3, <3>1, <4>1
    <3>3. CASE Slot(now) < b
      <4>1. now < b /\ now < b + 4 /\ updated <= b /\ updated <= b + 4
        BY <1>1, <1>2, <2>1, <2>2, <3>3
      <4>2. ~(b < now) /\ ~(b + 4 < now)
        BY <1>2, <2>1, <4>1
      <4>3. Hull(past')[b + 4] = recorded + fresh /\ Hull(past')[b] = recorded + fresh
        BY <1>3, <2>1, <4>2
      <4>4. Hull(past)[b + 4] = recorded /\ Hull(past)[b] = recorded
        BY <2>1, <2>4, <4>1
      <4> QED
        BY <1>2, <2>3, <3>1, <4>3, <4>4
    <3> QED
      BY <2>1, <2>2, <2>6, <3>2, <3>3
  <2> QED
    BY <2>5, <2>6
<1>9. DOMAIN inSlot' = Slots
  BY <1>1, <1>2 DEF Books
<1>10. /\ {recorded, fresh, events}' \subseteq Nat /\ recorded' + fresh' <= carried'
       /\ carried' <= MaxBytes /\ events' <= MaxEvents /\ astray' \in BOOLEAN
  BY <1>1, <1>2 DEF Books
<1>11. read' = NoRead
  BY <1>1
<1> QED
  BY <1>4, <1>5, <1>6, <1>7, <1>8, <1>9, <1>10, <1>11 DEF Books

LEMMA RecordsKeepsUsage == ASSUME UsageInv, EstimateInv', Records PROVE UsageInv'
<1>1. /\ updated < now /\ st.source # now /\ updated' = now
      /\ UNCHANGED <<now, iface, st, pending, db, astray, events>>
  BY DEF Records, panel
<1>2. /\ EstimateInv /\ Books /\ {now, updated, recorded, fresh} \subseteq Nat /\ iface \in Ifaces
      /\ Panel(World, st, db.st, db.sources, pending)
  BY UsageParts
<1>3. Books'
  BY RecordsBooks
<1>4. Surroundings(World) /\ Surroundings(World')
  BY <1>2, <1>3, WorldHolds, WorldNext
<1>5. /\ \A t \in Nat : Hull(past')[t] = IF t < now THEN Hull(past)[t] ELSE recorded + fresh
      /\ past'[now].seen = recorded + fresh /\ \A t \in Instants \ {now} : past'[t] = past[t]
  BY RecordsNotes
<1>6. World.noted \subseteq World'.noted
  <2> SUFFICES ASSUME NEW t \in World.noted PROVE t \in World'.noted
    OBVIOUS
  <2>1. t \in Instants /\ t \in Nat /\ t <= now /\ past[t].seen = Hull(past)[t]
    BY WorldIs, Bounds DEF Noted, Instants
  <2>2. CASE t = now
    BY <1>1, <1>2, <1>5, <2>1, <2>2, WorldNextIs
  <2>3. CASE t # now
    <3>1. t < now
      BY <1>2, <2>1, <2>3
    <3> QED
      BY <1>1, <1>5, <2>1, <3>1, WorldNextIs
  <2> QED
    BY <2>2, <2>3
<1>8. Hull(past)[updated] = recorded
  BY <1>2, HullLast
<1>9. /\ World'.vn.created = World.vn.created /\ World'.vn.total = World.vn.total + fresh
      /\ DOMAIN World'.vn.rows = DOMAIN World.vn.rows \cup {Slot(now)}
      /\ \A b \in DOMAIN World.vn.rows \ {Slot(now)} : World'.vn.rows[b] = World.vn.rows[b]
      /\ World'.vn.rows[Slot(now)]
           = fresh + (IF Slot(now) \in DOMAIN World.vn.rows THEN World.vn.rows[Slot(now)] ELSE 0)
  <2>1. Grew(vn[iface], vn'[iface], fresh, Slot(now))
    BY <1>2, RecordsGrows
  <2> QED
    BY <1>1, <2>1, WorldIs, WorldNextIs, PresentIs DEF Grew
<1>10. Looks(World, World', fresh)
  <2>1. /\ World.now = now /\ World.vn.updated = updated /\ World'.vn.updated = now
        /\ World.seen = Hull(past) /\ World'.seen = Hull(past')
        /\ World'.now = now /\ World'.events = World.events /\ World'.astray = World.astray
        /\ World'.iface = World.iface
    BY <1>1, WorldIs, WorldNextIs, PresentIs
  <2>2. \A t \in Nat : World'.seen[t]
          = IF t < World.now THEN World.seen[t] ELSE World.seen[World.vn.updated] + fresh
    BY <1>5, <1>8, <2>1
  <2> QED
    BY <1>1, <1>2, <1>6, <1>9, <2>1, <2>2 DEF Looks
<1>11. \A x \in {st, db.st} : x.period < World.now
  BY <1>1, <1>2, WorldIs DEF EstimateInv, Anchored, Settles
<1>12. Panel(World', st, db.st, db.sources, pending)
  <2>1. st.source # World.now
    BY <1>1, WorldIs
  <2> QED
    BY <1>2, <1>4, <1>10, <1>11, <2>1, PanelLooks
<1> QED
  BY <1>1, <1>3, <1>12, UsageThen

-----------------------------------------------------------------------------
(* vnStat loses something; the settings change. *)

LEMMA BooksMoved ==
  ASSUME Books, UNCHANGED <<now, updated, recorded, fresh, carried, inSlot, past>>,
         astray' \in BOOLEAN, \A i \in Ifaces : Snapshot(Present(i))', read' = NoRead,
         events' \in Nat, events' <= MaxEvents
  PROVE  Books'
<1>1. /\ \A t \in Instants : past'[t].seen \in 0..recorded'
      /\ past'[updated'].seen = recorded'
      /\ \A t \in Instants : t % 2 = 0 /\ t < now' => past'[t].seen = Hull(past')[t]
      /\ DOMAIN inSlot' = Slots
      /\ \A b \in Slots : inSlot'[b] = Hull(past')[b + 4] - Hull(past')[b]
  BY DEF Books
<1>2. /\ {recorded, fresh, events}' \subseteq Nat /\ recorded' + fresh' <= carried'
      /\ carried' <= MaxBytes
  BY DEF Books
<1> QED
  BY <1>1, <1>2 DEF Books

\* The database of the configured interface holds less.
Shrunk(x, y, b, n) ==
  /\ DOMAIN y = {"created", "total", "rows"} /\ y.created = x.created /\ y.total = x.total - n
  /\ DOMAIN y.rows \subseteq DOMAIN x.rows /\ DOMAIN x.rows \ {b} \subseteq DOMAIN y.rows
  /\ \A a \in DOMAIN y.rows : y.rows[a] \in Nat /\ y.rows[a] <= x.rows[a]
                              /\ (a # b => y.rows[a] = x.rows[a])

LEMMA ShrunkSnapshot ==
  ASSUME UsageInv, NEW b \in DOMAIN vn[iface].rows, NEW n \in Nat,
         Shrunk(vn[iface], vn'[iface], b, n), updated' = updated,
         b # Slot(updated) \/ DOMAIN vn'[iface].rows = DOMAIN vn[iface].rows,
         \A i \in Ifaces \ {iface} : vn'[i] = vn[i],
         NEW i \in Ifaces
  PROVE  Snapshot(Present(i))'
<1>1. Snapshot(Present(i)) /\ Snapshot(Present(iface))
  BY UsageParts DEF Books
<1>2. CASE i # iface
  <2>1. Present(i)' = Present(i)
    BY <1>2 DEF Present
  <2> QED
    BY <1>1, <2>1
<1>3. CASE i = iface
  <2> DEFINE y == Present(i)'
  <2>1. /\ DOMAIN y = {"created", "updated", "total", "rows"} /\ y.created = vn[iface].created
        /\ y.updated = updated /\ y.total = vn[iface].total - n /\ y.rows = vn'[iface].rows
    BY <1>3 DEF Present, Shrunk
  <2>2. /\ vn[iface].created \in Nat /\ updated \in Nat /\ vn[iface].created <= updated
        /\ vn[iface].total \in Int /\ RowsTyped(vn[iface].rows)
        /\ \A a \in DOMAIN vn[iface].rows : a <= updated
        /\ IF vn[iface].created = updated THEN DOMAIN vn[iface].rows = {}
           ELSE Slot(updated) \in DOMAIN vn[iface].rows
    BY <1>1, PresentIs DEF Snapshot
  <2> HIDE DEF y
  <2>3. vn[iface].created # updated /\ Slot(updated) \in DOMAIN vn[iface].rows
    BY <2>2
  <2>4. Slot(updated) \in DOMAIN y.rows
    BY <2>1, <2>3 DEF Shrunk
  <2>5. RowsTyped(y.rows) /\ \A a \in DOMAIN y.rows : a <= updated
    BY <2>1, <2>2 DEF RowsTyped, Shrunk
  <2>6. Snapshot(y)
    BY <2>1, <2>2, <2>3, <2>4, <2>5 DEF Snapshot
  <2> QED
    BY <2>6 DEF y
<1> QED
  BY <1>2, <1>3

\* The surroundings after it.
LEMMA ShrunkWorld ==
  ASSUME UsageInv, NEW b, NEW n \in Nat, Shrunk(vn[iface], vn'[iface], b, n),
         UNCHANGED <<now, updated, iface, past>>, events' = events + 1
  PROVE  /\ World'.seen = World.seen /\ World'.iface = World.iface /\ World'.now = World.now
         /\ World.events <= World'.events /\ World.noted \subseteq World'.noted
         /\ World'.vn.created = World.vn.created /\ World'.vn.updated = World.vn.updated
         /\ World.vn.total \in Int /\ World'.vn.total = World.vn.total - n
         /\ World.vn.rows = vn[iface].rows /\ World'.vn.rows = vn'[iface].rows
         /\ World.vn.updated = updated /\ World.astray = astray /\ World'.astray = astray'
<1>1. events \in Nat /\ Snapshot(Present(iface))
  BY UsageParts DEF Books
<1>2. World.noted = World'.noted
  BY WorldIs, WorldNextIs DEF Noted
<1>3. vn[iface].total \in Int
  BY <1>1, PresentIs DEF Snapshot
<1> QED
  BY <1>1, <1>2, <1>3, WorldIs, WorldNextIs, PresentIs DEF Shrunk

LEMMA ShrunkWorse ==
  ASSUME UsageInv, NEW b, NEW n \in Nat, Shrunk(vn[iface], vn'[iface], b, n),
         UNCHANGED <<now, updated, iface, past>>, events' = events + 1, astray'
  PROVE  Worse(World, World')
<1>1. \A a \in DOMAIN vn'[iface].rows : a \in DOMAIN vn[iface].rows /\ vn'[iface].rows[a] <= vn[iface].rows[a]
  BY DEF Shrunk
<1>2. World'.vn.total <= World.vn.total
  <2>1. World.vn.total \in Int /\ World'.vn.total = World.vn.total - n
    BY ShrunkWorld
  <2> QED
    BY <2>1
<1> QED
  BY <1>1, <1>2, ShrunkWorld DEF Worse

LEMMA SetBackKeepsUsage == ASSUME UsageInv, EstimateInv', SetBack PROVE UsageInv'
<1>1. /\ events < MaxEvents /\ events' = events + 1 /\ read = NoRead /\ astray' = TRUE
      /\ UNCHANGED <<now, iface, schedule, updated, fresh, carried, st, pending, read, db,
                     recorded, inSlot, past>>
  BY DEF SetBack, Accident, Event, Idle, panel
<1>2. PICK b \in DOMAIN vn[iface].rows :
        /\ vn[iface].rows[b] > 0
        /\ vn' = [vn EXCEPT ![iface].rows[b] = @ - 1, ![iface].total = @ - 1]
  BY DEF SetBack
<1>3. /\ UsageInv /\ EstimateInv /\ Books /\ events \in Nat /\ MaxEvents \in Nat /\ iface \in Ifaces
      /\ Panel(World, st, db.st, db.sources, pending)
  BY UsageParts
<1>4. Shrunk(vn[iface], vn'[iface], b, 1) /\ DOMAIN vn'[iface].rows = DOMAIN vn[iface].rows
      /\ \A i \in Ifaces \ {iface} : vn'[i] = vn[i]
  <2>1. DOMAIN vn = Ifaces /\ DOMAIN vn[iface] = {"created", "total", "rows"}
    BY <1>3 DEF EstimateInv, ClockTypes
  <2>2. RowsTyped(vn[iface].rows)
    BY <1>3, PresentIs DEF Books, Snapshot
  <2>3. \A i \in Ifaces \ {iface} : vn'[i] = vn[i]
    BY <1>2, <2>1
  <2>4. /\ DOMAIN vn'[iface] = {"created", "total", "rows"}
        /\ vn'[iface].created = vn[iface].created /\ vn'[iface].total = vn[iface].total - 1
        /\ vn'[iface].rows = [vn[iface].rows EXCEPT ![b] = @ - 1]
    BY <1>2, <1>3, <2>1
  <2> DEFINE x == vn[iface].rows
             y == vn'[iface].rows
  <2>5. \A a \in DOMAIN x : x[a] \in Nat
    BY <2>2 DEF RowsTyped
  <2>6. x[b] > 0 /\ b \in DOMAIN x /\ y = [x EXCEPT ![b] = @ - 1]
    BY <1>2, <2>4
  <2> HIDE DEF x, y
  <2>7. /\ DOMAIN y = DOMAIN x
        /\ \A a \in DOMAIN y : y[a] \in Nat /\ y[a] <= x[a] /\ (a # b => y[a] = x[a])
    <3>1. DOMAIN y = DOMAIN x /\ y[b] = x[b] - 1 /\ \A a \in DOMAIN y : a # b => y[a] = x[a]
      BY <2>6
    <3>2. y[b] \in Nat /\ y[b] <= x[b]
      BY <2>5, <2>6, <3>1
    <3> QED
      BY <2>5, <3>1, <3>2
  <2> QED
    BY <2>3, <2>4, <2>7 DEF Shrunk, x, y
<1>5. \A i \in Ifaces : Snapshot(Present(i))'
  BY <1>1, <1>3, <1>4, ShrunkSnapshot
<1>6. Books'
  BY <1>1, <1>3, <1>5, BooksMoved
<1>7. Surroundings(World) /\ Surroundings(World')
  BY <1>3, <1>6, WorldHolds, WorldNext
<1>8. Worse(World, World')
  BY <1>1, <1>3, <1>4, ShrunkWorse
<1>9. Panel(World', st, db.st, db.sources, pending)
  BY <1>3, <1>7, <1>8, PanelWorse
<1> QED
  BY <1>1, <1>6, <1>9, UsageThen

LEMMA PruneKeepsUsage == ASSUME UsageInv, EstimateInv', Prune PROVE UsageInv'
<1>1. /\ events < MaxEvents /\ events' = events + 1 /\ read = NoRead
      /\ UNCHANGED <<now, iface, schedule, updated, fresh, carried, st, pending, read, db,
                     recorded, inSlot, past>>
  BY DEF Prune, Accident, Event, Idle, panel
<1>2. PICK b \in DOMAIN vn[iface].rows \ {Slot(updated)} :
        /\ vn' = [vn EXCEPT ![iface].rows = [a \in DOMAIN @ \ {b} |-> @[a]]]
        /\ astray' = (astray \/ \E taken \in TakenRows : b \in DOMAIN taken /\ taken[b] # vn[iface].rows[b])
  BY DEF Prune
<1>3. /\ UsageInv /\ EstimateInv /\ Books /\ events \in Nat /\ MaxEvents \in Nat /\ iface \in Ifaces
      /\ Panel(World, st, db.st, db.sources, pending) /\ astray \in BOOLEAN
  BY UsageParts DEF Books
<1>4. /\ Shrunk(vn[iface], vn'[iface], b, 0)
      /\ DOMAIN vn'[iface].rows = DOMAIN vn[iface].rows \ {b}
      /\ \A i \in Ifaces \ {iface} : vn'[i] = vn[i]
  <2>1. DOMAIN vn = Ifaces /\ DOMAIN vn[iface] = {"created", "total", "rows"}
    BY <1>3 DEF EstimateInv, ClockTypes
  <2>2. RowsTyped(vn[iface].rows) /\ vn[iface].total \in Int
    BY <1>3, PresentIs DEF Books, Snapshot
  <2>3. \A i \in Ifaces \ {iface} : vn'[i] = vn[i]
    BY <1>2, <2>1
  <2>4. /\ DOMAIN vn'[iface] = {"created", "total", "rows"}
        /\ vn'[iface].created = vn[iface].created /\ vn'[iface].total = vn[iface].total
        /\ vn'[iface].rows = [a \in DOMAIN vn[iface].rows \ {b} |-> vn[iface].rows[a]]
    BY <1>2, <1>3, <2>1
  <2>5. \A a \in DOMAIN vn[iface].rows : vn[iface].rows[a] \in Nat
    BY <2>2 DEF RowsTyped
  <2>6. vn'[iface].total = vn[iface].total - 0
    BY <2>2, <2>4
  <2> QED
    BY <2>3, <2>4, <2>5, <2>6 DEF Shrunk
<1>5. \A i \in Ifaces : Snapshot(Present(i))'
  <2>1. b \in DOMAIN vn[iface].rows /\ b # Slot(updated) /\ 0 \in Nat
    OBVIOUS
  <2> QED
    BY <1>1, <1>3, <1>4, <2>1, ShrunkSnapshot
<1>6. Books'
  <2>1. astray' \in BOOLEAN
    BY <1>2, <1>3
  <2> QED
    BY <1>1, <1>3, <1>5, <2>1, BooksMoved
<1>7. Surroundings(World) /\ Surroundings(World')
  BY <1>3, <1>6, WorldHolds, WorldNext
<1>8. CASE astray'
  <2>1. Worse(World, World')
    BY <1>1, <1>3, <1>4, <1>8, ShrunkWorse
  <2>2. Panel(World', st, db.st, db.sources, pending)
    BY <1>3, <1>7, <2>1, PanelWorse
  <2> QED
    BY <1>1, <1>6, <2>2, UsageThen
<1>9. CASE ~astray'
  <2>1. ~astray /\ \A taken \in TakenRows : b \in DOMAIN taken => taken[b] = vn[iface].rows[b]
    BY <1>2, <1>9
  <2>2. \A taken \in Taken(st, db.sources, pending) : b \in DOMAIN taken => taken[b] = vn[iface].rows[b]
    <3> SUFFICES ASSUME NEW taken \in Taken(st, db.sources, pending), b \in DOMAIN taken
                 PROVE  taken \in TakenRows
      BY <2>1
    <3>1. CASE taken = RowsOf(db.sources, st.generation)
      <4>1. st.generation \in DOMAIN db.sources
        BY <3>1, NothingOverlaid DEF RowsOf
      <4> QED
        BY <3>1, <4>1 DEF RowsOf, TakenRows
    <3>2. CASE pending.generation # 0 /\ taken = pending.snapshot.rows
      <4>1. pending # NoRecord
        BY <3>2 DEF NoRecord
      <4> QED
        BY <3>2, <4>1 DEF TakenRows
    <3> QED
      BY <3>1, <3>2 DEF Taken
  <2>3. Pruned(World, World', b)
    <3>1. \A a \in DOMAIN vn'[iface].rows : vn'[iface].rows[a] = vn[iface].rows[a]
      BY <1>4 DEF Shrunk
    <3>2. World'.vn.total = World.vn.total /\ World'.astray = World.astray
      BY <1>1, <1>3, <1>4, <1>9, <1>6, <2>1, ShrunkWorld DEF Books
    <3> QED
      BY <1>1, <1>3, <1>4, <3>1, <3>2, ShrunkWorld DEF Pruned
  <2>4. /\ ~World.astray
        /\ \A taken \in Taken(st, db.sources, pending) :
             b \in DOMAIN taken => taken[b] = World.vn.rows[b]
    BY <2>1, <2>2, WorldIs, PresentIs
  <2>5. Panel(World', st, db.st, db.sources, pending)
    BY <1>3, <1>7, <2>3, <2>4, PanelPruned
  <2> QED
    BY <1>1, <1>6, <2>5, UsageThen
<1> QED
  BY <1>8, <1>9

\* Nothing the panel holds is of the new interface.
LEMMA ConfigureKeepsUsage == ASSUME UsageInv, EstimateInv', Configure PROVE UsageInv'
<1>1. /\ events < MaxEvents /\ events' = events + 1 /\ iface' \in Ifaces
      /\ iface' # iface => st.origin = iface /\ db.st.origin = iface
      /\ fresh' = IF iface' = iface THEN fresh ELSE 0
      /\ UNCHANGED <<now, vn, updated, carried, st, pending, read, db, recorded, inSlot, past, astray>>
  BY DEF Configure, Event, panel, ghosts
<1>2. /\ EstimateInv /\ Books /\ Panel(World, st, db.st, db.sources, pending)
      /\ {recorded, fresh, carried, events, MaxEvents, MaxBytes} \subseteq Nat
      /\ recorded + fresh <= carried /\ carried <= MaxBytes
  BY UsageParts
<1>3. Books'
  <2>1. fresh' \in Nat /\ recorded + fresh' <= carried' /\ carried' <= MaxBytes
        /\ events' \in Nat /\ events' <= MaxEvents
    BY <1>1, <1>2
  <2> QED
    BY <1>1, <1>2, <2>1, BooksStay
<1>4. CASE iface' = iface
  <2>1. events <= events'
    BY <1>1, <1>2
  <2>2. Panel(World', st, db.st, db.sources, pending)
    BY <1>1, <1>2, <1>3, <1>4, <2>1, PanelTime
  <2> QED
    BY <1>1, <1>3, <2>2, UsageThen
<1>5. CASE iface' # iface
  <2>1. Surroundings(World) /\ Surroundings(World')
    BY <1>2, <1>3, WorldHolds, WorldNext
  <2>2. World'.noted = World.noted
    BY <1>1, WorldIs, WorldNextIs DEF Noted
  <2>3. \A x \in {st, db.st} : ~Live(World', x) /\ ~Rebuilt(World', x)
    BY <1>1, <1>5, WorldNextIs DEF Live, Rebuilt
  <2>4. /\ World'.seen = World.seen /\ World'.astray = World.astray /\ World.now = now
        /\ World'.now = now /\ World'.events = events + 1 /\ World.events = events
        /\ World.vn.updated = updated /\ World'.vn.updated = updated
    BY <1>1, WorldIs, WorldNextIs, PresentIs
  <2>5. /\ World.now <= World'.now /\ World.events + 1 <= World'.events
        /\ World.vn.updated <= World'.vn.updated /\ World.noted \subseteq World'.noted
    <3>1. now \in Nat /\ updated \in Nat
      BY UsageParts
    <3> QED
      BY <1>2, <2>2, <2>4, <3>1
  <2>6. Panel(World', st, db.st, db.sources, pending)
    BY <1>2, <2>1, <2>3, <2>4, <2>5, PanelApart
  <2> QED
    BY <1>1, <1>3, <2>6, UsageThen
<1> QED
  BY <1>4, <1>5

-----------------------------------------------------------------------------
(* The panel's steps. *)

LEMMA PanelSteps ==
  ASSUME UsageInv, EstimateInv',
         UNCHANGED <<now, iface, vn, updated, fresh, carried, recorded, inSlot, past, astray>>,
         events' \in {events, events + 1}, events' <= MaxEvents,
         read' \in {read, NoRead} \/ (read'.iface \in Ifaces /\ read'.snapshot = Present(read'.iface)),
         Panel(World, st', db'.st, db'.sources, pending')
  PROVE  UsageInv'
<1>1. /\ EstimateInv /\ Books /\ {events, recorded, fresh, carried} \subseteq Nat
      /\ recorded + fresh <= carried /\ carried <= MaxBytes
  BY UsageParts
<1>2. events' \in Nat /\ events <= events'
  BY <1>1
<1>3. Books'
  <2>1. fresh' \in Nat /\ recorded + fresh' <= carried' /\ carried' <= MaxBytes
    BY <1>1
  <2> QED
    BY <1>1, <1>2, <2>1, BooksStay
<1>4. Panel(World', st', db'.st, db'.sources, pending')
  BY <1>1, <1>2, <1>3, PanelTime
<1> QED
  BY <1>3, <1>4, UsageThen

LEMMA SavesPanel ==
  ASSUME UsageInv, NEW s, NEW t, NEW r, Panel(World, s, db.st, db.sources, r),
         Saved(s, t, r) \/ NotSaved(r)
  PROVE  /\ Panel(World, s, db'.st, db'.sources, pending')
         /\ events' \in {events, events + 1} /\ events' <= MaxEvents
<1>1. Surroundings(World) /\ {events, MaxEvents} \subseteq Nat /\ events <= MaxEvents
  BY UsageParts
<1>2. CASE Saved(s, t, r)
  <2>1. db' = Checkpoint(s, t, r) /\ pending' = NoRecord /\ events' = events
    BY <1>2 DEF Saved
  <2>2. /\ db'.st = s
        /\ db'.sources = IF r = NoRecord THEN db.sources ELSE saveNetworks(db.sources, r)
    BY <2>1 DEF Checkpoint
  <2>3. Panel(World, s, s, IF r = NoRecord THEN db.sources ELSE saveNetworks(db.sources, r), NoRecord)
    BY <1>1, PanelSaved
  <2> QED
    BY <1>1, <2>1, <2>2, <2>3
<1>3. CASE NotSaved(r)
  <2>1. events < MaxEvents /\ events' = events + 1 /\ pending' = r /\ db' = db
    BY <1>3 DEF NotSaved, Event
  <2> QED
    BY <1>1, <2>1
<1> QED
  BY <1>2, <1>3

LEMMA StateIs ==
  ASSUME UsageInv
  PROVE  /\ DOMAIN st = Fields /\ Panel(World, st, db.st, db.sources, pending)
         /\ Surroundings(World) /\ EstimateInv /\ Books /\ events \in Nat /\ events <= MaxEvents
         /\ MaxEvents \in Nat
  BY UsageParts DEF EstimateInv, Anchored

LEMMA ApplySampleKeepsUsage == ASSUME UsageInv, EstimateInv', ApplySample PROVE UsageInv'
<1>1. /\ st' = IF st.generation # 0 /\ ~st.anchorKnown
               THEN [st EXCEPT !.anchor = carried, !.anchorKnown = TRUE] ELSE st
      /\ Saved(st', total', pending) \/ NotSaved(pending)
      /\ UNCHANGED <<now, iface, vn, updated, fresh, carried, read, recorded, inSlot, past, astray>>
  BY DEF ApplySample, environment, ghosts
<1>2. DOMAIN st = Fields /\ Panel(World, st, db.st, db.sources, pending)
  BY StateIs
<1>3. SameFigures(st, st')
  BY <1>1, <1>2, FieldsAre DEF SameFigures, FieldNames
<1>4. Panel(World, st', db.st, db.sources, pending)
  BY <1>2, <1>3, PanelSame
<1>5. /\ Panel(World, st', db'.st, db'.sources, pending')
      /\ events' \in {events, events + 1} /\ events' <= MaxEvents
  BY <1>1, <1>4, SavesPanel
<1> QED
  BY <1>1, <1>5, PanelSteps

LEMMA ReadSampleKeepsUsage == ASSUME UsageInv, EstimateInv', ReadSample PROVE UsageInv'
<1>1. /\ \E asked \in BOOLEAN : Reads(asked)
      /\ UNCHANGED events \/ Event
      /\ UNCHANGED <<now, iface, vn, updated, fresh, carried, recorded, inSlot, past, astray,
                     st, pending, db>>
  BY DEF ReadSample, environment, ghosts
<1>2. PICK asked \in BOOLEAN : Reads(asked)
  BY <1>1
<1>3. read'.iface = iface /\ read'.snapshot = Present(iface)
  BY <1>2 DEF Reads, Present
<1>4. read'.iface \in Ifaces /\ read'.snapshot = Present(read'.iface)
  BY <1>3, UsageParts
<1>5. events' \in {events, events + 1} /\ events' <= MaxEvents
  BY <1>1, StateIs DEF Event
<1>6. Panel(World, st', db'.st, db'.sources, pending')
  BY <1>1, StateIs
<1> QED
  BY <1>1, <1>4, <1>5, <1>6, PanelSteps

LEMMA NoSampleKeepsUsage ==
  ASSUME UsageInv, EstimateInv', SampleFails \/ RefuseSample \/ DropSample PROVE UsageInv'
<1>1. /\ st' = st \/ NetworkFailure
      /\ read' = NoRead
      /\ UNCHANGED events \/ Event
      /\ UNCHANGED <<now, iface, vn, updated, fresh, carried, recorded, inSlot, past, astray,
                     pending, db>>
  BY DEF SampleFails, RefuseSample, DropSample, environment, ghosts
<1>2. DOMAIN st = Fields /\ Panel(World, st, db.st, db.sources, pending)
  BY StateIs
<1>3. SameFigures(st, st')
  <2>1. CASE st' = st
    BY <2>1 DEF SameFigures
  <2>2. CASE NetworkFailure
    BY <1>2, <2>2, FieldsAre DEF SameFigures, FieldNames, NetworkFailure
  <2> QED
    BY <1>1, <2>1, <2>2
<1>4. Panel(World, st', db.st, db.sources, pending)
  BY <1>2, <1>3, PanelSame
<1>5. events' \in {events, events + 1} /\ events' <= MaxEvents
  BY <1>1, StateIs DEF Event
<1>6. db' = db /\ pending' = pending /\ read' \in {read, NoRead}
  BY <1>1
<1>7. Panel(World, st', db'.st, db'.sources, pending')
  BY <1>4, <1>6
<1> QED
  BY <1>1, <1>5, <1>6, <1>7, PanelSteps

LEMMA PublishSampleKeepsUsage == ASSUME UsageInv, EstimateInv', PublishSample PROVE UsageInv'
<1>1. Reading /\ read' = NoRead /\ st' = Sampled(st, read)
  BY DEF PublishSample, Reading
<1>2. Saved(st', total, Record(st')) \/ NotSaved(Record(st'))
  BY DEF PublishSample, Record
<1>3. UNCHANGED <<now, iface, vn, updated, fresh, carried, recorded, inSlot, past, astray>>
  BY DEF PublishSample, environment, ghosts
<1>4. Panel(World, st', db.st, db.sources, Record(st'))
  BY <1>1, PublishHolds DEF Publishes
<1>5. /\ Panel(World, st', db'.st, db'.sources, pending')
      /\ events' \in {events, events + 1} /\ events' <= MaxEvents
  BY <1>2, <1>4, SavesPanel
<1>6. read' \in {read, NoRead}
  BY <1>1
<1> QED
  BY <1>3, <1>5, <1>6, PanelSteps

LEMMA ManualResetKeepsUsage == ASSUME UsageInv, EstimateInv', ManualReset PROVE UsageInv'
<1>1. UNCHANGED <<now, iface, vn, updated, fresh, carried, read, recorded, inSlot, past, astray>>
  BY DEF ManualReset, environment, ghosts
<1>2. /\ DOMAIN st = Fields /\ Panel(World, st, db.st, db.sources, pending)
      /\ Surroundings(World) /\ events \in Nat /\ events <= MaxEvents /\ MaxEvents \in Nat
  BY StateIs
<1>3. CASE st.status = "healthy"
  <2>1. /\ st' = [st EXCEPT !.manual = TRUE, !.baseline = st.last, !.carry = 0, !.rx = 0,
                            !.partial = FALSE, !.period = st.updated]
        /\ Saved(st', total, pending) \/ NotSaved(pending)
    BY <1>3 DEF ManualReset
  <2>2. /\ SameSourceOf(st, st') /\ st'.manual = TRUE /\ st'.baseline = st.last /\ st'.carry = 0
        /\ st'.rx = 0 /\ st'.partial = FALSE /\ st'.period = st.updated
        /\ st'.reset = st.reset /\ st'.next = st.next /\ st'.recordedFrom = st.recordedFrom
    BY <1>2, <2>1, FieldsAre DEF SameSourceOf, FieldNames
  <2>3. Panel(World, st', db.st, db.sources, pending)
    <3>1. CASE st.generation # 0
      BY <1>2, <2>2, <3>1, PanelReset
    <3>2. CASE st.generation = 0
      <4>1. 0 \in 0..World.seen[World.vn.updated]
        <5>1. World.vn.updated \in Nat /\ Grows(World.seen)
          BY <1>2 DEF Surroundings, Snapshot
        <5>2. World.seen[World.vn.updated] \in Nat
          BY <5>1 DEF Grows
        <5> QED
          BY <5>2
      <4>2. Figures(World, st')
        BY <2>2, <3>2, <4>1 DEF Figures, SameSourceOf
      <4> QED
        BY <1>2, <2>2, <4>2, PanelChanged
    <3> QED
      BY <3>1, <3>2
  <2>4. /\ Panel(World, st', db'.st, db'.sources, pending')
        /\ events' \in {events, events + 1} /\ events' <= MaxEvents
    BY <2>1, <2>3, SavesPanel
  <2> QED
    BY <1>1, <2>4, PanelSteps
<1>4. CASE st.status # "healthy"
  <2>1. UNCHANGED <<st, pending, db, events>>
    BY <1>4 DEF ManualReset
  <2>2. /\ Panel(World, st', db'.st, db'.sources, pending')
        /\ events' \in {events, events + 1} /\ events' <= MaxEvents
    BY <1>2, <2>1
  <2> QED
    BY <1>1, <2>2, PanelSteps
<1> QED
  BY <1>3, <1>4

LEMMA PersistKeepsUsage == ASSUME UsageInv, EstimateInv', Persist PROVE UsageInv'
<1>1. /\ Saved(st, total, pending)
      /\ UNCHANGED <<now, iface, vn, updated, fresh, carried, st, read, recorded, inSlot, past, astray>>
  BY DEF Persist, environment, ghosts
<1>2. /\ Panel(World, st, db'.st, db'.sources, pending')
      /\ events' \in {events, events + 1} /\ events' <= MaxEvents
  BY <1>1, StateIs, SavesPanel
<1>3. Panel(World, st', db'.st, db'.sources, pending')
  BY <1>1, <1>2
<1> QED
  BY <1>1, <1>2, <1>3, PanelSteps

LEMMA CrashKeepsUsage == ASSUME UsageInv, EstimateInv', Crash PROVE UsageInv'
<1>1. /\ events < MaxEvents /\ events' = events + 1
      /\ st' = db.st /\ pending' = NoRecord /\ read' = NoRead
      /\ UNCHANGED <<now, iface, vn, updated, fresh, carried, db, recorded, inSlot, past, astray>>
  BY DEF Crash, Event, environment, ghosts
<1>2. Panel(World, db.st, db.st, db.sources, NoRecord)
  BY StateIs, PanelLost
<1>3. Panel(World, st', db'.st, db'.sources, pending')
  BY <1>1, <1>2
<1>4. events' \in {events, events + 1} /\ events' <= MaxEvents
  BY <1>1, StateIs
<1>5. read' \in {read, NoRead}
  BY <1>1
<1> QED
  BY <1>1, <1>3, <1>4, <1>5, PanelSteps

-----------------------------------------------------------------------------
(* The beginning, every step, and what follows. *)

LEMMA NoFunction ==
  /\ DOMAIN <<>> = {} /\ <<>> = [g \in DOMAIN <<>> |-> <<>>[g]]
  /\ \A f : f = [g \in DOMAIN f |-> f[g]] /\ DOMAIN f = {} => f = <<>>
  OBVIOUS

LEMMA NewStateIs ==
  /\ NewState.generation = 0 /\ NewState.source = 0 /\ NewState.rx = 0
  BY DEF NewState

LEMMA BooksInit == ASSUME Init PROVE Books
<1>1. /\ now = 5 /\ updated = 5 /\ fresh = 0 /\ carried = 0 /\ recorded = 0 /\ events = 0
      /\ astray = FALSE /\ read = NoRead
      /\ inSlot = [b \in Slots |-> 0] /\ past = [at \in Instants |-> [seen |-> 0, sampled |-> 0]]
      /\ vn = [i \in Ifaces |-> [created |-> 1, total |-> 2, rows |-> [b \in {0, 4} |-> 1]]]
  BY Bounds DEF Init, Instants, Width
<1>2. \A t \in Instants : past[t].seen = 0
  BY <1>1
<1>3. ASSUME NEW t \in Nat PROVE Hull(past)[t] = 0
  <2>1. 0 \in Nat /\ \A i \in Instants : past[i].seen \in 0..0
    BY <1>2
  <2>2. \A n \in Nat : Hull(past)[n] <= 0 /\ Grows(Hull(past))
    BY <2>1, HullGrows
  <2>3. Hull(past)[t] \in Nat
    BY <2>2 DEF Grows
  <2> QED
    BY <2>2, <2>3
<1>4. \A t \in Instants : t \in Nat
  BY Bounds DEF Instants
<1>5. \A b \in Slots : inSlot[b] = Hull(past)[b + 4] - Hull(past)[b]
  BY <1>1, <1>3, SlotsAre
<1>6. ASSUME NEW i \in Ifaces PROVE Snapshot(Present(i))
  <2> DEFINE x == Present(i)
             r == [b \in {0, 4} |-> 1]
  <2>1. /\ DOMAIN x = {"created", "updated", "total", "rows"}
        /\ x.created = 1 /\ x.updated = 5 /\ x.total = 2 /\ x.rows = r
    BY <1>1, PresentIs
  <2>2. Slot(0) = 0 /\ Slot(4) = 4 /\ Slot(5) = 4 /\ {0, 4} \subseteq Slots
    <3>1. Slot(0) = 0 /\ Slot(4) = 4 /\ Slot(5) = 4
      BY DEF Slot, Width
    <3>2. 0 \in 0..Horizon /\ 4 \in 0..Horizon
      BY Bounds
    <3>3. Slot(0) \in Slots /\ Slot(4) \in Slots
      BY <3>2, SlotsAre
    <3> QED
      BY <3>1, <3>3
  <2>3. DOMAIN r = {0, 4} /\ \A b \in {0, 4} : r[b] = 1
    OBVIOUS
  <2> HIDE DEF x, r
  <2>4. RowsTyped(x.rows)
    BY <2>1, <2>2, <2>3 DEF RowsTyped
  <2>5. Snapshot(x)
    BY <2>1, <2>2, <2>3, <2>4 DEF Snapshot
  <2> QED
    BY <2>5 DEF x
<1>7. updated \in Instants
  BY <1>1, Bounds DEF Instants
<1>8. MaxBytes \in Nat /\ MaxEvents \in Nat
  BY EntryAssumption
<1>9. \A t \in Instants : past[t].seen \in 0..recorded /\ past[t].seen = Hull(past)[t]
  BY <1>1, <1>2, <1>3, <1>4
<1>10. past[updated].seen = recorded /\ DOMAIN inSlot = Slots
  BY <1>1, <1>2, <1>7
<1>11. /\ {recorded, fresh, events} \subseteq Nat /\ recorded + fresh <= carried
       /\ carried <= MaxBytes /\ events <= MaxEvents /\ read = NoRead
  BY <1>1, <1>8
<1>12. astray \in BOOLEAN
  BY Zenon, <1>1
<1> QED
  BY <1>5, <1>6, <1>9, <1>10, <1>11, <1>12 DEF Books

LEMMA UsageInit == ASSUME Init PROVE UsageInv
<1>1. EstimateInv /\ Books
  BY EstimateInit, BooksInit
<1>2. st = NewState /\ db.st = NewState /\ db.sources = <<>> /\ pending = NoRecord
  BY DEF Init
<1>3. Surroundings(World)
  BY <1>1, WorldHolds
<1> DEFINE w == World
           s == NewState
           D == <<>>
           p == NoRecord
<1>4. /\ w.now \in Nat /\ w.events \in Nat /\ Grows(w.seen) /\ w.vn.updated \in Nat
  BY <1>3 DEF Surroundings, Snapshot
<1>5. s.generation = 0 /\ s.source = 0 /\ s.rx = 0 /\ p.generation = 0 /\ p = NoRecord
  BY NewStateIs DEF NoRecord
<1>6. DOMAIN D = {} /\ D = [g \in DOMAIN D |-> D[g]]
  BY NoFunction
<1>7. w.seen[w.vn.updated] \in Nat
  BY <1>4 DEF Grows
<1> HIDE DEF w, s, D, p
<1>8. RecordTypes(s, D, p)
  BY <1>5, <1>6 DEF RecordTypes
<1>9. ~Live(w, s) /\ ~Rebuilt(w, s)
  BY <1>5 DEF Live, Rebuilt
<1>10. Numbers(w, s, s, D, p)
  BY <1>4, <1>5, <1>6, <1>9 DEF Numbers
<1>11. Order(w, s, s, D, p)
  BY <1>4, <1>5, <1>6 DEF Order
<1>12. Figures(w, s) /\ Ahead(w, s)
  BY <1>5, <1>7, <1>9 DEF Figures, Ahead
<1>13. Saves(w, s, D, p) /\ Continues(w, s, D, p)
  BY <1>5, <1>6, <1>9 DEF Saves, Continues
<1>14. Panel(w, s, s, D, p)
  BY <1>8, <1>10, <1>11, <1>12, <1>13 DEF Panel
<1> QED
  BY <1>1, <1>2, <1>14 DEF UsageInv, w, s, D, p

LEMMA UsageStep == ASSUME UsageInv, [Next]_vars PROVE UsageInv'
<1>1. EstimateInv'
  BY EstimateStep, UsageParts
<1>2. CASE Next
  BY <1>1, <1>2, TickKeepsUsage, CarryKeepsUsage, RecordsKeepsUsage, RecreateKeepsUsage,
     SetBackKeepsUsage, PruneKeepsUsage, ConfigureKeepsUsage, ApplySampleKeepsUsage,
     ReadSampleKeepsUsage, NoSampleKeepsUsage, PublishSampleKeepsUsage, ManualResetKeepsUsage,
     PersistKeepsUsage, CrashKeepsUsage DEF Next
<1>3. CASE UNCHANGED vars
  <2>1. UNCHANGED <<now, iface, vn, updated, fresh, carried, recorded, inSlot, past, astray,
                    events, st, db, pending, read>>
    BY <1>3 DEF vars, environment, panel, ghosts
  <2>2. events' \in {events, events + 1} /\ events' <= MaxEvents /\ read' \in {read, NoRead}
    BY <2>1, StateIs
  <2>3. Panel(World, st', db'.st, db'.sources, pending')
    BY <2>1, StateIs
  <2> QED
    BY <1>1, <2>1, <2>2, <2>3, PanelSteps
<1> QED
  BY <1>2, <1>3

\* The figures, in terms of what was noted at its instants.
LEMMA FiguresNoted ==
  ASSUME UsageInv
  PROVE  /\ st.rx \in 0..recorded
         /\ st.generation # 0 =>
              /\ st.updated \in Nat /\ st.period \in Nat
              /\ past[st.updated].seen \in Nat /\ past[st.period].seen \in Nat
              /\ st.rx <= Later(0, past[st.updated].seen - past[st.period].seen)
              /\ ~astray /\ ~st.partial
                   => st.rx = Later(0, past[st.updated].seen - past[st.period].seen)
              /\ st.period <= st.updated => past[st.period].seen <= past[st.updated].seen
<1>1. Panel(World, st, db.st, db.sources, pending) /\ EstimateInv /\ Books
  BY UsageParts
<1>2. /\ World.seen = Hull(past) /\ World.vn.updated = updated /\ World.astray = astray
      /\ World.noted = Noted(Hull(past))
  BY WorldIs, PresentIs
<1>3. Grows(Hull(past)) /\ Hull(past)[updated] = recorded
  BY <1>1, HullLast, UsageParts
<1>4. Figures(World, st)
  BY <1>1 DEF Panel
<1>5. st.rx \in 0..recorded
  BY <1>2, <1>3, <1>4 DEF Figures
<1>6. ASSUME st.generation # 0
      PROVE  /\ st.updated \in Nat /\ st.period \in Nat
             /\ past[st.updated].seen = Hull(past)[st.updated]
             /\ past[st.period].seen = Hull(past)[st.period]
             /\ st.rx <= Later(0, Hull(past)[st.updated] - Hull(past)[st.period])
             /\ ~astray /\ ~st.partial
                  => st.rx = Later(0, Hull(past)[st.updated] - Hull(past)[st.period])
  <2>1. st.updated \in World.noted /\ st.period \in World.noted
    BY <1>4, <1>6 DEF Figures
  <2> QED
    BY <1>2, <1>4, <1>6, <2>1, Bounds DEF Figures, Noted, Instants, Between
<1> QED
  BY <1>3, <1>5, <1>6 DEF Grows

LEMMA UsageFollows == ASSUME UsageInv PROVE NothingInvented /\ ExactWhenComplete
<1>1. /\ EstimateInv /\ Books /\ {recorded, fresh, carried, events, MaxBytes, MaxEvents} \subseteq Nat
      /\ recorded + fresh <= carried /\ carried <= MaxBytes /\ events <= MaxEvents
      /\ Panel(World, st, db.st, db.sources, pending)
  BY UsageParts
<1>2. now \in Start..Horizon /\ updated \in Start..now /\ iface \in Ifaces /\ schedule \in Schedules
      /\ total \in Nat /\ total <= carried
  BY <1>1 DEF EstimateInv, ClockTypes, TotalTypes
<1>3. st.generation \in 0..(MaxEvents + 1) /\ pending.generation \in {0, st.generation}
  <2>1. /\ st.generation \in Nat /\ st.generation <= events + 1
        /\ pending.generation \in {0, st.generation}
    BY <1>1, WorldIs DEF Panel, Numbers
  <2> QED
    BY <1>1, <2>1
<1>4. st.rx \in 0..MaxBytes
  BY <1>1, FiguresNoted
<1>5. TypeOK
  BY <1>1, <1>2, <1>3, <1>4 DEF TypeOK
<1>6. NothingInvented
  BY <1>5, FiguresNoted DEF NothingInvented
<1>7. ExactWhenComplete
  <2> SUFFICES ASSUME st.generation # 0, ~st.partial, ~astray, st.period <= st.updated
               PROVE  st.rx = past[st.updated].seen - past[st.period].seen
    BY DEF ExactWhenComplete
  <2>1. /\ past[st.updated].seen \in Nat /\ past[st.period].seen \in Nat
        /\ st.rx = Later(0, past[st.updated].seen - past[st.period].seen)
        /\ past[st.period].seen <= past[st.updated].seen
    BY FiguresNoted
  <2> QED
    BY <2>1 DEF Later
<1> QED
  BY <1>6, <1>7

LEMMA HistoryFollows == ASSUME UsageInv PROVE HistoryWithinRecorded
<1> SUFFICES ASSUME NEW b \in Slots, b < now PROVE NetworkHistory(b) <= inSlot[b]
  BY DEF HistoryWithinRecorded
<1>1. /\ Panel(World, st, db.st, db.sources, pending) /\ EstimateInv /\ Books /\ Surroundings(World)
      /\ now \in Nat
  BY UsageParts
<1>2. b \in Nat /\ b + 4 \in Nat
  BY SlotsAre
<1>3. World.seen = Hull(past) /\ Grows(World.seen)
  BY <1>1, WorldIs DEF Surroundings
<1>4. inSlot[b] = Between(World, b, b + 4) /\ inSlot[b] \in Nat
  <2>1. inSlot[b] = World.seen[b + 4] - World.seen[b]
    BY <1>1, <1>3 DEF Books
  <2>2. b <= b + 4
    BY <1>2
  <2> DEFINE c == b + 4
  <2>3. c \in Nat /\ b <= c
    BY <1>2, <2>2
  <2> HIDE DEF c
  <2>4. /\ Between(World, b, c) \in Nat /\ Between(World, b, c) = World.seen[c] - World.seen[b]
    BY <1>2, <1>3, <2>3, BetweenIs
  <2> QED
    BY <2>1, <2>4 DEF c
<1> DEFINE least == {db.sources[g].available : g \in DOMAIN db.sources}
           left == Later(b, Min(least))
           right == Earlier(b + Width, now)
<1>5. CASE db.sources = <<>> \/ right <= left
  <2>1. NetworkHistory(b) = 0
    BY <1>5 DEF NetworkHistory
  <2> QED
    BY <1>4, <2>1
<1>6. CASE ~(db.sources = <<>> \/ right <= left)
  <2>1. NetworkHistory(b) = sumNetworkSources(networkSources(db.sources, 0, b, right), left, right).bytes
    BY <1>6 DEF NetworkHistory
  <2>2. RecordTypes(db.st, db.sources, pending)
    BY <1>1 DEF Panel
  <2>3. DOMAIN db.sources # {}
    BY <1>6, <2>2, NoFunction DEF RecordTypes
  <2>4. least \subseteq Nat /\ least # {}
    <3>1. \A g \in DOMAIN db.sources : db.sources[g].available \in Nat
      BY <2>2 DEF RecordTypes
    <3> QED
      BY <2>3, <3>1
  <2>5. Min(least) \in Nat
    <3> HIDE DEF least
    <3> QED
      BY <2>4, MinIs
  <2> HIDE DEF least
  <2>6. left \in Nat /\ b <= left
    BY <1>2, <2>5 DEF Later
  <2>7. right \in Nat /\ right <= b + 4
    BY <1>1, <1>2 DEF Earlier, Width
  <2> HIDE DEF left, right
  <2>8. /\ sumNetworkSources(networkSources(db.sources, 0, b, right), left, right).bytes \in Nat
        /\ sumNetworkSources(networkSources(db.sources, 0, b, right), left, right).bytes
             <= Between(World, left, right)
    BY <1>1, <2>6, <2>7, SavedSum
  <2>9. Between(World, left, right) <= Between(World, b, b + 4)
    BY <1>2, <1>3, <2>6, <2>7, BetweenGrows
  <2>10. Between(World, left, right) \in Nat /\ Between(World, b, b + 4) \in Nat
    BY <1>2, <1>3, <2>6, <2>7, BetweenIs
  <2> QED
    BY <1>4, <2>1, <2>8, <2>9, <2>10
<1> QED
  BY <1>5, <1>6

LEMMA NeverFallsStep ==
  ASSUME UsageInv, [Next]_vars, st.generation # 0, st'.period <= st.period, st'.rx < st.rx
  PROVE  Crash \/ ManualReset \/ (astray /\ st'.reset # st.reset)
<1>1. st.rx \in Nat /\ DOMAIN st = Fields
  BY FiguresNoted, StateIs, UsageParts
<1>2. st'.rx # st.rx
  BY <1>1
<1>3. st' # st
  BY <1>2
<1>4. CASE ApplySample \/ NetworkFailure
  <2>1. st'.rx = st.rx
    BY <1>1, <1>4, FieldsAre DEF ApplySample, NetworkFailure, FieldNames
  <2> QED
    BY <1>2, <2>1
<1>5. CASE PublishSample
  <2>1. Reading /\ st' = Sampled(st, read)
    BY <1>5 DEF PublishSample, Reading
  <2>2. SUFFICES ASSUME ~astray \/ Sampled(st, read).reset = st.reset PROVE FALSE
    BY <2>1
  <2>3. Sampled(st, read).period <= st.period /\ Sampled(st, read).rx < st.rx
    BY <2>1
  <2>4. st.rx <= Sampled(st, read).rx
    BY <2>1, <2>2, <2>3, SampleNeverFalls
  <2>5. Sampled(st, read).rx \in Int
    BY <2>1, PublishHolds DEF Publishes, Panel, Figures
  <2> QED
    BY <1>1, <2>3, <2>4, <2>5
<1>6. CASE Crash \/ ManualReset
  BY <1>6
<1>7. CASE UNCHANGED st
  BY <1>3, <1>7
<1>8. /\ Tick \/ Carry \/ Recreate \/ SetBack \/ Prune \/ Configure \/ Records \/ ReadSample
           \/ DropSample \/ Persist => UNCHANGED st
      /\ SampleFails \/ RefuseSample => NetworkFailure
      /\ UNCHANGED vars => UNCHANGED st
  BY DEF Tick, Carry, Recreate, SetBack, Prune, Configure, Records, ReadSample, DropSample,
         Persist, SampleFails, RefuseSample, vars, panel
<1> QED
  BY <1>4, <1>5, <1>6, <1>7, <1>8 DEF Next

-----------------------------------------------------------------------------

\* The measured usage holds no byte that vnStat had recorded before the period
\* began, none of another interface, and none twice: whatever becomes of vnStat's
\* database and of the saves.
THEOREM UsageIsNeverInvented == Spec => []NothingInvented
<1>1. Init => UsageInv
  BY UsageInit
<1>2. UsageInv /\ [Next]_vars => UsageInv'
  BY UsageStep
<1>3. UsageInv => NothingInvented
  BY UsageFollows
<1> QED
  BY <1>1, <1>2, <1>3, PTL DEF Spec

\* A figure that is not flagged partial is the whole truth.
THEOREM CompleteUsageIsExact == Spec => []ExactWhenComplete
<1>1. Init => UsageInv
  BY UsageInit
<1>2. UsageInv /\ [Next]_vars => UsageInv'
  BY UsageStep
<1>3. UsageInv => ExactWhenComplete
  BY UsageFollows
<1> QED
  BY <1>1, <1>2, <1>3, PTL DEF Spec

\* NetworkHistory reports of no bucket more than vnStat recorded in it.
THEOREM HistoryIsRecorded == Spec => []HistoryWithinRecorded
<1>1. Init => UsageInv
  BY UsageInit
<1>2. UsageInv /\ [Next]_vars => UsageInv'
  BY UsageStep
<1>3. UsageInv => HistoryWithinRecorded
  BY HistoryFollows
<1> QED
  BY <1>1, <1>2, <1>3, PTL DEF Spec

\* Within a billing period no sample takes back what was counted, whatever was lost: only
\* a crash goes back to the last save, a manual reset starts again, and another schedule
\* may find less once vnStat was set back or pruned what SBM held half full.
THEOREM MeasuredUsageNeverFalls == Spec => MeasuredNeverFalls
<1>1. Init => UsageInv
  BY UsageInit
<1>2. UsageInv /\ [Next]_vars => UsageInv'
  BY UsageStep
<1>3. UsageInv /\ [Next]_vars
        => [st.generation # 0 /\ st'.period <= st.period /\ st'.rx < st.rx
              => Crash \/ ManualReset \/ (astray /\ st'.reset # st.reset)]_vars
  BY NeverFallsStep
<1> QED
  BY <1>1, <1>2, <1>3, PTL DEF Spec, MeasuredNeverFalls

\* The same in the run that has the scenes side by side: what is measured, what the
\* history reports, and that no sample takes back what was counted.
THEOREM UsageHoldsInTheScenes ==
  MCSpec => /\ []NothingInvented /\ []ExactWhenComplete /\ []HistoryWithinRecorded
            /\ MeasuredNeverFalls
  BY ScenesRun, UsageIsNeverInvented, CompleteUsageIsExact, HistoryIsRecorded,
     MeasuredUsageNeverFalls, PTL
=============================================================================
