---------------------------- MODULE LoginProofs ----------------------------
(***************************************************************************)
(* Theorems about signing in, for the module its run checks: LoginLimiter, *)
(* for any addresses, any finite number of logins at a time and any        *)
(* limits, and WebSession, for any number of requests in flight, logins    *)
(* and reloads.                                                            *)
(*                                                                         *)
(* The limiter.  The budget is inductive with the types.  A block stands   *)
(* because an address is blocked only with a spent budget                  *)
(* (SpentWhenBlocked), and a spent budget means that no login of that      *)
(* address is in progress.                                                 *)
(*                                                                         *)
(* The session.  That a signed-in tab writes with the token of its cookie  *)
(* depends on who may still change either.  The cookie is set by the       *)
(* answers to logins and cleared by others, the token by the answers to    *)
(* logins and to the question asked when the page is loaded.  The          *)
(* invariant says that a signed-in tab has no login in flight, and that    *)
(* the page's first question is answered before anything else is asked.    *)
(***************************************************************************)
EXTENDS MCLogin, FiniteSetTheorems, TLAPS

(* The limiter. *)

TableOK ==
  /\ attempts \subseteq Clients
  /\ count \in [Clients -> Nat] /\ window \in [Clients -> Nat] /\ blocked \in [Clients -> Nat]
  /\ \A c \in Clients \ attempts : count[c] = 0 /\ window[c] = 0 /\ blocked[c] = 0

SlotsOK ==
  /\ inFlight \in [Clients -> Nat]
  /\ active \in Nat
  /\ serving \in [Logins -> Clients \cup {NoClient}]

\* The part of BudgetKept that counts slots.
SlotsCounted ==
  /\ active = Cardinality(Busy)
  /\ \A c \in Clients : inFlight[c] = Cardinality(For(c))

SpentWhenBlocked == \A c \in Clients : now < blocked[c] => count[c] >= Limit

\* The inductive invariant.
LimiterInv ==
  /\ TypeOK
  /\ BudgetKept
  /\ IsFiniteSet(attempts) /\ TableBounded
  /\ SpentWhenBlocked

-----------------------------------------------------------------------------
\* The logins in progress are finitely many.
LEMMA FiniteLogins ==
  /\ IsFiniteSet(Busy) /\ Cardinality(Busy) \in Nat
  /\ \A c \in Clients : IsFiniteSet(For(c)) /\ Cardinality(For(c)) \in Nat
<1>1. Busy \in SUBSET Logins /\ \A c \in Clients : For(c) \in SUBSET Logins
  BY DEF Busy, For
<1>2. IsFiniteSet(Busy) /\ \A c \in Clients : IsFiniteSet(For(c))
  BY <1>1, FS_Subset, LimiterAssumption
<1> QED
  BY <1>2, FS_CardinalityType

\* An admitted login adds itself to the logins in progress, of its address only.
LEMMA Takes ==
  ASSUME SlotsOK, NEW l \in Logins, NEW c \in Clients,
         serving[l] = NoClient, serving' = [serving EXCEPT ![l] = c]
  PROVE  /\ Cardinality(Busy') = Cardinality(Busy) + 1
         /\ \A k \in Clients : Cardinality(For(k)') =
              IF k = c THEN Cardinality(For(k)) + 1 ELSE Cardinality(For(k))
<1>1. c # NoClient /\ \A k \in Clients : k # NoClient
  BY LimiterAssumption
<1>2. l \notin Busy /\ Busy' = Busy \cup {l}
  BY <1>1 DEF Busy, SlotsOK
<1>3. ASSUME NEW k \in Clients
      PROVE  Cardinality(For(k)') = IF k = c THEN Cardinality(For(k)) + 1
                                             ELSE Cardinality(For(k))
  <2>1. CASE k = c
    <3>1. l \notin For(k) /\ For(k)' = For(k) \cup {l}
      BY <1>1, <2>1 DEF For, SlotsOK
    <3> QED
      BY <2>1, <3>1, FiniteLogins, FS_AddElement
  <2>2. CASE k # c
    <3>1. For(k)' = For(k)
      BY <1>1, <2>2 DEF For, SlotsOK
    <3> QED
      BY <2>2, <3>1
  <2> QED
    BY <2>1, <2>2
<1> QED
  BY <1>2, <1>3, FiniteLogins, FS_AddElement

\* A login that returns takes itself away.
LEMMA GivesBack ==
  ASSUME SlotsOK, NEW l \in Logins,
         serving[l] # NoClient, serving' = [serving EXCEPT ![l] = NoClient]
  PROVE  /\ Cardinality(Busy') = Cardinality(Busy) - 1
         /\ Cardinality(Busy) > 0
         /\ \A k \in Clients : Cardinality(For(k)') =
              IF k = serving[l] THEN Cardinality(For(k)) - 1 ELSE Cardinality(For(k))
         /\ Cardinality(For(serving[l])) > 0
<1>1. serving[l] \in Clients /\ NoClient \notin Clients
  BY LimiterAssumption DEF SlotsOK
<1>2. l \in Busy /\ Busy' = Busy \ {l}
  BY <1>1 DEF Busy, SlotsOK
<1>3. l \in For(serving[l])
  BY DEF For
<1>4. ASSUME NEW k \in Clients
      PROVE  Cardinality(For(k)') = IF k = serving[l] THEN Cardinality(For(k)) - 1
                                                      ELSE Cardinality(For(k))
  <2>1. CASE k = serving[l]
    <3>1. l \in For(k) /\ For(k)' = For(k) \ {l}
      BY <1>1, <2>1 DEF For, SlotsOK
    <3> QED
      BY ZenonT(30), <2>1, <3>1, FiniteLogins, FS_RemoveElement
  <2>2. CASE k # serving[l]
    <3>1. For(k)' = For(k)
      BY <1>1, <2>2 DEF For, SlotsOK
    <3> QED
      BY <2>2, <3>1
  <2> QED
    BY <2>1, <2>2
<1>5. Cardinality(Busy') = Cardinality(Busy) - 1
  BY <1>2, FiniteLogins, FS_RemoveElement
<1>6. Cardinality(Busy) > 0 /\ Cardinality(For(serving[l])) > 0
  BY <1>1, <1>2, <1>3, FiniteLogins, FS_EmptySet
<1> QED
  BY <1>4, <1>5, <1>6

-----------------------------------------------------------------------------
\* Entries that go take nothing else with them, and lower no other budget.
LEMMA Forgotten ==
  ASSUME TableOK, IsFiniteSet(attempts), NEW gone \in SUBSET Clients, Forgets(gone)
  PROVE  /\ TableOK' /\ IsFiniteSet(attempts') /\ Cardinality(attempts') <= Cardinality(attempts)
         /\ \A c \in Clients : /\ count'[c] = IF c \in gone THEN 0 ELSE count[c]
                               /\ blocked'[c] = IF c \in gone THEN 0 ELSE blocked[c]
<1>1. TableOK'
  BY DEF TableOK, Forgets
<1>2. attempts' \in SUBSET attempts
  BY DEF Forgets
<1>3. IsFiniteSet(attempts') /\ Cardinality(attempts') <= Cardinality(attempts)
  BY <1>2, FS_Subset
<1> QED
  BY <1>1, <1>3 DEF Forgets

\* A failure finds room in the table, or makes it.
LEMMA RoomMade ==
  ASSUME TableOK, IsFiniteSet(attempts), TableBounded,
         NEW c \in Clients, NEW gone \in SUBSET attempts, MakesRoom(c, gone)
  PROVE  /\ IsFiniteSet((attempts \ gone) \cup {c})
         /\ Cardinality((attempts \ gone) \cup {c}) <= MaxTracked
<1> DEFINE left == attempts \ gone
<1>1. IsFiniteSet(left) /\ Cardinality(left) \in Nat /\ Cardinality(attempts) \in Nat
      /\ Cardinality(left) <= Cardinality(attempts)
  BY FS_Subset, FS_CardinalityType
<1>2. /\ IsFiniteSet(left \cup {c})
      /\ Cardinality(left \cup {c}) = IF c \in left THEN Cardinality(left)
                                                    ELSE Cardinality(left) + 1
  BY <1>1, FS_AddElement
<1>3. CASE ~(c \notin attempts /\ Cardinality(attempts) >= MaxTracked)
  <2>1. left = attempts
    BY <1>3 DEF MakesRoom
  <2> QED
    BY <1>1, <1>2, <1>3, <2>1, LimiterAssumption DEF TableBounded
<1>4. CASE c \notin attempts /\ Cardinality(attempts) >= MaxTracked
  <2>1. Live \in SUBSET attempts
    BY DEF Live
  <2>2. IsFiniteSet(Live) /\ Cardinality(Live) \in Nat /\ Cardinality(Live) <= Cardinality(attempts)
    BY <2>1, FS_Subset, FS_CardinalityType
  <2>3. Cardinality(left) < MaxTracked
    <3>1. CASE Cardinality(Live) < MaxTracked /\ gone = attempts \ Live
      <4>1. left = Live
        BY <2>1, <3>1
      <4> QED
        BY <3>1, <4>1
    <3>2. ASSUME NEW k \in Oldest, gone = (attempts \ Live) \cup {k}
          PROVE  Cardinality(left) < MaxTracked
      <4>1. k \in Live /\ left = Live \ {k}
        BY <2>1, <3>2 DEF Oldest
      <4>2. Cardinality(left) = Cardinality(Live) - 1
        BY <2>2, <4>1, FS_RemoveElement
      <4> QED
        BY <1>1, <2>2, <4>2, LimiterAssumption DEF TableBounded
    <3> QED
      BY <1>4, <3>1, <3>2 DEF MakesRoom, Swept
  <2> QED
    BY <1>1, <1>2, <2>3, LimiterAssumption
<1> QED
  BY <1>3, <1>4

\* A failure is counted once, in its address' entry.
LEMMA Counted ==
  ASSUME TableOK, now \in Nat, NEW c \in Clients, NEW gone \in SUBSET attempts, Counts(c, gone)
  PROVE  /\ TableOK'
         /\ attempts' = (attempts \ gone) \cup {c}
         /\ count'[c] <= count[c] + 1
         /\ now < blocked'[c] => count'[c] >= Limit \/ (now < blocked[c] /\ count'[c] > count[c])
         /\ \A k \in Clients \ {c} :
              /\ count'[k] = IF k \in gone THEN 0 ELSE count[k]
              /\ blocked'[k] = IF k \in gone THEN 0 ELSE blocked[k]
<1> DEFINE fresh == c \notin attempts \/ now - window[c] >= Window
           fails == IF fresh THEN 1 ELSE count[c] + 1
<1> USE LimiterAssumption DEF TableOK
<1>1. fails \in Nat /\ fails <= count[c] + 1 /\ (~fresh => fails > count[c])
  OBVIOUS
<1>2. /\ attempts' = (attempts \ gone) \cup {c}
      /\ count'   = [k \in Clients |-> IF k = c THEN fails
                                       ELSE IF k \in gone THEN 0 ELSE count[k]]
      /\ window'  = [k \in Clients |-> IF k = c THEN (IF fresh THEN now ELSE window[c])
                                       ELSE IF k \in gone THEN 0 ELSE window[k]]
      /\ blocked' = [k \in Clients |->
                       IF k = c THEN IF fails >= Limit THEN now + Block
                                     ELSE IF fresh THEN 0 ELSE blocked[c]
                       ELSE IF k \in gone THEN 0 ELSE blocked[k]]
  BY DEF Counts
<1> HIDE DEF fresh, fails
<1>3. /\ attempts' \subseteq Clients
      /\ count' \in [Clients -> Nat] /\ window' \in [Clients -> Nat] /\ blocked' \in [Clients -> Nat]
  BY <1>1, <1>2
<1>4. \A k \in Clients \ attempts' : count'[k] = 0 /\ window'[k] = 0 /\ blocked'[k] = 0
  BY <1>2
<1>5. /\ count'[c] = fails
      /\ blocked'[c] = IF fails >= Limit THEN now + Block ELSE IF fresh THEN 0 ELSE blocked[c]
  BY <1>2
<1> QED
  BY <1>1, <1>2, <1>3, <1>4, <1>5

-----------------------------------------------------------------------------
\* Everything starts empty.
LEMMA InitialLimits == Init => LimiterInv
<1> SUFFICES ASSUME Init PROVE LimiterInv
  OBVIOUS
<1> USE LimiterAssumption
<1>1. TypeOK
  BY DEF Init, TypeOK
<1>2. Busy = {} /\ \A c \in Clients : For(c) = {}
  BY DEF Init, Busy, For
<1>3. BudgetKept
  BY <1>2, FS_EmptySet DEF Init, BudgetKept
<1>4. IsFiniteSet(attempts) /\ TableBounded
  BY FS_EmptySet DEF Init, TableBounded
<1> QED
  BY <1>1, <1>3, <1>4 DEF Init, LimiterInv, SpentWhenBlocked

\* A login that begins: it needs room in its address' budget, and gets only that.
LEMMA BeginKeeps ==
  ASSUME LimiterInv, NEW l \in Logins, NEW c \in Clients, BeginAdmitted(l, c)
  PROVE  LimiterInv'
<1> USE LimiterAssumption
<1> DEFINE gone == {k \in {c} : Expired(k)}
<1>1. TableOK /\ SlotsOK /\ now \in Nat /\ now' = now /\ IsFiniteSet(attempts)
  BY DEF LimiterInv, TypeOK, TableOK, SlotsOK, BeginAdmitted
<1>2. /\ TableOK' /\ IsFiniteSet(attempts') /\ Cardinality(attempts') <= Cardinality(attempts)
      /\ \A k \in Clients : /\ count'[k] = IF k \in gone THEN 0 ELSE count[k]
                            /\ blocked'[k] = IF k \in gone THEN 0 ELSE blocked[k]
  BY <1>1, Forgotten DEF BeginAdmitted
<1>3. /\ Cardinality(Busy') = Cardinality(Busy) + 1
      /\ \A k \in Clients : Cardinality(For(k)') =
           IF k = c THEN Cardinality(For(k)) + 1 ELSE Cardinality(For(k))
  BY <1>1, Takes DEF BeginAdmitted
<1>4. /\ inFlight' = [inFlight EXCEPT ![c] = @ + 1] /\ active' = active + 1
      /\ serving' = [serving EXCEPT ![l] = c]
  BY DEF BeginAdmitted
<1>5. SlotsOK'
  BY <1>1, <1>4 DEF SlotsOK
<1>6. TypeOK'
  BY <1>1, <1>2, <1>5 DEF LimiterInv, TypeOK, TableOK, SlotsOK
<1>7. active' <= MaxActive /\ count'[c] + inFlight'[c] <= Limit
  <2>1. active < MaxActive
    BY DEF BeginAdmitted, Admits
  <2>2. CASE Expired(c)
    BY <1>1, <1>2, <1>4, <2>1, <2>2 DEF BeginAdmitted, Admits, LimiterInv, BudgetKept, SlotsOK, TableOK
  <2>3. CASE ~Expired(c)
    BY <1>1, <1>2, <1>4, <2>1, <2>3 DEF BeginAdmitted, Admits, SlotsOK, TableOK
  <2> QED
    BY <2>2, <2>3
<1>8. \A k \in Clients : /\ inFlight'[k] = Cardinality(For(k)')
                         /\ count'[k] + inFlight'[k] <= Limit
  BY <1>1, <1>2, <1>3, <1>4, <1>7 DEF LimiterInv, BudgetKept, SlotsOK, TableOK
<1>9. BudgetKept'
  BY <1>3, <1>4, <1>7, <1>8 DEF LimiterInv, BudgetKept
<1>10. TableBounded'
  <2>1. Cardinality(attempts) \in Nat /\ Cardinality(attempts') \in Nat
    BY <1>1, <1>2, FS_CardinalityType
  <2> QED
    BY <1>2, <2>1 DEF LimiterInv, TableBounded
<1>11. SpentWhenBlocked'
  BY <1>1, <1>2 DEF LimiterInv, SpentWhenBlocked, TableOK
<1> QED
  BY <1>2, <1>6, <1>9, <1>10, <1>11 DEF LimiterInv

\* A refused login only clears an entry that is over.
LEMMA RefusalKeeps ==
  ASSUME LimiterInv, NEW c \in Clients, BeginRefused(c)
  PROVE  LimiterInv'
<1> USE LimiterAssumption
<1> DEFINE gone == {k \in {c} : Expired(k)}
<1>1. TableOK /\ SlotsOK /\ now \in Nat /\ IsFiniteSet(attempts)
      /\ UNCHANGED <<now, inFlight, active, serving>>
  BY DEF LimiterInv, TypeOK, TableOK, SlotsOK, BeginRefused, slots
<1>2. /\ TableOK' /\ IsFiniteSet(attempts') /\ Cardinality(attempts') <= Cardinality(attempts)
      /\ \A k \in Clients : /\ count'[k] = IF k \in gone THEN 0 ELSE count[k]
                            /\ blocked'[k] = IF k \in gone THEN 0 ELSE blocked[k]
  BY <1>1, Forgotten DEF BeginRefused
<1>3. TypeOK'
  BY <1>1, <1>2 DEF LimiterInv, TypeOK, TableOK
<1>4. BudgetKept'
  <2>1. Busy' = Busy /\ \A k \in Clients : For(k)' = For(k)
    BY <1>1 DEF Busy, For
  <2>2. \A k \in Clients : count'[k] + inFlight'[k] <= Limit
    BY <1>1, <1>2 DEF LimiterInv, BudgetKept, SlotsOK, TableOK
  <2> QED
    BY <1>1, <2>1, <2>2 DEF LimiterInv, BudgetKept
<1>5. TableBounded'
  <2>1. Cardinality(attempts) \in Nat /\ Cardinality(attempts') \in Nat
    BY <1>1, <1>2, FS_CardinalityType
  <2> QED
    BY <1>2, <2>1 DEF LimiterInv, TableBounded
<1>6. SpentWhenBlocked'
  BY <1>1, <1>2 DEF LimiterInv, SpentWhenBlocked, TableOK
<1> QED
  BY <1>2, <1>3, <1>4, <1>5, <1>6 DEF LimiterInv

\* What a returning login gives back, whatever its verdict.
LEMMA Released ==
  ASSUME LimiterInv, NEW l \in Logins, Releases(l)
  PROVE  /\ serving[l] \in Clients /\ now' = now /\ now \in Nat
         /\ TableOK /\ IsFiniteSet(attempts)
         /\ SlotsOK' /\ SlotsCounted' /\ active' <= MaxActive
         /\ \A k \in Clients : inFlight'[k] = IF k = serving[l] THEN inFlight[k] - 1
                                                               ELSE inFlight[k]
<1> USE LimiterAssumption
<1>1. TableOK /\ SlotsOK /\ SlotsCounted /\ now \in Nat /\ IsFiniteSet(attempts)
      /\ active <= MaxActive
  BY DEF LimiterInv, TypeOK, TableOK, SlotsOK, SlotsCounted, BudgetKept
<1>2. /\ serving[l] # NoClient /\ serving' = [serving EXCEPT ![l] = NoClient]
      /\ inFlight' = [inFlight EXCEPT ![serving[l]] = @ - 1]
      /\ active' = active - 1 /\ now' = now
  BY DEF Releases
<1>3. serving[l] \in Clients
  BY <1>1, <1>2 DEF SlotsOK
<1>4. /\ Cardinality(Busy') = Cardinality(Busy) - 1
      /\ Cardinality(Busy) > 0
      /\ \A k \in Clients : Cardinality(For(k)') =
           IF k = serving[l] THEN Cardinality(For(k)) - 1 ELSE Cardinality(For(k))
      /\ Cardinality(For(serving[l])) > 0
  BY <1>1, <1>2, GivesBack
<1>5. active > 0 /\ inFlight[serving[l]] > 0
  BY <1>3, <1>4 , <1>1 DEF SlotsCounted
<1>6. \A k \in Clients : inFlight'[k] = IF k = serving[l] THEN inFlight[k] - 1 ELSE inFlight[k]
  BY <1>1, <1>2, <1>3 DEF SlotsOK
<1>7. SlotsOK'
  BY <1>1, <1>2, <1>3, <1>5 DEF SlotsOK
<1>8. SlotsCounted'
  BY <1>1, <1>2, <1>3, <1>4, <1>6 DEF SlotsCounted
<1>9. active' <= MaxActive
  BY <1>1, <1>2 DEF SlotsOK
<1> QED
  BY <1>1, <1>2, <1>3, <1>6, <1>7, <1>8, <1>9

\* A success gives the slot back and forgets the failures.
LEMMA SuccessKeeps ==
  ASSUME LimiterInv, NEW l \in Logins, Succeeds(l)
  PROVE  LimiterInv'
<1> USE LimiterAssumption
<1>1. /\ serving[l] \in Clients /\ now' = now /\ now \in Nat
      /\ TableOK /\ IsFiniteSet(attempts)
      /\ SlotsOK' /\ SlotsCounted' /\ active' <= MaxActive
      /\ \A k \in Clients : inFlight'[k] = IF k = serving[l] THEN inFlight[k] - 1
                                                            ELSE inFlight[k]
  BY Released DEF Succeeds
<1>2. /\ TableOK' /\ IsFiniteSet(attempts') /\ Cardinality(attempts') <= Cardinality(attempts)
      /\ \A k \in Clients : /\ count'[k] = IF k \in {serving[l]} THEN 0 ELSE count[k]
                            /\ blocked'[k] = IF k \in {serving[l]} THEN 0 ELSE blocked[k]
  BY <1>1, Forgotten DEF Succeeds
<1>3. TypeOK'
  BY <1>1, <1>2 DEF LimiterInv, TypeOK, TableOK, SlotsOK
<1>4. \A k \in Clients : count'[k] + inFlight'[k] <= Limit
  <2>1. ASSUME NEW k \in Clients PROVE count'[k] + inFlight'[k] <= Limit
    <3>1. /\ count[k] \in Nat /\ inFlight[k] \in Nat /\ count[k] + inFlight[k] <= Limit
          /\ count'[k] \in {0, count[k]} /\ inFlight'[k] \in {inFlight[k], inFlight[k] - 1}
      BY <1>1, <1>2, <2>1 DEF LimiterInv, TypeOK, BudgetKept
    <3> QED
      BY <3>1, LimiterAssumption
  <2> QED
    BY <2>1
<1>5. BudgetKept'
  BY <1>1, <1>4 DEF SlotsCounted, BudgetKept
<1>6. TableBounded'
  <2>1. Cardinality(attempts) \in Nat /\ Cardinality(attempts') \in Nat
    BY <1>1, <1>2, FS_CardinalityType
  <2> QED
    BY <1>2, <2>1 DEF LimiterInv, TableBounded
<1>7. SpentWhenBlocked'
  BY <1>1, <1>2 DEF LimiterInv, SpentWhenBlocked, TableOK
<1> QED
  BY <1>2, <1>3, <1>5, <1>6, <1>7 DEF LimiterInv

\* A failure turns its slot into a count, and finds or makes room for it.
LEMMA FailureKeeps ==
  ASSUME LimiterInv, NEW l \in Logins, Failed(l)
  PROVE  LimiterInv'
<1> USE LimiterAssumption
<1> DEFINE c == serving[l]
<1>1. /\ c \in Clients /\ now' = now /\ now \in Nat
      /\ TableOK /\ IsFiniteSet(attempts)
      /\ SlotsOK' /\ SlotsCounted' /\ active' <= MaxActive
      /\ \A k \in Clients : inFlight'[k] = IF k = c THEN inFlight[k] - 1 ELSE inFlight[k]
  BY Released DEF Failed
<1>2. PICK gone \in SUBSET attempts : MakesRoom(c, gone) /\ Counts(c, gone)
  BY DEF Failed
<1> HIDE DEF c
<1>3. /\ TableOK'
      /\ attempts' = (attempts \ gone) \cup {c}
      /\ count'[c] <= count[c] + 1
      /\ now < blocked'[c] => count'[c] >= Limit \/ (now < blocked[c] /\ count'[c] > count[c])
      /\ \A k \in Clients \ {c} :
           /\ count'[k] = IF k \in gone THEN 0 ELSE count[k]
           /\ blocked'[k] = IF k \in gone THEN 0 ELSE blocked[k]
  BY <1>1, <1>2, Counted
<1>4. IsFiniteSet(attempts') /\ TableBounded'
  BY <1>1, <1>2, <1>3, RoomMade DEF LimiterInv, TableBounded
<1>5. TypeOK'
  BY <1>1, <1>3 DEF LimiterInv, TypeOK, TableOK, SlotsOK
<1>6. \A k \in Clients : count'[k] + inFlight'[k] <= Limit
  <2>1. ASSUME NEW k \in Clients PROVE count'[k] + inFlight'[k] <= Limit
    <3>1. /\ count[k] \in Nat /\ count'[k] \in Nat /\ inFlight[k] \in Nat
          /\ count[k] + inFlight[k] <= Limit
      BY <1>5, <2>1 DEF LimiterInv, TypeOK, BudgetKept
    <3>2. CASE k = c
      BY <1>1, <1>3, <3>1, <3>2
    <3>3. CASE k # c
      BY <1>1, <1>3, <3>1, <3>3
    <3> QED
      BY <3>2, <3>3
  <2> QED
    BY <2>1
<1>7. BudgetKept'
  BY <1>1, <1>6 DEF SlotsCounted, BudgetKept
<1>8. SpentWhenBlocked'
  <2>1. ASSUME NEW k \in Clients, now < blocked'[k] PROVE count'[k] >= Limit
    <3>1. /\ count[k] \in Nat /\ count'[k] \in Nat /\ blocked[k] \in Nat
          /\ now < blocked[k] => count[k] >= Limit
      BY <1>5, <2>1 DEF LimiterInv, TypeOK, SpentWhenBlocked
    <3>2. CASE k = c
      BY <1>3, <2>1, <3>1, <3>2
    <3>3. CASE k # c
      BY <1>1, <1>3, <2>1, <3>1, <3>3
    <3> QED
      BY <3>2, <3>3
  <2> QED
    BY <1>1, <2>1 DEF SpentWhenBlocked
<1> QED
  BY <1>4, <1>5, <1>7, <1>8 DEF LimiterInv

\* Every step keeps the invariant.
LEMMA LimiterStep == LimiterInv /\ [Next]_vars => LimiterInv'
<1> SUFFICES ASSUME LimiterInv, [Next]_vars PROVE LimiterInv'
  OBVIOUS
<1>1. ASSUME NEW l \in Logins, NEW c \in Clients, BeginAdmitted(l, c) PROVE LimiterInv'
  BY <1>1, BeginKeeps
<1>2. ASSUME NEW c \in Clients, BeginRefused(c) PROVE LimiterInv'
  BY <1>2, RefusalKeeps
<1>3. ASSUME NEW l \in Logins, Succeeds(l) PROVE LimiterInv'
  BY <1>3, SuccessKeeps
<1>4. ASSUME NEW l \in Logins, Failed(l) PROVE LimiterInv'
  BY <1>4, FailureKeeps
<1>5. CASE Tick
  <2>1. now \in Nat /\ now' = now + 1 /\ now' \in 0..MaxTime /\ UNCHANGED <<table, slots>>
    BY <1>5, LimiterAssumption DEF Tick, LimiterInv, TypeOK
  <2>2. TypeOK'
    BY <2>1 DEF LimiterInv, TypeOK, table, slots
  <2>3. BudgetKept' /\ IsFiniteSet(attempts') /\ TableBounded'
    BY <2>1 DEF LimiterInv, BudgetKept, Busy, For, TableBounded, table, slots
  <2>4. SpentWhenBlocked'
    BY <2>1 DEF LimiterInv, TypeOK, SpentWhenBlocked, table
  <2> QED
    BY <2>2, <2>3, <2>4 DEF LimiterInv
<1>6. CASE UNCHANGED vars
  BY <1>6 DEF vars, LimiterInv, TypeOK, BudgetKept, Busy, For, TableBounded, SpentWhenBlocked
<1> QED
  BY <1>1, <1>2, <1>3, <1>4, <1>5, <1>6 DEF Next

-----------------------------------------------------------------------------
\* Every variable has its type (Limiter, session.go:71-91).
THEOREM TypeCorrect == Spec => []TypeOK
<1>1. LimiterInv => TypeOK
  BY DEF LimiterInv
<1> QED
  BY <1>1, InitialLimits, LimiterStep, PTL DEF Spec

\* Slots are handed out within the budget of the address and of the server,
\* and returned once (Begin, session.go:93-130).
THEOREM BudgetAlwaysKept == Spec => []BudgetKept
<1>1. LimiterInv => BudgetKept
  BY DEF LimiterInv
<1> QED
  BY <1>1, InitialLimits, LimiterStep, PTL DEF Spec

\* The table of failures never outgrows its bound (sweep, session.go:136-154).
THEOREM TableAlwaysBounded == Spec => []TableBounded
<1>1. LimiterInv => TableBounded
  BY DEF LimiterInv
<1> QED
  BY <1>1, InitialLimits, LimiterStep, PTL DEF Spec

\* A blocked address has spent its budget, so no login of it is in progress that
\* could end the block; and only a full table evicts it (session.go:103, 136-188).
THEOREM BlockAlwaysHolds == Spec => BlockHolds
<1> DEFINE Holds == \A c \in Clients :
              now' < blocked[c] /\ Cardinality(attempts) < MaxTracked =>
                blocked'[c] = blocked[c] /\ inFlight'[c] = 0
<1>1. LimiterInv /\ [Next]_vars => [Holds]_vars
  <2> SUFFICES ASSUME LimiterInv, Next, NEW c \in Clients,
                      now' < blocked[c], Cardinality(attempts) < MaxTracked
               PROVE  blocked'[c] = blocked[c] /\ inFlight'[c] = 0
    BY DEF vars
  <2> USE LimiterAssumption
  <2>1. /\ now \in Nat /\ blocked \in [Clients -> Nat] /\ count[c] \in Nat
        /\ inFlight \in [Clients -> Nat] /\ count[c] + inFlight[c] <= Limit
        /\ \A l \in Logins : serving[l] \in Clients \cup {NoClient}
        /\ TableOK /\ IsFiniteSet(attempts)
    BY DEF LimiterInv, TypeOK, BudgetKept, TableOK
  <2>2. now < blocked[c]
    <3>1. now' = now \/ now' = now + 1
      BY DEF Next, BeginAdmitted, BeginRefused, Succeeds, Failed, Releases, Tick
    <3> QED
      BY <2>1, <3>1
  <2>3. count[c] >= Limit /\ inFlight[c] = 0
    BY <2>1, <2>2 DEF LimiterInv, SpentWhenBlocked
  <2>4. ~Expired(c)
    BY <2>1, <2>2 DEF Expired
  <2>5. ASSUME NEW l \in Logins, serving[l] = c PROVE FALSE
    <3>1. l \in For(c) /\ Cardinality(For(c)) = 0
      BY <2>3, <2>5 DEF For, LimiterInv, BudgetKept
    <3> QED
      BY <3>1, FiniteLogins, FS_EmptySet
  <2>6. ASSUME NEW l \in Logins, NEW k \in Clients, BeginAdmitted(l, k)
        PROVE  blocked'[c] = blocked[c] /\ inFlight'[c] = 0
    <3>1. k # c
      BY <2>1, <2>2, <2>3, <2>4, <2>6 DEF BeginAdmitted, Admits
    <3> QED
      BY <2>1, <2>3, <2>6, <3>1 DEF BeginAdmitted, Forgets
  <2>7. ASSUME NEW k \in Clients, BeginRefused(k)
        PROVE  blocked'[c] = blocked[c] /\ inFlight'[c] = 0
    BY <2>1, <2>3, <2>4, <2>7 DEF BeginRefused, Forgets, slots
  <2>8. ASSUME NEW l \in Logins, Succeeds(l)
        PROVE  blocked'[c] = blocked[c] /\ inFlight'[c] = 0
    BY <2>1, <2>3, <2>5, <2>8 DEF Succeeds, Releases, Forgets
  <2>9. ASSUME NEW l \in Logins, Failed(l)
        PROVE  blocked'[c] = blocked[c] /\ inFlight'[c] = 0
    <3>1. PICK gone \in SUBSET attempts : MakesRoom(serving[l], gone) /\ Counts(serving[l], gone)
      BY <2>9 DEF Failed
    <3>2. gone = {}
      <4>1. Cardinality(attempts) \in Nat
        BY <2>1, FS_CardinalityType
      <4> QED
        BY <3>1, <4>1 DEF MakesRoom
    <3>3. serving[l] # c /\ serving[l] \in Clients
      BY <2>1, <2>5, <2>9 DEF Failed, Releases
    <3>4. blocked'[c] = blocked[c]
      BY <2>1, <3>1, <3>2, <3>3, Counted
    <3> QED
      BY <2>1, <2>3, <2>9, <3>3, <3>4 DEF Failed, Releases
  <2>10. CASE Tick
    BY <2>3, <2>10 DEF Tick, table, slots
  <2> QED
    BY <2>6, <2>7, <2>8, <2>9, <2>10 DEF Next
<1>2. Spec => []LimiterInv
  BY InitialLimits, LimiterStep, PTL DEF Spec
<1> QED
  BY <1>1, <1>2, PTL DEF Spec, BlockHolds

\* The whole promise of the limiter (session.go), for any number of addresses and
\* overlapping logins, and any budgets, windows and blocks.
THEOREM LimiterAlwaysHolds == Spec => LimiterHolds
<1>1. Spec => [](TypeOK /\ BudgetKept /\ TableBounded)
  BY TypeCorrect, BudgetAlwaysKept, TableAlwaysBounded, PTL
<1> QED
  BY <1>1, BlockAlwaysHolds DEF LimiterHolds

-----------------------------------------------------------------------------
(* The session. *)

Status   == {"none", "ok", "401", "403"}
Requests == [kind : S!Kinds, cookie : Nat, csrf : Nat, mounted : BOOLEAN,
             reply : [status : Status, sets : Nat]]

Types ==
  /\ cookie \in Nat /\ csrf \in Nat /\ issued \in Nat
  /\ ready \in BOOLEAN /\ user \in BOOLEAN /\ expired \in BOOLEAN /\ asked \in BOOLEAN
  /\ net \in [Slots -> Requests \cup {S!Free}]

\* What the answers there are do to the cookie.
Sets(r) ==
  /\ r.kind = "login" /\ r.reply.status = "ok" => r.reply.sets \in S!Sessions
  /\ r.kind = "login" /\ r.reply.status # "ok" => r.reply.sets = S!Keep
  /\ r.kind # "login" => r.reply.sets \in {0, S!Keep}
  /\ r.kind = "me" /\ r.reply.status = "ok" => r.reply.sets = S!Keep

Answers == \A s \in Slots : net[s] # S!Free => Sets(net[s])

\* The page's first question is alone, and a signed-in tab has no login in flight.
Asking ==
  /\ \A s \in Slots : net[s].kind = "me" =>
       /\ ~ready /\ ~user /\ net[s].cookie = cookie
       /\ \A r \in Slots : r # s => net[r] = S!Free
  /\ \A s \in Slots : net[s].kind = "login" =>
       ~user /\ \A r \in Slots : net[r].kind = "login" => r = s

\* A tab whose user signed out shows the login screen, and not for an expiry.
SignedOut == asked => ~user /\ ~expired

SessionInv == Types /\ Answers /\ Asking /\ S!TokenMatches /\ SignedOut

-----------------------------------------------------------------------------
LEMMA FreeIsFree ==
  /\ S!Free \notin Requests /\ S!Free.kind = "free"
  /\ \A r \in Requests : r.kind \in S!Kinds /\ r.kind # "free" /\ r # S!Free
BY DEF S!Free, Requests, S!Kinds

LEMMA RequestType ==
  ASSUME Types, NEW k \in S!Kinds
  PROVE  S!Request(k) \in Requests /\ Sets(S!Request(k)) /\ S!Request(k).kind = k
         /\ S!Request(k).cookie = cookie
<1>1. S!NoReply \in [status : Status, sets : Nat] /\ S!NoReply.status = "none" /\ S!NoReply.sets = S!Keep
  BY SessionAssumption DEF S!NoReply, Status, S!Keep
<1>2. (IF k \in {"me", "get"} THEN 0 ELSE csrf) \in Nat
  BY DEF Types
<1>3. S!Request(k) \in Requests
  BY <1>1, <1>2 DEF S!Request, Requests, Types
<1>4. S!Request(k).kind = k /\ S!Request(k).cookie = cookie /\ S!Request(k).reply = S!NoReply
  BY DEF S!Request
<1> QED
  BY <1>1, <1>3, <1>4 DEF Sets

\* Unmounting the views changes nothing of a request but who waits for it.
LEMMA OrphanedKeeps ==
  ASSUME NEW n \in [Slots -> Requests \cup {S!Free}]
  PROVE  /\ S!Orphaned(n) \in [Slots -> Requests \cup {S!Free}]
         /\ \A s \in Slots : /\ S!Orphaned(n)[s] = S!Free <=> n[s] = S!Free
                             /\ S!Orphaned(n)[s].kind = n[s].kind
                             /\ n[s] # S!Free => /\ S!Orphaned(n)[s].cookie = n[s].cookie
                                                 /\ S!Orphaned(n)[s].reply = n[s].reply
<1>1. \A s \in Slots : S!Orphaned(n)[s] = IF n[s] = S!Free THEN S!Free ELSE [n[s] EXCEPT !.mounted = FALSE]
  BY DEF S!Orphaned
<1>2. \A r \in Requests : /\ [r EXCEPT !.mounted = FALSE] \in Requests
                          /\ [r EXCEPT !.mounted = FALSE].kind = r.kind
                          /\ [r EXCEPT !.mounted = FALSE].cookie = r.cookie
                          /\ [r EXCEPT !.mounted = FALSE].reply = r.reply
  BY DEF Requests
<1>3. S!Orphaned(n) \in [Slots -> Requests \cup {S!Free}]
  BY <1>2 DEF S!Orphaned
<1>4. ASSUME NEW s \in Slots
      PROVE  /\ S!Orphaned(n)[s] = S!Free <=> n[s] = S!Free
             /\ S!Orphaned(n)[s].kind = n[s].kind
             /\ n[s] # S!Free => /\ S!Orphaned(n)[s].cookie = n[s].cookie
                                 /\ S!Orphaned(n)[s].reply = n[s].reply
  <2>1. CASE n[s] = S!Free
    BY <1>1, <2>1
  <2>2. CASE n[s] # S!Free
    <3>1. n[s] \in Requests /\ S!Orphaned(n)[s] = [n[s] EXCEPT !.mounted = FALSE]
      BY <1>1, <2>2
    <3> QED
      BY <1>2, <2>2, <3>1, FreeIsFree
  <2> QED
    BY <2>1, <2>2
<1> QED
  BY <1>3, <1>4

\* A signed-in tab may ask for anything but a login or its first question.
LEMMA SentKeeps ==
  ASSUME SessionInv, user, NEW k \in S!Kinds \ {"me", "login"},
         NEW n \in [Slots -> Requests \cup {S!Free}], NEW s \in Slots,
         n = net \/ n = S!Orphaned(net), net' = [n EXCEPT ![s] = S!Request(k)],
         UNCHANGED <<cookie, csrf, ready, user, expired, issued, asked>>
  PROVE  SessionInv'
<1>1. S!Request(k) \in Requests /\ Sets(S!Request(k)) /\ S!Request(k).kind = k
  BY RequestType DEF SessionInv
<1>2. \A r \in Slots : net'[r] = IF r = s THEN S!Request(k) ELSE n[r]
  OBVIOUS
<1>3. \A r \in Slots : /\ n[r] = S!Free <=> net[r] = S!Free
                       /\ n[r].kind = net[r].kind
                       /\ n[r] # S!Free => n[r].cookie = net[r].cookie /\ n[r].reply = net[r].reply
  BY OrphanedKeeps DEF SessionInv, Types
<1>4. net' \in [Slots -> Requests \cup {S!Free}]
  BY <1>1
<1>5. Answers'
  BY <1>1, <1>2, <1>3 DEF Answers, Sets, SessionInv
<1>6. Asking'
  BY <1>1, <1>2, <1>3 DEF Asking, SessionInv
<1> QED
  BY <1>4, <1>5, <1>6 DEF SessionInv, Types, S!TokenMatches, SignedOut

\* A login is asked for by a tab that has its first answer and nobody signed in.
LEMMA LoginKeeps == ASSUME SessionInv, S!Login PROVE SessionInv'
<1>1. PICK s \in Slots : net[s] = S!Free /\ net' = [net EXCEPT ![s] = S!Request("login")]
  BY DEF S!Login, S!Sent
<1>2. /\ S!Request("login") \in Requests /\ Sets(S!Request("login"))
      /\ S!Request("login").kind = "login"
  BY RequestType DEF SessionInv, S!Kinds
<1>3. \A r \in Slots : net'[r] = IF r = s THEN S!Request("login") ELSE net[r]
  BY <1>1 DEF SessionInv, Types
<1>4. \A r \in Slots : net[r].kind # "login"
  BY DEF S!Login, S!InFlight
<1>5. net' \in [Slots -> Requests \cup {S!Free}]
  BY <1>1, <1>2 DEF SessionInv, Types
<1>6. Answers'
  BY <1>2, <1>3 DEF Answers, Sets, SessionInv
<1>7. Asking'
  BY <1>2, <1>3, <1>4 DEF Asking, SessionInv, S!Login
<1> QED
  BY <1>5, <1>6, <1>7 DEF SessionInv, Types, S!TokenMatches, SignedOut, S!Login

LEMMA AsksKeep ==
  ASSUME SessionInv,
         S!Poll \/ (\E k \in {"post", "logout", "password"} : S!Write(k)) \/ (\E p \in S!Pages : S!Navigate(p))
  PROVE  SessionInv'
<1>1. CASE S!Poll
  <2>1. PICK s \in Slots : net' = [net EXCEPT ![s] = S!Request("get")]
    BY <1>1 DEF S!Poll, S!Sent
  <2> QED
    BY <1>1, <2>1, SentKeeps DEF S!Poll, S!Kinds, SessionInv, Types
<1>2. ASSUME NEW k \in {"post", "logout", "password"}, S!Write(k) PROVE SessionInv'
  <2>1. PICK s \in Slots : net' = [net EXCEPT ![s] = S!Request(k)]
    BY <1>2 DEF S!Write, S!Sent
  <2> QED
    BY <1>2, <2>1, SentKeeps DEF S!Write, S!Kinds, SessionInv, Types
<1>3. ASSUME NEW p \in S!Pages, S!Navigate(p) PROVE SessionInv'
  <2>1. PICK s \in Slots : net' = [S!Orphaned(net) EXCEPT ![s] = S!Request("get")]
    BY <1>3 DEF S!Navigate
  <2>2. S!Orphaned(net) \in [Slots -> Requests \cup {S!Free}]
    BY OrphanedKeeps DEF SessionInv, Types
  <2> QED
    BY <1>3, <2>1, <2>2, SentKeeps DEF S!Navigate, S!Kinds, SessionInv, Types
<1> QED
  BY <1>1, <1>2, <1>3

\* The first question of a page that is loaded anew is in one slot, the least.
LEMMA FirstQuestion ==
  ASSUME NEW q \in Requests, q.kind = "me", Sets(q), q.cookie = cookie',
         net' = [s \in Slots |-> IF \A r \in Slots : s <= r THEN q ELSE S!Free],
         ~ready', ~user'
  PROVE  net' \in [Slots -> Requests \cup {S!Free}] /\ Answers' /\ Asking'
<1>1. \A s \in Slots : net'[s] = IF \A r \in Slots : s <= r THEN q ELSE S!Free
  OBVIOUS
<1>2. \A s, r \in Slots : s # r => ~(s <= r /\ r <= s)
  BY SessionAssumption
<1>3. Answers'
  BY <1>1 DEF Answers, Sets
<1>4. Asking'
  BY <1>1, <1>2, FreeIsFree DEF Asking
<1> QED
  BY <1>3, <1>4

LEMMA ReloadKeeps ==
  ASSUME SessionInv, S!Reload
  PROVE  SessionInv'
<1> DEFINE q == [S!Request("me") EXCEPT !.csrf = 0]
<1>1. S!Request("me") \in Requests /\ Sets(S!Request("me")) /\ S!Request("me").kind = "me"
      /\ S!Request("me").cookie = cookie
  BY RequestType DEF SessionInv, S!Kinds
<1>2. q \in Requests /\ q.kind = "me" /\ q.cookie = cookie /\ q.reply = S!Request("me").reply
  BY <1>1 DEF Requests
<1>3. Sets(q)
  BY <1>1, <1>2 DEF Sets
<1>4. net' \in [Slots -> Requests \cup {S!Free}] /\ Answers' /\ Asking'
  <2> HIDE DEF q
  <2> QED
    BY <1>2, <1>3, FirstQuestion DEF S!Reload, q
<1> QED
  BY <1>4 DEF S!Reload, SessionInv, Types, S!TokenMatches, SignedOut

-----------------------------------------------------------------------------
(* The server answers, and the answers arrive. *)

LEMMA AnsweredKeeps ==
  ASSUME SessionInv, NEW s \in Slots, net[s] # S!Free, NEW a \in [status : Status, sets : Nat],
         net' = [net EXCEPT ![s].reply = a], Sets([net[s] EXCEPT !.reply = a]),
         UNCHANGED <<cookie, csrf, ready, user, expired, asked>>, issued' \in Nat
  PROVE  SessionInv'
<1>1. net[s] \in Requests
  BY DEF SessionInv, Types
<1>2. /\ [net[s] EXCEPT !.reply = a] \in Requests
      /\ [net[s] EXCEPT !.reply = a].kind = net[s].kind
      /\ [net[s] EXCEPT !.reply = a].cookie = net[s].cookie
  BY <1>1 DEF Requests
<1>3. /\ net' \in [Slots -> Requests \cup {S!Free}]
      /\ \A r \in Slots : net'[r] = IF r = s THEN [net[s] EXCEPT !.reply = a] ELSE net[r]
  BY <1>2 DEF SessionInv, Types
<1>4. Answers'
  BY <1>3 DEF Answers, SessionInv, Sets
<1>5. Asking'
  BY <1>2, <1>3 DEF Asking, SessionInv
<1> QED
  BY <1>3, <1>4, <1>5 DEF SessionInv, Types, S!TokenMatches, SignedOut

LEMMA ServedKeeps ==
  ASSUME SessionInv, NEW s \in Slots, S!ServeLogin(s) \/ S!Serve(s)
  PROVE  SessionInv'
<1>1. \A st \in Status, n \in Nat : S!Reply(st, n) \in [status : Status, sets : Nat]
  BY DEF S!Reply
<1>2. net[s] # S!Free /\ S!Keep \in Nat
  BY FreeIsFree, SessionAssumption DEF S!ServeLogin, S!Serve, S!Kinds, S!Keep
<1>3. net[s] \in Requests
  BY <1>2 DEF SessionInv, Types
<1>4. \A a \in [status : Status, sets : Nat] :
        /\ [net[s] EXCEPT !.reply = a].kind = net[s].kind
        /\ [net[s] EXCEPT !.reply = a].reply = a
  BY <1>3 DEF Requests
<1>5. CASE S!ServeLogin(s)
  <2>1. CASE net' = [net EXCEPT ![s].reply = S!Reply("ok", issued + 1)] /\ issued < MaxLogins
             /\ issued' = issued + 1
    <3>1. issued + 1 \in Nat /\ issued + 1 \in S!Sessions
      BY <2>1, SessionAssumption DEF SessionInv, Types, S!Sessions
    <3>2. S!Reply("ok", issued + 1) \in [status : Status, sets : Nat]
      BY <1>1, <3>1 DEF Status
    <3>3. Sets([net[s] EXCEPT !.reply = S!Reply("ok", issued + 1)])
      BY <1>4, <1>5, <3>1, <3>2 DEF Sets, S!Reply, S!ServeLogin
    <3> QED
      BY <1>2, <1>5, <2>1, <3>1, <3>2, <3>3, AnsweredKeeps DEF S!ServeLogin
  <2>2. CASE net' = [net EXCEPT ![s].reply = S!Reply("401", S!Keep)] /\ UNCHANGED issued
    <3>1. S!Reply("401", S!Keep) \in [status : Status, sets : Nat]
      BY <1>1, <1>2 DEF Status
    <3>2. Sets([net[s] EXCEPT !.reply = S!Reply("401", S!Keep)])
      BY <1>4, <1>5, <3>1 DEF Sets, S!Reply, S!ServeLogin
    <3> QED
      BY <1>2, <1>5, <2>2, <3>1, <3>2, AnsweredKeeps DEF S!ServeLogin, SessionInv, Types
  <2> QED
    BY <1>5, <2>1, <2>2 DEF S!ServeLogin
<1>6. CASE S!Serve(s)
  <2> DEFINE a == S!Authorised(net[s])
  <2>1. a \in [status : Status, sets : Nat] /\ a.sets \in {0, S!Keep}
        /\ (net[s].kind = "me" /\ a.status = "ok" => a.sets = S!Keep)
    BY <1>2 DEF S!Authorised, S!Reply, Status
  <2>2. net' = [net EXCEPT ![s].reply = a] /\ net[s].kind # "login"
    BY <1>6 DEF S!Serve
  <2> HIDE DEF a
  <2>3. Sets([net[s] EXCEPT !.reply = a])
    BY <1>4, <2>1, <2>2 DEF Sets
  <2> QED
    BY <1>2, <1>6, <2>1, <2>2, <2>3, AnsweredKeeps DEF S!Serve, SessionInv, Types
<1> QED
  BY <1>5, <1>6

\* The five ways the tab goes on.
LEMMA Continued ==
  ASSUME NEW r, NEW status, S!Continue(r, status)
  PROVE  \/ /\ r.kind = "me" /\ status = "ok"
            /\ user' = TRUE /\ csrf' = r.cookie /\ asked' = FALSE /\ expired' = expired
         \/ /\ r.kind = "login" /\ status = "ok"
            /\ user' = TRUE /\ csrf' = r.reply.sets /\ asked' = FALSE /\ expired' = FALSE
         \/ /\ r.kind = "logout" /\ user' = FALSE /\ expired' = FALSE /\ asked' = TRUE
            /\ csrf' = IF status = "401" THEN 0 ELSE csrf
         \/ /\ user' = FALSE /\ csrf' = 0 /\ expired' = (user \/ expired) /\ asked' = asked
         \/ /\ r.kind = "login" => status # "ok"
            /\ UNCHANGED <<user, csrf, expired, asked>>
<1>1. CASE r.kind = "me" /\ status = "ok"
  BY <1>1 DEF S!Continue, S!Adopted
<1>2. CASE r.kind = "login" /\ status = "ok"
  BY <1>2 DEF S!Continue, S!Adopted
<1>3. CASE r.kind = "logout"
  <2>1. r.kind # "me" /\ r.kind # "login" /\ ~S!Refused(r.kind)
    BY <1>3 DEF S!Refused
  <2> QED
    BY <1>3, <2>1 DEF S!Continue
<1>4. CASE status = "401" /\ S!Refused(r.kind)
  BY <1>4 DEF S!Continue, S!Refused, S!Unauthorized
<1>5. CASE /\ ~(r.kind = "me" /\ status = "ok") /\ ~(r.kind = "login" /\ status = "ok")
           /\ r.kind # "logout" /\ ~(status = "401" /\ S!Refused(r.kind))
  BY <1>5 DEF S!Continue
<1> QED
  BY <1>1, <1>2, <1>3, <1>4, <1>5

\* What an answered request leaves in its slot: nothing, or the sign-out that follows a
\* change of the password.  The other requests stay what they were.
LEMMA AfterAnswer ==
  ASSUME SessionInv, cookie' \in Nat, csrf' \in Nat,
         NEW s \in Slots, NEW status, S!Settled(s, status)
  PROVE  /\ net' \in [Slots -> Requests \cup {S!Free}]
         /\ net'[s].kind \in {"free", "logout"} /\ (net'[s] # S!Free => Sets(net'[s]))
         /\ \A r \in Slots : r # s =>
              /\ net'[r] = S!Free <=> net[r] = S!Free
              /\ net'[r].kind = net[r].kind
              /\ net[r] # S!Free => net'[r].cookie = net[r].cookie /\ net'[r].reply = net[r].reply
<1> DEFINE q == IF S!SignsOut(net[s], status) THEN [S!Request("logout") EXCEPT !.cookie = cookie'] ELSE S!Free
           after == [net EXCEPT ![s] = q]
<1>1. S!Request("logout") \in Requests /\ Sets(S!Request("logout")) /\ S!Request("logout").kind = "logout"
  BY RequestType DEF SessionInv, S!Kinds
<1>2. LET l == [S!Request("logout") EXCEPT !.cookie = cookie']
      IN  l \in Requests /\ l.kind = "logout" /\ l.reply = S!Request("logout").reply
  BY <1>1 DEF Requests
<1>3. q \in Requests \cup {S!Free} /\ q.kind \in {"free", "logout"} /\ (q # S!Free => Sets(q))
  BY <1>1, <1>2, FreeIsFree DEF Sets
<1>4. net' = IF user' THEN after ELSE S!Orphaned(after)
  BY DEF S!Settled
<1> HIDE DEF q
<1>5. /\ after \in [Slots -> Requests \cup {S!Free}]
      /\ \A r \in Slots : after[r] = IF r = s THEN q ELSE net[r]
  BY <1>3 DEF SessionInv, Types
<1> HIDE DEF after
<1>6. /\ net' \in [Slots -> Requests \cup {S!Free}]
      /\ \A r \in Slots : /\ net'[r] = S!Free <=> after[r] = S!Free
                          /\ net'[r].kind = after[r].kind
                          /\ after[r] # S!Free => /\ net'[r].cookie = after[r].cookie
                                                  /\ net'[r].reply = after[r].reply
  BY <1>4, <1>5, OrphanedKeeps
<1>7. net'[s].kind \in {"free", "logout"} /\ (net'[s] # S!Free => Sets(net'[s]))
  BY <1>3, <1>5, <1>6 DEF Sets
<1> QED
  BY <1>5, <1>6, <1>7

LEMMA SettledKeeps ==
  ASSUME SessionInv, NEW s \in Slots, net[s] # S!Free, NEW status, S!Settled(s, status),
         \/ status = "lost" /\ cookie' = cookie
         \/ /\ status = net[s].reply.status
            /\ cookie' = IF net[s].reply.sets = S!Keep THEN cookie ELSE net[s].reply.sets
  PROVE  SessionInv'
<1>1. net[s] \in Requests /\ Sets(net[s]) /\ net[s].reply.sets \in Nat /\ net[s].cookie \in Nat
  BY DEF SessionInv, Types, Answers, Requests
<1>2. S!Continue(net[s], status)
  BY DEF S!Settled
<1>3. cookie' \in Nat /\ S!Keep \notin S!Sessions /\ 0 \in Nat
  BY <1>1, SessionAssumption DEF SessionInv, Types, S!Keep, S!Sessions
<1>4. /\ csrf' \in Nat /\ user' \in BOOLEAN /\ expired' \in BOOLEAN /\ asked' \in BOOLEAN
      /\ ready' \in BOOLEAN /\ issued' \in Nat
  <2>1. csrf' \in {net[s].cookie, net[s].reply.sets, 0, csrf}
    BY <1>2, Continued
  <2>2. user' \in BOOLEAN /\ expired' \in BOOLEAN /\ asked' \in BOOLEAN
    BY <1>2, Continued DEF SessionInv, Types
  <2> QED
    BY <1>1, <2>1, <2>2 DEF S!Settled, SessionInv, Types
<1>5. /\ net' \in [Slots -> Requests \cup {S!Free}]
      /\ net'[s].kind \in {"free", "logout"} /\ (net'[s] # S!Free => Sets(net'[s]))
      /\ \A r \in Slots : r # s =>
              /\ net'[r] = S!Free <=> net[r] = S!Free
              /\ net'[r].kind = net[r].kind
              /\ net[r] # S!Free => net'[r].cookie = net[r].cookie /\ net'[r].reply = net[r].reply
  BY <1>3, <1>4, AfterAnswer
<1>6. Answers'
  BY <1>5 DEF Answers, Sets, SessionInv
<1>7. \A r \in Slots : net'[r].kind # "me"
  BY <1>5, FreeIsFree DEF SessionInv, Asking
<1>8. ASSUME NEW r \in Slots, net'[r].kind = "login"
      PROVE  ~user' /\ \A p \in Slots : net'[p].kind = "login" => p = r
  <2>1. r # s /\ net[r].kind = "login" /\ net[r] # S!Free
    BY <1>5, <1>8, FreeIsFree
  <2>2. ~user /\ net[s].kind # "me" /\ net[s].kind # "login"
    BY <2>1 DEF SessionInv, Asking
  <2>3. ~user'
    BY <1>2, <2>2, Continued
  <2> QED
    BY <1>5, <2>1, <2>3 DEF SessionInv, Asking
<1>9. S!TokenMatches'
  <2> SUFFICES ASSUME user', cookie' # 0 PROVE csrf' = cookie'
    BY DEF S!TokenMatches
  <2>1. CASE net[s].kind = "me" /\ status = "ok" /\ csrf' = net[s].cookie
    BY <1>1, <2>1 DEF Sets, SessionInv, Asking
  <2>2. CASE net[s].kind = "login" /\ status = "ok" /\ csrf' = net[s].reply.sets
    BY <1>1, <1>3, <2>2 DEF Sets
  <2>3. CASE UNCHANGED <<user, csrf>>
    <3>1. net[s].kind # "login"
      BY <2>3 DEF SessionInv, Asking
    <3>2. cookie' = cookie
      BY <1>1, <3>1 DEF Sets
    <3> QED
      BY <2>3, <3>2 DEF SessionInv, S!TokenMatches
  <2> QED
    BY <1>2, <2>1, <2>2, <2>3, Continued
<1>10. SignedOut'
  BY <1>2, Continued DEF SessionInv, SignedOut
<1> QED
  BY <1>3, <1>4, <1>5, <1>6, <1>7, <1>8, <1>9, <1>10 DEF SessionInv, Types, Asking

-----------------------------------------------------------------------------
LEMMA SessionInvBegins == ASSUME S!Init PROVE SessionInv
<1> DEFINE q == S!Request("me")
<1>2. q \in Requests /\ q.kind = "me" /\ q.cookie = cookie /\ q.reply = S!NoReply
  BY SessionAssumption DEF S!Init, S!Request, Requests, S!NoReply, Status, S!Keep, S!Kinds
<1>3. Sets(q)
  BY <1>2 DEF Sets, S!NoReply
<1>4. net = [s \in Slots |-> IF \A r \in Slots : s <= r THEN q ELSE S!Free]
  BY DEF S!Init
<1> HIDE DEF q
<1>5. Types
  <2>1. net \in [Slots -> Requests \cup {S!Free}]
    BY <1>2, <1>4
  <2> QED
    BY <2>1 DEF S!Init, Types
<1>6. \A s, r \in Slots : s # r => ~(s <= r /\ r <= s)
  BY SessionAssumption
<1>7. Answers
  BY <1>3, <1>4 DEF Answers
<1>8. Asking
  BY <1>2, <1>4, <1>6, FreeIsFree DEF Asking, S!Init
<1> QED
  BY <1>5, <1>7, <1>8 DEF SessionInv, S!TokenMatches, SignedOut, S!Init

LEMMA SessionInvKept ==
  ASSUME SessionInv, [S!Next]_S!vars
  PROVE  SessionInv'
<1>1. ASSUME NEW s \in Slots, S!ServeLogin(s) \/ S!Serve(s) PROVE SessionInv'
  BY <1>1, ServedKeeps
<1>2. ASSUME NEW s \in Slots, S!Receive(s) PROVE SessionInv'
  BY <1>2, SettledKeeps DEF S!Receive
<1>3. ASSUME NEW s \in Slots, S!Fail(s) PROVE SessionInv'
  BY <1>3, SettledKeeps DEF S!Fail
<1>4. CASE S!SessionEnds \/ UNCHANGED S!vars
  BY <1>4 DEF S!SessionEnds, S!vars, SessionInv, Types, Answers, Sets, Asking, S!TokenMatches, SignedOut
<1>5. CASE S!Login
  BY <1>5, LoginKeeps
<1>6. CASE S!Reload
  BY <1>6, ReloadKeeps
<1>7. CASE \/ S!Poll \/ (\E k \in {"post", "logout", "password"} : S!Write(k))
           \/ (\E p \in S!Pages : S!Navigate(p))
  BY <1>7, AsksKeep
<1> QED
  BY <1>1, <1>2, <1>3, <1>4, <1>5, <1>6, <1>7 DEF S!Next

\* What is left of the types: the bounds, which hold because what is adopted, as the
\* cookie or as the token, was issued.
Bounds ==
  /\ cookie \in 0..MaxLogins /\ csrf \in 0..MaxLogins
  /\ live \subseteq S!Sessions /\ issued \in 0..MaxLogins
  /\ page \in S!Pages /\ reloads \in 0..MaxReloads

LEMMA BoundsKept ==
  ASSUME SessionInv, Bounds, [S!Next]_S!vars
  PROVE  Bounds'
<1> USE SessionAssumption
<1>1. ASSUME NEW s \in Slots, S!ServeLogin(s) PROVE Bounds'
  BY <1>1 DEF S!ServeLogin, Bounds, S!Sessions
<1>2. ASSUME NEW s \in Slots, S!Serve(s) PROVE Bounds'
  BY <1>2 DEF S!Serve, Bounds
<1>3. ASSUME NEW s \in Slots, NEW status, net[s] # S!Free, S!Settled(s, status),
             \/ status = "lost" /\ cookie' = cookie
             \/ /\ status = net[s].reply.status
                /\ cookie' = IF net[s].reply.sets = S!Keep THEN cookie ELSE net[s].reply.sets
      PROVE  Bounds'
  <2>1. S!Continue(net[s], status) /\ UNCHANGED <<live, issued, reloads>>
    BY <1>3 DEF S!Settled
  <2>2. Sets(net[s])
    BY <1>3 DEF SessionInv, Answers
  <2>3. cookie' \in 0..MaxLogins
    BY <1>3, <2>2 DEF Sets, S!Sessions, Bounds
  <2>4. csrf' \in 0..MaxLogins
    <3>1. CASE net[s].kind = "me" /\ csrf' = net[s].cookie
      BY <3>1 DEF SessionInv, Asking, Bounds
    <3>2. CASE net[s].kind = "login" /\ status = "ok" /\ csrf' = net[s].reply.sets
      BY <1>3, <2>2, <3>2 DEF Sets, S!Sessions
    <3>3. CASE csrf' \in {0, csrf}
      BY <3>3 DEF Bounds
    <3> QED
      BY <2>1, <3>1, <3>2, <3>3, Continued
  <2>5. page' \in S!Pages
    BY <2>1 DEF S!Continue, S!Unauthorized, Bounds, S!Pages
  <2> QED
    BY <2>1, <2>3, <2>4, <2>5 DEF Bounds
<1>4. ASSUME NEW s \in Slots, S!Receive(s) \/ S!Fail(s) PROVE Bounds'
  BY <1>3, <1>4 DEF S!Receive, S!Fail
<1>5. CASE S!SessionEnds \/ S!Login \/ S!Poll \/ UNCHANGED S!vars
  BY <1>5 DEF S!SessionEnds, S!Login, S!Poll, S!vars, Bounds
<1>6. CASE S!Reload
  BY <1>6 DEF S!Reload, Bounds, S!Pages
<1>7. ASSUME NEW k \in {"post", "logout", "password"}, S!Write(k) PROVE Bounds'
  BY <1>7 DEF S!Write, Bounds
<1>8. ASSUME NEW p \in S!Pages, S!Navigate(p) PROVE Bounds'
  BY <1>8 DEF S!Navigate, Bounds
<1> QED
  BY <1>1, <1>2, <1>4, <1>5, <1>6, <1>7, <1>8 DEF S!Next

\* The session keeps its invariant, with the bounds.
LEMMA SessionAlways == S!Spec => [](SessionInv /\ Bounds)
<1>1. S!Init => SessionInv /\ Bounds
  <2> SUFFICES ASSUME S!Init PROVE SessionInv /\ Bounds
    OBVIOUS
  <2>1. Bounds
    BY SessionAssumption DEF S!Init, Bounds, S!Pages
  <2> QED
    BY <2>1, SessionInvBegins
<1>2. SessionInv /\ Bounds /\ [S!Next]_S!vars => (SessionInv /\ Bounds)'
  BY SessionInvKept, BoundsKept
<1> QED
  BY <1>1, <1>2, PTL DEF S!Spec

\* The token a signed-in tab writes with belongs to the cookie the browser sends, for any
\* number of requests in flight, logins and reloads (App.vue and api.ts).
THEOREM TokenAlwaysMatches == S!Spec => []S!TokenMatches
<1>1. SessionInv => S!TokenMatches
  BY DEF SessionInv
<1> QED
  BY <1>1, SessionAlways, PTL

\* A user who signed out is never told that the session expired, in whatever order the
\* answers to the sign-out and to what was asked around it arrive (App.vue).
THEOREM SignOutNeverExpires == S!Spec => []S!SignOutIsNoExpiry
<1>1. SessionInv => S!SignOutIsNoExpiry
  BY DEF SessionInv, SignedOut, S!SignOutIsNoExpiry
<1> QED
  BY <1>1, SessionAlways, PTL

-----------------------------------------------------------------------------
\* What the run checks is each of the two modules: every behaviour of MCLogin is one of
\* the limiter and one of a session, whichever of them moves.
THEOREM LoginIsItsParts == MCSpec => Spec /\ S!Spec
<1>1. MCInit => Init /\ S!Init
  BY DEF MCInit
<1>2. [MCNext]_<<scene, vars, tab>> => [Next]_vars /\ [S!Next]_S!vars
  BY DEF MCNext, tab, S!vars
<1> QED
  BY <1>1, <1>2, PTL DEF MCSpec, Spec, S!Spec

\* The promise of the limiter and the safety of the session, for the specification the
\* run checks and every value of its constants.
THEOREM LoginsAlwaysLimited == MCSpec => LimiterHolds
BY LoginIsItsParts, LimiterAlwaysHolds, PTL

THEOREM SessionIsAlwaysTrue == MCSpec => []SessionIsTrue
<1>1. SessionInv /\ Bounds => SessionIsTrue
  <2> SUFFICES ASSUME SessionInv, Bounds
               PROVE  S!TypeOK /\ S!TokenMatches /\ S!SignOutIsNoExpiry
    BY DEF SessionIsTrue
  <2>1. \A s \in Slots : net[s] = S!Free \/ net[s].kind \in S!Kinds
    BY FreeIsFree DEF SessionInv, Types
  <2>2. S!TypeOK
    BY <2>1 DEF S!TypeOK, SessionInv, Types, Bounds
  <2> QED
    BY <2>2 DEF SessionInv, SignedOut, S!SignOutIsNoExpiry
<1> QED
  BY <1>1, LoginIsItsParts, SessionAlways, PTL
=============================================================================
