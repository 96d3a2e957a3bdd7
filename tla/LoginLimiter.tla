---------------------------- MODULE LoginLimiter ----------------------------
(***************************************************************************)
(* internal/auth, Limiter: the budget of failed logins of every client     *)
(* address.  Server.login takes a slot before it reads the request and     *)
(* gives it back, with the verdict, when it returns; several logins of one *)
(* address and of others overlap, time passes between the two calls, and   *)
(* the table of failures is bounded by evicting the oldest entry.          *)
(***************************************************************************)
EXTENDS Integers, FiniteSets

CONSTANTS
  Clients,      \* addresses
  Logins,       \* login requests the server works on at the same time
  NoClient,     \* "no login in progress"
  Limit,        \* failures allowed in a window
  MaxActive,    \* maxConcurrentLogins
  MaxTracked,   \* maxTrackedClients
  Window,       \* length of a window
  Block,        \* length of a block
  MaxTime       \* bound: times considered

ASSUME LimiterAssumption == /\ NoClient \notin Clients
                            /\ IsFiniteSet(Logins)
                            /\ Limit \in Nat \ {0}
                            /\ MaxActive \in Nat \ {0}
                            /\ MaxTracked \in Nat \ {0}
                            /\ Window \in Nat \ {0} /\ Block \in Nat \ {0}
                            /\ MaxTime \in Nat

VARIABLES
  now,       \* the clock
  attempts,  \* the addresses in Limiter.attempts
  count,     \* Count of every address
  window,    \* its Window
  blocked,   \* its BlockedUntil; all three are 0 outside the table
  inFlight,  \* Limiter.inFlight
  active,    \* Limiter.active
  serving    \* the address every login in progress is for

table == <<attempts, count, window, blocked>>
slots == <<inFlight, active, serving>>
vars  == <<now, attempts, count, window, blocked, inFlight, active, serving>>

Init ==
  /\ now = 0
  /\ attempts = {}
  /\ count = [c \in Clients |-> 0]
  /\ window = [c \in Clients |-> 0]
  /\ blocked = [c \in Clients |-> 0]
  /\ inFlight = [c \in Clients |-> 0]
  /\ active = 0
  /\ serving = [l \in Logins |-> NoClient]

-----------------------------------------------------------------------------
Expired(c) == c \in attempts /\ now - window[c] >= Window /\ now >= blocked[c]

\* delete(l.attempts, k) for every k of gone.
Forgets(gone) ==
  /\ attempts' = attempts \ gone
  /\ count' = [c \in Clients |-> IF c \in gone THEN 0 ELSE count[c]]
  /\ window' = [c \in Clients |-> IF c \in gone THEN 0 ELSE window[c]]
  /\ blocked' = [c \in Clients |-> IF c \in gone THEN 0 ELSE blocked[c]]

\* A defect: only failures already known count against the budget.
Admits_Known(c) == now >= blocked[c] /\ count[c] < Limit /\ active < MaxActive

\* What Begin asks of an address whose entry, if it was over, is gone.
Admits(c) ==
  \/ Expired(c) /\ inFlight[c] < Limit /\ active < MaxActive
  \/ now >= blocked[c] /\ count[c] + inFlight[c] < Limit /\ active < MaxActive

\* Limiter.Begin reserves a slot; logins in progress count like failures.
BeginAdmitted(l, c) ==
  /\ serving[l] = NoClient
  /\ Admits(c)
  /\ Forgets({k \in {c} : Expired(k)})
  /\ inFlight' = [inFlight EXCEPT ![c] = @ + 1]
  /\ active' = active + 1
  /\ serving' = [serving EXCEPT ![l] = c]
  /\ now' = now

BeginRefused(c) ==
  /\ ~Admits(c)
  /\ Forgets({k \in {c} : Expired(k)})
  /\ UNCHANGED <<now, slots>>

\* The function Begin returned, called once, when Server.login returns.
Releases(l) ==
  /\ serving[l] # NoClient
  /\ inFlight' = [inFlight EXCEPT ![serving[l]] = @ - 1]
  /\ active' = active - 1
  /\ serving' = [serving EXCEPT ![l] = NoClient]
  /\ now' = now

Succeeds(l) ==
  /\ Releases(l)
  /\ Forgets({serving[l]})

\* sweep: the entries that restrict nobody go; if the table is still full, so
\* does one of the oldest.
Live == {c \in attempts : ~(now > blocked[c] /\ now - window[c] >= Window)}

Oldest == {c \in Live : \A k \in Live : window[c] <= window[k]}

Swept(gone) ==
  \/ Cardinality(Live) < MaxTracked /\ gone = attempts \ Live
  \/ /\ Cardinality(Live) >= MaxTracked
     /\ \E c \in Oldest : gone = (attempts \ Live) \cup {c}

\* Room for one more entry is made only when there is none.
MakesRoom(c, gone) ==
  IF c \notin attempts /\ Cardinality(attempts) >= MaxTracked THEN Swept(gone) ELSE gone = {}

\* failLocked counts the failure in the current window, or in a new one.
Counts(c, gone) ==
  LET fresh == c \notin attempts \/ now - window[c] >= Window
      fails == IF fresh THEN 1 ELSE count[c] + 1
  IN /\ attempts' = (attempts \ gone) \cup {c}
     /\ count'   = [k \in Clients |-> IF k = c THEN fails
                                      ELSE IF k \in gone THEN 0 ELSE count[k]]
     /\ window'  = [k \in Clients |-> IF k = c THEN (IF fresh THEN now ELSE window[c])
                                      ELSE IF k \in gone THEN 0 ELSE window[k]]
     /\ blocked' = [k \in Clients |->
                      IF k = c THEN IF fails >= Limit THEN now + Block
                                    ELSE IF fresh THEN 0 ELSE blocked[c]
                      ELSE IF k \in gone THEN 0 ELSE blocked[k]]

Failed(l) ==
  /\ Releases(l)
  /\ \E gone \in SUBSET attempts :
        /\ MakesRoom(serving[l], gone)
        /\ Counts(serving[l], gone)

Tick ==
  /\ now < MaxTime
  /\ now' = now + 1
  /\ UNCHANGED <<table, slots>>

Next ==
  \/ \E l \in Logins, c \in Clients : BeginAdmitted(l, c)
  \/ \E c \in Clients : BeginRefused(c)
  \/ \E l \in Logins : Succeeds(l) \/ Failed(l)
  \/ Tick

Spec == Init /\ [][Next]_vars

-----------------------------------------------------------------------------
Busy   == {l \in Logins : serving[l] # NoClient}
For(c) == {l \in Logins : serving[l] = c}

\* Every variable has its type; nothing is kept of an address outside the table.
TypeOK ==
  /\ now \in 0..MaxTime
  /\ attempts \subseteq Clients
  /\ count \in [Clients -> Nat] /\ window \in [Clients -> Nat] /\ blocked \in [Clients -> Nat]
  /\ inFlight \in [Clients -> Nat]
  /\ active \in Nat
  /\ serving \in [Logins -> Clients \cup {NoClient}]
  /\ \A c \in Clients \ attempts : count[c] = 0 /\ window[c] = 0 /\ blocked[c] = 0

\* The slots handed out are those of the logins in progress, and no address ever
\* has more failures and logins in progress than its budget: logins that start
\* together cannot all fail (Begin, session.go:93-94).
BudgetKept ==
  /\ active = Cardinality(Busy)
  /\ active <= MaxActive
  /\ \A c \in Clients : /\ inFlight[c] = Cardinality(For(c))
                        /\ count[c] + inFlight[c] <= Limit

\* However many addresses fail, the table is bounded (maxTrackedClients,
\* session.go:77-80).
TableBounded == Cardinality(attempts) <= MaxTracked

\* A block stands until it ends: no login of that address is admitted, and one
\* that was in progress cannot lift it, by a success or by opening a new window.
\* Only the eviction of the entry, from a full table, ends it early.
BlockHolds ==
  [][\A c \in Clients :
       now' < blocked[c] /\ Cardinality(attempts) < MaxTracked =>
         blocked'[c] = blocked[c] /\ inFlight'[c] = 0]_vars

\* The whole promise of the limiter: slots and failures within their budgets, a
\* bounded table, and blocks that stand, however logins overlap.
LimiterHolds == [](TypeOK /\ BudgetKept /\ TableBounded) /\ BlockHolds
=============================================================================
