------------------------------ MODULE LockOrder ------------------------------
(* The locks the panel holds while it waits for something else: mutationMu     *)
(* and healthMu of the server, gatewayMu, sampleMu, the networkLock, controlMu  *)
(* and persistMu of the tracker, mu and versionMu of the core manager, and the  *)
(* one connection to traffic.db.  An operation is the sequence of what it locks *)
(* and unlocks, and of the commands that matter, with the parts that conditions *)
(* and early returns may leave out.  Locks under which nothing else is waited   *)
(* for (Tracker.mu, those of the stores and of the rules) cannot take part.     *)
EXTENDS Sequences, Integers

CONSTANTS Enforcers,  \* threads that count and enforce: the poll loop, the vnStat worker
          Others,     \* the gateway sampler, the pause watcher, and HTTP requests
          Nobody

LocksAssumption == Nobody \notin Enforcers \cup Others /\ Enforcers \cap Others = {}

Threads == Enforcers \cup Others

VARIABLES todo,    \* what each thread still has to do
          holder   \* of each lock

vars == <<todo, holder>>
-----------------------------------------------------------------------------
(* Steps, and sequences of them *)

Under(lock, steps) == <<[does |-> "lock", on |-> lock]>> \o steps \o <<[does |-> "unlock", on |-> lock]>>
Maybe(steps) == <<[does |-> "skip", over |-> Len(steps)]>> \o steps
Command(name) == <<[does |-> "command", on |-> name]>>

Locks == {"mutationMu", "healthMu", "gatewayMu", "sampleMu", "networkLock", "controlMu",
          "persistMu", "manager.mu", "versionMu", "connection"}
-----------------------------------------------------------------------------
(* Tracker *)

\* A transaction or a query holds the one connection until it is done.
Query == Under("connection", <<>>)

persist == Under("persistMu", Query)

reconcileCore == Under("controlMu", <<>>)

ReconcileQuota == Maybe(persist) \o reconcileCore

\* A reset that is due comes first; a sample that reaches the limit is saved and enforced.
Sample == Under("sampleMu", Maybe(persist \o Maybe(reconcileCore)) \o Maybe(persist \o reconcileCore))

\* It reads what is saved of the source, the sources before it too, and saves what it read.
SampleNetwork == Under("networkLock", Maybe(Query) \o Maybe(persist \o ReconcileQuota))

\* A defect: the fresh sample is taken under the lock it takes itself.
FromFreshSample_Locked == Under("networkLock", SampleNetwork \o Maybe(persist \o Maybe(ReconcileQuota)))

\* resetNetwork and CalibrateEntryUsage.
FromFreshSample == SampleNetwork \o Maybe(Under("networkLock", Maybe(persist \o Maybe(ReconcileQuota))))

\* Reset, by the mode of the panel.
Resets == {persist \o Maybe(reconcileCore), FromFreshSample}

sampleGateways == Maybe(Command("iptables"))

SampleGateways == Under("gatewayMu", Maybe(sampleGateways \o persist))

CommitEgressChange == sampleGateways \o persist

\* History and NetworkHistory; AppTraffic and ClearAppTraffic.
History == Query \o Maybe(Query)
AppTraffic == Under("persistMu", Query)
-----------------------------------------------------------------------------
(* Server and core manager *)

captureTraffic == Maybe(Sample)

Apply == Under("manager.mu", Under("versionMu", <<>>) \o Command("apply"))

invalidateHealth == Under("healthMu", <<>>)

\* BeginEgressChange, the change, its installation where the core is affected, its commit.
mutateChange ==
  LET commit == CommitEgressChange \o invalidateHealth
      record == persist \o commit
      install == Apply \o <<[does |-> "skip", over |-> Len(record)]>> \o persist
  IN Under("mutationMu", Under("gatewayMu",
       sampleGateways \o captureTraffic \o Maybe(persist \o Maybe(Maybe(install) \o commit))))

ReconcileGatewayPauses == Under("mutationMu", Maybe(Apply \o Maybe(invalidateHealth \o persist)))

\* CalibrateGateway and ResetGateway, as their handler calls them.
changeGateway == Under("mutationMu", Under("gatewayMu", Maybe(sampleGateways \o persist)))

saveConfig == Under("mutationMu", <<>>)

updateTrafficSettings ==
  saveConfig \o Maybe(persist \o Maybe(Maybe(SampleNetwork) \o ReconcileQuota))

restart == captureTraffic \o Maybe(persist)
resetTraffic == {captureTraffic \o Maybe(reset) : reset \in Resets}
calibrateTraffic == captureTraffic \o Maybe(FromFreshSample)

\* The dashboard asks for the core's version, the health checks for its configuration.
dashboard == Under("versionMu", <<>>)
slowHealthChecks == Under("healthMu", <<>>)
-----------------------------------------------------------------------------
\* A turn of the poll loop (Run), of its 15 s and 5 s tickers, of the vnStat worker.
Enforcement == {Sample \o Maybe(ReconcileQuota), ReconcileQuota, persist, SampleNetwork}

Requests == {SampleGateways, ReconcileGatewayPauses, mutateChange, changeGateway, updateTrafficSettings,
             restart, calibrateTraffic, dashboard, slowHealthChecks, History, AppTraffic} \cup resetTraffic

Init == todo = [t \in Threads |-> <<>>] /\ holder = [lock \in Locks |-> Nobody]

At(t, what) == todo[t] # <<>> /\ Head(todo[t]).does = what

Goes(t) == todo' = [todo EXCEPT ![t] = Tail(@)]

Begin(t) ==
  /\ todo[t] = <<>>
  /\ \E operation \in IF t \in Enforcers THEN Enforcement ELSE Requests :
       todo' = [todo EXCEPT ![t] = operation]
  /\ UNCHANGED holder

Lock(t) ==
  /\ At(t, "lock") /\ holder[Head(todo[t]).on] = Nobody
  /\ holder' = [holder EXCEPT ![Head(todo[t]).on] = t]
  /\ Goes(t)

Unlock(t) ==
  /\ At(t, "unlock")
  /\ holder' = [holder EXCEPT ![Head(todo[t]).on] = Nobody]
  /\ Goes(t)

CommandEnds(t) == At(t, "command") /\ Goes(t) /\ UNCHANGED holder

\* A condition holds, or does not and the steps that depend on it are left out.
Branch(t) ==
  /\ At(t, "skip")
  /\ \/ Goes(t)
     \/ todo' = [todo EXCEPT ![t] = SubSeq(@, Head(@).over + 2, Len(@))]
  /\ UNCHANGED holder

Next == \E t \in Threads : Begin(t) \/ Lock(t) \/ Unlock(t) \/ CommandEnds(t) \/ Branch(t)

Spec == Init /\ [][Next]_vars
-----------------------------------------------------------------------------
\* Types of the variables: a thread that is done holds nothing.
TypeOK ==
  /\ holder \in [Locks -> Threads \cup {Nobody}]
  /\ \A lock \in Locks : holder[lock] # Nobody => todo[holder[lock]] # <<>>

WaitsFor(t) == IF At(t, "lock") THEN holder[Head(todo[t]).on] ELSE Nobody

\* No thread waits for itself, nor do threads wait for one another in a circle.
NoCircle ==
  ~\E S \in (SUBSET Threads) \ {{}} : \A t \in S : WaitsFor(t) \in S

\* Nobody who counts or enforces waits, through however many others, for iptables or for
\* an application of the configuration to end (Run: "Accounting may wait for iptables or an
\* in-flight configuration apply. It must never delay the original core counters or quota
\* enforcement.").
EnforcementIsNotDelayed ==
  \A slow \in {t \in Others : At(t, "command")} :
    ~\E S \in SUBSET (Threads \ {slow}) :
       S \cap Enforcers # {} /\ \A t \in S : WaitsFor(t) \in S \cup {slow}
=============================================================================
