---------------------------- MODULE TrafficPage ----------------------------
(* The traffic page's own poll: ServerView.vue with poll-status.ts.  It       *)
(* reads the unit of the figures from /api/dashboard and warns when what it   *)
(* shows is stale.  Time is counted in steps of five seconds.                 *)
EXTENDS Naturals

CONSTANTS Interval,  \* setInterval: steps between two polls
          Timeout,   \* AbortSignal.timeout: steps a poll may wait
          StaleAge   \* poll-status: steps without success that make a failure an outage

PollAssumption == {Interval, Timeout, StaleAge} \subseteq Nat /\ Timeout < StaleAge

VARIABLES
  untilPoll,  \* steps until the timer fires
  waited,     \* pending: steps the request in flight has waited, or None
  age,        \* steps since the last success, or Never; capped at Horizon
  seen,       \* poll-status: what "now" makes of that age, from the last tick()
  failure     \* poll-status: the last load failed

vars == <<untilPoll, waited, age, seen, failure>>

None    == Timeout + 1
Horizon == StaleAge + Interval + Timeout
Never   == Horizon + 1

\* The computed "stale": it compares with the time of the last tick, not with the
\* clock, and a page that never loaded counts as old.
Stale == failure /\ seen >= StaleAge

\* onMounted(load)
Init == /\ untilPoll = Interval /\ waited = 0
        /\ age = Never /\ seen = Never /\ failure = FALSE

\* A defect: a request waits for its answer without a limit.
Tick_NoTimeout ==
  /\ untilPoll > 0 /\ untilPoll' = untilPoll - 1
  /\ waited' = IF waited = None THEN None ELSE IF waited = Timeout THEN Timeout ELSE waited + 1
  /\ age' = IF age < Horizon THEN age + 1 ELSE age
  /\ UNCHANGED <<seen, failure>>

\* A step of time passes, once what is due in it has happened.
Tick ==
  /\ untilPoll > 0 /\ waited # Timeout
  /\ untilPoll' = untilPoll - 1
  /\ waited' = IF waited = None THEN None ELSE waited + 1
  /\ age' = IF age < Horizon THEN age + 1 ELSE age
  /\ UNCHANGED <<seen, failure>>

\* load(): tick() first, then nothing more while a request is pending.
Load ==
  /\ untilPoll = 0 /\ untilPoll' = Interval
  /\ seen' = age
  /\ waited' = IF waited = None THEN 0 ELSE waited
  /\ UNCHANGED <<age, failure>>

Succeeded ==
  /\ waited # None /\ waited' = None
  /\ age' = 0 /\ seen' = 0 /\ failure' = FALSE
  /\ UNCHANGED untilPoll

\* Refused, cut off, or aborted when the timeout is reached.
Failed ==
  /\ waited # None /\ waited' = None
  /\ seen' = age /\ failure' = TRUE
  /\ UNCHANGED <<untilPoll, age>>

Next == Tick \/ Load \/ Succeeded \/ Failed

Spec == Init /\ [][Next]_vars

-----------------------------------------------------------------------------
TypeOK == /\ untilPoll \in 0..Interval /\ waited \in 0..None
          /\ age \in 0..Never /\ seen \in 0..Never /\ failure \in BOOLEAN

\* An outage is not concealed: figures that are older than a poll interval and the
\* age of an outage together carry the warning, although the age is only looked at
\* when a timer fires or a request ends, and a poll is skipped while another waits.
\* A page that never loaded has none to be old: it carries the warning from the end
\* of its first request on.
OutageShown == /\ age # Never /\ age >= Interval + StaleAge => Stale
               /\ age = Never => Stale \/ waited # None

=============================================================================
