---------------------------- MODULE UsageLedger ----------------------------
(***************************************************************************)
(* What the traffic tracker promises about the daily history of the proxy  *)
(* counters, whatever the interleaving of sampling, saving and crashing:   *)
(* bytes are recorded once, a save makes some of the recorded bytes        *)
(* durable and never changes what has been recorded, and a crash falls     *)
(* back to exactly what was durable.                                       *)
(***************************************************************************)
EXTENDS Naturals

CONSTANT Days

VARIABLES live,     \* bytes of each day the running panel would report
          durable   \* bytes of each day a crash cannot take away

ledger == <<live, durable>>

LedgerInit == /\ live = [d \in Days |-> 0]
              /\ durable = [d \in Days |-> 0]

\* Bytes are added to a single day.
Record == /\ \E d \in Days : /\ live'[d] \in Nat
                             /\ live[d] <= live'[d]
                             /\ live' = [live EXCEPT ![d] = live'[d]]
          /\ UNCHANGED durable

\* Some of what was recorded becomes durable; nothing recorded changes.
Save == /\ durable' \in [Days -> Nat]
        /\ \A d \in Days : durable[d] <= durable'[d] /\ durable'[d] <= live[d]
        /\ UNCHANGED live

\* Only what was durable is left.
Lose == /\ live' = durable
        /\ UNCHANGED durable

LedgerNext == Record \/ Save \/ Lose

LedgerSpec == LedgerInit /\ [][LedgerNext]_ledger
=============================================================================
