---------------------------- MODULE MCEgressView ----------------------------
(* EgressView for TLC, by itself: one key pair is enough for a gateway's      *)
(* field that is saved and then overwritten, and no change is served after    *)
(* the page has given it up.                                                  *)
EXTENDS EgressView

HeardSpec == Init /\ [][Next /\ UNCHANGED late]_vars
=============================================================================
