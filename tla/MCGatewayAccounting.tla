------------------------ MODULE MCGatewayAccounting ------------------------
(* Instances of GatewayAccounting for TLC: the configurations say what others *)
(* may do to the kernel and what may fail.                                    *)
EXTENDS GatewayAccounting
=============================================================================
