---------------------------- MODULE MCQuotaControl ----------------------------
(* Small instances of QuotaControl for TLC. *)
EXTENDS QuotaControl
=============================================================================
