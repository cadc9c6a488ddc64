------------------------------ MODULE MCHealth ------------------------------
(* Health on a small policy: two untyped failures are the threshold. *)
EXTENDS Health
=============================================================================
