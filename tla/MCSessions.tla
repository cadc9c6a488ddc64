----------------------------- MODULE MCSessions -----------------------------
(* Sessions with a table smaller than the set of keys. *)
EXTENDS Sessions
=============================================================================
