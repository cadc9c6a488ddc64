------------------------------ MODULE MCProxy ------------------------------
(* Proxy where the keys callers name are those of the session ports. *)
EXTENDS Proxy

CONSTANTS i1, i2, k1, k2

MCInstance == {i1, i2}
MCKey == {k1, k2}
MCPortKey == [i \in MCInstance |-> IF i = i1 THEN k1 ELSE k2]
=============================================================================
