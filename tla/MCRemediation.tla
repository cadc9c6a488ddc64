---------------------------- MODULE MCRemediation ----------------------------
(* Remediation on small sets of instances and goroutines. *)
EXTENDS Remediation
=============================================================================
