---------------------------- MODULE MCSupervisor ----------------------------
(* Supervisor with a few callers and processes. *)
EXTENDS Supervisor
=============================================================================
