----------------------------- MODULE MCEventLog -----------------------------
(* EventLog with a ring and a channel that overflow. *)
EXTENDS EventLog
=============================================================================
