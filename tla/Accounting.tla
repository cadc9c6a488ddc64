----------------------------- MODULE Accounting -----------------------------
(***************************************************************************)
(* What the pool asks of the proxy front ends (the Router interface of     *)
(* internal/proxy/server.go): each request that is routed is finished      *)
(* exactly once, under the session and on the instance it was routed to,   *)
(* and the instance is blamed for it at most once and only when it failed. *)
(* Sessions counts a session's traffic and Health scores an instance by    *)
(* these calls alone.                                                      *)
(***************************************************************************)
EXTENDS Naturals

CONSTANTS
  Conn,      \* client connections
  Key,       \* session keys
  Instance,  \* instances
  None       \* not one of them

VARIABLES
  routed,  \* the session and instance of each connection's last request
  call     \* the last call each connection made

vars == <<routed, call>>

Routed == [key : Key, instance : Instance]

NoCall == [op |-> "none"]

RouteCall == [op |-> "route"]

Blamed(i) == [op |-> "blame", instance |-> i]

Finished(k, i, failed) == [op |-> "finish", key |-> k, instance |-> i, failed |-> failed]

Call ==
  {NoCall, RouteCall}
    \cup [op : {"blame"}, instance : Instance]
    \cup [op : {"finish"}, key : Key, instance : Instance, failed : BOOLEAN]

Init ==
  /\ routed = [c \in Conn |-> None]
  /\ call = [c \in Conn |-> NoCall]

\* A connection comes in where one has ended, with no request open.
Accept(c) ==
  /\ call[c].op \in {"none", "finish"}
  /\ routed' = [routed EXCEPT ![c] = None]
  /\ call' = [call EXCEPT ![c] = NoCall]

\* RouteAddr or InstanceAddr, of a connection that has no request open.
Route(c, r) ==
  /\ call[c].op \in {"none", "finish"}
  /\ routed' = [routed EXCEPT ![c] = r]
  /\ call' = [call EXCEPT ![c] = RouteCall]

\* RecordTransportFailure
Blame(c) ==
  /\ call[c].op = "route"
  /\ call' = [call EXCEPT ![c] = Blamed(routed[c].instance)]
  /\ UNCHANGED routed

\* Finish: a request the instance was blamed for has failed.
Finish(c, failed) ==
  /\ call[c].op \in {"route", "blame"}
  /\ call[c].op = "blame" => failed
  /\ call' = [call EXCEPT ![c] = Finished(routed[c].key, routed[c].instance, failed)]
  /\ UNCHANGED routed

Next ==
  \E c \in Conn :
    \/ Accept(c)
    \/ \E r \in Routed : Route(c, r)
    \/ Blame(c)
    \/ \E failed \in BOOLEAN : Finish(c, failed)

Spec == Init /\ [][Next]_vars
=============================================================================
