---------------------------- MODULE ProxyProofs ----------------------------
(* What Proxy promises, for any number of connections, whatever clients,   *)
(* destinations and the pool do.                                           *)
EXTENDS Proxy, TLAPS

(***************************************************************************)
(* The inductive invariant.                                                *)
(***************************************************************************)

\* Types, and what a connection that has authenticated is named by.
TypeInv ==
  /\ TypeOK
  /\ \A c \in Conn : pc[c] = "connect" => req[c].key \in Key

\* The last call of a handler, by where it is.
Calls(c) ==
  /\ pc[c] \in {"closed", "route"} \cup Reading => call[c].op \in {"none", "finish"}
  /\ pc[c] \in Serving \ {"finish"} => call[c].op = "route"
  /\ pc[c] = "finish" => call[c].op \in {"route", "blame"}
  /\ pc[c] = "finish" /\ call[c].op = "blame" => outcome[c].failed
  /\ pc[c] = "blame" => outcome[c].failed

\* A request is served under the session it was routed for, and a connection it
\* has is one through the instance it was routed to.
Served(c) ==
  pc[c] \in Serving =>
    /\ routed[c].key = req[c].key
    /\ upstream[c] # None /\ ~req[c].tunnel => upstream[c].instance = routed[c].instance

\* Nobody gets as far as a request without an accepted secret.
Checked(c) ==
  pc[c] \in Serving \cup {"connect", "route"} => authDisabled \/ ~stale[c]

Carried(c) ==
  pc[c] \in {"forward", "response", "copy", "reply", "relay"} =>
    upstream[c] = [instance |-> routed[c].instance, target |-> req[c].target]

\* A connection goes nowhere tor does not go, and only such a request is blamed.
Reachable(c) ==
  /\ upstream[c] # None => upstream[c].target \notin Unroutable
  /\ pc[c] \in {"forward", "response", "copy", "reply", "relay", "blame"} =>
       req[c].target \notin Unroutable

Handled(c) == Calls(c) /\ Served(c) /\ Checked(c) /\ Carried(c) /\ Reachable(c)

IInv == TypeInv /\ \A c \in Conn : Handled(c)

(***************************************************************************)
(* It holds initially, and every action keeps it.                          *)
(***************************************************************************)

\* Initially every slot is free.
LEMMA Initially == Init => IInv
<1> SUFFICES ASSUME Init PROVE IInv
  OBVIOUS
<1>1. TypeInv
  BY DEF Init, Started, TypeInv, TypeOK, Port, Reading, Serving, Ends, BothOpen,
     NotCopying, Undecided, NoRequest, A!NoCall, A!Call
<1>2. \A c \in Conn : Handled(c)
  BY DEF Init, Handled, Calls, Served, Checked, Carried, Reachable, Reading, Serving,
     A!NoCall
<1> QED
  BY <1>1, <1>2 DEF IInv

\* An end leaves: no handler notices at once.
LEMMA EndLeavesKeeps ==
  ASSUME IInv, NEW c \in Conn, NEW e \in Ends, EndLeaves(c, e)
  PROVE  IInv'
<1>1. TypeInv'
  BY ProxyAssumption DEF IInv, TypeInv, TypeOK, Handled, Served, EndLeaves,
     Goto, client, service, report, Reading, Serving, Ends
<1>2. \A d \in Conn : Handled(d)'
  BY ProxyAssumption DEF IInv, TypeInv, TypeOK, Handled, Calls, Served,
     Checked, Carried, Reachable, EndLeaves, Goto, client, service, report,
     Reading, Serving
<1> QED
  BY <1>1, <1>2 DEF IInv

\* A connection comes in, its slot having no request open.
LEMMA AcceptKeeps ==
  ASSUME IInv, NEW c \in Conn, NEW p \in Port, Accept(c, p)
  PROVE  IInv'
<1>1. TypeInv'
  BY ProxyAssumption DEF IInv, TypeInv, TypeOK, Handled, Served, Accept, Goto,
     client, service, report, Reading, Serving, A!NoCall, A!Call
<1>2. \A d \in Conn : Handled(d)'
  BY ProxyAssumption DEF IInv, TypeInv, TypeOK, Handled, Calls, Served,
     Checked, Carried, Reachable, Accept, Goto, client, service, report,
     Reading, Serving, A!NoCall
<1> QED
  BY <1>1, <1>2 DEF IInv

\* A client is dropped before a request was routed.
LEMMA GivesUpKeeps ==
  ASSUME IInv, NEW c \in Conn, GivesUp(c)
  PROVE  IInv'
<1>1. TypeInv'
  BY ProxyAssumption DEF IInv, TypeInv, TypeOK, Handled, Served, GivesUp,
     Goto, client, service, report, Reading, Serving, Return, Hangup,
     NoRequest, BothOpen, Port, Upstream
<1>2. \A d \in Conn : Handled(d)'
  BY ProxyAssumption DEF IInv, TypeInv, TypeOK, Handled, Calls, Served,
     Checked, Carried, Reachable, GivesUp, Goto, client, service, report,
     Reading, Serving, Return, Hangup
<1> QED
  BY <1>1, <1>2 DEF IInv

\* A handshake is accepted with its secret.
LEMMA NegotiateKeeps ==
  ASSUME IInv, NEW c \in Conn, NEW k \in Key, NEW s \in Secret \cup {None},
         Negotiate(c, k, s)
  PROVE  IInv'
<1>1. TypeInv'
  BY ProxyAssumption DEF IInv, TypeInv, TypeOK, Handled, Served, Negotiate,
     Goto, client, service, report, Reading, Serving, SessionKey, Port
<1>2. \A d \in Conn : Handled(d)'
  BY ProxyAssumption DEF IInv, TypeInv, TypeOK, Handled, Calls, Served,
     Checked, Carried, Reachable, Negotiate, Goto, client, service, report,
     Reading, Serving, Accepted
<1> QED
  BY <1>1, <1>2 DEF IInv

\* A SOCKS request is read.
LEMMA ReadConnectKeeps ==
  ASSUME IInv, NEW c \in Conn, NEW t \in Target, ReadConnect(c, t)
  PROVE  IInv'
<1>1. TypeInv'
  BY ProxyAssumption DEF IInv, TypeInv, TypeOK, Handled, Served, ReadConnect,
     Goto, client, service, report, Reading, Serving, Request
<1>2. \A d \in Conn : Handled(d)'
  BY ProxyAssumption DEF IInv, TypeInv, TypeOK, Handled, Calls, Served,
     Checked, Carried, Reachable, ReadConnect, Goto, client, service, report,
     Reading, Serving
<1> QED
  BY <1>1, <1>2 DEF IInv

\* An HTTP request is accepted with its secret.
LEMMA ReadRequestKeeps ==
  ASSUME IInv, NEW c \in Conn, NEW r \in Request, NEW s \in Secret \cup {None},
         ReadRequest(c, r, s)
  PROVE  IInv'
<1>1. TypeInv'
  BY ProxyAssumption DEF IInv, TypeInv, TypeOK, Handled, Served, ReadRequest,
     Goto, client, service, report, Reading, Serving, Request
<1>2. \A d \in Conn : Handled(d)'
  BY ProxyAssumption DEF IInv, TypeInv, TypeOK, Handled, Calls, Served,
     Checked, Carried, Reachable, ReadRequest, Goto, client, service, report,
     Reading, Serving, Accepted
<1> QED
  BY <1>1, <1>2 DEF IInv

\* A request is routed.
LEMMA RouteKeeps ==
  ASSUME IInv, NEW c \in Conn, NEW i \in Instance, Route(c, i)
  PROVE  IInv'
<1> DEFINE keep == ~req[c].tunnel /\ Serves(upstream[c], i, req[c].target)
<1>1. TypeInv'
  BY ProxyAssumption DEF IInv, TypeInv, TypeOK, Handled, Served, Route, Goto,
     client, service, report, Reading, Serving, Request, Upstream, A!Routed,
     A!Call, A!RouteCall
<1>2. \A d \in Conn : Calls(d)' /\ Checked(d)'
  BY DEF IInv, TypeInv, TypeOK, Handled, Calls, Checked, Route, Goto, client,
     service, report, Reading, Serving, A!RouteCall
<1>3. \A d \in Conn \ {c} : Served(d)' /\ Carried(d)' /\ Reachable(d)'
  BY DEF IInv, TypeInv, TypeOK, Handled, Served, Carried, Reachable, Route, Goto,
     client, service, report, Serving
<1>4. routed'[c] = [key |-> req[c].key, instance |-> i] /\ req' = req
  BY DEF IInv, TypeInv, TypeOK, Route, client
<1>5. CASE keep
  <2>1. pc'[c] = "forward" /\ upstream'[c] = [instance |-> i, target |-> req[c].target]
    BY <1>5 DEF IInv, TypeInv, TypeOK, Route, Goto, Serves
  <2>2. upstream'[c] = upstream[c] /\ upstream[c] # None
    <3>1. req[c].target \in Target
      BY DEF IInv, TypeInv, TypeOK, Route, Request
    <3>2. upstream[c] = [instance |-> i, target |-> req[c].target]
      BY <1>5 DEF Serves
    <3>3. upstream[c] # None
      BY <3>1, <3>2, ProxyAssumption
    <3> QED
      BY <2>1, <3>2, <3>3
  <2>3. req[c].target \notin Unroutable
    BY <2>1, <2>2 DEF IInv, Handled, Reachable
  <2>4. Served(c)' /\ Carried(c)' /\ Reachable(c)'
    BY <1>4, <2>1, <2>3 DEF Served, Carried, Reachable
  <2> QED
    BY <1>1, <1>2, <1>3, <2>4 DEF IInv, Handled
<1>6. CASE ~keep
  <2>1. pc'[c] = "dial" /\ upstream'[c] = None
    BY <1>6 DEF IInv, TypeInv, TypeOK, Route, Goto
  <2>2. Served(c)' /\ Carried(c)' /\ Reachable(c)'
    BY <1>4, <2>1 DEF Served, Carried, Reachable
  <2> QED
    BY <1>1, <1>2, <1>3, <2>2 DEF IInv, Handled
<1> QED
  BY <1>5, <1>6

\* A request is refused.
LEMMA RefuseKeeps ==
  ASSUME IInv, NEW c \in Conn, Refuse(c)
  PROVE  IInv'
<1>1. TypeInv'
  BY ProxyAssumption DEF IInv, TypeInv, TypeOK, Handled, Served, Refuse, Goto,
     client, service, report, Reading, Serving, Return, Hangup, NoRequest,
     BothOpen, Port, Upstream
<1>2. \A d \in Conn : Handled(d)'
  BY ProxyAssumption DEF IInv, TypeInv, TypeOK, Handled, Calls, Served,
     Checked, Carried, Reachable, Refuse, Goto, client, service, report,
     Reading, Serving, Return, Hangup
<1> QED
  BY <1>1, <1>2 DEF IInv

\* A dial succeeds.
LEMMA DialKeeps ==
  ASSUME IInv, NEW c \in Conn, Dial(c)
  PROVE  IInv'
<1>1. TypeInv'
  BY ProxyAssumption, ZenonT(60) DEF IInv, TypeInv, TypeOK, Handled, Served, Dial, Goto,
     client, service, report, Reading, Serving, Request, Upstream, A!Routed
<1>2. \A d \in Conn : Calls(d)' /\ Checked(d)'
  BY DEF IInv, TypeInv, TypeOK, Handled, Calls, Checked, Dial, Goto, client,
     service, report, Reading, Serving
<1>3. \A d \in Conn \ {c} : Served(d)' /\ Carried(d)' /\ Reachable(d)'
  BY DEF IInv, TypeInv, TypeOK, Handled, Served, Carried, Reachable, Dial, Goto,
     client, service, report, Serving
<1>4. /\ upstream'[c] = [instance |-> routed[c].instance, target |-> req[c].target]
      /\ pc'[c] \in {"reply", "forward"}
      /\ UNCHANGED <<routed, req>>
  BY DEF IInv, TypeInv, TypeOK, Dial, Goto, client, report
<1>5. routed[c].key = req[c].key /\ req[c].target \notin Unroutable
  BY DEF IInv, Handled, Served, Dial, Serving
<1>6. Served(c)' /\ Carried(c)' /\ Reachable(c)'
  BY <1>4, <1>5 DEF Served, Carried, Reachable
<1> QED
  BY <1>1, <1>2, <1>3, <1>6 DEF IInv, Handled

\* A dial fails.
LEMMA DialFailsKeeps ==
  ASSUME IInv, NEW c \in Conn, DialFails(c)
  PROVE  IInv'
<1>1. TypeInv'
  BY ProxyAssumption DEF IInv, TypeInv, TypeOK, Handled, Served, DialFails,
     Goto, client, service, report, Reading, Serving, Ends, DialCulprits, Fail
<1>2. \A d \in Conn : Handled(d)'
  BY ProxyAssumption DEF IInv, TypeInv, TypeOK, Handled, Calls, Served,
     Checked, Carried, Reachable, DialFails, Goto, client, service, report,
     Reading, Serving, Fail
<1> QED
  BY <1>1, <1>2 DEF IInv

\* A request is forwarded.
LEMMA ForwardKeeps ==
  ASSUME IInv, NEW c \in Conn, Forward(c)
  PROVE  IInv'
<1>1. TypeInv'
  BY ProxyAssumption DEF IInv, TypeInv, TypeOK, Handled, Served, Forward,
     Goto, client, service, report, Reading, Serving
<1>2. \A d \in Conn : Handled(d)'
  BY ProxyAssumption DEF IInv, TypeInv, TypeOK, Handled, Calls, Served,
     Checked, Carried, Reachable, Forward, Goto, client, service, report,
     Reading, Serving
<1> QED
  BY <1>1, <1>2 DEF IInv

\* It cannot be.
LEMMA ForwardFailsKeeps ==
  ASSUME IInv, NEW c \in Conn, ForwardFails(c)
  PROVE  IInv'
<1>1. TypeInv'
  BY ProxyAssumption DEF IInv, TypeInv, TypeOK, Handled, Served, ForwardFails,
     Goto, client, service, report, Reading, Serving, Ends, Fail
<1>2. \A d \in Conn : Handled(d)'
  BY ProxyAssumption DEF IInv, TypeInv, TypeOK, Handled, Calls, Served,
     Checked, Carried, Reachable, ForwardFails, Goto, client, service, report,
     Reading, Serving, Fail
<1> QED
  BY <1>1, <1>2 DEF IInv

\* The response begins.
LEMMA ResponseKeeps ==
  ASSUME IInv, NEW c \in Conn, Response(c)
  PROVE  IInv'
<1>1. TypeInv'
  BY ProxyAssumption DEF IInv, TypeInv, TypeOK, Handled, Served, Response,
     Goto, client, service, report, Reading, Serving
<1>2. \A d \in Conn : Handled(d)'
  BY ProxyAssumption DEF IInv, TypeInv, TypeOK, Handled, Calls, Served,
     Checked, Carried, Reachable, Response, Goto, client, service, report,
     Reading, Serving
<1> QED
  BY <1>1, <1>2 DEF IInv

\* It does not.
LEMMA ResponseFailsKeeps ==
  ASSUME IInv, NEW c \in Conn, ResponseFails(c)
  PROVE  IInv'
<1>1. TypeInv'
  BY ProxyAssumption DEF IInv, TypeInv, TypeOK, Handled, Served,
     ResponseFails, Goto, client, service, report, Reading, Serving, Ends,
     Fail
<1>2. \A d \in Conn : Handled(d)'
  BY ProxyAssumption DEF IInv, TypeInv, TypeOK, Handled, Calls, Served,
     Checked, Carried, Reachable, ResponseFails, Goto, client, service,
     report, Reading, Serving, Fail
<1> QED
  BY <1>1, <1>2 DEF IInv

\* The response is copied.
LEMMA CopyKeeps ==
  ASSUME IInv, NEW c \in Conn, Copy(c)
  PROVE  IInv'
<1>1. TypeInv'
  BY ProxyAssumption DEF IInv, TypeInv, TypeOK, Handled, Served, Copy, Goto,
     client, service, report, Reading, Serving
<1>2. \A d \in Conn : Handled(d)'
  BY ProxyAssumption DEF IInv, TypeInv, TypeOK, Handled, Calls, Served,
     Checked, Carried, Reachable, Copy, Goto, client, service, report,
     Reading, Serving
<1> QED
  BY <1>1, <1>2 DEF IInv

\* It cannot be.
LEMMA CopyFailsKeeps ==
  ASSUME IInv, NEW c \in Conn, CopyFails(c)
  PROVE  IInv'
<1>1. TypeInv'
  BY ProxyAssumption DEF IInv, TypeInv, TypeOK, Handled, Served, CopyFails,
     Goto, client, service, report, Reading, Serving, Ends, Fail
<1>2. \A d \in Conn : Handled(d)'
  BY ProxyAssumption DEF IInv, TypeInv, TypeOK, Handled, Calls, Served,
     Checked, Carried, Reachable, CopyFails, Goto, client, service, report,
     Reading, Serving, Fail
<1> QED
  BY <1>1, <1>2 DEF IInv

\* A tunnel is established.
LEMMA ReplyKeeps ==
  ASSUME IInv, NEW c \in Conn, Reply(c)
  PROVE  IInv'
<1>1. TypeInv'
  BY ProxyAssumption DEF IInv, TypeInv, TypeOK, Handled, Served, Reply, Goto,
     client, service, report, Reading, Serving, Ends
<1>2. \A d \in Conn : Handled(d)'
  BY ProxyAssumption DEF IInv, TypeInv, TypeOK, Handled, Calls, Served,
     Checked, Carried, Reachable, Reply, Goto, client, service, report,
     Reading, Serving
<1> QED
  BY <1>1, <1>2 DEF IInv

\* Its client is gone.
LEMMA ReplyFailsKeeps ==
  ASSUME IInv, NEW c \in Conn, ReplyFails(c)
  PROVE  IInv'
<1>1. TypeInv'
  BY ProxyAssumption DEF IInv, TypeInv, TypeOK, Handled, Served, ReplyFails,
     Goto, client, service, report, Reading, Serving
<1>2. \A d \in Conn : Handled(d)'
  BY ProxyAssumption DEF IInv, TypeInv, TypeOK, Handled, Calls, Served,
     Checked, Carried, Reachable, ReplyFails, Goto, client, service, report,
     Reading, Serving
<1> QED
  BY <1>1, <1>2 DEF IInv

\* A copy loop ends.
LEMMA CopyEndsKeeps ==
  ASSUME IInv, NEW c \in Conn, NEW e \in Ends, NEW w \in Ends, CopyEnds(c, e, w)
  PROVE  IInv'
<1>1. TypeInv'
  BY ProxyAssumption DEF IInv, TypeInv, TypeOK, Handled, Served, CopyEnds,
     Goto, client, service, report, Reading, Serving, Ends
<1>2. \A d \in Conn : Handled(d)'
  BY ProxyAssumption DEF IInv, TypeInv, TypeOK, Handled, Calls, Served,
     Checked, Carried, Reachable, CopyEnds, Goto, client, service, report,
     Reading, Serving
<1> QED
  BY <1>1, <1>2 DEF IInv

\* A relay ends.
LEMMA RelayEndsKeeps ==
  ASSUME IInv, NEW c \in Conn, RelayEnds(c)
  PROVE  IInv'
<1>1. TypeInv'
  BY ProxyAssumption DEF IInv, TypeInv, TypeOK, Handled, Served, RelayEnds,
     Goto, client, service, report, Reading, Serving, Ends, NotCopying
<1>2. \A d \in Conn : Handled(d)'
  BY ProxyAssumption DEF IInv, TypeInv, TypeOK, Handled, Calls, Served,
     Checked, Carried, Reachable, RelayEnds, Goto, client, service, report,
     Reading, Serving
<1> QED
  BY <1>1, <1>2 DEF IInv

\* The instance is blamed.
LEMMA BlameKeeps ==
  ASSUME IInv, NEW c \in Conn, Blame(c)
  PROVE  IInv'
<1>1. TypeInv'
  BY ProxyAssumption DEF IInv, TypeInv, TypeOK, Handled, Served, Blame, Goto,
     client, service, report, Reading, Serving, Answering, Upstream, Request,
     A!Routed, A!Call, A!Blamed
<1>2. \A d \in Conn : Handled(d)'
  BY ProxyAssumption DEF IInv, TypeInv, TypeOK, Handled, Calls, Served,
     Checked, Carried, Reachable, Blame, Goto, client, service, report,
     Reading, Serving, Answering, A!Blamed
<1> QED
  BY <1>1, <1>2 DEF IInv

\* A request is finished.
LEMMA FinishKeeps ==
  ASSUME IInv, NEW c \in Conn, Finish(c)
  PROVE  IInv'
<1>1. TypeInv'
  <2>1. req[c] \in Request /\ routed[c] \in A!Routed
    BY DEF IInv, TypeInv, TypeOK, Finish, Serving
  <2>2. Answering(c) \in Instance
    BY <2>1 DEF IInv, TypeInv, TypeOK, Answering, Upstream, A!Routed
  <2>3. A!Finished(req[c].key, Answering(c), outcome[c].failed) \in A!Call
    BY <2>1, <2>2 DEF IInv, TypeInv, TypeOK, Request, A!Finished, A!Call
  <2>4. CASE outcome[c].then = "closed"
    <3>1. Hangup(c) /\ UNCHANGED <<service, copying, routed>>
      BY <2>4 DEF Finish
    <3>2. /\ outcome' \in [Conn -> [failed : BOOLEAN, then : {"read", "drop", "closed"}]]
          /\ culprit' \in [Conn -> SUBSET Ends]
          /\ call' \in [Conn -> A!Call]
      BY <2>3 DEF IInv, TypeInv, TypeOK, Finish, Undecided
    <3>3. pc' = [pc EXCEPT ![c] = "closed"] /\ req' = [req EXCEPT ![c] = NoRequest]
      BY <3>1 DEF Hangup, Return, Goto
    <3>4. /\ port' \in [Conn -> Port]
          /\ stale' \in [Conn -> BOOLEAN]
          /\ upstream' \in [Conn -> Upstream \cup {None}]
          /\ ends' \in [Conn -> [Ends -> {"open", "closed", "lost"}]]
      BY <3>1 DEF IInv, TypeInv, TypeOK, Hangup, Return, BothOpen, Port
    <3> QED
      BY <3>1, <3>2, <3>3, <3>4 DEF IInv, TypeInv, TypeOK, service, Reading, Serving
  <2>5. CASE outcome[c].then # "closed"
    BY <2>3, <2>5 DEF IInv, TypeInv, TypeOK, Finish, Goto, client, service,
       Reading, Serving, Undecided
  <2> QED
    BY <2>4, <2>5
<1>2. \A d \in Conn : Handled(d)'
  BY ProxyAssumption DEF IInv, TypeInv, TypeOK, Handled, Calls, Served,
     Checked, Carried, Reachable, Finish, Goto, client, service, report,
     Reading, Serving, Return, Hangup, Answering, A!Finished, Undecided
<1> QED
  BY <1>1, <1>2 DEF IInv

\* The environment disturbs nobody.
LEMMA ServiceKeeps ==
  ASSUME IInv, Close \/ (\E s \in Secret : Revoke(s)) \/ UNCHANGED vars
  PROVE  IInv'
<1>1. UNCHANGED <<authDisabled, client, pc, upstream, ends, copying, outcome, report>>
  BY DEF Close, Revoke, vars, service
<1>2. listening' \subseteq Port /\ valid' \subseteq Secret
  BY DEF IInv, TypeInv, TypeOK, Close, Revoke, vars, service
<1>3. TypeInv'
  BY <1>1, <1>2 DEF IInv, TypeInv, TypeOK, client, report
<1>4. \A d \in Conn : Handled(d)'
  BY <1>1 DEF IInv, Handled, Calls, Served, Checked, Carried, Reachable, client, report
<1> QED
  BY <1>3, <1>4 DEF IInv

LEMMA NextKeeps == IInv /\ [Next]_vars => IInv'
<1> SUFFICES ASSUME IInv, [Next]_vars PROVE IInv'
  OBVIOUS
<1>1. CASE Close \/ (\E s \in Secret : Revoke(s)) \/ UNCHANGED vars
  BY <1>1, ServiceKeeps
<1>2. ASSUME NEW c \in Conn, NEW e \in Ends,
             EndLeaves(c, e) \/ SourceEnds(c, e) \/ WriteFails(c, e)
      PROVE  IInv'
  BY <1>2, EndLeavesKeeps, CopyEndsKeeps DEF SourceEnds, WriteFails
<1>3. ASSUME NEW c \in Conn, NEW p \in Port, Accept(c, p) PROVE IInv'
  BY <1>3, AcceptKeeps
<1>4. ASSUME NEW c \in Conn, GivesUp(c) \/ Head(c) PROVE IInv'
  BY <1>4, GivesUpKeeps, NegotiateKeeps, ReadConnectKeeps, ReadRequestKeeps DEF Head
<1>5. ASSUME NEW c \in Conn, Serve(c) PROVE IInv'
  BY <1>5, RouteKeeps, RefuseKeeps, DialKeeps, DialFailsKeeps, ReplyKeeps,
     ReplyFailsKeeps, RelayEndsKeeps, BlameKeeps, FinishKeeps DEF Serve
<1>6. ASSUME NEW c \in Conn, Exchange(c) PROVE IInv'
  BY <1>6, ForwardKeeps, ForwardFailsKeeps, ResponseKeeps, ResponseFailsKeeps,
     CopyKeeps, CopyFailsKeeps DEF Exchange
<1> QED
  BY <1>1, <1>2, <1>3, <1>4, <1>5, <1>6 DEF Next

LEMMA Invariance == Spec => []IInv
<1>1. Init => IInv
  BY Initially
<1>2. IInv /\ [Next]_vars => IInv'
  BY NextKeeps
<1> QED
  BY <1>1, <1>2, PTL DEF Spec

(***************************************************************************)
(* What follows.                                                           *)
(***************************************************************************)

\* Every variable has its type, for any number of connections, instances, keys,
\* secrets and targets.
THEOREM TypeCorrect == Spec => []TypeOK
<1>1. IInv => TypeOK
  BY DEF IInv, TypeInv
<1> QED
  BY <1>1, Invariance, PTL

\* A request is carried by a connection to its own destination, through the
\* instance it was routed to (http.go handleHTTP).
THEOREM RequestsAreNotCrossed == Spec => []OwnUpstream
<1>1. IInv => OwnUpstream
  BY DEF IInv, Handled, Carried, OwnUpstream
<1> QED
  BY <1>1, Invariance, PTL

\* A request read after its token was revoked is not served (http.go handleHTTP,
\* socks5.go readUserPass).
THEOREM RevokedTokensAreRefused == Spec => []RevokedIsRefused
<1>1. IInv => RevokedIsRefused
  BY DEF IInv, TypeInv, TypeOK, Handled, Checked, RevokedIsRefused
<1> QED
  BY <1>1, Invariance, PTL

(***************************************************************************)
(* The calls to the router are those of Accounting.                        *)
(***************************************************************************)

\* Most actions call nobody.
LEMMA NoCallStutters ==
  ASSUME UNCHANGED <<routed, call>>
  PROVE  [A!Next]_(A!vars)
  BY DEF A!vars

LEMMA AcceptMaps ==
  ASSUME IInv, NEW c \in Conn, NEW p \in Port, Accept(c, p)
  PROVE  A!Next
<1>1. A!Accept(c)
  BY DEF IInv, Handled, Calls, Accept, A!Accept
<1> QED
  BY <1>1 DEF A!Next

LEMMA RouteMaps ==
  ASSUME IInv, NEW c \in Conn, NEW i \in Instance, Route(c, i)
  PROVE  A!Next
<1> DEFINE r == [key |-> req[c].key, instance |-> i]
<1>1. r \in A!Routed
  BY DEF IInv, TypeInv, TypeOK, Route, Request, A!Routed
<1>2. A!Route(c, r)
  BY DEF IInv, Handled, Calls, Route, A!Route
<1> QED
  BY <1>1, <1>2 DEF A!Next

\* What a handler names is the instance its request was routed to.
LEMMA AnsweringIsRouted ==
  ASSUME IInv, NEW c \in Conn, pc[c] \in Serving
  PROVE  Answering(c) = routed[c].instance
  BY DEF IInv, TypeInv, TypeOK, Handled, Served, Answering, Request

LEMMA BlameMaps ==
  ASSUME IInv, NEW c \in Conn, Blame(c)
  PROVE  A!Next
<1>1. call[c].op = "route"
  BY DEF IInv, Handled, Calls, Blame, Serving
<1>2. Answering(c) = routed[c].instance
  BY AnsweringIsRouted DEF Blame, Serving
<1>3. A!Blame(c)
  BY <1>1, <1>2 DEF Blame, A!Blame
<1> QED
  BY <1>3 DEF A!Next

LEMMA FinishMaps ==
  ASSUME IInv, NEW c \in Conn, Finish(c)
  PROVE  A!Next
<1>1. call[c].op \in {"route", "blame"} /\ (call[c].op = "blame" => outcome[c].failed)
  BY DEF IInv, Handled, Calls, Finish
<1>2. Answering(c) = routed[c].instance /\ req[c].key = routed[c].key
  BY AnsweringIsRouted DEF IInv, Handled, Served, Finish, Serving
<1>3. outcome[c].failed \in BOOLEAN
  BY DEF IInv, TypeInv, TypeOK
<1>4. A!Finish(c, outcome[c].failed)
  BY <1>1, <1>2 DEF Finish, A!Finish
<1> QED
  BY <1>3, <1>4 DEF A!Next

LEMMA NextMaps == IInv /\ [Next]_vars => [A!Next]_(A!vars)
<1> SUFFICES ASSUME IInv, [Next]_vars PROVE [A!Next]_(A!vars)
  OBVIOUS
<1>1. CASE Close \/ (\E s \in Secret : Revoke(s)) \/ UNCHANGED vars
  BY <1>1, NoCallStutters DEF Close, Revoke, vars, report
<1>2. ASSUME NEW c \in Conn, NEW e \in Ends,
             EndLeaves(c, e) \/ SourceEnds(c, e) \/ WriteFails(c, e)
      PROVE  [A!Next]_(A!vars)
  BY <1>2, NoCallStutters DEF EndLeaves, SourceEnds, WriteFails, CopyEnds, report
<1>3. ASSUME NEW c \in Conn, NEW p \in Port, Accept(c, p) PROVE [A!Next]_(A!vars)
  BY <1>3, AcceptMaps
<1>4. ASSUME NEW c \in Conn, GivesUp(c) \/ Head(c) PROVE [A!Next]_(A!vars)
  BY <1>4, NoCallStutters DEF GivesUp, Head, Negotiate, ReadConnect, ReadRequest, report
<1>5. ASSUME NEW c \in Conn, Serve(c) PROVE [A!Next]_(A!vars)
  <2>1. CASE (\E i \in Instance : Route(c, i)) \/ Blame(c) \/ Finish(c)
    BY <2>1, RouteMaps, BlameMaps, FinishMaps
  <2>2. CASE Refuse(c) \/ Dial(c) \/ DialFails(c) \/ Reply(c) \/ ReplyFails(c)
         \/ RelayEnds(c)
    BY <2>2, NoCallStutters
       DEF Refuse, Dial, DialFails, Fail, Reply, ReplyFails, RelayEnds, report
  <2> QED
    BY <1>5, <2>1, <2>2 DEF Serve
<1>6. ASSUME NEW c \in Conn, Exchange(c) PROVE [A!Next]_(A!vars)
  BY <1>6, NoCallStutters DEF Exchange, Forward, ForwardFails, Response,
     ResponseFails, Copy, CopyFails, Fail, report
<1> QED
  BY <1>1, <1>2, <1>3, <1>4, <1>5, <1>6 DEF Next

\* Every request that is routed is finished exactly once, on its session and its
\* instance, which is blamed at most once and never credited after a blame
\* (server.go reportDialFailure, finish; http.go exchange, tunnel).
THEOREM AccountingIsKept == Spec => ImplementsAccounting
<1>1. Init => A!Init
  BY DEF Init, A!Init
<1>2. IInv /\ [Next]_vars => [A!Next]_(A!vars)
  BY NextMaps
<1> QED
  BY <1>1, <1>2, Invariance, PTL DEF Spec, A!Spec, ImplementsAccounting

\* Nobody blames an instance for a destination that tor never reaches.
LEMMA BlamesReachable ==
  ASSUME IInv, [Next]_vars, NEW d \in Conn, Blames(d)
  PROVE  req[d].target \notin Unroutable
<1>1. PICK c \in Conn : Blame(c)
  <2>1. CASE UNCHANGED call
    BY <2>1 DEF Blames
  <2>2. ASSUME NEW c \in Conn, NEW p \in Port, Accept(c, p) PROVE FALSE
    BY <2>2 DEF IInv, TypeInv, TypeOK, Accept, Blames, A!NoCall
  <2>3. ASSUME NEW c \in Conn, NEW i \in Instance, Route(c, i) PROVE FALSE
    BY <2>3 DEF IInv, TypeInv, TypeOK, Route, Blames, A!RouteCall
  <2>4. ASSUME NEW c \in Conn, Finish(c) PROVE FALSE
    BY <2>4 DEF IInv, TypeInv, TypeOK, Finish, Blames, A!Finished
  <2>5. UNCHANGED call \/ \E c \in Conn :
          (\E p \in Port : Accept(c, p)) \/ (\E i \in Instance : Route(c, i))
            \/ Blame(c) \/ Finish(c)
    BY DEF Next, Close, Revoke, EndLeaves, SourceEnds, WriteFails, CopyEnds, GivesUp,
       Head, Negotiate, ReadConnect, ReadRequest, Serve, Refuse, Dial, DialFails, Fail,
       Reply, ReplyFails, RelayEnds, Exchange, Forward, ForwardFails, Response,
       ResponseFails, Copy, CopyFails, report, vars
  <2> QED
    BY <2>1, <2>2, <2>3, <2>4, <2>5
<1>2. c = d
  BY <1>1 DEF IInv, TypeInv, TypeOK, Blame, Blames
<1> QED
  BY <1>1, <1>2 DEF IInv, Handled, Reachable, Blame

\* The same as a property of every step (server.go reportDialFailure).
THEOREM UnroutableIsSpared == Spec => UnroutableSpared
<1> DEFINE Spared == \A c \in Conn : Blames(c) => req[c].target \notin Unroutable
<1>1. IInv /\ [Next]_vars => Spared
  <2> SUFFICES ASSUME IInv, [Next]_vars, NEW c \in Conn, Blames(c)
               PROVE  req[c].target \notin Unroutable
    OBVIOUS
  <2> QED
    BY BlamesReachable
<1>2. IInv /\ [Next]_vars => [Spared]_vars
  BY <1>1
<1> QED
  BY <1>2, Invariance, PTL DEF Spec, UnroutableSpared
=============================================================================
