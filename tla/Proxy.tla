------------------------------- MODULE Proxy -------------------------------
(***************************************************************************)
(* The client-facing listeners of internal/proxy: a connection from its    *)
(* handshake over routing, dialling and forwarding to the end of its       *)
(* relay, on the SOCKS5 port, the HTTP port (CONNECT tunnels and           *)
(* keep-alive requests, each routed on its own) and the session ports.     *)
(* Each connection has a handler goroutine; while it relays, two more copy *)
(* bytes.  The two ends, the client and the stream through tor, close and  *)
(* get lost when they like, and tokens are revoked meanwhile.              *)
(*                                                                         *)
(* The pool behind the Router interface answers as it likes: which         *)
(* instance a session gets is the subject of Routing.                      *)
(***************************************************************************)
EXTENDS Naturals

CONSTANTS
  Conn,        \* connections served at once
  Key,         \* session keys
  Instance,    \* instances
  PortKey,     \* PortKey[i]: the key a session port accounts under
  Secret,      \* what clients present as a password
  Target,      \* destinations
  Unroutable,  \* those that tor never reaches: loopback and private literals
  Overlong,    \* those with a host name longer than SOCKS can carry
  None         \* none of them

ASSUME ProxyAssumption ==
  /\ PortKey \in [Instance -> Key]
  /\ Unroutable \subseteq Target
  /\ Overlong \subseteq Target \ Unroutable
  /\ None \notin Key \cup Target \cup Instance \cup Secret
  /\ None \notin [instance : Instance, target : Target]
  /\ {"socks", "http"} \cap Instance = {}

VARIABLES
  authDisabled,  \* AUTH_DISABLED
  listening,     \* the ports bound
  valid,         \* the tokens that CheckProxy accepts
  pc,            \* where the handler of each connection is
  port,          \* the port it came in on: "socks", "http" or a session port's instance
  req,           \* the request it serves
  stale,         \* history: the secret of that request was not valid when it was read
  upstream,      \* its connection to a destination: instance and target
  ends,          \* how the two ends are doing
  copying,       \* how the two copy loops of its relay are doing
  outcome,       \* of the request about to be finished, and where the handler goes then
  routed,        \* history: what the router answered
  call,          \* history: the last call it made to the router
  culprit        \* history: the ends that failed it during this request

client == <<port, req, stale>>
service == <<authDisabled, listening, valid>>
report == <<routed, call, culprit>>
vars == <<service, client, pc, upstream, ends, copying, outcome, report>>

A == INSTANCE Accounting

Ends == {"client", "server"}

Port == {"socks", "http"} \cup Instance

Request == [key : Key, target : Target, tunnel : BOOLEAN]

NoRequest == [key |-> None]

Upstream == [instance : Instance, target : Target]

Reading == {"handshake", "connect", "read"}

Serving == {"dial", "forward", "response", "copy", "reply", "relay", "blame", "finish"}

BothOpen == [e \in Ends |-> "open"]

NotCopying == [e \in Ends |-> "done"]

Undecided == [failed |-> FALSE, then |-> "closed"]

\* The handler of c goes on at p.
Goto(c, p) == pc' = [pc EXCEPT ![c] = p]

\* It fails through the fault of the ends in who, and goes on at p to have the
\* instance blamed or only the request finished.
Fail(c, who, p) ==
  /\ Goto(c, p)
  /\ outcome' = [outcome EXCEPT ![c] = [failed |-> TRUE, then |-> "closed"]]
  /\ culprit' = [culprit EXCEPT ![c] = @ \cup who]
  /\ UNCHANGED <<routed, call>>

-----------------------------------------------------------------------------

\* Start has bound every port it may: session ports take no credentials, so it
\* refuses them unless AUTH_DISABLED.
Started ==
  /\ authDisabled \in BOOLEAN
  /\ listening = IF authDisabled THEN Port ELSE {"socks", "http"}

Init ==
  /\ Started
  /\ valid = Secret
  /\ pc = [c \in Conn |-> "closed"]
  /\ port = [c \in Conn |-> "socks"]
  /\ req = [c \in Conn |-> NoRequest]
  /\ stale = [c \in Conn |-> FALSE]
  /\ upstream = [c \in Conn |-> None]
  /\ ends = [c \in Conn |-> BothOpen]
  /\ copying = [c \in Conn |-> NotCopying]
  /\ outcome = [c \in Conn |-> Undecided]
  /\ routed = [c \in Conn |-> None]
  /\ call = [c \in Conn |-> A!NoCall]
  /\ culprit = [c \in Conn |-> {}]

\* Close: what is in flight finishes on its own.
Close ==
  /\ listening' = {}
  /\ UNCHANGED <<authDisabled, valid, client, pc, upstream, ends, copying, outcome, report>>

Revoke(s) ==
  /\ valid' = valid \ {s}
  /\ UNCHANGED <<authDisabled, listening, client, pc, upstream, ends, copying, outcome, report>>

\* An end closes or resets its stream, or is lost.
EndLeaves(c, e) ==
  /\ pc[c] # "closed"
  /\ e = "server" => upstream[c] # None
  /\ ends[c][e] = "open"
  /\ \E s \in {"closed", "lost"} : ends' = [ends EXCEPT ![c][e] = s]
  /\ UNCHANGED <<service, client, pc, upstream, copying, outcome, report>>

-----------------------------------------------------------------------------
(* The handshake, or the head of an HTTP request.                          *)

\* serve
Accept(c, p) ==
  /\ pc[c] = "closed"
  /\ p \in listening
  /\ Goto(c, IF p = "http" THEN "read" ELSE "handshake")
  /\ port' = [port EXCEPT ![c] = p]
  /\ routed' = [routed EXCEPT ![c] = None]
  /\ call' = [call EXCEPT ![c] = A!NoCall]
  /\ UNCHANGED <<service, req, stale, upstream, ends, copying, outcome, culprit>>

\* The handler returns, and its connections are closed.
Return(c) ==
  /\ req' = [req EXCEPT ![c] = NoRequest]
  /\ port' = [port EXCEPT ![c] = "socks"]
  /\ stale' = [stale EXCEPT ![c] = FALSE]
  /\ upstream' = [upstream EXCEPT ![c] = None]
  /\ ends' = [ends EXCEPT ![c] = BothOpen]

Hangup(c) == Goto(c, "closed") /\ Return(c)

\* The deadline passes, the client is gone, or what it sends is refused.
GivesUp(c) ==
  /\ pc[c] \in Reading
  /\ Hangup(c)
  /\ UNCHANGED <<service, copying, outcome, report>>

Accepted(s) == authDisabled \/ s \in valid

\* A session port ignores the name of a session.
SessionKey(c, k) == IF port[c] \in Instance THEN PortKey[port[c]] ELSE k

\* negotiateAuth: a client that presents no secret is served only without
\* authentication; k is the key it supplies, or the one it falls back to.
Negotiate(c, k, s) ==
  /\ pc[c] = "handshake"
  /\ Accepted(s)
  /\ Goto(c, "connect")
  /\ req' = [req EXCEPT ![c] = [key |-> SessionKey(c, k)]]
  /\ stale' = [stale EXCEPT ![c] = s \notin valid]
  /\ UNCHANGED <<service, port, upstream, ends, copying, outcome, report>>

\* readConnectRequest: the wire format leaves no room for an overlong name.
ReadConnect(c, t) ==
  /\ pc[c] = "connect"
  /\ t \notin Overlong
  /\ Goto(c, "route")
  /\ req' = [req EXCEPT ![c] = [key |-> req[c].key, target |-> t, tunnel |-> TRUE]]
  /\ UNCHANGED <<service, port, stale, upstream, ends, copying, outcome, report>>

\* Mutant: the credential is checked on the first request of a connection only.
ReadRequestTrusting(c, r, s) ==
  /\ pc[c] = "read"
  /\ req[c] # NoRequest \/ Accepted(s)
  /\ Goto(c, "route")
  /\ req' = [req EXCEPT ![c] = r]
  /\ stale' = [stale EXCEPT ![c] = s \notin valid]
  /\ UNCHANGED <<service, port, upstream, ends, copying, outcome, report>>

\* handleHTTP reads the head of a request, checks its credential and finds its
\* target.
ReadRequest(c, r, s) ==
  /\ pc[c] = "read"
  /\ Accepted(s)
  /\ Goto(c, "route")
  /\ req' = [req EXCEPT ![c] = r]
  /\ stale' = [stale EXCEPT ![c] = s \notin valid]
  /\ UNCHANGED <<service, port, upstream, ends, copying, outcome, report>>

-----------------------------------------------------------------------------
(* Routing and dialling.                                                   *)

\* Mutant: a connection is reused for whatever goes through the same instance.
ServesInstance(u, i, t) == u # None /\ u.instance = i

Serves(u, i, t) == u = [instance |-> i, target |-> t]

\* RouteAddr or InstanceAddr has an instance. A plain request reuses the
\* connection of the one before if it serves; otherwise that one is closed (a
\* tunnel leaves it open until its end, and does not touch it).
Route(c, i) ==
  LET keep == ~req[c].tunnel /\ Serves(upstream[c], i, req[c].target)
  IN  /\ pc[c] = "route"
      /\ port[c] \in Instance => i = port[c]
      /\ Goto(c, IF keep THEN "forward" ELSE "dial")
      /\ upstream' = [upstream EXCEPT ![c] = IF keep THEN @ ELSE None]
      /\ routed' = [routed EXCEPT ![c] = [key |-> req[c].key, instance |-> i]]
      /\ call' = [call EXCEPT ![c] = A!RouteCall]
      /\ UNCHANGED <<service, client, ends, copying, outcome, culprit>>

\* There is none, or not the one: the client is told, and nothing is scored.
Refuse(c) ==
  /\ pc[c] = "route"
  /\ Hangup(c)
  /\ UNCHANGED <<service, copying, outcome, report>>

\* dialThroughInstance
Dial(c) ==
  /\ pc[c] = "dial"
  /\ req[c].target \notin Unroutable \cup Overlong
  /\ Goto(c, IF req[c].tunnel THEN "reply" ELSE "forward")
  /\ upstream' = [upstream EXCEPT ![c] =
       [instance |-> routed[c].instance, target |-> req[c].target]]
  /\ ends' = [ends EXCEPT ![c]["server"] = "open"]
  /\ UNCHANGED <<service, client, copying, outcome, report>>

\* The instance, or the client that named what does not fit into the handshake.
DialCulprits(c) == IF req[c].target \in Overlong THEN Ends ELSE {"server"}

\* Mutant: every failed dial is scored.
DialFailsScored(c) ==
  /\ pc[c] = "dial"
  /\ \E e \in DialCulprits(c) : Fail(c, {e}, "blame")
  /\ UNCHANGED <<service, client, upstream, ends, copying>>

\* The handshake with tor fails or times out, or the name does not fit into it;
\* reportDialFailure spares the instance a target that tor never reaches.
DialFails(c) ==
  /\ pc[c] = "dial"
  /\ \E e \in DialCulprits(c) :
       Fail(c, {e}, IF req[c].target \in Unroutable THEN "finish" ELSE "blame")
  /\ UNCHANGED <<service, client, upstream, ends, copying>>

-----------------------------------------------------------------------------
(* exchange: a plain request and its response.                             *)

\* forwardRequest, which copies the body from the client.
Forward(c) ==
  /\ pc[c] = "forward"
  /\ Goto(c, "response")
  /\ UNCHANGED <<service, client, upstream, ends, copying, outcome, report>>

ForwardFails(c) ==
  /\ pc[c] = "forward"
  /\ \E e \in Ends : ends[c][e] # "open" /\ Fail(c, {e}, "blame")
  /\ UNCHANGED <<service, client, upstream, ends, copying>>

\* ReadResponse
Response(c) ==
  /\ pc[c] = "response"
  /\ ends[c]["server"] = "open"
  /\ Goto(c, "copy")
  /\ UNCHANGED <<service, client, upstream, ends, copying, outcome, report>>

ResponseFails(c) ==
  /\ pc[c] = "response"
  /\ ends[c]["server"] # "open"
  /\ Fail(c, {"server"}, "blame")
  /\ UNCHANGED <<service, client, upstream, ends, copying>>

\* The response is written to the client. Each of the two connections is kept or
\* not, depending on what its own end asked for.
Copy(c) ==
  /\ pc[c] = "copy"
  /\ Goto(c, "finish")
  /\ \E then \in {"read", "drop", "closed"} :
       outcome' = [outcome EXCEPT ![c] = [failed |-> FALSE, then |-> then]]
  /\ UNCHANGED <<service, client, upstream, ends, copying, report>>

\* It cannot be written, or its body cannot be read: nobody is blamed.
CopyFails(c) ==
  /\ pc[c] = "copy"
  /\ \E e \in Ends : ends[c][e] # "open" /\ Fail(c, {e}, "finish")
  /\ UNCHANGED <<service, client, upstream, ends, copying>>

-----------------------------------------------------------------------------
(* tunnel and handleSocks: the reply, then relay.                          *)

Reply(c) ==
  /\ pc[c] = "reply"
  /\ Goto(c, "relay")
  /\ copying' = [copying EXCEPT ![c] = [e \in Ends |-> "copying"]]
  /\ UNCHANGED <<service, client, upstream, ends, outcome, report>>

\* Mutant: the request of a client that is gone is not closed out.
ReplyFailsForgetful(c) ==
  /\ pc[c] = "reply"
  /\ port[c] = "http"
  /\ ends[c]["client"] # "open"
  /\ Hangup(c)
  /\ UNCHANGED <<service, copying, outcome, report>>

\* On the HTTP port the client of a tunnel may be found gone; a SOCKS reply is
\* written without looking.
ReplyFails(c) ==
  /\ pc[c] = "reply"
  /\ port[c] = "http"
  /\ ends[c]["client"] # "open"
  /\ Goto(c, "finish")
  /\ outcome' = [outcome EXCEPT ![c] = [failed |-> FALSE, then |-> "closed"]]
  /\ UNCHANGED <<service, client, upstream, ends, copying, report>>

\* The loop that copies from `from` ends through the fault or departure of `who`;
\* isExpectedClose takes all but a lost end for success.
CopyEnds(c, from, who) ==
  /\ pc[c] = "relay"
  /\ copying[c][from] = "copying"
  /\ ends[c][who] # "open"
  /\ copying' = [copying EXCEPT ![c][from] =
       IF ends[c][who] = "lost" THEN "failed" ELSE "done"]
  /\ culprit' = [culprit EXCEPT ![c] =
       IF ends[c][who] = "lost" THEN @ \cup {who} ELSE @]
  /\ UNCHANGED <<service, client, pc, upstream, ends, outcome, routed, call>>

\* It reads to the end, or cannot write what it has read.
SourceEnds(c, from) == CopyEnds(c, from, from)
WriteFails(c, from) == \E to \in Ends \ {from} : CopyEnds(c, from, to)

\* Mutant: a relay ends only when both loops have ended well.
RelayEndsWell(c) ==
  /\ pc[c] = "relay"
  /\ \A e \in Ends : copying[c][e] = "done"
  /\ Goto(c, "finish")
  /\ outcome' = [outcome EXCEPT ![c] = [failed |-> FALSE, then |-> "closed"]]
  /\ copying' = [copying EXCEPT ![c] = NotCopying]
  /\ UNCHANGED <<service, client, upstream, ends, report>>

\* Both loops have ended.
RelayEnds(c) ==
  LET failed == \E e \in Ends : copying[c][e] = "failed"
  IN  /\ pc[c] = "relay"
      /\ \A e \in Ends : copying[c][e] # "copying"
      /\ Goto(c, IF failed THEN "blame" ELSE "finish")
      /\ outcome' = [outcome EXCEPT ![c] = [failed |-> failed, then |-> "closed"]]
      /\ copying' = [copying EXCEPT ![c] = NotCopying]
      /\ UNCHANGED <<service, client, upstream, ends, report>>

-----------------------------------------------------------------------------
(* What the pool is told.                                                  *)

\* exchange names the instance of its connection, the rest the one routed to.
Answering(c) == IF req[c].tunnel \/ upstream[c] = None
                  THEN routed[c].instance ELSE upstream[c].instance

\* RecordTransportFailure
Blame(c) ==
  /\ pc[c] = "blame"
  /\ Goto(c, "finish")
  /\ call' = [call EXCEPT ![c] = A!Blamed(Answering(c))]
  /\ UNCHANGED <<service, client, upstream, ends, copying, outcome, routed, culprit>>

\* Router.Finish, after which an HTTP handler may read on.
Finish(c) ==
  LET then == outcome[c].then
  IN  /\ pc[c] = "finish"
      /\ call' = [call EXCEPT ![c] =
           A!Finished(req[c].key, Answering(c), outcome[c].failed)]
      /\ outcome' = [outcome EXCEPT ![c] = Undecided]
      /\ culprit' = [culprit EXCEPT ![c] = {}]
      /\ IF then = "closed"
           THEN Hangup(c)
           ELSE /\ Goto(c, "read")
                /\ upstream' = [upstream EXCEPT ![c] = IF then = "read" THEN @ ELSE None]
                /\ UNCHANGED <<client, ends>>
      /\ UNCHANGED <<service, copying, routed>>

-----------------------------------------------------------------------------

Head(c) ==
  \/ \E k \in Key, s \in Secret \cup {None} : Negotiate(c, k, s)
  \/ \E t \in Target : ReadConnect(c, t)
  \/ \E r \in Request, s \in Secret \cup {None} : ReadRequest(c, r, s)

Serve(c) ==
  \/ \E i \in Instance : Route(c, i)
  \/ Refuse(c)
  \/ Dial(c) \/ DialFails(c)
  \/ Reply(c) \/ ReplyFails(c)
  \/ RelayEnds(c)
  \/ Blame(c) \/ Finish(c)

Exchange(c) ==
  \/ Forward(c) \/ ForwardFails(c)
  \/ Response(c) \/ ResponseFails(c)
  \/ Copy(c) \/ CopyFails(c)

Next ==
  \/ Close
  \/ \E s \in Secret : Revoke(s)
  \/ \E c \in Conn :
       \/ \E e \in Ends : EndLeaves(c, e) \/ SourceEnds(c, e) \/ WriteFails(c, e)
       \/ \E p \in Port : Accept(c, p)
       \/ GivesUp(c)
       \/ Head(c) \/ Serve(c) \/ Exchange(c)

\* Goroutines run; reads have a deadline until a request is complete, and so has a
\* dial. An exchange and a copy loop have none: they end for sure only when the
\* ends they wait for have gone.
Fairness ==
  \A c \in Conn :
    /\ WF_vars(GivesUp(c))
    /\ WF_vars(Serve(c))
    /\ WF_vars((\A e \in Ends : ends[c][e] # "open") /\ Exchange(c))
    /\ \A e \in Ends : WF_vars(SourceEnds(c, e))

Spec == Init /\ [][Next]_vars

FairSpec == Spec /\ Fairness
-----------------------------------------------------------------------------
(* Properties.                                                             *)

\* Types; in particular whoever is served has a request that was routed.
TypeOK ==
  /\ authDisabled \in BOOLEAN
  /\ listening \subseteq Port
  /\ valid \subseteq Secret
  /\ pc \in [Conn -> {"closed", "route"} \cup Reading \cup Serving]
  /\ port \in [Conn -> Port]
  /\ req \in [Conn -> {NoRequest} \cup [key : Key] \cup Request]
  /\ stale \in [Conn -> BOOLEAN]
  /\ upstream \in [Conn -> Upstream \cup {None}]
  /\ ends \in [Conn -> [Ends -> {"open", "closed", "lost"}]]
  /\ copying \in [Conn -> [Ends -> {"copying", "done", "failed"}]]
  /\ outcome \in [Conn -> [failed : BOOLEAN, then : {"read", "drop", "closed"}]]
  /\ routed \in [Conn -> A!Routed \cup {None}]
  /\ call \in [Conn -> A!Call]
  /\ culprit \in [Conn -> SUBSET Ends]
  /\ \A c \in Conn :
       /\ pc[c] \in Serving \cup {"route"} => req[c] \in Request
       /\ pc[c] \in Serving => routed[c] \in A!Routed

\* Every request that is routed is finished exactly once, whichever way it ends,
\* on the session and instance it was routed to; the instance is blamed at most
\* once, and never credited with a request it was blamed for (server.go
\* reportDialFailure, finish; http.go exchange, tunnel).
ImplementsAccounting == A!Spec

\* A request is carried by a connection to its own destination through the
\* instance its session has now, however the requests of a keep-alive client and
\* the rotations of its session alternate (http.go handleHTTP).
OwnUpstream ==
  \A c \in Conn : pc[c] \in {"forward", "response", "copy", "reply", "relay"} =>
    upstream[c] = [instance |-> routed[c].instance, target |-> req[c].target]

\* A request read after its token was revoked is not served, even on a connection
\* whose earlier requests were (http.go handleHTTP, socks5.go readUserPass).
RevokedIsRefused ==
  \A c \in Conn : ~authDisabled /\ pc[c] \in Serving => ~stale[c]

Blames(c) == call'[c] # call[c] /\ call'[c].op = "blame"

\* No instance is scored for a destination that tor never reaches (server.go
\* reportDialFailure, unroutableTarget).
UnroutableSpared ==
  [][\A c \in Conn : Blames(c) => req[c].target \notin Unroutable]_vars

\* Once both ends of a connection leave, its request is finished: no session
\* keeps a request in flight for ever (relay.go relay; http.go tunnel).
RequestsEnd ==
  \A c \in Conn :
    (\A e \in Ends : WF_vars(EndLeaves(c, e))) =>
      (call[c].op = "route" ~> call[c].op = "finish")

\* What server.go:360-367 and relay.go:26-30 ask for: an instance is scored only
\* when its own side failed, not when its client's did.
InstanceFaultOnly == [][\A c \in Conn : Blames(c) => "server" \in culprit[c]]_vars
=============================================================================
