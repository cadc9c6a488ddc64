------------------------------ MODULE Sessions ------------------------------
(***************************************************************************)
(* The pinning table of internal/pool/sessions.go: how a session comes     *)
(* into it, counts its requests in flight, grows old, is swept and makes   *)
(* room for another.  Every operation holds s.mu throughout, so each is    *)
(* one action.  A request makes several of them (Route, then Finish), and  *)
(* names its session by key: the entry it finishes on need not be the one  *)
(* it began on.                                                            *)
(*                                                                         *)
(* Time is the age of each entry, which stops at TTL + 1: past TTL it no   *)
(* longer matters by how much.  An entry is stamped with the time s.mu was *)
(* taken; the now the code passes in was read a moment before.             *)
(***************************************************************************)
EXTENDS PoolParameters, Naturals, FiniteSets

CONSTANTS
  PortKey,      \* those the session ports account under
  Request,      \* requests being served at once
  TTL,          \* SESSION_TTL, in ticks
  MaxSessions   \* MAX_SESSIONS

ASSUME SessionsAssumption ==
  /\ None \notin Key
  /\ PortKey \subseteq Key
  /\ IsFiniteSet(Key) /\ IsFiniteSet(Request)
  /\ TTL \in Nat \ {0}
  /\ MaxSessions \in Nat \ {0}

VARIABLES
  table,    \* s.byKey: a function on the keys it holds
  request,  \* the session key of each request, and how far the request has got
  strayed   \* history: keys some request in flight of which is not counted by
            \* the entry the key has now, or has next

sessionsVars == <<table, request, strayed>>

Entry == [instance : Instance, age : 0..TTL + 1, active : Nat]

Idle == [pc |-> "idle", key |-> None]

InFlight(k) == {r \in Request : request[r] = [pc |-> "serve", key |-> k]}

\* The table when the keys in dropped are deleted.
Without(dropped) == [k \in DOMAIN table \ dropped |-> table[k]]

\* The requests in flight of a key that leaves the table are not counted any more.
Strays(dropped) == strayed' = strayed \cup {k \in dropped : InFlight(k) # {}}

-----------------------------------------------------------------------------
(* evictIfFullLocked: the keys that may be dropped to make room, any of    *)
(* the oldest if none has expired.                                         *)

Expired == {k \in DOMAIN table : table[k].age > TTL}

Oldest == {k \in DOMAIN table : \A j \in DOMAIN table : table[k].age >= table[j].age}

\* Mutant: room is made one session too late.
EvictableLate ==
  IF Cardinality(DOMAIN table) <= MaxSessions THEN {{}}
  ELSE IF Expired # {} THEN {Expired}
  ELSE {{k} : k \in Oldest}

Evictable ==
  IF Cardinality(DOMAIN table) < MaxSessions THEN {{}}
  ELSE IF Expired # {} THEN {Expired}
  ELSE {{k} : k \in Oldest}

\* Mutant: pin always puts a new entry in.
PinnedAnew(k, i) ==
  /\ table' = [j \in DOMAIN table \cup {k} |->
       IF j = k THEN [instance |-> i, age |-> 0, active |-> 0] ELSE table[j]]
  /\ UNCHANGED strayed

\* pin
Pinned(k, i) ==
  IF k \in DOMAIN table
    THEN /\ table' = [table EXCEPT ![k].instance = i, ![k].age = 0]
         /\ UNCHANGED strayed
    ELSE \E dropped \in Evictable :
           /\ table' = [j \in (DOMAIN table \ dropped) \cup {k} |->
                IF j = k THEN [instance |-> i, age |-> 0, active |-> 0] ELSE table[j]]
           /\ Strays(dropped)

-----------------------------------------------------------------------------

SessionsInit ==
  /\ table = [k \in {} |-> {}]
  /\ request = [r \in Request |-> Idle]
  /\ strayed = {}

\* A request arrives and its session is looked up; its instance may not do.
Lookup(r, k) ==
  /\ request[r] = Idle
  /\ \E pc \in {"begin", "assign"} :
       /\ pc = "begin" => k \in DOMAIN table
       /\ request' = [request EXCEPT ![r] = [pc |-> pc, key |-> k]]
  /\ UNCHANGED <<table, strayed>>

\* There is no instance for the request, and it is refused.
Refuse(r) ==
  /\ request[r].pc = "assign"
  /\ request' = [request EXCEPT ![r] = Idle]
  /\ UNCHANGED <<table, strayed>>

\* assign pins the key, whether it is in the table or not.
Assign(r, i) ==
  /\ request[r].pc = "assign"
  /\ Pinned(request[r].key, i)
  /\ request' = [request EXCEPT ![r].pc = "begin"]

\* begin: a session that has gone meanwhile does not keep the request from being
\* served, but nothing counts it.
Begin(r) ==
  LET k == request[r].key
  IN  /\ request[r].pc = "begin"
      /\ request' = [request EXCEPT ![r].pc = "serve"]
      /\ IF k \in DOMAIN table
           THEN /\ table' = [table EXCEPT ![k].age = 0, ![k].active = @ + 1]
                /\ UNCHANGED strayed
           ELSE strayed' = strayed \cup {k} /\ UNCHANGED table

OneLess(n) == IF n > 0 THEN n - 1 ELSE 0

\* Mutant: finish returns early when the request has failed.
FinishForgetful(r) ==
  LET k == request[r].key
  IN  /\ request[r].pc = "serve"
      /\ request' = [request EXCEPT ![r] = Idle]
      /\ \/ UNCHANGED table
         \/ /\ k \in DOMAIN table
            /\ table' = [table EXCEPT ![k].active = OneLess(@)]
      /\ strayed' = IF InFlight(k) = {r} THEN strayed \ {k} ELSE strayed

\* finish, on whatever entry the key has by now.
Finish(r) ==
  LET k == request[r].key
  IN  /\ request[r].pc = "serve"
      /\ request' = [request EXCEPT ![r] = Idle]
      /\ table' = IF k \in DOMAIN table
                    THEN [table EXCEPT ![k].active = OneLess(@)]
                    ELSE table
      /\ strayed' = IF InFlight(k) = {r} THEN strayed \ {k} ELSE strayed

\* A request on a session port finishes, which began on no entry.
FinishUnbegun(k) ==
  /\ k \in PortKey \cap DOMAIN table
  /\ table' = [table EXCEPT ![k].active = OneLess(@)]
  /\ strayed' = IF table[k].active > 0 THEN strayed \cup {k} ELSE strayed
  /\ UNCHANGED request

\* RotateSession or divertSessions pins the key, whether it is in the table or not.
Repin(k, i) == Pinned(k, i) /\ UNCHANGED request

\* recordFailure
RecordSessionFailure(k) ==
  /\ k \in DOMAIN table
  /\ table' = [table EXCEPT ![k].age = 0]
  /\ UNCHANGED <<request, strayed>>

\* drop
Drop(k) ==
  /\ k \in DOMAIN table
  /\ table' = Without({k})
  /\ Strays({k})
  /\ UNCHANGED request

\* unpinInstance
UnpinInstance(i) ==
  LET dropped == {k \in DOMAIN table : table[k].instance = i}
  IN  /\ table' = Without(dropped)
      /\ Strays(dropped)
      /\ UNCHANGED request

\* Mutant: sweep looks at the age alone.
SweptByAge == Expired

Swept == {k \in Expired : table[k].active = 0}

\* sweep: an entry it takes has no request left to lose.
Sweep ==
  /\ table' = Without(Swept)
  /\ UNCHANGED <<request, strayed>>

\* Time passes.
Tick ==
  /\ table' = [k \in DOMAIN table |->
                 [table[k] EXCEPT !.age = IF @ > TTL THEN @ ELSE @ + 1]]
  /\ UNCHANGED <<request, strayed>>

-----------------------------------------------------------------------------

Step(r) == Refuse(r) \/ Begin(r) \/ Finish(r) \/ \E i \in Instance : Assign(r, i)

SessionsNext ==
  \/ \E r \in Request : Step(r)
  \/ \E r \in Request, k \in Key : Lookup(r, k)
  \/ \E k \in Key, i \in Instance : Repin(k, i)
  \/ \E k \in Key : RecordSessionFailure(k) \/ Drop(k) \/ FinishUnbegun(k)
  \/ \E i \in Instance : UnpinInstance(i)
  \/ Sweep
  \/ Tick

\* Requests are routed and served to their end, Run's ticker sweeps, time passes.
Fairness ==
  /\ \A r \in Request : WF_sessionsVars(Step(r))
  /\ WF_sessionsVars(Sweep)
  /\ WF_sessionsVars(Tick)

SessionsSpec == SessionsInit /\ [][SessionsNext]_sessionsVars

SessionsFairSpec == SessionsSpec /\ Fairness

-----------------------------------------------------------------------------
(* Properties.                                                             *)

\* Types; MAX_SESSIONS bounds the table, whatever keys callers present and whatever is
\* rotated or dropped meanwhile (sessions.go pin, evictIfFullLocked).
SessionsTypeOK ==
  /\ DOMAIN table \subseteq Key
  /\ Cardinality(DOMAIN table) <= MaxSessions
  /\ \A k \in DOMAIN table : table[k] \in Entry
  /\ request \in [Request ->
       [pc : {"idle", "assign", "begin", "serve"}, key : Key \cup {None}]]
  /\ \A r \in Request : request[r].pc # "idle" => request[r].key \in Key
  /\ strayed \subseteq Key

\* A session never claims more requests than are in flight on its key: what a
\* dropped entry had counted never keeps its successor alive.  As long as none of
\* them has lost its entry it claims them all, whichever way sessions are repinned,
\* rotated, swept and evicted meanwhile (sessions.go pin, begin, finish, sweep).
CountsTraffic ==
  \A k \in DOMAIN table :
    /\ table[k].active <= Cardinality(InFlight(k))
    /\ k \notin strayed => table[k].active = Cardinality(InFlight(k))

\* Nobody routes a request to k, rotates it or reports a failure on it.
LeftAlone(k) ==
  ~ \/ \E r \in Request : Lookup(r, k)
    \/ \E i \in Instance : Repin(k, i)
    \/ RecordSessionFailure(k)

\* A session its caller has left is given up, whatever became of its requests and
\* of the entries that counted them: the accounting never leaks an in-flight
\* request that would keep it for ever (sessions.go sweep, finish).
IdleSessionsGo ==
  \A k \in Key : <>[][LeftAlone(k)]_sessionsVars => <>[](k \notin DOMAIN table)
=============================================================================
