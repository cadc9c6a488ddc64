------------------------------ MODULE Routing -------------------------------
(***************************************************************************)
(* Which instance carries a request: pool.go's Route, assign, RotateSession *)
(* and divertSessions over the pinning table of sessions.go.               *)
(*                                                                         *)
(* Route looks the session up, judges its instance, goes through the       *)
(* instances for candidates, picks one, pins it and begins, taking and     *)
(* releasing a different mutex for each, so each is a step that requests,  *)
(* rotations, quarantines and tor itself can come between; so is each      *)
(* look at an instance.  preferSettled, countByInstance and pick are one   *)
(* step: what changes between them changes which candidate is picked, and  *)
(* every candidate can be.                                                 *)
(*                                                                         *)
(* Of an instance's health only whether it is in service matters here.     *)
(* How the table expires and evicts is in Sessions.tla, here a session may *)
(* be forgotten at any time.                                               *)
(***************************************************************************)
EXTENDS PoolParameters, Naturals, FiniteSets

CONSTANTS
  Client,         \* goroutines serving requests
  Mover,          \* goroutines rotating sessions and instances
  PerKey,         \* bound: requests of one key being routed at once
  DrainOnRotate,  \* DRAIN_ON_ROTATE
  MaxTroubled     \* bound: instances down, out of service or drained at once

ASSUME RoutingAssumption ==
  /\ Instance \subseteq Nat
  /\ None \notin Instance /\ None \notin Key
  /\ Client \cap Mover = {}
  /\ IsFiniteSet(Instance)
  /\ IsFiniteSet(Key)
  /\ PerKey \in Nat /\ MaxTroubled \in Nat
  /\ DrainOnRotate \in BOOLEAN

VARIABLES
  up,         \* the instances whose tor is Ready
  benched,    \* the instances whose health is not routable
  unpinning,  \* the instances whose sessions are about to be unpinned
  rotating,   \* p.rotating: rotation marks held on each instance
  pinned,     \* sessions.byKey: the instance each key is pinned to
  task,       \* what each goroutine is doing
  promised    \* history: the instance a key's requests go to, until something
              \* entitles the pool to move the key

fleet       == <<up, benched, unpinning>>
routingVars == <<fleet, rotating, pinned, task, promised>>

Worker == Client \cup Mover

-----------------------------------------------------------------------------
(* A task routes its key; avoid is the instance it would rather not pick,  *)
(* found the one it has been given.  It gathers the candidates in choice   *)
(* and has yet to look at those in scan; steady is a history: those in     *)
(* service ever since it began to look.  A rotation of an instance diverts *)
(* the keys in todo, one after the other.                                  *)

IdleTask == [pc |-> "idle", key |-> None, avoid |-> None, found |-> None,
             scan |-> {}, choice |-> {}, steady |-> {}, vacated |-> None,
             todo |-> {}]

Become(w, t) == task' = [task EXCEPT ![w] = t]

Goto(w, pc) == task' = [task EXCEPT ![w].pc = pc]

Ends(w) == Become(w, IdleTask)

Serving(k) == {c \in Client : task[c].key = k}

\* A mover has been asked, or is about, to give k another instance.
Moving(k) == \E m \in Mover : task[m].key = k \/ k \in task[m].todo

\* Every request of k on its way, but c's, goes to i.
Agreed(k, i, c) ==
  \A d \in Serving(k) \ {c} : task[d].pc \in {"judge", "shun", "begin"} /\ task[d].found = i

Load(i) == Cardinality({k \in Key : pinned[k] = i})

\* The instances in service.
InService == up \ benched

\* Instances() is sorted by index.
NextOf(scan) == {i \in scan : \A j \in scan : i <= j}

Troubled == (Instance \ up) \cup benched \cup unpinning

\* Mutant: divertSessions does not skip the sessions of other instances.
ListedAll(i) == {k \in Key : pinned[k] # None}

\* The keys divertSessions finds on i.
Listed(i) == {k \in Key : pinned[k] = i}

\* Mutant: a rotating instance is no candidate, not even the last one.
PreferSettledStrictly(candidates) == {i \in candidates : rotating[i] = 0}

PreferSettled(candidates) ==
  LET settled == {i \in candidates : rotating[i] = 0}
  IN  IF settled = {} THEN candidates ELSE settled

LeastLoaded(candidates) ==
  {i \in candidates : \A j \in candidates : Load(i) <= Load(j)}

\* pick
Picked(candidates, avoid) ==
  LeastLoaded(IF candidates \subseteq {avoid} THEN candidates
                                              ELSE candidates \ {avoid})

\* What task goes on as when i drops out of service.
Unsteadied(i) == [w \in Worker |-> [task[w] EXCEPT !.steady = @ \ {i}]]

\* Whoever holds a promise of an instance in troubled, or of a key in keys, may
\* be moved from now on.
Excuse(troubled, keys) ==
  promised' = [k \in Key |->
    IF promised[k] \in troubled \/ k \in keys THEN None ELSE promised[k]]

-----------------------------------------------------------------------------

RoutingInit ==
  /\ up = Instance
  /\ benched = {}
  /\ unpinning = {}
  /\ rotating = [i \in Instance |-> 0]
  /\ pinned = [k \in Key |-> None]
  /\ task = [w \in Worker |-> IdleTask]
  /\ promised = [k \in Key |-> None]

(* Route. *)

\* readyInstances begins.
Assigning(t) ==
  [t EXCEPT !.pc = "choose", !.scan = Instance, !.choice = {}, !.steady = InService]

\* The session is looked up.
LookupSession(c, k) ==
  LET t == [IdleTask EXCEPT !.key = k]
  IN  /\ task[c] = IdleTask
      /\ Cardinality(Serving(k)) < PerKey
      /\ Become(c, IF pinned[k] = None
                     THEN Assigning(t)
                     ELSE [t EXCEPT !.pc = "judge", !.found = pinned[k]])
      /\ UNCHANGED <<fleet, rotating, pinned, promised>>

\* Whether the session's instance is Ready.
Judge(c) ==
  /\ task[c].pc = "judge"
  /\ Goto(c, IF task[c].found \in up THEN "shun" ELSE "drop")
  /\ UNCHANGED <<fleet, rotating, pinned, promised>>

\* Whether it rotates, and requests are kept off it then.
Shun(c) ==
  LET i == task[c].found
  IN  /\ task[c].pc = "shun"
      /\ IF DrainOnRotate /\ rotating[i] > 0
           THEN Become(c, Assigning([IdleTask EXCEPT !.key = task[c].key, !.avoid = i]))
           ELSE Goto(c, "begin")
      /\ UNCHANGED <<fleet, rotating, pinned, promised>>

\* Its instance is unavailable: whatever the key is pinned to by now is dropped.
DropPinned(c) ==
  /\ task[c].pc = "drop"
  /\ pinned' = [pinned EXCEPT ![task[c].key] = None]
  /\ Become(c, Assigning([IdleTask EXCEPT !.key = task[c].key]))
  /\ UNCHANGED <<fleet, rotating, promised>>

\* begin, and the request is on its way to the instance it found.  From a request
\* that finds its session pinned there, the instance untroubled, no one about to
\* move the session and no other request of it on its way elsewhere, the key has
\* the promise that the next ones follow.
BeginRequest(c) ==
  LET k == task[c].key
      i == task[c].found
  IN  /\ task[c].pc = "begin"
      /\ promised' = [promised EXCEPT ![k] =
           IF /\ pinned[k] = i /\ i \notin Troubled /\ rotating[i] = 0
              /\ ~Moving(k) /\ Agreed(k, i, c)
           THEN i ELSE @]
      /\ Ends(c)
      /\ UNCHANGED <<fleet, rotating, pinned>>

(* assign, for requests, for RotateSession and for divertSessions. *)

\* The goroutine that diverts is done with a session.
NextSession(w) ==
  Become(w, [IdleTask EXCEPT !.pc = "divert", !.vacated = task[w].vacated,
                             !.todo = task[w].todo])

\* assign has failed: the request or the session's rotation is refused, a
\* divert leaves the session where it is.
Unassigned(w) == IF task[w].vacated = None THEN Ends(w) ELSE NextSession(w)

\* readyInstances asks the next instance whether it is Ready.
AskReady(w) ==
  /\ task[w].pc = "choose"
  /\ \E i \in NextOf(task[w].scan) :
       IF i \in up THEN Goto(w, "weigh")
                   ELSE Become(w, [task[w] EXCEPT !.scan = @ \ {i}])
  /\ UNCHANGED <<fleet, rotating, pinned, promised>>

\* And then whether its health lets it carry traffic.
Weigh(w) ==
  /\ task[w].pc = "weigh"
  /\ \E i \in NextOf(task[w].scan) :
       Become(w, [task[w] EXCEPT !.pc = "choose", !.scan = @ \ {i},
                                 !.choice = IF i \in benched THEN @ ELSE @ \cup {i}])
  /\ UNCHANGED <<fleet, rotating, pinned, promised>>

\* It has been through them all.
Choose(w) ==
  /\ task[w].pc = "choose" /\ task[w].scan = {}
  /\ IF task[w].choice = {} THEN Unassigned(w) ELSE Goto(w, "pick")
  /\ UNCHANGED <<fleet, rotating, pinned, promised>>

\* preferSettled, countByInstance and pick.
Pick(w) ==
  LET best == Picked(PreferSettled(task[w].choice), task[w].avoid)
  IN  /\ task[w].pc = "pick"
      /\ \/ best = {} /\ Unassigned(w)
         \/ \E i \in best :
              Become(w, [task[w] EXCEPT !.pc = "pin", !.found = i, !.choice = {},
                                        !.steady = {}])
      /\ UNCHANGED <<fleet, rotating, pinned, promised>>

\* pin, and what assign's caller goes on with.  A session's rotation goes on to
\* rotate the vacated instance when it was asked to, or found no other.
Pin(w) ==
  LET t == task[w]
  IN  /\ t.pc = "pin"
      /\ pinned' = [pinned EXCEPT ![t.key] = t.found]
      /\ \/ w \in Client /\ Goto(w, "begin")
         \/ t.vacated # None /\ NextSession(w)
         \/ /\ w \in Mover /\ t.vacated = None
            /\ \/ t.avoid # t.found /\ Ends(w)
               \/ /\ t.avoid # None
                  /\ Become(w, [IdleTask EXCEPT !.pc = "quiesce", !.vacated = t.avoid])
      /\ UNCHANGED <<fleet, rotating, promised>>

(* Rotations. *)

\* RotateSession, up to the lookup.
RotateSession(m, k) ==
  /\ task[m] = IdleTask
  /\ Become(m, Assigning([IdleTask EXCEPT !.key = k, !.avoid = pinned[k]]))
  /\ Excuse({}, {k})
  /\ UNCHANGED <<fleet, rotating, pinned>>

\* RotateInstance or StartRotateInstance is called.
RotateInstance(m, i) ==
  /\ task[m] = IdleTask
  /\ Become(m, [IdleTask EXCEPT !.pc = "quiesce", !.vacated = i])
  /\ UNCHANGED <<fleet, rotating, pinned, promised>>

\* quiesceForRotation: the mark goes up, unless there is no point.
Quiesce(m) ==
  LET i == task[m].vacated
  IN  /\ task[m].pc = "quiesce"
      /\ IF i \in up /\ rotating[i] = 0
           THEN /\ rotating' = [rotating EXCEPT ![i] = 1]
                /\ Goto(m, IF DrainOnRotate THEN "list" ELSE "newnym")
                /\ Excuse({i}, {})
           ELSE Ends(m) /\ UNCHANGED <<rotating, promised>>
      /\ UNCHANGED <<fleet, pinned>>

\* divertSessions takes its snapshot.
List(m) ==
  /\ task[m].pc = "list"
  /\ Become(m, [task[m] EXCEPT !.pc = "divert", !.todo = Listed(task[m].vacated)])
  /\ Excuse({task[m].vacated}, {})
  /\ UNCHANGED <<fleet, rotating, pinned>>

\* divertSessions goes on to the next session of its snapshot.
Divert(m) ==
  LET t == task[m]
  IN  /\ t.pc = "divert"
      /\ \/ /\ t.todo = {}
            /\ Goto(m, "newnym")
         \/ \E k \in t.todo :
              Become(m, Assigning([t EXCEPT !.key = k, !.avoid = t.vacated,
                                            !.todo = @ \ {k}]))
      /\ UNCHANGED <<fleet, rotating, pinned, promised>>

\* The ladder rotates an instance that is out of service without moving anyone.
Remediate(m, i) ==
  /\ task[m] = IdleTask
  /\ i \in benched
  /\ rotating' = [rotating EXCEPT ![i] = @ + 1]
  /\ Become(m, [IdleTask EXCEPT !.pc = "newnym", !.vacated = i])
  /\ Excuse({i}, {})
  /\ UNCHANGED <<fleet, pinned>>

\* endRotation.
EndRotation(m) ==
  LET i == task[m].vacated
  IN  /\ task[m].pc = "newnym"
      /\ rotating' = [rotating EXCEPT ![i] = IF @ <= 1 THEN 0 ELSE @ - 1]
      /\ Ends(m)
      /\ UNCHANGED <<fleet, pinned, promised>>

(* Everything else that takes an instance or a session away. *)

Trouble(i) == i \in Troubled \/ Cardinality(Troubled) < MaxTroubled

\* RecordFailure or QuarantineInstance: out of service, sessions yet to be
\* unpinned.
QuarantineInstance(i) ==
  /\ Trouble(i)
  /\ benched' = benched \cup {i}
  /\ unpinning' = unpinning \cup {i}
  /\ task' = Unsteadied(i)
  /\ Excuse({i}, {})
  /\ UNCHANGED <<up, rotating, pinned>>

\* Mutant: unpinInstance does not look where a session is pinned.
UnpinEveryone(i) ==
  /\ pinned' = [k \in Key |-> None]
  /\ Excuse({}, {k \in Key : pinned[k] = i})

\* unpinInstance.
UnpinAll(i) ==
  /\ pinned' = [k \in Key |-> IF pinned[k] = i THEN None ELSE pinned[k]]
  /\ Excuse({}, {k \in Key : pinned[k] = i})

\* The second half of RecordFailure or QuarantineInstance.
Unpin(i) ==
  /\ i \in unpinning
  /\ unpinning' = unpinning \ {i}
  /\ UnpinAll(i)
  /\ UNCHANGED <<up, benched, rotating, task>>

\* DrainInstance; also RestartInstance and restartUnhealthy, whose markStarting
\* is a Return: "starting" becomes "healthy" at the next routing decision, for
\* as long as tor is still up.
Drain(i) ==
  /\ UnpinAll(i)
  /\ UNCHANGED <<fleet, rotating, task>>

\* ReleaseInstance, a restart, or the ladder is over.
Return(i) ==
  /\ i \in benched
  /\ benched' = benched \ {i}
  /\ UNCHANGED <<up, unpinning, rotating, pinned, task, promised>>

TorDown(i) ==
  /\ i \in up
  /\ Trouble(i)
  /\ up' = up \ {i}
  /\ task' = Unsteadied(i)
  /\ Excuse({i}, {})
  /\ UNCHANGED <<benched, unpinning, rotating, pinned>>

TorUp(i) ==
  /\ up' = up \cup {i}
  /\ UNCHANGED <<benched, unpinning, rotating, pinned, task, promised>>

\* DropSession, an expiry or an eviction.
Forget(k) ==
  /\ pinned' = [pinned EXCEPT ![k] = None]
  /\ Excuse({}, {k})
  /\ UNCHANGED <<fleet, rotating, task>>

-----------------------------------------------------------------------------

\* assign.
AssignStep(w) == AskReady(w) \/ Weigh(w) \/ Choose(w) \/ Pick(w) \/ Pin(w)

ClientStep(c) ==
  Judge(c) \/ Shun(c) \/ DropPinned(c) \/ AssignStep(c) \/ BeginRequest(c)

MoverStep(m) ==
  AssignStep(m) \/ Quiesce(m) \/ List(m) \/ Divert(m) \/ EndRotation(m)

RoutingNext ==
  \/ \E c \in Client : ClientStep(c)
  \/ \E m \in Mover : MoverStep(m)
  \/ \E c \in Client, k \in Key : LookupSession(c, k)
  \/ \E m \in Mover, k \in Key : RotateSession(m, k)
  \/ \E m \in Mover, i \in Instance : RotateInstance(m, i) \/ Remediate(m, i)
  \/ \E i \in Instance : QuarantineInstance(i) \/ Drain(i) \/ Unpin(i) \/ Return(i)
  \/ \E i \in Instance : TorDown(i) \/ TorUp(i)
  \/ \E k \in Key : Forget(k)

RoutingSpec == RoutingInit /\ [][RoutingNext]_routingVars

-----------------------------------------------------------------------------
(* Properties.                                                             *)

\* Types; a goroutine that goes on to pin, to begin or to rotate has something to
\* do it with: no error of assign lets it go on (pool.go Route, assign).
RoutingTypeOK ==
  /\ up \subseteq Instance
  /\ benched \subseteq Instance
  /\ unpinning \subseteq Instance
  /\ rotating \in [Instance -> Nat]
  /\ pinned \in [Key -> Instance \cup {None}]
  /\ promised \in [Key -> Instance \cup {None}]
  /\ task \in [Worker ->
       [pc : {"idle", "judge", "shun", "drop", "choose", "weigh", "pick", "pin",
              "begin", "quiesce", "list", "divert", "newnym"},
        key : Key \cup {None},
        avoid : Instance \cup {None},
        found : Instance \cup {None},
        scan : SUBSET Instance,
        choice : SUBSET Instance,
        steady : SUBSET Instance,
        vacated : Instance \cup {None},
        todo : SUBSET Key]]
  /\ \A w \in Worker :
       /\ task[w].pc \in {"judge", "shun", "drop", "choose", "weigh", "pick", "pin",
                         "begin"}
            => task[w].key \in Key
       /\ task[w].pc \in {"judge", "shun", "drop", "pin", "begin"}
            => task[w].found \in Instance
       /\ task[w].pc \in {"quiesce", "list", "divert", "newnym"}
            => task[w].vacated \in Instance

\* From the request that settled a key on an instance on, the key stays pinned to
\* it and every request of the key on its way goes there, however many there are at
\* once, until the instance goes down, rotates, is taken out of service or drained,
\* or someone rotates or drops the session (pool.go Route).
StaysPut ==
  /\ RoutingTypeOK
  /\ \A k \in Key : promised[k] # None =>
       /\ pinned[k] = promised[k]
       /\ Agreed(k, promised[k], None)

\* A request is refused only if no instance has been in service for as long as it
\* looked for one: the instance to avoid and the instances that rotate are still
\* candidates of last resort (pool.go readyInstances, preferSettled, picker.go
\* pick).
RefusedOnlyWhenNoneServes ==
  [][\A c \in Client :
       task[c] # IdleTask /\ task[c].pc # "begin" /\ task'[c] = IdleTask
         => task[c].steady = {}]_routingVars

\* w pins its key.
Pins(w) == task[w].pc = "pin" /\ task'[w] # task[w]

\* "A session keeps its instance until it rotates or the instance stops being
\* routable": a request that takes its key from one instance to another was to keep
\* it off that one (pool.go Route).
Sticky ==
  [][\A c \in Client :
       Pins(c) => pinned[task[c].key] \in {None, task[c].found, task[c].avoid}]_routingVars

\* "divertSessions repins every session on an instance to a different one", and not
\* those that another instance carries by now (pool.go divertSessions).
DivertsItsOwn ==
  [][\A m \in Mover :
       Pins(m) /\ task[m].vacated # None
         => pinned[task[m].key] \in {None, task[m].found, task[m].vacated}]_routingVars

\* "The mark goes up first so nothing new is pinned here while the circuits are
\* gone": while an instance rotates, sessions are pinned to the others as long as
\* one that does not rotate is in service (pool.go preferSettled, remediate.go
\* quiesceForRotation).
NothingNewIsPinned ==
  [][\A w \in Worker, m \in Mover :
       Pins(w) /\ task[m].pc = "newnym" /\ task[m].vacated = task[w].found
         => \A i \in InService : rotating[i] > 0]_routingVars
=============================================================================
