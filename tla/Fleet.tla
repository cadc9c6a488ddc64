------------------------------- MODULE Fleet -------------------------------
(***************************************************************************)
(* Which instances there are: Start, Add and Remove of internal/tor/       *)
(* fleet.go, Resize and forgetInstance of internal/pool, and what becomes  *)
(* of the goroutines that still hold an instance when it is removed.       *)
(*                                                                         *)
(* Instances are numbered in the order they are made.  An instance's index *)
(* decides its ports and its key in the pool's maps; indexes are reused.   *)
(***************************************************************************)
EXTENDS Naturals, FiniteSets

CONSTANTS
  Resizer,            \* goroutines that start the fleet or resize it
  Worker,             \* goroutines that remediate or rotate
  PoolSize,           \* POOL_SIZE
  Sizes,              \* bound: the sizes that are asked for
  MaxMade,            \* bound: instances made in all
  MaxResizes,         \* bound: resizes that are asked for
  InstancePortBase,
  instancePortBlock,
  None

ASSUME FleetAssumption ==
  /\ None \notin Resizer \cup Worker \cup Nat
  /\ instancePortBlock \in Nat \ {0}
  /\ InstancePortBase \in Nat
  /\ Sizes \subseteq Nat \ {0}
  /\ MaxMade \in Nat
  /\ MaxResizes \in Nat

\* Load refuses a POOL_SIZE that ValidatePoolSize would refuse.
ASSUME PoolSizeAssumption ==
  /\ PoolSize \in Nat \ {0}
  /\ PoolSize <= instancePortBlock
  /\ InstancePortBase + instancePortBlock + PoolSize - 1 <= 65535

VARIABLES
  made,         \* how many instances there have been
  index,        \* of each of them
  instances,    \* f.instances: those the fleet holds
  tor,          \* of each: unborn, new, up, gone; stray when it was launched after its
                \* removal, unstopped when the Stop of its removal failed
  remediating,  \* the indexes that are flagged
  rotating,     \* the marks on each index
  resizer,      \* what each resizer is about
  worker,       \* what each worker is about
  resizes,      \* history: how many have been asked for
  collided,     \* history: two resizers have been at it at once
  haunted       \* history: indexes that were forgotten under a worker that is still at it

fleet == <<made, index, instances>>
marks == <<remediating, rotating>>
history == <<resizes, collided, haunted>>
vars == <<fleet, tor, marks, resizer, worker, history>>

-----------------------------------------------------------------------------

Made == 1..MaxMade

\* More indexes than instances made are never in use.
Index == 0..MaxMade

InstanceSocksPort(i) == InstancePortBase + i

InstanceControlPort(i) == InstancePortBase + instancePortBlock + i

Ports(i) == {InstanceSocksPort(i), InstanceControlPort(i)}

ValidatePoolSize(size) ==
  /\ size >= 1
  /\ size <= instancePortBlock
  /\ InstanceControlPort(size - 1) <= 65535

Taken == {index[n] : n \in instances}

Free(i) == i \notin Taken

\* Mutant: a counter.
NextIndex == made

\* freeIndexLocked: the lowest that no instance holds.
FreeIndex == CHOOSE i \in Index : Free(i) /\ \A k \in 0..(i - 1) : ~Free(k)

\* The one the fleet holds at index i, if any.
Get(i) == {n \in instances : index[n] = i}

Size == Cardinality(instances)

\* sole: history, no other resizer has been at it since this one began.
Idle ==
  [pc |-> "idle", size |-> 0, left |-> 0, todo |-> {}, inst |-> None, sole |-> TRUE]

Resting == [pc |-> "idle", kind |-> "none", index |-> 0, inst |-> None]

Init ==
  /\ made = 0
  /\ index = [n \in Made |-> 0]
  /\ instances = {}
  /\ tor = [n \in Made |-> "unborn"]
  /\ remediating = {}
  /\ rotating = [i \in Index |-> 0]
  /\ \E first \in Resizer : resizer = [r \in Resizer |->
       IF r = first THEN [Idle EXCEPT !.pc = "grow", !.size = PoolSize, !.left = PoolSize]
                    ELSE Idle]
  /\ worker = [w \in Worker |-> Resting]
  /\ resizes = 0 /\ collided = FALSE /\ haunted = {}

-----------------------------------------------------------------------------
(* Start and Resize.                                                       *)

Becomes(r, f) == resizer' = [resizer EXCEPT ![r] = f]

\* Resize reads the size of the fleet and decides.
Resize(r, size) ==
  LET others == {q \in Resizer : resizer[q].pc # "idle"}
      begun  == [Idle EXCEPT !.size = size, !.sole = others = {}]
  IN  /\ resizer[r].pc = "idle"
      /\ resizes < MaxResizes
      /\ ValidatePoolSize(size)
      /\ size # Size
      /\ resizes' = resizes + 1
      /\ resizer' = [q \in Resizer |->
           IF q = r THEN IF size > Size
                           THEN [begun EXCEPT !.pc = "grow", !.left = size - Size]
                           ELSE [begun EXCEPT !.pc = "list"]
           ELSE IF q \in others THEN [resizer[q] EXCEPT !.sole = FALSE]
           ELSE resizer[q]]
      /\ collided' = (collided \/ others # {})
      /\ UNCHANGED <<fleet, tor, marks, worker, haunted>>

\* Add, and the stagger before the next.
Add(r) ==
  LET n == made + 1
  IN  /\ resizer[r].pc = "grow"
      /\ made < MaxMade
      /\ made' = n
      /\ index' = [index EXCEPT ![n] = FreeIndex]
      /\ instances' = instances \cup {n}
      /\ tor' = [tor EXCEPT ![n] = "new"]
      /\ Becomes(r, IF resizer[r].left = 1 THEN Idle
                    ELSE [resizer[r] EXCEPT !.left = @ - 1])
      /\ UNCHANGED <<marks, worker, history>>

\* Mutant: it keeps one less.
SurplusAndOne(size) ==
  {n \in instances : Cardinality({m \in instances : index[m] < index[n]}) + 1 >= size}

\* instances[size:], by index.
Surplus(size) ==
  {n \in instances : Cardinality({m \in instances : index[m] < index[n]}) >= size}

\* The slice panics when the fleet has less than size by now; net/http recovers.
List(r) ==
  /\ resizer[r].pc = "list"
  /\ IF resizer[r].size > Size
       THEN Becomes(r, Idle)
       ELSE Becomes(r, [resizer[r] EXCEPT !.pc = "remove", !.todo = Surplus(resizer[r].size)])
  /\ UNCHANGED <<fleet, tor, marks, worker, history>>

\* Remove takes whichever instance has the index now.
Remove(r) ==
  /\ resizer[r].pc = "remove"
  /\ resizer[r].todo # {}
  /\ \E n \in resizer[r].todo :
       /\ \A m \in resizer[r].todo : index[n] <= index[m]
       /\ \/ /\ Get(index[n]) = {}
             /\ Becomes(r, Idle)
             /\ UNCHANGED instances
          \/ \E m \in Get(index[n]) :
               /\ instances' = instances \ {m}
               /\ Becomes(r, [resizer[r] EXCEPT !.pc = "stop", !.inst = m,
                                                !.todo = @ \ {n}])
  /\ UNCHANGED <<made, index, tor, marks, worker, history>>

Removed(r) ==
  /\ resizer[r].pc = "remove"
  /\ resizer[r].todo = {}
  /\ Becomes(r, Idle)
  /\ UNCHANGED <<fleet, tor, marks, worker, history>>

Runs == {"up", "stray", "unstopped"}

\* What Process.Stop leaves of a tor: it does not see one that is not launched yet.
Halted(n) == IF tor[n] \in Runs THEN "gone" ELSE tor[n]

\* inst.Stop, which waits until tor has gone, or fails to signal it.
StopRemoved(r) ==
  LET n == resizer[r].inst
  IN  /\ resizer[r].pc = "stop"
      /\ \/ /\ tor' = [tor EXCEPT ![n] = Halted(n)]
            /\ Becomes(r, [resizer[r] EXCEPT !.pc = "forget"])
         \/ /\ tor[n] \in Runs
            /\ tor' = [tor EXCEPT ![n] = "unstopped"]
            /\ Becomes(r, Idle)
      /\ UNCHANGED <<fleet, marks, worker, history>>

\* A ladder and the watchdog hold the flag of an index, a rotation its mark.
Flagging == {"ladder", "watchdog"}

Marking == {"rotate"}

\* Who of kinds is at work on index i.
Holders(kinds, i) ==
  {w \in Worker : /\ worker[w].kind \in kinds /\ worker[w].index = i
                  /\ worker[w].pc \in {"get", "begin", "stop", "launch", "end"}}

AtWork(i) == Holders(Flagging \cup Marking, i)

\* Who has a mark on index i to take down again.
Rotators(i) ==
  Holders(Marking, i) \cup {w \in Holders({"ladder"}, i) : worker[w].pc \in {"stop", "launch"}}

\* forgetInstance
Forget(r) ==
  LET i == index[resizer[r].inst]
  IN  /\ resizer[r].pc = "forget"
      /\ remediating' = remediating \ {i}
      /\ rotating' = [rotating EXCEPT ![i] = 0]
      /\ haunted' = IF AtWork(i) = {} THEN haunted ELSE haunted \cup {i}
      /\ Becomes(r, [resizer[r] EXCEPT !.pc = "remove", !.inst = None])
      /\ UNCHANGED <<fleet, tor, worker, resizes, collided>>

-----------------------------------------------------------------------------
(* Goroutines that hold an instance.                                       *)

Goes(w, g) == worker' = [worker EXCEPT ![w] = g]

\* What endRotation leaves of k marks.
OneLess(k) == IF k <= 1 THEN 0 ELSE k - 1

EndRotation(i) == rotating' = [rotating EXCEPT ![i] = OneLess(@)]

\* w has done its work, and has a flag or a mark to take down.
Through(w) == [worker[w] EXCEPT !.pc = "end", !.inst = None]

\* So much for the rung of a ladder, or the restart of the watchdog.
Done(w) ==
  /\ Goes(w, Through(w))
  /\ IF worker[w].kind = "ladder" THEN EndRotation(worker[w].index) ELSE UNCHANGED rotating

\* A launch of n; nobody stops what is launched after its removal.
Launched(n) == IF n \in instances THEN "up" ELSE "stray"

\* Start, in the goroutine of Add.
Launch(n) ==
  /\ tor[n] = "new"
  /\ \E new \in {Launched(n), "gone"} : tor' = [tor EXCEPT ![n] = new]
  /\ UNCHANGED <<fleet, marks, resizer, worker, history>>

Crash(n) ==
  /\ tor[n] \in Runs
  /\ tor' = [tor EXCEPT ![n] = "gone"]
  /\ UNCHANGED <<fleet, marks, resizer, worker, history>>

\* startRemediation flags an index; failures are still reported for one that is not
\* in use any more.
StartRemediation(w) ==
  /\ worker[w] = Resting
  /\ \E i \in {index[n] : n \in 1..made} :
       /\ i \notin remediating
       /\ remediating' = remediating \cup {i}
       /\ Goes(w, [pc |-> "get", kind |-> "ladder", index |-> i, inst |-> None])
  /\ UNCHANGED <<fleet, tor, rotating, resizer, history>>

\* remediate looks up the instance of its index.
LookUp(w) ==
  /\ worker[w].pc = "get"
  /\ Goes(w, IF Get(worker[w].index) = {} THEN [worker[w] EXCEPT !.pc = "end"]
             ELSE [worker[w] EXCEPT !.pc = "begin",
                                    !.inst = CHOOSE n \in Get(worker[w].index) : TRUE])
  /\ UNCHANGED <<fleet, tor, marks, resizer, history>>

\* Its own rotation, which stacks.
Begin(w) ==
  /\ worker[w].pc = "begin"
  /\ rotating' = [rotating EXCEPT ![worker[w].index] = @ + 1]
  /\ Goes(w, [worker[w] EXCEPT !.pc = "stop"])
  /\ UNCHANGED <<fleet, tor, remediating, resizer, history>>

\* superviseProcesses comes across a tor that is dead, not launched yet, or stalled in its
\* bootstrap; quiesceForRotation looks up an instance.
Finds(w) ==
  /\ worker[w] = Resting
  /\ \E n \in instances :
       \/ Goes(w, [pc |-> "claim", kind |-> "watchdog", index |-> index[n], inst |-> n])
       \/ /\ tor[n] = "up"
          /\ Goes(w, [pc |-> "mark", kind |-> "rotate", index |-> index[n], inst |-> n])
  /\ UNCHANGED <<fleet, tor, marks, resizer, history>>

\* Mutant: whether or not it is flagged.
ClaimAnyway(i) == TRUE

Unflagged(i) == i \notin remediating

\* restartUnhealthy flags the index, unless it is flagged.
Claim(w) ==
  LET i == worker[w].index
  IN  /\ worker[w].pc = "claim"
      /\ IF Unflagged(i)
           THEN /\ remediating' = remediating \cup {i}
                /\ Goes(w, [worker[w] EXCEPT !.pc = "stop"])
           ELSE /\ Goes(w, Resting)
                /\ UNCHANGED remediating
      /\ UNCHANGED <<fleet, tor, rotating, resizer, history>>

\* beginRotationExclusive; finishRotation follows, which leaves tor running.
Mark(w) ==
  LET i == worker[w].index
  IN  /\ worker[w].pc = "mark"
      /\ IF rotating[i] = 0
           THEN /\ rotating' = [rotating EXCEPT ![i] = 1]
                /\ Goes(w, Through(w))
           ELSE /\ Goes(w, Resting)
                /\ UNCHANGED rotating
      /\ UNCHANGED <<fleet, tor, remediating, resizer, history>>

\* The first half of Restart; or the ladder sends NEWNYM, or Stop fails.
StopHeld(w) ==
  LET n == worker[w].inst
  IN  /\ worker[w].pc = "stop"
      /\ \/ /\ tor' = [tor EXCEPT ![n] = Halted(n)]
            /\ Goes(w, [worker[w] EXCEPT !.pc = "launch"])
            /\ UNCHANGED rotating
         \/ /\ Done(w)
            /\ UNCHANGED tor
      /\ UNCHANGED <<fleet, remediating, resizer, history>>

\* The second half waits for a launch in progress; it may fail.
Relaunch(w) ==
  LET n == worker[w].inst
  IN  /\ worker[w].pc = "launch"
      /\ tor[n] # "new"
      /\ \E new \in {Launched(n), tor[n]} : tor' = [tor EXCEPT ![n] = new]
      /\ Done(w)
      /\ UNCHANGED <<fleet, remediating, resizer, history>>

\* The flag, or a mark, of the index comes down, whoever has put it up.
End(w) ==
  LET i == worker[w].index
  IN  /\ worker[w].pc = "end"
      /\ \/ /\ worker[w].kind \in Flagging
            /\ remediating' = remediating \ {i}
            /\ UNCHANGED rotating
         \/ /\ worker[w].kind \in Marking
            /\ EndRotation(i)
            /\ UNCHANGED remediating
      /\ haunted' = IF AtWork(i) \subseteq {w} THEN haunted \ {i} ELSE haunted
      /\ Goes(w, Resting)
      /\ UNCHANGED <<fleet, tor, resizer, resizes, collided>>

-----------------------------------------------------------------------------

Next ==
  \/ \E r \in Resizer : \/ \E size \in Sizes : Resize(r, size)
                        \/ Add(r) \/ List(r) \/ Remove(r) \/ Removed(r)
                        \/ StopRemoved(r) \/ Forget(r)
  \/ \E n \in 1..made : Launch(n) \/ Crash(n)
  \/ \E w \in Worker : \/ StartRemediation(w) \/ LookUp(w) \/ Begin(w) \/ Finds(w)
                       \/ Claim(w) \/ Mark(w) \/ StopHeld(w) \/ Relaunch(w) \/ End(w)

Spec == Init /\ [][Next]_vars

-----------------------------------------------------------------------------

TypeOK ==
  /\ made \in 0..MaxMade
  /\ index \in [Made -> Index]
  /\ instances \subseteq 1..made
  /\ tor \in [Made -> {"unborn", "new", "gone"} \cup Runs]
  /\ \A n \in Made : n <= made <=> tor[n] # "unborn"
  /\ remediating \subseteq Index
  /\ rotating \in [Index -> Nat]
  /\ \A r \in Resizer :
       /\ resizer[r].pc \in {"idle", "grow", "list", "remove", "stop", "forget"}
       /\ resizer[r].size \in Sizes \cup {0, PoolSize}
       /\ resizer[r].left \in 0..instancePortBlock
       /\ resizer[r].todo \subseteq 1..made
       /\ resizer[r].inst \in 1..made \cup {None}
       /\ resizer[r].pc \in {"stop", "forget"} <=> resizer[r].inst # None
  /\ \A w \in Worker :
       /\ worker[w].pc \in {"idle", "get", "begin", "claim", "mark", "stop", "launch", "end"}
       /\ worker[w].kind \in {"none"} \cup Flagging \cup Marking
       /\ worker[w].index \in Index
       /\ worker[w].inst \in 1..made \cup {None}
  /\ resizes \in 0..MaxResizes
  /\ haunted \subseteq Index /\ collided \in BOOLEAN

\* fleet.go:148-152, remediate.go:499-501: an index never exceeds the block, so that no
\* port of an instance is another's, however often the pool is resized; as long as resizes
\* take turns.
PortsAreDistinct ==
  ~collided =>
    /\ \A n \in instances : \A p \in Ports(index[n]) : p <= 65535
    /\ \A m, n \in instances : m # n => Ports(index[m]) \cap Ports(index[n]) = {}

\* fleet.go:148-152, 161, docs/architecture.md:7-8: an instance of the fleet has its ports
\* to itself, whatever tors of instances that have left still run.
PortsAreFree ==
  \A n \in instances, m \in 1..made :
    m # n /\ tor[m] \in Runs => Ports(index[m]) \cap Ports(index[n]) = {}

\* r is through without an error.
Completes(r) ==
  /\ resizer[r].pc = "grow" \/ (resizer[r].pc = "remove" /\ resizer[r].todo = {})
  /\ resizer'[r].pc = "idle"

\* remediate.go:494-497: a resize that had the fleet to itself leaves it at the size that
\* was asked for, whatever ones that overlapped have left behind.
SoleResizeIsExact ==
  [][\A r \in Resizer :
       /\ resizer[r].sole /\ Completes(r)
       => Cardinality(instances') = resizer[r].size]_vars

\* pool.go:111-112, 487-489, 502: two goroutines never remediate one instance at once, nor
\* do two claim an exclusive rotation of it, and its mark counts who rotates it, ladders
\* included; unless its index was forgotten under somebody who held it.
WorkIsExclusive ==
  /\ TypeOK
  /\ \A i \in Index \ haunted :
       /\ Cardinality(Holders(Flagging, i)) <= 1
       /\ Cardinality(Holders(Marking, i)) <= 1
       /\ rotating[i] = Cardinality(Rotators(i))

\* fleet.go:161: Remove stops an instance, unless it says that it could not.
RemovedIsStopped ==
  \A n \in 1..made \ instances :
    tor[n] \in {"up", "stray"} => \E r \in Resizer : resizer[r].inst = n

=============================================================================
