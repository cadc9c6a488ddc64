----------------------------- MODULE Remediation -----------------------------
(***************************************************************************)
(* The goroutines that take instances out of service and bring them back:  *)
(* internal/pool/remediate.go and the rotation marks of pool.go.           *)
(*                                                                         *)
(* Failure reports, the remediation ladder, the process watchdog,          *)
(* rotations and operator requests all run concurrently.  They meet in     *)
(* four places: the health state (under health.mu), the remediating flag   *)
(* and the rotation count (both under healthMu), and the tor process.      *)
(* One action is what a goroutine does between two such meetings.          *)
(*                                                                         *)
(* Health is what HealthStates promises of it.  What a restart does to the *)
(* process is in Supervisor.tla: here it takes time and may fail.  Left    *)
(* out: the fleet's membership (fixed), the pool's shutdown, startAttempts *)
(* (it only decides whether the watchdog's restart wipes), and the         *)
(* sessions, which are in Routing.tla.                                     *)
(***************************************************************************)
EXTENDS Naturals, FiniteSets

CONSTANTS
  Instance,   \* the instances of the fleet
  Job,        \* goroutines acting on instances; bounds how many run at once
  Reporter,   \* goroutines calling RecordFailure; bounds how many run at once
  Faults,     \* what may go wrong in tor: "crash", "stall", "error"
  Operators,  \* whether operators act through the API
  None        \* no instance

ASSUME RemediationAssumption ==
  /\ None \notin Instance
  /\ IsFiniteSet(Job)
  /\ Faults \subseteq {"crash", "stall", "error"}
  /\ Operators \in BOOLEAN

VARIABLES
  state,        \* p.health[i].state
  proc,         \* the tor process: up (Ready), starting, stalled, left (alive, but
                \* its launch has failed), unready (alive after a failed Stop) or down
  remediating,  \* p.remediating: the instances that are flagged
  rotating,     \* p.rotating: rotation marks held on each instance
  quiet,        \* instances inside the grace period after a rotation
  sweeping,     \* p.sweeping: a RotateAll is running
  todo,         \* instances the running RotateAll has yet to rotate
  watched,      \* the instance superviseProcesses found in need of a restart
  job,          \* what each goroutine is doing
  report        \* what each failure report is doing

marks   == <<remediating, rotating, quiet>>
sweep   == <<sweeping, todo>>
vars    == <<state, proc, marks, sweep, watched, job, report>>

\* Only the After... operators are used, which depend on no variable.
HS == INSTANCE HealthStates WITH call <- "none"

-----------------------------------------------------------------------------
(* Goroutines.  A job's pc says what it does next.                         *)

Idle == [kind |-> "none", inst |-> None, pc |-> "idle"]

RestartPcs == {"stop", "lock", "boot"}

JobPc(kind) ==
  CASE kind = "ladder"   -> RestartPcs \cup {"enter", "wait", "newnym", "settle",
                                             "leave"}
    [] kind = "watchdog" -> RestartPcs \cup {"enter", "release", "leave"}
    [] kind = "operator" -> RestartPcs \cup {"enter", "release"}
    [] kind = "launch"   -> {"boot"}
    [] kind \in {"rotation", "sweep"} -> {"newnym"}

JobKinds == {"ladder", "watchdog", "operator", "launch", "rotation", "sweep"}

Jobs == {Idle} \cup
  UNION {[kind : {k}, inst : Instance, pc : JobPc(k)] : k \in JobKinds}

Reports == [pc : {"idle"}, inst : {None}] \cup
           [pc : {"score", "start"}, inst : Instance]

\* The jobs that run under the remediating flag of i.
Flagged(j, i) == job[j].inst = i /\ job[j].kind \in {"ladder", "watchdog"}

\* The jobs that hold a rotation mark on i.
Holds(j, i) ==
  /\ job[j].inst = i
  /\ \/ job[j].kind \in {"rotation", "sweep"}
     \/ job[j].kind = "ladder" /\ job[j].pc \in RestartPcs \cup {"newnym"}

\* Instance.Starting: a launch sequence is in flight, holding startMu.
Starting(i) == \E j \in Job : job[j].inst = i /\ job[j].pc = "boot"

Spawn(kind, i, pc) ==
  \E j \in Job :
    /\ job[j] = Idle
    /\ job' = [job EXCEPT ![j] = [kind |-> kind, inst |-> i, pc |-> pc]]

Goto(j, pc) == job' = [job EXCEPT ![j].pc = pc]

Ends(j) == job' = [job EXCEPT ![j] = Idle]

At(j, kind, pc) == job[j].kind = kind /\ job[j].pc = pc

RotationWindow(i) == rotating[i] > 0 \/ i \in quiet

BeginRotation(i) == rotating' = [rotating EXCEPT ![i] = @ + 1]

EndRotation(i) ==
  /\ rotating' = [rotating EXCEPT ![i] = IF @ <= 1 THEN 0 ELSE @ - 1]
  /\ quiet' = quiet \cup {i}

-----------------------------------------------------------------------------

Init ==
  /\ state = [i \in Instance |-> "starting"]
  /\ proc = [i \in Instance |-> "starting"]
  /\ remediating = {}
  /\ rotating = [i \in Instance |-> 0]
  /\ quiet = {}
  /\ sweeping = FALSE
  /\ todo = {}
  /\ watched = None
  /\ job \in [Job -> {Idle} \cup [kind : {"launch"}, inst : Instance, pc : {"boot"}]]
  /\ \A i \in Instance : Cardinality({j \in Job : job[j].inst = i}) = 1
  /\ report = [r \in Reporter |-> [pc |-> "idle", inst |-> None]]

(* Traffic. *)

\* readyInstances, on any routing decision or poll.
MarkReady(i) ==
  /\ proc[i] = "up"
  /\ state' = [state EXCEPT ![i] = HS!AfterMarkReady(@)]
  /\ UNCHANGED <<proc, marks, sweep, watched, job, report>>

\* RecordSuccess: recordSuccess, then clearProbation.
RecordSuccess(i) ==
  /\ \E s \in HS!AfterSuccess(state[i]) :
       state' = [state EXCEPT ![i] = HS!AfterClearProbation(s)]
  /\ UNCHANGED <<proc, marks, sweep, watched, job, report>>

\* RecordFailure, up to the rotation window: a failure inside it is dropped.
ReportFailure(r, i) ==
  /\ report[r].pc = "idle"
  /\ ~RotationWindow(i)
  /\ report' = [report EXCEPT ![r] = [pc |-> "score", inst |-> i]]
  /\ UNCHANGED <<state, proc, marks, sweep, watched, job>>

\* RecordFailure: the report is scored, and either ends there or has just
\* quarantined the instance.
ScoreFailure(r) ==
  LET i == report[r].inst
  IN  /\ report[r].pc = "score"
      /\ \E blamesExit \in BOOLEAN, s \in HS!States :
           /\ s \in HS!AfterFailure(state[i], blamesExit)
           /\ state' = [state EXCEPT ![i] = s]
           /\ report' = [report EXCEPT ![r] =
                IF s = "quarantined" /\ state[i] # "quarantined"
                THEN [pc |-> "start", inst |-> i]
                ELSE [pc |-> "idle", inst |-> None]]
      /\ UNCHANGED <<proc, marks, sweep, watched, job>>

\* Mutant: startRemediation does not look at the flag.
StartRemediationUnguarded(r) ==
  LET i == report[r].inst
  IN  /\ report[r].pc = "start"
      /\ report' = [report EXCEPT ![r] = [pc |-> "idle", inst |-> None]]
      /\ remediating' = remediating \cup {i}
      /\ Spawn("ladder", i, "enter")
      /\ UNCHANGED <<state, proc, rotating, quiet, sweep, watched>>

\* startRemediation.
StartRemediation(r) ==
  LET i == report[r].inst
  IN  /\ report[r].pc = "start"
      /\ report' = [report EXCEPT ![r] = [pc |-> "idle", inst |-> None]]
      /\ \/ i \in remediating /\ UNCHANGED <<remediating, job>>
         \/ /\ i \notin remediating
            /\ remediating' = remediating \cup {i}
            /\ Spawn("ladder", i, "enter")
      /\ UNCHANGED <<state, proc, rotating, quiet, sweep, watched>>

(* The ladder: remediate. *)

NextRung(j) ==
  /\ At(j, "ladder", "enter")
  /\ state' = [state EXCEPT ![job[j].inst] = "remediating"]
  /\ Goto(j, "wait")
  /\ UNCHANGED <<proc, marks, sweep, watched, report>>

\* The backoff is over: the rotation window opens and the rung's work starts.
BeginRung(j) ==
  /\ At(j, "ladder", "wait")
  /\ BeginRotation(job[j].inst)
  /\ Goto(j, "newnym") \/ Goto(j, "stop")
  /\ UNCHANGED <<state, proc, remediating, quiet, sweep, watched, report>>

\* A NEWNYM fails when tor is gone, and may fail when it is not.
NewnymOutcome(i) ==
  {ok \in BOOLEAN : (ok => proc[i] # "down") /\ (~ok => proc[i] = "down" \/ "error" \in Faults)}

EndNewnym(j) ==
  LET i == job[j].inst
  IN  /\ At(j, "ladder", "newnym")
      /\ EndRotation(i)
      /\ \E ok \in NewnymOutcome(i) : Goto(j, IF ok THEN "settle" ELSE "leave")
      /\ UNCHANGED <<state, proc, remediating, sweep, watched, report>>

\* settleExit is over: the instance is back on probation.
Remediated(j) ==
  /\ At(j, "ladder", "settle")
  /\ state' = [state EXCEPT ![job[j].inst] = "probation"]
  /\ Goto(j, "leave")
  /\ UNCHANGED <<proc, marks, sweep, watched, report>>

\* The deferred end of the ladder's and of the watchdog's goroutine.
Unflag(j) ==
  /\ job[j].pc = "leave"
  /\ remediating' = remediating \ {job[j].inst}
  /\ Ends(j)
  /\ UNCHANGED <<state, proc, rotating, quiet, sweep, watched, report>>

(* The watchdog: superviseProcesses and restartUnhealthy. *)

\* Mutant: an instance the ladder has taken out is left to the ladder.
WatchInService(i) ==
  /\ watched = None
  /\ state[i] \notin {"quarantined", "remediating"}
  /\ \/ proc[i] = "down" /\ ~Starting(i)
     \/ proc[i] \in {"stalled", "left"}
  /\ watched' = i
  /\ UNCHANGED <<state, proc, marks, sweep, job, report>>

\* The process is dead and nothing is launching it, or its bootstrap has made
\* no progress for BOOTSTRAP_STALL_TIMEOUT.  A tor that had bootstrapped before a
\* Stop failed is neither.
Watch(i) ==
  /\ watched = None
  /\ \/ proc[i] = "down" /\ ~Starting(i)
     \/ proc[i] \in {"stalled", "left"}
  /\ watched' = i
  /\ UNCHANGED <<state, proc, marks, sweep, job, report>>

\* Unless a remediation is under way, the instance is flagged.
ClaimRestart ==
  /\ watched # None
  /\ watched' = None
  /\ \/ watched \in remediating /\ UNCHANGED <<remediating, job>>
     \/ /\ watched \notin remediating
        /\ remediating' = remediating \cup {watched}
        /\ Spawn("watchdog", watched, "enter")
  /\ UNCHANGED <<state, proc, rotating, quiet, sweep, report>>

(* Restarts: the ladder's, the watchdog's and RestartInstance's. *)

OperatorRestart(i) ==
  /\ Operators
  /\ Spawn("operator", i, "enter")
  /\ UNCHANGED <<state, proc, marks, sweep, watched, report>>

\* restartUnhealthy and RestartInstance, up to the call of Restart.
BeginRestart(j) ==
  LET i == job[j].inst
  IN  /\ At(j, "watchdog", "enter") \/ At(j, "operator", "enter")
      /\ state' = [state EXCEPT ![i] = "starting"]
      /\ Goto(j, "stop")
      /\ UNCHANGED <<proc, marks, sweep, watched, report>>

\* Mutant: remediate returns on an error before it has ended the rotation.
AfterRestartLeaking(j, ok) ==
  /\ CASE job[j].kind = "ladder"          -> Goto(j, IF ok THEN "settle" ELSE "leave")
       [] job[j].kind = "watchdog"        -> Goto(j, IF ok THEN "release" ELSE "leave")
       [] job[j].kind = "operator" /\ ok  -> Goto(j, "release")
       [] OTHER                           -> Ends(j)
  /\ IF job[j].kind = "ladder" /\ ok THEN EndRotation(job[j].inst)
                                      ELSE UNCHANGED <<rotating, quiet>>

\* Mutant: the watchdog returns on an error without giving the flag back.
AfterRestartForgetting(j, ok) ==
  /\ CASE job[j].kind = "ladder"          -> Goto(j, IF ok THEN "settle" ELSE "leave")
       [] job[j].kind = "watchdog" /\ ok  -> Goto(j, "release")
       [] job[j].kind = "operator" /\ ok  -> Goto(j, "release")
       [] OTHER                           -> Ends(j)
  /\ IF job[j].kind = "ladder" THEN EndRotation(job[j].inst)
                                ELSE UNCHANGED <<rotating, quiet>>

\* Mutant: every restart that works goes on as the ladder's does.
AfterRestartSettling(j, ok) ==
  /\ CASE ok                      -> Goto(j, "settle")
       [] job[j].kind = "ladder"  -> Goto(j, "leave")
       [] OTHER                   -> Ends(j)
  /\ IF job[j].kind = "ladder" THEN EndRotation(job[j].inst)
                                ELSE UNCHANGED <<rotating, quiet>>

\* What each caller does once Restart has returned.
AfterRestart(j, ok) ==
  /\ CASE job[j].kind = "ladder"          -> Goto(j, IF ok THEN "settle" ELSE "leave")
       [] job[j].kind = "watchdog"        -> Goto(j, IF ok THEN "release" ELSE "leave")
       [] job[j].kind = "operator" /\ ok  -> Goto(j, "release")
       [] OTHER                           -> Ends(j)
  /\ IF job[j].kind = "ladder" THEN EndRotation(job[j].inst)
                                ELSE UNCHANGED <<rotating, quiet>>

\* Restart stops whatever process there is, without startMu.  Signalling it may
\* fail, which leaves it running but not ready.
StopTor(j) ==
  LET i == job[j].inst
  IN  /\ job[j].pc = "stop"
      /\ \/ /\ proc' = [proc EXCEPT ![i] = "down"]
            /\ Goto(j, "lock")
            /\ UNCHANGED <<rotating, quiet>>
         \/ /\ "error" \in Faults /\ proc[i] # "down"
            /\ proc' = [proc EXCEPT ![i] = IF @ = "up" THEN "unready" ELSE @]
            /\ AfterRestart(j, FALSE)
      /\ UNCHANGED <<state, remediating, sweep, watched, report>>

\* Restart holds startMu and launches a new process, unless it cannot wipe the state
\* of the old one.
LaunchTor(j) ==
  LET i == job[j].inst
  IN  /\ job[j].pc = "lock"
      /\ ~Starting(i)
      /\ \/ /\ proc' = [proc EXCEPT ![i] = "starting"]
            /\ Goto(j, "boot")
            /\ UNCHANGED <<rotating, quiet>>
         \/ /\ "error" \in Faults
            /\ AfterRestart(j, FALSE)
            /\ UNCHANGED proc
      /\ UNCHANGED <<state, remediating, sweep, watched, report>>

\* The launch sequence returns: tor has bootstrapped, has failed to start, or
\* was stopped.  While the bootstrap is stalled it need not return.
EndBoot(j) ==
  LET i == job[j].inst
  IN  /\ job[j].pc = "boot"
      /\ \/ /\ proc[i] = "starting"
            /\ proc' = [proc EXCEPT ![i] = "up"]
            /\ AfterRestart(j, TRUE)
         \/ /\ proc[i] = "down" \/ (proc[i] = "starting" /\ "error" \in Faults)
            /\ proc' = [proc EXCEPT ![i] = "down"]
            /\ AfterRestart(j, FALSE)
      /\ UNCHANGED <<state, remediating, sweep, watched, report>>

\* The control port fails a bootstrap poll of a tor that runs.
LoseBoot(j) ==
  LET i == job[j].inst
  IN  /\ job[j].pc = "boot"
      /\ "error" \in Faults
      /\ proc[i] \in {"starting", "stalled"}
      /\ proc' = [proc EXCEPT ![i] = "left"]
      /\ AfterRestart(j, FALSE)
      /\ UNCHANGED <<state, remediating, sweep, watched, report>>

\* The watchdog's and the operator's restart worked: release.
Restarted(j) ==
  /\ job[j].pc = "release"
  /\ state' = [state EXCEPT ![job[j].inst] = "healthy"]
  /\ IF job[j].kind = "watchdog" THEN Goto(j, "leave") ELSE Ends(j)
  /\ UNCHANGED <<proc, marks, sweep, watched, report>>

(* Rotations. *)

\* Mutant: beginRotation where beginRotationExclusive is meant.
MayQuiesceStacking(i) == proc[i] = "up"

\* quiesceForRotation gets past its checks: ready, and not rotating already.
MayQuiesce(i) == proc[i] = "up" /\ rotating[i] = 0

\* StartRotateInstance, for an operator or for RotateSession.
StartRotate(i) ==
  /\ Operators
  /\ MayQuiesce(i)
  /\ BeginRotation(i)
  /\ Spawn("rotation", i, "newnym")
  /\ UNCHANGED <<state, proc, remediating, quiet, sweep, watched, report>>

\* RotateAll: started unless it is running.
StartSweep ==
  /\ Operators
  /\ ~sweeping
  /\ sweeping' = TRUE
  /\ todo' = Instance
  /\ UNCHANGED <<state, proc, marks, watched, job, report>>

\* RotateAll's loop: RotateInstance returns at once when the instance is not
\* ready or is rotating already.
SweepNext(i) ==
  /\ i \in todo
  /\ \A j \in Job : job[j].kind # "sweep"
  /\ todo' = todo \ {i}
  /\ \/ ~MayQuiesce(i) /\ UNCHANGED <<rotating, job>>
     \/ MayQuiesce(i) /\ BeginRotation(i) /\ Spawn("sweep", i, "newnym")
  /\ UNCHANGED <<state, proc, remediating, quiet, sweeping, watched, report>>

EndSweep ==
  /\ sweeping /\ todo = {}
  /\ \A j \in Job : job[j].kind # "sweep"
  /\ sweeping' = FALSE
  /\ UNCHANGED <<state, proc, marks, todo, watched, job, report>>

\* finishRotation returned, with an error or without: endRotation is deferred.
FinishRotation(j) ==
  /\ job[j].kind \in {"rotation", "sweep"}
  /\ EndRotation(job[j].inst)
  /\ Ends(j)
  /\ UNCHANGED <<state, proc, remediating, sweep, watched, report>>

(* Operators. *)

QuarantineInstance(i) ==
  /\ Operators
  /\ state' = [state EXCEPT ![i] = "quarantined"]
  /\ UNCHANGED <<proc, marks, sweep, watched, job, report>>

ReleaseInstance(i) ==
  /\ Operators
  /\ state' = [state EXCEPT ![i] = "healthy"]
  /\ UNCHANGED <<proc, marks, sweep, watched, job, report>>

(* The environment. *)

\* A tor process dies.
Crash(i) ==
  /\ "crash" \in Faults
  /\ proc[i] # "down"
  /\ proc' = [proc EXCEPT ![i] = "down"]
  /\ UNCHANGED <<state, marks, sweep, watched, job, report>>

\* A bootstrap stops making progress.
Stall(i) ==
  /\ "stall" \in Faults
  /\ proc[i] = "starting"
  /\ proc' = [proc EXCEPT ![i] = "stalled"]
  /\ UNCHANGED <<state, marks, sweep, watched, job, report>>

\* quietUntil passes.
GraceEnds(i) ==
  /\ i \in quiet
  /\ quiet' = quiet \ {i}
  /\ UNCHANGED <<state, proc, remediating, rotating, sweep, watched, job, report>>

-----------------------------------------------------------------------------

JobStep(j) ==
  \/ NextRung(j)
  \/ BeginRung(j)
  \/ EndNewnym(j)
  \/ Remediated(j)
  \/ Unflag(j)
  \/ BeginRestart(j)
  \/ StopTor(j)
  \/ LaunchTor(j)
  \/ EndBoot(j)
  \/ Restarted(j)
  \/ FinishRotation(j)

ReportStep(r) == ScoreFailure(r) \/ StartRemediation(r)

SweepStep == EndSweep \/ \E i \in Instance : SweepNext(i)

Next ==
  \/ \E j \in Job : JobStep(j) \/ LoseBoot(j)
  \/ \E r \in Reporter : ReportStep(r)
  \/ SweepStep
  \/ ClaimRestart
  \/ StartSweep
  \/ \E i \in Instance :
       \/ MarkReady(i)
       \/ RecordSuccess(i)
       \/ \E r \in Reporter : ReportFailure(r, i)
       \/ Watch(i)
       \/ OperatorRestart(i)
       \/ StartRotate(i)
       \/ QuarantineInstance(i)
       \/ ReleaseInstance(i)
       \/ Crash(i)
       \/ Stall(i)
       \/ GraceEnds(i)

\* The scheduler runs every goroutine that can take a step, a mutex that is
\* released again and again reaches every goroutine that waits for it, NEWNYM
\* and the control dial are bounded by deadlines, and the supervision ticker
\* keeps ticking.  Nothing bounds a bootstrap that has stalled, nothing makes its
\* polls fail, and nothing makes an operator act.
Fairness ==
  /\ \A j \in Job : WF_vars(JobStep(j)) /\ SF_vars(LaunchTor(j))
  /\ \A r \in Reporter : WF_vars(ReportStep(r))
  /\ \A i \in Instance : WF_vars(Watch(i))
  /\ WF_vars(SweepStep)
  /\ WF_vars(ClaimRestart)

Spec == Init /\ [][Next]_vars

FairSpec == Spec /\ Fairness

-----------------------------------------------------------------------------
(* Properties.                                                             *)

\* Types; every goroutine is at a point its kind passes through: a restart goes on
\* as its own caller does, whoever launched tor (remediate.go).
TypeOK ==
  /\ state \in [Instance -> HS!States]
  /\ proc \in [Instance -> {"up", "starting", "stalled", "left", "unready", "down"}]
  /\ remediating \subseteq Instance
  /\ rotating \in [Instance -> Nat]
  /\ quiet \subseteq Instance
  /\ sweeping \in BOOLEAN
  /\ todo \subseteq Instance
  /\ watched \in Instance \cup {None}
  /\ job \in [Job -> Jobs]
  /\ report \in [Reporter -> Reports]

\* Two remediations never run on one instance: a ladder or a watchdog restart
\* runs only under the flag, and no two run under the same one (pool.go, the
\* comment on remediating).
OneRemediationPerInstance ==
  \A i \in Instance : \A j, k \in Job :
    Flagged(j, i) /\ Flagged(k, i) => j = k /\ i \in remediating

\* A rotation mark is up exactly while someone rotates the instance: the count
\* is the number of goroutines that hold a mark, so the first to finish does
\* not clear another's and none is left behind (pool.go beginRotation).
MarksAreHeld ==
  \A i \in Instance : rotating[i] = Cardinality({j \in Job : Holds(j, i)})

\* A ladder or a watchdog restart gives its flag back, whichever of its steps
\* fails and whoever restarts the instance under it, unless a bootstrap stalls
\* (remediate.go startRemediation, restartUnhealthy).
FlagComesDown ==
  \A i \in Instance :
    i \in remediating ~> (i \notin remediating \/ proc[i] = "stalled")

\* Rotations by operators, sweeps and ladders may overlap, but never so that
\* the instance is shunned for good: again and again it has no mark at all
\* (remediate.go quiesceForRotation, pool.go endRotation).
MarkComesDown ==
  \A i \in Instance : []<>(rotating[i] = 0 \/ proc[i] = "stalled")

\* A dead tor is not forgotten, whatever state its health is in and whoever
\* gave up on it: someone always comes to restart it, unless operators release
\* the instance for ever, each time a ladder has given up on it (remediate.go
\* superviseProcesses).
DeadTorIsRestarted ==
  <>[][\A i \in Instance : ~ReleaseInstance(i)]_vars =>
    \A i \in Instance :
      proc[i] = "down" ~>
        \/ proc[i] # "down"
        \/ \E j \in Job : job[j].inst = i /\ job[j].pc \in RestartPcs

\* What remediate.go says of a ladder that has failed: "Leave it quarantined; the next
\* failure or operator action escalates".
FailureEscalates ==
  [][\A r \in Reporter : LET i == report[r].inst IN
       ScoreFailure(r) /\ state[i] = "remediating" /\ i \notin remediating
       => report'[r].pc = "start"]_vars

\* What docs/operations.md says of quarantined and remediating instances: "The
\* pool recovers on its own once the ladder finishes".
RecoversOnItsOwn ==
  \A i \in Instance :
    state[i] \in {"quarantined", "remediating"}
      ~> state[i] \notin {"quarantined", "remediating"}
=============================================================================
