-------------------------- MODULE RemediationProofs --------------------------
(* What Remediation promises, for any number of instances, goroutines and   *)
(* reports, whatever tor and the operators do.                              *)
EXTENDS Remediation, FiniteSetTheorems, TLAPS

(***************************************************************************)
(* Goroutines.                                                             *)
(***************************************************************************)

\* What a goroutine may become, by kind.
LEMMA JobsByKind ==
  ASSUME NEW k \in JobKinds, NEW i \in Instance, NEW pc \in JobPc(k)
  PROVE  [kind |-> k, inst |-> i, pc |-> pc] \in Jobs
  BY DEF Jobs

\* What is known of a goroutine that is doing something.
LEMMA BusyJob ==
  ASSUME NEW r \in Jobs, r # Idle
  PROVE  /\ r.kind \in JobKinds
         /\ r.inst \in Instance
         /\ r.pc \in JobPc(r.kind)
         /\ r = [kind |-> r.kind, inst |-> r.inst, pc |-> r.pc]
  BY DEF Jobs

\* The goroutine of the idle kind does nothing.
LEMMA IdleJob ==
  ASSUME NEW r \in Jobs
  PROVE  (r.kind = "none" <=> r = Idle) /\ (r.pc = "idle" <=> r = Idle)
  BY DEF Jobs, Idle, JobKinds, JobPc, RestartPcs

\* A goroutine goes on.
LEMMA GotoType ==
  ASSUME job \in [Job -> Jobs], NEW j \in Job, job[j] # Idle,
         NEW pc \in JobPc(job[j].kind), Goto(j, pc)
  PROVE  job' \in [Job -> Jobs]
<1>1. [job[j] EXCEPT !.pc = pc] = [kind |-> job[j].kind, inst |-> job[j].inst, pc |-> pc]
  BY BusyJob
<1>2. [job[j] EXCEPT !.pc = pc] \in Jobs
  BY <1>1, BusyJob, JobsByKind
<1>3. job' = [job EXCEPT ![j] = [job[j] EXCEPT !.pc = pc]]
  BY DEF Goto
<1> QED
  BY <1>2, <1>3

\* A goroutine ends.
LEMMA EndsType ==
  ASSUME job \in [Job -> Jobs], NEW j \in Job, Ends(j)
  PROVE  job' \in [Job -> Jobs]
  BY DEF Ends, Jobs

\* A goroutine starts.
LEMMA SpawnType ==
  ASSUME job \in [Job -> Jobs], NEW k \in JobKinds, NEW i \in Instance,
         NEW pc \in JobPc(k), Spawn(k, i, pc)
  PROVE  job' \in [Job -> Jobs]
  BY JobsByKind DEF Spawn

\* What the code does after a restart is something the goroutine can do.
LEMMA AfterRestartType ==
  ASSUME TypeOK, NEW j \in Job, job[j].pc \in RestartPcs,
         NEW ok \in BOOLEAN, AfterRestart(j, ok)
  PROVE  /\ job' \in [Job -> Jobs]
         /\ rotating' \in [Instance -> Nat]
         /\ quiet' \subseteq Instance
<1>1. job \in [Job -> Jobs] /\ job[j] # Idle
  BY DEF TypeOK, RestartPcs, Idle
<1>2. job[j].inst \in Instance /\ job[j].kind \in JobKinds
  BY <1>1, BusyJob
<1>3. job' \in [Job -> Jobs]
  <2>1. CASE job[j].kind = "ladder"
    <3>1. Goto(j, "settle") \/ Goto(j, "leave")
      BY <2>1 DEF AfterRestart
    <3>2. "settle" \in JobPc(job[j].kind) /\ "leave" \in JobPc(job[j].kind)
      BY <2>1 DEF JobPc
    <3> QED
      BY <1>1, <3>1, <3>2, GotoType
  <2>2. CASE job[j].kind = "watchdog"
    <3>1. Goto(j, "release") \/ Goto(j, "leave")
      BY <2>2 DEF AfterRestart
    <3>2. "release" \in JobPc(job[j].kind) /\ "leave" \in JobPc(job[j].kind)
      BY <2>2 DEF JobPc
    <3> QED
      BY <1>1, <3>1, <3>2, GotoType
  <2>3. CASE job[j].kind = "operator" /\ ok
    <3>1. Goto(j, "release") /\ "release" \in JobPc(job[j].kind)
      BY <2>3 DEF AfterRestart, JobPc
    <3> QED
      BY <1>1, <3>1, GotoType
  <2>4. CASE job[j].kind \notin {"ladder", "watchdog"} /\ ~(job[j].kind = "operator" /\ ok)
    <3>1. Ends(j)
      BY <2>4 DEF AfterRestart
    <3> QED
      BY <1>1, <3>1, EndsType
  <2> QED
    BY <2>1, <2>2, <2>3, <2>4
<1>4. rotating' \in [Instance -> Nat] /\ quiet' \subseteq Instance
  BY <1>2 DEF AfterRestart, EndRotation, TypeOK
<1> QED
  BY <1>3, <1>4

(***************************************************************************)
(* Types.                                                                  *)
(***************************************************************************)

\* Every variable keeps its type; for the goroutines it says what each kind of
\* goroutine can be in the middle of.
THEOREM TypeCorrect == Spec => []TypeOK
<1> USE RemediationAssumption
<1>1. Init => TypeOK
  <2> SUFFICES ASSUME Init PROVE TypeOK
    OBVIOUS
  <2>1. job \in [Job -> Jobs]
    <3>1. \A i \in Instance : [kind |-> "launch", inst |-> i, pc |-> "boot"] \in Jobs
      BY JobsByKind DEF JobKinds, JobPc
    <3>2. {Idle} \cup [kind : {"launch"}, inst : Instance, pc : {"boot"}] \subseteq Jobs
      BY <3>1 DEF Jobs
    <3> QED
      BY <3>2 DEF Init
  <2>2. report \in [Reporter -> Reports]
    BY DEF Init, Reports
  <2>3. state \in [Instance -> HS!States]
    BY DEF Init, HS!States
  <2> QED
    BY <2>1, <2>2, <2>3 DEF Init, TypeOK
<1>2. TypeOK /\ [Next]_vars => TypeOK'
  <2> SUFFICES ASSUME TypeOK, [Next]_vars PROVE TypeOK'
    OBVIOUS
  <2>0. job \in [Job -> Jobs]
    BY DEF TypeOK
  <2> USE DEF marks, sweep
  <2>1. ASSUME NEW i \in Instance, MarkReady(i) PROVE TypeOK'
    BY <2>1 DEF MarkReady, HS!AfterMarkReady, HS!States, TypeOK
  <2>2. ASSUME NEW i \in Instance, RecordSuccess(i) PROVE TypeOK'
    <3>1. state' \in [Instance -> HS!States]
      BY <2>2 DEF RecordSuccess, HS!AfterSuccess, HS!AfterClearProbation, HS!States,
         TypeOK
    <3> QED
      BY <2>2, <3>1 DEF RecordSuccess, TypeOK
  <2>3. ASSUME NEW r \in Reporter, NEW i \in Instance, ReportFailure(r, i) PROVE TypeOK'
    <3>1. report' \in [Reporter -> Reports]
      BY <2>3 DEF ReportFailure, Reports, TypeOK
    <3> QED
      BY <2>3, <3>1 DEF ReportFailure, TypeOK
  <2>4. ASSUME NEW r \in Reporter, ScoreFailure(r) PROVE TypeOK'
    <3>1. report[r].inst \in Instance
      BY <2>4 DEF ScoreFailure, Reports, TypeOK
    <3>2. state' \in [Instance -> HS!States]
      BY <2>4, <3>1 DEF ScoreFailure, TypeOK
    <3>3. report' \in [Reporter -> Reports]
      BY <2>4, <3>1 DEF ScoreFailure, Reports, TypeOK
    <3> QED
      BY <2>4, <3>2, <3>3 DEF ScoreFailure, TypeOK
  <2>5. ASSUME NEW r \in Reporter, StartRemediation(r) PROVE TypeOK'
    <3>1. report[r].inst \in Instance
      BY <2>5 DEF StartRemediation, Reports, TypeOK
    <3>2. report' \in [Reporter -> Reports]
      BY <2>5 DEF StartRemediation, Reports, TypeOK
    <3>3. job' \in [Job -> Jobs]
      BY <2>5, <2>0, <3>1, SpawnType DEF StartRemediation, JobKinds, JobPc
    <3> QED
      BY <2>5, <3>1, <3>2, <3>3 DEF StartRemediation, TypeOK
  <2>6. ASSUME NEW j \in Job, NextRung(j) PROVE TypeOK'
    <3>1. job[j] # Idle /\ job[j].inst \in Instance
      BY <2>6, <2>0, BusyJob DEF NextRung, At, Idle
    <3>2. job' \in [Job -> Jobs]
      BY <2>6, <2>0, <3>1, GotoType DEF NextRung, At, JobPc
    <3> QED
      BY <2>6, <3>1, <3>2 DEF NextRung, HS!States, TypeOK
  <2>7. ASSUME NEW j \in Job, BeginRung(j) PROVE TypeOK'
    <3>1. job[j] # Idle /\ job[j].inst \in Instance
      BY <2>7, <2>0, BusyJob DEF BeginRung, At, Idle
    <3>2. job' \in [Job -> Jobs]
      BY <2>7, <2>0, <3>1, GotoType DEF BeginRung, At, JobPc, RestartPcs
    <3> QED
      BY <2>7, <3>1, <3>2 DEF BeginRung, BeginRotation, TypeOK
  <2>8. ASSUME NEW j \in Job, EndNewnym(j) PROVE TypeOK'
    <3>1. job[j] # Idle /\ job[j].inst \in Instance
      BY <2>8, <2>0, BusyJob DEF EndNewnym, At, Idle
    <3>2. job' \in [Job -> Jobs]
      BY <2>8, <2>0, <3>1, GotoType DEF EndNewnym, At, JobPc
    <3> QED
      BY <2>8, <3>1, <3>2 DEF EndNewnym, EndRotation, TypeOK
  <2>9. ASSUME NEW j \in Job, Remediated(j) PROVE TypeOK'
    <3>1. job[j] # Idle /\ job[j].inst \in Instance
      BY <2>9, <2>0, BusyJob DEF Remediated, At, Idle
    <3>2. job' \in [Job -> Jobs]
      BY <2>9, <2>0, <3>1, GotoType DEF Remediated, At, JobPc
    <3> QED
      BY <2>9, <3>1, <3>2 DEF Remediated, HS!States, TypeOK
  <2>10. ASSUME NEW j \in Job, Unflag(j) PROVE TypeOK'
    <3>1. job' \in [Job -> Jobs]
      BY <2>10, <2>0, EndsType DEF Unflag
    <3> QED
      BY <2>10, <3>1 DEF Unflag, TypeOK
  <2>11. ASSUME NEW i \in Instance, Watch(i) PROVE TypeOK'
    BY <2>11 DEF Watch, TypeOK
  <2>12. ASSUME ClaimRestart PROVE TypeOK'
    <3>1. watched \in Instance
      BY <2>12 DEF ClaimRestart, TypeOK
    <3>2. job' \in [Job -> Jobs]
      BY <2>12, <2>0, <3>1, SpawnType DEF ClaimRestart, JobKinds, JobPc
    <3> QED
      BY <2>12, <3>1, <3>2 DEF ClaimRestart, TypeOK
  <2>13. ASSUME NEW i \in Instance, OperatorRestart(i) PROVE TypeOK'
    <3>1. job' \in [Job -> Jobs]
      BY <2>13, <2>0, SpawnType DEF OperatorRestart, JobKinds, JobPc, RestartPcs
    <3> QED
      BY <2>13, <3>1 DEF OperatorRestart, TypeOK
  <2>14. ASSUME NEW j \in Job, BeginRestart(j) PROVE TypeOK'
    <3>1. job[j] # Idle /\ job[j].inst \in Instance
      BY <2>14, <2>0, BusyJob DEF BeginRestart, At, Idle
    <3>2. job' \in [Job -> Jobs]
      BY <2>14, <2>0, <3>1, GotoType DEF BeginRestart, At, JobPc, RestartPcs
    <3> QED
      BY <2>14, <3>1, <3>2 DEF BeginRestart, HS!States, TypeOK
  <2>15. ASSUME NEW j \in Job, StopTor(j) PROVE TypeOK'
    <3>1. job[j] # Idle /\ job[j].inst \in Instance /\ job[j].kind \in JobKinds
          /\ job[j].pc \in JobPc(job[j].kind)
      BY <2>15, <2>0, BusyJob DEF StopTor, Idle
    <3>2. CASE /\ AfterRestart(j, FALSE)
               /\ proc' = [proc EXCEPT ![job[j].inst] = IF @ = "up" THEN "unready" ELSE @]
      <4>1. /\ job' \in [Job -> Jobs] /\ rotating' \in [Instance -> Nat]
            /\ quiet' \subseteq Instance
        BY <2>15, <3>2, AfterRestartType DEF StopTor, RestartPcs
      <4> QED
        BY <2>15, <3>1, <3>2, <4>1 DEF StopTor, TypeOK
    <3>3. CASE Goto(j, "lock") /\ UNCHANGED <<rotating, quiet>>
               /\ proc' = [proc EXCEPT ![job[j].inst] = "down"]
      <4>1. "lock" \in JobPc(job[j].kind)
        BY <2>15, <3>1 DEF StopTor, JobKinds, JobPc, RestartPcs
      <4>2. job' \in [Job -> Jobs]
        BY <2>0, <3>1, <3>3, <4>1, GotoType
      <4> QED
        BY <2>15, <3>1, <3>3, <4>2 DEF StopTor, TypeOK
    <3> QED
      BY <2>15, <3>2, <3>3 DEF StopTor
  <2>16. ASSUME NEW j \in Job, LaunchTor(j) PROVE TypeOK'
    <3>1. job[j] # Idle /\ job[j].inst \in Instance /\ job[j].kind \in JobKinds
          /\ job[j].pc \in JobPc(job[j].kind)
      BY <2>16, <2>0, BusyJob DEF LaunchTor, Idle
    <3>2. CASE Goto(j, "boot") /\ UNCHANGED <<rotating, quiet>>
               /\ proc' = [proc EXCEPT ![job[j].inst] = "starting"]
      <4>1. "boot" \in JobPc(job[j].kind)
        BY <2>16, <3>1 DEF LaunchTor, JobKinds, JobPc, RestartPcs
      <4>2. job' \in [Job -> Jobs]
        BY <2>0, <3>1, <3>2, <4>1, GotoType
      <4> QED
        BY <2>16, <3>1, <3>2, <4>2 DEF LaunchTor, TypeOK
    <3>3. CASE AfterRestart(j, FALSE) /\ UNCHANGED proc
      <4>1. /\ job' \in [Job -> Jobs] /\ rotating' \in [Instance -> Nat]
            /\ quiet' \subseteq Instance
        BY <2>16, <3>3, AfterRestartType DEF LaunchTor, RestartPcs
      <4>2. UNCHANGED <<state, proc, remediating, sweeping, todo, watched, report>>
        BY <2>16, <3>3 DEF LaunchTor
      <4> QED
        BY <4>1, <4>2 DEF TypeOK
    <3> QED
      BY <2>16, <3>2, <3>3 DEF LaunchTor
  <2>17. ASSUME NEW j \in Job, EndBoot(j) \/ LoseBoot(j) PROVE TypeOK'
    <3>1. job[j].inst \in Instance
      <4>1. job[j].pc = "boot"
        BY <2>17 DEF EndBoot, LoseBoot
      <4> QED
        BY <2>0, <4>1, BusyJob DEF Idle
    <3>2. PICK ok \in BOOLEAN : AfterRestart(j, ok)
      BY <2>17 DEF EndBoot, LoseBoot
    <3>3. /\ job' \in [Job -> Jobs] /\ rotating' \in [Instance -> Nat]
          /\ quiet' \subseteq Instance
      BY <2>17, <3>2, AfterRestartType DEF EndBoot, LoseBoot, RestartPcs
    <3> QED
      BY <2>17, <3>1, <3>3 DEF EndBoot, LoseBoot, TypeOK
  <2>18. ASSUME NEW j \in Job, Restarted(j) PROVE TypeOK'
    <3>1. job[j] # Idle /\ job[j].inst \in Instance
      BY <2>18, <2>0, BusyJob DEF Restarted, Idle
    <3>2. job' \in [Job -> Jobs]
      BY <2>18, <2>0, <3>1, GotoType, EndsType DEF Restarted, JobPc
    <3> QED
      BY <2>18, <3>1, <3>2 DEF Restarted, HS!States, TypeOK
  <2>19. ASSUME NEW i \in Instance, StartRotate(i) PROVE TypeOK'
    <3>1. job' \in [Job -> Jobs]
      BY <2>19, <2>0, SpawnType DEF StartRotate, JobKinds, JobPc, RestartPcs
    <3> QED
      BY <2>19, <3>1 DEF StartRotate, BeginRotation, TypeOK
  <2>20. ASSUME StartSweep PROVE TypeOK'
    BY <2>20 DEF StartSweep, TypeOK
  <2>21. ASSUME NEW i \in Instance, SweepNext(i) PROVE TypeOK'
    <3>1. job' \in [Job -> Jobs]
      BY <2>21, <2>0, SpawnType DEF SweepNext, JobKinds, JobPc
    <3> QED
      BY <2>21, <3>1 DEF SweepNext, BeginRotation, TypeOK
  <2>22. ASSUME EndSweep PROVE TypeOK'
    BY <2>22 DEF EndSweep, TypeOK
  <2>23. ASSUME NEW j \in Job, FinishRotation(j) PROVE TypeOK'
    <3>1. job[j].inst \in Instance
      BY <2>23, <2>0, BusyJob DEF FinishRotation, Idle
    <3>2. job' \in [Job -> Jobs]
      BY <2>23, <2>0, EndsType DEF FinishRotation
    <3> QED
      BY <2>23, <3>1, <3>2 DEF FinishRotation, EndRotation, TypeOK
  <2>24. ASSUME NEW i \in Instance, QuarantineInstance(i) PROVE TypeOK'
    BY <2>24 DEF QuarantineInstance, HS!States, TypeOK
  <2>25. ASSUME NEW i \in Instance, ReleaseInstance(i) PROVE TypeOK'
    BY <2>25 DEF ReleaseInstance, HS!States, TypeOK
  <2>26. ASSUME NEW i \in Instance, Crash(i) PROVE TypeOK'
    BY <2>26 DEF Crash, TypeOK
  <2>27. ASSUME NEW i \in Instance, Stall(i) PROVE TypeOK'
    BY <2>27 DEF Stall, TypeOK
  <2>28. ASSUME NEW i \in Instance, GraceEnds(i) PROVE TypeOK'
    BY <2>28 DEF GraceEnds, TypeOK
  <2>29. CASE UNCHANGED vars
    BY <2>29 DEF vars, TypeOK
  <2> QED
    BY <2>1, <2>2, <2>3, <2>4, <2>5, <2>6, <2>7, <2>8, <2>9, <2>10, <2>11, 
       <2>12, <2>13, <2>14, <2>15, <2>16, <2>17, <2>18, <2>19, <2>20, <2>21, 
       <2>22, <2>23, <2>24, <2>25, <2>26, <2>27, <2>28, <2>29
    DEF Next, JobStep, ReportStep, SweepStep
<1> QED
  BY <1>1, <1>2, PTL DEF Spec
(***************************************************************************)
(* The remediating flag.                                                   *)
(***************************************************************************)

\* The goroutines that run under a flag.
UnderFlag(r) == r.kind \in {"ladder", "watchdog"}

\* Nobody has come under a flag, or changed instance under one.
NoNewFlag ==
  \A j \in Job : UnderFlag(job'[j]) =>
    UnderFlag(job[j]) /\ job'[j].inst = job[j].inst

\* A step that brings nobody under a flag and takes no flag away is harmless.
LEMMA NoNewFlagIsHarmless ==
  ASSUME OneRemediationPerInstance, NoNewFlag, remediating \subseteq remediating'
  PROVE  OneRemediationPerInstance'
  BY DEF OneRemediationPerInstance, NoNewFlag, Flagged, UnderFlag

\* A goroutine that goes on or ends brings nobody under a flag.
LEMMA StepNoNewFlag ==
  ASSUME job \in [Job -> Jobs], NEW j \in Job, NEW pc, Goto(j, pc) \/ Ends(j)
  PROVE  NoNewFlag
<1>1. CASE Goto(j, pc)
  <2>1. job' = [job EXCEPT ![j] = [job[j] EXCEPT !.pc = pc]]
    BY <1>1 DEF Goto
  <2>2. /\ [job[j] EXCEPT !.pc = pc].kind = job[j].kind
        /\ [job[j] EXCEPT !.pc = pc].inst = job[j].inst
    BY DEF Jobs, Idle
  <2> QED
    BY <2>1, <2>2 DEF NoNewFlag, UnderFlag
<1>2. CASE Ends(j)
  BY <1>2 DEF Ends, Idle, NoNewFlag, UnderFlag
<1> QED
  BY <1>1, <1>2

\* Nor does a goroutine that starts as anything but a ladder or the watchdog's.
LEMMA SpawnNoNewFlag ==
  ASSUME job \in [Job -> Jobs], NEW k \in JobKinds \ {"ladder", "watchdog"},
         NEW i \in Instance, NEW pc, Spawn(k, i, pc)
  PROVE  NoNewFlag
  BY DEF Spawn, NoNewFlag, UnderFlag

\* A flag goes up for one goroutine, on an instance that had none.
LEMMA SpawnUnderFlag ==
  ASSUME job \in [Job -> Jobs], OneRemediationPerInstance,
         NEW k \in {"ladder", "watchdog"}, NEW i \in Instance,
         i \notin remediating, remediating' = remediating \cup {i},
         Spawn(k, i, "enter")
  PROVE  OneRemediationPerInstance'
<1>1. PICK j \in Job :
        /\ job[j] = Idle
        /\ job' = [job EXCEPT ![j] = [kind |-> k, inst |-> i, pc |-> "enter"]]
  BY DEF Spawn
<1>2. \A l \in Job \ {j} : job'[l] = job[l]
  BY <1>1
<1>3. \A l \in Job : UnderFlag(job[l]) /\ job[l].inst \in Instance
                       => job[l].inst \in remediating
  BY DEF OneRemediationPerInstance, Flagged, UnderFlag
<1>4. \A l \in Job : ~Flagged(l, i)
  BY <1>3 DEF Flagged, UnderFlag
<1> QED
  BY <1>1, <1>2, <1>4 DEF OneRemediationPerInstance, Flagged

\* Two remediations never run on one instance.
THEOREM RemediationsAreExclusive == Spec => []OneRemediationPerInstance
<1> USE RemediationAssumption
<1>1. Init => OneRemediationPerInstance
  <2> SUFFICES ASSUME Init PROVE OneRemediationPerInstance
    OBVIOUS
  <2>1. \A j \in Job : job[j].kind \in {"none", "launch"}
    BY DEF Init, Idle
  <2> QED
    BY <2>1 DEF OneRemediationPerInstance, Flagged
<1>2. TypeOK /\ OneRemediationPerInstance /\ [Next]_vars => OneRemediationPerInstance'
  <2> SUFFICES ASSUME TypeOK, OneRemediationPerInstance, [Next]_vars
               PROVE  OneRemediationPerInstance'
    OBVIOUS
  <2>0. job \in [Job -> Jobs]
    BY DEF TypeOK
  <2> USE DEF marks, sweep
  <2>1. ASSUME NEW r \in Reporter, StartRemediation(r)
        PROVE  OneRemediationPerInstance'
    <3>1. report[r].inst \in Instance
      BY <2>1 DEF StartRemediation, Reports, TypeOK
    <3>2. CASE UNCHANGED <<remediating, job>>
      BY <3>2, NoNewFlagIsHarmless DEF NoNewFlag
    <3>3. CASE ~UNCHANGED <<remediating, job>>
      BY <2>0, <2>1, <3>1, <3>3, SpawnUnderFlag DEF StartRemediation
    <3> QED
      BY <3>2, <3>3
  <2>2. CASE ClaimRestart
    <3>1. watched \in Instance
      BY <2>2 DEF ClaimRestart, TypeOK
    <3>2. CASE UNCHANGED <<remediating, job>>
      BY <3>2, NoNewFlagIsHarmless DEF NoNewFlag
    <3>3. CASE ~UNCHANGED <<remediating, job>>
      BY <2>0, <2>2, <3>1, <3>3, SpawnUnderFlag DEF ClaimRestart
    <3> QED
      BY <3>2, <3>3
  <2>3. ASSUME NEW j \in Job, Unflag(j) PROVE OneRemediationPerInstance'
    <3>1. job[j] # Idle /\ job[j].kind \in JobKinds /\ job[j].pc \in JobPc(job[j].kind)
      BY <2>0, <2>3, BusyJob DEF Unflag, Idle
    <3>2. Flagged(j, job[j].inst)
      BY <2>3, <3>1 DEF Unflag, Flagged, JobKinds, JobPc, RestartPcs
    <3>3. job[j].inst \in Instance
      BY <2>0, <3>1, BusyJob
    <3>4. \A k \in Job : Flagged(k, job[j].inst) => k = j
      BY <3>2, <3>3 DEF OneRemediationPerInstance
    <3>5. job' = [job EXCEPT ![j] = Idle] /\ remediating' = remediating \ {job[j].inst}
      BY <2>3 DEF Unflag, Ends
    <3>6. \A k \in Job, i \in Instance :
            Flagged(k, i)' => Flagged(k, i) /\ i # job[j].inst
      BY <2>0, <3>4, <3>5 DEF Flagged, Idle
    <3> QED
      BY <3>5, <3>6 DEF OneRemediationPerInstance
  <2>4. ASSUME NEW j \in Job, AfterRestart(j, TRUE) \/ AfterRestart(j, FALSE)
        PROVE  NoNewFlag
    BY <2>0, <2>4, StepNoNewFlag DEF AfterRestart
  <2>5. ASSUME NEW j \in Job,
               \/ NextRung(j) \/ BeginRung(j) \/ EndNewnym(j) \/ Remediated(j)
               \/ BeginRestart(j) \/ Restarted(j) \/ FinishRotation(j)
        PROVE  NoNewFlag /\ remediating' = remediating
    BY <2>0, <2>5, StepNoNewFlag
    DEF NextRung, BeginRung, EndNewnym, Remediated, BeginRestart,
        Restarted, FinishRotation
  <2>6. ASSUME NEW j \in Job, StopTor(j) \/ LaunchTor(j) \/ EndBoot(j) \/ LoseBoot(j)
        PROVE  NoNewFlag /\ remediating' = remediating
    BY <2>0, <2>4, <2>6, StepNoNewFlag DEF StopTor, LaunchTor, EndBoot, LoseBoot
  <2>7. ASSUME NEW i \in Instance, OperatorRestart(i) \/ StartRotate(i) \/ SweepNext(i)
        PROVE  NoNewFlag /\ remediating' = remediating
    <3>1. CASE UNCHANGED job
      BY <2>7, <3>1 DEF NoNewFlag, OperatorRestart, StartRotate, SweepNext
    <3>2. CASE ~UNCHANGED job
      BY <2>0, <2>7, <3>2, SpawnNoNewFlag
      DEF OperatorRestart, StartRotate, SweepNext, JobKinds
    <3> QED
      BY <3>1, <3>2
  <2>8. CASE UNCHANGED <<job, remediating>>
    BY <2>8 DEF OneRemediationPerInstance, Flagged
  <2>9. ASSUME NEW i \in Instance,
               \/ MarkReady(i) \/ RecordSuccess(i) \/ Watch(i)
               \/ \E r \in Reporter : ReportFailure(r, i)
               \/ QuarantineInstance(i) \/ ReleaseInstance(i)
               \/ Crash(i) \/ Stall(i) \/ GraceEnds(i)
        PROVE  UNCHANGED <<job, remediating>>
    BY <2>9 DEF MarkReady, RecordSuccess, Watch, ReportFailure, QuarantineInstance,
       ReleaseInstance, Crash, Stall, GraceEnds
  <2>10. ASSUME \/ \E r \in Reporter : ScoreFailure(r)
                \/ StartSweep \/ EndSweep \/ UNCHANGED vars
         PROVE  UNCHANGED <<job, remediating>>
    BY <2>10 DEF ScoreFailure, StartSweep, EndSweep, vars
  <2> QED
    BY <2>1, <2>2, <2>3, <2>5, <2>6, <2>7, <2>8, <2>9, <2>10, NoNewFlagIsHarmless
    DEF Next, JobStep, ReportStep, SweepStep
<1> QED
  BY <1>1, <1>2, TypeCorrect, PTL DEF Spec

(***************************************************************************)
(* The rotation marks.                                                     *)
(***************************************************************************)

\* The goroutines that hold a mark on i.
Holders(i) == {j \in Job : Holds(j, i)}

\* Only j may have taken or given back a mark.
AllButKeep(j) ==
  \A k \in Job \ {j} : \A i \in Instance : Holds(k, i)' <=> Holds(k, i)

\* Neither has j.
Keeps(j) == \A i \in Instance : Holds(j, i)' <=> Holds(j, i)

\* j takes a mark on i.
Takes(j, i) ==
  /\ \A k \in Instance : ~Holds(j, k)
  /\ \A k \in Instance : Holds(j, k)' <=> k = i

\* j gives its mark on i back.
Returns(j, i) ==
  /\ \A k \in Instance : Holds(j, k) <=> k = i
  /\ \A k \in Instance : ~Holds(j, k)'

\* There are finitely many holders, as many as MarksAreHeld says.
LEMMA HoldersAreFinite == \A i \in Instance : IsFiniteSet(Holders(i))
<1> TAKE i \in Instance
<1>1. Holders(i) \in SUBSET Job
  BY DEF Holders
<1> QED
  BY <1>1, FS_Subset, RemediationAssumption

\* A step in which no mark changes hands.
LEMMA NoMarkMoves ==
  ASSUME MarksAreHeld, NEW j \in Job, AllButKeep(j), Keeps(j), UNCHANGED rotating
  PROVE  MarksAreHeld'
<1>1. \A i \in Instance : Holders(i)' = Holders(i)
  BY DEF Holders, AllButKeep, Keeps
<1> QED
  BY <1>1 DEF MarksAreHeld, Holders

\* A step in which one goroutine takes a mark.
LEMMA MarkTaken ==
  ASSUME TypeOK, MarksAreHeld, NEW j \in Job, NEW i \in Instance,
         AllButKeep(j), Takes(j, i), BeginRotation(i)
  PROVE  MarksAreHeld'
<1>1. Holders(i)' = Holders(i) \cup {j} /\ j \notin Holders(i)
  BY DEF Holders, AllButKeep, Takes
<1>2. \A k \in Instance \ {i} : Holders(k)' = Holders(k)
  BY DEF Holders, AllButKeep, Takes
<1>3. Cardinality(Holders(i)') = Cardinality(Holders(i)) + 1
  <2>1. IsFiniteSet(Holders(i))
    BY HoldersAreFinite
  <2> HIDE DEF Holders
  <2> QED
    BY <1>1, <2>1, FS_AddElement
<1>4. \A k \in Instance : rotating[k] = Cardinality(Holders(k))
  BY DEF MarksAreHeld, Holders
<1>5. rotating' = [rotating EXCEPT ![i] = @ + 1] /\ rotating \in [Instance -> Nat]
  BY DEF BeginRotation, TypeOK
<1>6. \A k \in Instance : rotating'[k] = Cardinality(Holders(k)')
  BY <1>2, <1>3, <1>4, <1>5
<1> QED
  BY <1>6 DEF MarksAreHeld, Holders

\* A step in which one goroutine gives its mark back: there was one, so the count
\* goes down by exactly one.
LEMMA MarkReturned ==
  ASSUME TypeOK, MarksAreHeld, NEW j \in Job, NEW i \in Instance,
         AllButKeep(j), Returns(j, i), EndRotation(i)
  PROVE  MarksAreHeld'
<1>1. Holders(i)' = Holders(i) \ {j} /\ j \in Holders(i)
  BY DEF Holders, AllButKeep, Returns
<1>2. \A k \in Instance \ {i} : Holders(k)' = Holders(k)
  BY DEF Holders, AllButKeep, Returns
<1>3. /\ Cardinality(Holders(i)') = Cardinality(Holders(i)) - 1
      /\ Cardinality(Holders(i)) \in Nat /\ Cardinality(Holders(i)') \in Nat
  <2>1. IsFiniteSet(Holders(i)) /\ IsFiniteSet(Holders(i) \ {j})
    BY HoldersAreFinite, FS_RemoveElement
  <2> HIDE DEF Holders
  <2> QED
    BY <1>1, <2>1, FS_RemoveElement, FS_CardinalityType
<1>4. \A k \in Instance : rotating[k] = Cardinality(Holders(k))
  BY DEF MarksAreHeld, Holders
<1>5. /\ rotating' = [rotating EXCEPT ![i] = IF @ <= 1 THEN 0 ELSE @ - 1]
      /\ rotating \in [Instance -> Nat]
  BY DEF EndRotation, TypeOK
<1>6. rotating'[i] = Cardinality(Holders(i)')
  BY <1>3, <1>4, <1>5
<1>7. \A k \in Instance \ {i} : rotating'[k] = Cardinality(Holders(k)')
  BY <1>2, <1>4, <1>5
<1> QED
  BY <1>6, <1>7 DEF MarksAreHeld, Holders

\* What a goroutine that goes on becomes; the others stay what they are.
LEMMA GotoJob ==
  ASSUME job \in [Job -> Jobs], NEW j \in Job, NEW pc, Goto(j, pc)
  PROVE  /\ job'[j].kind = job[j].kind
         /\ job'[j].inst = job[j].inst
         /\ job'[j].pc = pc
         /\ AllButKeep(j)
<1>1. job' = [job EXCEPT ![j] = [job[j] EXCEPT !.pc = pc]]
  BY DEF Goto
<1>2. /\ [job[j] EXCEPT !.pc = pc].kind = job[j].kind
      /\ [job[j] EXCEPT !.pc = pc].inst = job[j].inst
      /\ [job[j] EXCEPT !.pc = pc].pc = pc
  BY DEF Jobs, Idle
<1>3. \A k \in Job \ {j} : job'[k] = job[k]
  BY <1>1
<1> QED
  BY <1>1, <1>2, <1>3 DEF AllButKeep, Holds

\* A goroutine that ends holds nothing.
LEMMA EndsJob ==
  ASSUME job \in [Job -> Jobs], NEW j \in Job, Ends(j)
  PROVE  AllButKeep(j) /\ \A i \in Instance : ~Holds(j, i)'
  BY DEF Ends, AllButKeep, Holds, Idle

\* A goroutine starts where there was none.
LEMMA SpawnJob ==
  ASSUME job \in [Job -> Jobs], NEW k \in JobKinds, NEW i \in Instance,
         NEW pc, Spawn(k, i, pc)
  PROVE  \E j \in Job :
           /\ AllButKeep(j)
           /\ \A l \in Instance : ~Holds(j, l)
           /\ job'[j] = [kind |-> k, inst |-> i, pc |-> pc]
  BY DEF Spawn, AllButKeep, Holds, Idle

\* Every caller of Restart holds, after it, what it held before; the ladder gives
\* its mark back.
LEMMA AfterRestartMarks ==
  ASSUME TypeOK, MarksAreHeld, NEW j \in Job, job[j].pc \in RestartPcs,
         NEW ok \in BOOLEAN, AfterRestart(j, ok)
  PROVE  MarksAreHeld'
<1>1. job \in [Job -> Jobs] /\ job[j] # Idle
  BY DEF TypeOK, RestartPcs, Idle
<1>2. job[j].inst \in Instance /\ job[j].kind \in JobKinds
  BY <1>1, BusyJob
<1>3. AllButKeep(j)
  BY <1>1, GotoJob, EndsJob DEF AfterRestart
<1>4. CASE job[j].kind = "ladder"
  <2>1. EndRotation(job[j].inst) /\ (Goto(j, "settle") \/ Goto(j, "leave"))
    BY <1>4 DEF AfterRestart
  <2>2. Returns(j, job[j].inst)
    BY <1>1, <1>4, <2>1, GotoJob DEF Returns, Holds, RestartPcs
  <2> QED
    BY <1>2, <1>3, <2>1, <2>2, MarkReturned
<1>5. CASE job[j].kind # "ladder"
  <2>1. \A i \in Instance : ~Holds(j, i)
    <3>1. job[j].kind \notin {"rotation", "sweep"}
      BY <1>1, BusyJob DEF JobKinds, JobPc, RestartPcs
    <3> QED
      BY <1>5, <3>1 DEF Holds
  <2>2. \A i \in Instance : ~Holds(j, i)'
    <3>1. Goto(j, "release") \/ Goto(j, "leave") \/ Ends(j)
      BY <1>5 DEF AfterRestart
    <3>2. job[j].kind \notin {"rotation", "sweep"}
      BY <1>1, BusyJob DEF JobKinds, JobPc, RestartPcs
    <3> QED
      BY <1>1, <1>5, <3>1, <3>2, GotoJob, EndsJob DEF Holds
  <2>3. UNCHANGED rotating
    BY <1>5 DEF AfterRestart
  <2> QED
    BY <1>3, <2>1, <2>2, <2>3, NoMarkMoves DEF Keeps
<1> QED
  BY <1>4, <1>5

\* A rotation mark is up exactly while someone rotates the instance: the count is
\* the number of goroutines that hold a mark (pool.go beginRotation, endRotation).
THEOREM MarksAreAlwaysHeld == Spec => []MarksAreHeld
<1> USE RemediationAssumption
<1>1. Init => MarksAreHeld
  <2> SUFFICES ASSUME Init, NEW i \in Instance
               PROVE  rotating[i] = Cardinality(Holders(i))
    BY DEF MarksAreHeld, Holders
  <2>1. \A j \in Job : job[j].kind \in {"none", "launch"}
    BY DEF Init, Idle
  <2>2. Holders(i) = {}
    BY <2>1 DEF Holders, Holds
  <2> QED
    BY <2>2, FS_EmptySet DEF Init
<1>2. TypeOK /\ MarksAreHeld /\ [Next]_vars => MarksAreHeld'
  <2> SUFFICES ASSUME TypeOK, MarksAreHeld, [Next]_vars
               PROVE  MarksAreHeld'
    OBVIOUS
  <2>0. job \in [Job -> Jobs]
    BY DEF TypeOK
  <2> USE DEF marks, sweep
  <2>1. ASSUME NEW j \in Job, NextRung(j) \/ Remediated(j) \/ BeginRestart(j)
        PROVE  MarksAreHeld'
    <3>1. /\ UNCHANGED rotating
          /\ \/ job[j].pc \in {"enter", "settle"} /\ Goto(j, "wait")
             \/ job[j].pc = "settle" /\ Goto(j, "leave")
             \/ job[j].kind \in {"watchdog", "operator"} /\ Goto(j, "stop")
      BY <2>1 DEF NextRung, Remediated, BeginRestart, At
    <3>2. AllButKeep(j)
      BY <2>0, <3>1, GotoJob
    <3>3. Keeps(j)
      BY <2>0, <3>1, GotoJob DEF Keeps, Holds, RestartPcs
    <3> QED
      BY <3>1, <3>2, <3>3, NoMarkMoves
  <2>2. ASSUME NEW j \in Job, BeginRung(j) PROVE MarksAreHeld'
    <3>1. job[j] # Idle /\ job[j].inst \in Instance
      BY <2>2, <2>0, BusyJob DEF BeginRung, At, Idle
    <3>2. BeginRotation(job[j].inst) /\ (Goto(j, "newnym") \/ Goto(j, "stop"))
          /\ job[j].kind = "ladder" /\ job[j].pc = "wait"
      BY <2>2 DEF BeginRung, At
    <3>3. AllButKeep(j) /\ Takes(j, job[j].inst)
      BY <2>0, <3>2, GotoJob DEF Takes, Holds, RestartPcs
    <3> QED
      BY <3>1, <3>2, <3>3, MarkTaken
  <2>3. ASSUME NEW j \in Job, EndNewnym(j) PROVE MarksAreHeld'
    <3>1. job[j] # Idle /\ job[j].inst \in Instance
      BY <2>3, <2>0, BusyJob DEF EndNewnym, At, Idle
    <3>2. EndRotation(job[j].inst) /\ (Goto(j, "settle") \/ Goto(j, "leave"))
          /\ job[j].kind = "ladder" /\ job[j].pc = "newnym"
      BY <2>3 DEF EndNewnym, At
    <3>3. AllButKeep(j) /\ Returns(j, job[j].inst)
      BY <2>0, <3>2, GotoJob DEF Returns, Holds, RestartPcs
    <3> QED
      BY <3>1, <3>2, <3>3, MarkReturned
  <2>4. ASSUME NEW j \in Job, Unflag(j) \/ Restarted(j) PROVE MarksAreHeld'
    <3>1. /\ UNCHANGED rotating
          /\ job[j].pc \in {"leave", "release"}
          /\ Goto(j, "leave") \/ Ends(j)
      BY <2>4 DEF Unflag, Restarted
    <3>2. job[j].kind \notin {"rotation", "sweep"}
      BY <2>0, <3>1, BusyJob DEF Idle, JobKinds, JobPc
    <3>3. AllButKeep(j)
      BY <2>0, <3>1, GotoJob, EndsJob
    <3>4. \A i \in Instance : ~Holds(j, i) /\ ~Holds(j, i)'
      BY <2>0, <3>1, <3>2, GotoJob, EndsJob DEF Holds, RestartPcs
    <3> QED
      BY <3>1, <3>3, <3>4, NoMarkMoves DEF Keeps
  <2>5. ASSUME NEW j \in Job, StopTor(j) \/ LaunchTor(j) \/ EndBoot(j) \/ LoseBoot(j)
        PROVE  MarksAreHeld'
    <3>1. job[j].pc \in RestartPcs
      BY <2>5 DEF StopTor, LaunchTor, EndBoot, LoseBoot, RestartPcs
    <3>2. CASE AfterRestart(j, TRUE) \/ AfterRestart(j, FALSE)
      BY <3>1, <3>2, AfterRestartMarks
    <3>3. CASE (Goto(j, "lock") \/ Goto(j, "boot")) /\ UNCHANGED rotating
      <4>1. AllButKeep(j) /\ Keeps(j)
        BY <2>0, <3>1, <3>3, GotoJob DEF Keeps, Holds, RestartPcs
      <4> QED
        BY <3>3, <4>1, NoMarkMoves
    <3> QED
      BY <2>5, <3>2, <3>3 DEF StopTor, LaunchTor, EndBoot, LoseBoot
  <2>6. ASSUME NEW j \in Job, FinishRotation(j) PROVE MarksAreHeld'
    <3>1. job[j] # Idle /\ job[j].inst \in Instance
      BY <2>6, <2>0, BusyJob DEF FinishRotation, Idle
    <3>2. AllButKeep(j) /\ Returns(j, job[j].inst)
      BY <2>0, <2>6, EndsJob DEF FinishRotation, Returns, Holds
    <3> QED
      BY <2>6, <3>1, <3>2, MarkReturned DEF FinishRotation
  <2>7. ASSUME NEW k \in {"rotation", "sweep"}, NEW i \in Instance,
               BeginRotation(i), Spawn(k, i, "newnym")
        PROVE  MarksAreHeld'
    <3>1. PICK j \in Job :
            /\ AllButKeep(j)
            /\ \A l \in Instance : ~Holds(j, l)
            /\ job'[j] = [kind |-> k, inst |-> i, pc |-> "newnym"]
      BY <2>0, <2>7, SpawnJob DEF JobKinds
    <3>2. Takes(j, i)
      BY <3>1 DEF Takes, Holds
    <3> QED
      BY <2>7, <3>1, <3>2, MarkTaken
  <2>8. ASSUME NEW k \in {"ladder", "watchdog", "operator"}, NEW i \in Instance,
               UNCHANGED rotating, Spawn(k, i, "enter")
        PROVE  MarksAreHeld'
    <3>1. PICK j \in Job :
            /\ AllButKeep(j)
            /\ \A l \in Instance : ~Holds(j, l)
            /\ job'[j] = [kind |-> k, inst |-> i, pc |-> "enter"]
      BY <2>0, <2>8, SpawnJob DEF JobKinds
    <3>2. Keeps(j)
      BY <3>1 DEF Keeps, Holds, RestartPcs
    <3> QED
      BY <2>8, <3>1, <3>2, NoMarkMoves
  <2>9. CASE UNCHANGED <<job, rotating>>
    BY <2>9 DEF MarksAreHeld, Holds
  <2>10. ASSUME NEW r \in Reporter, StartRemediation(r) PROVE MarksAreHeld'
    <3>1. report[r].inst \in Instance
      BY <2>10 DEF StartRemediation, Reports, TypeOK
    <3> QED
      BY <2>8, <2>9, <2>10, <3>1 DEF StartRemediation
  <2>11. ASSUME ClaimRestart PROVE MarksAreHeld'
    <3>1. watched \in Instance
      BY <2>11 DEF ClaimRestart, TypeOK
    <3> QED
      BY <2>8, <2>9, <2>11, <3>1 DEF ClaimRestart
  <2>12. ASSUME NEW i \in Instance, OperatorRestart(i) \/ StartRotate(i) \/ SweepNext(i)
         PROVE  MarksAreHeld'
    BY <2>7, <2>8, <2>9, <2>12 DEF OperatorRestart, StartRotate, SweepNext
  <2>13. ASSUME NEW i \in Instance,
                \/ MarkReady(i) \/ RecordSuccess(i) \/ Watch(i)
                \/ \E r \in Reporter : ReportFailure(r, i)
                \/ QuarantineInstance(i) \/ ReleaseInstance(i)
                \/ Crash(i) \/ Stall(i) \/ GraceEnds(i)
         PROVE  UNCHANGED <<job, rotating>>
    BY <2>13 DEF MarkReady, RecordSuccess, Watch, ReportFailure, QuarantineInstance,
       ReleaseInstance, Crash, Stall, GraceEnds
  <2>14. ASSUME \/ \E r \in Reporter : ScoreFailure(r)
                \/ StartSweep \/ EndSweep \/ UNCHANGED vars
         PROVE  UNCHANGED <<job, rotating>>
    BY <2>14 DEF ScoreFailure, StartSweep, EndSweep, vars
  <2> QED
    BY <2>1, <2>2, <2>3, <2>4, <2>5, <2>6, <2>9, <2>10, <2>11, <2>12, <2>13, <2>14
    DEF Next, JobStep, ReportStep, SweepStep
<1> QED
  BY <1>1, <1>2, TypeCorrect, PTL DEF Spec
=============================================================================
