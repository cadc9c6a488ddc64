------------------------------- MODULE Exits -------------------------------
(***************************************************************************)
(* Which exit relay an instance goes out through, what it reports and what *)
(* it is pinned to: rotations, the exit poll, exit samples and restarts of *)
(* one instance (internal/pool/pool.go, remediate.go) over its control     *)
(* connection (internal/tor/supervisor.go, control.go).                    *)
(*                                                                         *)
(* ctrlMu serialises control commands; what they return is published       *)
(* afterwards, under mu.  tor builds and drops circuits as it likes within *)
(* the exit policy it was given.                                           *)
(***************************************************************************)
EXTENDS Naturals, FiniteSets

CONSTANTS
  Job,            \* goroutines that use the control connection
  Does,           \* what each may be about
  Relay,          \* exit relays
  None,           \* not one of them
  PinExitRelay,   \* PIN_EXIT_RELAY
  MaxCircuits     \* bound: circuits standing at once

ASSUME ExitsAssumption ==
  /\ Does \in [Job -> SUBSET {"rotate", "ladder", "poll", "sample", "restart"}]
  /\ None \notin Relay \cup Job
  /\ PinExitRelay \in BOOLEAN
  /\ MaxCircuits \in Nat

VARIABLES
  running,   \* tor is alive
  policy,    \* tor's exit policy: the relay it must use, and the one it must not
  circuits,  \* its circuits
  cooling,   \* tor is within its NEWNYM cooldown
  conn,      \* the control connections there are
  used,      \* the one in use
  ctrlMu,    \* by whom
  ready,
  exitNode,
  exitConfirmed,
  pinnedExit,
  job,       \* what each goroutine is about
  origin,    \* history: where exitNode comes from
  drifted,   \* history: pinnedExit was published late, or tor's answer was lost
  panicked   \* the process has panicked

tor == <<running, policy, circuits, cooling>>
control == <<conn, used, ctrlMu>>
exit == <<exitNode, exitConfirmed, origin>>
pin == <<pinnedExit, drifted>>
vars == <<tor, control, ready, exit, pin, job, panicked>>

-----------------------------------------------------------------------------

\* A circuit is older once a NEWNYM has been sent.  Which ones carry traffic is left
\* open: those are not closed, and their exit is for sure.
Circuit == [exit : Relay, older : BOOLEAN]

Policy == [pin : Relay \cup {None}, avoid : Relay \cup {None}]

\* What the configuration says: any exit.
AnyExit == [pin |-> None, avoid |-> None]

Allowed(r) == r # policy.avoid /\ policy.pin \in {None, r}

\* A connection knows whether a NEWNYM was sent on it, and the cooldown of the last
\* one.  tor's end is up or gone; Stop closes ours.
Connection == [end : {"none", "up", "gone", "closed"}, knows : BOOLEAN, cool : BOOLEAN]

Fresh == [end |-> "up", knows |-> FALSE, cool |-> FALSE]

NoConnection == [Fresh EXCEPT !.end = "none"]

\* i.ctrl, and one that i.ctrl was when somebody began to use it.
Conns == {"current", "former"}

ASSUME NoneIsNoConnection == None \notin Conns

Connected == conn["current"].end # "none"

\* i.ctrl becomes k, and old what was there, if it is in use.
Replaced(k, old) ==
  /\ conn' = [current |-> k, former |-> IF used = "current" THEN old ELSE conn["former"]]
  /\ used' = IF used = "current" THEN "former" ELSE used

Commands == {"unpin", "newnym", "read", "pin"}

Restarting == {"stop", "kill", "swap", "spawn", "connect", "boot"}

Idle ==
  [kind |-> "none", op |-> "none", stage |-> "none", node |-> None, sure |-> FALSE,
   from |-> "fresh", avoid |-> None, overtaken |-> FALSE, alone |-> FALSE]

\* j goes on to issue the command op.
Calls(j, op) ==
  [j EXCEPT !.op = op, !.stage = "lock", !.node = None, !.sure = FALSE, !.from = "fresh",
            !.overtaken = FALSE]

\* A rotation's mark is up to its end, a ladder's until its rung is done.
Marked(j) == j.kind = "rotate" \/ (j.kind = "ladder" /\ j.op \in {"unpin", "newnym"})

\* The grace period that follows a rotation is left out: it may be over at once.
RotationWindow == \E w \in Job : Marked(job[w])

\* w goes on as j.
Goes(w, j) == job' = [job EXCEPT ![w] = j]

\* Those in jobs go on as they are there, and w as j.
Become(w, j, jobs) == job' = [jobs EXCEPT ![w] = j]

At(w, op, stage) == job[w].op = op /\ job[w].stage = stage

\* Others that have an answer to one of ops and have not published it are late.
Overtaken(w, ops) ==
  [v \in Job |->
     IF v # w /\ job[v].stage \in {"close", "publish"} /\ job[v].op \in ops
       THEN [job[v] EXCEPT !.overtaken = TRUE] ELSE job[v]]

\* A change of tor's policy by w: also, nobody else's is in force any more.
Rewritten(w, ops) ==
  [v \in Job |-> [Overtaken(w, ops)[v] EXCEPT !.alone = @ /\ v = w]]

\* Connections lose their tor.
Orphaned == [k \in Conns |-> [conn[k] EXCEPT !.end = IF @ = "up" THEN "gone" ELSE @]]

Init ==
  /\ running = TRUE
  /\ policy = AnyExit
  /\ circuits = {}
  /\ cooling = FALSE
  /\ conn = [current |-> Fresh, former |-> NoConnection]
  /\ used = None /\ ctrlMu = None
  /\ ready = TRUE
  /\ exitNode = None /\ exitConfirmed = FALSE /\ origin = "none"
  /\ pinnedExit = None /\ drifted = FALSE
  /\ job = [w \in Job |-> Idle]
  /\ panicked = FALSE

-----------------------------------------------------------------------------
(* Goroutines start.                                                       *)

\* No other goroutine does one of kinds.
Alone(kinds) == \A v \in Job : job[v].kind \notin kinds

\* finishRotation and the NEWNYM rung of remediate note the exit to avoid first.
Rotation(kind) ==
  [Calls(Idle, IF PinExitRelay THEN "unpin" ELSE "newnym")
     EXCEPT !.kind = kind, !.avoid = exitNode]

\* quiesceForRotation lets one in when the instance is ready and none is in.
StartRotation(w) ==
  /\ ready /\ running
  /\ \A v \in Job : ~Marked(job[v])
  /\ Goes(w, Rotation("rotate"))

\* One at a time, under the remediating flag.
StartLadder(w) == Alone({"ladder"}) /\ Goes(w, Rotation("ladder"))

\* RefreshExitNodes or SampleExit.
StartSample(w) == Goes(w, [Calls(Idle, "read") EXCEPT !.kind = "sample"])

\* The poll's other half, on a ready instance.
StartPinExits(w) ==
  /\ PinExitRelay /\ ready /\ running
  /\ Alone({"poll"})
  /\ Goes(w, [Idle EXCEPT !.kind = "poll", !.op = "check"])

\* Restart; Supervisor has what happens when several overlap.
StartRestart(w) ==
  /\ Alone({"restart"})
  /\ Goes(w, [Idle EXCEPT !.kind = "restart", !.op = "stop"])

Start(w) ==
  /\ job[w] = Idle
  /\ \/ "rotate" \in Does[w] /\ StartRotation(w)
     \/ "ladder" \in Does[w] /\ StartLadder(w)
     \/ "sample" \in Does[w] /\ StartSample(w)
     \/ "poll" \in Does[w] /\ StartPinExits(w)
     \/ "restart" \in Does[w] /\ StartRestart(w)
  /\ UNCHANGED <<tor, control, ready, exit, pin, panicked>>

-----------------------------------------------------------------------------
(* A control call: the lock, a connection, the command.                    *)

\* What a goroutine does when its command failed: AwaitExitNode may have time left to
\* read again.
Fails(w) ==
  \/ Goes(w, Idle)
  \/ /\ job[w].kind \in {"rotate", "ladder"} /\ job[w].op = "read"
     /\ Goes(w, Calls(job[w], "read"))

\* Mutant: nobody waits.
NeverWaits(j) == FALSE

\* NewnymWait: what is left of the cooldown that the connection knows of.
MustWait(j) == j.op = "newnym" /\ conn["current"].cool

\* withControl takes ctrlMu.  Newnym lets go of it to wait.
Lock(w) ==
  LET j == job[w]
  IN  /\ j.stage = "lock"
      /\ ctrlMu = None
      /\ \/ /\ Connected /\ MustWait(j)
            /\ Goes(w, [j EXCEPT !.stage = "sleep"])
            /\ UNCHANGED <<ctrlMu, used>>
         \/ /\ Connected /\ ~MustWait(j)
            /\ Goes(w, [j EXCEPT !.stage = "flight"])
            /\ ctrlMu' = w /\ used' = "current"
         \/ /\ ~Connected /\ running
            /\ Goes(w, [j EXCEPT !.stage = "dial"])
            /\ ctrlMu' = w /\ UNCHANGED used
         \/ /\ ~Connected /\ ~running
            /\ Fails(w)
            /\ UNCHANGED <<ctrlMu, used>>
      /\ UNCHANGED <<tor, conn, ready, exit, pin, panicked>>

\* tryWithControl: RefreshExitNodes does not queue.
Skip(w) ==
  /\ job[w].kind = "sample" /\ At(w, "read", "lock")
  /\ ctrlMu # None
  /\ Goes(w, Idle)
  /\ UNCHANGED <<tor, control, ready, exit, pin, panicked>>

\* Cooldowns end, tor's and the ones connections know of, and so do the timers of
\* Newnym: it looks again.
CoolsDown ==
  /\ cooling \/ (\E k \in Conns : conn[k].cool) \/ (\E w \in Job : job[w].stage = "sleep")
  /\ cooling' = FALSE
  /\ conn' = [k \in Conns |-> [conn[k] EXCEPT !.cool = FALSE]]
  /\ job' = [w \in Job |->
       IF job[w].stage = "sleep" THEN [job[w] EXCEPT !.stage = "lock"] ELSE job[w]]
  /\ UNCHANGED <<running, policy, circuits, used, ctrlMu, ready, exit, pin, panicked>>

\* controlLocked dials a replacement; it knows nothing of the one before.
Dial(w) ==
  /\ job[w].stage = "dial"
  /\ running
  /\ conn' = [conn EXCEPT !["current"] = Fresh]
  /\ used' = "current"
  /\ Goes(w, [job[w] EXCEPT !.stage = "flight"])
  /\ UNCHANGED <<tor, ctrlMu, ready, exit, pin, panicked>>

\* ctrlMu is released, with the connections c; nobody uses a former one any more.
Released(c) ==
  /\ ctrlMu' = None /\ used' = None
  /\ conn' = [c EXCEPT !["former"] = NoConnection]

\* A second command follows under the same lock.
Holding == UNCHANGED <<ctrlMu, used>>

DialFails(w) ==
  /\ job[w].stage = "dial"
  /\ Released(conn)
  /\ Fails(w)
  /\ UNCHANGED <<tor, ready, exit, pin, panicked>>

\* tor has the command of w.
Receives(w, op) == At(w, op, "flight") /\ running /\ conn[used].end # "gone"

\* It answers, and the answer arrives.
Answers(w, op) == Receives(w, op) /\ conn[used].end = "up"

-----------------------------------------------------------------------------
(* What commands do to tor, and what becomes of their answers.             *)

\* retireExit
RetireExit == exitNode' = None /\ exitConfirmed' = FALSE /\ origin' = "none"

\* The exit that is reported is not where the instance goes out any more.
Outdated == origin' = IF origin = "fresh" THEN "retired" ELSE origin

\* NEWNYM ages every circuit, whether or not tor acts on it.
Aged == {[c EXCEPT !.older = TRUE] : c \in circuits}

\* Mutant: the burnt relay stays in the running.
AvoidsNone(j) == [pin |-> None, avoid |-> None]

\* The policy of the configuration, and away from the relay to avoid.
Avoids(j) == [pin |-> None, avoid |-> j.avoid]

\* UnpinExit's SETCONF.  Its pin is published after the unlock.
Unpinned(w) ==
  /\ Answers(w, "unpin")
  /\ policy' = Avoids(job[w])
  /\ Become(w, [job[w] EXCEPT !.stage = "publish", !.alone = TRUE],
            Rewritten(w, {"pin", "unpin"}))
  /\ Released(conn)
  /\ UNCHANGED <<running, circuits, cooling, ready, exit, pin, panicked>>

\* PinExit's SETCONF; the circuits to other exits are closed next.
Pinned(w) ==
  /\ Answers(w, "pin")
  /\ policy' = [pin |-> job[w].node, avoid |-> None]
  /\ Become(w, [job[w] EXCEPT !.stage = "close"], Rewritten(w, {"pin", "unpin"}))
  /\ Holding
  /\ UNCHANGED <<running, circuits, cooling, conn, ready, exit, pin, panicked>>

\* newnymLocked's signal.
Signalled(w) ==
  /\ Answers(w, "newnym")
  /\ circuits' = Aged
  /\ cooling' = TRUE
  /\ conn' = [conn EXCEPT ![used] =
                [@ EXCEPT !.knows = TRUE, !.cool = TRUE]]
  /\ Become(w, [job[w] EXCEPT !.stage = "close"], Overtaken(w, {"read"}))
  /\ Outdated
  /\ Holding
  /\ UNCHANGED <<running, policy, ready, exitNode, exitConfirmed, pin, panicked>>

\* No complete answer came: tor has gone, the connection was closed, or the deadline
\* has passed.  useControlLocked discards the connection.  command's deferred call on
\* one that Stop has closed meanwhile dereferences nil.
Discarded ==
  /\ Released([conn EXCEPT ![used] = NoConnection])
  /\ panicked' \in {FALSE, conn[used].end = "closed"}

\* The circuits that closeIdleCircuits is to close, if they are idle.
Doomed(j) == {c \in circuits : IF j.op = "pin" THEN c.exit # j.node ELSE c.older}

\* closeIdleCircuits, or as much of it as tor answers; newnymLocked calls
\* retireExit before it.
Close(w) ==
  /\ job[w].stage = "close"
  /\ \E closed \in SUBSET Doomed(job[w]) : circuits' = circuits \ closed
  /\ Discarded \/ (conn[used].end = "up" /\ Released(conn) /\ UNCHANGED panicked)
  /\ \/ /\ job[w].op = "pin"
        /\ Goes(w, [job[w] EXCEPT !.stage = "publish"])
        /\ UNCHANGED exit
     \/ /\ job[w].op = "newnym"
        /\ Goes(w, Calls(job[w], "read"))
        /\ RetireExit
  /\ UNCHANGED <<running, policy, cooling, ready, pin>>

\* Mutant: any.
AnyReportable == circuits

\* The circuits whose exit may be reported: none older than the last NEWNYM that
\* the connection knows of.
Reportable == {c \in circuits : conn[used].knows => ~c.older}

\* Where a reading of c comes from: one that the connection knows to be older is of a
\* retired exit, one that it takes for new is a stray.
Whence(c) ==
  IF ~c.older THEN "fresh" ELSE IF conn[used].knows THEN "retired" ELSE "strayed"

\* Control.ExitNode: an exit, for sure if its circuit carries traffic, or else a guess.
\* The answer is published after the unlock.
Read(w) ==
  /\ Answers(w, "read")
  /\ \E c \in Reportable, sure \in BOOLEAN :
       Goes(w, [job[w] EXCEPT !.stage = "publish", !.node = c.exit, !.sure = sure,
                              !.from = Whence(c)])
  /\ Released(conn)
  /\ UNCHANGED <<tor, ready, exit, pin, panicked>>

\* A complete answer that is no: no usable circuit, no address of its exit, or tor
\* refuses.
Refused(w) ==
  /\ \E op \in Commands : Answers(w, op)
  /\ Fails(w)
  /\ Released(conn)
  /\ UNCHANGED <<tor, ready, exit, pin, panicked>>

\* What a lost command may have done: a policy that nobody knows of, a NEWNYM whose
\* exit is still reported.
TakesEffect(w) ==
  \/ /\ Receives(w, "newnym")
     /\ circuits' = Aged /\ cooling' = TRUE
     /\ origin' = IF origin = "fresh" THEN "strayed" ELSE origin
     /\ UNCHANGED <<policy, drifted>>
     /\ Become(w, Idle, Overtaken(w, {"read"}))
  \/ /\ \/ Receives(w, "pin")   /\ policy' = [pin |-> job[w].node, avoid |-> None]
        \/ Receives(w, "unpin") /\ policy' = Avoids(job[w])
     /\ drifted' = TRUE
     /\ Become(w, Idle, Rewritten(w, {"pin", "unpin"}))
     /\ UNCHANGED <<circuits, cooling, origin>>

NoEffect(w) ==
  /\ Fails(w)
  /\ UNCHANGED <<circuits, cooling, policy, origin, drifted>>

Breaks(w) ==
  /\ \E op \in Commands : At(w, op, "flight")
  /\ Discarded
  /\ TakesEffect(w) \/ NoEffect(w)
  /\ UNCHANGED <<running, ready, exitNode, exitConfirmed, pinnedExit>>

-----------------------------------------------------------------------------
(* Answers are published.                                                  *)

\* After UnpinExit comes NEWNYM.
PublishUnpin(w) ==
  /\ At(w, "unpin", "publish")
  /\ pinnedExit' = None /\ drifted' = job[w].overtaken
  /\ Goes(w, Calls(job[w], "newnym"))
  /\ UNCHANGED <<tor, control, ready, exit, panicked>>

PublishPin(w) ==
  /\ At(w, "pin", "publish")
  /\ pinnedExit' = job[w].node /\ drifted' = job[w].overtaken
  /\ Goes(w, Idle)
  /\ UNCHANGED <<tor, control, ready, exit, panicked>>

\* refreshExit does not let a guess displace what traffic confirmed.
Displaces(j) == j.sure \/ ~exitConfirmed

\* settleExit pins what refreshExit returned, which is what is published then.
Settled(j, node) ==
  IF PinExitRelay /\ node # None
    THEN [Calls(Idle, "pin") EXCEPT !.kind = j.kind, !.node = node] ELSE Idle

PublishRead(w) ==
  LET j == job[w]
  IN  /\ At(w, "read", "publish")
      /\ IF Displaces(j)
           THEN /\ exitNode' = j.node /\ exitConfirmed' = j.sure
                /\ origin' = IF j.overtaken THEN "strayed" ELSE j.from
           ELSE UNCHANGED exit
      /\ Goes(w, IF j.kind = "sample" THEN Idle ELSE Settled(j, exitNode'))
      /\ UNCHANGED <<tor, control, ready, pin, panicked>>

\* pinExits passes over an instance that is pinned or rotates, ...
Check(w) ==
  /\ job[w].op = "check"
  /\ Goes(w, IF pinnedExit = None /\ ~RotationWindow
               THEN [job[w] EXCEPT !.op = "choose"] ELSE Idle)
  /\ UNCHANGED <<tor, control, ready, exit, pin, panicked>>

\* ... and pins the exit reported by then.
Choose(w) ==
  /\ job[w].op = "choose"
  /\ Goes(w, Settled(job[w], exitNode))
  /\ UNCHANGED <<tor, control, ready, exit, pin, panicked>>

-----------------------------------------------------------------------------
(* Restart, and tor itself.                                                *)

Proceeds(w, op, next) == job[w].op = op /\ Goes(w, [job[w] EXCEPT !.op = next])

\* Stop withdraws the connection and closes it, whoever uses it.
Stop(w) ==
  /\ Proceeds(w, "stop", "kill")
  /\ ready' = FALSE
  /\ Replaced(NoConnection, [conn["current"] EXCEPT !.end = "closed"])
  /\ UNCHANGED <<tor, ctrlMu, exit, pin, panicked>>

\* tor is gone with its circuits, its policy and its cooldown; the next one has the
\* policy of the configuration.
TorGone ==
  /\ running' = FALSE
  /\ circuits' = {}
  /\ cooling' = FALSE
  /\ policy' = AnyExit
  /\ conn' = Orphaned

\* Process.Stop has reaped it.
Kill(w) ==
  /\ job[w].op = "kill"
  /\ TorGone
  /\ Become(w, [job[w] EXCEPT !.op = "swap"], Rewritten(w, {"read", "pin", "unpin"}))
  /\ Outdated
  /\ UNCHANGED <<used, ctrlMu, ready, exitNode, exitConfirmed, pin, panicked>>

\* Mutant: the pin is kept.
KeepPin == UNCHANGED pin

ForgetPin == pinnedExit' = None /\ drifted' = FALSE

\* A new process: the pin goes with the old one, and so does the exit.
Swap(w) ==
  /\ Proceeds(w, "swap", "spawn")
  /\ ForgetPin
  /\ RetireExit
  /\ UNCHANGED <<tor, control, ready, panicked>>

Spawn(w) ==
  /\ Proceeds(w, "spawn", "connect")
  /\ running' = TRUE
  /\ UNCHANGED <<policy, circuits, cooling, control, ready, exit, pin, panicked>>

\* Connect replaces whatever connection somebody has dialled meanwhile.
Connect(w) ==
  /\ running
  /\ Proceeds(w, "connect", "boot")
  /\ Replaced(Fresh, conn["current"])
  /\ UNCHANGED <<tor, ctrlMu, ready, exit, pin, panicked>>

\* Bootstrapped.  The ladder's restart goes on to settle, the others end.
Boot(w) ==
  /\ running
  /\ job[w].op = "boot"
  /\ ready' = TRUE
  /\ \/ Goes(w, Idle)
     \/ Alone({"ladder"}) /\ Goes(w, [Calls(Idle, "read") EXCEPT !.kind = "ladder"])
  /\ UNCHANGED <<tor, control, exit, pin, panicked>>

\* A restart fails: tor cannot be signalled, its state not wiped, the new one not
\* spawned, connected to or waited for.
RestartFails(w) ==
  /\ job[w].op \in {"kill", "swap", "spawn", "connect", "boot"}
  /\ Goes(w, Idle)
  /\ UNCHANGED <<tor, control, ready, exit, pin, panicked>>

\* tor builds circuits within its policy, and loses them.
Changes ==
  \/ \E r \in Relay : /\ Allowed(r) /\ Cardinality(circuits) < MaxCircuits
                      /\ circuits' = circuits \cup {[exit |-> r, older |-> FALSE]}
  \/ \E c \in circuits : circuits' = circuits \ {c}

Tor ==
  /\ running
  /\ \/ Changes /\ UNCHANGED <<running, cooling, policy, conn>>
     \/ (\E w \in Job : "restart" \in Does[w]) /\ TorGone
  /\ UNCHANGED <<used, ctrlMu, ready, exit, pin, job, panicked>>

-----------------------------------------------------------------------------

\* One command, from the lock it holds to its end.
Commanded(w) ==
  \/ Dial(w) \/ DialFails(w)
  \/ Unpinned(w) \/ Pinned(w) \/ Signalled(w) \/ Read(w) \/ Close(w)
  \/ Refused(w) \/ Breaks(w)

Published(w) == PublishUnpin(w) \/ PublishPin(w) \/ PublishRead(w) \/ Check(w) \/ Choose(w)

Restarted(w) ==
  \/ Stop(w) \/ Kill(w) \/ Swap(w) \/ Spawn(w) \/ Connect(w) \/ Boot(w)
  \/ RestartFails(w)

Next ==
  /\ ~panicked
  /\ \/ \E w \in Job : \/ Start(w) \/ Lock(w) \/ Skip(w)
                       \/ Commanded(w) \/ Published(w) \/ Restarted(w)
     \/ CoolsDown \/ Tor

Spec == Init /\ [][Next]_vars

-----------------------------------------------------------------------------

Steps == {"none", "lock", "sleep", "dial", "flight", "close", "publish"}

TypeOK ==
  /\ running \in BOOLEAN /\ cooling \in BOOLEAN /\ ready \in BOOLEAN
  /\ policy \in Policy
  /\ circuits \subseteq Circuit
  /\ conn \in [Conns -> Connection]
  /\ used \in Conns \cup {None}
  /\ ctrlMu \in Job \cup {None}
  /\ used # None <=> \E w \in Job : ctrlMu = w /\ job[w].stage \in {"flight", "close"}
  /\ exitNode \in Relay \cup {None} /\ exitConfirmed \in BOOLEAN
  /\ exitNode = None <=> origin = "none"
  /\ pinnedExit \in Relay \cup {None}
  /\ \A w \in Job :
       /\ job[w].kind \in {"none", "rotate", "ladder", "poll", "sample", "restart"}
       /\ job[w].op \in Commands \cup Restarting \cup {"none", "check", "choose"}
       /\ job[w].stage \in Steps
       /\ job[w].stage \in {"dial", "flight", "close"} <=> ctrlMu = w

\* control.go:239-240, supervisor.go:294-298: a NEWNYM within the cooldown of another would
\* be coalesced away.  Unless the other was sent on a connection since lost, none is sent.
NewnymTakesEffect ==
  [][cooling => \A w \in Job : Signalled(w) => ~conn[used].knows]_vars

\* supervisor.go:330-333, 612-617: of a tor that runs, an exit that a NEWNYM or a restart
\* has put out of use is reported no longer than it takes to act on the answer to the
\* NEWNYM, however readings, rotations and restarts that fail half-way interleave; but for
\* readings that were published late or taken on a connection that did not know of the
\* NEWNYM (StaysRetired).  A tor that is down may keep it, until the next one is spawned.
RetiredIsGone ==
  origin = "retired" /\ running => \E w \in Job : At(w, "newnym", "close")

\* "NEWNYM retired that circuit, so reporting it would name a relay this instance no
\* longer goes out through" (supervisor.go:330-333): what was read before the NEWNYM is
\* not published after it.
StaysRetired ==
  [][\A w \in Job : PublishRead(w) /\ job[w].overtaken => UNCHANGED exit]_vars

\* remediate.go:386-388: what a rotation pins in the end is not the relay it set out to
\* leave, provided that its policy stayed in force and the exit it went by is not a stray.
RotationChangesExit ==
  [][\A w \in Job :
       /\ job[w].alone /\ job[w].avoid # None
       /\ PublishRead(w) /\ job'[w].op = "pin" /\ origin' # "strayed"
       => job'[w].node # job[w].avoid]_vars

\* "Instances still rotating are skipped: their rotation pins them at the end, and pinning
\* them to the exit they are in the middle of discarding would undo it" (pool.go:283-287):
\* the poll pins no instance that rotates.
RotatingIsSkipped ==
  [][\A w \in Job : Pinned(w) /\ job[w].kind = "poll" => ~RotationWindow]_vars

\* supervisor.go:512-514: the pin that is reported is the one tor works by, once whoever
\* changed it has said so; but for answers that were published late or never came.
PinIsTors ==
  /\ TypeOK
  /\ pinnedExit # None /\ running /\ ~drifted
       => \/ policy.pin = pinnedExit
          \/ \E w \in Job : job[w].op \in {"pin", "unpin"} /\ job[w].stage \in {"close", "publish"}

\* control.go:45-47: commands are serialised, so that none runs into another's doing.
\* Stop is not, and takes the process down with it.
NeverPanics == ~panicked

=============================================================================
