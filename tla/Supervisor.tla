----------------------------- MODULE Supervisor -----------------------------
(***************************************************************************)
(* One tor and the goroutines that start, restart and stop it: Start,      *)
(* startLocked, Stop and Restart of internal/tor/supervisor.go over the    *)
(* process objects of process.go.                                          *)
(*                                                                         *)
(* Every launch builds a new Process; they are numbered in the order they  *)
(* are built, and i.proc is always the newest.  All of them would run on   *)
(* the same ports and DataDirectory: tor binds the ports or gives up.      *)
(* Stop does not take startMu.  One action is what a goroutine does        *)
(* between two operations on i.mu, startMu or a process.                   *)
(***************************************************************************)
EXTENDS Naturals, FiniteSets

CONSTANTS
  Caller,    \* goroutines calling Start, Restart or Stop
  First,     \* the one among them that makes the first Start (fleet.Add)
  MaxProcs,  \* bound: processes built over the life of the instance
  None       \* no caller

ASSUME SupervisorAssumption ==
  /\ First \in Caller
  /\ None \notin Caller
  /\ IsFiniteSet(Caller)
  /\ MaxProcs \in Nat \ {0}

VARIABLES
  proc,        \* i.proc: the number of the newest process
  status,      \* of each process: unborn, new, live, signalled or gone
  port,        \* the process that holds the ports, 0 if there is none
  booted,      \* the processes that have bootstrapped
  startMu,     \* who holds i.startMu
  starting,    \* i.starting
  ready,       \* i.ready
  ctrl,        \* i.ctrl: whose control connection is published
  caller,      \* what each goroutine is doing
  overlapped,  \* history: a Restart or Stop was called while another launch had
               \* been asked for and had not spawned its process yet
  panicked     \* the pool's own process is down

tor  == <<status, port, booted>>
inst == <<proc, startMu, starting, ready, ctrl>>
vars == <<tor, inst, caller, overlapped, panicked>>

Procs == 1..MaxProcs

\* A process that runs, told to stop or not.
Alive(p) == p \in Procs /\ status[p] \in {"live", "signalled"}

\* saw: the process Stop is stopping.  conn: the process at the other end of the
\* control connection, 0 if it is closed.
Idle == [pc |-> "idle", kind |-> "none", wipe |-> FALSE, saw |-> 0, conn |-> 0]

Calls ==
  [pc : {"idle", "stop", "signal", "reap", "lock", "wipe", "swap", "begin", "spawn",
         "connect", "boot", "poll", "report"},
   kind : {"none", "start", "restart", "stop"},
   wipe : BOOLEAN,
   saw : {0} \cup Procs,
   conn : {0} \cup Procs]

Goto(c, pc) == caller' = [caller EXCEPT ![c].pc = pc]

\* The launch sequence, from startLocked to its deferred end.
Launching == {"spawn", "connect", "boot", "poll", "report"}

\* A launch that is under way and has not spawned its process.
Pending(c) ==
  /\ caller[c].kind \in {"start", "restart"}
  /\ caller[c].pc \in {"stop", "signal", "reap", "lock", "wipe", "swap", "begin",
                       "spawn"}

\* Instance.Ready
Ready == ready /\ Alive(proc)

-----------------------------------------------------------------------------

Init ==
  /\ proc = 1
  /\ status = [p \in Procs |-> IF p = 1 THEN "new" ELSE "unborn"]
  /\ port = 0
  /\ booted = {}
  /\ startMu = None
  /\ starting = FALSE
  /\ ready = FALSE
  /\ ctrl = None
  /\ caller = [c \in Caller |->
                 IF c = First THEN [Idle EXCEPT !.pc = "lock", !.kind = "start"]
                              ELSE Idle]
  /\ overlapped = FALSE
  /\ panicked = FALSE

(* Stop, alone or as the first half of Restart. *)

\* A Restart or a Stop is called; each Restart may need a process of its own.
Call(c, kind, wipe) ==
  /\ caller[c] = Idle
  /\ kind = "restart" =>
       proc + Cardinality({d \in Caller : caller[d].kind = "restart"}) < MaxProcs
  /\ caller' = [caller EXCEPT ![c] =
                  [Idle EXCEPT !.pc = "stop", !.kind = kind, !.wipe = wipe]]
  /\ overlapped' = (overlapped \/ \E d \in Caller : Pending(d))
  /\ UNCHANGED <<tor, inst, panicked>>

\* Stop takes the process and the control connection, and closes the latter.
Take(c) ==
  /\ caller[c].pc = "stop"
  /\ ready' = FALSE
  /\ ctrl' = None
  /\ caller' = [d \in Caller |->
       IF d = c THEN [caller[c] EXCEPT !.pc = "signal", !.saw = proc]
       ELSE IF d = ctrl THEN [caller[d] EXCEPT !.conn = 0]
       ELSE caller[d]]
  /\ UNCHANGED <<tor, proc, startMu, starting, overlapped, panicked>>

\* The call is over.
Returns(c) == caller' = [caller EXCEPT ![c] = Idle]

\* What follows a Stop that has worked.
Stopped(c) == IF caller[c].kind = "stop" THEN Returns(c) ELSE Goto(c, "lock")

\* Mutant: Stop does not wait for the process it has signalled.
SignalOnly(c) ==
  LET p == caller[c].saw
  IN  /\ caller[c].pc = "signal"
      /\ Stopped(c)
      /\ status' = [status EXCEPT ![p] = IF Alive(p) THEN "signalled" ELSE @]
      /\ UNCHANGED <<port, booted, inst, overlapped, panicked>>

\* Process.Stop: nothing to do for a process that is not running; signalling it
\* may fail.
Signal(c) ==
  LET p == caller[c].saw
  IN  /\ caller[c].pc = "signal"
      /\ \/ ~Alive(p) /\ Stopped(c) /\ UNCHANGED status
         \/ /\ Alive(p)
            /\ Goto(c, "reap")
            /\ status' = [status EXCEPT ![p] = "signalled"]
         \/ Alive(p) /\ Returns(c) /\ UNCHANGED status
      /\ UNCHANGED <<port, booted, inst, overlapped, panicked>>

\* Process.Stop waits for the process to be gone.
Reap(c) ==
  /\ caller[c].pc = "reap"
  /\ status[caller[c].saw] = "gone"
  /\ Stopped(c)
  /\ UNCHANGED <<tor, inst, overlapped, panicked>>

(* Start, and the second half of Restart. *)

Lock(c) ==
  /\ caller[c].pc = "lock"
  /\ startMu = None
  /\ startMu' = c
  /\ Goto(c, IF caller[c].kind = "start" THEN "begin"
             ELSE IF caller[c].wipe THEN "wipe" ELSE "swap")
  /\ UNCHANGED <<tor, proc, starting, ready, ctrl, overlapped, panicked>>

\* The DataDirectory is removed, or cannot be.
Wipe(c) ==
  /\ caller[c].pc = "wipe"
  /\ \/ Goto(c, "swap") /\ UNCHANGED startMu
     \/ Returns(c) /\ startMu' = None
  /\ UNCHANGED <<tor, proc, starting, ready, ctrl, overlapped, panicked>>

\* A new Process takes the place of the old one.
Swap(c) ==
  /\ caller[c].pc = "swap"
  /\ proc' = proc + 1
  /\ status' = [status EXCEPT ![proc + 1] = "new"]
  /\ Goto(c, "begin")
  /\ UNCHANGED <<port, booted, startMu, starting, ready, ctrl, overlapped, panicked>>

\* startLocked begins.
Begin(c) ==
  /\ caller[c].pc = "begin"
  /\ starting' = TRUE
  /\ ready' = FALSE
  /\ Goto(c, "spawn")
  /\ UNCHANGED <<tor, proc, startMu, ctrl, overlapped, panicked>>

\* Mutant: an error returns before the deferred end of startLocked is in place.
FinishedUncleared(c) == Returns(c) /\ startMu' = None /\ UNCHANGED starting

\* startLocked returns, and startMu is free again.
Finished(c) == Returns(c) /\ startMu' = None /\ starting' = FALSE

\* Process.Start: tor is running, or could not be started; a process is started
\* only once.
Spawn(c) ==
  /\ caller[c].pc = "spawn"
  /\ \/ /\ status[proc] = "new"
        /\ status' = [status EXCEPT ![proc] = "live"]
        /\ Goto(c, "connect")
        /\ UNCHANGED <<startMu, starting>>
     \/ Finished(c) /\ UNCHANGED status
  /\ UNCHANGED <<port, booted, proc, ready, ctrl, overlapped, panicked>>

\* Mutant: nothing cancels startCtx when tor dies.
NeverAbandoned(c) == FALSE

\* The launch is abandoned: its tor is gone.
Abandoned(c) == status[proc] = "gone"

\* Connect: the control port answers, whoever holds it.
Connect(c) ==
  /\ caller[c].pc = "connect"
  /\ \/ /\ port # 0
        /\ caller' = [caller EXCEPT ![c].pc = "boot", ![c].conn = port]
        /\ ctrl' = c
        /\ UNCHANGED <<startMu, starting>>
     \/ Abandoned(c) /\ Finished(c) /\ UNCHANGED ctrl
  /\ UNCHANGED <<tor, proc, ready, overlapped, panicked>>

(* WaitBootstrapped: it polls, and waits for the next tick. *)

\* The next poll is sent, unless the launch has been abandoned or Stop has closed
\* the connection.
Poll(c) ==
  /\ caller[c].pc = "boot"
  /\ \/ caller[c].conn # 0 /\ Goto(c, "poll") /\ UNCHANGED <<startMu, starting>>
     \/ (caller[c].conn = 0 \/ Abandoned(c)) /\ Finished(c)
  /\ UNCHANGED <<tor, proc, ready, ctrl, overlapped, panicked>>

\* The poll is answered, by a tor that has bootstrapped or not, or it fails.
Answer(c) ==
  LET p == caller[c].conn
  IN  /\ caller[c].pc = "poll"
      /\ \/ /\ Alive(p)
            /\ Goto(c, IF p \in booted THEN "report" ELSE "boot")
            /\ UNCHANGED <<startMu, starting>>
         \/ Finished(c)
      /\ UNCHANGED <<tor, proc, ready, ctrl, overlapped, panicked>>

\* Stop has closed the connection under the poll: Control.command goes on to reset
\* the deadline of a connection that is nil.
Lost(c) ==
  /\ caller[c].pc = "poll"
  /\ caller[c].conn = 0
  /\ panicked' = TRUE
  /\ UNCHANGED <<tor, inst, caller, overlapped>>

\* startLocked has its tor bootstrapped.
Report(c) ==
  /\ caller[c].pc = "report"
  /\ ready' = TRUE
  /\ Finished(c)
  /\ UNCHANGED <<tor, proc, ctrl, overlapped, panicked>>

(* tor. *)

\* A tor binds its ports, or finds them taken and exits.
Bind(p) ==
  /\ Alive(p) /\ port # p
  /\ \/ port = 0 /\ port' = p /\ UNCHANGED status
     \/ port # 0 /\ status' = [status EXCEPT ![p] = "gone"] /\ UNCHANGED port
  /\ UNCHANGED <<booted, inst, caller, overlapped, panicked>>

Bootstrap(p) ==
  /\ Alive(p) /\ port = p /\ p \notin booted
  /\ booted' = booted \cup {p}
  /\ UNCHANGED <<status, port, inst, caller, overlapped, panicked>>

\* A tor exits, because it was told to or of its own accord.
Exit(p) ==
  /\ Alive(p)
  /\ status' = [status EXCEPT ![p] = "gone"]
  /\ port' = IF port = p THEN 0 ELSE port
  /\ UNCHANGED <<booted, inst, caller, overlapped, panicked>>

-----------------------------------------------------------------------------

Step(c) ==
  \/ Take(c)
  \/ Signal(c)
  \/ Reap(c)
  \/ Lock(c)
  \/ Wipe(c)
  \/ Swap(c)
  \/ Begin(c)
  \/ Spawn(c)
  \/ Connect(c)
  \/ Poll(c)
  \/ Answer(c)
  \/ Lost(c)
  \/ Report(c)

Next ==
  /\ ~panicked
  /\ \/ \E c \in Caller : Step(c)
     \/ \E c \in Caller, wipe \in BOOLEAN : Call(c, "restart", wipe)
     \/ \E c \in Caller : Call(c, "stop", FALSE)
     \/ \E p \in Procs : Bind(p) \/ Bootstrap(p) \/ Exit(p)

\* Goroutines run, startMu reaches everyone who waits for it, a tor that was
\* signalled goes (Stop kills it after a grace period), and a tor that runs binds
\* its ports or gives up.  That a tor bootstraps is an assumption: nothing in
\* startLocked bounds it.
Fairness ==
  /\ \A c \in Caller : WF_vars(~panicked /\ Step(c)) /\ SF_vars(~panicked /\ Lock(c))
  /\ \A p \in Procs :
       /\ WF_vars(~panicked /\ Bind(p))
       /\ WF_vars(~panicked /\ Bootstrap(p))
       /\ WF_vars(~panicked /\ status[p] = "signalled" /\ Exit(p))

Spec == Init /\ [][Next]_vars

FairSpec == Spec /\ Fairness

-----------------------------------------------------------------------------
(* Properties.                                                             *)

\* Types; the processes built are those up to i.proc, and only a tor that lives
\* holds the ports (supervisor.go Restart, process.go).
TypeOK ==
  /\ proc \in Procs
  /\ status \in [Procs -> {"unborn", "new", "live", "signalled", "gone"}]
  /\ \A p \in Procs : status[p] = "unborn" <=> p > proc
  /\ port # 0 => Alive(port)
  /\ booted \subseteq Procs
  /\ startMu \in Caller \cup {None}
  /\ starting \in BOOLEAN
  /\ ready \in BOOLEAN
  /\ ctrl \in Caller \cup {None}
  /\ caller \in [Caller -> Calls]
  /\ overlapped \in BOOLEAN
  /\ panicked \in BOOLEAN

\* The comment on startMu: "A restart must never run alongside the Start it is
\* replacing: both write the torrc and spawn tor against the same ports and
\* DataDirectory".
AtMostOneTor == Cardinality({p \in Procs : Alive(p)}) <= 1

\* What makes a restart clean: no tor lives when the state is wiped or a process
\* is replaced, there is never a second one, and Ready speaks of a tor that has
\* bootstrapped.  It holds as long as nobody calls Restart or Stop while another
\* launch is asked for but not spawned; interrupting one that has spawned may end in
\* a panic, never in a second tor (supervisor.go Stop, Restart).
SoleRestartIsClean ==
  ~overlapped =>
    /\ AtMostOneTor
    /\ \A c \in Caller : caller[c].pc \in {"wipe", "swap"} => \A p \in Procs : ~Alive(p)
    /\ Ready => proc \in booted

\* Starting, which keeps the watchdog away from an instance, is up exactly while
\* a launch sequence runs, however the launch ends (supervisor.go startLocked).
StartingIsALaunch ==
  /\ TypeOK
  /\ starting <=> \E c \in Caller : caller[c].pc \in Launching

\* Every Start, Restart and Stop returns or takes the pool down with it, however
\* they overlap and whenever tor dies: nobody waits for ever on startMu, on a
\* control port or on a bootstrap of a tor that is gone (supervisor.go startLocked,
\* Stop).
EveryCallReturns ==
  \A c \in Caller : caller[c].pc # "idle" ~> caller[c].pc = "idle" \/ panicked

\* "stopping is how an in-flight Start is interrupted": a Stop during a launch ends
\* the launch and nothing more (supervisor.go Stop, control.go Close, command).
NeverPanics == ~panicked
=============================================================================
