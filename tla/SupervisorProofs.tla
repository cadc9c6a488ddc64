--------------------------- MODULE SupervisorProofs ---------------------------
(* What Supervisor promises of startMu and of the launches, for any number of *)
(* callers and of processes.                                                  *)
EXTENDS Supervisor, FiniteSetTheorems, TLAPS

-----------------------------------------------------------------------------
(* The invariants.                                                          *)

\* Where a caller holds startMu.
Locked == {"wipe", "swap", "begin"} \cup Launching

\* Each kind of call is where it passes through.
Kinds ==
  \A c \in Caller :
    /\ caller[c].pc \in {"wipe", "swap"} => caller[c].kind = "restart"
    /\ caller[c].pc \in {"stop", "signal", "reap"} => caller[c].kind \in {"stop", "restart"}
    /\ caller[c].pc \in {"lock", "begin", "spawn"} => caller[c].kind \in {"start", "restart"}

Mutex == \A c \in Caller : caller[c].pc \in Locked <=> startMu = c

\* The restarts that have yet to build their process.
Owed ==
  {c \in Caller :
     /\ caller[c].kind = "restart"
     /\ caller[c].pc \in {"stop", "signal", "reap", "lock", "wipe", "swap"}}

Room == proc + Cardinality(Owed) <= MaxProcs

Starts == starting <=> \E c \in Caller : caller[c].pc \in Launching

MutexInv == TypeOK /\ Starts /\ Kinds /\ Mutex /\ Room

\* What Stop has left, as long as launches do not overlap: a launch that is asked
\* for is the only one; it is after the newest process, or has seen it gone and not
\* replaced; and nothing but the newest process lives.
NewestOnly == \A p \in Procs : Alive(p) => p = proc

SoleLaunch == \A c, d \in Caller : Pending(c) /\ Pending(d) => c = d

Aimed ==
  \A c \in Caller :
    Pending(c) /\ caller[c].pc \in {"signal", "reap"} => caller[c].saw = proc

Cleared ==
  \A c \in Caller :
    Pending(c) /\ caller[c].pc \in {"lock", "wipe", "swap", "begin", "spawn"}
      => \A p \in Procs : ~Alive(p)

ReadyIsBooted ==
  /\ Ready => proc \in booted
  /\ \A c \in Caller : caller[c].pc = "spawn" => ~ready

Reported == \A c \in Caller : caller[c].pc = "report" => proc \in booted

Clean == NewestOnly /\ SoleLaunch /\ Aimed /\ Cleared /\ ReadyIsBooted /\ Reported

CleanInv == MutexInv /\ (~overlapped => Clean)

-----------------------------------------------------------------------------
(* What a caller's step does to the callers.                                *)

Pcs == {"idle", "stop", "signal", "reap", "lock", "wipe", "swap", "begin", "spawn",
        "connect", "boot", "poll", "report"}

\* The others are where they were.
Others(c) ==
  \A d \in Caller \ {c} :
    /\ caller'[d].pc = caller[d].pc
    /\ caller'[d].kind = caller[d].kind
    /\ caller'[d].saw = caller[d].saw

\* A caller goes on with its call.
LEMMA GotoCall ==
  ASSUME TypeOK, NEW c \in Caller, NEW pc \in Pcs, Goto(c, pc)
  PROVE  /\ caller' \in [Caller -> Calls]
         /\ caller'[c].pc = pc
         /\ caller'[c].kind = caller[c].kind
         /\ caller'[c].saw = caller[c].saw
         /\ Others(c)
<1>1. caller \in [Caller -> Calls] /\ caller[c] \in Calls
  BY DEF TypeOK
<1>2. caller' = [caller EXCEPT ![c] = [caller[c] EXCEPT !.pc = pc]]
  BY DEF Goto
<1>3. /\ [caller[c] EXCEPT !.pc = pc] \in Calls
      /\ [caller[c] EXCEPT !.pc = pc].pc = pc
      /\ [caller[c] EXCEPT !.pc = pc].kind = caller[c].kind
      /\ [caller[c] EXCEPT !.pc = pc].saw = caller[c].saw
  BY <1>1 DEF Calls, Pcs
<1>4. \A d \in Caller \ {c} : caller'[d] = caller[d]
  BY <1>1, <1>2
<1> QED
  BY <1>1, <1>2, <1>3, <1>4 DEF Others

\* A call is over.
LEMMA ReturnsCall ==
  ASSUME TypeOK, NEW c \in Caller, Returns(c)
  PROVE  /\ caller' \in [Caller -> Calls]
         /\ caller'[c].pc = "idle"
         /\ caller'[c].kind = "none"
         /\ Others(c)
<1>1. caller \in [Caller -> Calls]
  BY DEF TypeOK
<1>2. Idle \in Calls /\ Idle.pc = "idle" /\ Idle.kind = "none"
  BY DEF Idle, Calls
<1> QED
  BY <1>1, <1>2 DEF Returns, Others

\* After a Stop that worked, a Stop returns and a Restart goes on to the lock.
LEMMA StoppedCall ==
  ASSUME TypeOK, NEW c \in Caller, Stopped(c)
  PROVE  /\ caller' \in [Caller -> Calls]
         /\ \/ caller'[c].pc = "idle" /\ caller'[c].kind = "none"
            \/ /\ caller[c].kind # "stop" /\ caller'[c].pc = "lock"
               /\ caller'[c].kind = caller[c].kind
         /\ Others(c)
  BY GotoCall, ReturnsCall DEF Stopped, Pcs

\* A step that takes nobody across startMu or in or out of a launch.
LEMMA StaysAtTheLock ==
  ASSUME Mutex, Starts, NEW c \in Caller, Others(c), UNCHANGED <<startMu, starting>>,
         caller'[c].pc \in Locked <=> caller[c].pc \in Locked,
         caller'[c].pc \in Launching <=> caller[c].pc \in Launching
  PROVE  Mutex' /\ Starts'
<1>1. \A d \in Caller : caller'[d].pc \in Locked <=> caller[d].pc \in Locked
  BY DEF Others
<1>2. \A d \in Caller : caller'[d].pc \in Launching <=> caller[d].pc \in Launching
  BY DEF Others
<1> QED
  BY <1>1, <1>2 DEF Mutex, Starts

\* The one that holds startMu gives it back, and a launch that it ran is over.
LEMMA GivesTheLockBack ==
  ASSUME Mutex, Starts, NEW c \in Caller, Others(c), startMu' = None,
         caller[c].pc \in Locked, caller'[c].pc = "idle",
         starting' = FALSE \/ (UNCHANGED starting /\ caller[c].pc \notin Launching)
  PROVE  Mutex' /\ Starts'
<1>1. startMu = c
  BY DEF Mutex
<1>2. \A d \in Caller \ {c} : caller'[d].pc \notin Locked
  BY <1>1 DEF Mutex, Others
<1>3. \A d \in Caller : caller'[d].pc \notin Locked /\ caller'[d].pc \notin Launching
  BY <1>2 DEF Locked, Launching
<1>4. starting' = FALSE
  <2>1. CASE UNCHANGED starting /\ caller[c].pc \notin Launching
    <3>1. \A d \in Caller : caller[d].pc \notin Launching
      BY <1>1, <2>1 DEF Mutex, Locked
    <3> QED
      BY <2>1, <3>1 DEF Starts, TypeOK
  <2> QED
    BY <2>1
<1>5. \A d \in Caller : startMu' # d
  BY SupervisorAssumption
<1> QED
  BY <1>3, <1>4, <1>5 DEF Mutex, Starts

\* Callers are finitely many.
LEMMA OwedIsFinite == IsFiniteSet(Owed) /\ Cardinality(Owed) \in Nat
<1>1. Owed \in SUBSET Caller
  BY DEF Owed
<1> QED
  BY <1>1, FS_Subset, FS_CardinalityType, SupervisorAssumption

\* Room stays when no call comes to owe a process.
LEMMA RoomStays ==
  ASSUME TypeOK, Room, UNCHANGED proc, NEW c \in Caller, Others(c),
         \/ caller'[c].kind # "restart"
         \/ caller'[c].pc \notin {"stop", "signal", "reap", "lock", "wipe", "swap"}
         \/ c \in Owed
  PROVE  Room'
<1>1. Owed' \in SUBSET Owed
  BY DEF Owed, Others
<1>2. Cardinality(Owed') <= Cardinality(Owed) /\ Cardinality(Owed') \in Nat
  <2>1. IsFiniteSet(Owed) /\ IsFiniteSet(Owed')
    BY <1>1, OwedIsFinite, FS_Subset
  <2> HIDE DEF Owed
  <2> QED
    BY <1>1, <2>1, FS_Subset, FS_CardinalityType
<1> QED
  BY <1>2, OwedIsFinite, SupervisorAssumption DEF Room, TypeOK, Procs

-----------------------------------------------------------------------------
(* The lock.                                                                *)

LEMMA InitMutexInv == Init => MutexInv /\ (~overlapped => Clean)
<1> SUFFICES ASSUME Init PROVE MutexInv /\ Clean
  OBVIOUS
<1> USE SupervisorAssumption
<1>1. caller \in [Caller -> Calls]
  BY DEF Init, Idle, Calls
<1>2. \A c \in Caller :
        \/ c = First /\ caller[c].pc = "lock" /\ caller[c].kind = "start"
        \/ c # First /\ caller[c].pc = "idle" /\ caller[c].kind = "none"
  BY DEF Init, Idle
<1>3. TypeOK
  <2>1. status \in [Procs -> {"unborn", "new", "live", "signalled", "gone"}]
    BY DEF Init
  <2>2. \A p \in Procs : status[p] = "unborn" <=> p > proc
    BY DEF Init, Procs
  <2>3. proc \in Procs /\ port = 0 /\ booted = {} /\ startMu = None
        /\ starting = FALSE /\ ready = FALSE /\ ctrl = None /\ overlapped = FALSE
        /\ panicked = FALSE
    BY DEF Init, Procs
  <2> QED
    BY <1>1, <2>1, <2>2, <2>3 DEF TypeOK
<1>4. Owed = {}
  BY <1>2 DEF Owed
<1>5. Room
  BY <1>4, FS_EmptySet DEF Room, Init
<1>6. Starts /\ Kinds /\ Mutex
  BY <1>2 DEF Init, Starts, Kinds, Mutex, Locked, Launching
<1>7. \A p \in Procs : ~Alive(p)
  BY DEF Init, Alive
<1>8. \A c \in Caller : Pending(c) => c = First
  BY <1>2 DEF Pending
<1>9. Clean
  BY <1>2, <1>3, <1>7, <1>8
  DEF Clean, NewestOnly, SoleLaunch, Aimed, Cleared, ReadyIsBooted, Ready,
      Reported, TypeOK
<1> QED
  BY <1>3, <1>5, <1>6, <1>9 DEF MutexInv

LEMMA CallMutex ==
  ASSUME MutexInv, NEW c \in Caller, NEW kind \in {"restart", "stop"},
         NEW wipe \in BOOLEAN, Call(c, kind, wipe)
  PROVE  /\ MutexInv'
         /\ Others(c)
         /\ caller'[c].pc = "stop" /\ caller'[c].kind = kind
<1> USE DEF MutexInv, Call, tor, inst
<1>1. caller[c].pc = "idle" /\ caller[c].kind = "none"
  BY DEF Idle
<1>2. /\ caller' \in [Caller -> Calls]
      /\ caller'[c].pc = "stop" /\ caller'[c].kind = kind /\ Others(c)
  <2>1. caller \in [Caller -> Calls]
    BY DEF TypeOK
  <2> DEFINE r == [Idle EXCEPT !.pc = "stop", !.kind = kind, !.wipe = wipe]
  <2>2. caller' = [caller EXCEPT ![c] = r]
    OBVIOUS
  <2>3. r \in Calls /\ r.pc = "stop" /\ r.kind = kind
    BY DEF Calls, Idle
  <2> HIDE DEF r
  <2> QED
    BY <2>1, <2>2, <2>3 DEF Others
<1>3. TypeOK'
  BY <1>2 DEF TypeOK, Alive
<1>4. Mutex' /\ Starts'
  BY <1>1, <1>2, StaysAtTheLock DEF Locked, Launching
<1>5. Kinds'
  BY <1>2 DEF Kinds, Others
<1>6. CASE kind = "stop"
  <2>1. Room'
    BY <1>2, <1>6, RoomStays
  <2> QED
    BY <1>2, <1>3, <1>4, <1>5, <2>1
<1>7. CASE kind = "restart"
  <2> DEFINE Restarts == {d \in Caller : caller[d].kind = "restart"}
  <2>1. proc + Cardinality(Restarts) < MaxProcs
    BY <1>7
  <2>2. Owed \in SUBSET Restarts /\ IsFiniteSet(Restarts)
    BY FS_Subset, SupervisorAssumption DEF Owed
  <2>3. Owed' = Owed \cup {c} /\ c \notin Owed
    BY <1>1, <1>2, <1>7 DEF Owed, Others
  <2>4. Cardinality(Owed') = Cardinality(Owed) + 1
        /\ Cardinality(Owed) <= Cardinality(Restarts)
        /\ Cardinality(Restarts) \in Nat
    <3> HIDE DEF Owed, Restarts
    <3> QED
      BY <2>2, <2>3, OwedIsFinite, FS_AddElement, FS_Subset, FS_CardinalityType
  <2>5. Room'
    BY <2>1, <2>4, OwedIsFinite, SupervisorAssumption DEF Room, TypeOK, Procs
  <2> QED
    BY <1>2, <1>3, <1>4, <1>5, <2>5
<1> QED
  BY <1>6, <1>7

LEMMA TakeMutex ==
  ASSUME MutexInv, NEW c \in Caller, Take(c)
  PROVE  /\ MutexInv'
         /\ Others(c)
         /\ caller'[c].pc = "signal" /\ caller'[c].kind = caller[c].kind
         /\ caller'[c].saw = proc
<1> USE DEF MutexInv, Take, tor
<1>1. /\ caller' \in [Caller -> Calls]
      /\ caller'[c].pc = "signal" /\ caller'[c].kind = caller[c].kind
      /\ caller'[c].saw = proc
      /\ Others(c)
  <2>1. caller \in [Caller -> Calls] /\ proc \in Procs
    BY DEF TypeOK
  <2>2. [caller[c] EXCEPT !.pc = "signal", !.saw = proc] \in Calls
        /\ [caller[c] EXCEPT !.pc = "signal", !.saw = proc].pc = "signal"
        /\ [caller[c] EXCEPT !.pc = "signal", !.saw = proc].kind = caller[c].kind
        /\ [caller[c] EXCEPT !.pc = "signal", !.saw = proc].saw = proc
    BY <2>1 DEF Calls
  <2>3. \A d \in Caller : /\ [caller[d] EXCEPT !.conn = 0] \in Calls
                          /\ [caller[d] EXCEPT !.conn = 0].pc = caller[d].pc
                          /\ [caller[d] EXCEPT !.conn = 0].kind = caller[d].kind
                          /\ [caller[d] EXCEPT !.conn = 0].saw = caller[d].saw
    BY <2>1 DEF Calls
  <2> QED
    BY <2>1, <2>2, <2>3 DEF Others
<1>2. TypeOK'
  BY <1>1 DEF TypeOK, Alive
<1>3. Mutex' /\ Starts'
  BY <1>1, StaysAtTheLock DEF Locked, Launching
<1>4. Kinds'
  BY <1>1 DEF Kinds, Others
<1>5. Room'
  BY <1>1, RoomStays DEF Owed
<1> QED
  BY <1>1, <1>2, <1>3, <1>4, <1>5

LEMMA SignalMutex ==
  ASSUME MutexInv, NEW c \in Caller, Signal(c)
  PROVE  /\ MutexInv'
         /\ Others(c)
         /\ \/ caller'[c].pc = "idle" /\ caller'[c].kind = "none"
            \/ /\ caller[c].kind # "stop" /\ caller'[c].pc = "lock"
               /\ caller'[c].kind = caller[c].kind /\ ~Alive(caller[c].saw)
            \/ /\ caller'[c].pc = "reap" /\ caller'[c].kind = caller[c].kind
               /\ caller'[c].saw = caller[c].saw
         /\ \A p : Alive(p)' <=> Alive(p)
<1> USE DEF MutexInv, Signal, inst
<1>1. /\ caller' \in [Caller -> Calls]
      /\ Others(c)
      /\ \/ caller'[c].pc = "idle" /\ caller'[c].kind = "none"
         \/ /\ caller[c].kind # "stop" /\ caller'[c].pc = "lock"
            /\ caller'[c].kind = caller[c].kind /\ ~Alive(caller[c].saw)
         \/ /\ caller'[c].pc = "reap" /\ caller'[c].kind = caller[c].kind
            /\ caller'[c].saw = caller[c].saw
  BY StoppedCall, ReturnsCall, GotoCall DEF Pcs
<1>2. /\ status' \in [Procs -> {"unborn", "new", "live", "signalled", "gone"}]
      /\ \A p : Alive(p)' <=> Alive(p)
      /\ \A p \in Procs : status'[p] = "unborn" <=> status[p] = "unborn"
  BY DEF TypeOK, Alive
<1>3. TypeOK'
  BY <1>1, <1>2 DEF TypeOK
<1>4. Mutex' /\ Starts'
  BY <1>1, StaysAtTheLock DEF Locked, Launching
<1>5. Kinds'
  BY <1>1 DEF Kinds, Others
<1>6. Room'
  BY <1>1, RoomStays DEF Owed
<1> QED
  BY <1>1, <1>2, <1>3, <1>4, <1>5, <1>6

LEMMA ReapMutex ==
  ASSUME MutexInv, NEW c \in Caller, Reap(c)
  PROVE  /\ MutexInv'
         /\ Others(c)
         /\ \/ caller'[c].pc = "idle" /\ caller'[c].kind = "none"
            \/ /\ caller[c].kind # "stop" /\ caller'[c].pc = "lock"
               /\ caller'[c].kind = caller[c].kind
<1> USE DEF MutexInv, Reap, tor, inst
<1>1. /\ caller' \in [Caller -> Calls]
      /\ Others(c)
      /\ \/ caller'[c].pc = "idle" /\ caller'[c].kind = "none"
         \/ /\ caller[c].kind # "stop" /\ caller'[c].pc = "lock"
            /\ caller'[c].kind = caller[c].kind
  BY StoppedCall
<1>2. TypeOK'
  BY <1>1 DEF TypeOK, Alive
<1>3. Mutex' /\ Starts'
  BY <1>1, StaysAtTheLock DEF Locked, Launching
<1>4. Kinds'
  BY <1>1 DEF Kinds, Others
<1>5. Room'
  BY <1>1, RoomStays DEF Owed
<1> QED
  BY <1>1, <1>2, <1>3, <1>4, <1>5

LEMMA LockMutex ==
  ASSUME MutexInv, NEW c \in Caller, Lock(c)
  PROVE  /\ MutexInv'
         /\ Others(c)
         /\ caller'[c].pc \in {"begin", "wipe", "swap"}
         /\ caller'[c].kind = caller[c].kind
<1> USE DEF MutexInv, Lock, tor
<1>1. /\ caller' \in [Caller -> Calls]
      /\ Others(c)
      /\ caller'[c].kind = caller[c].kind
      /\ IF caller[c].kind = "start" THEN caller'[c].pc = "begin"
                                     ELSE caller'[c].pc \in {"wipe", "swap"}
  BY GotoCall DEF Pcs
<1>2. TypeOK'
  BY <1>1 DEF TypeOK, Alive
<1>3. \A d \in Caller : caller[d].pc \notin Locked
  BY SupervisorAssumption DEF Mutex
<1>4. Mutex'
  BY <1>1, <1>3 DEF Mutex, Locked, Others
<1>5. Starts'
  BY <1>1 DEF Starts, Others, Launching
<1>6. Kinds'
  BY <1>1 DEF Kinds, Others
<1>7. Room'
  BY <1>1, RoomStays DEF Owed
<1> QED
  BY <1>1, <1>2, <1>4, <1>5, <1>6, <1>7

LEMMA WipeMutex ==
  ASSUME MutexInv, NEW c \in Caller, Wipe(c)
  PROVE  /\ MutexInv'
         /\ Others(c)
         /\ \/ caller'[c].pc = "idle" /\ caller'[c].kind = "none"
            \/ caller'[c].pc = "swap" /\ caller'[c].kind = caller[c].kind
<1> USE DEF MutexInv, Wipe, tor
<1>1. /\ caller' \in [Caller -> Calls]
      /\ Others(c)
      /\ \/ /\ caller'[c].pc = "idle" /\ caller'[c].kind = "none" /\ startMu' = None
         \/ /\ caller'[c].pc = "swap" /\ caller'[c].kind = caller[c].kind
            /\ UNCHANGED startMu
  BY ReturnsCall, GotoCall DEF Pcs
<1>2. TypeOK'
  BY <1>1 DEF TypeOK, Alive
<1>3. Mutex' /\ Starts'
  BY <1>1, StaysAtTheLock, GivesTheLockBack DEF Locked, Launching
<1>4. Kinds'
  BY <1>1 DEF Kinds, Others
<1>5. Room'
  BY <1>1, RoomStays DEF Owed
<1> QED
  BY <1>1, <1>2, <1>3, <1>4, <1>5

\* There is a number left for the process a restart builds.
LEMMA SwapMutex ==
  ASSUME MutexInv, NEW c \in Caller, Swap(c)
  PROVE  /\ MutexInv'
         /\ Others(c)
         /\ caller'[c].pc = "begin" /\ caller'[c].kind = caller[c].kind
<1> USE DEF MutexInv, Swap
<1>1. /\ caller' \in [Caller -> Calls]
      /\ Others(c)
      /\ caller'[c].pc = "begin" /\ caller'[c].kind = caller[c].kind
  BY GotoCall DEF Pcs
<1>2. caller[c].kind = "restart"
  BY DEF Kinds
<1>3. Owed' = Owed \ {c} /\ c \in Owed
  BY <1>1, <1>2 DEF Owed, Others
<1>4. Cardinality(Owed') = Cardinality(Owed) - 1 /\ Cardinality(Owed') \in Nat
  <2>1. IsFiniteSet(Owed')
    BY <1>3, OwedIsFinite, FS_RemoveElement
  <2> HIDE DEF Owed
  <2> QED
    BY <1>3, <2>1, OwedIsFinite, FS_RemoveElement, FS_CardinalityType
<1>5. Room' /\ proc + 1 \in Procs
  BY <1>4, OwedIsFinite, SupervisorAssumption DEF Room, TypeOK, Procs
<1>6. TypeOK'
  <2>1. status' \in [Procs -> {"unborn", "new", "live", "signalled", "gone"}]
    BY <1>5 DEF TypeOK
  <2>2. \A p \in Procs : status'[p] = "unborn" <=> p > proc'
    BY <1>5 DEF TypeOK, Procs
  <2>3. port # 0 => port # proc + 1
    BY DEF TypeOK, Alive, Procs
  <2>4. port' # 0 => Alive(port)'
    BY <1>5, <2>3 DEF TypeOK, Alive
  <2> QED
    BY <1>1, <1>5, <2>1, <2>2, <2>4 DEF TypeOK
<1>7. Mutex' /\ Starts'
  BY <1>1, StaysAtTheLock DEF Locked, Launching
<1>8. Kinds'
  BY <1>1, <1>2 DEF Kinds, Others
<1> QED
  BY <1>1, <1>5, <1>6, <1>7, <1>8

LEMMA BeginMutex ==
  ASSUME MutexInv, NEW c \in Caller, Begin(c)
  PROVE  /\ MutexInv'
         /\ Others(c)
         /\ caller'[c].pc = "spawn" /\ caller'[c].kind = caller[c].kind
<1> USE DEF MutexInv, Begin, tor
<1>1. /\ caller' \in [Caller -> Calls]
      /\ Others(c)
      /\ caller'[c].pc = "spawn" /\ caller'[c].kind = caller[c].kind
  BY GotoCall DEF Pcs
<1>2. TypeOK'
  BY <1>1 DEF TypeOK, Alive
<1>3. Mutex'
  BY <1>1 DEF Mutex, Others, Locked, Launching
<1>4. Starts'
  BY <1>1 DEF Starts, Launching
<1>5. Kinds'
  BY <1>1 DEF Kinds, Others
<1>6. Room'
  BY <1>1, RoomStays DEF Owed
<1> QED
  BY <1>1, <1>2, <1>3, <1>4, <1>5, <1>6

LEMMA SpawnMutex ==
  ASSUME MutexInv, NEW c \in Caller, Spawn(c)
  PROVE  /\ MutexInv'
         /\ Others(c)
         /\ \/ /\ caller'[c].pc = "idle" /\ caller'[c].kind = "none" /\ UNCHANGED status
            \/ /\ caller'[c].pc = "connect" /\ caller'[c].kind = caller[c].kind
               /\ status' = [status EXCEPT ![proc] = "live"]
<1> USE DEF MutexInv, Spawn
<1>1. /\ caller' \in [Caller -> Calls]
      /\ Others(c)
      /\ \/ /\ caller'[c].pc = "idle" /\ caller'[c].kind = "none" /\ UNCHANGED status
            /\ startMu' = None /\ starting' = FALSE
         \/ /\ caller'[c].pc = "connect" /\ caller'[c].kind = caller[c].kind
            /\ status[proc] = "new"
            /\ status' = [status EXCEPT ![proc] = "live"]
            /\ UNCHANGED <<startMu, starting>>
  BY ReturnsCall, GotoCall DEF Pcs, Finished
<1>2. TypeOK'
  <2>1. /\ status' \in [Procs -> {"unborn", "new", "live", "signalled", "gone"}]
        /\ \A p \in Procs : status'[p] = "unborn" <=> status[p] = "unborn"
        /\ \A p \in Procs : Alive(p) => Alive(p)'
    BY <1>1 DEF TypeOK, Alive
  <2>2. port' # 0 => Alive(port)'
    BY <2>1 DEF TypeOK, Alive
  <2> QED
    BY <1>1, <2>1, <2>2 DEF TypeOK
<1>3. Mutex' /\ Starts'
  BY <1>1, StaysAtTheLock, GivesTheLockBack DEF Locked, Launching
<1>4. Kinds'
  BY <1>1 DEF Kinds, Others
<1>5. Room'
  BY <1>1, RoomStays DEF Owed
<1> QED
  BY <1>1, <1>2, <1>3, <1>4, <1>5

LEMMA ConnectMutex ==
  ASSUME MutexInv, NEW c \in Caller, Connect(c)
  PROVE  /\ MutexInv'
         /\ Others(c)
         /\ \/ caller'[c].pc = "idle" /\ caller'[c].kind = "none"
            \/ caller'[c].pc = "boot" /\ caller'[c].kind = caller[c].kind
<1> USE DEF MutexInv, Connect, tor
<1>1. /\ caller' \in [Caller -> Calls]
      /\ Others(c)
      /\ \/ /\ caller'[c].pc = "idle" /\ caller'[c].kind = "none"
            /\ startMu' = None /\ starting' = FALSE
         \/ /\ caller'[c].pc = "boot" /\ caller'[c].kind = caller[c].kind
            /\ UNCHANGED <<startMu, starting>>
  <2>1. CASE Finished(c)
    BY <2>1, ReturnsCall DEF Finished
  <2>2. CASE port # 0 /\ caller' = [caller EXCEPT ![c].pc = "boot", ![c].conn = port]
             /\ UNCHANGED <<startMu, starting>>
    <3> DEFINE r == [caller[c] EXCEPT !.pc = "boot", !.conn = port]
    <3>1. caller \in [Caller -> Calls] /\ port \in Procs
      BY <2>2 DEF TypeOK, Alive
    <3>2. caller' = [caller EXCEPT ![c] = r]
      BY <2>2, <3>1 DEF Calls
    <3>3. r \in Calls /\ r.pc = "boot" /\ r.kind = caller[c].kind
      BY <3>1 DEF Calls
    <3> HIDE DEF r
    <3>4. \A d \in Caller \ {c} : caller'[d] = caller[d]
      BY <3>1, <3>2
    <3> QED
      BY <2>2, <3>1, <3>2, <3>3, <3>4 DEF Others
  <2> QED
    BY <2>1, <2>2
<1>2. TypeOK'
  BY <1>1 DEF TypeOK, Alive
<1>3. Mutex' /\ Starts'
  BY <1>1, StaysAtTheLock, GivesTheLockBack DEF Locked, Launching
<1>4. Kinds'
  BY <1>1 DEF Kinds, Others
<1>5. Room'
  BY <1>1, RoomStays DEF Owed
<1> QED
  BY <1>1, <1>2, <1>3, <1>4, <1>5

\* A launch goes on, or is over.
LEMMA LaunchMutex ==
  ASSUME MutexInv, NEW c \in Caller,
         UNCHANGED <<tor, proc>>, ctrl' = ctrl, ready' \in BOOLEAN,
         UNCHANGED <<overlapped, panicked>>,
         caller[c].pc \in Launching,
         \/ Finished(c)
         \/ Goto(c, "boot") /\ UNCHANGED <<startMu, starting>>
         \/ Goto(c, "poll") /\ UNCHANGED <<startMu, starting>>
         \/ Goto(c, "report") /\ UNCHANGED <<startMu, starting>>
  PROVE  /\ MutexInv'
         /\ Others(c)
         /\ \/ caller'[c].pc = "idle" /\ caller'[c].kind = "none"
            \/ Goto(c, "boot") /\ caller'[c].pc = "boot"
            \/ Goto(c, "poll") /\ caller'[c].pc = "poll"
            \/ Goto(c, "report") /\ caller'[c].pc = "report"
<1> USE DEF MutexInv, tor
<1>1. /\ caller' \in [Caller -> Calls]
      /\ Others(c)
      /\ \/ /\ caller'[c].pc = "idle" /\ caller'[c].kind = "none"
            /\ startMu' = None /\ starting' = FALSE
         \/ /\ \/ Goto(c, "boot") /\ caller'[c].pc = "boot"
               \/ Goto(c, "poll") /\ caller'[c].pc = "poll"
               \/ Goto(c, "report") /\ caller'[c].pc = "report"
            /\ UNCHANGED <<startMu, starting>>
  BY ReturnsCall, GotoCall DEF Finished, Pcs
<1>2. TypeOK'
  BY <1>1 DEF TypeOK, Alive
<1>3. Mutex' /\ Starts'
  BY <1>1, StaysAtTheLock, GivesTheLockBack DEF Locked, Launching
<1>4. Kinds'
  BY <1>1 DEF Kinds, Others
<1>5. Room'
  BY <1>1, RoomStays
<1> QED
  BY <1>1, <1>2, <1>3, <1>4, <1>5

LEMMA PollMutex ==
  ASSUME MutexInv, NEW c \in Caller, Poll(c)
  PROVE  /\ MutexInv'
         /\ Others(c)
         /\ \/ caller'[c].pc = "idle" /\ caller'[c].kind = "none"
            \/ caller'[c].pc = "poll"
<1>1. /\ UNCHANGED <<tor, proc>> /\ ctrl' = ctrl /\ ready' \in BOOLEAN
      /\ UNCHANGED <<overlapped, panicked>>
      /\ caller[c].pc \in Launching
  BY DEF Poll, Launching, MutexInv, TypeOK
<1>2. CASE Finished(c)
  <2>1. caller'[c].pc = "idle" /\ caller'[c].kind = "none"
    BY <1>2, ReturnsCall DEF Finished, MutexInv
  <2> QED
    BY <1>1, <1>2, <2>1, LaunchMutex
<1>3. CASE Goto(c, "poll") /\ UNCHANGED <<startMu, starting>>
  <2>1. caller'[c].pc = "poll"
    BY <1>3, GotoCall DEF Pcs, MutexInv
  <2> QED
    BY <1>1, <1>3, <2>1, LaunchMutex
<1> QED
  BY <1>2, <1>3 DEF Poll

LEMMA AnswerMutex ==
  ASSUME MutexInv, NEW c \in Caller, Answer(c)
  PROVE  /\ MutexInv'
         /\ Others(c)
         /\ \/ caller'[c].pc = "idle" /\ caller'[c].kind = "none"
            \/ caller'[c].pc = "boot"
            \/ /\ caller'[c].pc = "report"
               /\ Alive(caller[c].conn) /\ caller[c].conn \in booted
<1>1. /\ UNCHANGED <<tor, proc>> /\ ctrl' = ctrl /\ ready' \in BOOLEAN
      /\ UNCHANGED <<overlapped, panicked>>
      /\ caller[c].pc \in Launching
  BY DEF Answer, Launching, MutexInv, TypeOK
<1>2. CASE Finished(c)
  <2>1. caller'[c].pc = "idle" /\ caller'[c].kind = "none"
    BY <1>2, ReturnsCall DEF Finished, MutexInv
  <2> QED
    BY <1>1, <1>2, <2>1, LaunchMutex
<1>3. CASE Alive(caller[c].conn) /\ caller[c].conn \in booted /\ Goto(c, "report")
           /\ UNCHANGED <<startMu, starting>>
  BY <1>1, <1>3, LaunchMutex, GotoCall DEF Pcs, MutexInv
<1>4. CASE Goto(c, "boot") /\ UNCHANGED <<startMu, starting>>
  BY <1>1, <1>4, LaunchMutex, GotoCall DEF Pcs, MutexInv
<1> QED
  BY <1>2, <1>3, <1>4 DEF Answer

LEMMA LostMutex ==
  ASSUME MutexInv, NEW c \in Caller, Lost(c)
  PROVE  MutexInv' /\ UNCHANGED <<tor, inst, caller, overlapped>>
  BY DEF Lost, MutexInv, tor, inst, TypeOK, Alive, Starts, Kinds, Mutex, Room, Owed

LEMMA ReportMutex ==
  ASSUME MutexInv, NEW c \in Caller, Report(c)
  PROVE  /\ MutexInv'
         /\ Others(c)
         /\ caller'[c].pc = "idle" /\ caller'[c].kind = "none"
<1>1. Finished(c) /\ caller[c].pc \in Launching
  BY DEF Report, Launching
<1>2. caller'[c].pc = "idle" /\ caller'[c].kind = "none" /\ Others(c)
  BY <1>1, ReturnsCall DEF Finished, MutexInv
<1> QED
  BY <1>1, <1>2, LaunchMutex DEF Report

\* What tor does concerns no caller, and a process that has gone does not come back.
LEMMA TorMutex ==
  ASSUME MutexInv, NEW p \in Procs, Bind(p) \/ Bootstrap(p) \/ Exit(p)
  PROVE  /\ MutexInv'
         /\ \A q \in Procs : Alive(q)' => Alive(q)
         /\ booted \subseteq booted'
         /\ UNCHANGED <<inst, caller, overlapped>>
<1> USE DEF MutexInv, Bind, Bootstrap, Exit
<1>1. UNCHANGED <<inst, caller, overlapped>>
  OBVIOUS
<1>2. \A q \in Procs : Alive(q)' => Alive(q)
  BY DEF TypeOK, Alive
<1>3. TypeOK'
  <2>1. status' \in [Procs -> {"unborn", "new", "live", "signalled", "gone"}]
    BY DEF TypeOK
  <2>2. \A q \in Procs : status'[q] = "unborn" <=> status[q] = "unborn"
    BY DEF TypeOK, Alive
  <2>3. port' # 0 => Alive(port)'
    BY DEF TypeOK, Alive
  <2>4. booted' \subseteq Procs
    BY DEF TypeOK
  <2> QED
    BY <1>1, <2>1, <2>2, <2>3, <2>4 DEF TypeOK, inst
<1>4. Starts' /\ Kinds' /\ Mutex' /\ Room'
  BY <1>1 DEF inst, Starts, Kinds, Mutex, Room, Owed
<1> QED
  BY <1>1, <1>2, <1>3, <1>4

LEMMA NextMutexInv == MutexInv /\ [Next]_vars => MutexInv'
<1> SUFFICES ASSUME MutexInv, [Next]_vars PROVE MutexInv'
  OBVIOUS
<1>1. CASE UNCHANGED vars
  BY <1>1 DEF MutexInv, vars, tor, inst, TypeOK, Alive, Starts, Kinds, Mutex, Room, Owed
<1>2. ASSUME NEW c \in Caller, Step(c) PROVE MutexInv'
  BY <1>2, TakeMutex, SignalMutex, ReapMutex, LockMutex, WipeMutex, SwapMutex,
     BeginMutex, SpawnMutex, ConnectMutex, PollMutex, AnswerMutex,
     LostMutex, ReportMutex DEF Step
<1> QED
  BY <1>1, <1>2, CallMutex, TorMutex DEF Next

\* Starting, which keeps the watchdog away from an instance, is up exactly while a
\* launch sequence runs, whoever runs it and however it ends (supervisor.go
\* startLocked).
THEOREM StartingIsAlwaysALaunch == Spec => []StartingIsALaunch
<1>1. MutexInv => StartingIsALaunch
  BY DEF MutexInv, StartingIsALaunch, Starts
<1> QED
  BY <1>1, InitMutexInv, NextMutexInv, PTL DEF Spec

-----------------------------------------------------------------------------
(* Restarts that do not overlap.                                            *)

\* Who is in a launch, and where, depends on the callers' pc, kind and saw alone.
LEMMA OthersPending ==
  ASSUME NEW c \in Caller, Others(c)
  PROVE  \A d \in Caller \ {c} : Pending(d)' <=> Pending(d)
  BY DEF Others, Pending

\* A step of a caller that leaves the processes alone keeps Clean, when it brings
\* nobody into a launch, and nobody past the stop of one while a process lives.
LEMMA CallerKeepsClean ==
  ASSUME Clean, NEW c \in Caller, Others(c), UNCHANGED <<proc, booted>>,
         caller'[c].pc = "report" => proc \in booted,
         \A p \in Procs : Alive(p)' <=> Alive(p),
         Pending(c)' => Pending(c),
         Pending(c)' /\ caller'[c].pc \in {"signal", "reap"} => caller'[c].saw = proc,
         Pending(c)' /\ caller'[c].pc \in {"lock", "wipe", "swap", "begin", "spawn"}
           => \A p \in Procs : ~Alive(p),
         ReadyIsBooted'
  PROVE  Clean'
<1>1. NewestOnly'
  BY DEF Clean, NewestOnly
<1>2. SoleLaunch'
  BY OthersPending DEF Clean, SoleLaunch
<1>3. Aimed'
  BY OthersPending DEF Clean, Aimed, Others
<1>4. Cleared'
  BY OthersPending DEF Clean, Cleared, Others
<1>5. Reported'
  BY DEF Clean, Reported, Others
<1> QED
  BY <1>1, <1>2, <1>3, <1>4, <1>5 DEF Clean

\* While ready is left alone and nobody comes to spawn, Ready speaks of a tor that
\* has bootstrapped.
LEMMA ReadyStaysBooted ==
  ASSUME ReadyIsBooted, NEW c \in Caller, Others(c), UNCHANGED <<proc, booted>>,
         ready' = FALSE \/ (UNCHANGED ready /\ caller'[c].pc # "spawn"),
         ready' \in BOOLEAN,
         Alive(proc)' => Alive(proc)
  PROVE  ReadyIsBooted'
  BY DEF ReadyIsBooted, Ready, Others

LEMMA CallClean ==
  ASSUME MutexInv, Clean, NEW c \in Caller, NEW kind \in {"restart", "stop"},
         NEW wipe \in BOOLEAN, Call(c, kind, wipe), ~overlapped'
  PROVE  Clean'
<1>1. \A d \in Caller : ~Pending(d)
  BY DEF Call
<1>2. Others(c) /\ caller'[c].pc = "stop"
  BY CallMutex
<1>3. \A d \in Caller : Pending(d)' => d = c
  BY <1>1, <1>2, OthersPending
<1>4. UNCHANGED <<tor, inst>>
  BY DEF Call
<1>5. \A p \in Procs : Alive(p)' <=> Alive(p)
  BY <1>4 DEF Alive, tor
<1>6. ReadyIsBooted'
  BY <1>2, <1>4, <1>5 DEF Clean, ReadyIsBooted, Ready, Others, tor, inst, Alive
<1>7. NewestOnly'
  BY <1>4, <1>5 DEF Clean, NewestOnly, inst
<1>8. Reported'
  BY <1>2, <1>4 DEF Clean, Reported, Others, tor, inst
<1> QED
  BY <1>2, <1>3, <1>6, <1>7, <1>8 DEF Clean, SoleLaunch, Aimed, Cleared

LEMMA TakeClean ==
  ASSUME MutexInv, Clean, NEW c \in Caller, Take(c)
  PROVE  Clean'
<1>1. Others(c) /\ caller'[c].pc = "signal" /\ caller'[c].kind = caller[c].kind
      /\ caller'[c].saw = proc
  BY TakeMutex
<1>2. UNCHANGED <<tor, proc>> /\ ready' = FALSE
  BY DEF Take
<1>3. \A p : Alive(p)' <=> Alive(p)
  BY <1>2 DEF Alive, tor
<1>4. Pending(c)' => Pending(c)
  BY <1>1 DEF Pending, Take
<1>5. ReadyIsBooted'
  BY <1>2 DEF ReadyIsBooted, Ready
<1> QED
  BY <1>1, <1>2, <1>3, <1>4, <1>5, CallerKeepsClean DEF tor

\* The process a launch has found dead is the newest one, and no other lives.
LEMMA SignalClean ==
  ASSUME MutexInv, Clean, NEW c \in Caller, Signal(c)
  PROVE  Clean'
<1>1. /\ Others(c)
      /\ \/ caller'[c].pc = "idle" /\ caller'[c].kind = "none"
         \/ /\ caller[c].kind # "stop" /\ caller'[c].pc = "lock"
            /\ caller'[c].kind = caller[c].kind /\ ~Alive(caller[c].saw)
         \/ /\ caller'[c].pc = "reap" /\ caller'[c].kind = caller[c].kind
            /\ caller'[c].saw = caller[c].saw
      /\ \A p : Alive(p)' <=> Alive(p)
  BY SignalMutex
<1>2. UNCHANGED <<booted, inst>> /\ caller[c].pc = "signal"
  BY DEF Signal
<1>3. Pending(c)' => Pending(c)
  BY <1>1, <1>2 DEF Pending
<1>4. Pending(c) => caller[c].saw = proc
  BY <1>2 DEF Clean, Aimed
<1>5. ReadyIsBooted'
  BY <1>1, <1>2, ReadyStaysBooted DEF Clean, MutexInv, TypeOK, inst
<1>6. Pending(c) /\ ~Alive(caller[c].saw) => \A p \in Procs : ~Alive(p)
  BY <1>4 DEF Clean, NewestOnly
<1>7. Pending(c)' => \/ caller'[c].pc = "reap" /\ caller'[c].saw = proc
                     \/ caller'[c].pc = "lock" /\ \A p \in Procs : ~Alive(p)
  BY <1>1, <1>3, <1>4, <1>6 DEF Pending
<1>8. UNCHANGED proc
  BY <1>2 DEF inst
<1>9. /\ Pending(c)' /\ caller'[c].pc \in {"signal", "reap"} => caller'[c].saw = proc
      /\ Pending(c)' /\ caller'[c].pc \in {"lock", "wipe", "swap", "begin", "spawn"}
           => \A p \in Procs : ~Alive(p)
  BY <1>7
<1> QED
  BY <1>1, <1>2, <1>3, <1>5, <1>8, <1>9, CallerKeepsClean

LEMMA ReapClean ==
  ASSUME MutexInv, Clean, NEW c \in Caller, Reap(c)
  PROVE  Clean'
<1>1. /\ Others(c)
      /\ \/ caller'[c].pc = "idle" /\ caller'[c].kind = "none"
         \/ /\ caller[c].kind # "stop" /\ caller'[c].pc = "lock"
            /\ caller'[c].kind = caller[c].kind
  BY ReapMutex
<1>2. /\ UNCHANGED <<tor, inst>> /\ caller[c].pc = "reap"
      /\ status[caller[c].saw] = "gone"
  BY DEF Reap
<1>3. \A p : Alive(p)' <=> Alive(p)
  BY <1>2 DEF Alive, tor
<1>4. Pending(c)' => Pending(c)
  BY <1>1, <1>2 DEF Pending
<1>5. Pending(c) => \A p \in Procs : ~Alive(p)
  BY <1>2 DEF Clean, Aimed, NewestOnly, Alive
<1>6. ReadyIsBooted'
  BY <1>1, <1>2, <1>3, ReadyStaysBooted DEF Clean, MutexInv, TypeOK, inst, tor
<1>7. Pending(c)' => caller'[c].pc = "lock"
  BY <1>1 DEF Pending
<1> QED
  BY <1>1, <1>2, <1>3, <1>4, <1>5, <1>6, <1>7, CallerKeepsClean DEF inst, tor

LEMMA LockClean ==
  ASSUME MutexInv, Clean, NEW c \in Caller, Lock(c)
  PROVE  Clean'
<1>1. /\ Others(c)
      /\ caller'[c].pc \in {"begin", "wipe", "swap"}
      /\ caller'[c].kind = caller[c].kind
  BY LockMutex
<1>2. UNCHANGED <<tor, proc, ready>> /\ caller[c].pc = "lock"
  BY DEF Lock
<1>3. \A p : Alive(p)' <=> Alive(p)
  BY <1>2 DEF Alive, tor
<1>4. Pending(c)' => Pending(c)
  BY <1>1, <1>2 DEF Pending
<1>5. Pending(c) => \A p \in Procs : ~Alive(p)
  BY <1>2 DEF Clean, Cleared
<1>6. ReadyIsBooted'
  BY <1>1, <1>2, <1>3, ReadyStaysBooted DEF Clean, MutexInv, TypeOK, tor
<1> QED
  BY <1>1, <1>2, <1>3, <1>4, <1>5, <1>6, CallerKeepsClean DEF tor

LEMMA WipeClean ==
  ASSUME MutexInv, Clean, NEW c \in Caller, Wipe(c)
  PROVE  Clean'
<1>1. /\ Others(c)
      /\ \/ caller'[c].pc = "idle" /\ caller'[c].kind = "none"
         \/ caller'[c].pc = "swap" /\ caller'[c].kind = caller[c].kind
  BY WipeMutex
<1>2. UNCHANGED <<tor, proc, ready>> /\ caller[c].pc = "wipe"
  BY DEF Wipe
<1>3. \A p : Alive(p)' <=> Alive(p)
  BY <1>2 DEF Alive, tor
<1>4. Pending(c)' => Pending(c) /\ caller'[c].pc = "swap"
  BY <1>1, <1>2 DEF Pending
<1>5. Pending(c) => \A p \in Procs : ~Alive(p)
  BY <1>2 DEF Clean, Cleared
<1>6. ReadyIsBooted'
  BY <1>1, <1>2, <1>3, ReadyStaysBooted DEF Clean, MutexInv, TypeOK, tor
<1> QED
  BY <1>1, <1>2, <1>3, <1>4, <1>5, <1>6, CallerKeepsClean DEF tor

\* The old process does not live, and the new one does not live yet.
LEMMA SwapClean ==
  ASSUME MutexInv, Clean, NEW c \in Caller, Swap(c)
  PROVE  Clean'
<1>1. /\ Others(c) /\ MutexInv'
      /\ caller'[c].pc = "begin" /\ caller'[c].kind = caller[c].kind
  BY SwapMutex
<1>2. caller[c].pc = "swap" /\ proc' = proc + 1
      /\ status' = [status EXCEPT ![proc + 1] = "new"]
  BY DEF Swap
<1>3. Pending(c)
  BY <1>2 DEF MutexInv, Kinds, Pending
<1>4. \A p \in Procs : ~Alive(p)
  BY <1>2, <1>3 DEF Clean, Cleared
<1>5. \A p \in Procs : ~Alive(p)'
  BY <1>2, <1>4 DEF Alive, MutexInv, TypeOK
<1>6. proc' \in Procs
  BY <1>1 DEF MutexInv, TypeOK
<1>7. \A d \in Caller : Pending(d)' => d = c
  BY <1>1, <1>3, OthersPending DEF Clean, SoleLaunch
<1>8. ReadyIsBooted'
  <2>1. \A d \in Caller : caller'[d].pc = "spawn" => ~ready'
    BY <1>1 DEF Clean, ReadyIsBooted, Others, Swap
  <2> QED
    BY <1>5, <1>6, <2>1 DEF ReadyIsBooted, Ready
<1>9. Reported'
  BY <1>1, <1>2 DEF MutexInv, Mutex, Locked, Launching, Others, Reported
<1> QED
  BY <1>1, <1>5, <1>7, <1>8, <1>9 DEF Clean, NewestOnly, SoleLaunch, Aimed, Cleared

LEMMA BeginClean ==
  ASSUME MutexInv, Clean, NEW c \in Caller, Begin(c)
  PROVE  Clean'
<1>1. Others(c) /\ caller'[c].pc = "spawn" /\ caller'[c].kind = caller[c].kind
  BY BeginMutex
<1>2. UNCHANGED <<tor, proc>> /\ ready' = FALSE /\ caller[c].pc = "begin"
  BY DEF Begin
<1>3. \A p : Alive(p)' <=> Alive(p)
  BY <1>2 DEF Alive, tor
<1>4. Pending(c)' => Pending(c)
  BY <1>1, <1>2 DEF Pending
<1>5. Pending(c) => \A p \in Procs : ~Alive(p)
  BY <1>2 DEF Clean, Cleared
<1>6. ReadyIsBooted'
  BY <1>2 DEF ReadyIsBooted, Ready
<1> QED
  BY <1>1, <1>2, <1>3, <1>4, <1>5, <1>6, CallerKeepsClean DEF tor

\* The tor that starts is the only one, and its instance is not ready.
LEMMA SpawnClean ==
  ASSUME MutexInv, Clean, NEW c \in Caller, Spawn(c)
  PROVE  Clean'
<1>1. /\ Others(c)
      /\ \/ /\ caller'[c].pc = "idle" /\ caller'[c].kind = "none" /\ UNCHANGED status
         \/ /\ caller'[c].pc = "connect" /\ caller'[c].kind = caller[c].kind
            /\ status' = [status EXCEPT ![proc] = "live"]
  BY SpawnMutex
<1>2. UNCHANGED <<booted, proc, ready>> /\ caller[c].pc = "spawn"
  BY DEF Spawn
<1>3. Pending(c)
  BY <1>2 DEF MutexInv, Kinds, Pending
<1>4. \A d \in Caller : ~Pending(d)'
  <2>1. ~Pending(c)'
    BY <1>1 DEF Pending
  <2>2. \A d \in Caller \ {c} : ~Pending(d)
    BY <1>3 DEF Clean, SoleLaunch
  <2> QED
    BY <1>1, <2>1, <2>2, OthersPending
<1>5. NewestOnly'
  <2>1. \A p \in Procs : ~Alive(p)
    BY <1>2, <1>3 DEF Clean, Cleared
  <2>2. \A p \in Procs \ {proc} : status'[p] = status[p]
    BY <1>1 DEF MutexInv, TypeOK
  <2>3. \A p \in Procs \ {proc} : ~Alive(p)'
    BY <2>1, <2>2 DEF Alive
  <2> QED
    BY <1>2, <2>3 DEF NewestOnly
<1>6. ReadyIsBooted'
  <2>1. ~ready'
    BY <1>2 DEF Clean, ReadyIsBooted
  <2> QED
    BY <2>1 DEF ReadyIsBooted, Ready
<1>7. Reported'
  BY <1>1, <1>2 DEF Clean, Reported, Others
<1> QED
  BY <1>4, <1>5, <1>6, <1>7 DEF Clean, SoleLaunch, Aimed, Cleared

LEMMA ConnectClean ==
  ASSUME MutexInv, Clean, NEW c \in Caller, Connect(c)
  PROVE  Clean'
<1>1. /\ Others(c)
      /\ caller'[c].pc \in {"idle", "boot"}
  BY ConnectMutex
<1>2. UNCHANGED <<tor, proc, ready>>
  BY DEF Connect
<1>3. \A p : Alive(p)' <=> Alive(p)
  BY <1>2 DEF Alive, tor
<1>4. ~Pending(c)'
  BY <1>1 DEF Pending
<1>5. ReadyIsBooted'
  BY <1>1, <1>2, <1>3, ReadyStaysBooted DEF Clean, MutexInv, TypeOK, tor
<1> QED
  BY <1>1, <1>2, <1>3, <1>4, <1>5, CallerKeepsClean DEF tor

LEMMA PollClean ==
  ASSUME MutexInv, Clean, NEW c \in Caller, Poll(c)
  PROVE  Clean'
<1>1. Others(c) /\ caller'[c].pc \in {"idle", "poll"}
  BY PollMutex
<1>2. UNCHANGED <<tor, proc, ready>>
  BY DEF Poll
<1>3. \A p : Alive(p)' <=> Alive(p)
  BY <1>2 DEF Alive, tor
<1>4. ~Pending(c)'
  BY <1>1 DEF Pending
<1>5. ReadyIsBooted'
  BY <1>1, <1>2, <1>3, ReadyStaysBooted DEF Clean, MutexInv, TypeOK, tor
<1> QED
  BY <1>1, <1>2, <1>3, <1>4, <1>5, CallerKeepsClean DEF tor

\* The tor at the other end of the connection is the newest, for it lives.
LEMMA AnswerClean ==
  ASSUME MutexInv, Clean, NEW c \in Caller, Answer(c)
  PROVE  Clean'
<1>1. /\ Others(c) /\ caller'[c].pc \in {"idle", "boot", "report"}
      /\ caller'[c].pc = "report" => /\ Alive(caller[c].conn)
                                     /\ caller[c].conn \in booted
  BY AnswerMutex
<1>2. UNCHANGED <<tor, proc, ready>>
  BY DEF Answer
<1>3. \A p : Alive(p)' <=> Alive(p)
  BY <1>2 DEF Alive, tor
<1>4. ~Pending(c)'
  BY <1>1 DEF Pending
<1>5. ReadyIsBooted'
  BY <1>1, <1>2, <1>3, ReadyStaysBooted DEF Clean, MutexInv, TypeOK, tor
<1>6. caller'[c].pc = "report" => proc \in booted
  BY <1>1 DEF Clean, NewestOnly, Alive
<1> QED
  BY <1>1, <1>2, <1>3, <1>4, <1>5, <1>6, CallerKeepsClean DEF tor

LEMMA LostClean ==
  ASSUME MutexInv, Clean, NEW c \in Caller, Lost(c)
  PROVE  Clean'
  BY LostMutex DEF Clean, NewestOnly, SoleLaunch, Aimed, Cleared, ReadyIsBooted,
     Reported, Ready, Alive, Pending, tor, inst

LEMMA ReportClean ==
  ASSUME MutexInv, Clean, NEW c \in Caller, Report(c)
  PROVE  Clean'
<1>1. Others(c) /\ caller'[c].pc = "idle"
  BY ReportMutex
<1>2. UNCHANGED <<tor, proc>> /\ caller[c].pc = "report"
  BY DEF Report
<1>3. \A p : Alive(p)' <=> Alive(p)
  BY <1>2 DEF Alive, tor
<1>4. ~Pending(c)'
  BY <1>1 DEF Pending
<1>5. \A d \in Caller : caller'[d].pc # "spawn"
  BY <1>1, <1>2 DEF MutexInv, Mutex, Locked, Launching, Others
<1>6. ReadyIsBooted'
  BY <1>2, <1>5 DEF Clean, Reported, ReadyIsBooted, tor
<1> QED
  BY <1>1, <1>2, <1>3, <1>4, <1>6, CallerKeepsClean DEF tor

LEMMA TorClean ==
  ASSUME MutexInv, Clean, NEW p \in Procs, Bind(p) \/ Bootstrap(p) \/ Exit(p)
  PROVE  Clean'
<1>1. /\ \A q \in Procs : Alive(q)' => Alive(q)
      /\ booted \subseteq booted'
      /\ UNCHANGED <<inst, caller, overlapped>>
  BY TorMutex
<1>2. UNCHANGED <<proc, ready>> /\ proc \in Procs
  BY <1>1 DEF inst, MutexInv, TypeOK
<1>3. \A c \in Caller : Pending(c)' <=> Pending(c)
  BY <1>1 DEF Pending
<1>4. NewestOnly' /\ SoleLaunch' /\ Aimed' /\ Cleared'
  BY <1>1, <1>2, <1>3 DEF Clean, NewestOnly, SoleLaunch, Aimed, Cleared
<1>5. ReadyIsBooted' /\ Reported'
  BY <1>1, <1>2 DEF Clean, ReadyIsBooted, Reported, Ready
<1> QED
  BY <1>4, <1>5 DEF Clean

LEMMA NextCleanInv == CleanInv /\ [Next]_vars => CleanInv'
<1> SUFFICES ASSUME CleanInv, [Next]_vars, ~overlapped' PROVE Clean'
  BY NextMutexInv DEF CleanInv
<1>1. MutexInv
  BY DEF CleanInv
<1>2. CASE UNCHANGED vars
  BY <1>2 DEF CleanInv, Clean, NewestOnly, SoleLaunch, Aimed, Cleared, ReadyIsBooted,
       Reported, Ready, Alive, Pending, vars, tor, inst
<1>3. ASSUME NEW c \in Caller, Step(c) PROVE Clean'
  <2>1. Clean
    BY <1>3 DEF CleanInv, Step, Take, Signal, Reap, Lock, Wipe, Swap, Begin, Spawn,
         Connect, Poll, Answer, Lost, Report
  <2> QED
    BY <1>1, <1>3, <2>1, TakeClean, SignalClean, ReapClean, LockClean, WipeClean,
       SwapClean, BeginClean, SpawnClean, ConnectClean, PollClean, AnswerClean, LostClean,
       ReportClean DEF Step
<1>4. ASSUME NEW c \in Caller, NEW kind \in {"restart", "stop"}, NEW wipe \in BOOLEAN,
             Call(c, kind, wipe)
      PROVE  Clean'
  <2>1. Clean
    BY <1>4 DEF CleanInv, Call
  <2> QED
    BY <1>1, <1>4, <2>1, CallClean
<1>5. ASSUME NEW p \in Procs, Bind(p) \/ Bootstrap(p) \/ Exit(p) PROVE Clean'
  <2>1. Clean
    BY <1>5 DEF CleanInv, Bind, Bootstrap, Exit
  <2> QED
    BY <1>1, <1>5, <2>1, TorClean
<1> QED
  BY <1>2, <1>3, <1>4, <1>5 DEF Next

\* As long as nobody calls Restart or Stop while another launch is asked for but not
\* spawned, no tor lives when the state is wiped or a process is replaced, there is
\* never a second one, and Ready speaks of a tor that has bootstrapped
\* (supervisor.go Stop, Restart).
THEOREM SoleRestartIsAlwaysClean == Spec => []SoleRestartIsClean
<1>1. Init => CleanInv
  BY InitMutexInv DEF CleanInv
<1>2. CleanInv => SoleRestartIsClean
  <2> SUFFICES ASSUME CleanInv, ~overlapped
               PROVE  /\ AtMostOneTor
                      /\ \A c \in Caller :
                           caller[c].pc \in {"wipe", "swap"} => \A p \in Procs : ~Alive(p)
                      /\ Ready => proc \in booted
    BY DEF SoleRestartIsClean
  <2>1. Clean
    BY DEF CleanInv
  <2>2. AtMostOneTor
    <3> DEFINE Living == {p \in Procs : Alive(p)}
    <3>1. Living \in SUBSET {proc}
      BY <2>1 DEF Clean, NewestOnly
    <3>2. IsFiniteSet({proc}) /\ Cardinality({proc}) = 1
      BY FS_Singleton
    <3> HIDE DEF Living
    <3>3. Cardinality(Living) <= 1
      BY <3>1, <3>2, FS_Subset
    <3> QED
      BY <3>3 DEF AtMostOneTor, Living
  <2>3. \A c \in Caller : caller[c].pc \in {"wipe", "swap"} => Pending(c)
    BY DEF CleanInv, MutexInv, Kinds, Pending
  <2>4. \A c \in Caller :
          caller[c].pc \in {"wipe", "swap"} => \A p \in Procs : ~Alive(p)
    BY <2>1, <2>3 DEF Clean, Cleared
  <2> QED
    BY <2>1, <2>2, <2>4 DEF Clean, ReadyIsBooted
<1> QED
  BY <1>1, <1>2, NextCleanInv, PTL DEF Spec
=============================================================================
