---------------------------- MODULE ExitsProofs ----------------------------
(* The exit an instance reports, is pinned to and rotates away from, for any number of *)
(* goroutines and relays and however circuits come and go.                            *)
(*                                                                                    *)
(* ExitsInv says what each property rests on: who holds ctrlMu (Mutex), what the      *)
(* connections know of tor's cooldown (Cooldowns), that nothing survives the tor a    *)
(* restart has stopped (Restarts), whose policy is in force (Pins), and that while a  *)
(* rotation's is, no new circuit and no current reading goes through the relay it     *)
(* avoids (Avoided).  Each step is first reduced to what it does to the goroutines    *)
(* (the ...Job lemmas), then every part of the invariant is shown to be kept.         *)
EXTENDS Exits, TLAPS

-----------------------------------------------------------------------------
(* The invariant.                                                           *)

Origins == {"none", "fresh", "retired", "strayed"}

Kinds == {"none", "rotate", "ladder", "poll", "sample", "restart"}

Ops == Commands \cup Restarting \cup {"none", "check", "choose"}

Jobs ==
  [kind : Kinds, op : Ops, stage : Steps, node : Relay \cup {None}, sure : BOOLEAN,
   from : Origins \ {"none"}, avoid : Relay \cup {None}, overtaken : BOOLEAN, alone : BOOLEAN]

TorTyped ==
  /\ running \in BOOLEAN /\ cooling \in BOOLEAN
  /\ policy \in Policy
  /\ circuits \subseteq Circuit

ConnTyped ==
  /\ conn \in [Conns -> Connection]
  /\ used \in Conns \cup {None}
  /\ ctrlMu \in Job \cup {None}

ExitTyped ==
  /\ ready \in BOOLEAN
  /\ exitNode \in Relay \cup {None} /\ exitConfirmed \in BOOLEAN
  /\ origin \in Origins
  /\ exitNode = None <=> origin = "none"
  /\ pinnedExit \in Relay \cup {None} /\ drifted \in BOOLEAN

\* What each step of a goroutine needs, and what it cannot be about.
Errand(j) ==
  /\ j.stage # "none" <=> j.op \in Commands
  /\ j.op \in Restarting <=> j.kind = "restart"
  /\ j.stage = "close" => j.op \in {"pin", "newnym"}
  /\ j.op = "pin" => j.node \in Relay
  /\ j.op = "read" /\ j.stage = "publish" => j.node \in Relay /\ j.from # "retired"
  /\ j.alone => j.op \in {"unpin", "newnym", "read"} /\ (j.op = "unpin" => j.stage = "publish")

JobsTyped ==
  /\ job \in [Job -> Jobs]
  /\ \A w \in Job : Errand(job[w])

Typed == TorTyped /\ ConnTyped /\ ExitTyped /\ JobsTyped

Locked == {"dial", "flight", "close"}

Mutex ==
  /\ \A w \in Job : job[w].stage \in Locked <=> ctrlMu = w
  /\ used # None <=> \E w \in Job : ctrlMu = w /\ job[w].stage \in {"flight", "close"}

\* A connection that knows of a NEWNYM knows of its cooldown; what i.ctrl was is in use or
\* gone, and what it is by then is new.
Cooldowns ==
  /\ \A k \in Conns : conn[k].knows /\ cooling => conn[k].cool
  /\ used # "former" => conn["former"] = NoConnection
  /\ used = "former" => ~conn["current"].knows
  /\ \A w \in Job : At(w, "newnym", "flight") => ~conn[used].cool

\* An answer to a change of policy that is still to be published.
Unpublished(w) == job[w].op \in {"pin", "unpin"} /\ job[w].stage \in {"close", "publish"}

\* The tor that a restart has stopped is gone, with what anybody had asked of it.
Restarts ==
  /\ \A v, w \in Job : job[v].kind = "restart" /\ job[w].kind = "restart" => v = w
  /\ ~running => circuits = {}
  /\ \A w \in Job : job[w].op \in {"swap", "spawn"} =>
       /\ ~running
       /\ \A v \in Job : ~job[v].alone /\ (Unpublished(v) => job[v].overtaken)
  /\ \A w \in Job : job[w].op = "spawn" => pinnedExit = None \/ drifted

\* Whoever was not overtaken has set the policy that is in force.
Pins ==
  /\ \A w \in Job : running /\ Unpublished(w) /\ job[w].op = "pin" /\ ~job[w].overtaken
                      => policy.pin = job[w].node
  /\ pinnedExit # None /\ running /\ ~drifted =>
       policy.pin = pinnedExit \/ \E w \in Job : Unpublished(w)

\* w is past its NEWNYM.
Renewed(w) == job[w].alone /\ (job[w].op = "read" \/ At(w, "newnym", "close"))

\* While w's policy is in force no new circuit goes through the relay it avoids, and from
\* its NEWNYM on there is none, nor a reading of one, that counts as new.
Avoided ==
  \A w \in Job :
    LET a == job[w].avoid
    IN  a # None =>
          /\ job[w].alone /\ running => policy.avoid = a
          /\ Renewed(w) =>
               /\ \A c \in circuits : ~c.older => c.exit # a
               /\ \A v \in Job : At(v, "read", "publish") /\ ~job[v].overtaken
                                  /\ job[v].from = "fresh" => job[v].node # a
          /\ job[w].alone /\ job[w].op = "read" /\ origin \in {"fresh", "retired"}
               => exitNode # a

\* The new tor starts without the exit of the old one.
Withdrawn == \A w \in Job : job[w].op = "spawn" => origin # "retired"

ExitsInv ==
  /\ Typed /\ Mutex /\ Cooldowns /\ Restarts /\ Pins /\ Withdrawn /\ RetiredIsGone /\ Avoided

-----------------------------------------------------------------------------
(* What a goroutine's step does to the goroutines.                          *)

\* v is where it was, and about the same.
Same(v) ==
  /\ job'[v].kind = job[v].kind /\ job'[v].op = job[v].op /\ job'[v].stage = job[v].stage
  /\ job'[v].node = job[v].node /\ job'[v].from = job[v].from /\ job'[v].avoid = job[v].avoid

\* It has an answer to one of ops that it has not published.
Late(v, ops) == job[v].stage \in {"close", "publish"} /\ job[v].op \in ops

LEMMA IdleJob == Idle \in Jobs /\ Errand(Idle)
  BY DEF Idle, Jobs, Errand, Kinds, Ops, Steps, Origins, Commands, Restarting

\* j goes on to issue a command.
LEMMA CallsJob ==
  ASSUME NEW j \in Jobs, NEW op \in Commands \ {"pin"}, j.kind # "restart",
         j.alone => op \in {"newnym", "read"}
  PROVE  /\ Calls(j, op) \in Jobs /\ Errand(Calls(j, op))
         /\ Calls(j, op).op = op /\ Calls(j, op).stage = "lock" /\ Calls(j, op).kind = j.kind
         /\ Calls(j, op).avoid = j.avoid /\ Calls(j, op).alone = j.alone
<1> DEFINE f == Calls(j, op)
<1>1. /\ f.op = op /\ f.stage = "lock" /\ f.kind = j.kind
      /\ f.avoid = j.avoid /\ f.alone = j.alone
  BY DEF Calls, Jobs
<1>2. f \in Jobs
  BY DEF Calls, Jobs, Ops, Steps, Origins
<1> HIDE DEF f
<1>3. Errand(f)
  BY <1>1 DEF Errand, Restarting, Commands
<1> QED
  BY <1>1, <1>2, <1>3 DEF f

\* A goroutine goes on to another stage of its command.
LEMMA StageJob ==
  ASSUME NEW j \in Jobs, Errand(j), j.stage # "none", NEW stage \in Steps \ {"none"},
         stage = "close" => j.op \in {"pin", "newnym"},
         stage = "publish" => j.op # "read" /\ j.op # "unpin",
         j.alone => j.op # "unpin"
  PROVE  /\ [j EXCEPT !.stage = stage] \in Jobs /\ Errand([j EXCEPT !.stage = stage])
         /\ [j EXCEPT !.stage = stage].stage = stage /\ [j EXCEPT !.stage = stage].op = j.op
         /\ [j EXCEPT !.stage = stage].kind = j.kind /\ [j EXCEPT !.stage = stage].avoid = j.avoid
         /\ [j EXCEPT !.stage = stage].alone = j.alone /\ [j EXCEPT !.stage = stage].node = j.node
         /\ [j EXCEPT !.stage = stage].overtaken = j.overtaken
<1> DEFINE f == [j EXCEPT !.stage = stage]
<1>1. /\ f.op = j.op /\ f.stage = stage /\ f.kind = j.kind /\ f.avoid = j.avoid
      /\ f.alone = j.alone /\ f.node = j.node /\ f.from = j.from /\ f.overtaken = j.overtaken
  BY DEF Jobs
<1>2. f \in Jobs
  BY Zenon DEF Jobs
<1> HIDE DEF f
<1>3. Errand(f)
  BY <1>1 DEF Errand
<1> QED
  BY <1>1, <1>2, <1>3 DEF f

\* A restart goes on.
LEMMA RestartJob ==
  ASSUME NEW j \in Jobs, Errand(j), j.op \in Restarting, NEW op \in Restarting
  PROVE  /\ [j EXCEPT !.op = op] \in Jobs /\ Errand([j EXCEPT !.op = op])
         /\ [j EXCEPT !.op = op].op = op /\ [j EXCEPT !.op = op].stage = "none"
         /\ [j EXCEPT !.op = op].kind = "restart" /\ ~[j EXCEPT !.op = op].alone
<1> DEFINE f == [j EXCEPT !.op = op]
<1>1. j.stage = "none" /\ j.kind = "restart" /\ ~j.alone
  BY DEF Errand, Restarting, Commands
<1>2. f.op = op /\ f.stage = j.stage /\ f.kind = j.kind /\ f.alone = j.alone
  BY DEF Jobs
<1>3. f \in Jobs
  BY DEF Jobs, Ops
<1> HIDE DEF f
<1>4. Errand(f)
  BY <1>1, <1>2 DEF Errand, Restarting, Commands
<1> QED
  BY <1>1, <1>2, <1>3, <1>4 DEF f

\* w goes on as f, and nobody else moves.
LEMMA GoesOn ==
  ASSUME JobsTyped, NEW w \in Job, NEW f \in Jobs, Errand(f), Goes(w, f)
  PROVE  /\ JobsTyped'
         /\ job'[w] = f
         /\ \A v \in Job \ {w} : job'[v] = job[v]
<1>1. job'[w] = f /\ \A v \in Job \ {w} : job'[v] = job[v]
  BY DEF JobsTyped, Goes
<1>2. job' \in [Job -> Jobs]
  BY DEF JobsTyped, Goes
<1>3. \A v \in Job : Errand(job'[v])
  BY <1>1 DEF JobsTyped
<1> QED
  BY <1>1, <1>2, <1>3 DEF JobsTyped

\* w goes on as f, and who is late with an answer to one of ops is overtaken.
LEMMA OvertakesOn ==
  ASSUME JobsTyped, NEW w \in Job, NEW f \in Jobs, Errand(f), NEW ops,
         Become(w, f, Overtaken(w, ops))
  PROVE  /\ JobsTyped'
         /\ job'[w] = f
         /\ \A v \in Job \ {w} :
              /\ Same(v) /\ job'[v].alone = job[v].alone
              /\ job[v].overtaken \/ Late(v, ops) => job'[v].overtaken
              /\ job'[v].overtaken => job[v].overtaken \/ Late(v, ops)
<1>1. \A v \in Job : job[v] \in Jobs /\ Errand(job[v])
  BY DEF JobsTyped
<1>2. /\ job' = [v \in Job |-> IF v = w THEN f ELSE Overtaken(w, ops)[v]]
  BY DEF Become, Overtaken
<1>3. ASSUME NEW v \in Job \ {w}
      PROVE  /\ job'[v] \in Jobs
             /\ Same(v) /\ job'[v].alone = job[v].alone
             /\ job[v].overtaken \/ Late(v, ops) => job'[v].overtaken
             /\ job'[v].overtaken => job[v].overtaken \/ Late(v, ops)
  <2>1. job'[v] = IF job[v].stage \in {"close", "publish"} /\ job[v].op \in ops
                    THEN [job[v] EXCEPT !.overtaken = TRUE] ELSE job[v]
    BY <1>2 DEF Overtaken
  <2>2. CASE Late(v, ops)
    <3> DEFINE g == [job[v] EXCEPT !.overtaken = TRUE]
    <3>1. job'[v] = g
      BY <2>1, <2>2 DEF Late
    <3>2. g \in Jobs
      BY <1>1, Zenon DEF Jobs
    <3>3. /\ g.kind = job[v].kind /\ g.op = job[v].op /\ g.stage = job[v].stage
          /\ g.node = job[v].node /\ g.from = job[v].from /\ g.avoid = job[v].avoid
          /\ g.alone = job[v].alone /\ g.overtaken
      BY <1>1 DEF Jobs
    <3> HIDE DEF g
    <3> QED
      BY <2>2, <3>1, <3>2, <3>3 DEF Same
  <2>3. CASE ~Late(v, ops)
    <3>1. job'[v] = job[v]
      BY <2>1, <2>3 DEF Late
    <3> QED
      BY <1>1, <2>3, <3>1 DEF Same
  <2> QED
    BY <2>2, <2>3
<1>4. job'[w] = f
  BY <1>2
<1>5. ASSUME NEW v \in Job
      PROVE  job'[v] \in Jobs /\ Errand(job'[v])
  BY <1>1, <1>3, <1>4 DEF Same, Errand
<1>6. job' \in [Job -> Jobs]
  BY <1>2, <1>5
<1> QED
  BY <1>3, <1>4, <1>5, <1>6 DEF JobsTyped

\* Besides, w's policy is the only one in force.
LEMMA RewritesOn ==
  ASSUME JobsTyped, NEW w \in Job, NEW f \in Jobs, Errand(f), NEW ops,
         Become(w, f, Rewritten(w, ops))
  PROVE  /\ JobsTyped'
         /\ job'[w] = f
         /\ \A v \in Job \ {w} :
              /\ Same(v) /\ ~job'[v].alone
              /\ job[v].overtaken \/ Late(v, ops) => job'[v].overtaken
              /\ job'[v].overtaken => job[v].overtaken \/ Late(v, ops)
<1>1. \A v \in Job : job[v] \in Jobs /\ Errand(job[v])
  BY DEF JobsTyped
<1>2. job' = [v \in Job |-> IF v = w THEN f
                ELSE [Overtaken(w, ops)[v] EXCEPT !.alone = @ /\ v = w]]
  BY DEF Become, Rewritten
<1>3. ASSUME NEW v \in Job \ {w}
      PROVE  /\ job'[v] \in Jobs
             /\ Same(v) /\ ~job'[v].alone
             /\ job[v].overtaken \/ Late(v, ops) => job'[v].overtaken
             /\ job'[v].overtaken => job[v].overtaken \/ Late(v, ops)
  <2> DEFINE o == IF job[v].stage \in {"close", "publish"} /\ job[v].op \in ops
                    THEN [job[v] EXCEPT !.overtaken = TRUE] ELSE job[v]
             g == [o EXCEPT !.alone = FALSE]
  <2>1. job'[v] = g
    <3>1. Overtaken(w, ops)[v] = o
      BY DEF Overtaken
    <3>2. job'[v] = [Overtaken(w, ops)[v] EXCEPT !.alone = @ /\ v = w]
      BY <1>2
    <3>3. (Overtaken(w, ops)[v].alone /\ v = w) = FALSE
      OBVIOUS
    <3> HIDE DEF o
    <3> QED
      BY <3>1, <3>2, <3>3
  <2>2. /\ o \in Jobs
        /\ o.kind = job[v].kind /\ o.op = job[v].op /\ o.stage = job[v].stage
        /\ o.node = job[v].node /\ o.from = job[v].from /\ o.avoid = job[v].avoid
        /\ Late(v, ops) => o.overtaken
        /\ ~Late(v, ops) => o.overtaken = job[v].overtaken
    BY <1>1 DEF Jobs, Late
  <2> HIDE DEF o
  <2>3. g \in Jobs
    BY <2>2, Zenon DEF Jobs
  <2>4. /\ g.kind = o.kind /\ g.op = o.op /\ g.stage = o.stage /\ g.node = o.node
        /\ g.from = o.from /\ g.avoid = o.avoid /\ ~g.alone /\ g.overtaken = o.overtaken
    BY <2>2 DEF Jobs
  <2> HIDE DEF g
  <2> QED
    BY <2>1, <2>2, <2>3, <2>4 DEF Same
<1>4. job'[w] = f
  BY <1>2
<1>5. ASSUME NEW v \in Job
      PROVE  job'[v] \in Jobs /\ Errand(job'[v])
  BY <1>1, <1>3, <1>4 DEF Same, Errand
<1>6. job' \in [Job -> Jobs]
  BY <1>2, <1>5
<1> QED
  BY <1>3, <1>4, <1>5, <1>6 DEF JobsTyped

\* A command that failed is given up, or read again.
LEMMA FailsOn ==
  ASSUME JobsTyped, NEW w \in Job, job[w].op \in Commands, Fails(w)
  PROVE  /\ JobsTyped'
         /\ \A v \in Job \ {w} : job'[v] = job[v]
         /\ job'[w].stage \in {"none", "lock"}
         /\ job'[w].op \in {"none", "read"}
         /\ job'[w].kind # "restart"
         /\ job'[w].alone => /\ job[w].alone /\ job[w].op = "read" /\ job'[w].op = "read"
                             /\ job'[w].avoid = job[w].avoid
<1>1. job[w] \in Jobs /\ Errand(job[w])
  BY DEF JobsTyped
<1>2. CASE Goes(w, Idle)
  <2>1. JobsTyped' /\ job'[w] = Idle /\ \A v \in Job \ {w} : job'[v] = job[v]
    BY <1>2, IdleJob, GoesOn
  <2> QED
    BY <2>1 DEF Idle
<1>3. CASE job[w].op = "read" /\ Goes(w, Calls(job[w], "read"))
  <2> DEFINE f == Calls(job[w], "read")
  <2>1. job[w].kind # "restart"
    BY <1>1, <1>3 DEF Errand, Restarting
  <2>2. /\ f \in Jobs /\ Errand(f)
        /\ f.op = "read" /\ f.stage = "lock" /\ f.kind = job[w].kind
        /\ f.avoid = job[w].avoid /\ f.alone = job[w].alone
    BY <1>1, <2>1, CallsJob DEF Commands
  <2> HIDE DEF f
  <2>3. JobsTyped' /\ job'[w] = f /\ \A v \in Job \ {w} : job'[v] = job[v]
    BY <1>3, <2>2, GoesOn DEF f
  <2> QED
    BY <1>3, <2>1, <2>2, <2>3
<1> QED
  BY <1>2, <1>3 DEF Fails

\* After a reading a goroutine may go on to pin the exit that is reported.
LEMMA SettledJob ==
  ASSUME NEW j \in Jobs, j.kind # "restart", NEW node \in Relay \cup {None}
  PROVE  /\ Settled(j, node) \in Jobs /\ Errand(Settled(j, node))
         /\ ~Settled(j, node).alone /\ Settled(j, node).kind # "restart"
         /\ \/ Settled(j, node) = Idle
            \/ /\ Settled(j, node).op = "pin" /\ Settled(j, node).stage = "lock"
               /\ Settled(j, node).node = node
<1> DEFINE f == [Calls(Idle, "pin") EXCEPT !.kind = j.kind, !.node = node]
<1>1. CASE PinExitRelay /\ node # None
  <2>1. /\ f.op = "pin" /\ f.stage = "lock" /\ f.kind = j.kind /\ f.node = node /\ ~f.alone
    BY DEF Calls, Idle
  <2>2. f \in Jobs
    <3>1. \A k \in Jobs : Calls(k, "pin") \in Jobs
      <4>1. "pin" \in Ops /\ "lock" \in Steps /\ "fresh" \in Origins \ {"none"}
            /\ FALSE \in BOOLEAN
        BY DEF Ops, Steps, Origins, Commands
      <4> QED
        BY <4>1 DEF Calls, Jobs
    <3>2. Calls(Idle, "pin") \in Jobs
      BY <3>1, IdleJob
    <3> QED
      BY <3>2, Zenon DEF Jobs
  <2>3. Settled(j, node) = f
    BY <1>1 DEF Settled
  <2> HIDE DEF f
  <2>4. Errand(f)
    BY <1>1, <2>1 DEF Errand, Commands, Restarting
  <2> QED
    BY <2>1, <2>2, <2>3, <2>4
<1>2. CASE ~(PinExitRelay /\ node # None)
  <2>1. Settled(j, node) = Idle
    BY <1>2 DEF Settled
  <2> QED
    BY <2>1, IdleJob DEF Idle
<1> QED
  BY <1>1, <1>2

\* Steps of w that leave it without an answer to publish, and without a policy of its own
\* but the one it had.
Plain(w) ==
  \/ Start(w) \/ Lock(w) \/ Skip(w) \/ Dial(w) \/ DialFails(w) \/ Refused(w)
  \/ PublishUnpin(w) \/ PublishPin(w) \/ Check(w) \/ Choose(w)
  \/ Stop(w) \/ Swap(w) \/ Spawn(w) \/ Connect(w) \/ Boot(w) \/ RestartFails(w)

\* Where such a step can leave w, next to where it was.
PlainJob(w) ==
  /\ JobsTyped'
  /\ \A v \in Job \ {w} : job'[v] = job[v]
  /\ job'[w].stage \notin {"close", "publish"}
  /\ job'[w].alone =>
       /\ job[w].alone /\ job'[w].avoid = job[w].avoid
       /\ job'[w].op = "read" => job[w].op = "read"

LEMMA StartJob ==
  ASSUME Typed, NEW w \in Job, Start(w)
  PROVE  /\ PlainJob(w)
         /\ job[w] = Idle
         /\ job'[w].stage \in {"none", "lock"} /\ ~job'[w].alone
         /\ job'[w].op \notin {"swap", "spawn", "pin"}
         /\ job'[w].kind = "restart" => Alone({"restart"})
<1> DEFINE r(kind) == Rotation(kind)
           sample == [Calls(Idle, "read") EXCEPT !.kind = "sample"]
           poll == [Idle EXCEPT !.kind = "poll", !.op = "check"]
           restart == [Idle EXCEPT !.kind = "restart", !.op = "stop"]
<1>1. /\ job[w] = Idle
      /\ \/ Goes(w, Rotation("rotate")) \/ Goes(w, Rotation("ladder"))
         \/ Goes(w, sample) \/ Goes(w, poll) \/ (Goes(w, restart) /\ Alone({"restart"}))
  BY DEF Start, StartRotation, StartLadder, StartSample, StartPinExits, StartRestart
<1>2. exitNode \in Relay \cup {None}
  BY DEF Typed, ExitTyped
<1>3. ASSUME NEW kind \in {"rotate", "ladder"}
      PROVE  /\ Rotation(kind) \in Jobs /\ Errand(Rotation(kind))
             /\ Rotation(kind).kind = kind /\ Rotation(kind).stage = "lock"
             /\ Rotation(kind).op \in {"unpin", "newnym"} /\ ~Rotation(kind).alone
  <2> DEFINE f == Rotation(kind)
  <2>1. /\ f.kind = kind /\ f.stage = "lock" /\ f.op \in {"unpin", "newnym"} /\ ~f.alone
    BY DEF Rotation, Calls, Idle
  <2>2. f \in Jobs
    BY <1>2 DEF Rotation, Calls, Idle, Jobs, Kinds, Ops, Steps, Origins, Commands
  <2> HIDE DEF f
  <2>3. Errand(f)
    BY <2>1 DEF Errand, Commands, Restarting
  <2> QED
    BY <2>1, <2>2, <2>3 DEF f
<1>4. /\ sample \in Jobs /\ Errand(sample)
      /\ sample.kind = "sample" /\ sample.stage = "lock" /\ sample.op = "read" /\ ~sample.alone
  BY DEF Calls, Idle, Jobs, Kinds, Ops, Steps, Origins, Commands, Errand, Restarting
<1>5. /\ poll \in Jobs /\ Errand(poll)
      /\ poll.kind = "poll" /\ poll.stage = "none" /\ poll.op = "check" /\ ~poll.alone
  BY DEF Idle, Jobs, Kinds, Ops, Steps, Origins, Errand, Commands, Restarting
<1>6. /\ restart \in Jobs /\ Errand(restart)
      /\ restart.kind = "restart" /\ restart.stage = "none" /\ restart.op = "stop"
      /\ ~restart.alone
  BY DEF Idle, Jobs, Kinds, Ops, Steps, Origins, Errand, Commands, Restarting
<1> HIDE DEF sample, poll, restart
<1>7. PICK f \in Jobs :
        /\ Goes(w, f) /\ Errand(f)
        /\ f.stage \in {"none", "lock"} /\ ~f.alone /\ f.op \notin {"swap", "spawn", "pin"}
        /\ f.kind = "restart" => Alone({"restart"})
  BY <1>1, <1>3, <1>4, <1>5, <1>6
<1>8. JobsTyped' /\ job'[w] = f /\ \A v \in Job \ {w} : job'[v] = job[v]
  BY <1>7, GoesOn DEF Typed
<1> QED
  BY <1>1, <1>7, <1>8 DEF PlainJob

\* What a step of w has to do with ctrlMu: nothing, or it takes it, keeps it or lets it go.
Moves(w) ==
  \/ /\ job[w].stage \notin Locked /\ job'[w].stage \notin Locked
     /\ ctrlMu' = ctrlMu /\ (used' = None <=> used = None)
  \/ /\ job[w].stage \notin Locked /\ ctrlMu = None /\ ctrlMu' = w
     /\ \/ job'[w].stage = "flight" /\ used' = "current"
        \/ job'[w].stage = "dial" /\ used' = used
  \/ /\ job[w].stage \in Locked /\ job'[w].stage \in {"flight", "close"}
     /\ ctrlMu' = ctrlMu /\ used' \in Conns
  \/ /\ job[w].stage \in Locked /\ job'[w].stage \notin Locked
     /\ ctrlMu' = None /\ used' = None

\* Those who hold it, or wait for it.
LEMMA LockJob ==
  ASSUME Typed, NEW w \in Job, Lock(w)
  PROVE  /\ PlainJob(w) /\ Moves(w)
         /\ job'[w].op \notin Restarting /\ job'[w].kind # "restart"
         /\ job[w].stage = "lock"
         /\ IF job'[w].stage = "flight"
              THEN used' = "current" /\ job'[w].op = job[w].op /\ ~MustWait(job[w])
              ELSE used' = used
<1>1. job[w] \in Jobs /\ Errand(job[w]) /\ job[w].stage = "lock" /\ JobsTyped
  BY DEF Typed, JobsTyped, Lock
<1>2. job[w].op \in Commands /\ job[w].kind # "restart" /\ (job[w].alone => job[w].op # "unpin")
  BY <1>1 DEF Errand, Commands, Restarting
<1>3. ASSUME NEW s \in {"sleep", "flight", "dial"}, Goes(w, [job[w] EXCEPT !.stage = s])
      PROVE  /\ PlainJob(w) /\ job'[w].stage = s
             /\ job'[w].op = job[w].op /\ job'[w].kind = job[w].kind
  <2> DEFINE f == [job[w] EXCEPT !.stage = s]
  <2>1. s \in Steps \ {"none"} /\ s # "close" /\ s # "publish"
    BY DEF Steps
  <2>2. /\ f \in Jobs /\ Errand(f) /\ f.stage = s /\ f.op = job[w].op
        /\ f.kind = job[w].kind /\ f.avoid = job[w].avoid /\ f.alone = job[w].alone
    BY <1>1, <1>2, <2>1, StageJob
  <2> HIDE DEF f
  <2>3. JobsTyped' /\ job'[w] = f /\ \A v \in Job \ {w} : job'[v] = job[v]
    BY <1>1, <1>3, <2>2, GoesOn DEF f
  <2> QED
    BY <2>1, <2>2, <2>3 DEF PlainJob
<1>4. \/ Goes(w, [job[w] EXCEPT !.stage = "sleep"]) /\ UNCHANGED <<ctrlMu, used>>
      \/ /\ Goes(w, [job[w] EXCEPT !.stage = "flight"]) /\ ~MustWait(job[w])
         /\ ctrlMu = None /\ ctrlMu' = w /\ used' = "current"
      \/ /\ Goes(w, [job[w] EXCEPT !.stage = "dial"])
         /\ ctrlMu = None /\ ctrlMu' = w /\ used' = used
      \/ Fails(w) /\ UNCHANGED <<ctrlMu, used>>
  BY DEF Lock
<1>5. CASE Fails(w) /\ UNCHANGED <<ctrlMu, used>>
  <2>1. /\ JobsTyped'
        /\ \A v \in Job \ {w} : job'[v] = job[v]
        /\ job'[w].stage \in {"none", "lock"}
        /\ job'[w].op \in {"none", "read"}
        /\ job'[w].kind # "restart"
        /\ job'[w].alone => /\ job[w].alone /\ job[w].op = "read" /\ job'[w].op = "read"
                            /\ job'[w].avoid = job[w].avoid
    BY <1>1, <1>2, <1>5, FailsOn
  <2> QED
    BY <1>1, <1>5, <2>1 DEF PlainJob, Moves, Locked, Restarting
<1>6. CASE ~(Fails(w) /\ UNCHANGED <<ctrlMu, used>>)
  <2>1. job[w].op \notin Restarting /\ job[w].stage \notin Locked
    BY <1>1, <1>2 DEF Restarting, Commands, Locked
  <2>2. PICK s \in {"sleep", "flight", "dial"} :
          /\ Goes(w, [job[w] EXCEPT !.stage = s])
          /\ s = "sleep" => UNCHANGED <<ctrlMu, used>>
          /\ s # "sleep" => ctrlMu = None /\ ctrlMu' = w
          /\ s = "flight" => used' = "current" /\ ~MustWait(job[w])
          /\ s = "dial" => used' = used
    BY <1>4, <1>6
  <2>3. /\ PlainJob(w) /\ job'[w].stage = s
        /\ job'[w].op = job[w].op /\ job'[w].kind = job[w].kind
    BY <1>3, <2>2
  <2> QED
    BY <1>1, <1>2, <2>1, <2>2, <2>3 DEF Moves, Locked
<1> QED
  BY <1>4, <1>5, <1>6

\* A command or a dial fails under the lock, or an attempt without it.
LEMMA FailedJob ==
  ASSUME Typed, NEW w \in Job, DialFails(w) \/ Refused(w) \/ Skip(w)
  PROVE  /\ PlainJob(w) /\ Moves(w)
         /\ job'[w].op \notin Restarting /\ job'[w].kind # "restart"
         /\ job[w].stage \in {"lock", "dial", "flight"} /\ job'[w].stage # "flight"
<1>1. job[w] \in Jobs /\ Errand(job[w]) /\ JobsTyped
  BY DEF Typed, JobsTyped
<1>2. CASE DialFails(w) \/ Refused(w)
  <2>1. /\ Fails(w) /\ job[w].stage \in {"dial", "flight"}
        /\ ctrlMu' = None /\ used' = None
    BY <1>2 DEF DialFails, Refused, Answers, Receives, At, Released
  <2>2. job[w].op \in Commands
    BY <1>1, <2>1 DEF Errand
  <2>3. /\ JobsTyped'
        /\ \A v \in Job \ {w} : job'[v] = job[v]
        /\ job'[w].stage \in {"none", "lock"}
        /\ job'[w].op \in {"none", "read"}
        /\ job'[w].kind # "restart"
        /\ job'[w].alone => /\ job[w].alone /\ job[w].op = "read" /\ job'[w].op = "read"
                            /\ job'[w].avoid = job[w].avoid
    BY <1>1, <2>1, <2>2, FailsOn
  <2> QED
    BY <2>1, <2>3 DEF PlainJob, Moves, Locked, Restarting
<1>3. CASE Skip(w)
  <2>1. Goes(w, Idle) /\ job[w].stage = "lock" /\ UNCHANGED <<ctrlMu, used>>
    BY <1>3 DEF Skip, At, control
  <2>2. JobsTyped' /\ job'[w] = Idle /\ \A v \in Job \ {w} : job'[v] = job[v]
    BY <1>1, <2>1, IdleJob, GoesOn
  <2> QED
    BY <2>1, <2>2 DEF PlainJob, Moves, Locked, Restarting, Idle
<1> QED
  BY <1>2, <1>3

LEMMA DialJob ==
  ASSUME Typed, NEW w \in Job, Dial(w)
  PROVE  /\ PlainJob(w) /\ Moves(w)
         /\ job'[w].op \notin Restarting /\ job'[w].kind # "restart"
         /\ job[w].stage = "dial" /\ job'[w].stage = "flight"
<1> DEFINE f == [job[w] EXCEPT !.stage = "flight"]
<1>1. /\ job[w] \in Jobs /\ Errand(job[w]) /\ JobsTyped /\ job[w].stage = "dial"
      /\ Goes(w, f) /\ used' = "current" /\ ctrlMu' = ctrlMu
  BY DEF Typed, JobsTyped, Dial
<1>2. /\ job[w].op \in Commands /\ job[w].kind # "restart" /\ (job[w].alone => job[w].op # "unpin")
      /\ job[w].op \notin Restarting
  BY <1>1 DEF Errand, Commands, Restarting
<1>3. "flight" \in Steps \ {"none"}
  BY DEF Steps
<1>4. /\ f \in Jobs /\ Errand(f) /\ f.stage = "flight" /\ f.op = job[w].op
      /\ f.kind = job[w].kind /\ f.avoid = job[w].avoid /\ f.alone = job[w].alone
  BY <1>1, <1>2, <1>3, StageJob
<1> HIDE DEF f
<1>5. JobsTyped' /\ job'[w] = f /\ \A v \in Job \ {w} : job'[v] = job[v]
  BY <1>1, <1>4, GoesOn
<1> QED
  BY <1>1, <1>2, <1>4, <1>5 DEF PlainJob, Moves, Locked, Conns

\* Answers about the pin are published, and the poll goes on.
LEMMA SaidJob ==
  ASSUME Typed, NEW w \in Job, PublishUnpin(w) \/ PublishPin(w) \/ Check(w) \/ Choose(w)
  PROVE  /\ PlainJob(w) /\ Moves(w)
         /\ job'[w].op \notin Restarting /\ job'[w].kind # "restart"
         /\ Check(w) \/ Choose(w) => job[w].stage = "none"
         /\ job'[w].stage # "flight"
<1>1. /\ job[w] \in Jobs /\ Errand(job[w]) /\ JobsTyped /\ exitNode \in Relay \cup {None}
  BY DEF Typed, JobsTyped, ExitTyped
<1>2. /\ job[w].op \in {"unpin", "pin", "check", "choose"} /\ UNCHANGED <<ctrlMu, used>>
      /\ job[w].op \in {"pin", "unpin"} => job[w].stage = "publish"
  BY DEF PublishUnpin, PublishPin, Check, Choose, At, control
<1>3. /\ job[w].kind # "restart" /\ job[w].stage \notin Locked
      /\ job[w].op \in {"check", "choose"} => job[w].stage = "none"
      /\ job[w].alone => job[w].op = "unpin"
  BY <1>1, <1>2 DEF Errand, Restarting, Commands, Locked
<1>4. CASE PublishUnpin(w)
  <2> DEFINE f == Calls(job[w], "newnym")
  <2>1. Goes(w, f)
    BY <1>4 DEF PublishUnpin
  <2>2. "newnym" \in Commands \ {"pin"}
    BY DEF Commands
  <2>3. /\ f \in Jobs /\ Errand(f) /\ f.op = "newnym" /\ f.stage = "lock" /\ f.kind = job[w].kind
        /\ f.avoid = job[w].avoid /\ f.alone = job[w].alone
    BY <1>1, <1>3, <2>2, CallsJob
  <2> HIDE DEF f
  <2>4. JobsTyped' /\ job'[w] = f /\ \A v \in Job \ {w} : job'[v] = job[v]
    BY <1>1, <2>1, <2>3, GoesOn
  <2>5. PlainJob(w)
    BY <2>3, <2>4 DEF PlainJob
  <2>6. ~Check(w) /\ ~Choose(w)
    BY <1>4 DEF PublishUnpin, Check, Choose, At
  <2> QED
    BY <1>2, <1>3, <2>3, <2>4, <2>5, <2>6 DEF Moves, Locked, Restarting
<1>5. CASE PublishPin(w)
  <2>1. Goes(w, Idle) /\ ~Check(w) /\ ~Choose(w)
    BY <1>5 DEF PublishPin, Check, Choose, At
  <2>2. JobsTyped' /\ job'[w] = Idle /\ \A v \in Job \ {w} : job'[v] = job[v]
    BY <1>1, <2>1, IdleJob, GoesOn
  <2> QED
    BY <1>2, <1>3, <2>1, <2>2 DEF PlainJob, Moves, Locked, Restarting, Idle
<1>6. CASE Check(w)
  <2> DEFINE f == [job[w] EXCEPT !.op = "choose"]
  <2>1. job[w].op = "check" /\ (Goes(w, f) \/ Goes(w, Idle))
    BY <1>6 DEF Check
  <2>2. /\ f \in Jobs /\ f.op = "choose" /\ f.stage = job[w].stage /\ f.kind = job[w].kind
        /\ f.alone = job[w].alone
    BY <1>1 DEF Jobs, Ops
  <2> HIDE DEF f
  <2>3. f.stage = "none" /\ ~f.alone /\ f.kind # "restart"
    BY <1>3, <2>1, <2>2
  <2>4. Errand(f)
    BY <2>2, <2>3 DEF Errand, Commands, Restarting
  <2>5. CASE Goes(w, f)
    <3>1. JobsTyped' /\ job'[w] = f /\ \A v \in Job \ {w} : job'[v] = job[v]
      BY <1>1, <2>2, <2>4, <2>5, GoesOn
    <3> QED
      BY <1>2, <1>3, <2>1, <2>2, <2>3, <3>1 DEF PlainJob, Moves, Locked, Restarting
  <2>6. CASE Goes(w, Idle)
    <3>1. JobsTyped' /\ job'[w] = Idle /\ \A v \in Job \ {w} : job'[v] = job[v]
      BY <1>1, <2>6, IdleJob, GoesOn
    <3> QED
      BY <1>2, <1>3, <2>1, <3>1 DEF PlainJob, Moves, Locked, Restarting, Idle
  <2> QED
    BY <2>1, <2>5, <2>6
<1>7. CASE Choose(w)
  <2> DEFINE f == Settled(job[w], exitNode)
  <2>1. job[w].op = "choose" /\ Goes(w, f)
    BY <1>7 DEF Choose
  <2>2. /\ f \in Jobs /\ Errand(f) /\ ~f.alone /\ f.kind # "restart"
        /\ \/ f = Idle
           \/ f.op = "pin" /\ f.stage = "lock"
    BY <1>1, <1>3, SettledJob
  <2> HIDE DEF f
  <2>3. JobsTyped' /\ job'[w] = f /\ \A v \in Job \ {w} : job'[v] = job[v]
    BY <1>1, <2>1, <2>2, GoesOn
  <2>4. f.stage \notin {"close", "publish"} \cup Locked /\ f.op \notin Restarting
    BY <2>2 DEF Idle, Locked, Restarting
  <2> QED
    BY <1>2, <1>3, <2>1, <2>2, <2>3, <2>4 DEF PlainJob, Moves, Locked
<1> QED
  BY <1>4, <1>5, <1>6, <1>7

\* A restart goes on, or ends.
LEMMA RestartedJob ==
  ASSUME Typed, NEW w \in Job,
         Stop(w) \/ Swap(w) \/ Spawn(w) \/ Connect(w) \/ Boot(w) \/ RestartFails(w)
  PROVE  /\ PlainJob(w) /\ Moves(w)
         /\ ~job'[w].alone /\ job[w].kind = "restart"
         /\ job[w].stage = "none" /\ job'[w].stage \in {"none", "lock"}
         /\ job'[w].op # "swap"
         /\ job'[w].op = "spawn" => Swap(w)
         /\ job'[w].op # "pin"
<1>1. /\ job[w] \in Jobs /\ Errand(job[w]) /\ JobsTyped /\ used \in Conns \cup {None}
  BY DEF Typed, JobsTyped, ConnTyped
<1>2. /\ job[w].op \in Restarting /\ ctrlMu' = ctrlMu /\ (used' = None <=> used = None)
  <2>2. CASE Stop(w) \/ Connect(w)
    <3>1. job[w].op \in Restarting /\ ctrlMu' = ctrlMu
          /\ used' = IF used = "current" THEN "former" ELSE used
      BY <2>2 DEF Stop, Connect, Proceeds, Replaced, Restarting
    <3> QED
      BY <3>1, NoneIsNoConnection DEF Conns
  <2>3. CASE Swap(w) \/ Spawn(w) \/ Boot(w) \/ RestartFails(w)
    BY <2>3 DEF Swap, Spawn, Boot, RestartFails, Proceeds, Restarting, control
  <2> QED
    BY <2>2, <2>3
<1>3. job[w].kind = "restart" /\ job[w].stage = "none" /\ ~job[w].alone
  BY <1>1, <1>2 DEF Errand, Restarting, Commands
<1>4. ASSUME NEW op \in Restarting, Goes(w, [job[w] EXCEPT !.op = op])
      PROVE  /\ JobsTyped' /\ (\A v \in Job \ {w} : job'[v] = job[v])
             /\ job'[w].op = op /\ job'[w].stage = "none" /\ ~job'[w].alone
  <2> DEFINE f == [job[w] EXCEPT !.op = op]
  <2>1. f \in Jobs /\ Errand(f) /\ f.op = op /\ f.stage = "none" /\ ~f.alone
    BY <1>1, <1>2, RestartJob
  <2> HIDE DEF f
  <2>2. JobsTyped' /\ job'[w] = f /\ \A v \in Job \ {w} : job'[v] = job[v]
    BY <1>1, <1>4, <2>1, GoesOn DEF f
  <2> QED
    BY <2>1, <2>2
<1>5. ASSUME Goes(w, Idle)
      PROVE  /\ JobsTyped' /\ (\A v \in Job \ {w} : job'[v] = job[v])
             /\ job'[w].op = "none" /\ job'[w].stage = "none" /\ ~job'[w].alone
  <2>1. JobsTyped' /\ job'[w] = Idle /\ \A v \in Job \ {w} : job'[v] = job[v]
    BY <1>1, <1>5, IdleJob, GoesOn
  <2> QED
    BY <2>1 DEF Idle
<1>6. ASSUME Goes(w, [Calls(Idle, "read") EXCEPT !.kind = "ladder"])
      PROVE  /\ JobsTyped' /\ (\A v \in Job \ {w} : job'[v] = job[v])
             /\ job'[w].op = "read" /\ job'[w].stage = "lock" /\ ~job'[w].alone
  <2> DEFINE f == [Calls(Idle, "read") EXCEPT !.kind = "ladder"]
  <2>1. f \in Jobs /\ Errand(f) /\ f.op = "read" /\ f.stage = "lock" /\ ~f.alone
    BY DEF Calls, Idle, Jobs, Kinds, Ops, Steps, Origins, Commands, Errand, Restarting
  <2> HIDE DEF f
  <2>2. JobsTyped' /\ job'[w] = f /\ \A v \in Job \ {w} : job'[v] = job[v]
    BY <1>1, <1>6, <2>1, GoesOn DEF f
  <2> QED
    BY <2>1, <2>2
<1>7. \/ Stop(w) /\ Goes(w, [job[w] EXCEPT !.op = "kill"])
      \/ Swap(w) /\ Goes(w, [job[w] EXCEPT !.op = "spawn"])
      \/ Spawn(w) /\ Goes(w, [job[w] EXCEPT !.op = "connect"])
      \/ Connect(w) /\ Goes(w, [job[w] EXCEPT !.op = "boot"])
      \/ Goes(w, Idle)
      \/ Goes(w, [Calls(Idle, "read") EXCEPT !.kind = "ladder"])
  BY DEF Stop, Swap, Spawn, Connect, Boot, RestartFails, Proceeds
<1>8. /\ JobsTyped' /\ (\A v \in Job \ {w} : job'[v] = job[v])
      /\ job'[w].op \in {"kill", "spawn", "connect", "boot", "none", "read"}
      /\ job'[w].op = "spawn" => Swap(w)
      /\ job'[w].stage \in {"none", "lock"} /\ ~job'[w].alone
  <2>1. {"kill", "spawn", "connect", "boot"} \subseteq Restarting
    BY DEF Restarting
  <2> QED
    BY <1>4, <1>5, <1>6, <1>7, <2>1
<1> QED
  BY <1>2, <1>3, <1>8 DEF PlainJob, Moves, Locked

\* The others are where they were, and no answer to a change of policy is less overtaken.
OthersStay(w) == \A v \in Job \ {w} : Same(v) /\ (job[v].overtaken => job'[v].overtaken)

LEMMA UnpinnedJob ==
  ASSUME Typed, NEW w \in Job, Unpinned(w)
  PROVE  /\ JobsTyped' /\ Moves(w) /\ OthersStay(w)
         /\ At(w, "unpin", "flight") /\ At(w, "unpin", "publish")'
         /\ job'[w].kind = job[w].kind /\ job'[w].avoid = job[w].avoid
         /\ \A v \in Job \ {w} :
              /\ ~job'[v].alone
              /\ Late(v, {"pin", "unpin"}) => job'[v].overtaken
              /\ job'[v].overtaken => job[v].overtaken \/ Late(v, {"pin", "unpin"})
<1> DEFINE f == [job[w] EXCEPT !.stage = "publish", !.alone = TRUE]
<1>1. /\ job[w] \in Jobs /\ Errand(job[w]) /\ JobsTyped
      /\ job[w].op = "unpin" /\ job[w].stage = "flight"
      /\ Become(w, f, Rewritten(w, {"pin", "unpin"}))
      /\ ctrlMu' = None /\ used' = None
  BY DEF Typed, JobsTyped, Unpinned, Answers, Receives, At, Released
<1>2. f \in Jobs
  <2>1. "publish" \in Steps /\ TRUE \in BOOLEAN
    BY DEF Steps
  <2> QED
    BY <1>1, <2>1, Zenon DEF Jobs
<1>3. /\ f.op = "unpin" /\ f.stage = "publish" /\ f.kind = job[w].kind
      /\ f.avoid = job[w].avoid /\ f.alone
  BY <1>1 DEF Jobs
<1> HIDE DEF f
<1>4. Errand(f)
  BY <1>1, <1>3 DEF Errand
<1>5. /\ JobsTyped' /\ job'[w] = f
      /\ \A v \in Job \ {w} :
           /\ Same(v) /\ ~job'[v].alone
           /\ job[v].overtaken \/ Late(v, {"pin", "unpin"}) => job'[v].overtaken
           /\ job'[v].overtaken => job[v].overtaken \/ Late(v, {"pin", "unpin"})
  BY <1>1, <1>2, <1>4, RewritesOn
<1>6. Moves(w)
  BY <1>1, <1>3, <1>5 DEF Moves, Locked
<1> QED
  BY <1>1, <1>3, <1>5, <1>6 DEF OthersStay, At

LEMMA PinnedJob ==
  ASSUME Typed, Mutex, NEW w \in Job, Pinned(w)
  PROVE  /\ JobsTyped' /\ Moves(w) /\ OthersStay(w)
         /\ At(w, "pin", "flight") /\ At(w, "pin", "close")'
         /\ job'[w].kind = job[w].kind /\ job'[w].node = job[w].node
         /\ \A v \in Job :
              /\ ~job'[v].alone
              /\ v # w /\ Late(v, {"pin", "unpin"}) => job'[v].overtaken
<1> DEFINE f == [job[w] EXCEPT !.stage = "close"]
<1>1. /\ job[w] \in Jobs /\ Errand(job[w]) /\ JobsTyped /\ used \in Conns \cup {None}
      /\ job[w].op = "pin" /\ job[w].stage = "flight"
      /\ Become(w, f, Rewritten(w, {"pin", "unpin"}))
      /\ ctrlMu' = ctrlMu /\ used' = used
  BY DEF Typed, JobsTyped, ConnTyped, Pinned, Answers, Receives, At, Holding
<1>2. "close" \in Steps \ {"none"} /\ ~job[w].alone /\ used # None
  BY <1>1 DEF Steps, Errand, Mutex, Locked
<1>3. /\ f \in Jobs /\ Errand(f) /\ f.stage = "close" /\ f.op = "pin" /\ f.kind = job[w].kind
      /\ f.alone = job[w].alone /\ f.node = job[w].node
  BY <1>1, <1>2, StageJob
<1> HIDE DEF f
<1>4. /\ JobsTyped' /\ job'[w] = f
      /\ \A v \in Job \ {w} :
           /\ Same(v) /\ ~job'[v].alone
           /\ job[v].overtaken \/ Late(v, {"pin", "unpin"}) => job'[v].overtaken
  BY <1>1, <1>3, RewritesOn
<1>5. Moves(w)
  BY <1>1, <1>2, <1>3, <1>4 DEF Moves, Locked
<1> QED
  BY <1>1, <1>2, <1>3, <1>4, <1>5 DEF OthersStay, At

LEMMA SignalledJob ==
  ASSUME Typed, Mutex, NEW w \in Job, Signalled(w)
  PROVE  /\ JobsTyped' /\ Moves(w) /\ OthersStay(w)
         /\ At(w, "newnym", "flight") /\ At(w, "newnym", "close")'
         /\ \A v \in Job :
              job'[v].kind = job[v].kind /\ job'[v].avoid = job[v].avoid
              /\ job'[v].alone = job[v].alone
         /\ \A v \in Job \ {w} : Late(v, {"read"}) => job'[v].overtaken
<1> DEFINE f == [job[w] EXCEPT !.stage = "close"]
<1>1. /\ job[w] \in Jobs /\ Errand(job[w]) /\ JobsTyped /\ used \in Conns \cup {None}
      /\ job[w].op = "newnym" /\ job[w].stage = "flight"
      /\ Become(w, f, Overtaken(w, {"read"}))
      /\ ctrlMu' = ctrlMu /\ used' = used
  BY DEF Typed, JobsTyped, ConnTyped, Signalled, Answers, Receives, At, Holding
<1>2. "close" \in Steps \ {"none"} /\ used # None
  BY <1>1 DEF Steps, Mutex, Locked
<1>3. /\ f \in Jobs /\ Errand(f) /\ f.stage = "close" /\ f.op = "newnym" /\ f.kind = job[w].kind
      /\ f.alone = job[w].alone /\ f.avoid = job[w].avoid
  BY <1>1, <1>2, StageJob
<1> HIDE DEF f
<1>4. /\ JobsTyped' /\ job'[w] = f
      /\ \A v \in Job \ {w} :
           /\ Same(v) /\ job'[v].alone = job[v].alone
           /\ job[v].overtaken \/ Late(v, {"read"}) => job'[v].overtaken
  BY <1>1, <1>3, OvertakesOn
<1>5. Moves(w)
  BY <1>1, <1>2, <1>3, <1>4 DEF Moves, Locked
<1>6. \A v \in Job : /\ job'[v].kind = job[v].kind /\ job'[v].avoid = job[v].avoid
                     /\ job'[v].alone = job[v].alone
  BY <1>3, <1>4 DEF Same
<1> QED
  BY <1>1, <1>3, <1>4, <1>5, <1>6 DEF OthersStay, At

LEMMA CloseJob ==
  ASSUME Typed, NEW w \in Job, Close(w)
  PROVE  /\ JobsTyped' /\ Moves(w)
         /\ \A v \in Job \ {w} : job'[v] = job[v]
         /\ job[w].stage = "close"
         /\ job'[w].kind = job[w].kind /\ job'[w].avoid = job[w].avoid
         /\ job'[w].alone = job[w].alone
         /\ \/ /\ At(w, "pin", "publish")' /\ job[w].op = "pin" /\ UNCHANGED exit
               /\ job'[w].node = job[w].node /\ job'[w].overtaken = job[w].overtaken
            \/ At(w, "read", "lock")' /\ job[w].op = "newnym" /\ RetireExit
<1>1. /\ job[w] \in Jobs /\ Errand(job[w]) /\ JobsTyped
      /\ job[w].stage = "close" /\ ctrlMu' = None /\ used' = None
  BY DEF Typed, JobsTyped, Close, Discarded, Released
<1>2. job[w].kind # "restart"
  BY <1>1 DEF Errand, Commands, Restarting
<1>3. CASE job[w].op = "pin" /\ Goes(w, [job[w] EXCEPT !.stage = "publish"]) /\ UNCHANGED exit
  <2> DEFINE f == [job[w] EXCEPT !.stage = "publish"]
  <2>1. "publish" \in Steps \ {"none"} /\ ~job[w].alone
    BY <1>1, <1>3 DEF Steps, Errand
  <2>2. /\ f \in Jobs /\ Errand(f) /\ f.stage = "publish" /\ f.op = "pin"
        /\ f.kind = job[w].kind /\ f.avoid = job[w].avoid /\ f.alone = job[w].alone
        /\ f.node = job[w].node /\ f.overtaken = job[w].overtaken
    BY <1>1, <1>3, <2>1, StageJob
  <2> HIDE DEF f
  <2>3. JobsTyped' /\ job'[w] = f /\ \A v \in Job \ {w} : job'[v] = job[v]
    BY <1>1, <1>3, <2>2, GoesOn DEF f
  <2> QED
    BY <1>1, <1>3, <2>2, <2>3 DEF Moves, Locked, At
<1>4. CASE job[w].op = "newnym" /\ Goes(w, Calls(job[w], "read")) /\ RetireExit
  <2> DEFINE f == Calls(job[w], "read")
  <2>1. "read" \in Commands \ {"pin"} /\ (job[w].alone => "read" \in {"newnym", "read"})
    BY DEF Commands
  <2>2. /\ f \in Jobs /\ Errand(f) /\ f.stage = "lock" /\ f.op = "read"
        /\ f.kind = job[w].kind /\ f.avoid = job[w].avoid /\ f.alone = job[w].alone
    BY <1>1, <1>2, <2>1, CallsJob
  <2> HIDE DEF f
  <2>3. JobsTyped' /\ job'[w] = f /\ \A v \in Job \ {w} : job'[v] = job[v]
    BY <1>1, <1>4, <2>2, GoesOn DEF f
  <2> QED
    BY <1>1, <1>4, <2>2, <2>3 DEF Moves, Locked, At
<1> QED
  BY <1>3, <1>4 DEF Close

LEMMA ReadJob ==
  ASSUME Typed, NEW w \in Job, Read(w)
  PROVE  /\ JobsTyped' /\ Moves(w)
         /\ \A v \in Job \ {w} : job'[v] = job[v]
         /\ At(w, "read", "flight") /\ At(w, "read", "publish")'
         /\ job'[w].kind = job[w].kind /\ job'[w].avoid = job[w].avoid
         /\ job'[w].alone = job[w].alone
         /\ job'[w].from = "fresh" => \E c \in circuits : ~c.older /\ c.exit = job'[w].node
<1>1. /\ job[w] \in Jobs /\ Errand(job[w]) /\ JobsTyped /\ circuits \subseteq Circuit
      /\ job[w].op = "read" /\ job[w].stage = "flight" /\ ctrlMu' = None /\ used' = None
  BY DEF Typed, JobsTyped, TorTyped, Read, Answers, Receives, At, Released
<1>2. PICK c \in Reportable, sure \in BOOLEAN :
        Goes(w, [job[w] EXCEPT !.stage = "publish", !.node = c.exit, !.sure = sure,
                               !.from = Whence(c)])
  BY DEF Read
<1>3. /\ c \in circuits /\ c.exit \in Relay
      /\ Whence(c) \in {"fresh", "strayed"} /\ (Whence(c) = "fresh" => ~c.older)
  BY <1>1 DEF Reportable, Whence, Circuit
<1> DEFINE f == [job[w] EXCEPT !.stage = "publish", !.node = c.exit, !.sure = sure,
                               !.from = Whence(c)]
<1>4. f \in Jobs
  <2>1. /\ "publish" \in Steps /\ c.exit \in Relay \cup {None}
        /\ Whence(c) \in Origins \ {"none"}
    BY <1>3 DEF Steps, Origins
  <2> QED
    BY <1>1, <2>1, Zenon DEF Jobs
<1>5. /\ f.op = "read" /\ f.stage = "publish" /\ f.kind = job[w].kind /\ f.avoid = job[w].avoid
      /\ f.alone = job[w].alone /\ f.node = c.exit /\ f.from = Whence(c)
  BY <1>1 DEF Jobs
<1> HIDE DEF f
<1>6. Errand(f)
  BY <1>1, <1>3, <1>5 DEF Errand
<1>7. JobsTyped' /\ job'[w] = f /\ \A v \in Job \ {w} : job'[v] = job[v]
  BY <1>1, <1>2, <1>4, <1>6, GoesOn DEF f
<1>8. Moves(w)
  BY <1>1, <1>5, <1>7 DEF Moves, Locked
<1> QED
  BY <1>1, <1>3, <1>5, <1>7, <1>8 DEF At

\* What a lost command of w may have done: nothing, ...
LostInVain(w) ==
  /\ UNCHANGED <<policy, circuits, cooling, origin, drifted>>
  /\ \A v \in Job \ {w} : job'[v] = job[v]

\* ... a NEWNYM, ...
LostNewnym(w) ==
  /\ running /\ circuits' = Aged /\ cooling' = TRUE /\ UNCHANGED <<policy, drifted>>
  /\ origin' = IF origin = "fresh" THEN "strayed" ELSE origin
  /\ \A v \in Job \ {w} : /\ job'[v].alone = job[v].alone
                          /\ Late(v, {"read"}) => job'[v].overtaken
  /\ ~job'[w].alone

\* ... or a change of policy.
LostPolicy(w) ==
  /\ running /\ drifted' = TRUE /\ UNCHANGED <<circuits, cooling, origin>>
  /\ \A v \in Job : /\ ~job'[v].alone
                    /\ v # w /\ Late(v, {"pin", "unpin"}) => job'[v].overtaken

LEMMA BreaksJob ==
  ASSUME Typed, NEW w \in Job, Breaks(w)
  PROVE  /\ JobsTyped' /\ Moves(w) /\ OthersStay(w)
         /\ job[w].stage = "flight" /\ job'[w].stage \in {"none", "lock"}
         /\ job'[w].op \in {"none", "read"} /\ job'[w].kind # "restart"
         /\ job'[w].alone => /\ job[w].alone /\ job[w].op = "read" /\ job'[w].op = "read"
                             /\ job'[w].avoid = job[w].avoid
         /\ policy' \in Policy
         /\ LostInVain(w) \/ LostNewnym(w) \/ LostPolicy(w)
<1>1. /\ job[w] \in Jobs /\ Errand(job[w]) /\ JobsTyped /\ policy \in Policy
      /\ job[w].op \in Commands /\ job[w].stage = "flight"
      /\ ctrlMu' = None /\ used' = None
  BY DEF Typed, JobsTyped, TorTyped, Breaks, At, Discarded, Released
<1>2. CASE NoEffect(w)
  <2>1. Fails(w) /\ UNCHANGED <<policy, circuits, cooling, origin, drifted>>
    BY <1>2 DEF NoEffect
  <2>2. /\ JobsTyped'
        /\ \A v \in Job \ {w} : job'[v] = job[v]
        /\ job'[w].stage \in {"none", "lock"}
        /\ job'[w].op \in {"none", "read"}
        /\ job'[w].kind # "restart"
        /\ job'[w].alone => /\ job[w].alone /\ job[w].op = "read" /\ job'[w].op = "read"
                            /\ job'[w].avoid = job[w].avoid
    BY <1>1, <2>1, FailsOn
  <2>3. Moves(w)
    BY <1>1, <2>2 DEF Moves, Locked
  <2> QED
    BY <1>1, <2>1, <2>2, <2>3 DEF LostInVain, OthersStay, Same
<1>3. CASE /\ Receives(w, "newnym") /\ circuits' = Aged /\ cooling' = TRUE
           /\ origin' = IF origin = "fresh" THEN "strayed" ELSE origin
           /\ UNCHANGED <<policy, drifted>> /\ Become(w, Idle, Overtaken(w, {"read"}))
  <2>1. running
    BY <1>3 DEF Receives
  <2>2. /\ JobsTyped' /\ job'[w] = Idle
        /\ \A v \in Job \ {w} :
             /\ Same(v) /\ job'[v].alone = job[v].alone
             /\ job[v].overtaken \/ Late(v, {"read"}) => job'[v].overtaken
    BY <1>1, <1>3, IdleJob, OvertakesOn
  <2>3. Moves(w)
    BY <1>1, <2>2 DEF Moves, Locked, Idle
  <2> QED
    BY <1>1, <1>3, <2>1, <2>2, <2>3 DEF LostNewnym, OthersStay, Idle
<1>4. CASE /\ \/ Receives(w, "pin") /\ policy' = [pin |-> job[w].node, avoid |-> None]
              \/ Receives(w, "unpin") /\ policy' = Avoids(job[w])
           /\ drifted' = TRUE /\ Become(w, Idle, Rewritten(w, {"pin", "unpin"}))
           /\ UNCHANGED <<circuits, cooling, origin>>
  <2>1. running /\ policy' \in Policy
    BY <1>1, <1>4 DEF Receives, Avoids, Policy, Jobs
  <2>2. /\ JobsTyped' /\ job'[w] = Idle
        /\ \A v \in Job \ {w} :
             /\ Same(v) /\ ~job'[v].alone
             /\ job[v].overtaken \/ Late(v, {"pin", "unpin"}) => job'[v].overtaken
    BY <1>1, <1>4, IdleJob, RewritesOn
  <2>3. Moves(w)
    BY <1>1, <2>2 DEF Moves, Locked, Idle
  <2> QED
    BY <1>1, <1>4, <2>1, <2>2, <2>3 DEF LostPolicy, OthersStay, Idle
<1> QED
  BY <1>2, <1>3, <1>4 DEF Breaks, TakesEffect

LEMMA PublishReadJob ==
  ASSUME Typed, NEW w \in Job, PublishRead(w)
  PROVE  /\ JobsTyped' /\ Moves(w)
         /\ \A v \in Job \ {w} : job'[v] = job[v]
         /\ At(w, "read", "publish") /\ job[w].kind # "restart"
         /\ job'[w].stage \in {"none", "lock"} /\ job'[w].kind # "restart"
         /\ ~job'[w].alone /\ job'[w].op \in {"none", "pin"}
         /\ job'[w].op = "pin" => job'[w].node = exitNode'
         /\ exitNode' \in Relay \cup {None}
<1>1. /\ job[w] \in Jobs /\ Errand(job[w]) /\ JobsTyped /\ At(w, "read", "publish")
      /\ job[w].op = "read" /\ job[w].stage = "publish"
      /\ UNCHANGED <<ctrlMu, used>> /\ exitNode \in Relay \cup {None}
  BY DEF Typed, JobsTyped, ExitTyped, PublishRead, At, control
<1>2. job[w].kind # "restart" /\ job[w].stage \notin Locked /\ job[w].node \in Relay
  BY <1>1 DEF Errand, Restarting, Locked
<1>3. exitNode' \in Relay \cup {None}
  BY <1>1, <1>2 DEF PublishRead, exit
<1>4. \/ Goes(w, Idle)
      \/ Goes(w, Settled(job[w], exitNode'))
  BY DEF PublishRead
<1>5. CASE Goes(w, Idle)
  <2>1. JobsTyped' /\ job'[w] = Idle /\ \A v \in Job \ {w} : job'[v] = job[v]
    BY <1>1, <1>5, IdleJob, GoesOn
  <2> QED
    BY <1>1, <1>2, <1>3, <2>1 DEF Moves, Locked, Idle
<1>6. CASE Goes(w, Settled(job[w], exitNode'))
  <2> DEFINE f == Settled(job[w], exitNode')
  <2>1. /\ f \in Jobs /\ Errand(f) /\ ~f.alone /\ f.kind # "restart"
        /\ \/ f = Idle
           \/ f.op = "pin" /\ f.stage = "lock" /\ f.node = exitNode'
    BY <1>1, <1>2, <1>3, SettledJob
  <2> HIDE DEF f
  <2>2. JobsTyped' /\ job'[w] = f /\ \A v \in Job \ {w} : job'[v] = job[v]
    BY <1>1, <1>6, <2>1, GoesOn DEF f
  <2>3. f.stage \in {"none", "lock"} /\ f.op \in {"none", "pin"}
        /\ (f.op = "pin" => f.node = exitNode')
    BY <2>1 DEF Idle
  <2> QED
    BY <1>1, <1>2, <1>3, <2>1, <2>2, <2>3 DEF Moves, Locked
<1> QED
  BY <1>4, <1>5, <1>6

LEMMA KillJob ==
  ASSUME Typed, NEW w \in Job, Kill(w)
  PROVE  /\ JobsTyped' /\ Moves(w) /\ OthersStay(w)
         /\ job[w].kind = "restart" /\ job[w].stage = "none" /\ job'[w].stage = "none"
         /\ job'[w].kind = "restart" /\ job'[w].op = "swap"
         /\ \A v \in Job :
              /\ ~job'[v].alone
              /\ v # w /\ Late(v, {"read", "pin", "unpin"}) => job'[v].overtaken
<1> DEFINE f == [job[w] EXCEPT !.op = "swap"]
           ops == {"read", "pin", "unpin"}
<1>1. /\ job[w] \in Jobs /\ Errand(job[w]) /\ JobsTyped /\ job[w].op = "kill"
      /\ Become(w, f, Rewritten(w, ops))
      /\ ctrlMu' = ctrlMu /\ used' = used
  BY DEF Typed, JobsTyped, Kill
<1>2. "swap" \in Restarting /\ job[w].op \in Restarting
  BY <1>1 DEF Restarting
<1>3. f \in Jobs /\ Errand(f) /\ f.op = "swap" /\ f.stage = "none" /\ f.kind = "restart" /\ ~f.alone
  BY <1>1, <1>2, RestartJob
<1> HIDE DEF f, ops
<1>4. /\ JobsTyped' /\ job'[w] = f
      /\ \A v \in Job \ {w} :
           /\ Same(v) /\ ~job'[v].alone
           /\ job[v].overtaken \/ Late(v, ops) => job'[v].overtaken
  BY <1>1, <1>3, RewritesOn
<1>5. job[w].stage = "none" /\ job[w].kind = "restart"
  BY <1>1, <1>2 DEF Errand, Restarting, Commands
<1>6. Moves(w)
  BY <1>1, <1>3, <1>4, <1>5 DEF Moves, Locked
<1> QED
  BY <1>3, <1>4, <1>5, <1>6 DEF OthersStay, ops

-----------------------------------------------------------------------------
(* The steps, sorted by what they disturb.                                  *)

Acts(w) ==
  \/ Start(w) \/ Lock(w) \/ Skip(w) \/ Commanded(w) \/ Published(w) \/ Restarted(w)

LEMMA ActsSorted ==
  ASSUME NEW w \in Job, Acts(w)
  PROVE  \/ Plain(w) \/ Unpinned(w) \/ Pinned(w) \/ Signalled(w) \/ Close(w) \/ Read(w)
         \/ Breaks(w) \/ PublishRead(w) \/ Kill(w)
  BY DEF Acts, Commanded, Published, Restarted, Plain

LEMMA PlainStep ==
  ASSUME Typed, NEW w \in Job, Plain(w)
  PROVE  /\ PlainJob(w) /\ Moves(w)
         /\ UNCHANGED <<policy, circuits, cooling>>
         /\ job'[w].kind = "restart" => job[w].kind = "restart" \/ Alone({"restart"})
         /\ job'[w].stage = "flight" => Lock(w) \/ Dial(w)
         /\ job'[w].op # "swap" /\ (job'[w].op = "spawn" => Swap(w))
         /\ \/ job[w].stage \notin {"close", "publish"} /\ (Swap(w) \/ UNCHANGED pin)
            \/ PublishUnpin(w) \/ PublishPin(w)
         /\ UNCHANGED exit \/ RetireExit
         /\ UNCHANGED running \/ (Spawn(w) /\ running' = TRUE)
         /\ ~At(w, "newnym", "close")
<1>1. UNCHANGED <<policy, circuits, cooling>>
  BY DEF Plain, Start, Lock, Skip, Dial, DialFails, Refused, PublishUnpin, PublishPin, Check,
         Choose, Stop, Swap, Spawn, Connect, Boot, RestartFails, tor
<1>2. (UNCHANGED exit \/ RetireExit) /\ (UNCHANGED running \/ (Spawn(w) /\ running' = TRUE))
  BY DEF Plain, Start, Lock, Skip, Dial, DialFails, Refused, PublishUnpin, PublishPin, Check,
         Choose, Stop, Swap, Spawn, Connect, Boot, RestartFails, tor
<1>3. UNCHANGED pin \/ Swap(w) \/ PublishUnpin(w) \/ PublishPin(w)
  BY DEF Plain, Start, Lock, Skip, Dial, DialFails, Refused, Check,
         Choose, Stop, Spawn, Connect, Boot, RestartFails
<1>4. CASE Start(w)
  <2>1. /\ PlainJob(w)
        /\ job[w] = Idle
        /\ job'[w].stage \in {"none", "lock"} /\ ~job'[w].alone
        /\ job'[w].op \notin {"swap", "spawn", "pin"}
        /\ job'[w].kind = "restart" => Alone({"restart"})
    BY <1>4, StartJob
  <2>2. UNCHANGED <<ctrlMu, used>> /\ UNCHANGED pin
    BY <1>4 DEF Start, control
  <2> QED
    BY <1>1, <1>2, <2>1, <2>2 DEF Moves, Locked, Idle, At
<1>5. CASE Lock(w) \/ DialFails(w) \/ Refused(w) \/ Skip(w) \/ Dial(w)
  <2>1. /\ PlainJob(w) /\ Moves(w)
        /\ job'[w].op \notin Restarting /\ job'[w].kind # "restart"
        /\ job[w].stage \in {"lock", "dial", "flight"}
        /\ job'[w].stage = "flight" => Lock(w) \/ Dial(w)
    BY <1>5, LockJob, FailedJob, DialJob
  <2>2. UNCHANGED pin
    BY <1>5 DEF Lock, Skip, Dial, DialFails, Refused
  <2> QED
    BY <1>1, <1>2, <2>1, <2>2 DEF Restarting, At
<1>6. CASE PublishUnpin(w) \/ PublishPin(w) \/ Check(w) \/ Choose(w)
  <2>1. /\ PlainJob(w) /\ Moves(w)
        /\ job'[w].op \notin Restarting /\ job'[w].kind # "restart"
        /\ Check(w) \/ Choose(w) => job[w].stage = "none"
        /\ job'[w].stage # "flight"
    BY <1>6, SaidJob
  <2>2. ~At(w, "newnym", "close")
    BY <1>6 DEF PublishUnpin, PublishPin, Check, Choose, At
  <2>3. Check(w) \/ Choose(w) => UNCHANGED pin
    BY DEF Check, Choose
  <2> QED
    BY <1>1, <1>2, <1>6, <2>1, <2>2, <2>3 DEF Restarting
<1>7. CASE Stop(w) \/ Swap(w) \/ Spawn(w) \/ Connect(w) \/ Boot(w) \/ RestartFails(w)
  <2>1. /\ PlainJob(w) /\ Moves(w)
        /\ job[w].kind = "restart" /\ job[w].stage = "none" /\ job'[w].stage # "flight"
        /\ job'[w].op # "swap"
        /\ job'[w].op = "spawn" => Swap(w)
    BY <1>7, RestartedJob
  <2>2. Swap(w) \/ UNCHANGED pin
    BY <1>7 DEF Stop, Spawn, Connect, Boot, RestartFails
  <2>3. ~At(w, "newnym", "close")
    BY <2>1 DEF At
  <2> QED
    BY <1>1, <1>2, <2>1, <2>2, <2>3
<1> QED
  BY <1>4, <1>5, <1>6, <1>7 DEF Plain

\* ctrlMu is held by whoever is at a stage of its command that needs it.
LEMMA MutexKept ==
  ASSUME Typed, Mutex, NEW w \in Job, Moves(w),
         \A v \in Job \ {w} : job'[v].stage = job[v].stage
  PROVE  Mutex'
<1>1. /\ ctrlMu \in Job \cup {None} /\ used \in Conns \cup {None}
      /\ None \notin Job /\ None \notin Conns
  BY ExitsAssumption, NoneIsNoConnection DEF Typed, ConnTyped
<1>2. /\ \A v \in Job : job[v].stage \in Locked <=> ctrlMu = v
      /\ used # None <=> \E v \in Job : ctrlMu = v /\ job[v].stage \in {"flight", "close"}
  BY DEF Mutex
<1>3. \A v \in Job : job'[v].stage \in Locked <=> ctrlMu' = v
  BY <1>1, <1>2 DEF Moves, Locked
<1>4. used' # None <=> \E v \in Job : ctrlMu' = v /\ job'[v].stage \in {"flight", "close"}
  BY <1>1, <1>2 DEF Moves, Locked, Conns
<1> QED
  BY <1>3, <1>4 DEF Mutex

\* Whoever acts, the goroutines keep their types, and the others their place.
LEMMA ActsJob ==
  ASSUME Typed, Mutex, NEW w \in Job, Acts(w)
  PROVE  /\ JobsTyped' /\ Moves(w) /\ OthersStay(w)
         /\ job'[w].stage = "flight" => Lock(w) \/ Dial(w)
<1>1. CASE Plain(w)
  BY <1>1, PlainStep DEF PlainJob, OthersStay, Same
<1>2. CASE Unpinned(w)
  BY <1>2, UnpinnedJob DEF At
<1>3. CASE Pinned(w)
  BY <1>3, PinnedJob DEF At
<1>4. CASE Signalled(w)
  BY <1>4, SignalledJob DEF At
<1>5. CASE Close(w)
  BY <1>5, CloseJob DEF At, OthersStay, Same
<1>6. CASE Read(w)
  BY <1>6, ReadJob DEF At, OthersStay, Same
<1>7. CASE Breaks(w)
  BY <1>7, BreaksJob
<1>8. CASE PublishRead(w)
  BY <1>8, PublishReadJob DEF OthersStay, Same
<1>9. CASE Kill(w)
  BY <1>9, KillJob
<1> QED
  BY <1>1, <1>2, <1>3, <1>4, <1>5, <1>6, <1>7, <1>8, <1>9, ActsSorted

LEMMA ActsTor ==
  ASSUME Typed, Mutex, NEW w \in Job, Acts(w)
  PROVE  TorTyped'
<1>1. /\ TorTyped /\ job[w] \in Jobs /\ Errand(job[w])
  BY DEF Typed, JobsTyped
<1>2. Aged \subseteq Circuit
  BY <1>1 DEF TorTyped, Aged, Circuit
<1>3. CASE Plain(w)
  <2>1. UNCHANGED <<policy, circuits, cooling>> /\ (UNCHANGED running \/ running' = TRUE)
    BY <1>3, PlainStep
  <2> QED
    BY <1>1, <2>1 DEF TorTyped
<1>4. CASE Unpinned(w)
  BY <1>1, <1>4 DEF Unpinned, TorTyped, Avoids, Policy, Jobs
<1>5. CASE Pinned(w)
  BY <1>1, <1>5 DEF Pinned, TorTyped, Policy, Jobs
<1>6. CASE Signalled(w)
  BY <1>1, <1>2, <1>6 DEF Signalled, TorTyped
<1>7. CASE Close(w)
  BY <1>1, <1>7 DEF Close, TorTyped
<1>8. CASE Read(w) \/ PublishRead(w)
  BY <1>1, <1>8 DEF Read, PublishRead, TorTyped, tor
<1>9. CASE Breaks(w)
  <2>1. policy' \in Policy /\ (LostInVain(w) \/ LostNewnym(w) \/ LostPolicy(w))
    BY <1>9, BreaksJob
  <2>2. running' = running
    BY <1>9 DEF Breaks
  <2> QED
    BY <1>1, <1>2, <2>1, <2>2 DEF TorTyped, LostInVain, LostNewnym, LostPolicy
<1>10. CASE Kill(w)
  BY <1>10 DEF Kill, TorGone, TorTyped, Policy, AnyExit
<1> QED
  BY <1>3, <1>4, <1>5, <1>6, <1>7, <1>8, <1>9, <1>10, ActsSorted

LEMMA ActsExit ==
  ASSUME Typed, Mutex, NEW w \in Job, Acts(w)
  PROVE  ExitTyped'
<1>1. /\ ExitTyped /\ job[w] \in Jobs /\ Errand(job[w]) /\ None \notin Relay
  BY ExitsAssumption DEF Typed, JobsTyped
<1>2. ready' \in BOOLEAN
  BY <1>1 DEF Acts, Commanded, Published, Restarted, ExitTyped,
    Start, Lock, Skip, Dial, DialFails, Unpinned, Pinned, Signalled, Read, Close, Refused,
    Breaks, PublishUnpin, PublishPin, PublishRead, Check, Choose,
    Stop, Kill, Swap, Spawn, Connect, Boot, RestartFails
<1>3. pinnedExit' \in Relay \cup {None} /\ drifted' \in BOOLEAN
  <2>1. CASE Plain(w)
    <3>1. UNCHANGED pin \/ Swap(w) \/ PublishUnpin(w) \/ PublishPin(w)
      BY <2>1, PlainStep
    <3> QED
      BY <1>1, <3>1 DEF ExitTyped, pin, Swap, ForgetPin, PublishUnpin, PublishPin, Jobs
  <2>2. CASE Breaks(w)
    <3>1. LostInVain(w) \/ LostNewnym(w) \/ LostPolicy(w)
      BY <2>2, BreaksJob
    <3> QED
      BY <1>1, <2>2, <3>1 DEF ExitTyped, Breaks, LostInVain, LostNewnym, LostPolicy
  <2>3. CASE \/ Unpinned(w) \/ Pinned(w) \/ Signalled(w) \/ Close(w) \/ Read(w)
             \/ PublishRead(w) \/ Kill(w)
    <3>1. UNCHANGED pin
      BY <2>3 DEF Unpinned, Pinned, Signalled, Close, Read, PublishRead, Kill
    <3> QED
      BY <1>1, <3>1 DEF ExitTyped, pin
  <2> QED
    BY <2>1, <2>2, <2>3, ActsSorted
<1>4. /\ exitNode' \in Relay \cup {None} /\ exitConfirmed' \in BOOLEAN /\ origin' \in Origins
      /\ exitNode' = None <=> origin' = "none"
  <2>1. CASE UNCHANGED exit \/ RetireExit
    BY <1>1, <2>1 DEF ExitTyped, exit, RetireExit, Origins
  <2>2. CASE UNCHANGED <<exitNode, exitConfirmed>> /\ (Outdated \/ UNCHANGED origin)
    BY <1>1, <2>2 DEF ExitTyped, Outdated, Origins
  <2>3. CASE Breaks(w)
    <3>1. LostInVain(w) \/ LostNewnym(w) \/ LostPolicy(w)
      BY <2>3, BreaksJob
    <3> QED
      BY <1>1, <2>3, <3>1 DEF ExitTyped, Breaks, LostInVain, LostNewnym, LostPolicy, Origins
  <2>4. CASE PublishRead(w)
    <3>1. job[w].op = "read" /\ job[w].stage = "publish"
      BY <2>4 DEF PublishRead, At
    <3>2. /\ job[w].node \in Relay /\ job[w].sure \in BOOLEAN
          /\ job[w].from \in Origins \ {"none"}
      BY <1>1, <3>1 DEF Jobs, Errand
    <3>3. \/ UNCHANGED exit
          \/ /\ exitNode' = job[w].node /\ exitConfirmed' = job[w].sure
             /\ origin' \in {"strayed", job[w].from}
      BY <2>4 DEF PublishRead
    <3> QED
      BY <1>1, <3>2, <3>3 DEF ExitTyped, exit, Origins
  <2>5. CASE Plain(w) \/ Close(w)
    BY <2>1, <2>5, PlainStep, CloseJob
  <2>6. CASE Signalled(w) \/ Kill(w) \/ Unpinned(w) \/ Pinned(w) \/ Read(w)
    BY <2>2, <2>6 DEF Signalled, Kill, Unpinned, Pinned, Read, exit
  <2> QED
    BY <2>3, <2>4, <2>5, <2>6, ActsSorted
<1> QED
  BY <1>2, <1>3, <1>4 DEF ExitTyped

-----------------------------------------------------------------------------
(* The connections.                                                         *)

LEMMA Connections ==
  /\ Fresh \in Connection /\ NoConnection \in Connection
  /\ ~Fresh.knows /\ ~Fresh.cool /\ ~NoConnection.knows /\ ~NoConnection.cool
  /\ NoConnection.end = "none"
<1>1. Fresh \in Connection /\ ~Fresh.knows /\ ~Fresh.cool
  BY DEF Fresh, Connection
<1> QED
  BY <1>1 DEF NoConnection, Connection

\* When tor goes, its connections know what they knew.
LEMMA OrphanedConns ==
  ASSUME conn \in [Conns -> Connection]
  PROVE  /\ Orphaned \in [Conns -> Connection]
         /\ \A k \in Conns : Orphaned[k].knows = conn[k].knows /\ Orphaned[k].cool = conn[k].cool
         /\ conn["former"] = NoConnection => Orphaned["former"] = NoConnection
<1>1. ASSUME NEW k \in Conns
      PROVE  /\ Orphaned[k] \in Connection
             /\ Orphaned[k].knows = conn[k].knows /\ Orphaned[k].cool = conn[k].cool
             /\ conn[k].end = "none" => Orphaned[k] = conn[k]
  <2>1. conn[k] \in Connection
    OBVIOUS
  <2>2. Orphaned[k] = [conn[k] EXCEPT !.end = IF conn[k].end = "up" THEN "gone" ELSE conn[k].end]
    BY DEF Orphaned
  <2>3. \A e : [conn[k] EXCEPT !.end = e].knows = conn[k].knows
               /\ [conn[k] EXCEPT !.end = e].cool = conn[k].cool
    BY <2>1 DEF Connection
  <2>4. Orphaned[k] \in Connection
    BY <2>1, <2>2 DEF Connection
  <2>5. conn[k].end = "none" => Orphaned[k] = conn[k]
    BY <2>1, <2>2 DEF Connection
  <2> QED
    BY <2>2, <2>3, <2>4, <2>5
<1>2. Orphaned \in [Conns -> Connection]
  BY <1>1 DEF Orphaned
<1> QED
  BY <1>1, <1>2, Connections DEF Conns

\* What a step of w does to the connections: nothing, ...
Unlinked(w) == UNCHANGED <<conn, used>> /\ cooling' = cooling /\ job'[w].stage # "flight"

\* ... or it begins to use one, ...
Linked(w) ==
  /\ used = None /\ used' = "current" /\ cooling' = cooling
  /\ \/ conn' = conn /\ (job'[w].op = "newnym" => ~conn["current"].cool)
     \/ conn' = [conn EXCEPT !["current"] = Fresh]

\* ... or releases it, ...
Let(w) ==
  \/ Released(conn) /\ cooling' = cooling
  \/ used # None /\ Released([conn EXCEPT ![used] = NoConnection])

\* ... or another takes its place.
Relinked(w) ==
  /\ job'[w].stage # "flight"
  /\ \E k, old \in Connection :
       /\ Replaced(k, old) /\ ~k.knows /\ cooling' = cooling
       /\ old.knows = conn["current"].knows /\ old.cool = conn["current"].cool

LEMMA ActsLinks ==
  ASSUME Typed, Mutex, NEW w \in Job, Acts(w)
  PROVE  \/ Unlinked(w) \/ Linked(w) \/ Let(w) \/ Signalled(w) \/ Relinked(w) \/ Kill(w)
<1>1. /\ conn \in [Conns -> Connection] /\ used \in Conns \cup {None} /\ job[w] \in Jobs
      /\ None \notin Job
  BY ExitsAssumption DEF Typed, ConnTyped, JobsTyped
<1>2. /\ JobsTyped' /\ Moves(w) /\ OthersStay(w)
      /\ job'[w].stage = "flight" => Lock(w) \/ Dial(w)
  BY ActsJob
<1>3. job[w].stage \in {"flight", "close"} => used # None
  BY DEF Mutex, Locked
<1>4. CASE Lock(w)
  <2>1. ctrlMu = None
    BY <1>4 DEF Lock
  <2>2. used = None
    BY <1>1, <2>1 DEF Mutex
  <2>3. IF job'[w].stage = "flight"
          THEN used' = "current" /\ job'[w].op = job[w].op /\ ~MustWait(job[w])
          ELSE used' = used
    BY <1>4, LockJob
  <2>4. conn' = conn /\ cooling' = cooling
    BY <1>4 DEF Lock, tor
  <2> QED
    BY <2>2, <2>3, <2>4 DEF Unlinked, Linked, MustWait
<1>5. CASE Dial(w)
  <2>1. job[w].stage = "dial" /\ conn' = [conn EXCEPT !["current"] = Fresh]
        /\ used' = "current" /\ cooling' = cooling
    BY <1>5 DEF Dial, tor
  <2>2. used = None
    BY <1>1, <2>1 DEF Mutex, Locked
  <2> QED
    BY <2>1, <2>2 DEF Linked
<1>6. CASE DialFails(w) \/ Refused(w) \/ Unpinned(w) \/ Read(w)
  BY <1>6 DEF DialFails, Refused, Unpinned, Read, Let, tor
<1>7. CASE Close(w) \/ Breaks(w)
  <2>1. used # None
    BY <1>3, <1>7 DEF Close, Breaks, At
  <2>2. \/ Close(w) /\ cooling' = cooling
            /\ (Released(conn) \/ Released([conn EXCEPT ![used] = NoConnection]))
        \/ Breaks(w) /\ Released([conn EXCEPT ![used] = NoConnection])
    BY <1>7 DEF Close, Breaks, Discarded
  <2> QED
    BY <2>1, <2>2 DEF Let
<1>8. CASE Stop(w) \/ Connect(w)
  <2> DEFINE closed == [conn["current"] EXCEPT !.end = "closed"]
  <2>1. conn["current"] \in Connection
    BY <1>1 DEF Conns
  <2>2. closed \in Connection /\ closed.knows = conn["current"].knows
        /\ closed.cool = conn["current"].cool
    BY <2>1 DEF Connection
  <2>3. /\ cooling' = cooling
        /\ \/ Replaced(NoConnection, closed)
           \/ Replaced(Fresh, conn["current"])
    BY <1>8 DEF Stop, Connect, tor
  <2> HIDE DEF closed
  <2> QED
    BY <1>8, <2>1, <2>2, <2>3, Connections, RestartedJob DEF Relinked
<1>9. CASE \/ Start(w) \/ Skip(w) \/ PublishUnpin(w) \/ PublishPin(w) \/ PublishRead(w)
           \/ Check(w) \/ Choose(w) \/ Swap(w) \/ Spawn(w) \/ Boot(w) \/ RestartFails(w)
  <2>1. UNCHANGED <<conn, used, ctrlMu>> /\ cooling' = cooling
    BY <1>9 DEF Start, Skip, PublishUnpin, PublishPin, PublishRead, Check, Choose, Swap, Spawn,
      Boot, RestartFails, tor, control
  <2>2. ~Dial(w) \/ job'[w].stage # "flight"
    <3>1. used' = "current" /\ job[w].stage = "dial" => used = None /\ used' # used
      BY <1>1, NoneIsNoConnection DEF Mutex, Locked, Conns
    <3> QED
      BY <2>1, <3>1 DEF Dial
  <2>3. ~Lock(w) \/ job'[w].stage # "flight"
    <3>1. Lock(w) => ctrlMu = None /\ used = None
      BY <1>1 DEF Mutex, Lock
    <3>2. Lock(w) /\ job'[w].stage = "flight" => used' = "current"
      BY LockJob
    <3> QED
      BY <2>1, <3>1, <3>2, NoneIsNoConnection DEF Conns
  <2> QED
    BY <1>2, <2>1, <2>2, <2>3 DEF Unlinked
<1>10. CASE Pinned(w)
  <2>1. UNCHANGED <<conn, used>> /\ cooling' = cooling
    BY <1>10 DEF Pinned, Holding
  <2> QED
    BY <1>10, <2>1, PinnedJob DEF Unlinked, At
<1> QED
  BY <1>4, <1>5, <1>6, <1>7, <1>8, <1>9, <1>10
  DEF Acts, Commanded, Published, Restarted

\* A connection that knows of a NEWNYM knows of its cooldown.
LEMMA CooldownsKept ==
  ASSUME Typed, Mutex, Cooldowns, JobsTyped', Mutex', NEW w \in Job, Acts(w)
  PROVE  ConnTyped' /\ Cooldowns'
<1>1. /\ conn \in [Conns -> Connection] /\ used \in Conns \cup {None}
      /\ ctrlMu \in Job \cup {None} /\ None \notin Conns /\ None \notin Job
      /\ conn["current"] \in Connection /\ conn["former"] \in Connection
      /\ cooling \in BOOLEAN
  BY ExitsAssumption, NoneIsNoConnection DEF Typed, TorTyped, ConnTyped, Conns
<1>2. /\ Moves(w) /\ OthersStay(w)
      /\ job'[w].stage = "flight" => Lock(w) \/ Dial(w)
  BY ActsJob
<1>3. ctrlMu' \in Job \cup {None}
  BY <1>1, <1>2 DEF Moves
<1>4. /\ \A k \in Conns : conn[k].knows /\ cooling => conn[k].cool
      /\ used # "former" => conn["former"] = NoConnection
      /\ used = "former" => ~conn["current"].knows
  BY DEF Cooldowns
<1>5. SUFFICES /\ conn' \in [Conns -> Connection] /\ used' \in Conns \cup {None}
               /\ \A k \in Conns : conn'[k].knows /\ cooling' => conn'[k].cool
               /\ used' # "former" => conn'["former"] = NoConnection
               /\ used' = "former" => ~conn'["current"].knows
               /\ \A v \in Job : At(v, "newnym", "flight")' => ~conn'[used'].cool
  BY <1>3 DEF ConnTyped, Cooldowns
<1>6. ASSUME NEW v \in Job \ {w}, At(v, "newnym", "flight")'
      PROVE  At(v, "newnym", "flight") /\ ~conn[used].cool /\ ctrlMu = v /\ ctrlMu' = v
  <2>1. At(v, "newnym", "flight")
    BY <1>2, <1>6 DEF OthersStay, Same, At
  <2> QED
    BY <1>6, <2>1 DEF Cooldowns, Mutex, Locked, At
<1>7. CASE Unlinked(w)
  BY <1>1, <1>4, <1>6, <1>7 DEF Unlinked, At
<1>8. CASE Linked(w)
  <2>1. \A v \in Job \ {w} : ~At(v, "newnym", "flight")'
    <3>1. ASSUME NEW v \in Job \ {w}, At(v, "newnym", "flight")' PROVE used # None
      <4>1. At(v, "newnym", "flight") /\ ctrlMu = v
        BY <1>6, <3>1
      <4> QED
        BY <4>1 DEF Mutex, At
    <3> QED
      BY <1>8, <3>1 DEF Linked
  <2>2. CASE conn' = conn /\ (job'[w].op = "newnym" => ~conn["current"].cool)
    BY <1>1, <1>4, <1>8, <2>1, <2>2 DEF Linked, At, Conns
  <2>3. CASE conn' = [conn EXCEPT !["current"] = Fresh]
    <3>1. conn'["current"] = Fresh /\ conn'["former"] = conn["former"]
      BY <1>1, <2>3 DEF Conns
    <3>2. conn' \in [Conns -> Connection]
      BY <1>1, <2>3, Connections
    <3> QED
      BY <1>1, <1>4, <1>8, <2>1, <3>1, <3>2, Connections DEF Linked, At, Conns
  <2> QED
    BY <1>8, <2>2, <2>3 DEF Linked
<1>9. CASE Let(w)
  <2>1. used' = None /\ ctrlMu' = None
    BY <1>9 DEF Let, Released
  <2>2. \A v \in Job : ~At(v, "newnym", "flight")'
    BY <1>1, <2>1 DEF Mutex, At, Locked
  <2>3. CASE Released(conn) /\ cooling' = cooling
    <3>1. conn' = [conn EXCEPT !["former"] = NoConnection]
      BY <2>3 DEF Released
    <3>2. conn'["current"] = conn["current"] /\ conn'["former"] = NoConnection
      BY <1>1, <3>1 DEF Conns
    <3>3. conn' \in [Conns -> Connection]
      BY <1>1, <3>1, Connections
    <3> QED
      BY <1>1, <1>4, <2>1, <2>2, <2>3, <3>2, <3>3, Connections DEF Conns
  <2>4. CASE used # None /\ Released([conn EXCEPT ![used] = NoConnection])
    <3>1. conn' = [[conn EXCEPT ![used] = NoConnection] EXCEPT !["former"] = NoConnection]
      BY <2>4 DEF Released
    <3>2. /\ conn'["current"] = IF used = "current" THEN NoConnection ELSE conn["current"]
          /\ conn'["former"] = NoConnection
      BY <1>1, <3>1 DEF Conns
    <3>3. conn' \in [Conns -> Connection]
      BY <1>1, <3>1, Connections
    <3> QED
      BY <1>1, <1>4, <2>1, <2>2, <2>4, <3>2, <3>3, Connections DEF Conns
  <2> QED
    BY <1>9, <2>3, <2>4 DEF Let
<1>10. CASE Signalled(w)
  <2>1. /\ At(w, "newnym", "flight") /\ At(w, "newnym", "close")' /\ used' = used
        /\ conn' = [conn EXCEPT ![used] = [@ EXCEPT !.knows = TRUE, !.cool = TRUE]]
    BY <1>10, SignalledJob DEF Signalled, Holding
  <2>2. ctrlMu = w /\ used \in Conns
    BY <1>1, <2>1 DEF Mutex, Locked, At
  <2>3. \A v \in Job : ~At(v, "newnym", "flight")'
    BY <1>6, <2>1, <2>2 DEF At
  <2>4. conn[used] \in Connection
    BY <1>1, <2>2
  <2> DEFINE k == [conn[used] EXCEPT !.knows = TRUE, !.cool = TRUE]
  <2>5. k \in Connection /\ k.knows /\ k.cool
    BY <2>4 DEF Connection
  <2> HIDE DEF k
  <2>6. conn' = [conn EXCEPT ![used] = k]
    BY <2>1 DEF k
  <2>7. conn' \in [Conns -> Connection]
    BY <1>1, <2>5, <2>6
  <2>8. \A c \in Conns : conn'[c] = IF c = used THEN k ELSE conn[c]
    BY <1>1, <2>6
  <2> QED
    BY <1>1, <1>4, <2>1, <2>2, <2>3, <2>5, <2>7, <2>8, Connections DEF Conns
<1>11. CASE Relinked(w)
  <2>1. PICK k \in Connection, old \in Connection :
          /\ Replaced(k, old) /\ ~k.knows /\ cooling' = cooling
          /\ old.knows = conn["current"].knows /\ old.cool = conn["current"].cool
    BY <1>11 DEF Relinked
  <2>2. /\ conn' = [current |-> k, former |-> IF used = "current" THEN old ELSE conn["former"]]
        /\ used' = IF used = "current" THEN "former" ELSE used
    BY <2>1 DEF Replaced
  <2>3. /\ conn'["current"] = k
        /\ conn'["former"] = IF used = "current" THEN old ELSE conn["former"]
    BY <2>2
  <2>4. conn' \in [Conns -> Connection]
    BY <1>1, <2>1, <2>2 DEF Conns
  <2>5. job'[w].stage # "flight"
    BY <1>11 DEF Relinked
  <2>6. \A v \in Job : At(v, "newnym", "flight")' => ~conn'[used'].cool
    <3>1. SUFFICES ASSUME NEW v \in Job \ {w}, At(v, "newnym", "flight")'
                   PROVE  ~conn'[used'].cool
      BY <2>5 DEF At
    <3>2. ~conn[used].cool /\ used # None
      BY <1>6, <3>1 DEF Mutex, At
    <3>3. CASE used = "current"
      BY <2>1, <2>2, <2>3, <3>2, <3>3
    <3>4. CASE used = "former"
      BY <2>2, <2>3, <3>2, <3>4
    <3> QED
      BY <1>1, <3>2, <3>3, <3>4 DEF Conns
  <2>7. \A c \in Conns : conn'[c].knows /\ cooling' => conn'[c].cool
    <3>1. cooling' = cooling /\ ~k.knows
      BY <2>1
    <3>2. conn'["former"].knows /\ cooling => conn'["former"].cool
      BY <1>4, <2>1, <2>3 DEF Conns
    <3> QED
      BY <2>3, <3>1, <3>2 DEF Conns
  <2>8. /\ used' \in Conns \cup {None}
        /\ used' # "former" => conn'["former"] = NoConnection
        /\ used' = "former" => ~conn'["current"].knows
    BY <1>1, <1>4, <2>1, <2>2, <2>3 DEF Conns
  <2> QED
    BY <2>4, <2>6, <2>7, <2>8
<1>12. CASE Kill(w)
  <2>1. conn' = Orphaned /\ cooling' = FALSE /\ used' = used /\ job'[w].stage = "none"
    BY <1>12, KillJob DEF Kill, TorGone
  <2>2. /\ conn' \in [Conns -> Connection]
        /\ \A k \in Conns : conn'[k].knows = conn[k].knows /\ conn'[k].cool = conn[k].cool
        /\ conn["former"] = NoConnection => conn'["former"] = NoConnection
    BY <1>1, <2>1, OrphanedConns
  <2>3. \A v \in Job : At(v, "newnym", "flight")' => used # None
    BY <1>1, <1>6, <2>1 DEF Mutex, At
  <2> QED
    BY <1>1, <1>4, <1>6, <2>1, <2>2, <2>3 DEF Conns, At
<1> QED
  BY <1>7, <1>8, <1>9, <1>10, <1>11, <1>12, ActsLinks

-----------------------------------------------------------------------------
(* Restarts, pins and retired exits.                                        *)

\* What tor was told is published by whoever has told it, and late if somebody else has
\* told it something since.
LEMMA StillUnpublished ==
  ASSUME NEW w \in Job, OthersStay(w), NEW v \in Job \ {w}
  PROVE  /\ Unpublished(v)' <=> Unpublished(v)
         /\ job'[v].op = job[v].op /\ job'[v].node = job[v].node
         /\ ~job'[v].overtaken => ~job[v].overtaken
  BY DEF OthersStay, Same, Unpublished

\* Nobody has a policy of its own, or an answer about one that is not late, once tor has
\* been stopped.
Over == \A v \in Job : ~job[v].alone /\ (Unpublished(v) => job[v].overtaken)

LEMMA OneRestart ==
  ASSUME Typed, Mutex, Restarts, NEW w \in Job, Acts(w)
  PROVE  /\ \A u, v \in Job : job'[u].kind = "restart" /\ job'[v].kind = "restart" => u = v
         /\ job'[w].op = "swap" => Kill(w)
         /\ job'[w].op = "spawn" => Swap(w)
         /\ ~Kill(w) => running' = running \/ (Spawn(w) /\ running' = TRUE)
<1>1. /\ \A u, v \in Job : job[u].kind = "restart" /\ job[v].kind = "restart" => u = v
      /\ job[w] \in Jobs /\ Errand(job[w])
  BY DEF Restarts, Typed, JobsTyped
<1>2. OthersStay(w)
  BY ActsJob
<1>3. /\ job'[w].kind = "restart" => job[w].kind = "restart" \/ Alone({"restart"})
      /\ job'[w].op = "swap" => Kill(w)
      /\ job'[w].op = "spawn" => Swap(w)
      /\ ~Kill(w) => running' = running \/ (Spawn(w) /\ running' = TRUE)
  <2>1. CASE Plain(w)
    BY <2>1, PlainStep
  <2>2. CASE Unpinned(w)
    BY <2>2, UnpinnedJob DEF At, Unpinned
  <2>3. CASE Pinned(w)
    BY <2>3, PinnedJob DEF At, Pinned
  <2>4. CASE Signalled(w)
    BY <2>4, SignalledJob DEF At, Signalled
  <2>5. CASE Close(w)
    BY <2>5, CloseJob DEF At, Close
  <2>6. CASE Read(w)
    BY <2>6, ReadJob DEF At, Read, tor
  <2>7. CASE Breaks(w)
    BY <2>7, BreaksJob DEF Breaks
  <2>8. CASE PublishRead(w)
    BY <2>8, PublishReadJob DEF PublishRead, tor
  <2>9. CASE Kill(w)
    BY <2>9, KillJob
  <2> QED
    BY <2>1, <2>2, <2>3, <2>4, <2>5, <2>6, <2>7, <2>8, <2>9, ActsSorted
<1>4. \A v \in Job \ {w} : job'[v].kind = job[v].kind
  BY <1>2 DEF OthersStay, Same
<1> QED
  BY <1>1, <1>3, <1>4 DEF Alone

\* Once tor has been stopped nobody has.
LEMMA KillOver ==
  ASSUME Typed, NEW w \in Job, Kill(w)
  PROVE  Over'
<1>1. /\ OthersStay(w) /\ job'[w].stage = "none"
      /\ \A v \in Job :
           /\ ~job'[v].alone
           /\ v # w /\ Late(v, {"read", "pin", "unpin"}) => job'[v].overtaken
  BY KillJob
<1>2. ASSUME NEW v \in Job, Unpublished(v)' PROVE job'[v].overtaken
  BY <1>1, <1>2 DEF OthersStay, Same, Unpublished, Late
<1> QED
  BY <1>1, <1>2 DEF Over

\* Whoever acts while tor is down tells it nothing.
LEMMA OverKept ==
  ASSUME Typed, Mutex, ~running, NEW w \in Job, Acts(w), Over
  PROVE  Over'
<1>1. \A v \in Job : ~job[v].alone /\ (Unpublished(v) => job[v].overtaken)
  BY DEF Over
<1>2. OthersStay(w)
  BY ActsJob
<1>3. CASE Plain(w)
  <2>1. /\ \A v \in Job \ {w} : job'[v] = job[v]
        /\ job'[w].stage \notin {"close", "publish"} /\ ~job'[w].alone
    BY <1>1, <1>3, PlainStep DEF PlainJob
  <2> QED
    BY <1>1, <2>1 DEF Over, Unpublished
<1>4. ~Unpinned(w) /\ ~Pinned(w) /\ ~Signalled(w) /\ ~Read(w)
  BY DEF Unpinned, Pinned, Signalled, Read, Answers, Receives
<1>5. CASE Close(w)
  <2>1. /\ \A v \in Job \ {w} : job'[v] = job[v]
        /\ job[w].stage = "close" /\ job'[w].alone = job[w].alone
        /\ \/ /\ At(w, "pin", "publish")' /\ job[w].op = "pin"
              /\ job'[w].overtaken = job[w].overtaken
           \/ At(w, "read", "lock")'
    BY <1>5, CloseJob
  <2> QED
    BY <1>1, <2>1 DEF Over, Unpublished, At
<1>6. CASE Breaks(w)
  <2>1. /\ \A v \in Job \ {w} : job'[v] = job[v]
        /\ job'[w].stage \in {"none", "lock"} /\ (job'[w].alone => job[w].alone)
    BY <1>6, BreaksJob DEF LostInVain, LostNewnym, LostPolicy
  <2> QED
    BY <1>1, <2>1 DEF Over, Unpublished
<1>7. CASE PublishRead(w)
  <2>1. /\ \A v \in Job \ {w} : job'[v] = job[v]
        /\ job'[w].stage \in {"none", "lock"} /\ ~job'[w].alone
    BY <1>7, PublishReadJob
  <2> QED
    BY <1>1, <2>1 DEF Over, Unpublished
<1>8. CASE Kill(w)
  BY <1>8, KillOver
<1> QED
  BY <1>3, <1>4, <1>5, <1>6, <1>7, <1>8, ActsSorted

LEMMA RestartsKept ==
  ASSUME Typed, Mutex, Restarts, NEW w \in Job, Acts(w)
  PROVE  Restarts'
<1>1. /\ ~running => circuits = {}
      /\ \A v \in Job : job[v].op \in {"swap", "spawn"} => ~running /\ Over
      /\ \A v \in Job : job[v].op = "spawn" => pinnedExit = None \/ drifted
  BY DEF Restarts, Over
<1>2. /\ \A u, v \in Job : job'[u].kind = "restart" /\ job'[v].kind = "restart" => u = v
      /\ job'[w].op = "swap" => Kill(w)
      /\ job'[w].op = "spawn" => Swap(w)
      /\ ~Kill(w) => running' = running \/ (Spawn(w) /\ running' = TRUE)
  BY OneRestart
<1>3. /\ OthersStay(w) /\ \A v \in Job : Errand(job[v])
      /\ \A v \in Job \ {w} : job'[v].op = job[v].op
  <2>1. OthersStay(w)
    BY ActsJob
  <2> QED
    BY <2>1 DEF OthersStay, Same, Typed, JobsTyped
<1>4. ~running' => circuits' = {}
  <2>1. CASE Plain(w)
    BY <1>1, <2>1, PlainStep
  <2>2. CASE Signalled(w)
    BY <2>2 DEF Signalled, Answers, Receives
  <2>3. CASE Close(w)
    BY <1>1, <2>3 DEF Close
  <2>4. CASE Breaks(w)
    BY <1>1, <2>4, BreaksJob DEF Breaks, LostInVain, LostNewnym, LostPolicy
  <2>5. CASE Kill(w)
    BY <2>5 DEF Kill, TorGone
  <2>6. CASE Unpinned(w) \/ Pinned(w) \/ Read(w) \/ PublishRead(w)
    BY <1>1, <2>6 DEF Unpinned, Pinned, Read, PublishRead, tor
  <2> QED
    BY <2>1, <2>2, <2>3, <2>4, <2>5, <2>6, ActsSorted
<1>5. ASSUME NEW v \in Job, job'[v].op \in {"swap", "spawn"}
      PROVE  ~running' /\ Over'
  <2>1. CASE Kill(w)
    BY <2>1, KillOver DEF Kill, TorGone
  <2>2. CASE ~Kill(w)
    <3>1. job[v].op \in {"swap", "spawn"}
      BY <1>2, <1>3, <1>5, <2>2 DEF Swap, Proceeds
    <3>2. ~running /\ Over
      BY <1>1, <3>1
    <3>3. ~Spawn(w)
      <4>1. Spawn(w) => job[w].op = "spawn" /\ job'[w].op \notin {"swap", "spawn"}
        BY <1>2, <2>2 DEF Spawn, Swap, Proceeds
      <4>2. job[v].kind = "restart" /\ (job[w].op = "spawn" => job[w].kind = "restart")
        BY <1>3, <3>1 DEF Errand, Restarting
      <4> QED
        BY <1>5, <4>1, <4>2 DEF Restarts
    <3> QED
      BY <1>2, <2>2, <3>2, <3>3, OverKept
  <2> QED
    BY <2>1, <2>2
<1>6. ASSUME NEW v \in Job, job'[v].op = "spawn"
      PROVE  pinnedExit' = None \/ drifted'
  <2>1. CASE Swap(w)
    BY <2>1 DEF Swap, ForgetPin
  <2>2. CASE ~Swap(w)
    <3>1. v # w /\ job[v].op = "spawn"
      BY <1>2, <1>3, <1>6, <2>2
    <3>2. (pinnedExit = None \/ drifted) /\ Over
      BY <1>1, <3>1
    <3>3. CASE Plain(w)
      <4>1. UNCHANGED pin \/ PublishUnpin(w) \/ PublishPin(w)
        BY <2>2, <3>3, PlainStep
      <4>2. PublishPin(w) => drifted'
        BY <3>2 DEF PublishPin, Over, Unpublished, At
      <4>3. PublishUnpin(w) => pinnedExit' = None
        BY DEF PublishUnpin
      <4> QED
        BY <3>2, <4>1, <4>2, <4>3 DEF pin
    <3>4. CASE Breaks(w)
      BY <3>2, <3>4, BreaksJob DEF Breaks, LostInVain, LostNewnym, LostPolicy
    <3>5. CASE \/ Unpinned(w) \/ Pinned(w) \/ Signalled(w) \/ Close(w) \/ Read(w)
               \/ PublishRead(w) \/ Kill(w)
      BY <3>2, <3>5 DEF Unpinned, Pinned, Signalled, Close, Read, PublishRead, Kill, pin
    <3> QED
      BY <3>3, <3>4, <3>5, ActsSorted
  <2> QED
    BY <2>1, <2>2
<1> QED
  BY <1>2, <1>4, <1>5, <1>6 DEF Restarts, Over

\* What becomes of the exit that is reported.
LEMMA ExitFollows ==
  ASSUME Typed, Mutex, NEW w \in Job, Acts(w)
  PROVE  \/ UNCHANGED exit
         \/ origin' # "retired"
         \/ Signalled(w)
         \/ Kill(w)
<1>1. job[w] \in Jobs /\ Errand(job[w])
  BY DEF Typed, JobsTyped
<1>2. CASE Plain(w)
  BY <1>2, PlainStep DEF RetireExit
<1>3. CASE Unpinned(w) \/ Pinned(w) \/ Read(w)
  BY <1>3 DEF Unpinned, Pinned, Read
<1>4. CASE Close(w)
  BY <1>4, CloseJob DEF RetireExit
<1>5. CASE Breaks(w)
  <2>1. origin' = origin \/ origin' # "retired"
    BY <1>5, BreaksJob DEF LostInVain, LostNewnym, LostPolicy
  <2> QED
    BY <1>5, <2>1 DEF Breaks, exit
<1>6. CASE PublishRead(w)
  <2>1. At(w, "read", "publish") /\ job[w].from # "retired"
    BY <1>1, <1>6 DEF PublishRead, At, Errand
  <2> QED
    BY <1>6, <2>1 DEF PublishRead
<1> QED
  BY <1>2, <1>3, <1>4, <1>5, <1>6, ActsSorted

LEMMA WithdrawnKept ==
  ASSUME Typed, Mutex, Restarts, Withdrawn, NEW w \in Job, Acts(w)
  PROVE  Withdrawn'
<1> SUFFICES ASSUME NEW v \in Job, job'[v].op = "spawn", origin' = "retired" PROVE FALSE
  BY DEF Withdrawn
<1>1. /\ OthersStay(w) /\ (job'[w].op = "spawn" => Swap(w))
      /\ ~Swap(w)
  BY ActsJob, OneRestart DEF Swap, RetireExit
<1>2. v # w /\ job[v].op = "spawn"
  BY <1>1 DEF OthersStay, Same
<1>3. origin # "retired" /\ ~running
  BY <1>2 DEF Withdrawn, Restarts
<1>4. ~Signalled(w)
  BY <1>3 DEF Signalled, Answers, Receives
<1>5. ~Kill(w)
  <2>1. job[v].kind = "restart" /\ (Kill(w) => job[w].kind = "restart")
    BY <1>2 DEF Typed, JobsTyped, Errand, Restarting, Kill
  <2> QED
    BY <1>2, <2>1 DEF Restarts
<1> QED
  BY <1>3, <1>4, <1>5, ExitFollows DEF exit

LEMMA RetiredKept ==
  ASSUME Typed, Mutex, Restarts, Withdrawn, RetiredIsGone, NEW w \in Job, Acts(w)
  PROVE  RetiredIsGone'
<1> SUFFICES ASSUME origin' = "retired", running'
             PROVE  \E v \in Job : At(v, "newnym", "close")'
  BY DEF RetiredIsGone
<1>1. OthersStay(w) /\ (~Kill(w) => running' = running \/ Spawn(w))
  BY ActsJob, OneRestart
<1>2. CASE Signalled(w)
  BY <1>2, SignalledJob
<1>3. ~Kill(w)
  BY DEF Kill, TorGone
<1>4. CASE ~Signalled(w)
  <2>1. UNCHANGED exit /\ origin = "retired"
    BY <1>3, <1>4, ExitFollows DEF exit
  <2>2. running
    BY <1>1, <1>3, <2>1 DEF Spawn, Proceeds, Withdrawn
  <2>3. PICK v \in Job : At(v, "newnym", "close")
    BY <2>1, <2>2 DEF RetiredIsGone
  <2>4. v # w
    <3>1. ~Plain(w) \/ ~At(w, "newnym", "close")
      BY PlainStep
    <3>2. CASE Close(w) /\ At(w, "newnym", "close")
      BY <2>1, <3>2, CloseJob DEF RetireExit, At, exit
    <3>3. ~At(w, "newnym", "close") \/ Close(w) \/ Plain(w)
      BY ActsSorted, <1>3, <1>4 DEF Unpinned, Pinned, Read, Breaks, PublishRead, Answers,
        Receives, At
    <3> QED
      BY <2>3, <3>1, <3>2, <3>3
  <2>5. At(v, "newnym", "close")'
    BY <1>1, <2>3, <2>4 DEF OthersStay, Same, At
  <2> QED
    BY <2>5
<1> QED
  BY <1>2, <1>4

\* Whoever acts but does not change the policy, publish or restart tor disturbs no pin.
LEMMA PinsFramed ==
  ASSUME Pins, NEW w \in Job, OthersStay(w),
         UNCHANGED pin, policy' = policy, running' => running,
         Unpublished(w) <=> Unpublished(w)',
         Unpublished(w)' => /\ job'[w].op = job[w].op /\ job'[w].node = job[w].node
                            /\ ~job'[w].overtaken => ~job[w].overtaken
  PROVE  Pins'
<1>1. \A v \in Job : /\ Unpublished(v)' <=> Unpublished(v)
                     /\ Unpublished(v)' => /\ job'[v].op = job[v].op /\ job'[v].node = job[v].node
                                           /\ ~job'[v].overtaken => ~job[v].overtaken
  BY StillUnpublished
<1>2. \A v \in Job : running' /\ Unpublished(v)' /\ job'[v].op = "pin" /\ ~job'[v].overtaken
                       => policy'.pin = job'[v].node
  BY <1>1 DEF Pins
<1>3. pinnedExit' # None /\ running' /\ ~drifted' =>
        policy'.pin = pinnedExit' \/ \E v \in Job : Unpublished(v)'
  BY <1>1 DEF Pins, pin
<1> QED
  BY <1>2, <1>3 DEF Pins

LEMMA PinsKept ==
  ASSUME Typed, Mutex, Restarts, Pins, NEW w \in Job, Acts(w)
  PROVE  Pins'
<1>1. OthersStay(w) /\ job[w] \in Jobs /\ Errand(job[w]) /\ policy \in Policy
  BY ActsJob DEF Typed, TorTyped, JobsTyped
<1>2. SUFFICES /\ \A v \in Job : running' /\ Unpublished(v)' /\ job'[v].op = "pin"
                                 /\ ~job'[v].overtaken => policy'.pin = job'[v].node
               /\ pinnedExit' # None /\ running' /\ ~drifted' =>
                    policy'.pin = pinnedExit' \/ \E v \in Job : Unpublished(v)'
  BY DEF Pins
<1>3. \A v \in Job \ {w} :
        /\ Unpublished(v)' <=> Unpublished(v)
        /\ job'[v].op = job[v].op /\ job'[v].node = job[v].node
        /\ ~job'[v].overtaken => ~job[v].overtaken
  BY <1>1, StillUnpublished
<1>4. CASE Plain(w) /\ ~Spawn(w)
  <2>1. /\ policy' = policy /\ ~Unpublished(w)'
        /\ \/ job[w].stage \notin {"close", "publish"} /\ (Swap(w) \/ UNCHANGED pin)
           \/ PublishUnpin(w) \/ PublishPin(w)
        /\ UNCHANGED running \/ Spawn(w)
    BY <1>4, PlainStep DEF PlainJob, Unpublished
  <2>2. CASE job[w].stage \notin {"close", "publish"} /\ UNCHANGED pin
    <3>1. Pins'
      BY <1>1, <1>4, <2>1, <2>2, PinsFramed DEF Unpublished
    <3> QED
      BY <3>1 DEF Pins
  <2>3. CASE Swap(w) \/ PublishUnpin(w)
    <3>1. pinnedExit' = None
      BY <2>3 DEF Swap, ForgetPin, PublishUnpin
    <3> QED
      BY <1>3, <1>4, <2>1, <3>1 DEF Pins
  <2>4. CASE PublishPin(w)
    <3>1. /\ Unpublished(w) /\ job[w].op = "pin"
          /\ pinnedExit' = job[w].node /\ drifted' = job[w].overtaken
      BY <2>4 DEF PublishPin, At, Unpublished
    <3> QED
      BY <1>3, <1>4, <2>1, <3>1 DEF Pins
  <2> QED
    BY <2>1, <2>2, <2>3, <2>4
<1>5. CASE Spawn(w)
  <2>1. /\ job[w].op = "spawn" /\ UNCHANGED pin
    BY <1>5 DEF Spawn, Proceeds
  <2>2. Over /\ (pinnedExit = None \/ drifted)
    BY <2>1 DEF Restarts, Over
  <2>3. Over'
    <3>1. ~running
      BY <2>1 DEF Restarts
    <3> QED
      BY <2>2, <3>1, OverKept
  <2> QED
    BY <2>1, <2>2, <2>3 DEF Over, pin
<1>6. CASE Unpinned(w)
  <2>1. At(w, "unpin", "publish")' /\ \A v \in Job \ {w} : Late(v, {"pin", "unpin"}) => job'[v].overtaken
    BY <1>6, UnpinnedJob
  <2> QED
    BY <1>3, <2>1 DEF Unpublished, At, Late
<1>7. CASE Pinned(w)
  <2>1. /\ At(w, "pin", "close")' /\ job'[w].node = job[w].node
        /\ \A v \in Job \ {w} : Late(v, {"pin", "unpin"}) => job'[v].overtaken
    BY <1>7, PinnedJob
  <2>2. policy'.pin = job[w].node
    BY <1>7 DEF Pinned
  <2> QED
    BY <1>3, <2>1, <2>2 DEF Unpublished, At, Late
<1>8. CASE Signalled(w) \/ Read(w) \/ PublishRead(w)
  <2>1. UNCHANGED pin /\ policy' = policy /\ running' = running
    BY <1>8 DEF Signalled, Read, PublishRead, tor
  <2>2. ~Unpublished(w) /\ ~Unpublished(w)'
    BY <1>8, SignalledJob, ReadJob, PublishReadJob DEF Unpublished, At
  <2>3. Pins'
    BY <1>1, <2>1, <2>2, PinsFramed
  <2> QED
    BY <2>3 DEF Pins
<1>9. CASE Close(w)
  <2>1. UNCHANGED pin /\ policy' = policy /\ running' = running
    BY <1>9 DEF Close
  <2>2. /\ job[w].stage = "close"
        /\ \/ /\ At(w, "pin", "publish")' /\ job[w].op = "pin"
              /\ job'[w].node = job[w].node /\ job'[w].overtaken = job[w].overtaken
           \/ At(w, "read", "lock")' /\ job[w].op = "newnym"
    BY <1>9, CloseJob
  <2>3. Pins'
    BY <1>1, <2>1, <2>2, PinsFramed DEF Unpublished, At
  <2> QED
    BY <2>3 DEF Pins
<1>10. CASE Breaks(w)
  <2>1. /\ job[w].stage = "flight" /\ job'[w].stage \in {"none", "lock"}
        /\ LostInVain(w) \/ LostNewnym(w) \/ LostPolicy(w)
    BY <1>10, BreaksJob
  <2>2. running' = running /\ pinnedExit' = pinnedExit
    BY <1>10 DEF Breaks
  <2>3. CASE policy' = policy /\ drifted' = drifted
    <3>1. Pins'
      BY <1>1, <2>1, <2>2, <2>3, PinsFramed DEF Unpublished, pin
    <3> QED
      BY <3>1 DEF Pins
  <2>4. CASE LostPolicy(w)
    BY <1>3, <2>1, <2>4 DEF LostPolicy, Unpublished, Late
  <2> QED
    BY <2>1, <2>3, <2>4 DEF LostInVain, LostNewnym
<1>11. CASE Kill(w)
  BY <1>11 DEF Kill, TorGone
<1> QED
  BY <1>4, <1>5, <1>6, <1>7, <1>8, <1>9, <1>10, <1>11, ActsSorted

-----------------------------------------------------------------------------
(* Rotations.                                                               *)

\* v has a policy of its own, which keeps it away from a relay.
Shuns(v) == job[v].alone /\ job[v].avoid # None

\* A reading of v that is to be published counts as new.
Current(v) == At(v, "read", "publish") /\ ~job[v].overtaken /\ job[v].from = "fresh"

\* What a rotation counts on, goroutine by goroutine.
LEMMA AvoidedParts ==
  Avoided <=> \A v \in Job : Shuns(v) =>
    /\ running => policy.avoid = job[v].avoid
    /\ Renewed(v) => /\ \A c \in circuits : ~c.older => c.exit # job[v].avoid
                     /\ \A u \in Job : Current(u) => job[u].node # job[v].avoid
    /\ job[v].op = "read" /\ origin \in {"fresh", "retired"} => exitNode # job[v].avoid
  BY DEF Avoided, Shuns, Renewed, Current

LEMMA AgedIsOlder ==
  ASSUME TorTyped
  PROVE  Aged \subseteq Circuit /\ \A c \in Aged : c.older
  BY DEF TorTyped, Aged, Circuit

LEMMA NobodyShuns ==
  ASSUME \A v \in Job : ~job'[v].alone
  PROVE  Avoided'
  BY DEF Avoided, Renewed

\* A step that lets nobody set a policy of its own, builds no circuit, takes no reading and
\* reports no exit anew disturbs no rotation.
LEMMA AvoidedFramed ==
  ASSUME Avoided, NEW w \in Job, OthersStay(w),
         \A v \in Job : job'[v].alone => job[v].alone /\ job'[v].avoid = job[v].avoid,
         job'[w].alone => /\ Renewed(w)' => Renewed(w)
                          /\ job'[w].op = "read" =>
                               job[w].op = "read" \/ origin' \notin {"fresh", "retired"},
         policy' = policy, running' => running,
         \A c \in circuits' : ~c.older => c \in circuits,
         ~Current(w)',
         origin' \in {"fresh", "retired"} => origin \in {"fresh", "retired"} /\ exitNode' = exitNode
  PROVE  Avoided'
<1>1. \A v \in Job : Shuns(v) =>
        /\ running => policy.avoid = job[v].avoid
        /\ Renewed(v) => /\ \A c \in circuits : ~c.older => c.exit # job[v].avoid
                         /\ \A u \in Job : Current(u) => job[u].node # job[v].avoid
        /\ job[v].op = "read" /\ origin \in {"fresh", "retired"} => exitNode # job[v].avoid
  BY AvoidedParts
<1>2. \A v \in Job \ {w} :
        /\ job'[v].op = job[v].op /\ job'[v].stage = job[v].stage /\ job'[v].node = job[v].node
        /\ job'[v].alone /\ Renewed(v)' => Renewed(v)
        /\ Current(v)' => Current(v)
  BY DEF OthersStay, Same, Renewed, Current, At
<1>3. ASSUME NEW v \in Job, Shuns(v)'
      PROVE  /\ running' => policy'.avoid = job'[v].avoid
             /\ Renewed(v)' =>
                  /\ \A c \in circuits' : ~c.older => c.exit # job'[v].avoid
                  /\ \A u \in Job : Current(u)' => job'[u].node # job'[v].avoid
             /\ job'[v].op = "read" /\ origin' \in {"fresh", "retired"}
                  => exitNode' # job'[v].avoid
  <2>1. Shuns(v) /\ job'[v].avoid = job[v].avoid /\ (Renewed(v)' => Renewed(v))
    BY <1>2, <1>3 DEF Shuns
  <2>2. running' => policy'.avoid = job'[v].avoid
    BY <1>1, <2>1
  <2>3. Renewed(v)' => \A c \in circuits' : ~c.older => c.exit # job'[v].avoid
    BY <1>1, <2>1
  <2>4. Renewed(v)' => \A u \in Job : Current(u)' => job'[u].node # job'[v].avoid
    BY <1>1, <1>2, <2>1
  <2>5. job'[v].op = "read" /\ origin' \in {"fresh", "retired"} => exitNode' # job'[v].avoid
    BY <1>1, <1>2, <1>3, <2>1 DEF Shuns
  <2> QED
    BY <2>2, <2>3, <2>4, <2>5
<1>4. Avoided' <=> \A v \in Job : Shuns(v)' =>
        /\ running' => policy'.avoid = job'[v].avoid
        /\ Renewed(v)' =>
             /\ \A c \in circuits' : ~c.older => c.exit # job'[v].avoid
             /\ \A u \in Job : Current(u)' => job'[u].node # job'[v].avoid
        /\ job'[v].op = "read" /\ origin' \in {"fresh", "retired"} => exitNode' # job'[v].avoid
  BY DEF Avoided, Shuns, Renewed, Current
<1> QED
  BY <1>3, <1>4

LEMMA AvoidedKept ==
  ASSUME Typed, Mutex, Restarts, Avoided, NEW w \in Job, Acts(w)
  PROVE  Avoided'
<1>1. /\ OthersStay(w) /\ job[w] \in Jobs /\ \A v \in Job : Errand(job[v])
  BY ActsJob DEF Typed, JobsTyped
<1>2. \A v \in Job : Shuns(v) =>
        /\ running => policy.avoid = job[v].avoid
        /\ Renewed(v) => /\ \A c \in circuits : ~c.older => c.exit # job[v].avoid
                         /\ \A u \in Job : Current(u) => job[u].node # job[v].avoid
        /\ job[v].op = "read" /\ origin \in {"fresh", "retired"} => exitNode # job[v].avoid
  BY AvoidedParts
<1>3. Avoided' <=> \A v \in Job : Shuns(v)' =>
        /\ running' => policy'.avoid = job'[v].avoid
        /\ Renewed(v)' =>
             /\ \A c \in circuits' : ~c.older => c.exit # job'[v].avoid
             /\ \A u \in Job : Current(u)' => job'[u].node # job'[v].avoid
        /\ job'[v].op = "read" /\ origin' \in {"fresh", "retired"} => exitNode' # job'[v].avoid
  BY DEF Avoided, Shuns, Renewed, Current
<1>4. CASE Plain(w) /\ ~Spawn(w)
  <2>1. /\ PlainJob(w) /\ UNCHANGED <<policy, circuits, cooling>>
        /\ UNCHANGED exit \/ RetireExit
        /\ UNCHANGED running
    BY <1>4, PlainStep
  <2>2. /\ \A v \in Job : job'[v].alone => job[v].alone /\ job'[v].avoid = job[v].avoid
        /\ job'[w].alone => /\ Renewed(w)' => Renewed(w)
                            /\ job'[w].op = "read" => job[w].op = "read"
        /\ ~Current(w)'
    BY <2>1 DEF PlainJob, Renewed, Current, At
  <2>3. origin' \in {"fresh", "retired"} => origin \in {"fresh", "retired"} /\ exitNode' = exitNode
    BY <2>1 DEF exit, RetireExit
  <2> QED
    BY <1>1, <2>1, <2>2, <2>3, AvoidedFramed
<1>5. CASE Spawn(w)
  <2>1. job[w].op = "spawn"
    BY <1>5 DEF Spawn, Proceeds
  <2>2. ~running /\ Over
    BY <2>1 DEF Restarts, Over
  <2>3. Over'
    BY <2>2, OverKept
  <2> QED
    BY <2>3, NobodyShuns DEF Over
<1>6. CASE Pinned(w) \/ Kill(w)
  BY <1>6, PinnedJob, KillJob, NobodyShuns
<1>7. CASE Unpinned(w)
  <2>1. /\ At(w, "unpin", "publish")' /\ job'[w].avoid = job[w].avoid
        /\ \A v \in Job \ {w} : ~job'[v].alone
    BY <1>7, UnpinnedJob
  <2>2. policy'.avoid = job[w].avoid
    BY <1>7 DEF Unpinned, Avoids
  <2>3. \A v \in Job : Shuns(v)' => v = w /\ ~Renewed(v)' /\ job'[v].op # "read"
    BY <2>1 DEF Shuns, Renewed, At
  <2> QED
    BY <1>3, <2>1, <2>2, <2>3
<1>8. CASE Signalled(w)
  <2>1. /\ At(w, "newnym", "flight") /\ At(w, "newnym", "close")'
        /\ \A v \in Job : /\ job'[v].avoid = job[v].avoid /\ job'[v].alone = job[v].alone
        /\ \A v \in Job \ {w} : Late(v, {"read"}) => job'[v].overtaken
    BY <1>8, SignalledJob
  <2>2. /\ circuits' = Aged /\ policy' = policy /\ running' = running /\ exitNode' = exitNode
        /\ origin' \in {"fresh", "retired"} => origin \in {"fresh", "retired"}
    BY <1>8 DEF Signalled, Outdated
  <2>3. \A c \in circuits' : c.older
    BY <2>2, AgedIsOlder DEF Typed
  <2>4. \A u \in Job : ~Current(u)'
    BY <1>1, <2>1 DEF Current, At, OthersStay, Same, Late
  <2>5. \A v \in Job : Shuns(v)' => /\ Shuns(v)
                                    /\ job'[v].op = "read" => job[v].op = "read"
    BY <1>1, <2>1 DEF Shuns, At, OthersStay, Same
  <2> QED
    BY <1>2, <1>3, <2>1, <2>2, <2>3, <2>4, <2>5
<1>9. CASE Close(w)
  <2>1. /\ job[w].stage = "close"
        /\ \A v \in Job \ {w} : job'[v] = job[v]
        /\ job'[w].avoid = job[w].avoid /\ job'[w].alone = job[w].alone
        /\ \/ At(w, "pin", "publish")' /\ job[w].op = "pin" /\ UNCHANGED exit
           \/ At(w, "read", "lock")' /\ job[w].op = "newnym" /\ RetireExit
    BY <1>9, CloseJob
  <2>2. policy' = policy /\ running' = running /\ circuits' \subseteq circuits
    BY <1>9 DEF Close
  <2>3. origin' \in {"fresh", "retired"} => origin \in {"fresh", "retired"} /\ exitNode' = exitNode
    BY <2>1 DEF exit, RetireExit
  <2>4. job'[w].alone => /\ Renewed(w)' => Renewed(w)
                         /\ job'[w].op = "read" =>
                              job[w].op = "read" \/ origin' \notin {"fresh", "retired"}
    BY <1>1, <2>1 DEF Renewed, At, Errand, RetireExit
  <2>5. ~Current(w)'
    BY <2>1 DEF Current, At
  <2> QED
    BY <1>1, <2>1, <2>2, <2>3, <2>4, <2>5, AvoidedFramed
<1>10. CASE Read(w)
  <2>1. /\ \A v \in Job \ {w} : job'[v] = job[v]
        /\ At(w, "read", "flight") /\ At(w, "read", "publish")'
        /\ job'[w].avoid = job[w].avoid /\ job'[w].alone = job[w].alone
        /\ job'[w].from = "fresh" => \E c \in circuits : ~c.older /\ c.exit = job'[w].node
    BY <1>10, ReadJob
  <2>2. UNCHANGED <<policy, running, circuits, origin, exitNode>>
    BY <1>10 DEF Read, tor, exit
  <2>3. ASSUME NEW v \in Job, Shuns(v)'
        PROVE  /\ Shuns(v) /\ job'[v].avoid = job[v].avoid /\ job'[v].op = job[v].op
               /\ Renewed(v)' => Renewed(v)
    BY <2>1, <2>3 DEF Shuns, Renewed, At
  <2>4. ASSUME NEW v \in Job, Shuns(v)', Renewed(v)', NEW u \in Job, Current(u)'
        PROVE  job'[u].node # job'[v].avoid
    <3>1. CASE u = w
      <4>1. job'[w].from = "fresh"
        BY <2>4, <3>1 DEF Current
      <4> QED
        BY <1>2, <2>1, <2>3, <2>4, <3>1, <4>1
    <3>2. CASE u # w
      <4>1. Current(u) /\ job'[u] = job[u]
        BY <2>1, <2>4, <3>2 DEF Current, At
      <4> QED
        BY <1>2, <2>3, <2>4, <4>1
    <3> QED
      BY <3>1, <3>2
  <2>5. ASSUME NEW v \in Job, Shuns(v)'
        PROVE  /\ running' => policy'.avoid = job'[v].avoid
               /\ Renewed(v)' => \A c \in circuits' : ~c.older => c.exit # job'[v].avoid
               /\ job'[v].op = "read" /\ origin' \in {"fresh", "retired"}
                    => exitNode' # job'[v].avoid
    BY <1>2, <2>2, <2>3, <2>5
  <2> QED
    BY <1>3, <2>4, <2>5
<1>11. CASE Breaks(w)
  <2>1. /\ job'[w].stage \in {"none", "lock"}
        /\ job'[w].alone => /\ job[w].alone /\ job[w].op = "read" /\ job'[w].op = "read"
                            /\ job'[w].avoid = job[w].avoid
        /\ LostInVain(w) \/ LostNewnym(w) \/ LostPolicy(w)
    BY <1>11, BreaksJob
  <2>2. running' = running /\ exitNode' = exitNode
    BY <1>11 DEF Breaks
  <2>3. ~Current(w)' /\ (job'[w].alone => Renewed(w))
    BY <2>1 DEF Current, At, Renewed
  <2>4. CASE LostInVain(w) \/ LostNewnym(w)
    <3>1. \A v \in Job : job'[v].alone => job[v].alone /\ job'[v].avoid = job[v].avoid
      BY <1>1, <2>1, <2>4 DEF LostInVain, LostNewnym, OthersStay, Same
    <3>2. \A c \in circuits' : ~c.older => c \in circuits
      BY <2>4, AgedIsOlder DEF Typed, LostInVain, LostNewnym
    <3>3. /\ policy' = policy
          /\ origin' \in {"fresh", "retired"} => origin \in {"fresh", "retired"}
      BY <2>4 DEF LostInVain, LostNewnym
    <3> QED
      BY <1>1, <2>1, <2>2, <2>3, <3>1, <3>2, <3>3, AvoidedFramed
  <2>5. CASE LostPolicy(w)
    BY <2>5, NobodyShuns DEF LostPolicy
  <2> QED
    BY <2>1, <2>4, <2>5
<1>12. CASE PublishRead(w)
  <2>1. /\ \A v \in Job \ {w} : job'[v] = job[v]
        /\ At(w, "read", "publish") /\ ~job'[w].alone /\ job'[w].stage \in {"none", "lock"}
    BY <1>12, PublishReadJob
  <2>2. /\ UNCHANGED <<policy, running, circuits>>
        /\ \/ UNCHANGED exit
           \/ /\ exitNode' = job[w].node
              /\ origin' = IF job[w].overtaken THEN "strayed" ELSE job[w].from
    BY <1>12 DEF PublishRead, tor
  <2>3. ASSUME NEW v \in Job, Shuns(v)'
        PROVE  v # w /\ job'[v] = job[v] /\ Shuns(v) /\ (Renewed(v)' => Renewed(v))
    BY <2>1, <2>3 DEF Shuns, Renewed, At
  <2>4. \A u \in Job : Current(u)' => Current(u) /\ job'[u] = job[u]
    BY <2>1 DEF Current, At
  <2>5. ASSUME NEW v \in Job, Shuns(v)', job'[v].op = "read", origin' \in {"fresh", "retired"}
        PROVE  exitNode' # job'[v].avoid
    <3>1. Shuns(v) /\ job'[v] = job[v] /\ Renewed(v)
      BY <2>3, <2>5 DEF Renewed, Shuns
    <3>2. CASE UNCHANGED exit
      BY <1>2, <2>5, <3>1, <3>2 DEF exit
    <3>3. CASE exitNode' = job[w].node /\ origin' = IF job[w].overtaken THEN "strayed" ELSE job[w].from
      <4>1. job[w].from # "retired"
        BY <1>1, <2>1 DEF Errand, At
      <4>2. Current(w)
        BY <2>1, <2>5, <3>3, <4>1 DEF Current
      <4> QED
        BY <1>2, <3>1, <3>3, <4>2
    <3> QED
      BY <2>2, <3>2, <3>3
  <2>6. ASSUME NEW v \in Job, Shuns(v)'
        PROVE  /\ running' => policy'.avoid = job'[v].avoid
               /\ Renewed(v)' =>
                    /\ \A c \in circuits' : ~c.older => c.exit # job'[v].avoid
                    /\ \A u \in Job : Current(u)' => job'[u].node # job'[v].avoid
    BY <1>2, <2>2, <2>3, <2>4, <2>6
  <2> QED
    BY <1>3, <2>5, <2>6
<1> QED
  BY <1>4, <1>5, <1>6, <1>7, <1>8, <1>9, <1>10, <1>11, <1>12, ActsSorted

-----------------------------------------------------------------------------
(* Time passes, and tor does what it likes.                                 *)

LEMMA CoolsDownJob ==
  ASSUME Typed, CoolsDown
  PROVE  /\ JobsTyped'
         /\ \A v \in Job :
              /\ job'[v].kind = job[v].kind /\ job'[v].op = job[v].op
              /\ job'[v].node = job[v].node /\ job'[v].from = job[v].from
              /\ job'[v].avoid = job[v].avoid /\ job'[v].alone = job[v].alone
              /\ job'[v].overtaken = job[v].overtaken
              /\ \/ job'[v].stage = job[v].stage
                 \/ job[v].stage = "sleep" /\ job'[v].stage = "lock"
<1>1. /\ job \in [Job -> Jobs] /\ \A v \in Job : Errand(job[v])
      /\ job' = [v \in Job |->
           IF job[v].stage = "sleep" THEN [job[v] EXCEPT !.stage = "lock"] ELSE job[v]]
  BY DEF Typed, JobsTyped, CoolsDown
<1>2. ASSUME NEW v \in Job
      PROVE  /\ job'[v] \in Jobs /\ Errand(job'[v])
             /\ job'[v].kind = job[v].kind /\ job'[v].op = job[v].op
             /\ job'[v].node = job[v].node /\ job'[v].from = job[v].from
             /\ job'[v].avoid = job[v].avoid /\ job'[v].alone = job[v].alone
             /\ job'[v].overtaken = job[v].overtaken
             /\ \/ job'[v].stage = job[v].stage
                \/ job[v].stage = "sleep" /\ job'[v].stage = "lock"
  <2>1. CASE job[v].stage # "sleep"
    BY <1>1, <2>1
  <2>2. CASE job[v].stage = "sleep"
    <3> DEFINE f == [job[v] EXCEPT !.stage = "lock"]
    <3>1. job'[v] = f
      BY <1>1, <2>2
    <3>2. f \in Jobs
      BY <1>1 DEF Jobs, Steps
    <3>3. /\ f.kind = job[v].kind /\ f.op = job[v].op /\ f.node = job[v].node
          /\ f.from = job[v].from /\ f.avoid = job[v].avoid /\ f.alone = job[v].alone
          /\ f.overtaken = job[v].overtaken /\ f.stage = "lock"
      BY <1>1 DEF Jobs
    <3> HIDE DEF f
    <3>4. Errand(f)
      BY <1>1, <2>2, <3>3 DEF Errand
    <3> QED
      BY <2>2, <3>1, <3>2, <3>3, <3>4
  <2> QED
    BY <2>1, <2>2
<1>3. job' \in [Job -> Jobs]
  BY <1>1, <1>2
<1> QED
  BY <1>2, <1>3 DEF JobsTyped

LEMMA CoolsDownKept ==
  ASSUME ExitsInv, CoolsDown
  PROVE  ExitsInv'
<1>1. /\ UNCHANGED <<running, policy, circuits, used, ctrlMu, ready, exit, pin, panicked>>
      /\ cooling' = FALSE
      /\ conn' = [k \in Conns |-> [conn[k] EXCEPT !.cool = FALSE]]
      /\ Typed /\ Mutex /\ Cooldowns /\ Restarts /\ Pins /\ Withdrawn /\ RetiredIsGone
      /\ Avoided
  BY DEF CoolsDown, ExitsInv
<1>2. /\ JobsTyped'
      /\ \A v \in Job :
           /\ job'[v].kind = job[v].kind /\ job'[v].op = job[v].op
           /\ job'[v].node = job[v].node /\ job'[v].from = job[v].from
           /\ job'[v].avoid = job[v].avoid /\ job'[v].alone = job[v].alone
           /\ job'[v].overtaken = job[v].overtaken
           /\ \/ job'[v].stage = job[v].stage
              \/ job[v].stage = "sleep" /\ job'[v].stage = "lock"
  BY <1>1, CoolsDownJob
<1>3. /\ conn' \in [Conns -> Connection]
      /\ \A k \in Conns : conn'[k].knows = conn[k].knows /\ ~conn'[k].cool
      /\ conn["former"] = NoConnection => conn'["former"] = NoConnection
  <2>1. conn \in [Conns -> Connection]
    BY <1>1 DEF Typed, ConnTyped
  <2>2. ASSUME NEW k \in Conns
        PROVE  /\ conn'[k] \in Connection /\ conn'[k].knows = conn[k].knows
               /\ ~conn'[k].cool /\ (~conn[k].cool => conn'[k] = conn[k])
    <3>1. conn[k] \in Connection /\ conn'[k] = [conn[k] EXCEPT !.cool = FALSE]
      BY <1>1, <2>1
    <3>2. [conn[k] EXCEPT !.cool = FALSE] \in Connection
      BY <3>1, Zenon DEF Connection
    <3>3. /\ [conn[k] EXCEPT !.cool = FALSE].end = conn[k].end
          /\ [conn[k] EXCEPT !.cool = FALSE].knows = conn[k].knows
          /\ ~[conn[k] EXCEPT !.cool = FALSE].cool
      BY <3>1 DEF Connection
    <3>4. ~conn[k].cool => conn'[k] = conn[k]
      BY <3>1 DEF Connection
    <3> QED
      BY <3>1, <3>2, <3>3, <3>4
  <2> QED
    BY <1>1, <2>2, Connections DEF Conns
<1>4. Typed'
  BY <1>1, <1>2, <1>3 DEF Typed, TorTyped, ConnTyped, ExitTyped, exit, pin
<1>5. Mutex'
  BY <1>1, <1>2 DEF Mutex, Locked
<1>6. Cooldowns'
  <2>1. \A v \in Job : At(v, "newnym", "flight")' => used \in Conns
    BY <1>1, <1>2 DEF Mutex, Locked, At, Typed, ConnTyped
  <2> QED
    BY <1>1, <1>3, <2>1 DEF Cooldowns, Conns
<1>7. Restarts'
  BY <1>1, <1>2 DEF Restarts, Unpublished, pin
<1>8. \A v \in Job : Unpublished(v)' <=> Unpublished(v)
  BY <1>2 DEF Unpublished
<1>9. Pins'
  BY <1>1, <1>2, <1>8 DEF Pins, pin
<1>10. RetiredIsGone' /\ Withdrawn'
  BY <1>1, <1>2 DEF RetiredIsGone, Withdrawn, At, exit
<1>11. Avoided'
  <2>1. \A v \in Job : /\ Renewed(v)' <=> Renewed(v)
                       /\ At(v, "read", "publish")' <=> At(v, "read", "publish")
    BY <1>2 DEF Renewed, At
  <2> QED
    BY <1>1, <1>2, <2>1 DEF Avoided, exit
<1> QED
  BY <1>4, <1>5, <1>6, <1>7, <1>9, <1>10, <1>11 DEF ExitsInv

LEMMA TorKept ==
  ASSUME ExitsInv, Tor
  PROVE  ExitsInv'
<1>1. /\ running /\ UNCHANGED <<used, ctrlMu, ready, exit, pin, job, panicked>>
      /\ Typed /\ Mutex /\ Cooldowns /\ Restarts /\ Pins /\ Withdrawn /\ RetiredIsGone
      /\ Avoided
  BY DEF Tor, ExitsInv
<1>2. /\ Mutex' /\ Withdrawn' /\ RetiredIsGone' /\ JobsTyped' /\ ExitTyped'
      /\ \A v \in Job : Unpublished(v)' <=> Unpublished(v)
  BY <1>1 DEF Mutex, Withdrawn, RetiredIsGone, Typed, JobsTyped, ExitTyped, Unpublished, At,
    exit, pin
<1>3. CASE Changes /\ UNCHANGED <<running, cooling, policy, conn>>
  <2>1. /\ circuits' \subseteq Circuit
        /\ \A c \in circuits' : ~c.older => c \in circuits \/ c.exit # policy.avoid
    <3>1. circuits \subseteq Circuit
      BY <1>1 DEF Typed, TorTyped
    <3>2. CASE \E c \in circuits : circuits' = circuits \ {c}
      BY <3>1, <3>2
    <3>3. ASSUME NEW r \in Relay, Allowed(r),
                 circuits' = circuits \cup {[exit |-> r, older |-> FALSE]}
          PROVE  /\ circuits' \subseteq Circuit
                 /\ \A c \in circuits' : ~c.older => c \in circuits \/ c.exit # policy.avoid
      <4> DEFINE n == [exit |-> r, older |-> FALSE]
      <4>1. n \in Circuit /\ n.exit # policy.avoid
        BY <3>3 DEF Allowed, Circuit
      <4> HIDE DEF n
      <4>2. circuits' = circuits \cup {n}
        BY <3>3 DEF n
      <4> QED
        BY <3>1, <4>1, <4>2
    <3> QED
      BY <1>3, <3>2, <3>3 DEF Changes
  <2>2. Typed'
    BY <1>1, <1>2, <1>3, <2>1 DEF Typed, TorTyped, ConnTyped
  <2>3. Cooldowns'
    BY <1>1, <1>3 DEF Cooldowns, At
  <2>4. Restarts'
    BY <1>1, <1>2, <1>3 DEF Restarts, pin
  <2>5. Pins'
    BY <1>1, <1>2, <1>3 DEF Pins, pin
  <2>6. Avoided'
    BY <1>1, <1>3, <2>1 DEF Avoided, Renewed, At, exit
  <2> QED
    BY <1>2, <2>2, <2>3, <2>4, <2>5, <2>6 DEF ExitsInv
<1>4. CASE TorGone
  <2>1. /\ running' = FALSE /\ circuits' = {} /\ cooling' = FALSE /\ policy' = AnyExit
        /\ conn' = Orphaned /\ conn \in [Conns -> Connection]
    BY <1>1, <1>4 DEF TorGone, Typed, ConnTyped
  <2>2. /\ conn' \in [Conns -> Connection]
        /\ \A k \in Conns : conn'[k].knows = conn[k].knows /\ conn'[k].cool = conn[k].cool
        /\ conn["former"] = NoConnection => conn'["former"] = NoConnection
    BY <2>1, OrphanedConns
  <2>3. Typed'
    BY <1>1, <1>2, <2>1, <2>2 DEF Typed, TorTyped, ConnTyped, Policy, AnyExit
  <2>4. Cooldowns'
    <3>1. \A v \in Job : At(v, "newnym", "flight") => used \in Conns
      BY <1>1 DEF Mutex, Locked, At, Typed, ConnTyped
    <3> QED
      BY <1>1, <2>1, <2>2, <3>1 DEF Cooldowns, Conns, At
  <2>5. Restarts'
    BY <1>1, <1>2, <2>1 DEF Restarts, pin
  <2>6. Pins'
    BY <2>1 DEF Pins
  <2>7. Avoided'
    BY <1>1, <2>1 DEF Avoided, Renewed, At, exit
  <2> QED
    BY <1>2, <2>3, <2>4, <2>5, <2>6, <2>7 DEF ExitsInv
<1> QED
  BY <1>3, <1>4 DEF Tor

-----------------------------------------------------------------------------
(* The theorems.                                                            *)

LEMMA ExitsInit ==
  ASSUME Init
  PROVE  ExitsInv
<1>1. /\ running = TRUE /\ policy = AnyExit /\ circuits = {} /\ cooling = FALSE
      /\ conn = [current |-> Fresh, former |-> NoConnection]
      /\ used = None /\ ctrlMu = None /\ ready = TRUE
      /\ exitNode = None /\ exitConfirmed = FALSE /\ origin = "none"
      /\ pinnedExit = None /\ drifted = FALSE
      /\ None \notin Job /\ None \notin Conns
  BY ExitsAssumption, NoneIsNoConnection DEF Init
<1>2. JobsTyped /\ \A v \in Job : job[v] = Idle
  BY IdleJob DEF Init, JobsTyped
<1>3. \A v \in Job : /\ job[v].stage = "none" /\ job[v].op = "none" /\ job[v].kind = "none"
                     /\ ~job[v].alone
  BY <1>2 DEF Idle
<1>4. Typed
  <2>1. conn \in [Conns -> Connection]
    BY <1>1, Connections DEF Conns
  <2>2. policy \in Policy
    BY <1>1 DEF Policy, AnyExit
  <2> QED
    BY <1>1, <1>2, <2>1, <2>2 DEF Typed, TorTyped, ConnTyped, ExitTyped, Origins
<1>5. Mutex
  BY <1>1, <1>3 DEF Mutex, Locked
<1>6. Cooldowns
  BY <1>1, <1>3, Connections DEF Cooldowns, At, Conns
<1>7. Restarts /\ Pins /\ Withdrawn /\ RetiredIsGone /\ Avoided
  BY <1>1, <1>3 DEF Restarts, Pins, Withdrawn, RetiredIsGone, Avoided, Unpublished, Renewed
<1> QED
  BY <1>4, <1>5, <1>6, <1>7 DEF ExitsInv

LEMMA ExitsStep ==
  ASSUME ExitsInv, [Next]_vars
  PROVE  ExitsInv'
<1>1. CASE \E w \in Job : Acts(w)
  <2>1. PICK w \in Job : Acts(w)
    BY <1>1
  <2>2. Typed /\ Mutex /\ Cooldowns /\ Restarts /\ Pins /\ Withdrawn /\ RetiredIsGone /\ Avoided
    BY DEF ExitsInv
  <2>3. /\ JobsTyped' /\ TorTyped' /\ ExitTyped' /\ Moves(w)
        /\ \A v \in Job \ {w} : job'[v].stage = job[v].stage
    BY <2>1, <2>2, ActsJob, ActsTor, ActsExit DEF OthersStay, Same
  <2>4. Mutex'
    BY <2>1, <2>2, <2>3, MutexKept
  <2>5. ConnTyped' /\ Cooldowns'
    BY <2>1, <2>2, <2>3, <2>4, CooldownsKept
  <2>6. Restarts' /\ Pins' /\ Withdrawn' /\ RetiredIsGone' /\ Avoided'
    BY <2>1, <2>2, RestartsKept, PinsKept, WithdrawnKept, RetiredKept, AvoidedKept
  <2> QED
    BY <2>3, <2>4, <2>5, <2>6 DEF ExitsInv, Typed
<1>2. CASE CoolsDown
  BY <1>2, CoolsDownKept
<1>3. CASE Tor
  BY <1>3, TorKept
<1>4. CASE UNCHANGED vars
  BY <1>4 DEF vars, tor, control, exit, pin, ExitsInv, Typed, TorTyped, ConnTyped, ExitTyped,
    JobsTyped, Mutex, Cooldowns, Restarts, Pins, Withdrawn, RetiredIsGone, Avoided, Unpublished,
    Renewed, At
<1>5. [Next]_vars => (\E w \in Job : Acts(w)) \/ CoolsDown \/ Tor \/ UNCHANGED vars
  BY DEF Next, Acts
<1> QED
  BY <1>1, <1>2, <1>3, <1>4, <1>5

LEMMA ExitsSafe == Spec => []ExitsInv
<1>1. Init => ExitsInv
  BY ExitsInit
<1>2. ExitsInv /\ [Next]_vars => ExitsInv'
  BY ExitsStep
<1> QED
  BY <1>1, <1>2, PTL DEF Spec

LEMMA ExitsTypeOK ==
  ASSUME Typed, Mutex
  PROVE  TypeOK
<1>1. /\ running \in BOOLEAN /\ cooling \in BOOLEAN /\ ready \in BOOLEAN
      /\ policy \in Policy /\ circuits \subseteq Circuit
      /\ conn \in [Conns -> Connection]
      /\ used \in Conns \cup {None} /\ ctrlMu \in Job \cup {None}
      /\ exitNode \in Relay \cup {None} /\ exitConfirmed \in BOOLEAN
      /\ exitNode = None <=> origin = "none"
      /\ pinnedExit \in Relay \cup {None}
  BY DEF Typed, TorTyped, ConnTyped, ExitTyped
<1>2. /\ used # None <=> \E w \in Job : ctrlMu = w /\ job[w].stage \in {"flight", "close"}
      /\ \A w \in Job : job[w].stage \in {"dial", "flight", "close"} <=> ctrlMu = w
  BY DEF Mutex, Locked
<1>3. \A w \in Job :
        /\ job[w].kind \in {"none", "rotate", "ladder", "poll", "sample", "restart"}
        /\ job[w].op \in Commands \cup Restarting \cup {"none", "check", "choose"}
        /\ job[w].stage \in Steps
  BY DEF Typed, JobsTyped, Jobs, Kinds, Ops
<1> QED
  BY <1>1, <1>2, <1>3 DEF TypeOK

\* PinExit and UnpinExit: the pin that is reported is tor's, once whoever changed it has
\* said so; but for answers published late or lost.
THEOREM PinIsAlwaysTors == Spec => []PinIsTors
<1>1. ExitsInv => PinIsTors
  <2> SUFFICES ASSUME ExitsInv PROVE PinIsTors
    OBVIOUS
  <2>1. Typed /\ Mutex /\ Pins
    BY DEF ExitsInv
  <2>2. TypeOK
    BY <2>1, ExitsTypeOK
  <2> QED
    BY <2>1, <2>2 DEF PinIsTors, Pins, Unpublished
<1> QED
  BY <1>1, ExitsSafe, PTL

\* retireExit: of a tor that runs, an exit that a NEWNYM or a restart has put out of use is
\* reported only while the goroutine that has its answer is about to withdraw it, also
\* when restarts fail at any point in between.
THEOREM RetiredIsAlwaysGone == Spec => []RetiredIsGone
<1>1. ExitsInv => RetiredIsGone
  BY DEF ExitsInv
<1> QED
  BY <1>1, ExitsSafe, PTL

\* NewnymWait: whoever signals NEWNYM over a connection that knows of one does so after its
\* cooldown, also when tor or the connection was replaced in between.
THEOREM NewnymAlwaysTakesEffect == Spec => NewnymTakesEffect
<1>1. ASSUME ExitsInv, NEW w \in Job, cooling, Signalled(w)
      PROVE  ~conn[used].knows
  <2>1. At(w, "newnym", "flight") /\ used # None
    BY <1>1 DEF Signalled, Answers, Receives, ExitsInv, Mutex, Locked, At
  <2>2. used \in Conns /\ ~conn[used].cool
    BY <1>1, <2>1 DEF ExitsInv, Typed, ConnTyped, Cooldowns
  <2> QED
    BY <1>1, <2>2 DEF ExitsInv, Cooldowns
<1>2. ExitsInv => [cooling => \A w \in Job : Signalled(w) => ~conn[used].knows]_vars
  BY <1>1
<1> QED
  BY <1>2, ExitsSafe, PTL DEF NewnymTakesEffect

\* finishRotation and settleExit: a rotation whose policy stayed in force pins another exit
\* than the one it left, whatever others read, publish or signal meanwhile.
THEOREM RotationAlwaysChangesExit == Spec => RotationChangesExit
<1>1. ASSUME ExitsInv, NEW w \in Job, job[w].alone, job[w].avoid # None,
             PublishRead(w), job'[w].op = "pin", origin' # "strayed"
      PROVE  job'[w].node # job[w].avoid
  <2>1. /\ Typed /\ Avoided /\ At(w, "read", "publish")
        /\ exitNode' \in Relay \cup {None} /\ job'[w].node = exitNode'
    BY <1>1, PublishReadJob DEF ExitsInv
  <2>2. /\ \A u \in Job : Current(u) => job[u].node # job[w].avoid
        /\ origin \in {"fresh", "retired"} => exitNode # job[w].avoid
    BY <1>1, <2>1, AvoidedParts DEF Shuns, Renewed, At
  <2>3. CASE UNCHANGED exit
    <3>1. exitNode' # None
      <4>1. Errand(job[w])'
        BY <1>1, <2>1, PublishReadJob DEF JobsTyped
      <4> QED
        BY <1>1, <2>1, <4>1, ExitsAssumption DEF Errand
    <3> QED
      BY <1>1, <2>1, <2>2, <2>3, <3>1 DEF exit, Typed, ExitTyped, Origins
  <2>4. CASE exitNode' = job[w].node /\ origin' = IF job[w].overtaken THEN "strayed" ELSE job[w].from
    <3>1. job[w].from \in {"fresh", "strayed"}
      BY <2>1 DEF Typed, JobsTyped, Jobs, Origins, Errand, At
    <3>2. Current(w)
      BY <1>1, <2>1, <2>4, <3>1 DEF Current
    <3> QED
      BY <2>1, <2>2, <2>4, <3>2
  <2> QED
    BY <1>1, <2>3, <2>4 DEF PublishRead
<1>2. ExitsInv =>
        [\A w \in Job :
           /\ job[w].alone /\ job[w].avoid # None
           /\ PublishRead(w) /\ job'[w].op = "pin" /\ origin' # "strayed"
           => job'[w].node # job[w].avoid]_vars
  BY <1>1
<1> QED
  BY <1>2, ExitsSafe, PTL DEF RotationChangesExit

=============================================================================
