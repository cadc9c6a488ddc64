------------------------------- MODULE Health -------------------------------
(***************************************************************************)
(* The failure accounting of one instance: internal/pool/health.go.        *)
(*                                                                         *)
(* Every method holds health.mu from its first line to its last, so each   *)
(* is one action.  The failure window is kept as the number of reports of  *)
(* each kind still inside it: a kind's weight never changes, so the bag    *)
(* determines the score.  The clock only decides when a report leaves the  *)
(* window (AgeOut), when a backoff has run out (BackoffElapsed) and        *)
(* whether a remediation counts as recurring (a choice in NextRung).       *)
(***************************************************************************)
EXTENDS Naturals

CONSTANTS
  MaxInWindow,      \* QUARANTINE_FAILURES
  MaxConsecutive,   \* QUARANTINE_CONSECUTIVE
  Backoff,          \* REMEDIATION_BACKOFF
  MaxBackoff,       \* MAX_REMEDIATION_BACKOFF
  MaxReports,       \* bound: reports held in the window at once
  MaxAttempts       \* bound: remediations spent at one rung

\* What config.Validate lets through, and the two bounds.
ASSUME PolicyAssumption ==
  /\ MaxInWindow \in Nat \ {0}
  /\ MaxConsecutive \in Nat \ {0}
  /\ Backoff \in Nat \ {0}
  /\ MaxBackoff \in Nat
  /\ MaxBackoff >= Backoff
  /\ MaxReports \in Nat
  /\ MaxAttempts \in Nat

VARIABLES
  state,          \* health.state
  window,         \* health.failures: reports inside the window, by kind
  consecutive,    \* health.consecutive, saturated at MaxConsecutive
  rung,           \* health.rung
  rungAttempts,   \* health.rungAttempts
  remediatedOnce, \* health.lastRemediation is not zero
  held,           \* health.availableAt lies in the future
  delay,          \* the wait the last nextRung returned
  call,           \* history: the method called last
  trial           \* history: remediated, and nothing has judged it since

counts == <<window, consecutive>>
ladder == <<rung, rungAttempts, remediatedOnce, delay>>
vars   == <<state, counts, ladder, held, call, trial>>

Kinds == {"rate_limited", "transport", "other", "blocked", "captcha"}

Rungs == {"newnym", "restart", "backoff"}

HS == INSTANCE HealthStates

-----------------------------------------------------------------------------
(* The scoring policy.                                                     *)

BaselineWeight == 2

QuarantineScore == MaxInWindow * BaselineWeight

RawWeight(kind) ==
  CASE kind = "rate_limited" -> BaselineWeight \div 2
    [] kind = "blocked"      -> 2 * BaselineWeight
    [] kind = "captcha"      -> 3 * BaselineWeight
    [] OTHER                 -> BaselineWeight

Capped(n, ceiling) == IF n > ceiling THEN ceiling ELSE n

\* Mutant: the ceiling is the threshold itself instead of one below it.
WeightAtThreshold(kind) ==
  IF MaxInWindow > 1 THEN Capped(RawWeight(kind), QuarantineScore)
                     ELSE RawWeight(kind)

\* No single report may reach the threshold, unless one report is what the
\* operator asked for.
Weight(kind) ==
  IF MaxInWindow > 1 THEN Capped(RawWeight(kind), QuarantineScore - 1)
                     ELSE RawWeight(kind)

BlamesExit(kind) == kind # "rate_limited"

\* scoreLocked
Score(w) ==
    w["rate_limited"] * Weight("rate_limited")
  + w["transport"] * Weight("transport")
  + w["other"] * Weight("other")
  + w["blocked"] * Weight("blocked")
  + w["captcha"] * Weight("captcha")

EmptyWindow == [k \in Kinds |-> 0]

Reports(w) == w["rate_limited"] + w["transport"] + w["other"] + w["blocked"]
              + w["captcha"]

Add(w, kind) == [w EXCEPT ![kind] = @ + 1]

\* nextRung's doubling loop: it stops once the cap is reached.
Doubled[n \in Nat] ==
  IF n = 0 THEN Backoff
  ELSE IF Doubled[n - 1] >= MaxBackoff THEN Doubled[n - 1]
  ELSE 2 * Doubled[n - 1]

BackoffDelay(attempts) == Capped(Doubled[attempts], MaxBackoff)

\* routable
Routable == state \in HS!InService /\ ~held

-----------------------------------------------------------------------------

Init ==
  /\ state = "starting"
  /\ window = EmptyWindow
  /\ consecutive = 0
  /\ rung = "newnym"
  /\ rungAttempts = 0
  /\ remediatedOnce = FALSE
  /\ held = FALSE
  /\ delay = 0
  /\ call = "none"
  /\ trial = FALSE

\* Mutant: the streak has to exceed its threshold.
CrossedOneLater(w, c) == c > MaxConsecutive \/ Score(w) >= QuarantineScore

\* quarantineLocked's thresholds, in recordFailure.
Crossed(w, c) == c >= MaxConsecutive \/ Score(w) >= QuarantineScore

\* Mutant: a rate limit on probation falls through to the threshold test.
VerdictFallingThrough(kind, w, c) ==
  IF state \in HS!OutOfService THEN state
  ELSE IF state = "probation" /\ BlamesExit(kind) THEN "quarantined"
  ELSE IF Crossed(w, c) THEN "quarantined"
  ELSE "degraded"

\* The state recordFailure leaves, w and c being the counts with this report.
Verdict(kind, w, c) ==
  IF state \in HS!OutOfService THEN state
  ELSE IF state = "probation"
    THEN IF BlamesExit(kind) THEN "quarantined" ELSE "probation"
  ELSE IF Crossed(w, c) THEN "quarantined"
  ELSE "degraded"

RecordFailure(kind) ==
  /\ Reports(window) < MaxReports
  /\ window' = Add(window, kind)
  /\ consecutive' = IF BlamesExit(kind)
                    THEN Capped(consecutive + 1, MaxConsecutive)
                    ELSE consecutive
  /\ state' = Verdict(kind, window', consecutive')
  /\ trial' = (trial /\ ~BlamesExit(kind))
  /\ call' = "recordFailure"
  /\ UNCHANGED <<ladder, held>>

\* Mutant: an empty window promotes from any state.
RecordSuccessPromoting ==
  /\ consecutive' = 0
  /\ state' = IF window = EmptyWindow THEN "healthy" ELSE state
  /\ call' = "recordSuccess"
  /\ UNCHANGED <<window, ladder, held, trial>>

RecordSuccess ==
  /\ consecutive' = 0
  /\ state' = IF state = "degraded" /\ window = EmptyWindow
              THEN "healthy" ELSE state
  /\ call' = "recordSuccess"
  /\ UNCHANGED <<window, ladder, held, trial>>

\* The rung nextRung applies; again tells whether the last remediation is
\* recent.
Escalated(again) ==
  IF ~again THEN "newnym"
  ELSE IF rung = "newnym" THEN "restart"
  ELSE "backoff"

\* Mutant: the attempts are counted over all rungs.
SpentEver(again) == rungAttempts

\* The remediations already spent at the rung nextRung applies.
Spent(again) == IF Escalated(again) # rung \/ ~again THEN 0 ELSE rungAttempts

NextRung ==
  \E again \in (IF remediatedOnce THEN BOOLEAN ELSE {FALSE}) :
    /\ Spent(again) < MaxAttempts
    /\ rung' = Escalated(again)
    /\ rungAttempts' = Spent(again) + 1
    /\ delay' = IF Escalated(again) = "backoff"
                THEN BackoffDelay(Spent(again)) ELSE 0
    /\ held' = (delay' > 0)
    /\ state' = "remediating"
    /\ remediatedOnce' = TRUE
    /\ trial' = FALSE
    /\ call' = "nextRung"
    /\ UNCHANGED counts

Remediated ==
  /\ state' = "probation"
  /\ window' = EmptyWindow
  /\ consecutive' = 0
  /\ held' = FALSE
  /\ trial' = TRUE
  /\ call' = "remediated"
  /\ UNCHANGED ladder

ClearProbation ==
  /\ state' = HS!AfterClearProbation(state)
  /\ trial' = FALSE
  /\ call' = "clearProbation"
  /\ UNCHANGED <<counts, ladder, held>>

MarkReady ==
  /\ state' = HS!AfterMarkReady(state)
  /\ call' = "markReady"
  /\ UNCHANGED <<counts, ladder, held, trial>>

MarkStarting ==
  /\ state' = "starting"
  /\ trial' = FALSE
  /\ call' = "markStarting"
  /\ UNCHANGED <<counts, ladder, held>>

Quarantine ==
  /\ state' = "quarantined"
  /\ trial' = FALSE
  /\ call' = "quarantine"
  /\ UNCHANGED <<counts, ladder, held>>

Release ==
  /\ state' = "healthy"
  /\ window' = EmptyWindow
  /\ consecutive' = 0
  /\ rung' = "newnym"
  /\ rungAttempts' = 0
  /\ held' = FALSE
  /\ trial' = FALSE
  /\ call' = "release"
  /\ UNCHANGED <<remediatedOnce, delay>>

\* Mutant: a report is dropped that the window does not hold.
AgeOutUnguarded(kind) ==
  /\ window' = [window EXCEPT ![kind] = @ - 1]
  /\ UNCHANGED <<state, consecutive, ladder, held, call, trial>>

\* Time passes: a report leaves the window.  pruneLocked drops it at the next
\* call that reads the window, so nothing can tell when it was dropped.
AgeOut(kind) ==
  /\ window[kind] > 0
  /\ window' = [window EXCEPT ![kind] = @ - 1]
  /\ UNCHANGED <<state, consecutive, ladder, held, call, trial>>

\* Time passes: availableAt is no longer in the future.
BackoffElapsed ==
  /\ held
  /\ held' = FALSE
  /\ UNCHANGED <<state, counts, ladder, call, trial>>

Next ==
  \/ \E kind \in Kinds : RecordFailure(kind)
  \/ RecordSuccess
  \/ NextRung
  \/ Remediated
  \/ ClearProbation
  \/ MarkReady
  \/ MarkStarting
  \/ Quarantine
  \/ Release
  \/ \E kind \in Kinds : AgeOut(kind)
  \/ BackoffElapsed

Spec == Init /\ [][Next]_vars

-----------------------------------------------------------------------------
(* Properties.                                                             *)

\* Types; every count stays in its range whatever ages out of the window between
\* two calls, so a score never goes negative (health.go health, prune).
TypeOK ==
  /\ state \in HS!States
  /\ window \in [Kinds -> Nat]
  /\ consecutive \in 0..MaxConsecutive
  /\ rung \in Rungs
  /\ rungAttempts \in 0..MaxAttempts
  /\ remediatedOnce \in BOOLEAN
  /\ held \in BOOLEAN
  /\ call \in HS!Calls
  /\ trial \in BOOLEAN

\* An instance that stays in rotation while failing has crossed neither
\* threshold: whatever ages out, is forgiven or is left over from before a
\* restart, recordFailure never lets a crossing go unnoticed
\* (health.go recordFailure, recordSuccess).
DegradedIsBelowThresholds ==
  state = "degraded" =>
    /\ consecutive < MaxConsecutive
    /\ Score(window) < QuarantineScore

\* A single report never quarantines an instance that was not already on
\* trial: when the report is the only one in the window and the only one since
\* the last success, the instance stays in rotation, however heavy the kind,
\* unless one of the thresholds is 1 (health.go weight).
SingleReportNeverQuarantines ==
  [][ (/\ call' = "recordFailure" /\ window' # window
       /\ state \notin {"probation", "quarantined"}
       /\ MaxInWindow > 1 /\ MaxConsecutive > 1
       /\ consecutive = 0 /\ window = EmptyWindow)
      => state' # "quarantined" ]_vars

\* Rate limits never spend a probation: from the moment the ladder returns an
\* instance until a success, a report that blames the exit, or an operator
\* says otherwise, it is on probation (health.go recordFailure).
RateLimitsKeepProbation == trial => state = "probation"

\* The waits of the last rung double from Backoff and stop at MaxBackoff,
\* whatever lies between two of them, and they start over whenever the ladder
\* comes back to that rung from another (health.go nextRung).
BackoffDoublesUpToCap ==
  [][ NextRung /\ rung' = "backoff" =>
        delay' = IF rung = "backoff" THEN Capped(2 * delay, MaxBackoff)
                                     ELSE Backoff ]_vars

\* Health does to the state what HealthStates says each call may do.
ImplementsHealthStates == HS!Spec
=============================================================================
