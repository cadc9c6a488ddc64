---------------------------- MODULE HealthStates ----------------------------
(***************************************************************************)
(* What one instance's health promises to the rest of the pool: the state  *)
(* machine of internal/pool/health.go with the evidence behind each        *)
(* transition (scores, windows, clocks) abstracted to a choice.            *)
(*                                                                         *)
(* The After... operators say which states each call may leave behind.     *)
(* Health.tla is shown to implement this module; Remediation.tla and       *)
(* Routing.tla use the operators, so what they assume about health is what *)
(* Health promises.                                                        *)
(***************************************************************************)

VARIABLES
  state,   \* the health.state of the instance
  call     \* the call that was made last: only the reader of a step needs it

States == {"starting", "healthy", "degraded", "probation", "quarantined",
           "remediating"}

Calls == {"none", "recordFailure", "recordSuccess", "clearProbation",
          "markReady", "markStarting", "nextRung", "remediated",
          "quarantine", "release", "snapshot"}

\* The states that may take new sessions.
InService == {"healthy", "degraded", "probation"}

\* The states recordFailure leaves alone: the instance is already out.
OutOfService == {"quarantined", "remediating"}

\* Whether a threshold was crossed is the choice.  That a probation is decided
\* by the first report that blames the exit, and by no other, is not.
AfterFailure(s, blamesExit) ==
  IF s \in OutOfService THEN {s}
  ELSE IF s = "probation"
    THEN IF blamesExit THEN {"quarantined"} ELSE {s}
  ELSE {"degraded", "quarantined"}

\* Whether the window has emptied is the choice.
AfterSuccess(s) ==
  IF s = "degraded" THEN {"degraded", "healthy"} ELSE {s}

AfterClearProbation(s) == IF s = "probation" THEN "healthy" ELSE s

AfterMarkReady(s) == IF s = "starting" THEN "healthy" ELSE s

\* The states a call may leave behind when it finds the instance in s.
After(c, s) ==
  CASE c = "recordFailure"  -> AfterFailure(s, TRUE) \cup AfterFailure(s, FALSE)
    [] c = "recordSuccess"  -> AfterSuccess(s)
    [] c = "clearProbation" -> {AfterClearProbation(s)}
    [] c = "markReady"      -> {AfterMarkReady(s)}
    [] c = "markStarting"   -> {"starting"}
    [] c = "nextRung"       -> {"remediating"}
    [] c = "remediated"     -> {"probation"}
    [] c = "quarantine"     -> {"quarantined"}
    [] c = "release"        -> {"healthy"}
    [] OTHER                -> {s}

-----------------------------------------------------------------------------

Init == state = "starting" /\ call = "none"

Next == \E c \in Calls \ {"none"} : call' = c /\ state' \in After(c, state)

Spec == Init /\ [][Next]_<<state, call>>
=============================================================================
