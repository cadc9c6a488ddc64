---------------------------- MODULE PoolProofs -----------------------------
(* What the parts of internal/pool that hold no goroutine of their own     *)
(* promise: Health, for every policy config.Validate lets through, and,    *)
(* below it, Sessions and Routing, for any number of requests, session     *)
(* keys and instances.                                                     *)
EXTENDS Health, Sessions, Routing, FiniteSetTheorems, TLAPS

(***************************************************************************)
(* Numbers.                                                                *)
(***************************************************************************)

\* A set of numbers has a smallest one: its lower bounds are as many as it is.
LEMMA SmallestExists ==
  ASSUME NEW T \in SUBSET Nat, T # {}
  PROVE  \E x \in T : \A y \in T : x <= y
<1> DEFINE B == {n \in Nat : \A x \in T : n <= x}
           c == Cardinality(B)
<1>1. PICK t \in T : TRUE
  OBVIOUS
<1>2. IsFiniteSet(B)
  <2>1. B \subseteq 0..t /\ IsFiniteSet(0..t)
    BY <1>1, FS_Interval
  <2> QED
    BY <2>1, FS_Subset
<1>3. c \in Nat
  BY <1>2, FS_CardinalityType
<1>4. 0 \in B /\ \A n \in B : 0..n \subseteq B
  OBVIOUS
<1> HIDE DEF c
<1>5. c \notin B
  <2> SUFFICES ASSUME c \in B PROVE FALSE
    OBVIOUS
  <2>1. Cardinality(0..c) = c + 1
    BY <1>3, FS_Interval
  <2>2. Cardinality(0..c) <= c
    BY <1>2, <1>4, FS_Subset DEF c
  <2> QED
    BY <1>3, <2>1, <2>2
<1>6. c - 1 \in B
  <2>1. c # 0
    BY <1>2, <1>4, FS_EmptySet DEF c
  <2> SUFFICES ASSUME c - 1 \notin B PROVE FALSE
    OBVIOUS
  <2>2. B \subseteq 0..c - 2
    <3> SUFFICES ASSUME NEW n \in B PROVE n \in 0..c - 2
      OBVIOUS
    <3>1. c - 1 \notin 0..n
      BY <1>4
    <3> QED
      BY <1>3, <2>1, <3>1
  <2>3. IsFiniteSet(0..c - 2) /\ Cardinality(0..c - 2) = c - 1
    BY <1>3, <2>1, FS_Interval
  <2>4. Cardinality(B) <= Cardinality(0..c - 2)
    BY <2>2, <2>3, FS_Subset
  <2>5. c = Cardinality(B)
    BY DEF c
  <2> QED
    BY <1>3, <2>3, <2>4, <2>5
<1>7. PICK x \in T : x < c
  BY <1>3, <1>5
<1>8. \A y \in T : c - 1 <= y
  BY <1>6
<1> QED
  BY <1>3, <1>7, <1>8

(***************************************************************************)
(* Arithmetic of the scores.                                               *)
(***************************************************************************)

\* Every weight is a number, and with a threshold of more than one report none
\* of them reaches it.
LEMMA WeightBounds ==
  ASSUME NEW kind \in Kinds
  PROVE  /\ Weight(kind) \in Nat
         /\ MaxInWindow > 1 => Weight(kind) < QuarantineScore
<1>1. RawWeight(kind) \in {1, 2, 4, 6}
  BY DEF RawWeight, BaselineWeight, Kinds
<1>2. QuarantineScore \in Nat /\ QuarantineScore >= 2
  BY PolicyAssumption DEF QuarantineScore, BaselineWeight
<1> QED
  BY <1>1, <1>2 DEF Weight, Capped

\* A product with a weight is a number.
LEMMA ProductIsNat ==
  ASSUME NEW a \in Nat, NEW b \in Nat
  PROVE  a * b \in Nat
  OBVIOUS

\* The score is a number.
LEMMA ScoreIsNat ==
  ASSUME NEW w \in [Kinds -> Nat]
  PROVE  Score(w) \in Nat
<1>1. \A k \in Kinds : w[k] * Weight(k) \in Nat
  BY WeightBounds, ProductIsNat
<1> QED
  BY <1>1 DEF Score, Kinds

\* One report less never raises the score.
LEMMA ScoreAgesDown ==
  ASSUME NEW w \in [Kinds -> Nat], NEW kind \in Kinds, w[kind] > 0
  PROVE  Score([w EXCEPT ![kind] = @ - 1]) <= Score(w)
<1> DEFINE v == [w EXCEPT ![kind] = @ - 1]
<1>1. \A k \in Kinds : v[k] * Weight(k) <= w[k] * Weight(k)
  <2> TAKE k \in Kinds
  <2>1. w[k] \in Nat /\ Weight(k) \in Nat
    BY WeightBounds
  <2>2. CASE k = kind
    <3>1. v[k] = w[k] - 1
      BY <2>2
    <3>2. (w[k] - 1) * Weight(k) = w[k] * Weight(k) - Weight(k)
      BY <2>1
    <3> QED
      BY <2>1, <3>1, <3>2, ProductIsNat
  <2>3. CASE k # kind
    <3>1. v[k] = w[k]
      BY <2>3
    <3>2. w[k] * Weight(k) \in Nat
      BY <2>1, ProductIsNat
    <3> QED
      BY <3>1, <3>2
  <2> QED
    BY <2>2, <2>3
<1>2. \A k \in Kinds : v[k] \in Nat
  OBVIOUS
<1>3. \A k \in Kinds : v[k] * Weight(k) \in Nat /\ w[k] * Weight(k) \in Nat
  BY <1>2, WeightBounds, ProductIsNat
<1> HIDE DEF v
<1>4. Score(v) <= Score(w)
  BY <1>1, <1>3 DEF Score, Kinds
<1> QED
  BY <1>4 DEF v

\* The empty window is a window.
LEMMA EmptyWindowType == EmptyWindow \in [Kinds -> Nat]
  BY DEF EmptyWindow

\* The score of a window that holds a single report is the report's weight.
LEMMA ScoreOfOne ==
  ASSUME NEW kind \in Kinds
  PROVE  Score(Add(EmptyWindow, kind)) = Weight(kind)
<1>1. \A k \in Kinds : Weight(k) \in Nat
  BY WeightBounds
<1>2. \A k \in Kinds :
        Add(EmptyWindow, kind)[k] * Weight(k) = IF k = kind THEN Weight(k) ELSE 0
  BY <1>1 DEF Add, EmptyWindow
<1> QED
  BY <1>1, <1>2 DEF Score, Kinds

(***************************************************************************)
(* Types.                                                                  *)
(***************************************************************************)

\* Every variable of an instance's health keeps its type, whatever is called in
\* whatever order.
THEOREM TypeCorrect == Spec => []TypeOK
<1> USE PolicyAssumption
<1>1. Init => TypeOK
  <2> SUFFICES ASSUME Init PROVE TypeOK
    OBVIOUS
  <2>1. window \in [Kinds -> Nat]
    BY EmptyWindowType DEF Init
  <2>2. consecutive \in 0..MaxConsecutive /\ rungAttempts \in 0..MaxAttempts
    BY DEF Init
  <2>3. held \in BOOLEAN /\ trial \in BOOLEAN /\ remediatedOnce \in BOOLEAN
    BY DEF Init
  <2>4. state \in HS!States /\ call \in HS!Calls /\ rung \in Rungs
    BY DEF Init, Rungs, HS!States, HS!Calls
  <2> QED
    BY <2>1, <2>2, <2>3, <2>4 DEF TypeOK
<1>2. TypeOK /\ [Next]_vars => TypeOK'
  <2> SUFFICES ASSUME TypeOK, [Next]_vars PROVE TypeOK'
    OBVIOUS
  <2> USE DEF TypeOK, counts, ladder, HS!States, HS!Calls
  <2>1. ASSUME NEW kind \in Kinds, RecordFailure(kind) PROVE TypeOK'
    BY <2>1 DEF RecordFailure, Add, Capped, Verdict, HS!OutOfService
  <2>2. CASE RecordSuccess
    BY <2>2 DEF RecordSuccess
  <2>3. CASE NextRung
    <3>1. PICK again \in BOOLEAN :
            /\ Spent(again) < MaxAttempts
            /\ rung' = Escalated(again)
            /\ rungAttempts' = Spent(again) + 1
            /\ state' = "remediating" /\ remediatedOnce' = TRUE
            /\ held' = (delay' > 0)
            /\ trial' = FALSE /\ call' = "nextRung" /\ UNCHANGED counts
      BY <2>3 DEF NextRung
    <3>2. Escalated(again) \in Rungs
      BY DEF Escalated, Rungs
    <3>3. Spent(again) \in 0..MaxAttempts
      BY DEF Spent
    <3>4. rungAttempts' \in 0..MaxAttempts
      BY <3>1, <3>3
    <3>5. held' \in BOOLEAN
      <4>1. CASE delay' > 0
        BY <3>1, <4>1
      <4>2. CASE ~(delay' > 0)
        BY <3>1, <4>2
      <4> QED
        BY <4>1, <4>2
    <3> QED
      BY <3>1, <3>2, <3>4, <3>5
  <2>4. CASE Remediated
    <3>1. window' \in [Kinds -> Nat]
      BY <2>4, EmptyWindowType DEF Remediated
    <3>2. consecutive' \in 0..MaxConsecutive
      BY <2>4 DEF Remediated
    <3>3. held' \in BOOLEAN /\ trial' \in BOOLEAN
      BY <2>4 DEF Remediated
    <3> QED
      BY <2>4, <3>1, <3>2, <3>3 DEF Remediated
  <2>5. CASE ClearProbation
    BY <2>5 DEF ClearProbation, HS!AfterClearProbation
  <2>6. CASE MarkReady
    BY <2>6 DEF MarkReady, HS!AfterMarkReady
  <2>7. CASE MarkStarting
    BY <2>7 DEF MarkStarting
  <2>8. CASE Quarantine
    BY <2>8 DEF Quarantine
  <2>9. CASE Release
    <3>1. window' \in [Kinds -> Nat]
      BY <2>9, EmptyWindowType DEF Release
    <3>2. consecutive' \in 0..MaxConsecutive /\ rungAttempts' \in 0..MaxAttempts
      BY <2>9 DEF Release
    <3>3. held' \in BOOLEAN /\ trial' \in BOOLEAN /\ remediatedOnce' \in BOOLEAN
      BY <2>9 DEF Release
    <3>4. state' \in HS!States /\ call' \in HS!Calls /\ rung' \in Rungs
      BY <2>9 DEF Release, Rungs
    <3> QED
      BY <3>1, <3>2, <3>3, <3>4
  <2>10. ASSUME NEW kind \in Kinds, AgeOut(kind) PROVE TypeOK'
    BY <2>10 DEF AgeOut
  <2>11. CASE BackoffElapsed
    BY <2>11 DEF BackoffElapsed
  <2>12. CASE UNCHANGED vars
    BY <2>12 DEF vars
  <2> QED
    BY <2>1, <2>2, <2>3, <2>4, <2>5, <2>6, <2>7, <2>8, <2>9, <2>10, <2>11, <2>12
    DEF Next
<1> QED
  BY <1>1, <1>2, PTL DEF Spec

(***************************************************************************)
(* Thresholds.                                                             *)
(***************************************************************************)

\* An instance in rotation while failing has crossed neither threshold, for
\* every policy, window and order of calls.
THEOREM DegradedStaysBelow == Spec => []DegradedIsBelowThresholds
<1> USE PolicyAssumption
<1>1. Init => DegradedIsBelowThresholds
  BY DEF Init, DegradedIsBelowThresholds
<1>2. TypeOK /\ DegradedIsBelowThresholds /\ [Next]_vars
        => DegradedIsBelowThresholds'
  <2> SUFFICES ASSUME TypeOK, DegradedIsBelowThresholds, [Next]_vars
               PROVE  DegradedIsBelowThresholds'
    OBVIOUS
  <2> USE DEF DegradedIsBelowThresholds, counts, ladder
  <2>1. ASSUME NEW kind \in Kinds, RecordFailure(kind)
        PROVE  DegradedIsBelowThresholds'
    <3> SUFFICES ASSUME state' = "degraded"
                 PROVE  /\ consecutive' < MaxConsecutive
                        /\ Score(window') < QuarantineScore
      OBVIOUS
    <3>1. /\ state' = Verdict(kind, window', consecutive')
          /\ window' = Add(window, kind)
          /\ consecutive' \in {consecutive, Capped(consecutive + 1, MaxConsecutive)}
      BY <2>1 DEF RecordFailure
    <3>2. window' \in [Kinds -> Nat] /\ consecutive' \in Nat
      BY <3>1 DEF TypeOK, Add, Capped
    <3>3. Score(window') \in Nat /\ QuarantineScore \in Nat
      BY <3>2, ScoreIsNat DEF QuarantineScore, BaselineWeight
    <3>4. ~(consecutive' >= MaxConsecutive \/ Score(window') >= QuarantineScore)
      BY <3>1 DEF Verdict, Crossed, HS!OutOfService
    <3> QED
      BY <3>2, <3>3, <3>4
  <2>2. CASE RecordSuccess
    BY <2>2 DEF RecordSuccess
  <2>3. CASE NextRung
    BY <2>3 DEF NextRung
  <2>4. CASE Remediated
    BY <2>4 DEF Remediated
  <2>5. CASE ClearProbation
    BY <2>5 DEF ClearProbation, HS!AfterClearProbation
  <2>6. CASE MarkReady
    BY <2>6 DEF MarkReady, HS!AfterMarkReady
  <2>7. CASE MarkStarting
    BY <2>7 DEF MarkStarting
  <2>8. CASE Quarantine
    BY <2>8 DEF Quarantine
  <2>9. CASE Release
    BY <2>9 DEF Release
  <2>10. ASSUME NEW kind \in Kinds, AgeOut(kind)
         PROVE  DegradedIsBelowThresholds'
    <3>1. window' \in [Kinds -> Nat] /\ window \in [Kinds -> Nat]
      BY <2>10 DEF TypeOK, AgeOut
    <3>2. Score(window') <= Score(window)
      BY <2>10, ScoreAgesDown DEF TypeOK, AgeOut
    <3>3. Score(window') \in Nat /\ Score(window) \in Nat /\ QuarantineScore \in Nat
      BY <3>1, ScoreIsNat DEF QuarantineScore, BaselineWeight
    <3> QED
      BY <2>10, <3>2, <3>3 DEF AgeOut
  <2>11. CASE BackoffElapsed
    BY <2>11 DEF BackoffElapsed
  <2>12. CASE UNCHANGED vars
    BY <2>12 DEF vars
  <2> QED
    BY <2>1, <2>2, <2>3, <2>4, <2>5, <2>6, <2>7, <2>8, <2>9, <2>10, <2>11, <2>12
    DEF Next
<1> QED
  BY <1>1, <1>2, TypeCorrect, PTL DEF Spec

\* One report is never enough: with nothing else in the window and no streak,
\* no kind of report quarantines an instance that is not on trial.
THEOREM OneReportIsNotEnough == Spec => SingleReportNeverQuarantines
<1> USE PolicyAssumption
<1>1. TypeOK /\ [Next]_vars =>
        ( (/\ call' = "recordFailure" /\ window' # window
           /\ state \notin {"probation", "quarantined"}
           /\ MaxInWindow > 1 /\ MaxConsecutive > 1
           /\ consecutive = 0 /\ window = EmptyWindow)
          => state' # "quarantined" )
  <2> SUFFICES ASSUME TypeOK, [Next]_vars, call' = "recordFailure",
                      window' # window, state \notin {"probation", "quarantined"},
                      MaxInWindow > 1, MaxConsecutive > 1,
                      consecutive = 0, window = EmptyWindow
               PROVE  state' # "quarantined"
    OBVIOUS
  <2>1. PICK kind \in Kinds : RecordFailure(kind)
    <3>1. \A kind \in Kinds : ~AgeOut(kind)
      BY DEF AgeOut, EmptyWindow
    <3> QED
      BY <3>1 DEF Next, vars, counts, RecordSuccess, NextRung, Remediated,
         ClearProbation, MarkReady, MarkStarting, Quarantine, Release,
         BackoffElapsed
  <2>2. /\ state' = Verdict(kind, window', consecutive')
        /\ window' = Add(EmptyWindow, kind)
        /\ consecutive' \in {0, 1}
    BY <2>1 DEF RecordFailure, Capped
  <2>3. Score(window') = Weight(kind)
    BY <2>2, ScoreOfOne
  <2>4. Score(window') < QuarantineScore /\ Score(window') \in Nat
    BY <2>3, WeightBounds
  <2>5. QuarantineScore \in Nat
    BY DEF QuarantineScore, BaselineWeight
  <2>6. ~(consecutive' >= MaxConsecutive \/ Score(window') >= QuarantineScore)
    BY <2>2, <2>4, <2>5
  <2> QED
    BY <2>2, <2>6 DEF Verdict, Crossed, HS!OutOfService, TypeOK
<1> QED
  BY <1>1, TypeCorrect, PTL DEF Spec, SingleReportNeverQuarantines

(***************************************************************************)
(* Probation.                                                              *)
(***************************************************************************)

\* Rate limits never spend a probation.
THEOREM ProbationOutlastsRateLimits == Spec => []RateLimitsKeepProbation
<1>1. Init => RateLimitsKeepProbation
  BY DEF Init, RateLimitsKeepProbation
<1>2. TypeOK /\ RateLimitsKeepProbation /\ [Next]_vars => RateLimitsKeepProbation'
  <2> SUFFICES ASSUME TypeOK, RateLimitsKeepProbation, [Next]_vars, trial'
               PROVE  state' = "probation"
    BY DEF RateLimitsKeepProbation
  <2> USE DEF RateLimitsKeepProbation, TypeOK
  <2>1. ASSUME NEW kind \in Kinds, RecordFailure(kind) PROVE state' = "probation"
    <3>1. trial' = (trial /\ ~BlamesExit(kind)) /\ state' = Verdict(kind, window', consecutive')
      BY <2>1 DEF RecordFailure
    <3>2. trial /\ ~BlamesExit(kind)
      BY <3>1, Zenon
    <3>3. state = "probation"
      BY <3>2, Zenon
    <3>4. kind = "rate_limited"
      BY <3>2 DEF BlamesExit
    <3> QED
      BY <3>1, <3>3, <3>4 DEF Verdict, HS!OutOfService, BlamesExit
  <2>2. CASE RecordSuccess
    BY <2>2 DEF RecordSuccess
  <2>3. CASE Remediated
    BY <2>3 DEF Remediated
  <2>4. CASE MarkReady
    BY <2>4 DEF MarkReady, HS!AfterMarkReady
  <2>5. CASE NextRung \/ ClearProbation \/ MarkStarting \/ Quarantine \/ Release
    BY <2>5 DEF NextRung, ClearProbation, MarkStarting, Quarantine, Release
  <2>6. ASSUME NEW kind \in Kinds, AgeOut(kind) PROVE state' = "probation"
    BY <2>6 DEF AgeOut
  <2>7. CASE BackoffElapsed \/ UNCHANGED vars
    BY <2>7 DEF BackoffElapsed, vars
  <2> QED
    BY <2>1, <2>2, <2>3, <2>4, <2>5, <2>6, <2>7 DEF Next
<1> QED
  BY <1>1, <1>2, TypeCorrect, PTL DEF Spec

(***************************************************************************)
(* The doubling wait.                                                      *)
(***************************************************************************)

\* One turn of the doubling loop.
Twice(d) == IF d >= MaxBackoff THEN d ELSE 2 * d

\* The runs of the loop for n turns.
Turns(n) ==
  {g \in [0..n -> Nat] : g[0] = Backoff /\ \A i \in 0..n - 1 : g[i + 1] = Twice(g[i])}

\* A turn leaves a number.
LEMMA TwiceIsNat == \A d \in Nat : Twice(d) \in Nat
  BY PolicyAssumption DEF Twice

\* The loop can be run for any number of turns: were there a smallest number for which
\* it cannot, one turn more than its predecessor would do.
LEMMA TurnsExist ==
  ASSUME NEW n \in Nat
  PROVE  Turns(n) # {}
<1> SUFFICES ASSUME Turns(n) = {} PROVE FALSE
  OBVIOUS
<1> DEFINE T == {m \in Nat : Turns(m) = {}}
<1>1. PICK m \in T : \A j \in T : m <= j
  BY SmallestExists
<1>2. m # 0
  <2>1. [i \in 0..0 |-> Backoff] \in Turns(0)
    BY PolicyAssumption DEF Turns
  <2> QED
    BY <2>1
<1>3. m - 1 \in Nat /\ m - 1 \notin T
  BY <1>1, <1>2
<1>4. PICK g : g \in Turns(m - 1)
  BY <1>3
<1> DEFINE h == [i \in 0..m |-> IF i < m THEN g[i] ELSE Twice(g[m - 1])]
<1>5. g[m - 1] \in Nat /\ \A i \in 0..m - 1 : g[i] \in Nat
  BY <1>3, <1>4 DEF Turns
<1>6. h \in [0..m -> Nat]
  BY <1>3, <1>5, TwiceIsNat
<1>7. h[0] = Backoff
  BY <1>3, <1>4 DEF Turns
<1>8. ASSUME NEW i \in 0..m - 1 PROVE h[i + 1] = Twice(h[i])
  <2>1. CASE i = m - 1
    BY <1>3, <2>1
  <2>2. CASE i # m - 1
    <3>1. i \in 0..(m - 1) - 1 /\ i + 1 < m /\ i + 1 \in 0..m
      BY <1>3, <2>2
    <3> QED
      BY <1>3, <1>4, <3>1 DEF Turns
  <2> QED
    BY <2>1, <2>2
<1> HIDE DEF h
<1>9. h \in Turns(m)
  BY <1>6, <1>7, <1>8 DEF Turns
<1> QED
  BY <1>1, <1>9

\* Two runs of the loop agree for as long as both last.
LEMMA TurnsAgree ==
  ASSUME NEW n \in Nat, NEW g \in Turns(n), NEW h \in Turns(n + 1)
  PROVE  \A i \in 0..n : g[i] = h[i]
<1> SUFFICES ASSUME NEW k \in 0..n, g[k] # h[k] PROVE FALSE
  OBVIOUS
<1> DEFINE T == {i \in 0..n : g[i] # h[i]}
<1>1. T \in SUBSET Nat /\ T # {}
  OBVIOUS
<1>2. PICK m \in T : \A j \in T : m <= j
  BY <1>1, SmallestExists
<1>3. m # 0
  BY DEF Turns
<1>4. m - 1 \in 0..n - 1 /\ m - 1 \in 0..(n + 1) - 1 /\ m - 1 \notin T /\ (m - 1) + 1 = m
  BY <1>2, <1>3
<1>5. g[m - 1] = h[m - 1]
  BY <1>4
<1>6. g[m] = Twice(g[m - 1]) /\ h[m] = Twice(h[m - 1])
  BY <1>4 DEF Turns
<1> QED
  BY <1>5, <1>6

\* The recursive function is what its equation says.
LEMMA DoubledUnfolds ==
  /\ Doubled[0] = Backoff
  /\ \A n \in Nat : Doubled[n] \in Nat /\ Doubled[n + 1] = Twice(Doubled[n])
<1> DEFINE G(n) == CHOOSE g : g \in Turns(n)
           f == [n \in Nat |-> G(n)[n]]
           D(d) == d = [n \in Nat |->
                          IF n = 0 THEN Backoff
                          ELSE IF d[n - 1] >= MaxBackoff THEN d[n - 1]
                          ELSE 2 * d[n - 1]]
<1>1. \A n \in Nat : G(n) \in Turns(n)
  BY TurnsExist
<1> HIDE DEF G
<1>2. f[0] = Backoff
  BY <1>1 DEF Turns
<1>3. ASSUME NEW n \in Nat PROVE f[n + 1] = Twice(f[n])
  <2>1. G(n) \in Turns(n) /\ G(n + 1) \in Turns(n + 1)
    BY <1>1
  <2>2. G(n + 1)[n + 1] = Twice(G(n + 1)[n])
    BY <2>1 DEF Turns
  <2>3. G(n + 1)[n] = G(n)[n]
    BY <2>1, TurnsAgree
  <2> QED
    BY <2>2, <2>3
<1>4. f = [n \in Nat |-> f[n]]
  OBVIOUS
<1> HIDE DEF f
<1>5. \A n \in Nat : f[n] = IF n = 0 THEN Backoff
                            ELSE IF f[n - 1] >= MaxBackoff THEN f[n - 1]
                            ELSE 2 * f[n - 1]
  <2> TAKE n \in Nat
  <2>1. CASE n = 0
    BY <1>2, <2>1
  <2>2. CASE n # 0
    <3>1. n - 1 \in Nat /\ (n - 1) + 1 = n
      BY <2>2
    <3> QED
      BY <1>3, <2>2, <3>1 DEF Twice
  <2> QED
    BY <2>1, <2>2
<1>6. D(f)
  BY <1>4, <1>5
<1>7. D(Doubled)
  <2>1. Doubled = CHOOSE d : D(d)
    BY DEF Doubled
  <2> HIDE DEF D
  <2> QED
    BY <1>6, <2>1
<1>8. /\ Doubled[0] = Backoff
      /\ \A n \in Nat : Doubled[n + 1] = Twice(Doubled[n])
  BY <1>7 DEF Twice
<1>9. \A n \in Nat : Doubled[n] \in Nat
  <2> SUFFICES ASSUME NEW n \in Nat, Doubled[n] \notin Nat PROVE FALSE
    OBVIOUS
  <2> DEFINE T == {m \in Nat : Doubled[m] \notin Nat}
  <2>1. PICK m \in T : \A j \in T : m <= j
    BY SmallestExists
  <2>2. m # 0
    BY <1>8, PolicyAssumption
  <2>3. m - 1 \in Nat /\ m - 1 \notin T /\ (m - 1) + 1 = m
    BY <2>1, <2>2
  <2>4. Doubled[m - 1] \in Nat /\ Doubled[m] = Twice(Doubled[m - 1])
    BY <1>8, <2>3
  <2> QED
    BY <2>4, TwiceIsNat
<1> QED
  BY <1>8, <1>9

\* One attempt more waits twice as long, up to the cap.
LEMMA DelayDoubles ==
  ASSUME NEW n \in Nat
  PROVE  BackoffDelay(n + 1) = Capped(2 * BackoffDelay(n), MaxBackoff)
<1>1. Doubled[n] \in Nat /\ Doubled[n + 1] = Twice(Doubled[n])
  BY DoubledUnfolds
<1> QED
  BY <1>1, PolicyAssumption DEF BackoffDelay, Capped, Twice

\* On the last rung the wait is that of the attempts before the last one.
WaitIsOfAttempts ==
  rung = "backoff" => rungAttempts # 0 /\ delay = BackoffDelay(rungAttempts - 1)

\* Waits double up to the cap, for every backoff and cap and any number of attempts.
THEOREM WaitsDoubleUpToCap == Spec => BackoffDoublesUpToCap
<1>1. Init => WaitIsOfAttempts
  BY DEF Init, WaitIsOfAttempts
<1>2. TypeOK /\ WaitIsOfAttempts /\ [Next]_vars => WaitIsOfAttempts'
  <2> SUFFICES ASSUME TypeOK, WaitIsOfAttempts, [Next]_vars PROVE WaitIsOfAttempts'
    OBVIOUS
  <2>1. CASE NextRung
    <3>1. PICK again \in BOOLEAN :
            /\ rung' = Escalated(again)
            /\ rungAttempts' = Spent(again) + 1
            /\ delay' = IF Escalated(again) = "backoff" THEN BackoffDelay(Spent(again)) ELSE 0
      BY <2>1 DEF NextRung
    <3>2. Spent(again) \in Nat
      BY PolicyAssumption DEF Spent, TypeOK
    <3>3. Spent(again) + 1 # 0 /\ (Spent(again) + 1) - 1 = Spent(again)
      BY <3>2
    <3> QED
      BY <3>1, <3>3 DEF WaitIsOfAttempts
  <2>2. CASE Release
    BY <2>2 DEF Release, WaitIsOfAttempts
  <2>3. CASE UNCHANGED ladder
    BY <2>3 DEF ladder, WaitIsOfAttempts
  <2>4. NextRung \/ Release \/ UNCHANGED ladder
    BY DEF Next, vars, RecordFailure, RecordSuccess, Remediated, ClearProbation,
       MarkReady, MarkStarting, Quarantine, AgeOut, BackoffElapsed
  <2> QED
    BY <2>1, <2>2, <2>3, <2>4
<1>3. TypeOK /\ WaitIsOfAttempts /\ [Next]_vars =>
        [ NextRung /\ rung' = "backoff" =>
            delay' = IF rung = "backoff" THEN Capped(2 * delay, MaxBackoff)
                                         ELSE Backoff ]_vars
  <2> SUFFICES ASSUME TypeOK, WaitIsOfAttempts, NextRung, rung' = "backoff"
               PROVE  delay' = IF rung = "backoff" THEN Capped(2 * delay, MaxBackoff)
                                                   ELSE Backoff
    OBVIOUS
  <2>1. PICK again \in BOOLEAN :
          Escalated(again) = "backoff" /\ delay' = BackoffDelay(Spent(again))
    BY DEF NextRung
  <2>2. again
    BY <2>1 DEF Escalated
  <2>3. CASE rung = "backoff"
    <3>1. Spent(again) = rungAttempts
      BY <2>1, <2>2, <2>3 DEF Spent
    <3>2. rungAttempts - 1 \in Nat /\ (rungAttempts - 1) + 1 = rungAttempts
      BY <2>3, PolicyAssumption DEF WaitIsOfAttempts, TypeOK
    <3>3. BackoffDelay(rungAttempts) = Capped(2 * BackoffDelay(rungAttempts - 1), MaxBackoff)
      BY <3>2, DelayDoubles
    <3> QED
      BY <2>1, <2>3, <3>1, <3>3 DEF WaitIsOfAttempts
  <2>4. CASE rung # "backoff"
    <3>1. Spent(again) = 0
      BY <2>1, <2>4 DEF Spent
    <3>2. BackoffDelay(0) = Backoff
      BY DoubledUnfolds, PolicyAssumption DEF BackoffDelay, Capped
    <3> QED
      BY <2>1, <2>4, <3>1, <3>2
  <2> QED
    BY <2>3, <2>4
<1> QED
  BY <1>1, <1>2, <1>3, TypeCorrect, PTL DEF Spec, BackoffDoublesUpToCap

(***************************************************************************)
(* Refinement.                                                             *)
(***************************************************************************)

\* Health implements HealthStates: every call does to the state what the abstract
\* machine says that call may do, and time alone does nothing to it.
THEOREM HealthImplementsHealthStates == Spec => ImplementsHealthStates
<1>1. Init => HS!Init
  BY DEF Init, HS!Init
<1>2. [Next]_vars => [HS!Next]_<<state, call>>
  <2> SUFFICES ASSUME [Next]_vars PROVE [HS!Next]_<<state, call>>
    OBVIOUS
  <2> USE DEF HS!Next, HS!Calls, HS!After
  <2>1. ASSUME NEW kind \in Kinds, RecordFailure(kind) PROVE HS!Next
    <3>1. call' = "recordFailure" /\ state' = Verdict(kind, window', consecutive')
      BY <2>1 DEF RecordFailure
    <3>2. CASE BlamesExit(kind)
      <4>1. state' \in HS!AfterFailure(state, TRUE)
        BY <3>1, <3>2 DEF Verdict, HS!AfterFailure, HS!OutOfService
      <4> QED
        BY <3>1, <4>1
    <3>3. CASE ~BlamesExit(kind)
      <4>1. state' \in HS!AfterFailure(state, FALSE)
        BY <3>1, <3>3 DEF Verdict, HS!AfterFailure, HS!OutOfService
      <4> QED
        BY <3>1, <4>1
    <3> QED
      BY <3>2, <3>3
  <2>2. CASE RecordSuccess
    BY <2>2 DEF RecordSuccess, HS!AfterSuccess
  <2>3. CASE NextRung
    BY <2>3 DEF NextRung
  <2>4. CASE Remediated
    BY <2>4 DEF Remediated
  <2>5. CASE ClearProbation
    BY <2>5 DEF ClearProbation
  <2>6. CASE MarkReady
    BY <2>6 DEF MarkReady
  <2>7. CASE MarkStarting
    BY <2>7 DEF MarkStarting
  <2>8. CASE Quarantine
    BY <2>8 DEF Quarantine
  <2>9. CASE Release
    BY <2>9 DEF Release
  <2>10. ASSUME NEW kind \in Kinds, AgeOut(kind) PROVE UNCHANGED <<state, call>>
    BY <2>10 DEF AgeOut
  <2>11. CASE BackoffElapsed \/ UNCHANGED vars
    BY <2>11 DEF BackoffElapsed, vars
  <2> QED
    BY <2>1, <2>2, <2>3, <2>4, <2>5, <2>6, <2>7, <2>8, <2>9, <2>10, <2>11 DEF Next
<1> QED
  BY <1>1, <1>2, PTL DEF Spec, ImplementsHealthStates, HS!Spec

(***************************************************************************)
(* The table of sessions.                                                  *)
(***************************************************************************)

\* Where every request is.
Asked ==
  /\ request \in [Request ->
       [pc : {"idle", "assign", "begin", "serve"}, key : Key \cup {None}]]
  /\ \A r \in Request : request[r].pc # "idle" => request[r].key \in Key

\* A key with requests in flight and no entry is one that strayed.
Missed == \A k \in Key : k \notin DOMAIN table /\ InFlight(k) # {} => k \in strayed

\* The table, and what it counts.  Together with Asked this is the inductive invariant:
\* counting is kept by a new entry only because a key without one has either nothing in
\* flight or strayed.
Tabled ==
  /\ DOMAIN table \subseteq Key
  /\ Cardinality(DOMAIN table) <= MaxSessions
  /\ \A k \in DOMAIN table : table[k] \in Entry
  /\ strayed \subseteq Key
  /\ CountsTraffic
  /\ Missed

\* The requests in flight of a key can be counted.
LEMMA InFlightIsFinite ==
  ASSUME NEW k
  PROVE  /\ IsFiniteSet(InFlight(k))
         /\ Cardinality(InFlight(k)) \in Nat
         /\ Cardinality(InFlight(k)) = 0 <=> InFlight(k) = {}
<1>1. IsFiniteSet(Request)
  BY SessionsAssumption
<1>2. IsFiniteSet(InFlight(k))
  BY <1>1, FS_Subset DEF InFlight
<1> QED
  BY <1>2, FS_CardinalityType, FS_EmptySet

\* A request that is not being served, before and after, moves nothing.
LEMMA NoneInFlightMoves ==
  ASSUME Asked, NEW r \in Request, NEW t, request' = [request EXCEPT ![r] = t],
         request[r].pc # "serve", t.pc # "serve", NEW k
  PROVE  InFlight(k)' = InFlight(k)
  BY DEF Asked, InFlight

\* Entries leave the table, and what they counted strays.
LEMMA LeavingKeeps ==
  ASSUME Tabled, request' = request,
         NEW dropped \in SUBSET DOMAIN table,
         table' = Without(dropped), Strays(dropped)
  PROVE  Tabled'
<1> DEFINE D == DOMAIN table \ dropped
<1>1. /\ DOMAIN table' = D
      /\ \A k \in D : table'[k] = table[k]
      /\ \A k : InFlight(k)' = InFlight(k)
      /\ strayed' = strayed \cup {k \in dropped : InFlight(k) # {}}
  BY DEF Without, Strays, InFlight
<1>2. D \subseteq Key
  BY DEF Tabled
<1>3. Cardinality(D) <= MaxSessions
  <2>1. IsFiniteSet(DOMAIN table)
    BY FS_Subset, SessionsAssumption DEF Tabled
  <2>2. Cardinality(D) <= Cardinality(DOMAIN table)
    BY <2>1, FS_Subset
  <2>3. Cardinality(D) \in Nat /\ Cardinality(DOMAIN table) \in Nat
    BY <2>1, FS_Subset, FS_CardinalityType
  <2> QED
    BY <2>2, <2>3, SessionsAssumption DEF Tabled
<1>4. CountsTraffic'
  BY <1>1 DEF Tabled, CountsTraffic
<1>5. Missed'
  BY <1>1 DEF Tabled, Missed
<1> HIDE DEF D
<1>6. \A k \in DOMAIN table' : table'[k] \in Entry'
  BY <1>1 DEF Tabled, Entry, D
<1> QED
  BY <1>1, <1>2, <1>3, <1>4, <1>5, <1>6 DEF Tabled

\* An entry is touched or pinned elsewhere, and counts what it counted.
LEMMA TouchingKeeps ==
  ASSUME Tabled, UNCHANGED strayed,
         \A k : InFlight(k)' = InFlight(k),
         DOMAIN table' = DOMAIN table,
         \A k \in DOMAIN table :
           table'[k] \in Entry /\ table'[k].active = table[k].active
  PROVE  Tabled'
<1>1. CountsTraffic'
  BY DEF Tabled, CountsTraffic
<1>2. Missed'
  BY DEF Tabled, Missed
<1>3. \A k \in DOMAIN table' : table'[k] \in Entry'
  BY DEF Entry
<1> QED
  BY <1>1, <1>2, <1>3 DEF Tabled

\* There is room when there has to be.
LEMMA RoomIsMade ==
  ASSUME Tabled, NEW dropped \in Evictable
  PROVE  /\ dropped \subseteq DOMAIN table
         /\ Cardinality(DOMAIN table \ dropped) + 1 <= MaxSessions
<1> DEFINE D == DOMAIN table
<1>1. IsFiniteSet(D)
  BY FS_Subset, SessionsAssumption DEF Tabled
<1>2. Cardinality(D) \in Nat /\ Cardinality(D) <= MaxSessions /\ MaxSessions \in Nat
  BY <1>1, FS_CardinalityType, SessionsAssumption DEF Tabled
<1>3. CASE Cardinality(D) < MaxSessions
  <2>1. dropped = {}
    BY <1>3 DEF Evictable
  <2> QED
    BY <2>1, <1>2, <1>3
<1>4. CASE ~(Cardinality(D) < MaxSessions)
  <2>1. dropped \subseteq D /\ dropped # {}
    BY <1>4 DEF Evictable, Expired, Oldest
  <2>2. PICK k \in dropped : TRUE
    BY <2>1
  <2>3. Cardinality(D \ {k}) = Cardinality(D) - 1 /\ IsFiniteSet(D \ {k})
    BY <2>1, <2>2, <1>1, FS_RemoveElement
  <2>4. Cardinality(D \ dropped) <= Cardinality(D \ {k}) /\ IsFiniteSet(D \ dropped)
    BY <2>2, <2>3, FS_Subset
  <2>5. Cardinality(D \ dropped) \in Nat
    BY <2>4, FS_CardinalityType
  <2> QED
    BY <2>1, <2>3, <2>4, <2>5, <1>2
<1> QED
  BY <1>3, <1>4

\* A key is pinned, on its entry or on a new one: a new one counts nothing, which is
\* right unless requests are in flight that began on an entry before it, and then the
\* key has strayed.
LEMMA PinningKeeps ==
  ASSUME Tabled, NEW k \in Key, NEW i \in Instance,
         Pinned(k, i), \A j : InFlight(j)' = InFlight(j)
  PROVE  Tabled'
<1>1. CASE k \in DOMAIN table
  <2>1. table' = [table EXCEPT ![k].instance = i, ![k].age = 0] /\ UNCHANGED strayed
    BY <1>1 DEF Pinned
  <2>2. DOMAIN table' = DOMAIN table
    BY <2>1
  <2>3. ASSUME NEW j \in DOMAIN table
        PROVE  table'[j] \in Entry /\ table'[j].active = table[j].active
    <3>1. table[j] \in Entry /\ 0 \in 0..TTL + 1
      BY SessionsAssumption DEF Tabled
    <3> QED
      BY <2>1, <3>1 DEF Entry
  <2> QED
    BY <2>1, <2>2, <2>3, TouchingKeeps
<1>2. CASE k \notin DOMAIN table
  <2> DEFINE Fresh == [instance |-> i, age |-> 0, active |-> 0]
  <2>1. PICK dropped \in Evictable :
          /\ table' = [j \in (DOMAIN table \ dropped) \cup {k} |->
               IF j = k THEN Fresh ELSE table[j]]
          /\ Strays(dropped)
    BY <1>2 DEF Pinned
  <2> DEFINE D == DOMAIN table \ dropped
  <2>2. dropped \subseteq DOMAIN table /\ Cardinality(D) + 1 <= MaxSessions
    BY RoomIsMade
  <2>3. Fresh \in Entry /\ Fresh.active = 0
    BY SessionsAssumption DEF Entry
  <2>4. /\ DOMAIN table' = D \cup {k}
        /\ table'[k] = Fresh
        /\ \A j \in D : table'[j] = table[j]
    BY <1>2, <2>1
  <2>5. strayed' = strayed \cup {j \in dropped : InFlight(j) # {}}
    BY <2>1 DEF Strays
  <2>6. Cardinality(D \cup {k}) <= MaxSessions
    <3>1. IsFiniteSet(D)
      BY FS_Subset, SessionsAssumption DEF Tabled
    <3> QED
      BY <1>2, <2>2, <3>1, FS_AddElement
  <2>7. CountsTraffic'
    <3>1. \A j \in D : table'[j].active = table[j].active
      BY <2>4
    <3>2. k \notin strayed' => InFlight(k) = {}
      BY <1>2, <2>5 DEF Tabled, Missed
    <3>3. table'[k].active = 0
      BY <2>3, <2>4
    <3>4. /\ table'[k].active <= Cardinality(InFlight(k))
          /\ k \notin strayed' => table'[k].active = Cardinality(InFlight(k))
      BY <3>2, <3>3, InFlightIsFinite
    <3>5. \A j \in D :
            /\ table'[j].active <= Cardinality(InFlight(j))
            /\ j \notin strayed' => table'[j].active = Cardinality(InFlight(j))
      BY <2>5, <3>1 DEF Tabled, CountsTraffic
    <3> QED
      BY <2>4, <3>4, <3>5 DEF CountsTraffic
  <2>8. Missed'
    BY <2>4, <2>5 DEF Tabled, Missed
  <2>9. \A j \in DOMAIN table' : table'[j] \in Entry'
    BY <2>3, <2>4 DEF Tabled, Entry
  <2> HIDE DEF D
  <2> QED
    BY <2>2, <2>4, <2>5, <2>6, <2>7, <2>8, <2>9 DEF Tabled, D
<1> QED
  BY <1>1, <1>2

\* A request begins on its entry, or strays.
LEMMA BeginKeeps ==
  ASSUME Asked, Tabled, NEW r \in Request, Begin(r)
  PROVE  Tabled'
<1> DEFINE k == request[r].key
           F == InFlight(k)
<1>1. /\ request[r].pc = "begin" /\ k \in Key
      /\ request' = [request EXCEPT ![r].pc = "serve"]
  BY DEF Begin, Asked
<1>2. /\ \A j : j # k => InFlight(j)' = InFlight(j)
      /\ \A j : j = k => InFlight(j)' = F \cup {r}
      /\ r \notin F
  <2>1. /\ request'[r] = [pc |-> "serve", key |-> k]
        /\ \A s \in Request \ {r} : request'[s] = request[s]
        /\ \A j : request[r] # [pc |-> "serve", key |-> j]
    BY <1>1 DEF Asked
  <2> HIDE DEF k
  <2> QED
    BY <2>1 DEF InFlight
<1>3. Cardinality(F \cup {r}) = Cardinality(F) + 1 /\ Cardinality(F) \in Nat
  BY <1>2, InFlightIsFinite, FS_AddElement
<1>4. CASE k \in DOMAIN table
  <2>1. /\ table' = [table EXCEPT ![k].age = 0, ![k].active = @ + 1]
        /\ UNCHANGED strayed
    BY <1>4 DEF Begin
  <2>2. /\ DOMAIN table' = DOMAIN table
        /\ \A j \in DOMAIN table : j # k => table'[j] = table[j]
    BY <2>1
  <2>3. table'[k] \in Entry /\ table'[k].active = table[k].active + 1
    <3>1. table[k] \in Entry /\ 0 \in 0..TTL + 1
      BY <1>4, SessionsAssumption DEF Tabled
    <3>2. table'[k] = [[table[k] EXCEPT !.age = 0] EXCEPT !.active = table[k].active + 1]
      BY <1>4, <2>1
    <3> DEFINE e == table[k]
    <3>3. e \in Entry /\ e.active + 1 \in Nat
      BY <3>1 DEF Entry
    <3>4. table'[k] = [[e EXCEPT !.age = 0] EXCEPT !.active = e.active + 1]
      BY <3>2
    <3> HIDE DEF e
    <3>5. table'[k] \in Entry /\ table'[k].active = e.active + 1
      BY <3>1, <3>3, <3>4 DEF Entry
    <3> QED
      BY <3>5 DEF e
  <2> HIDE DEF k, F
  <2>4. CountsTraffic'
    <3>1. table[k].active \in Nat
      BY <1>4 DEF Tabled, Entry
    <3>2. /\ table[k].active <= Cardinality(F)
          /\ k \notin strayed => table[k].active = Cardinality(F)
      BY <1>4 DEF Tabled, CountsTraffic, F
    <3>3. /\ table'[k].active <= Cardinality(F \cup {r})
          /\ k \notin strayed' => table'[k].active = Cardinality(F \cup {r})
      BY <1>3, <2>1, <2>3, <3>1, <3>2
    <3>4. \A j \in DOMAIN table : j # k =>
            /\ table'[j].active <= Cardinality(InFlight(j)')
            /\ j \notin strayed' => table'[j].active = Cardinality(InFlight(j)')
      BY <1>2, <2>1, <2>2 DEF Tabled, CountsTraffic
    <3> QED
      BY <1>2, <2>2, <3>3, <3>4 DEF CountsTraffic
  <2>5. Missed'
    BY <1>2, <1>4, <2>1, <2>2 DEF Tabled, Missed
  <2>6. \A j \in DOMAIN table' : table'[j] \in Entry'
    BY <2>2, <2>3 DEF Tabled, Entry
  <2> QED
    BY <2>1, <2>2, <2>4, <2>5, <2>6 DEF Tabled
<1>5. CASE k \notin DOMAIN table
  <2>1. strayed' = strayed \cup {k} /\ UNCHANGED table
    BY <1>5 DEF Begin
  <2> HIDE DEF k, F
  <2>2. CountsTraffic'
    <3>1. \A j \in DOMAIN table : j # k
      BY <1>5
    <3>2. \A j \in DOMAIN table : InFlight(j)' = InFlight(j)
      BY <1>2, <3>1
    <3> QED
      BY <2>1, <3>2 DEF Tabled, CountsTraffic
  <2>3. Missed'
    BY <1>2, <2>1 DEF Tabled, Missed
  <2>4. \A j \in DOMAIN table' : table'[j] \in Entry'
    BY <2>1 DEF Tabled, Entry
  <2> QED
    BY <1>1, <2>1, <2>2, <2>3, <2>4 DEF Tabled
<1> QED
  BY <1>4, <1>5

\* A request ends on whatever entry its key has: one less in flight, one less
\* counted, and none too few once nobody is left.
LEMMA FinishKeeps ==
  ASSUME Asked, Tabled, NEW r \in Request, Finish(r)
  PROVE  Tabled'
<1> DEFINE k == request[r].key
           F == InFlight(k)
<1>1. /\ request[r].pc = "serve" /\ k \in Key
      /\ request' = [request EXCEPT ![r] = Idle]
      /\ strayed' = IF F = {r} THEN strayed \ {k} ELSE strayed
  BY DEF Finish, Asked
<1>2. /\ \A j : j # k => InFlight(j)' = InFlight(j)
      /\ \A j : j = k => InFlight(j)' = F \ {r}
      /\ r \in F
  <2>1. /\ \A j : request'[r] # [pc |-> "serve", key |-> j]
        /\ \A s \in Request \ {r} : request'[s] = request[s]
    BY <1>1 DEF Asked, Idle
  <2>2. \A j : request[r] = [pc |-> "serve", key |-> j] <=> j = k
    <3>1. request[r] = [pc |-> request[r].pc, key |-> request[r].key]
      BY DEF Asked
    <3> QED
      BY <1>1, <3>1
  <2> HIDE DEF k
  <2> QED
    BY <2>1, <2>2 DEF InFlight
<1>3. /\ Cardinality(F) \in Nat
      /\ Cardinality(F \ {r}) = Cardinality(F) - 1
      /\ Cardinality(F \ {r}) \in Nat
      /\ Cardinality(F \ {r}) = 0 <=> F = {r}
  <2>1. IsFiniteSet(F) /\ Cardinality(F) \in Nat
    BY InFlightIsFinite
  <2>2. IsFiniteSet(F \ {r}) /\ Cardinality(F \ {r}) = Cardinality(F) - 1
    BY <1>2, <2>1, FS_RemoveElement
  <2>3. Cardinality(F \ {r}) = 0 <=> F \ {r} = {}
    BY <2>2, FS_EmptySet
  <2>4. Cardinality(F \ {r}) \in Nat
    BY <2>2, FS_CardinalityType
  <2> QED
    BY <1>2, <2>1, <2>2, <2>3, <2>4
<1>4. /\ DOMAIN table' = DOMAIN table
      /\ \A j \in DOMAIN table : j # k => table'[j] = table[j]
  BY DEF Finish
<1>5. ASSUME k \in DOMAIN table
      PROVE  /\ table'[k] \in Entry
             /\ table'[k].active = OneLess(table[k].active)
             /\ table[k].active \in Nat
  <2>1. table[k] \in Entry
    BY <1>5 DEF Tabled
  <2>2. table[k].active \in Nat /\ OneLess(table[k].active) \in Nat
    BY <2>1 DEF Entry, OneLess
  <2>3. table' = [table EXCEPT ![k].active = OneLess(@)]
    BY <1>5 DEF Finish
  <2> QED
    BY <1>5, <2>1, <2>2, <2>3 DEF Entry
<1> HIDE DEF k, F
<1>6. CountsTraffic'
  <2>1. ASSUME k \in DOMAIN table
        PROVE  /\ table'[k].active <= Cardinality(F \ {r})
               /\ k \notin strayed' => table'[k].active = Cardinality(F \ {r})
    <3>1. /\ table[k].active <= Cardinality(F)
          /\ k \notin strayed => table[k].active = Cardinality(F)
      BY <2>1 DEF Tabled, CountsTraffic, F
    <3> QED
      BY <1>1, <1>3, <1>5, <2>1, <3>1 DEF OneLess
  <2>2. \A j \in DOMAIN table : j # k =>
          /\ table'[j].active <= Cardinality(InFlight(j)')
          /\ j \notin strayed' => table'[j].active = Cardinality(InFlight(j)')
    BY <1>1, <1>2, <1>4 DEF Tabled, CountsTraffic
  <2> QED
    BY <1>2, <1>4, <2>1, <2>2 DEF CountsTraffic
<1>7. Missed'
  BY <1>1, <1>2, <1>4 DEF Tabled, Missed, F
<1>8. \A j \in DOMAIN table' : table'[j] \in Entry'
  BY <1>4, <1>5 DEF Tabled, Entry
<1> QED
  BY <1>1, <1>4, <1>6, <1>7, <1>8 DEF Tabled

\* A session port's request ends where it never began: what the entry loses strays.
LEMMA FinishUnbegunKeeps ==
  ASSUME Tabled, NEW k \in Key, FinishUnbegun(k)
  PROVE  Tabled'
<1>1. /\ k \in DOMAIN table
      /\ table' = [table EXCEPT ![k].active = OneLess(@)]
      /\ strayed' = IF table[k].active > 0 THEN strayed \cup {k} ELSE strayed
      /\ \A j : InFlight(j)' = InFlight(j)
  BY DEF FinishUnbegun, InFlight
<1>2. /\ DOMAIN table' = DOMAIN table
      /\ \A j \in DOMAIN table : j # k => table'[j] = table[j]
  BY <1>1
<1>3. /\ table'[k] \in Entry
      /\ table'[k].active = OneLess(table[k].active)
      /\ table[k].active \in Nat
  <2>1. table[k] \in Entry
    BY <1>1 DEF Tabled
  <2>2. table[k].active \in Nat /\ OneLess(table[k].active) \in Nat
    BY <2>1 DEF Entry, OneLess
  <2> QED
    BY <1>1, <2>1, <2>2 DEF Entry
<1>4. CountsTraffic'
  <2>1. Cardinality(InFlight(k)) \in Nat
    BY InFlightIsFinite
  <2>2. /\ table[k].active <= Cardinality(InFlight(k))
        /\ k \notin strayed => table[k].active = Cardinality(InFlight(k))
    BY <1>1 DEF Tabled, CountsTraffic
  <2>3. /\ table'[k].active <= Cardinality(InFlight(k))
        /\ k \notin strayed' => table'[k].active = Cardinality(InFlight(k))
    BY <1>1, <1>3, <2>1, <2>2 DEF OneLess
  <2>4. \A j \in DOMAIN table : j # k =>
          /\ table'[j].active <= Cardinality(InFlight(j))
          /\ j \notin strayed' => table'[j].active = Cardinality(InFlight(j))
    BY <1>1, <1>2 DEF Tabled, CountsTraffic
  <2> QED
    BY <1>1, <1>2, <2>3, <2>4 DEF CountsTraffic
<1>5. Missed'
  BY <1>1, <1>2 DEF Tabled, Missed
<1>6. \A j \in DOMAIN table' : table'[j] \in Entry'
  BY <1>2, <1>3 DEF Tabled, Entry
<1>7. strayed' \subseteq Key
  BY <1>1 DEF Tabled
<1> QED
  BY <1>2, <1>4, <1>5, <1>6, <1>7 DEF Tabled

\* What the sweep takes had nothing in flight.
LEMMA SweepKeeps ==
  ASSUME Tabled, Sweep
  PROVE  Tabled'
<1>1. /\ table' = Without(Swept) /\ request' = request /\ strayed' = strayed
      /\ Swept \in SUBSET DOMAIN table
  BY DEF Sweep, Swept, Expired
<1>2. \A k \in Swept : InFlight(k) # {} => k \in strayed
  BY InFlightIsFinite DEF Swept, Expired, Tabled, CountsTraffic
<1>3. Strays(Swept)
  BY <1>1, <1>2 DEF Strays
<1> QED
  BY <1>1, <1>3, LeavingKeeps

\* Entries grow older and count what they counted.
LEMMA TickKeeps ==
  ASSUME Tabled, Tick
  PROVE  Tabled'
<1>1. /\ DOMAIN table' = DOMAIN table
      /\ UNCHANGED strayed
      /\ \A k : InFlight(k)' = InFlight(k)
  BY DEF Tick, InFlight
<1>2. ASSUME NEW k \in DOMAIN table
      PROVE  table'[k] \in Entry /\ table'[k].active = table[k].active
  <2>1. table[k] \in Entry /\ table[k].age \in 0..TTL + 1 /\ TTL \in Nat
    BY SessionsAssumption DEF Tabled, Entry
  <2>2. (IF table[k].age > TTL THEN table[k].age ELSE table[k].age + 1) \in 0..TTL + 1
    BY <2>1
  <2>3. table'[k] = [table[k] EXCEPT !.age = IF @ > TTL THEN @ ELSE @ + 1]
    BY DEF Tick
  <2> QED
    BY <2>1, <2>2, <2>3 DEF Entry
<1> QED
  BY <1>1, <1>2, TouchingKeeps

\* A failure touches the entry.
LEMMA RecordFailureKeeps ==
  ASSUME Tabled, NEW k \in Key, RecordSessionFailure(k)
  PROVE  Tabled'
<1>1. /\ k \in DOMAIN table
      /\ table' = [table EXCEPT ![k].age = 0]
      /\ UNCHANGED strayed
      /\ \A j : InFlight(j)' = InFlight(j)
  BY DEF RecordSessionFailure, InFlight
<1>2. ASSUME NEW j \in DOMAIN table
      PROVE  table'[j] \in Entry /\ table'[j].active = table[j].active
  <2>1. table[j] \in Entry /\ 0 \in 0..TTL + 1
    BY SessionsAssumption DEF Tabled
  <2> QED
    BY <1>1, <2>1 DEF Entry
<1> QED
  BY <1>1, <1>2, TouchingKeeps

\* Initially the table is empty and nobody asks.
LEMMA TableInitially ==
  ASSUME SessionsInit
  PROVE  Asked /\ Tabled
<1>1. DOMAIN table = {} /\ strayed = {}
  BY DEF SessionsInit
<1>2. Asked
  BY DEF SessionsInit, Idle, Asked
<1>3. Missed
  <2>1. \A k : InFlight(k) = {}
    BY DEF SessionsInit, Idle, InFlight
  <2> QED
    BY <2>1 DEF Missed
<1>4. Cardinality(DOMAIN table) <= MaxSessions
  BY <1>1, FS_EmptySet, SessionsAssumption
<1> QED
  BY <1>1, <1>2, <1>3, <1>4 DEF Tabled, CountsTraffic

\* Every step keeps the table right.
LEMMA TableInductive ==
  ASSUME Asked, Tabled, [SessionsNext]_sessionsVars
  PROVE  Asked' /\ Tabled'
<1>1. ASSUME NEW r \in Request, Refuse(r)
      PROVE  Asked' /\ Tabled'
  <2>1. Asked'
    BY <1>1 DEF Refuse, Idle, Asked
  <2>2. \A k : InFlight(k)' = InFlight(k)
    <3>1. /\ request[r].pc # "serve" /\ Idle.pc # "serve"
          /\ request' = [request EXCEPT ![r] = Idle]
      BY <1>1 DEF Refuse, Idle
    <3> QED
      BY <3>1, NoneInFlightMoves
  <2>3. UNCHANGED <<table, strayed>>
    BY <1>1 DEF Refuse
  <2> QED
    BY <2>1, <2>2, <2>3, TouchingKeeps DEF Tabled
<1>2. ASSUME NEW r \in Request, Begin(r)
      PROVE  Asked' /\ Tabled'
  <2>1. Asked'
    BY <1>2 DEF Begin, Asked
  <2> QED
    BY <1>2, <2>1, BeginKeeps
<1>3. ASSUME NEW r \in Request, Finish(r)
      PROVE  Asked' /\ Tabled'
  <2>1. Asked'
    BY <1>3 DEF Finish, Idle, Asked
  <2> QED
    BY <1>3, <2>1, FinishKeeps
<1>4. ASSUME NEW r \in Request, NEW i \in Instance, Assign(r, i)
      PROVE  Asked' /\ Tabled'
  <2>1. /\ request[r].pc = "assign"
        /\ Pinned(request[r].key, i)
        /\ request' = [request EXCEPT ![r].pc = "begin"]
    BY <1>4 DEF Assign
  <2>2. Asked' /\ request[r].key \in Key
    BY <2>1 DEF Asked
  <2>3. \A k : InFlight(k)' = InFlight(k)
    <3>1. request' = [request EXCEPT ![r] = [request[r] EXCEPT !.pc = "begin"]]
      BY <2>1 DEF Asked
    <3>2. [request[r] EXCEPT !.pc = "begin"].pc = "begin"
      BY DEF Asked
    <3> QED
      BY <2>1, <3>1, <3>2, NoneInFlightMoves
  <2> QED
    BY <2>1, <2>2, <2>3, PinningKeeps
<1>5. ASSUME NEW r \in Request, NEW k \in Key, Lookup(r, k)
      PROVE  Asked' /\ Tabled'
  <2>1. PICK pc \in {"begin", "assign"} :
          request' = [request EXCEPT ![r] = [pc |-> pc, key |-> k]]
    BY <1>5 DEF Lookup
  <2>2. request[r].pc # "serve" /\ UNCHANGED <<table, strayed>>
    BY <1>5 DEF Lookup, Idle
  <2>3. Asked'
    BY <2>1 DEF Asked
  <2>4. \A j : InFlight(j)' = InFlight(j)
    <3>1. [pc |-> pc, key |-> k].pc # "serve"
      OBVIOUS
    <3> QED
      BY <2>1, <2>2, <3>1, NoneInFlightMoves
  <2> QED
    BY <2>2, <2>3, <2>4, TouchingKeeps DEF Tabled
<1>6. ASSUME UNCHANGED request
      PROVE  Asked' /\ \A j : InFlight(j)' = InFlight(j)
  BY <1>6 DEF Asked, InFlight
<1>7. ASSUME NEW k \in Key, NEW i \in Instance, Repin(k, i)
      PROVE  Asked' /\ Tabled'
  BY <1>6, <1>7, PinningKeeps DEF Repin
<1>8. ASSUME NEW k \in Key, RecordSessionFailure(k)
      PROVE  Asked' /\ Tabled'
  BY <1>6, <1>8, RecordFailureKeeps DEF RecordSessionFailure
<1>9. ASSUME NEW k \in Key, Drop(k)
      PROVE  Asked' /\ Tabled'
  <2>1. /\ {k} \in SUBSET DOMAIN table /\ UNCHANGED request
        /\ table' = Without({k}) /\ Strays({k})
    BY <1>9 DEF Drop
  <2> QED
    BY <1>6, <2>1, LeavingKeeps
<1>10. ASSUME NEW k \in Key, FinishUnbegun(k)
       PROVE  Asked' /\ Tabled'
  BY <1>6, <1>10, FinishUnbegunKeeps DEF FinishUnbegun
<1>11. ASSUME NEW i \in Instance, UnpinInstance(i)
       PROVE  Asked' /\ Tabled'
  <2>1. PICK dropped \in SUBSET DOMAIN table :
          table' = Without(dropped) /\ Strays(dropped) /\ UNCHANGED request
    BY <1>11 DEF UnpinInstance
  <2> QED
    BY <1>6, <2>1, LeavingKeeps
<1>12. ASSUME Sweep
       PROVE  Asked' /\ Tabled'
  BY <1>6, <1>12, SweepKeeps DEF Sweep
<1>13. ASSUME Tick
       PROVE  Asked' /\ Tabled'
  BY <1>6, <1>13, TickKeeps DEF Tick
<1>14. CASE UNCHANGED sessionsVars
  <2>1. UNCHANGED <<table, request, strayed>>
    BY <1>14 DEF sessionsVars
  <2> QED
    BY <1>6, <2>1, TouchingKeeps DEF Tabled
<1> QED
  BY <1>1, <1>2, <1>3, <1>4, <1>5, <1>7, <1>8, <1>9, <1>10, <1>11, <1>12, <1>13, <1>14
  DEF SessionsNext, Step

\* MAX_SESSIONS bounds the table, for any number of keys, requests and session ports,
\* whatever is pinned, rotated, dropped, swept and evicted meanwhile; and types.
THEOREM TableIsBounded == SessionsSpec => []SessionsTypeOK
<1>1. SessionsInit => Asked /\ Tabled
  BY TableInitially
<1>2. Asked /\ Tabled /\ [SessionsNext]_sessionsVars => Asked' /\ Tabled'
  BY TableInductive
<1>3. Asked /\ Tabled => SessionsTypeOK
  BY DEF Asked, Tabled, SessionsTypeOK
<1> QED
  BY <1>1, <1>2, <1>3, PTL DEF SessionsSpec

\* A session never claims more requests than are in flight on its key, and exactly those
\* as long as none of them has lost its entry, for any number of keys and requests.
THEOREM SessionsCountTraffic == SessionsSpec => []CountsTraffic
<1>1. SessionsInit => Asked /\ Tabled
  BY TableInitially
<1>2. Asked /\ Tabled /\ [SessionsNext]_sessionsVars => Asked' /\ Tabled'
  BY TableInductive
<1>3. Asked /\ Tabled => CountsTraffic
  BY DEF Tabled
<1> QED
  BY <1>1, <1>2, <1>3, PTL DEF SessionsSpec

(***************************************************************************)
(* The routing of requests.                                                *)
(***************************************************************************)

\* The tasks there are.
TaskSet ==
  [pc : {"idle", "judge", "shun", "drop", "choose", "weigh", "pick", "pin", "begin",
         "quiesce", "list", "divert", "newnym"},
   key : Key \cup {None},
   avoid : Instance \cup {None},
   found : Instance \cup {None},
   scan : SUBSET Instance,
   choice : SUBSET Instance,
   steady : SUBSET Instance,
   vacated : Instance \cup {None},
   todo : SUBSET Key]

\* What a goroutine has to have where it is.
Fits(t) ==
  /\ t.pc \in {"judge", "shun", "drop", "choose", "weigh", "pick", "pin", "begin"}
       => t.key \in Key
  /\ t.pc \in {"judge", "shun", "drop", "pin", "begin"} => t.found \in Instance
  /\ t.pc \in {"quiesce", "list", "divert", "newnym"} => t.vacated \in Instance
  /\ t.pc = "pick" => t.choice # {}
  /\ t.pc = "idle" => t.steady = {}

\* Types of what goroutines share.
FleetTyped ==
  /\ up \subseteq Instance
  /\ benched \subseteq Instance
  /\ unpinning \subseteq Instance
  /\ rotating \in [Instance -> Nat]
  /\ pinned \in [Key -> Instance \cup {None}]
  /\ promised \in [Key -> Instance \cup {None}]

\* Types of what they do.
TasksTyped ==
  /\ task \in [Worker -> TaskSet]
  /\ \A w \in Worker : Fits(task[w])

\* What has been in service since a goroutine began to go through the instances is, and
\* is a candidate unless it has yet to be looked at.
Thorough(t) ==
  t.pc \in {"choose", "weigh"} =>
    t.steady \subseteq InService /\ t.steady \subseteq t.scan \cup t.choice

\* Nobody overlooks an instance.
NoneOverlooked == \A w \in Worker : Thorough(task[w])

\* What a promise takes: besides the pin itself, an instance that is up and does not
\* rotate, nobody who moves the key, and nobody who has found anything else.
Settled(k) ==
  /\ pinned[k] = promised[k]
  /\ promised[k] \in up
  /\ rotating[promised[k]] = 0
  /\ \A m \in Mover : task[m].key # k /\ k \notin task[m].todo
  /\ \A c \in Client : task[c].key = k =>
       task[c].pc \in {"judge", "shun", "begin"} /\ task[c].found = promised[k]

\* Whoever is promised an instance is settled on it.
PromisesHold == \A k \in Key : promised[k] # None => Settled(k)

\* The inductive invariant.
Routed == FleetTyped /\ TasksTyped /\ NoneOverlooked /\ PromisesHold

\* One goroutine goes on, and every promise that is left was made before.
LEMMA GoingOnKeeps ==
  ASSUME Routed, FleetTyped', UNCHANGED <<up, benched>>,
         NEW w \in Worker, NEW t \in TaskSet, Fits(t), Thorough(t),
         task' = [task EXCEPT ![w] = t],
         \A k \in Key : promised'[k] # None =>
           /\ promised'[k] = promised[k]
           /\ pinned'[k] = pinned[k]
           /\ rotating'[promised[k]] = 0
         ,
         w \in Client /\ t.key # None /\ promised'[t.key] # None =>
           t.pc \in {"judge", "shun", "begin"} /\ t.found = promised'[t.key]
         ,
         w \in Mover =>
           \A k \in Key : promised'[k] # None => t.key # k /\ k \notin t.todo
  PROVE  Routed'
<1>1. /\ task'[w] = t
      /\ \A v \in Worker : v # w => task'[v] = task[v]
  BY DEF Routed, TasksTyped
<1>2. TasksTyped'
  BY DEF Routed, TasksTyped, TaskSet, Worker, Fits
<1>3. NoneOverlooked'
  BY <1>1 DEF Routed, NoneOverlooked, Thorough, InService, Worker
<1>4. PromisesHold'
  <2> SUFFICES ASSUME NEW k \in Key, promised'[k] # None PROVE Settled(k)'
    BY DEF PromisesHold
  <2>1. Settled(k) /\ promised'[k] = promised[k]
    BY DEF Routed, PromisesHold
  <2>2. ASSUME NEW m \in Mover PROVE task'[m].key # k /\ k \notin task'[m].todo
    BY <1>1, <2>1 DEF Settled, Worker
  <2>3. ASSUME NEW c \in Client, task'[c].key = k
        PROVE  task'[c].pc \in {"judge", "shun", "begin"} /\ task'[c].found = promised'[k]
    <3>0. k # None
      BY RoutingAssumption
    <3>1. CASE c = w
      BY <1>1, <2>3, <3>0, <3>1
    <3>2. CASE c # w
      BY <1>1, <2>1, <2>3, <3>2 DEF Settled, Worker
    <3> QED
      BY <3>1, <3>2
  <2> QED
    BY <2>1, <2>2, <2>3 DEF Settled
<1> QED
  BY <1>2, <1>3, <1>4 DEF Routed

\* Something happens to the fleet or the table.
LEMMA StandingByKeeps ==
  ASSUME Routed, FleetTyped', TasksTyped', NoneOverlooked',
         \A w \in Worker :
           /\ task'[w].pc = task[w].pc
           /\ task'[w].key = task[w].key
           /\ task'[w].found = task[w].found
           /\ task'[w].todo = task[w].todo
         ,
         \A k \in Key : promised'[k] # None =>
           /\ promised'[k] = promised[k]
           /\ pinned'[k] = pinned[k]
           /\ promised[k] \in up'
           /\ rotating'[promised[k]] = 0
  PROVE  Routed'
<1>1. ASSUME NEW k \in Key, promised'[k] # None PROVE Settled(k)'
  <2>1. Settled(k) /\ promised'[k] = promised[k]
    BY <1>1 DEF Routed, PromisesHold
  <2>2. \A m \in Mover : task'[m].key # k /\ k \notin task'[m].todo
    BY <2>1 DEF Settled, Worker
  <2>3. \A c \in Client : task'[c].key = k =>
          task'[c].pc \in {"judge", "shun", "begin"} /\ task'[c].found = promised'[k]
    BY <2>1 DEF Settled, Worker
  <2> QED
    BY <1>1, <2>1, <2>2, <2>3 DEF Settled
<1> QED
  BY <1>1 DEF Routed, PromisesHold

\* The tasks stay as they are, and no instance goes out of service.
LEMMA TasksStay ==
  ASSUME Routed, UNCHANGED task, up \subseteq up', benched' \subseteq benched
  PROVE  /\ TasksTyped' /\ NoneOverlooked'
         /\ \A w \in Worker :
              /\ task'[w].pc = task[w].pc
              /\ task'[w].key = task[w].key
              /\ task'[w].found = task[w].found
              /\ task'[w].todo = task[w].todo
<1>1. TasksTyped'
  BY DEF Routed, TasksTyped, TaskSet, Worker, Fits
<1>2. NoneOverlooked'
  BY DEF Routed, NoneOverlooked, Thorough, InService, Worker
<1> QED
  BY <1>1, <1>2

\* One does, and is no longer steady for anyone.
LEMMA TasksUnsteadied ==
  ASSUME Routed, NEW i, task' = Unsteadied(i), InService \ {i} \subseteq InService'
  PROVE  /\ TasksTyped' /\ NoneOverlooked'
         /\ \A w \in Worker :
              /\ task'[w].pc = task[w].pc
              /\ task'[w].key = task[w].key
              /\ task'[w].found = task[w].found
              /\ task'[w].todo = task[w].todo
<1>1. ASSUME NEW w \in Worker
      PROVE  /\ task'[w] \in TaskSet
             /\ task'[w].pc = task[w].pc
             /\ task'[w].key = task[w].key
             /\ task'[w].found = task[w].found
             /\ task'[w].scan = task[w].scan
             /\ task'[w].choice = task[w].choice
             /\ task'[w].steady = task[w].steady \ {i}
             /\ task'[w].vacated = task[w].vacated
             /\ task'[w].todo = task[w].todo
  BY DEF Unsteadied, Routed, TasksTyped, TaskSet
<1>2. TasksTyped'
  <2>1. task' \in [Worker -> TaskSet]
    <3>1. task' = [w \in Worker |-> task'[w]]
      BY DEF Unsteadied
    <3> QED
      BY <1>1, <3>1
  <2>2. \A w \in Worker : Fits(task'[w])
    BY <1>1 DEF Routed, TasksTyped, Fits
  <2> QED
    BY <2>1, <2>2 DEF TasksTyped, TaskSet, Fits, Worker
<1>3. NoneOverlooked'
  <2> SUFFICES ASSUME NEW w \in Worker, task'[w].pc \in {"choose", "weigh"}
               PROVE  /\ task'[w].steady \subseteq InService'
                      /\ task'[w].steady \subseteq task'[w].scan \cup task'[w].choice
    BY DEF NoneOverlooked, Thorough, Worker, InService
  <2>1. Thorough(task[w])
    BY DEF Routed, NoneOverlooked
  <2> QED
    BY <1>1, <2>1 DEF Thorough
<1> QED
  BY <1>1, <1>2, <1>3

\* What is excused: the promises left are the ones nothing entitles anyone to break.
LEMMA ExcuseLeaves ==
  ASSUME FleetTyped, NEW troubled, NEW keys, Excuse(troubled, keys)
  PROVE  /\ promised' \in [Key -> Instance \cup {None}]
         /\ \A k \in Key : promised'[k] # None =>
              /\ promised'[k] = promised[k]
              /\ promised[k] \notin troubled
              /\ k \notin keys
  BY DEF FleetTyped, Excuse

\* A promise and what it takes, in the terms of GoingOnKeeps.
LEMMA PromiseTakes ==
  ASSUME Routed, NEW k \in Key, promised[k] # None
  PROVE  /\ promised[k] \in up /\ promised[k] \in Instance
         /\ rotating[promised[k]] = 0
         /\ pinned[k] = promised[k]
  BY DEF Routed, PromisesHold, Settled, FleetTyped

\* The ways a task goes on.
LEMMA TaskForms ==
  ASSUME TasksTyped, NEW w \in Worker
  PROVE  /\ IdleTask \in TaskSet /\ Fits(IdleTask) /\ IdleTask.key = None /\ IdleTask.todo = {}
         /\ task[w] \in TaskSet /\ Fits(task[w])
         /\ \A pc : Goto(w, pc) =>
              /\ task' = [task EXCEPT ![w] = [task[w] EXCEPT !.pc = pc]]
              /\ [task[w] EXCEPT !.pc = pc].pc = pc
              /\ [task[w] EXCEPT !.pc = pc].key = task[w].key
              /\ [task[w] EXCEPT !.pc = pc].found = task[w].found
              /\ [task[w] EXCEPT !.pc = pc].todo = task[w].todo
              /\ [task[w] EXCEPT !.pc = pc].vacated = task[w].vacated
  BY DEF TasksTyped, IdleTask, TaskSet, Fits, Goto

\* A candidate is picked from any set of candidates there is.
LEMMA SomeoneIsPicked ==
  ASSUME FleetTyped,
         NEW choice \in SUBSET Instance, choice # {}, NEW avoid
  PROVE  LET best == Picked(PreferSettled(choice), avoid)
         IN  best # {} /\ best \subseteq choice
<1> DEFINE settled == PreferSettled(choice)
           among == IF settled \subseteq {avoid} THEN settled ELSE settled \ {avoid}
<1>1. settled # {} /\ settled \subseteq choice
  BY DEF PreferSettled
<1>2. among # {} /\ among \subseteq choice
  BY <1>1
<1>3. Picked(settled, avoid) = LeastLoaded(among)
  BY DEF Picked
<1> HIDE DEF settled, among
<1>4. \A i : Load(i) \in Nat
  <2> SUFFICES ASSUME NEW i PROVE Load(i) \in Nat
    OBVIOUS
  <2>1. IsFiniteSet({k \in Key : pinned[k] = i})
    BY FS_Subset, RoutingAssumption
  <2>2. Cardinality({k \in Key : pinned[k] = i}) \in Nat
    BY <2>1, FS_CardinalityType
  <2> QED
    BY <2>2 DEF Load
<1>5. LeastLoaded(among) # {} /\ LeastLoaded(among) \subseteq among
  <2> DEFINE T == {Load(i) : i \in among}
  <2>1. T \in SUBSET Nat /\ T # {}
    BY <1>2, <1>4
  <2>2. PICK x \in T : \A y \in T : x <= y
    BY <2>1, SmallestExists
  <2>3. PICK i \in among : x = Load(i)
    OBVIOUS
  <2>4. i \in LeastLoaded(among)
    BY <2>2, <2>3 DEF LeastLoaded
  <2> QED
    BY <2>4 DEF LeastLoaded
<1> QED
  BY <1>2, <1>3, <1>5 DEF settled

(***************************************************************************)
(* The actions.                                                            *)
(***************************************************************************)

\* Whoever begins to go through the instances has them all before it.
LEMMA AssigningFits ==
  ASSUME NEW t \in TaskSet, t.key \in Key, up \subseteq Instance
  PROVE  /\ Assigning(t) \in TaskSet
         /\ Fits(Assigning(t)) /\ Thorough(Assigning(t))
         /\ Assigning(t).key = t.key /\ Assigning(t).todo = t.todo
         /\ Assigning(t).pc = "choose"
<1>1. InService \in SUBSET Instance
  BY DEF InService
<1>2. /\ Assigning(t) \in TaskSet
      /\ Assigning(t).pc = "choose" /\ Assigning(t).scan = Instance
      /\ Assigning(t).steady = InService
      /\ Assigning(t).key = t.key /\ Assigning(t).todo = t.todo
  BY <1>1 DEF Assigning, TaskSet
<1>3. Fits(Assigning(t))
  BY <1>2 DEF Fits
<1>4. Thorough(Assigning(t))
  BY <1>1, <1>2 DEF Thorough
<1> QED
  BY <1>2, <1>3, <1>4

\* Elsewhere there is nothing to overlook.
LEMMA NothingToOverlook ==
  ASSUME NEW t, t.pc \notin {"choose", "weigh"}
  PROVE  Thorough(t)
BY DEF Thorough

\* A request that finds its key pinned has found what the key is promised.
LEMMA LookupKeeps ==
  ASSUME Routed,
         NEW c \in Client, NEW k \in Key, LookupSession(c, k)
  PROVE  Routed'
<1> DEFINE n == [IdleTask EXCEPT !.key = k]
           j == [n EXCEPT !.pc = "judge", !.found = pinned[k]]
           t == IF pinned[k] = None THEN Assigning(n) ELSE j
<1>1. /\ task' = [task EXCEPT ![c] = t]
      /\ UNCHANGED <<up, benched, unpinning, rotating, pinned, promised>>
  BY DEF LookupSession, Become, fleet
<1>2. FleetTyped /\ FleetTyped' /\ c \in Worker /\ c \notin Mover
  BY <1>1, RoutingAssumption DEF Routed, FleetTyped, Worker
<1>3. n \in TaskSet /\ n.key = k
  BY DEF IdleTask, TaskSet
<1>4. CASE pinned[k] = None
  <2>1. t = Assigning(n)
    BY <1>4
  <2>2. t \in TaskSet /\ Fits(t) /\ Thorough(t) /\ t.key = k
    BY <1>2, <1>3, <2>1, AssigningFits DEF FleetTyped
  <2>3. promised[k] = None
    BY <1>4, PromiseTakes, RoutingAssumption
  <2> HIDE DEF t
  <2> QED
    BY <1>1, <1>2, <2>2, <2>3, GoingOnKeeps, PromiseTakes
<1>5. CASE pinned[k] # None
  <2>1. t = j
    BY <1>5
  <2>2. /\ t \in TaskSet /\ t.key = k /\ t.found = pinned[k] /\ t.pc = "judge"
        /\ t.found \in Instance
    BY <1>2, <1>5, <2>1 DEF FleetTyped, IdleTask, TaskSet
  <2>3. Fits(t) /\ Thorough(t)
    BY <2>2, NothingToOverlook DEF Fits
  <2> HIDE DEF t
  <2> QED
    BY <1>1, <1>2, <2>2, <2>3, GoingOnKeeps, PromiseTakes
<1> QED
  BY <1>4, <1>5

\* Where a request that judges a promised instance stands.
LEMMA FoundPromised ==
  ASSUME Routed, NEW c \in Client, task[c].pc \in {"judge", "shun", "begin"}
  PROVE  /\ c \in Worker /\ c \notin Mover
         /\ task[c] \in TaskSet /\ Fits(task[c])
         /\ task[c].key \in Key /\ task[c].found \in Instance
         /\ promised[task[c].key] # None => promised[task[c].key] = task[c].found
<1>1. c \in Worker /\ c \notin Mover
  BY RoutingAssumption DEF Worker
<1>2. task[c] \in TaskSet /\ Fits(task[c])
  BY <1>1 DEF Routed, TasksTyped
<1>3. task[c].key \in Key /\ task[c].found \in Instance
  BY <1>2 DEF Fits
<1> QED
  BY <1>1, <1>2, <1>3 DEF Routed, PromisesHold, Settled

\* A promised instance is up, so that it passes.
LEMMA JudgeKeeps ==
  ASSUME Routed, NEW c \in Client, Judge(c)
  PROVE  Routed'
<1> DEFINE pc == IF task[c].found \in up THEN "shun" ELSE "drop"
           t == [task[c] EXCEPT !.pc = pc]
<1>1. /\ task[c].pc = "judge" /\ Goto(c, pc)
      /\ UNCHANGED <<up, benched, unpinning, rotating, pinned, promised>>
  BY DEF Judge, fleet
<1>2. /\ c \in Worker /\ c \notin Mover
      /\ task[c] \in TaskSet /\ Fits(task[c])
      /\ task[c].key \in Key /\ task[c].found \in Instance
      /\ promised[task[c].key] # None => promised[task[c].key] = task[c].found
  BY <1>1, FoundPromised
<1>3. FleetTyped'
  BY <1>1 DEF Routed, FleetTyped
<1>4. /\ task' = [task EXCEPT ![c] = t] /\ t.key = task[c].key
      /\ t.found = task[c].found /\ t.pc = pc /\ t \in TaskSet
  BY <1>1, <1>2 DEF Goto, TaskSet
<1>5. promised[t.key] # None => t.pc = "shun" /\ t.found = promised[t.key]
  BY <1>2, <1>4, PromiseTakes
<1>6. t.pc \in {"shun", "drop"}
  BY <1>4
<1> HIDE DEF t, pc
<1>7. Fits(t) /\ Thorough(t)
  BY <1>2, <1>4, <1>6, NothingToOverlook DEF Fits
<1> QED
  BY <1>1, <1>2, <1>3, <1>4, <1>5, <1>7, GoingOnKeeps, PromiseTakes

\* Nor does it rotate, so that it is not shunned.
LEMMA ShunKeeps ==
  ASSUME Routed, NEW c \in Client, Shun(c)
  PROVE  Routed'
<1> DEFINE n == [IdleTask EXCEPT !.key = task[c].key, !.avoid = task[c].found]
           b == [task[c] EXCEPT !.pc = "begin"]
<1>1. /\ task[c].pc = "shun"
      /\ UNCHANGED <<up, benched, unpinning, rotating, pinned, promised>>
  BY DEF Shun, fleet
<1>2. /\ c \in Worker /\ c \notin Mover
      /\ task[c] \in TaskSet /\ Fits(task[c])
      /\ task[c].key \in Key /\ task[c].found \in Instance
      /\ promised[task[c].key] # None => promised[task[c].key] = task[c].found
  BY <1>1, FoundPromised
<1>3. FleetTyped /\ FleetTyped'
  BY <1>1 DEF Routed, FleetTyped
<1>4. CASE rotating[task[c].found] > 0 /\ Become(c, Assigning(n))
  <2>1. n \in TaskSet /\ n.key = task[c].key
    BY <1>2 DEF TaskSet, IdleTask
  <2> DEFINE t == Assigning(n)
  <2>2. t \in TaskSet /\ Fits(t) /\ Thorough(t) /\ t.key = task[c].key
    BY <1>2, <1>3, <2>1, AssigningFits DEF FleetTyped
  <2>3. promised[task[c].key] = None
    BY <1>2, <1>4, PromiseTakes
  <2>4. task' = [task EXCEPT ![c] = t]
    BY <1>4 DEF Become
  <2> HIDE DEF t
  <2> QED
    BY <1>1, <1>2, <1>3, <2>2, <2>3, <2>4, GoingOnKeeps, PromiseTakes
<1>5. CASE Goto(c, "begin")
  <2>1. /\ task' = [task EXCEPT ![c] = b] /\ b.key = task[c].key
        /\ b.found = task[c].found /\ b.pc = "begin" /\ b \in TaskSet
    BY <1>2, <1>5 DEF Goto, TaskSet
  <2>2. Fits(b) /\ Thorough(b)
    BY <1>2, <2>1, NothingToOverlook DEF Fits
  <2> HIDE DEF b
  <2> QED
    BY <1>1, <1>2, <1>3, <2>1, <2>2, GoingOnKeeps, PromiseTakes
<1> QED
  BY <1>4, <1>5 DEF Shun

\* Nobody who is about to choose, pick, pin or drop works on a promised key.
LEMMA Unpromised ==
  ASSUME Routed, NEW w \in Worker,
         task[w].pc \in {"choose", "weigh", "pick", "pin", "drop"}
  PROVE  promised[task[w].key] = None
  BY DEF Routed, PromisesHold, Settled, TasksTyped, Fits, Worker

\* The drop hits a key that nobody was promised.
LEMMA DropKeeps ==
  ASSUME Routed, NEW c \in Client, DropPinned(c)
  PROVE  Routed'
<1> DEFINE k == task[c].key
           n == [IdleTask EXCEPT !.key = k]
           t == Assigning(n)
<1>1. /\ task[c].pc = "drop"
      /\ pinned' = [pinned EXCEPT ![k] = None]
      /\ task' = [task EXCEPT ![c] = t]
      /\ UNCHANGED <<up, benched, unpinning, rotating, promised>>
  BY DEF DropPinned, fleet, Become
<1>2. FleetTyped /\ c \in Worker /\ c \notin Mover
  BY RoutingAssumption DEF Routed, Worker
<1>3. k \in Key /\ promised[k] = None
  BY <1>1, <1>2, Unpromised DEF Routed, TasksTyped, Fits
<1>4. t \in TaskSet /\ Fits(t) /\ Thorough(t) /\ t.key = k
  <2>1. n \in TaskSet /\ n.key = k
    BY <1>3 DEF TaskSet, IdleTask
  <2> QED
    BY <1>2, <1>3, <2>1, AssigningFits DEF FleetTyped
<1>5. FleetTyped'
  BY <1>1, <1>2 DEF FleetTyped
<1> HIDE DEF t, k
<1>6. \A j \in Key : promised[j] # None => pinned'[j] = pinned[j]
  BY <1>1, <1>2, <1>3 DEF FleetTyped
<1> QED
  BY <1>1, <1>2, <1>3, <1>4, <1>5, <1>6, GoingOnKeeps, PromiseTakes DEF k

\* A goroutine that drops its key and takes on no more sessions breaks no promise.
LEMMA LettingGoKeeps ==
  ASSUME Routed, FleetTyped', UNCHANGED <<up, benched>>,
         NEW w \in Worker, NEW t \in TaskSet, Fits(t), t.key = None,
         t.todo \subseteq task[w].todo,
         task' = [task EXCEPT ![w] = t],
         \A k \in Key : promised'[k] # None =>
           /\ promised'[k] = promised[k]
           /\ pinned'[k] = pinned[k]
           /\ rotating'[promised[k]] = 0
  PROVE  Routed'
<1>0. Thorough(t)
  BY RoutingAssumption DEF Fits, Thorough
<1>1. w \in Mover => \A k \in Key : promised'[k] # None => t.key # k /\ k \notin t.todo
  BY RoutingAssumption DEF Routed, PromisesHold, Settled
<1> QED
  BY <1>0, <1>1, GoingOnKeeps

\* Where assign leaves a goroutine it gave nothing to, and divertSessions one that is
\* done with a session.
LEMMA NextSessionFits ==
  ASSUME TasksTyped, NEW w \in Worker,
         \/ Unassigned(w)
         \/ task[w].vacated # None /\ NextSession(w)
  PROVE  \E t \in TaskSet :
           /\ task' = [task EXCEPT ![w] = t]
           /\ Fits(t) /\ t.key = None /\ t.todo \subseteq task[w].todo
           /\ t # IdleTask => t.pc = "divert"
<1>1. task[w] \in TaskSet
  BY DEF TasksTyped
<1> DEFINE n == [IdleTask EXCEPT !.pc = "divert", !.vacated = task[w].vacated,
                               !.todo = task[w].todo]
<1>2. CASE task' = [task EXCEPT ![w] = IdleTask]
  BY <1>2, TaskForms
<1>3. CASE task[w].vacated # None /\ task' = [task EXCEPT ![w] = n]
  <2>1. n \in TaskSet /\ Fits(n) /\ n.key = None /\ n.todo = task[w].todo /\ n.pc = "divert"
    BY <1>1, <1>3 DEF TaskSet, Fits, IdleTask
  <2> HIDE DEF n
  <2> QED
    BY <1>3, <2>1
<1> QED
  BY <1>2, <1>3 DEF Unassigned, NextSession, Ends, Become

\* Nor does one that has been given nothing, or is done with a session.
LEMMA UnassignedKeeps ==
  ASSUME Routed, NEW w \in Worker, FleetTyped',
         \/ Unassigned(w)
         \/ task[w].vacated # None /\ NextSession(w),
         UNCHANGED <<up, benched, rotating, promised>>,
         \A k \in Key : promised[k] # None => pinned'[k] = pinned[k]
  PROVE  Routed'
<1>1. TasksTyped
  BY DEF Routed
<1>2. PICK t \in TaskSet :
        /\ task' = [task EXCEPT ![w] = t]
        /\ Fits(t) /\ t.key = None /\ t.todo \subseteq task[w].todo
  BY <1>1, NextSessionFits
<1> QED
  BY <1>2, LettingGoKeeps, PromiseTakes

\* One goroutine that gives a session an instance goes on with it.
LEMMA AssigningKeeps ==
  ASSUME Routed, NEW w \in Worker, task[w].pc \in {"choose", "weigh", "pick"},
         NEW t \in TaskSet, Fits(t), Thorough(t), t.key = task[w].key, t.todo = task[w].todo,
         task' = [task EXCEPT ![w] = t],
         UNCHANGED <<up, benched, unpinning, rotating, pinned, promised>>
  PROVE  Routed'
<1>1. FleetTyped' /\ Fits(task[w])
  BY DEF Routed, FleetTyped, TasksTyped
<1>2. promised[task[w].key] = None /\ task[w].key \in Key
  BY <1>1, Unpromised DEF Fits
<1>3. w \in Mover => \A k \in Key : promised[k] # None => t.key # k /\ k \notin t.todo
  BY <1>2 DEF Routed, PromisesHold, Settled
<1> QED
  BY <1>1, <1>2, <1>3, GoingOnKeeps, PromiseTakes

\* Whoever is done with an instance that is no candidate has not overlooked it.
LEMMA AskReadyKeeps ==
  ASSUME Routed, NEW w \in Worker, AskReady(w)
  PROVE  Routed'
<1>1. /\ task[w].pc = "choose"
      /\ UNCHANGED <<up, benched, unpinning, rotating, pinned, promised>>
  BY DEF AskReady, fleet
<1>2. task[w] \in TaskSet /\ Fits(task[w]) /\ Thorough(task[w])
  BY DEF Routed, TasksTyped, NoneOverlooked
<1>3. PICK i \in NextOf(task[w].scan) :
        IF i \in up THEN Goto(w, "weigh")
                    ELSE Become(w, [task[w] EXCEPT !.scan = @ \ {i}])
  BY DEF AskReady
<1>4. CASE Goto(w, "weigh")
  <2> DEFINE t == [task[w] EXCEPT !.pc = "weigh"]
  <2>1. /\ t \in TaskSet /\ t.pc = "weigh" /\ t.key = task[w].key /\ t.todo = task[w].todo
        /\ t.steady = task[w].steady /\ t.scan = task[w].scan /\ t.choice = task[w].choice
    BY <1>2 DEF TaskSet
  <2>2. Fits(t) /\ Thorough(t)
    BY <1>1, <1>2, <2>1 DEF Fits, Thorough
  <2>3. task' = [task EXCEPT ![w] = t]
    BY <1>4 DEF Goto
  <2> HIDE DEF t
  <2> QED
    BY <1>1, <2>1, <2>2, <2>3, AssigningKeeps
<1>5. CASE i \notin up /\ Become(w, [task[w] EXCEPT !.scan = @ \ {i}])
  <2> DEFINE t == [task[w] EXCEPT !.scan = @ \ {i}]
  <2>1. /\ t \in TaskSet /\ t.pc = "choose" /\ t.key = task[w].key /\ t.todo = task[w].todo
        /\ t.steady = task[w].steady /\ t.scan = task[w].scan \ {i}
        /\ t.choice = task[w].choice
    BY <1>1, <1>2 DEF TaskSet
  <2>2. i \notin InService
    BY <1>5 DEF InService
  <2>3. Fits(t) /\ Thorough(t)
    BY <1>1, <1>2, <2>1, <2>2 DEF Fits, Thorough
  <2>4. task' = [task EXCEPT ![w] = t]
    BY <1>5 DEF Become
  <2> HIDE DEF t
  <2> QED
    BY <1>1, <2>1, <2>3, <2>4, AssigningKeeps
<1> QED
  BY <1>3, <1>4, <1>5

\* Nor has whoever leaves out one that is out of service.
LEMMA WeighKeeps ==
  ASSUME Routed, NEW w \in Worker, Weigh(w)
  PROVE  Routed'
<1>1. /\ task[w].pc = "weigh"
      /\ UNCHANGED <<up, benched, unpinning, rotating, pinned, promised>>
  BY DEF Weigh, fleet
<1>2. task[w] \in TaskSet /\ Fits(task[w]) /\ Thorough(task[w])
  BY DEF Routed, TasksTyped, NoneOverlooked
<1>3. PICK i \in NextOf(task[w].scan) :
        task' = [task EXCEPT ![w] =
          [task[w] EXCEPT !.pc = "choose", !.scan = @ \ {i},
                          !.choice = IF i \in benched THEN @ ELSE @ \cup {i}]]
  BY DEF Weigh, Become
<1> DEFINE t == [task[w] EXCEPT !.pc = "choose", !.scan = @ \ {i},
                                !.choice = IF i \in benched THEN @ ELSE @ \cup {i}]
<1>4. i \in Instance
  BY <1>2, <1>3 DEF NextOf, TaskSet
<1>5. /\ t \in TaskSet /\ t.pc = "choose" /\ t.key = task[w].key /\ t.todo = task[w].todo
      /\ t.steady = task[w].steady /\ t.scan = task[w].scan \ {i}
      /\ t.choice = IF i \in benched THEN task[w].choice ELSE task[w].choice \cup {i}
  BY <1>1, <1>2, <1>4 DEF TaskSet
<1>6. i \in benched => i \notin InService
  BY DEF InService
<1>7. Fits(t) /\ Thorough(t)
  BY <1>1, <1>2, <1>5, <1>6 DEF Fits, Thorough
<1>8. task' = [task EXCEPT ![w] = t]
  BY <1>3
<1> HIDE DEF t
<1> QED
  BY <1>1, <1>5, <1>7, <1>8, AssigningKeeps

\* Everyone has been looked at.
LEMMA ChooseKeeps ==
  ASSUME Routed, NEW w \in Worker, Choose(w)
  PROVE  Routed'
<1>1. /\ task[w].pc = "choose"
      /\ UNCHANGED <<up, benched, unpinning, rotating, pinned, promised>>
  BY DEF Choose, fleet
<1>2. FleetTyped' /\ task[w] \in TaskSet /\ Fits(task[w])
  BY <1>1 DEF Routed, FleetTyped, TasksTyped
<1>3. CASE Unassigned(w)
  BY <1>1, <1>2, <1>3, UnassignedKeeps, PromiseTakes
<1>4. CASE task[w].choice # {} /\ Goto(w, "pick")
  <2> DEFINE t == [task[w] EXCEPT !.pc = "pick"]
  <2>1. /\ t \in TaskSet /\ t.pc = "pick" /\ t.key = task[w].key /\ t.todo = task[w].todo
        /\ t.choice # {}
    BY <1>2, <1>4 DEF TaskSet
  <2>2. Fits(t) /\ Thorough(t)
    BY <1>1, <1>2, <2>1, NothingToOverlook DEF Fits
  <2>3. task' = [task EXCEPT ![w] = t]
    BY <1>4 DEF Goto
  <2> HIDE DEF t
  <2> QED
    BY <1>1, <2>1, <2>2, <2>3, AssigningKeeps
<1> QED
  BY <1>3, <1>4 DEF Choose

\* One of them is picked.
LEMMA PickKeeps ==
  ASSUME Routed, NEW w \in Worker, Pick(w)
  PROVE  Routed'
<1> DEFINE best == Picked(PreferSettled(task[w].choice), task[w].avoid)
<1>1. /\ task[w].pc = "pick"
      /\ UNCHANGED <<up, benched, unpinning, rotating, pinned, promised>>
  BY DEF Pick, fleet
<1>2. FleetTyped /\ FleetTyped' /\ task[w] \in TaskSet /\ Fits(task[w])
  BY <1>1 DEF Routed, FleetTyped, TasksTyped
<1>3. best # {} /\ best \subseteq Instance
  <2>1. task[w].choice \in SUBSET Instance /\ task[w].choice # {}
    BY <1>1, <1>2 DEF TaskSet, Fits
  <2> QED
    BY <1>2, <2>1, SomeoneIsPicked
<1>4. PICK i \in best :
        task' = [task EXCEPT ![w] =
          [task[w] EXCEPT !.pc = "pin", !.found = i, !.choice = {}, !.steady = {}]]
  BY <1>3 DEF Pick, Become
<1> DEFINE t == [task[w] EXCEPT !.pc = "pin", !.found = i, !.choice = {}, !.steady = {}]
<1> HIDE DEF best
<1>5. /\ t \in TaskSet /\ t.key = task[w].key /\ t.todo = task[w].todo
      /\ t.pc = "pin" /\ t.found \in Instance
  BY <1>2, <1>3 DEF TaskSet
<1>6. Fits(t) /\ Thorough(t)
  BY <1>1, <1>2, <1>5, NothingToOverlook DEF Fits
<1>7. task' = [task EXCEPT ![w] = t]
  BY <1>4
<1> HIDE DEF t
<1> QED
  BY <1>1, <1>5, <1>6, <1>7, AssigningKeeps

\* The pin hits a key that nobody was promised.
LEMMA PinKeeps ==
  ASSUME Routed, NEW w \in Worker, Pin(w)
  PROVE  Routed'
<1> DEFINE k == task[w].key
<1>1. /\ task[w].pc = "pin"
      /\ pinned' = [pinned EXCEPT ![k] = task[w].found]
      /\ UNCHANGED <<up, benched, unpinning, rotating, promised>>
  BY DEF Pin, fleet
<1>2. FleetTyped /\ TasksTyped /\ task[w] \in TaskSet /\ Fits(task[w])
  BY DEF Routed, TasksTyped
<1>3. k \in Key /\ task[w].found \in Instance /\ promised[k] = None
  BY <1>1, <1>2, Unpromised DEF Fits
<1>4. FleetTyped'
  BY <1>1, <1>2, <1>3 DEF FleetTyped
<1>5. \A j \in Key : promised[j] # None => pinned'[j] = pinned[j]
  BY <1>1, <1>2, <1>3 DEF FleetTyped
<1>6. CASE w \in Client /\ Goto(w, "begin")
  <2> DEFINE t == [task[w] EXCEPT !.pc = "begin"]
  <2>1. /\ task' = [task EXCEPT ![w] = t] /\ t.key = task[w].key
    BY <1>2, <1>6, TaskForms
  <2>2. t \in TaskSet /\ Fits(t) /\ Thorough(t)
    BY <1>2, <1>3 DEF TaskSet, Fits, Thorough
  <2>3. w \notin Mover
    BY <1>6, RoutingAssumption
  <2> HIDE DEF t
  <2> QED
    BY <1>1, <1>2, <1>3, <1>4, <1>5, <2>1, <2>2, <2>3, GoingOnKeeps, PromiseTakes
<1>7. CASE task[w].vacated # None /\ NextSession(w)
  BY <1>1, <1>4, <1>5, <1>7, UnassignedKeeps
<1>8. CASE Ends(w)
  <2>1. task' = [task EXCEPT ![w] = IdleTask]
    BY <1>8 DEF Ends, Become
  <2> QED
    BY <1>1, <1>2, <1>4, <1>5, <2>1, LettingGoKeeps, PromiseTakes, TaskForms
<1>9. CASE /\ task[w].avoid # None
           /\ Become(w, [IdleTask EXCEPT !.pc = "quiesce", !.vacated = task[w].avoid])
  <2> DEFINE t == [IdleTask EXCEPT !.pc = "quiesce", !.vacated = task[w].avoid]
  <2>1. t \in TaskSet /\ Fits(t) /\ t.key = None /\ t.todo = {}
    BY <1>2, <1>9 DEF TaskSet, Fits, IdleTask
  <2>2. task' = [task EXCEPT ![w] = t]
    BY <1>9 DEF Become
  <2> HIDE DEF t
  <2> QED
    BY <1>1, <1>2, <1>4, <1>5, <2>1, <2>2, LettingGoKeeps, PromiseTakes
<1> QED
  BY <1>6, <1>7, <1>8, <1>9 DEF Pin

\* A request begins: a promise is made when nothing already stands in its way.
LEMMA PromisingKeeps ==
  ASSUME Routed, NEW c \in Client, BeginRequest(c)
  PROVE  Routed'
<1> DEFINE k == task[c].key
           i == task[c].found
<1>1. /\ task[c].pc = "begin"
      /\ task' = [task EXCEPT ![c] = IdleTask]
      /\ UNCHANGED <<up, benched, unpinning, rotating, pinned>>
  BY DEF BeginRequest, fleet, Ends, Become
<1>2. FleetTyped /\ TasksTyped /\ c \in Worker
  BY DEF Routed, Worker
<1>3. k \in Key /\ i \in Instance
  BY <1>1, <1>2 DEF TasksTyped, Fits
<1>4. /\ task'[c] = IdleTask
      /\ \A v \in Worker : v # c => task'[v] = task[v]
      /\ IdleTask.key = None /\ IdleTask.todo = {}
  BY <1>1, <1>2 DEF TasksTyped, IdleTask
<1>5. PICK p \in {i, promised[k]} :
        /\ promised' = [promised EXCEPT ![k] = p]
        /\ \/ p = promised[k]
           \/ /\ p = i /\ pinned[k] = i /\ i \notin Troubled /\ rotating[i] = 0
              /\ ~Moving(k) /\ Agreed(k, i, c)
  BY DEF BeginRequest
<1> HIDE DEF k, i
<1>6. FleetTyped'
  BY <1>1, <1>2, <1>3, <1>5 DEF FleetTyped
<1>7. TasksTyped'
  <2>1. IdleTask \in TaskSet /\ Fits(IdleTask)
    BY <1>2, TaskForms
  <2> QED
    BY <1>1, <1>2, <2>1 DEF TasksTyped, Worker, Fits
<1>8. NoneOverlooked'
  <2>1. Thorough(IdleTask)
    BY NothingToOverlook DEF IdleTask
  <2> QED
    BY <1>1, <1>4, <2>1 DEF Routed, NoneOverlooked, Thorough, InService, Worker
<1>9. PromisesHold'
  <2> SUFFICES ASSUME NEW j \in Key, promised'[j] # None PROVE Settled(j)'
    BY DEF PromisesHold
  <2>1. j # None
    BY RoutingAssumption
  <2>2. CASE promised'[j] = promised[j]
    <3>1. Settled(j)
      BY <2>2 DEF Routed, PromisesHold
    <3> QED
      BY <1>1, <1>4, <2>1, <2>2, <3>1 DEF Settled, Worker
  <2>3. CASE promised'[j] # promised[j]
    <3>1. j = k /\ p # promised[k]
      BY <1>2, <1>3, <1>5, <2>3 DEF FleetTyped
    <3>2. /\ promised'[j] = i /\ pinned[j] = i /\ rotating[i] = 0
          /\ i \in up /\ ~Moving(j) /\ Agreed(j, i, c)
      BY <1>2, <1>3, <1>5, <3>1 DEF FleetTyped, Troubled
    <3>3. \A d \in Client : task'[d].key = j =>
            task'[d].pc \in {"judge", "shun", "begin"} /\ task'[d].found = i
      BY <1>4, <2>1, <3>2 DEF Agreed, Serving, Worker
    <3>4. \A m \in Mover : task'[m].key # j /\ j \notin task'[m].todo
      BY <1>4, <2>1, <3>2 DEF Moving, Worker
    <3> QED
      BY <1>1, <3>2, <3>3, <3>4 DEF Settled
  <2> QED
    BY <2>2, <2>3
<1> QED
  BY <1>6, <1>7, <1>8, <1>9 DEF Routed

\* Whoever rotates a session takes its promise away.
LEMMA RotateSessionKeeps ==
  ASSUME Routed,
         NEW m \in Mover, NEW k \in Key, RotateSession(m, k)
  PROVE  Routed'
<1> DEFINE n == [IdleTask EXCEPT !.key = k, !.avoid = pinned[k]]
           t == Assigning(n)
<1>1. /\ Excuse({}, {k})
      /\ UNCHANGED <<up, benched, unpinning, rotating, pinned>>
      /\ task' = [task EXCEPT ![m] = t]
  BY DEF RotateSession, fleet, Become
<1>2. FleetTyped /\ m \in Worker /\ m \notin Client
  BY RoutingAssumption DEF Routed, Worker
<1>3. FleetTyped'
  BY <1>1, <1>2, ExcuseLeaves DEF FleetTyped
<1>4. t \in TaskSet /\ Fits(t) /\ Thorough(t) /\ t.key = k /\ t.todo = {}
  <2>1. n \in TaskSet /\ n.key = k /\ n.todo = {}
    BY <1>2 DEF FleetTyped, TaskSet, IdleTask
  <2> QED
    BY <1>2, <2>1, AssigningFits DEF FleetTyped
<1>5. \A j \in Key : promised'[j] # None => promised'[j] = promised[j] /\ j # k
  BY <1>1, <1>2, ExcuseLeaves
<1> HIDE DEF t
<1> QED
  BY <1>1, <1>2, <1>3, <1>4, <1>5, GoingOnKeeps, PromiseTakes

\* A rotation is asked for.
LEMMA RotateInstanceKeeps ==
  ASSUME Routed,
         NEW m \in Mover, NEW i \in Instance, RotateInstance(m, i)
  PROVE  Routed'
<1> DEFINE t == [IdleTask EXCEPT !.pc = "quiesce", !.vacated = i]
<1>1. /\ UNCHANGED <<up, benched, unpinning, rotating, pinned, promised>>
      /\ task' = [task EXCEPT ![m] = t]
  BY DEF RotateInstance, fleet, Become
<1>2. FleetTyped /\ FleetTyped' /\ m \in Worker
  BY <1>1 DEF Routed, FleetTyped, Worker
<1>3. t \in TaskSet /\ Fits(t) /\ t.key = None /\ t.todo = {}
  BY DEF TaskSet, Fits, IdleTask
<1> HIDE DEF t
<1> QED
  BY <1>1, <1>2, <1>3, LettingGoKeeps, PromiseTakes

\* A mover that has no session in hand goes on.
LEMMA MovingOnKeeps ==
  ASSUME Routed, NEW m \in Mover, NEW pc, Goto(m, pc),
         task[m].pc \in {"quiesce", "list", "divert"},
         pc \in {"list", "divert", "newnym"}, FleetTyped', UNCHANGED <<up, benched>>,
         \A k \in Key : promised'[k] # None =>
           /\ promised'[k] = promised[k]
           /\ pinned'[k] = pinned[k]
           /\ rotating'[promised[k]] = 0
  PROVE  Routed'
<1> DEFINE t == [task[m] EXCEPT !.pc = pc]
<1>1. m \in Worker /\ m \notin Client /\ TasksTyped
  BY RoutingAssumption DEF Routed, Worker
<1>2. task' = [task EXCEPT ![m] = t] /\ t.key = task[m].key /\ t.todo = task[m].todo
  BY <1>1, TaskForms
<1>3. t \in TaskSet /\ Fits(t) /\ Thorough(t)
  BY <1>1 DEF TasksTyped, TaskSet, Fits, Thorough
<1>4. \A k \in Key : promised'[k] # None => t.key # k /\ k \notin t.todo
  BY <1>2 DEF Routed, PromisesHold, Settled
<1> HIDE DEF t
<1> QED
  BY <1>1, <1>2, <1>3, <1>4, GoingOnKeeps

\* The mark goes up, and with it go the promises of the instance.
LEMMA QuiesceKeeps ==
  ASSUME Routed, NEW m \in Mover, Quiesce(m)
  PROVE  Routed'
<1> DEFINE i == task[m].vacated
<1>1. /\ task[m].pc = "quiesce"
      /\ UNCHANGED <<up, benched, unpinning, pinned>>
  BY DEF Quiesce, fleet
<1>2. FleetTyped /\ m \in Worker /\ i \in Instance /\ TasksTyped
  BY <1>1 DEF Routed, Worker, TasksTyped, Fits
<1>3. CASE /\ rotating' = [rotating EXCEPT ![i] = 1]
           /\ Goto(m, IF DrainOnRotate THEN "list" ELSE "newnym")
           /\ Excuse({i}, {})
  <2>1. FleetTyped'
    BY <1>1, <1>2, <1>3, ExcuseLeaves DEF FleetTyped
  <2>2. \A k \in Key : promised'[k] # None =>
          promised'[k] = promised[k] /\ promised[k] # i
    BY <1>2, <1>3, ExcuseLeaves
  <2>3. \A k \in Key : promised'[k] # None =>
          /\ promised'[k] = promised[k]
          /\ pinned'[k] = pinned[k]
          /\ rotating'[promised[k]] = 0
    BY <1>1, <1>2, <1>3, <2>2, PromiseTakes DEF FleetTyped
  <2> HIDE DEF i
  <2>4. PICK pc \in {"list", "newnym"} : Goto(m, pc)
    BY <1>3
  <2> QED
    BY <1>1, <2>1, <2>3, <2>4, MovingOnKeeps
<1>4. CASE Ends(m) /\ UNCHANGED <<rotating, promised>>
  <2>1. task' = [task EXCEPT ![m] = IdleTask] /\ FleetTyped'
    BY <1>1, <1>2, <1>4 DEF Ends, Become, FleetTyped
  <2> QED
    BY <1>1, <1>2, <1>4, <2>1, LettingGoKeeps, PromiseTakes, TaskForms
<1> QED
  BY <1>3, <1>4 DEF Quiesce

\* The sessions listed are pinned to the instance that rotates, which is promised to
\* nobody.
LEMMA ListKeeps ==
  ASSUME Routed, NEW m \in Mover, List(m)
  PROVE  Routed'
<1> DEFINE i == task[m].vacated
           t == [task[m] EXCEPT !.pc = "divert", !.todo = Listed(i)]
<1>1. /\ task[m].pc = "list"
      /\ Excuse({i}, {})
      /\ UNCHANGED <<up, benched, unpinning, rotating, pinned>>
      /\ task' = [task EXCEPT ![m] = t]
  BY DEF List, fleet, Become
<1>2. FleetTyped /\ m \in Worker /\ m \notin Client /\ task[m] \in TaskSet /\ Fits(task[m])
  BY RoutingAssumption DEF Routed, Worker, TasksTyped
<1>3. FleetTyped'
  BY <1>1, <1>2, ExcuseLeaves DEF FleetTyped
<1>4. t \in TaskSet /\ Fits(t) /\ Thorough(t) /\ t.key = task[m].key /\ t.todo = Listed(i)
  BY <1>1, <1>2 DEF TaskSet, Fits, Listed, Thorough
<1>5. \A k \in Key : promised'[k] # None =>
        promised'[k] = promised[k] /\ promised[k] # i
  BY <1>1, <1>2, ExcuseLeaves
<1>6. \A k \in Key : promised'[k] # None => t.key # k /\ k \notin t.todo
  BY <1>4, <1>5, PromiseTakes DEF Listed, Routed, PromisesHold, Settled
<1> HIDE DEF t, i
<1> QED
  BY <1>1, <1>2, <1>3, <1>4, <1>5, <1>6, GoingOnKeeps, PromiseTakes

\* The next session of the list is taken in hand.
LEMMA DivertKeeps ==
  ASSUME Routed, NEW m \in Mover, Divert(m)
  PROVE  Routed'
<1>1. /\ task[m].pc = "divert"
      /\ UNCHANGED <<up, benched, unpinning, rotating, pinned, promised>>
  BY DEF Divert, fleet
<1>2. /\ FleetTyped /\ FleetTyped' /\ m \in Worker /\ m \notin Client
      /\ task[m] \in TaskSet /\ Fits(task[m])
  BY <1>1, RoutingAssumption DEF Routed, Worker, TasksTyped, FleetTyped
<1>3. CASE Goto(m, "newnym")
  BY <1>1, <1>2, <1>3, MovingOnKeeps, PromiseTakes
<1>4. ASSUME NEW k \in task[m].todo,
             Become(m, Assigning([task[m] EXCEPT !.key = k, !.avoid = task[m].vacated,
                                                 !.todo = @ \ {k}]))
      PROVE  Routed'
  <2> DEFINE n == [task[m] EXCEPT !.key = k, !.avoid = task[m].vacated, !.todo = @ \ {k}]
             t == Assigning(n)
  <2>1. task' = [task EXCEPT ![m] = t]
    BY <1>4 DEF Become
  <2>2. n \in TaskSet /\ n.key = k /\ n.todo = task[m].todo \ {k} /\ k \in Key
    BY <1>2 DEF TaskSet
  <2>3. /\ t \in TaskSet /\ Fits(t) /\ Thorough(t)
        /\ t.key = k /\ t.todo = task[m].todo \ {k}
    BY <1>2, <2>2, AssigningFits DEF FleetTyped
  <2>4. \A j \in Key : promised[j] # None => t.key # j /\ j \notin t.todo
    BY <2>3 DEF Routed, PromisesHold, Settled
  <2> HIDE DEF t
  <2> QED
    BY <1>1, <1>2, <2>1, <2>3, <2>4, GoingOnKeeps, PromiseTakes
<1> QED
  BY <1>3, <1>4 DEF Divert

\* The ladder rotates an instance.
LEMMA RemediateKeeps ==
  ASSUME Routed,
         NEW m \in Mover, NEW i \in Instance, Remediate(m, i)
  PROVE  Routed'
<1> DEFINE t == [IdleTask EXCEPT !.pc = "newnym", !.vacated = i]
<1>1. /\ UNCHANGED <<up, benched, unpinning, pinned>>
      /\ rotating' = [rotating EXCEPT ![i] = @ + 1]
      /\ Excuse({i}, {})
      /\ task' = [task EXCEPT ![m] = t]
  BY DEF Remediate, fleet, Become
<1>2. FleetTyped /\ m \in Worker
  BY DEF Routed, Worker
<1>3. FleetTyped'
  BY <1>1, <1>2, ExcuseLeaves DEF FleetTyped
<1>4. t \in TaskSet /\ Fits(t) /\ t.key = None /\ t.todo = {}
  BY DEF TaskSet, Fits, IdleTask
<1>5. \A k \in Key : promised'[k] # None =>
        promised'[k] = promised[k] /\ promised[k] # i
  BY <1>1, <1>2, ExcuseLeaves
<1>6. \A k \in Key : promised'[k] # None => rotating'[promised[k]] = 0
  BY <1>1, <1>2, <1>5, PromiseTakes DEF FleetTyped
<1> HIDE DEF t
<1> QED
  BY <1>1, <1>2, <1>3, <1>4, <1>5, <1>6, LettingGoKeeps, PromiseTakes

\* A mark goes down.
LEMMA EndRotationKeeps ==
  ASSUME Routed, NEW m \in Mover, EndRotation(m)
  PROVE  Routed'
<1> DEFINE i == task[m].vacated
<1>1. /\ task[m].pc = "newnym"
      /\ rotating' = [rotating EXCEPT ![i] = IF @ <= 1 THEN 0 ELSE @ - 1]
      /\ task' = [task EXCEPT ![m] = IdleTask]
      /\ UNCHANGED <<up, benched, unpinning, pinned, promised>>
  BY DEF EndRotation, fleet, Ends, Become
<1>2. FleetTyped /\ TasksTyped /\ m \in Worker /\ i \in Instance
  BY <1>1 DEF Routed, Worker, TasksTyped, Fits
<1> HIDE DEF i
<1>3. FleetTyped'
  <2>1. rotating[i] \in Nat
    BY <1>2 DEF FleetTyped
  <2>2. (IF rotating[i] <= 1 THEN 0 ELSE rotating[i] - 1) \in Nat
    BY <2>1
  <2> QED
    BY <1>1, <1>2, <2>2 DEF FleetTyped
<1>4. \A k \in Key : promised[k] # None => rotating'[promised[k]] = 0
  BY <1>1, <1>2, PromiseTakes DEF FleetTyped
<1> QED
  BY <1>1, <1>2, <1>3, <1>4, LettingGoKeeps, PromiseTakes, TaskForms

(* What takes an instance or a session away, or brings an instance back. *)

\* An instance goes out of service.
LEMMA QuarantineKeeps ==
  ASSUME Routed, NEW i \in Instance, QuarantineInstance(i)
  PROVE  Routed'
<1>1. /\ benched' = benched \cup {i}
      /\ unpinning' = unpinning \cup {i}
      /\ task' = Unsteadied(i)
      /\ Excuse({i}, {})
      /\ UNCHANGED <<up, rotating, pinned>>
  BY DEF QuarantineInstance
<1>2. FleetTyped
  BY DEF Routed
<1>3. FleetTyped'
  BY <1>1, <1>2, ExcuseLeaves DEF FleetTyped
<1>4. \A k \in Key : promised'[k] # None => promised'[k] = promised[k]
  BY <1>1, <1>2, ExcuseLeaves
<1>5. InService \ {i} \subseteq InService'
  BY <1>1 DEF InService
<1> QED
  BY <1>1, <1>3, <1>4, <1>5, TasksUnsteadied, StandingByKeeps, PromiseTakes

\* Sessions of an instance are unpinned, and their promises with them.
LEMMA UnpinAllKeeps ==
  ASSUME Routed, NEW i \in Instance, UnpinAll(i),
         UNCHANGED <<up, benched, rotating, task>>, unpinning' \subseteq unpinning
  PROVE  Routed'
<1>1. /\ pinned' = [k \in Key |-> IF pinned[k] = i THEN None ELSE pinned[k]]
      /\ Excuse({}, {k \in Key : pinned[k] = i})
  BY DEF UnpinAll
<1>2. FleetTyped
  BY DEF Routed
<1>3. FleetTyped'
  BY <1>1, <1>2, ExcuseLeaves DEF FleetTyped
<1>4. \A k \in Key : promised'[k] # None =>
        promised'[k] = promised[k] /\ k \notin {j \in Key : pinned[j] = i}
  BY <1>1, <1>2, ExcuseLeaves
<1>5. \A k \in Key : promised'[k] # None => pinned'[k] = pinned[k]
  BY <1>1, <1>4
<1> QED
  BY <1>3, <1>4, <1>5, TasksStay, StandingByKeeps, PromiseTakes

\* A tor dies.
LEMMA TorDownKeeps ==
  ASSUME Routed, NEW i \in Instance, TorDown(i)
  PROVE  Routed'
<1>1. /\ up' = up \ {i}
      /\ task' = Unsteadied(i)
      /\ Excuse({i}, {})
      /\ UNCHANGED <<benched, unpinning, rotating, pinned>>
  BY DEF TorDown
<1>2. FleetTyped
  BY DEF Routed
<1>3. FleetTyped'
  BY <1>1, <1>2, ExcuseLeaves DEF FleetTyped
<1>4. \A k \in Key : promised'[k] # None =>
        promised'[k] = promised[k] /\ promised[k] # i
  BY <1>1, <1>2, ExcuseLeaves
<1>5. InService \ {i} \subseteq InService'
  BY <1>1 DEF InService
<1> QED
  BY <1>1, <1>3, <1>4, <1>5, TasksUnsteadied, StandingByKeeps, PromiseTakes

\* A session is forgotten.
LEMMA ForgetKeeps ==
  ASSUME Routed, NEW k \in Key, Forget(k)
  PROVE  Routed'
<1>1. /\ pinned' = [pinned EXCEPT ![k] = None]
      /\ Excuse({}, {k})
      /\ UNCHANGED <<up, benched, unpinning, rotating, task>>
  BY DEF Forget, fleet
<1>2. FleetTyped
  BY DEF Routed
<1>3. FleetTyped'
  BY <1>1, <1>2, ExcuseLeaves DEF FleetTyped
<1>4. \A j \in Key : promised'[j] # None => promised'[j] = promised[j] /\ j # k
  BY <1>1, <1>2, ExcuseLeaves
<1>5. \A j \in Key : promised'[j] # None => pinned'[j] = pinned[j]
  BY <1>1, <1>2, <1>4 DEF FleetTyped
<1> QED
  BY <1>1, <1>3, <1>4, <1>5, TasksStay, StandingByKeeps, PromiseTakes

\* An instance comes back.
LEMMA ReturnKeeps ==
  ASSUME Routed, NEW i \in Instance,
         Return(i) \/ TorUp(i)
  PROVE  Routed'
<1>1. /\ up \subseteq up' /\ up' \subseteq up \cup {i} /\ benched' \subseteq benched
      /\ UNCHANGED <<unpinning, rotating, pinned, task, promised>>
  BY DEF Return, TorUp
<1>2. FleetTyped'
  BY <1>1 DEF Routed, FleetTyped
<1> QED
  BY <1>1, <1>2, TasksStay, StandingByKeeps, PromiseTakes

(***************************************************************************)
(* The theorems.                                                           *)
(***************************************************************************)

\* Initially nobody routes anything and nothing is promised.
LEMMA RoutedInitially ==
  ASSUME RoutingInit
  PROVE  Routed
<1>1. \A w \in Worker : task[w] = IdleTask
  BY DEF RoutingInit
<1>2. FleetTyped
  BY DEF RoutingInit, FleetTyped
<1>3. IdleTask \in TaskSet /\ Fits(IdleTask) /\ IdleTask.key = None
  BY DEF IdleTask, TaskSet, Fits
<1>4. TasksTyped
  BY <1>1, <1>3 DEF RoutingInit, TasksTyped
<1>5. NoneOverlooked
  BY <1>1, NothingToOverlook DEF NoneOverlooked, IdleTask
<1>6. PromisesHold
  BY DEF RoutingInit, PromisesHold
<1> QED
  BY <1>2, <1>4, <1>5, <1>6 DEF Routed

\* Every step keeps it.
LEMMA RoutedInductive ==
  ASSUME Routed, [RoutingNext]_routingVars
  PROVE  Routed'
<1>1. ASSUME NEW c \in Client, ClientStep(c)
      PROVE  Routed'
  <2>1. c \in Worker
    BY DEF Worker
  <2> QED
    BY <1>1, <2>1, JudgeKeeps, ShunKeeps, DropKeeps, AskReadyKeeps, WeighKeeps,
       ChooseKeeps, PickKeeps, PinKeeps, PromisingKeeps DEF ClientStep, AssignStep
<1>2. ASSUME NEW m \in Mover, MoverStep(m)
      PROVE  Routed'
  <2>1. m \in Worker
    BY DEF Worker
  <2> QED
    BY <1>2, <2>1, AskReadyKeeps, WeighKeeps, ChooseKeeps, PickKeeps, PinKeeps,
       QuiesceKeeps, ListKeeps, DivertKeeps, EndRotationKeeps DEF MoverStep, AssignStep
<1>3. ASSUME NEW i \in Instance, Drain(i) \/ Unpin(i)
      PROVE  Routed'
  <2>1. /\ UnpinAll(i)
        /\ UNCHANGED <<up, benched, rotating, task>>
        /\ unpinning' \subseteq unpinning
    BY <1>3 DEF Drain, Unpin, fleet
  <2> QED
    BY <2>1, UnpinAllKeeps
<1>4. CASE UNCHANGED routingVars
  <2>1. UNCHANGED <<up, benched, unpinning, rotating, pinned, task, promised>>
    BY <1>4 DEF routingVars, fleet
  <2>2. FleetTyped'
    BY <2>1 DEF Routed, FleetTyped
  <2> QED
    BY <2>1, <2>2, TasksStay, StandingByKeeps, PromiseTakes
<1> QED
  BY <1>1, <1>2, <1>3, <1>4, LookupKeeps, RotateSessionKeeps, RotateInstanceKeeps,
     RemediateKeeps, QuarantineKeeps, ReturnKeeps, TorDownKeeps, ForgetKeeps
  DEF RoutingNext

\* It implies the property.
LEMMA RoutedStaysPut == Routed => StaysPut
<1> SUFFICES ASSUME Routed PROVE StaysPut
  OBVIOUS
<1>1. RoutingTypeOK
  BY DEF Routed, FleetTyped, TasksTyped, TaskSet, Fits, RoutingTypeOK
<1>2. ASSUME NEW k \in Key, promised[k] # None
      PROVE  pinned[k] = promised[k] /\ Agreed(k, promised[k], None)
  BY <1>2 DEF Routed, PromisesHold, Settled, Agreed, Serving
<1> QED
  BY <1>1, <1>2 DEF StaysPut

\* Same key, same instance, once they agree on it: whatever the requests, of one key at
\* once as well, rotations, diversions, quarantines and tors do, a key that was promised
\* an instance stays pinned to it and its requests go there; for any number of each.
THEOREM SessionsStayPut == RoutingSpec => []StaysPut
<1>1. RoutingInit => Routed
  BY RoutedInitially
<1>2. Routed /\ [RoutingNext]_routingVars => Routed'
  BY RoutedInductive
<1>3. Routed => StaysPut
  BY RoutedStaysPut
<1> QED
  BY <1>1, <1>2, <1>3, PTL DEF RoutingSpec

\* A goroutine changes no task but its own.
LEMMA OwnTaskOnly ==
  ASSUME TasksTyped, NEW w \in Worker, NEW v \in Worker, v # w,
         \/ ClientStep(w)
         \/ MoverStep(w)
         \/ \E k \in Key : LookupSession(w, k) \/ RotateSession(w, k)
         \/ \E i \in Instance : RotateInstance(w, i) \/ Remediate(w, i)
  PROVE  task'[v] = task[v]
<1>1. \A t : Become(w, t) => task'[v] = task[v]
  BY DEF TasksTyped, Become
<1>2. \A pc : Goto(w, pc) => task'[v] = task[v]
  BY DEF TasksTyped, Goto
<1>3. NextSession(w) \/ Unassigned(w) \/ Ends(w) => task'[v] = task[v]
  BY <1>1 DEF NextSession, Unassigned, Ends
<1>4. CASE Judge(w) \/ Shun(w) \/ DropPinned(w) \/ BeginRequest(w)
  BY <1>1, <1>2, <1>3, <1>4 DEF Judge, Shun, DropPinned, BeginRequest
<1>5. CASE AssignStep(w)
  BY <1>1, <1>2, <1>3, <1>5 DEF AssignStep, AskReady, Weigh, Choose, Pick, Pin
<1>6. CASE Quiesce(w) \/ List(w) \/ Divert(w) \/ EndRotation(w)
  BY <1>1, <1>2, <1>3, <1>6 DEF Quiesce, List, Divert, EndRotation
<1>7. CASE \E k \in Key : LookupSession(w, k) \/ RotateSession(w, k)
  BY <1>1, <1>7 DEF LookupSession, RotateSession
<1>8. CASE \E i \in Instance : RotateInstance(w, i) \/ Remediate(w, i)
  BY <1>1, <1>8 DEF RotateInstance, Remediate
<1> QED
  BY <1>4, <1>5, <1>6, <1>7, <1>8 DEF ClientStep, MoverStep

\* A request that is given up before it begins has gone through all of the instances,
\* and whatever was in service meanwhile would have been a candidate.
LEMMA GivesUpOnlyWithoutCandidates ==
  ASSUME Routed, NEW c \in Client, ClientStep(c),
         task[c].pc # "begin", task'[c] = IdleTask
  PROVE  task[c].steady = {}
<1>1. /\ TasksTyped /\ FleetTyped /\ c \in Worker /\ c \notin Mover
      /\ task[c] \in TaskSet /\ Fits(task[c]) /\ Thorough(task[c]) /\ c \in DOMAIN task
  BY RoutingAssumption DEF Routed, Worker, TasksTyped, NoneOverlooked
<1>2. IdleTask.pc = "idle"
  BY DEF IdleTask
<1>3. \A pc : Goto(c, pc) => task'[c].pc = pc
  BY <1>1 DEF Goto, TaskSet
<1>4. \A t \in TaskSet : Become(c, Assigning(t)) => task'[c].pc = "choose"
  BY <1>1 DEF Become, Assigning, TaskSet
<1>5. ~Judge(c)
  BY <1>2, <1>3 DEF Judge
<1>6. ~Shun(c)
  <2> SUFFICES ASSUME Shun(c) PROVE FALSE
    OBVIOUS
  <2>1. [IdleTask EXCEPT !.key = task[c].key, !.avoid = task[c].found] \in TaskSet
    BY <1>1 DEF Shun, Fits, TaskSet, IdleTask
  <2> QED
    BY <1>2, <1>3, <1>4, <2>1 DEF Shun
<1>7. ~DropPinned(c)
  <2> SUFFICES ASSUME DropPinned(c) PROVE FALSE
    OBVIOUS
  <2>1. [IdleTask EXCEPT !.key = task[c].key] \in TaskSet
    BY <1>1 DEF DropPinned, Fits, TaskSet, IdleTask
  <2> QED
    BY <1>2, <1>4, <2>1 DEF DropPinned
<1>8. ~AskReady(c)
  <2> SUFFICES ASSUME AskReady(c) PROVE FALSE
    OBVIOUS
  <2>1. PICK i : Goto(c, "weigh") \/ Become(c, [task[c] EXCEPT !.scan = @ \ {i}])
    BY DEF AskReady
  <2>2. [task[c] EXCEPT !.scan = @ \ {i}].pc = "choose"
    BY <1>1 DEF TaskSet, AskReady
  <2> QED
    BY <1>1, <1>2, <1>3, <2>1, <2>2 DEF Become
<1>9. ~Weigh(c)
  <2> SUFFICES ASSUME Weigh(c) PROVE FALSE
    OBVIOUS
  <2>1. PICK i : task' = [task EXCEPT ![c] =
          [task[c] EXCEPT !.pc = "choose", !.scan = @ \ {i},
                          !.choice = IF i \in benched THEN @ ELSE @ \cup {i}]]
    BY DEF Weigh, Become
  <2> DEFINE t == [task[c] EXCEPT !.pc = "choose", !.scan = @ \ {i},
                                  !.choice = IF i \in benched THEN @ ELSE @ \cup {i}]
  <2>2. t.pc = "choose" /\ task'[c] = t
    BY <1>1, <2>1 DEF TaskSet
  <2> QED
    BY <1>2, <2>2
<1>10. Choose(c) => task[c].steady = {}
  <2> SUFFICES ASSUME Choose(c) PROVE task[c].steady = {}
    OBVIOUS
  <2>1. task[c].scan = {} /\ task[c].pc = "choose" /\ task[c].choice = {}
    BY <1>2, <1>3 DEF Choose
  <2> QED
    BY <1>1, <2>1 DEF Thorough
<1>11. ~Pick(c)
  <2> SUFFICES ASSUME Pick(c) PROVE FALSE
    OBVIOUS
  <2>1. task[c].choice \in SUBSET Instance /\ task[c].choice # {}
    BY <1>1 DEF Pick, TaskSet, Fits
  <2>2. Picked(PreferSettled(task[c].choice), task[c].avoid) # {}
    BY <1>1, <2>1, SomeoneIsPicked
  <2>3. PICK i : task' = [task EXCEPT ![c] =
          [task[c] EXCEPT !.pc = "pin", !.found = i, !.choice = {}, !.steady = {}]]
    BY <2>2 DEF Pick, Become
  <2>4. [task[c] EXCEPT !.pc = "pin", !.found = i, !.choice = {}, !.steady = {}].pc = "pin"
    BY <1>1 DEF TaskSet
  <2> QED
    BY <1>1, <1>2, <2>3, <2>4
<1>12. ~Pin(c)
  <2>1. [IdleTask EXCEPT !.pc = "divert", !.vacated = task[c].vacated,
                       !.todo = task[c].todo].pc = "divert"
    BY DEF IdleTask
  <2>2. ~NextSession(c)
    BY <1>1, <1>2, <2>1 DEF NextSession, Become
  <2> QED
    BY <1>1, <1>2, <1>3, <2>2 DEF Pin
<1>13. ~BeginRequest(c)
  BY DEF BeginRequest
<1> QED
  BY <1>5, <1>6, <1>7, <1>8, <1>9, <1>10, <1>11, <1>12, <1>13 DEF ClientStep, AssignStep

\* Whoever else takes the step, a request is not given up by it.
LEMMA NobodyRefusesEarly ==
  ASSUME Routed, RoutingNext, NEW c \in Client,
         task[c] # IdleTask, task[c].pc # "begin", task'[c] = IdleTask
  PROVE  task[c].steady = {}
<1>1. TasksTyped /\ c \in Worker /\ c \notin Mover
  BY RoutingAssumption DEF Routed, Worker
<1>2. task'[c] # task[c]
  OBVIOUS
<1>3. ASSUME NEW d \in Client, ClientStep(d)
      PROVE  task[c].steady = {}
  <2>1. d = c
    BY <1>1, <1>2, <1>3, OwnTaskOnly DEF Worker
  <2> QED
    BY <1>3, <2>1, GivesUpOnlyWithoutCandidates
<1>4. ASSUME NEW d \in Client, NEW k \in Key, LookupSession(d, k)
      PROVE  FALSE
  <2>1. d = c
    BY <1>1, <1>2, <1>4, OwnTaskOnly DEF Worker
  <2> QED
    BY <1>4, <2>1 DEF LookupSession
<1>5. ASSUME NEW m \in Mover,
             \/ MoverStep(m)
             \/ \E k \in Key : RotateSession(m, k)
             \/ \E i \in Instance : RotateInstance(m, i) \/ Remediate(m, i)
      PROVE  FALSE
  BY <1>1, <1>2, <1>5, OwnTaskOnly DEF Worker
<1>6. ASSUME NEW i \in Instance,
             \/ QuarantineInstance(i) \/ Drain(i) \/ Unpin(i) \/ Return(i)
             \/ TorDown(i) \/ TorUp(i)
      PROVE  FALSE
  <2>1. CASE task' = Unsteadied(i)
    <3>1. task[c] \in TaskSet /\ Fits(task[c])
      BY <1>1 DEF TasksTyped
    <3>2. task'[c] = [task[c] EXCEPT !.steady = @ \ {i}]
      BY <1>1, <2>1 DEF Unsteadied
    <3>3. task[c].pc = "idle"
      BY <3>1, <3>2 DEF IdleTask, TaskSet
    <3>4. task[c].steady = {}
      BY <3>1, <3>3 DEF Fits
    <3>5. task'[c] = task[c]
      BY <3>1, <3>2, <3>4 DEF TaskSet
    <3> QED
      BY <1>2, <3>5
  <2>2. CASE UNCHANGED task
    BY <1>2, <2>2
  <2> QED
    BY <1>6, <2>1, <2>2 DEF QuarantineInstance, Drain, Unpin, Return, TorDown, TorUp
<1>7. ASSUME NEW k \in Key, Forget(k)
      PROVE  FALSE
  BY <1>2, <1>7 DEF Forget
<1> QED
  BY <1>3, <1>4, <1>5, <1>6, <1>7 DEF RoutingNext

\* A request is refused only when no instance was in service all the while it looked
\* for one, for any number of instances, movers and requests, of one key at once as well.
THEOREM RefusalsHaveNoCandidate == RoutingSpec => RefusedOnlyWhenNoneServes
<1>1. RoutingInit => Routed
  BY RoutedInitially
<1>2. Routed /\ [RoutingNext]_routingVars => Routed'
  BY RoutedInductive
<1>3. Routed /\ [RoutingNext]_routingVars =>
        [\A c \in Client :
           task[c] # IdleTask /\ task[c].pc # "begin" /\ task'[c] = IdleTask
             => task[c].steady = {}]_routingVars
  BY NobodyRefusesEarly
<1> QED
  BY <1>1, <1>2, <1>3, PTL DEF RoutingSpec, RefusedOnlyWhenNoneServes
=============================================================================
