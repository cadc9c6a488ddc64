SPECIFICATION Spec
CONSTANTS
  MaxInWindow = 2
  MaxConsecutive = 3
  Backoff = 1
  MaxBackoff = 3
  MaxReports = 4
  MaxAttempts = 4
INVARIANTS
  TypeOK
  DegradedIsBelowThresholds
  RateLimitsKeepProbation
PROPERTIES
  SingleReportNeverQuarantines
  ImplementsHealthStates
  BackoffDoublesUpToCap
