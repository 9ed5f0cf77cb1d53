CONSTANTS
  r1 = r1
  r2 = r2
  Requests <- TwoRequests
  Operations <- AllOperations
  StepCount = 2
  MaxRequests = 3
  MaxFaults = 1
SPECIFICATION MCSpec
INVARIANTS
  TypeOK
  AggregateBacked
  EventsBacked
  StatusBacked
  SettledAgrees
PROPERTY RunsReachReview
\* Only MaxRequests requests begin: when they are answered, nothing is left to do.
CHECK_DEADLOCK FALSE
