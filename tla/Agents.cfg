SPECIFICATION FairSpec
CONSTANTS
  Agents = 5
  MaxAttempts = 3
  MaxOutage = 3
INVARIANTS
  TypeOK
  CallBudget
  Accounted
PROPERTY Ends
\* Once the workflow has ended nothing is left to do.
CHECK_DEADLOCK FALSE
