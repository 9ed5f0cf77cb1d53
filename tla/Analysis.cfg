SPECIFICATION ServicesSpec
CONSTANTS
  MaxCalls = 2
  MaxCount = 2
  MaxItems = 3
INVARIANTS
  AcceptedIsComplete
\* Only MaxCalls calls are made.
CHECK_DEADLOCK FALSE
