SPECIFICATION Spec
CONSTANTS
  MaxRequests = 2
  Window = 2
  Horizon = 5
  MaxSet = 2
  MaxAccepted = 5
INVARIANTS
  TypeOK
  WindowBounded
  RefusalsExplained
\* Time ends at Horizon.
CHECK_DEADLOCK FALSE
