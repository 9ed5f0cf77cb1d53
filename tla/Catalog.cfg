CONSTANTS
  t1 = t1
  t2 = t2
  c1 = c1
  c2 = c2
  i1 = i1
  DevMode = FALSE
  Tenants <- TwoTenants
  Channels <- TwoChannels
  Ideas <- OneIdea
  Statuses <- TwoStatuses
  Operations <- AllOps
  MaxRequests = 4
  MaxOpen = 2
SPECIFICATION Spec
SYMMETRY Symmetric
INVARIANTS
  TypeOK
  Isolated
  NoOrphans
  AloneIsServed
\* Only MaxRequests requests begin: when they are answered, nothing is left to do.
CHECK_DEADLOCK FALSE
