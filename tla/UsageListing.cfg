SPECIFICATION Spec
CONSTANTS
  Requests = {r1}
  Threads = {t1}
  Projects = {p1}
  NoProject = NoProject
  Channels = {c1}
  Codes <- MCCodes
  NoLimit = NoLimit
  ProjectLimit <- MCLimit
  ChannelLimit <- MCLimit
  MaxRows = 1
  Faults = FALSE
INVARIANT ListingWorks
\* Projects and ledger entries run out.
CHECK_DEADLOCK FALSE
