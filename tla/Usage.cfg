SPECIFICATION Spec
CONSTANTS
  Requests = {r1, r2}
  Threads = {t1}
  Projects = {p1, p2, p3}
  NoProject = NoProject
  Channels = {c1}
  Codes <- MCCodes
  NoLimit = NoLimit
  ProjectLimit <- MCLimit
  ChannelLimit <- MCLimit
  MaxRows = 1
  Faults = TRUE
SYMMETRY ProjectsAlike
INVARIANTS
  TypeOK
  OvershootBounded
  ReturnedIsCharged
  TwiceOnlyIfLate
  EntriesKeepProjects
\* Projects and ledger entries run out.
CHECK_DEADLOCK FALSE
