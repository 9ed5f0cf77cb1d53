SPECIFICATION Spec
CONSTANTS
  Projects <- MCProjects
  Metadata <- MCMetadata
  Embedded <- MCEmbedded
  MaxHistory = 4
INVARIANTS
  CopiesAreBlocked
  NoSharedWordNoBlock
PROPERTY RiskNeverDrops
\* The history ends at MaxHistory.
CHECK_DEADLOCK FALSE
