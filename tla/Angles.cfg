CONSTANTS
  i1 = i1
  i2 = i2
  e1 = e1
  e2 = e2
  Ideas <- TwoIdeas
  Angles <- EveryAngle
  Prompts <- OnePrompt
  Editors <- TwoEditors
  MaxAngles = 2
  MaxCount = 2
SPECIFICATION Spec
SYMMETRY Symmetric
INVARIANTS
  TypeOK
  GatesAgree
  ApprovedThroughGate
PROPERTY DecisionsStick
\* Once the ideas are deleted nothing is left to do.
CHECK_DEADLOCK FALSE
