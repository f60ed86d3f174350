\* A channel message whose view is rebuilt, a store that fails once.
SPECIFICATION Spec
CONSTANTS
  m1 = m1
  Messages <- MCMessages
  DirectMessages <- MCNone
  MaxLoads = 2
  MaxGen = 2
  MaxResponses = 1
  MaxFaults = 1
  MidSessionReload = TRUE
INVARIANTS
  RowTruthful
PROPERTIES
  FinalWithinGeneration
CHECK_DEADLOCK FALSE
