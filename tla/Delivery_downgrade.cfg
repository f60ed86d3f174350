\* One message whose acknowledgement may overtake its SendSubmitted.
SPECIFICATION Spec
CONSTANTS
  m1 = m1
  Messages <- MCMessages
  DirectMessages <- MCNone
  MaxLoads = 1
  MaxGen = 1
  MaxResponses = 1
  MaxFaults = 0
  MidSessionReload = FALSE
PROPERTIES
  SentIsNeverScheduled
CHECK_DEADLOCK FALSE
