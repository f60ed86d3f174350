\* A direct message with early and late responses and crashes, a working store.
SPECIFICATION FairSpec
CONSTANTS
  m1 = m1
  Messages <- MCMessages
  DirectMessages <- MCMessages
  MaxLoads = 2
  MaxGen = 2
  MaxResponses = 2
  MaxFaults = 0
  MidSessionReload = FALSE
INVARIANTS
  TypeOK
  EntryTruthful
  NoAbandonedSending
PROPERTIES
  AttemptsAreHistory
  EverySendResolves
  KeepsPromise
CHECK_DEADLOCK FALSE
