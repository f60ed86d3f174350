SPECIFICATION FairSpec
CONSTANTS
  N1 = N1
  N2 = N2
  Networks <- MCNetworks
  LongFast = N1
  Savable <- MCSavable
  MaxApplies = 2
  MaxConnects = 2
  Elsewhere <- MCElsewhere
INVARIANTS
  TypeOK
  
PROPERTIES
  
  EveryApplyEnds
CHECK_DEADLOCK FALSE
