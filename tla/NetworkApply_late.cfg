SPECIFICATION Spec
CONSTANTS
  N1 = N1
  N2 = N2
  Networks <- MCNetworks
  LongFast = N1
  Savable <- MCSavable
  MaxApplies = 2
  MaxConnects = 1
  Elsewhere <- MCElsewhere
PROPERTIES
  AppliedIsOnTheRadio
CHECK_DEADLOCK FALSE
