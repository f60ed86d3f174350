\* One monitor whose link may die between the SDK constructor and its use.
SPECIFICATION FairSpec
CONSTANTS
  devA = devA
  devB = devB
  p1 = p1
  p2 = p2
  None = None
  Devices <- MCDevices
  FirstDevice = devA
  Packets <- MCOnePacket
  RadioOf <- MCRadioOfOne
  MaxConnects = 2
  MaxMonitors = 1
  MaxHeld = 1
PROPERTY
  DeadLinkIsNoticed
CHECK_DEADLOCK FALSE
