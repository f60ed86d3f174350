\* A device switch while the old monitor is inside the SDK constructor.
SPECIFICATION Spec
CONSTANTS
  devA = devA
  devB = devB
  p1 = p1
  p2 = p2
  None = None
  Devices <- MCDevices
  FirstDevice = devA
  Packets <- MCOnePacket
  RadioOf <- MCRadioOfOne
  MaxConnects = 2
  MaxMonitors = 2
  MaxHeld = 1
INVARIANT
  WatchesAnInterface
CHECK_DEADLOCK FALSE
