\* Failed attempts, lost links and a device switch; one packet may be held.
SPECIFICATION FairSpec
CONSTANTS
  devA = devA
  devB = devB
  p1 = p1
  p2 = p2
  None = None
  Devices <- MCDevices
  FirstDevice = devA
  Packets <- MCTwoPackets
  RadioOf <- MCRadioOf
  MaxConnects = 2
  MaxMonitors = 2
  MaxHeld = 1
INVARIANTS
  TypeOK
  NothingReplayedTwice
  
PROPERTIES
  HeldIsNeverLost
  LostLinkIsNoticed
CHECK_DEADLOCK FALSE
