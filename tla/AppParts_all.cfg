SPECIFICATION Spec
CONSTANTS
  Parts = {"config", "channels", "traces", "removals", "board", "window", "dms", "passes", "schema"}
  MaxOpened = 2
  Fields = {tz, role}
  TzField = tz
  Values = {x, y}
  HostTz = x
  Sections <- MCSections
  NoValue = NoValue
  MaxChosen = 1
  MaxSlot = 2
  LongFast = LongFast
  Home = Home
  Spare = Spare
  Keys = {LongFast, Home, Spare}
  Reported <- MCReported
  Free = Free
  NoChannel = NoChannel
  NotLoaded = NotLoaded
  MaxAsked = 2
  Nodes = {n1, n2}
  NoNode = NoNode
  MaxTraces = 2
  MaxPresses = 3
  Nowhere = Nowhere
  GridRows = 11
  GridCols = 21
  TopRing = 5
  Span = 100
  Cosine <- MCCosine
  Sine <- MCSine
  Remotes = {1, 2, 3}
  Favorites = {3}
  FirstKnown <- MCFirstKnown
  Depths = {0, 3}
  Places <- MCPlaces
  Sizes <- MCSizes
  MaxRemote = 2
  MaxWindows = 2
  MaxChanges = 2
  Chans = {1, 2}
  Messages = {1, 2, 3, 4, 5}
  ChanOf <- MCChanOf
  Limit = 1
  PageSize = 1
  Ceiling = 1
  MaxMoves = 4
  Peers = {p, q}
  NoPeer = NoPeer
  Elsewhere = Elsewhere
  DmKeys = {k, l}
  NoKey = NoKey
  MaxRows = 2
  MeshNodes = {1, 2}
  MaxTime = 2
  MaxHops = 1
  MaxEvents = 2
  Openers = {app}
  Nobody = Nobody
  SchemaVersion = 8
  Ages = {0, 1, 2, 3, 4, 5, 6, 7, 8, 9}
INVARIANTS
  PartsTypeOK
  RowsAreTrue
  ChosenIsShown
  TraceEndsAsItself
  RemovedWhenConfirmed
  EveryNodeHasItsCell
  RingsTellDepth
  NothingIsHidden
  
  DmGoesWhereShown
  DmHistoryIsOwn
  NothingIsForgotten
  ListIsRecord
  OpensAsCurrent
  PacketIsStoredOnce
PROPERTIES
  SyncIsOfThisLink
  NoChannelOverwritten
  LayoutIsStable
CHECK_DEADLOCK FALSE
