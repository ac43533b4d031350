SPECIFICATION MCSpec
CONSTANTS
  Key <- TagTypes
  Val <- TagNumbers
  NullKey = 0
  NullVal = 0
  Capacity = 22
  TagCount = 22
  Profiles <- LoaderProfiles
  MaxModules = 21
  KeyProfile <- Bare
  Driver <- Serial16550
  Board <- PcBoard
  FbTags <- SomeFbTags
  MaxDescs = 32
  MaxDrivers = 16
  MaxBindings = 32
  Keys <- SomeKeys
  Pause = 999999
  QueueSize = 2
  MaxKeyEvents = 3
INVARIANTS
  FoundIsLatest
  ConsoleIsCom1
  WireIsTheLog
  NoStuckModifier
PROPERTIES
  EventsAreKeys
  BootEnds
CHECK_DEADLOCK FALSE
