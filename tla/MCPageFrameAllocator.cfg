SPECIFICATION Spec
CONSTANTS
  PageSize = 4
  WordSize = 64
  ManagedBase = 0
  Frames = 9
  BitmapBytes = 1
  UsableRanges <- SmallUsable
  ReserveRanges <- SmallReserved
  Strays <- SmallStrays
INVARIANTS
  TypeOK
  NothingFreeBelowHint
  HandedIsUsed
  HandedIsUsable
PROPERTIES
  ZeroMeansFull
  ImplementsStore
