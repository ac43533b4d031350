SPECIFICATION Spec
CONSTANTS
  PageSize = 4
  WordSize = 512
  KernelStart = 32
  KernelEnd = 86
  Mb2Info = 4
  Mb2Size = 7
  EarlySlack = 64
  EarlyMin = 128
  PtSpan = 64
  HeapSize = 128
  MaxRegions = 4
  NoFramebuffer = NoFramebuffer
  FirmwareMaps <- AllMaps
  Framebuffers <- AllFramebuffers
INVARIANTS
  FramesHaveOneOwner
  FramesAreRam
  TablesReachable
PROPERTIES
  Boots
CHECK_DEADLOCK FALSE
