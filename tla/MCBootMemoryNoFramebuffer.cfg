SPECIFICATION Spec
CONSTANTS
  PageSize = 4
  WordSize = 512
  KernelStart = 32
  EarlySlack = 64
  EarlyMin = 128
  PtSpan = 64
  HeapSize = 128
  MaxRegions = 4
  NoFramebuffer = NoFramebuffer
  KernelEnd = 45
  Mb2Info = 4
  Mb2Size = 7
  FirmwareMaps <- GoodMaps
  Framebuffers <- WithoutFramebuffer
INVARIANTS
  MissingFramebufferIsReported
CHECK_DEADLOCK FALSE
