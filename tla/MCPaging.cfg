SPECIFICATION Spec
CONSTANTS
  Entries = 5
  KernelPdeBase = 3
  IdentityPdes = {0, 1}
  Frame <- MCFrame
  EarlyPd = 1
  KMapPt = 4
  IdentityPt <- MCIdentityPt
  Pools <- MCPools
  Pages <- MCPages
  Targets <- MCTargets
  FlagSets <- MCFlagSets
  MaxRange = 2
INVARIANTS
  FramesHaveOneRole
  UserSpaceWithinKernel
  TlbStaleOnlyWhereDirty
PROPERTIES
  ImplementsPageMap
CHECK_DEADLOCK FALSE
