SPECIFICATION ScanSpec
CONSTANTS
  DivCount = 7
  AlignedSets <- Periodic
  Needs = {1, 2, 3, 4, 8}
INVARIANTS
  HitIsLeftmostFit
  MissMeansNoFit
PROPERTIES
  ScanEnds
CHECK_DEADLOCK FALSE
