CONSTANTS
  Count = 3
  ThreadArgs = {0, 2}
  HardwareCounts = {0}
  Controllers = {c1, c2}
SPECIFICATION Spec
SYMMETRY ControllerSymmetry
INVARIANTS
  TypeOK
  FinalCounts
  AtMostOneLateItem
PROPERTIES
  ReportsNeverDecrease
  ImplementsBatch
