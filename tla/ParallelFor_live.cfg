CONSTANTS
  Count = 2
  ThreadArgs = {0, 5}
  HardwareCounts = {0}
  Controllers = {c1}
SPECIFICATION FairSpec
PROPERTIES
  CancelEndsBatch
  FinishesUnlessPaused
