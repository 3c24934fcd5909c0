CONSTANTS
  Rate = 12
  Second = 8
  MinMs = 2
  Threshold = 1
  Ambiguous = 3
  LeadIn = 1
  Target <- MCTarget
  Clamp = 2400
  Ceiling <- MCCeiling
  Tiny = 5
  Frames <- Sounds
  Measures <- Levels
  MaxBlock = 2
  MaxFrames = 7
  SubLen = 1
  DrLen = 2
  AbsoluteGate = 3
  GateRatio = 2
  TopShare = 2
SPECIFICATION AnalysisSpec
CHECK_DEADLOCK FALSE
INVARIANTS
  TypeOK
  DetectionIgnoresBlocks
  WindowInsideFile
  MusicSurvives
  SilenceIsRemoved
  GainIsSafe
  MeterIgnoresBlocks
  MeasuresAreInRange
PROPERTIES
  DryRunTellsDuration
