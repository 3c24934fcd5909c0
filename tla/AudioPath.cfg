CONSTANTS
  Word = 32
  Profiles <- MCProfiles
  Sources <- MCSources
  Delay = 2
  None = None
SPECIFICATION Spec
CHECK_DEADLOCK FALSE
INVARIANTS
  TypeOK
  EveryFrameIsRead
  ReportedOutputConforms
