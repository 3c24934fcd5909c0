CONSTANTS
  Files <- Music
  Container = "wav"
  ImportDirs = {"in"}
  OutDirs = {"out"}
  None = None
  CloseCanFail = FALSE
  MaxTracks = 3
  MaxRuns = 2
  MaxFaults = 2
  MaxRounds = 2
SPECIFICATION Spec
CHECK_DEADLOCK FALSE
INVARIANTS
  TypeOK
  SourcesIntact
  NoSecondPass
  SuccessMeansAllRecorded
