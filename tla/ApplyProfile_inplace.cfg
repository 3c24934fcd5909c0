CONSTANTS
  Files <- Single
  Container = "wav"
  ImportDirs = {"in"}
  OutDirs = {"in", "out"}
  None = None
  CloseCanFail = FALSE
  MaxTracks = 1
  MaxRuns = 1
  MaxFaults = 0
  MaxRounds = 2
SPECIFICATION Spec
CHECK_DEADLOCK FALSE
INVARIANTS
  SourcesIntact
