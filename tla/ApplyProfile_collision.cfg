CONSTANTS
  Files <- Music
  Container = "wav"
  ImportDirs = {"in"}
  OutDirs = {"out"}
  None = None
  CloseCanFail = FALSE
  MaxTracks = 2
  MaxRuns = 1
  MaxFaults = 0
  MaxRounds = 2
SPECIFICATION Spec
CHECK_DEADLOCK FALSE
INVARIANTS
  EachTrackHasItsOwnOutput
