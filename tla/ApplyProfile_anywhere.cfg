CONSTANTS
  Files <- Music
  Container = "wav"
  ImportDirs = {"in"}
  OutDirs = {"in", "out"}
  None = None
  CloseCanFail = TRUE
  MaxTracks = 2
  MaxRuns = 2
  MaxFaults = 1
  MaxRounds = 2
SPECIFICATION Spec
CHECK_DEADLOCK FALSE
INVARIANTS
  AuditedOutputsExist
  CancelLeavesNoTornFile
