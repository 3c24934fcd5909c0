CONSTANTS
  MaxJobs = 3
  Total = 2
  Bad = {1}
  Profiles = {club, mono}
  First = club
  Nothing = Nothing
SPECIFICATION FairSpec
CHECK_DEADLOCK FALSE
INVARIANTS
  TypeOK
  NoWorkerDiscarded
  UncancelledJobsComplete
  IdleWindowIsCurrent
PROPERTIES
  BusyEnds
  CloseEnds
