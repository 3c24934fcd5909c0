CONSTANTS
  Files = {f1, f2}
  CliImports = {c1}
  GuiImports = {g1}
  Analyses = {a1}
  None = None
  MaxEdits = 1
SPECIFICATION Spec
CHECK_DEADLOCK FALSE
SYMMETRY FileSymmetry
INVARIANTS
  TypeOK
  ResultsBelongToTheirTracks
  ImportReportIsTrue
  SuccessMeansAllAnalysed
