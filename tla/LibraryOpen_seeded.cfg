CONSTANTS
  Openers = {p1, p2}
  NumDefaults = 3
  MaxFaults = 0
SPECIFICATION Spec
SYMMETRY OpenerSymmetry
INVARIANTS
  OpenLibraryIsSeeded
