CONSTANTS
  Openers = {p1, p2, p3}
  NumDefaults = 2
  MaxFaults = 1
SPECIFICATION FairSpec
INVARIANTS
  TypeOK
  VersionNeverAhead
  OpenLibraryIsUsable
  ProfilesArePrefixOfDefaults
PROPERTIES
  EveryOpenSucceedsInTheEnd
