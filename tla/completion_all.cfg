CONSTANTS
  Procs = {p1, p2, p3}
  MaxWrites = 2
SPECIFICATION FairSpec
PROPERTIES
  WriteReleasesAll
CHECK_DEADLOCK FALSE
