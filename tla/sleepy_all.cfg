\* Two readers asleep and one writer.  All may sleep for good in the end.
CONSTANTS
  Procs = {p1, p2, p3}
  Signals = FALSE
SPECIFICATION FairSpec
PROPERTY WriteWakesAll
CHECK_DEADLOCK FALSE
