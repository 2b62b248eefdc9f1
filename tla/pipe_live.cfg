\* Two processes that block, with the fairness of the scheduler.
CONSTANTS
  Procs = {p1, p2}
  Size = 2
  Byte = {b1}
  Junk = b1
  Counts = {1}
  Modes = {{"r"}, {"w"}, {"r", "w"}}
  Nonblock = {FALSE}
  Signals = FALSE
SPECIFICATION FairSpec
PROPERTIES
  SemaphoreServed
  ReadersServed
  WritersServed
CHECK_DEADLOCK FALSE
