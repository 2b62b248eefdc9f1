\* A write that sleeps on a full buffer, and an open that empties it.
CONSTANTS
  Procs = {p1, p2}
  Size = 2
  Byte = {b1}
  Junk = b1
  Counts = {1}
  Modes = {{"r"}, {"w"}, {"r", "w"}}
  Nonblock = {FALSE}
  Signals = FALSE
SPECIFICATION Spec
INVARIANT SpaceAlwaysSignalled
CHECK_DEADLOCK FALSE
