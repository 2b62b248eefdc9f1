\* Every call of two processes, blocking and not, with signals and failures,
\* on a buffer of 3.  Two values of a byte, and one of memory never written.
CONSTANTS
  Junk = Junk
  Procs = {p1, p2}
  Size = 3
  Byte = {b1, b2}
  Counts = {0, 1, 3}
  Modes = {{"r"}, {"w"}, {"r", "w"}}
  Nonblock = {TRUE, FALSE}
  Signals = TRUE
SPECIFICATION Spec
INVARIANTS
  TypeInvariant
  SemaphoreExact
  OpeningsCounted
  NoUseAfterFree
  ReadersWoken
  WritersWoken
PROPERTIES
  ImplementsFifo
  DroppedOnlyByOpenOrLastRelease
SYMMETRY Symmetry
