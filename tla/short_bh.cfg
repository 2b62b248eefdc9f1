CONSTANTS
  Handlers = {"halves"}
  Size = 3
  NR_TIMEVAL = 3
  Minors = {0}
  UseMem = FALSE
  ReadCounts = {1}
  MaxIrq <- MCMaxIrq
  MaxCount = 1
SPECIFICATION Spec
CHECK_DEADLOCK FALSE
PROPERTY EachInterruptOnce
