CONSTANTS
  Handlers = {"plain", "shared", "halves"}
  Size = 3
  NR_TIMEVAL = 2
  Minors = {0, 1, 64}
  UseMem = FALSE
  ReadCounts = {1, 3}
  MaxIrq <- MCMaxIrq
  MaxCount = 1
SPECIFICATION FairSpec
CHECK_DEADLOCK FALSE
INVARIANTS TypeInvariant ReadsInOrder ReaderWoken NothingRunsAfterCleanup
PROPERTY WaitsEnd
