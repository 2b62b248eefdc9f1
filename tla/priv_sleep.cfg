\* Three processes of two terminals on two processors.
CONSTANTS
  p1 = p1
  p2 = p2
  p3 = p3
  t1 = t1
  t2 = t2
  Procs = {p1, p2, p3}
  Terminals = {t1, t2}
  Items = {1, 2}
  NoTty = NoTty
  None = None
  tty <- MCTty
  CPUs = 2
SPECIFICATION FairSpec
CHECK_DEADLOCK FALSE
PROPERTY HolderRunsOn
