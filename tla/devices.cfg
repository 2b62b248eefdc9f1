\* Three processes on each device with processes (two on scullc), two
\* terminals on two processors.  Two structs for the USB device: one is open
\* while the other is plugged in.  Two bytes to a quantum of scullc and one
\* quantum to an item: positions 0 to 3 are two quanta in two items.  Three
\* interrupt lines, the port on 7, other devices on 3 and 5.  Everyone may be
\* asleep, dead or unloaded for good in the end.
CONSTANTS
  p1 = p1
  p2 = p2
  p3 = p3
  t1 = t1
  t2 = t2
  None = None
  Procs = {p1, p2, p3}
  MaxWrites = 4
  Devs = {d1, d2}
  MaxUrbs = 1
  Items = {1, 2, 3}
  Terminals = {t1, t2}
  NoTty = NoTty
  tty <- MCTty
  CPUs = 2
  SlabProcs = {p1, p2}
  Quantum = 2
  Qset = 1
  MaxPos = 3
  MaxFiles = 2
  Lines = {3, 5, 7}
  Wired = 7
  Shared = {3, 5}
  Default = 7
SPECIFICATION Spec
INVARIANTS
  TypeInvariant
  NoLostWakeup
  UnitsConserved
  NoUseAfterFree
  OneDevicePerTerminal
  NoStaleBytes
  NothingLeft
  OpenFindsDevice
  HandlerAccounted
PROPERTIES
  ReaderReleased
  UnitsTaken
CHECK_DEADLOCK FALSE
