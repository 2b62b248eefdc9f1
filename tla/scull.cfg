\* A list of three items, each an array of one quantum of two bytes: reads and
\* writes of nothing and of more than a quantum, in sequence and, by pread and
\* pwrite, at the second byte of the second and of the third quantum.
CONSTANTS
  Procs = {p1, p2}
  Quantum = 2
  Qset = 1
  Items = 3
  Byte = {b1, b2}
  Junk = Junk
  Counts = {0, 3}
  Offsets = {3, 5}
SPECIFICATION Spec
INVARIANTS
  TypeInvariant
  SemaphoreExact
  StoreSound
PROPERTIES
  ReadsDontAllocate
  ImplementsFile
SYMMETRY Symmetry
