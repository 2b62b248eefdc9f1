\* Four processes: of user 1, of user 2, of user 2 acting as 1, and root.
CONSTANTS
  p1 = p1
  p2 = p2
  p3 = p3
  p4 = p4
  Procs = {p1, p2, p3, p4}
  Users = {1, 2}
  uid <- MCUid
  euid <- MCEuid
  Root = {p4}
  Nonblock = {TRUE, FALSE}
  Signals = TRUE
SPECIFICATION FairSpec
INVARIANTS
  TypeInvariant
  CountExact
  OneOpener
  OwnersOnly
  NoLostWakeup
  SingleTrimAlone
PROPERTY OpensWhenFree
