\* Two processes of one user.
CONSTANTS
  p1 = p1
  p2 = p2
  p3 = p3
  p4 = p4
  Procs = {p1, p4}
  Users = {1, 2}
  uid <- MCUid
  euid <- MCEuid
  Root = {}
  Nonblock = {TRUE, FALSE}
  Signals = FALSE
SPECIFICATION Spec
INVARIANT TrimAlone
