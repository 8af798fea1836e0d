SPECIFICATION Spec
CONSTANTS
  Callers = {c1, c2}
  Users = {alice, bob, carol}
  NoUser = NoUser
  MaxEntries = 2
  TTLs = {1, 2}
  Latency = 1
  MaxTime = 4
  MaxInvalidations = 1
CHECK_DEADLOCK FALSE
SYMMETRY MCSymmetry
INVARIANTS
  TypeOK
  ServedIsFresh
PROPERTY EvictsSoonest
