SPECIFICATION Spec
CONSTANTS
  Callers = {c1}
  Users = {alice}
  NoUser = NoUser
  MaxEntries = 1
  TTLs = {1}
  Latency = 1
  MaxTime = 2
  MaxInvalidations = 1
CHECK_DEADLOCK FALSE
INVARIANT InvalidateRefetches
