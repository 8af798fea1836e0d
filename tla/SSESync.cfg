SPECIFICATION Spec
CONSTANTS
  Users = {anon, alice}
  Anonymous = anon
  Threads = {t1, t2}
  NoSnapshot = NoSnapshot
  NoThread = NoThread
  MaxSwitches = 2
  MaxVersion = 2
CHECK_DEADLOCK FALSE
INVARIANTS
  TypeOK
  SnapshotIsCurrent
  StaleConnectionIsSignalled
PROPERTIES
  ImplementsSnapshot
  SettlesOnCurrent
  SilentStreamIsReplaced
  CloseStops
