SPECIFICATION Spec
CONSTANTS
  Users = {anon, alice, bob}
  Anonymous = anon
  Threads = {t1, t2}
  NoSnapshot = NoSnapshot
  NoThread = NoThread
  MaxSwitches = 3
  MaxVersion = 2
CHECK_DEADLOCK FALSE
INVARIANTS
  TypeOK
  SnapshotIsCurrent
  StaleRequestIsSignalled
PROPERTIES
  ImplementsSnapshot
  SettlesOnCurrent
