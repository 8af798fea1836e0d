SPECIFICATION Spec
CONSTANTS
  Users = {anon, alice}
  Anonymous = anon
  Threads = {t1}
  NoSnapshot = NoSnapshot
  NoThread = NoThread
  MaxSwitches = 1
  MaxVersion = 1
CHECK_DEADLOCK FALSE
PROPERTY SilenceForcesReconnect
