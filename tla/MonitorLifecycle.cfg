SPECIFICATION Spec
CONSTANTS
  Threads = {threading}
  Loops = {l1}
  MaxContested = 1
  Emitters = {e1}
  MaxInits = 2
  MaxForks = 1
CHECK_DEADLOCK FALSE
INVARIANTS
  TypeOK
  BufferedIsDelivered
  EventsMatchTheirInit
  UncaughtIsShown
  ClosedLeavesNothing
  OthersStillRun
