SPECIFICATION Spec
CONSTANTS
  Senders = {s1}
  Flushers = {f1}
  Main = Main
  AtExit = AtExit
  Capacity = 2
  MaxAttempts = 2
  MaxEvents = 3
  Urgent = {1}
CHECK_DEADLOCK FALSE
INVARIANTS
  TypeOK
  EventsAccounted
  OldestFirst
  FlushMeansSettled
  ExitDrainsBuffer
PROPERTIES
  ErrorStaysSignalled
  StopEnds
