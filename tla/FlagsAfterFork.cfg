SPECIFICATION Spec
CONSTANTS
  Threads = {threading}
  Loops = {l1}
  MaxContested = 1
  Emitters = {e1}
  MaxInits = 1
  MaxForks = 1
CHECK_DEADLOCK FALSE
INVARIANT FlagsAreLive
