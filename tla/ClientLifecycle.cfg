SPECIFICATION Spec
CONSTANTS
  Callers = {c1, c2}
  Names = {f, g}
  MaxRequests = 1
  MaxForks = 1
CHECK_DEADLOCK FALSE
INVARIANTS
  TypeOK
  NoNameForgotten
  DiscoverIsDirect
PROPERTIES
  NamesReachServer
  ReadyUnlessLockLost
