SPECIFICATION Spec
CONSTANTS
  Handlers = {h1, h2}
  Gated = {h1}
  Tokens = {tok, tik}
  NoToken = NoToken
  Withdrawn = {tok}
  MaxSize = 1
  TTL = 2
  Attempts = 2
  Budget = 2
  Latency = 1
  MaxTime = 4
CHECK_DEADLOCK FALSE
INVARIANTS
  TypeOK
  LapsedIsRefused
  OutageIsNotSignOut
  NoLateAttempt
