SPECIFICATION Spec
CONSTANTS
  N = 2
  Nil = Nil
  Updating = {0, 1}
  Beating = {0, 1}
  Changing = {0, 1}
  Recovering = {0}
  MaxView = 1
  MaxLost = 1
  MaxStart = 5
INVARIANTS
  NormalCaseNeverDeadlocks
  KnownDeadlocks
  NobodyWaitsForIdle
CHECK_DEADLOCK FALSE
