SPECIFICATION VcSpec
CONSTANTS
  N = 3
  Key <- MCKey
  Val <- MCVal
  NoVal = NoVal
  ClientOp <- TwoOps
  Committed <- OneCommitted
  MaxOp = 2
  MaxView = 1
  Nil = Nil
  Beating <- NoReplica
  MaxTimeout = 0
  MaxVcTimeout = 0
  MaxLost = 0
  MaxResent = 0
  MaxSpurious = 0
  MaxCrash = 0
INVARIANTS
  KvMatchesLog
CHECK_DEADLOCK FALSE
