SPECIFICATION Spec
CONSTANTS
  N = 3
  Key <- MCKey
  Val = {v1, v2}
  NoVal = NoVal
  ClientOp <- UpdatesAndDeletes
  MaxOp = 2
  Nil = Nil
  Beating <- AllReplicas
  MaxTimeout = 1
  MaxLost = 1
  MaxResent = 0
  MaxSpurious = 0
  MaxCrash = 0
SYMMETRY ValueSymmetry
INVARIANTS
  TypeOK
  LogMatching
  QuorumLogged
  BackupBehindPrimary
  NoAbort
PROPERTIES
  CommitsAreFinal
CHECK_DEADLOCK FALSE
