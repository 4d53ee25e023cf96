SPECIFICATION Spec
CONSTANTS
  N = 3
  Key <- MCKey
  Val <- MCVal
  NoVal = NoVal
  ClientOp <- UpdatesAndDeletes
  MaxOp = 2
  Nil = Nil
  Beating <- AllReplicas
  MaxTimeout = 1
  MaxLost = 0
  MaxResent = 0
  MaxSpurious = 0
  MaxCrash = 0
INVARIANTS
  KvAgreement
