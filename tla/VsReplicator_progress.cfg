SPECIFICATION FairSpec
CONSTANTS
  N = 2
  Key <- MCKey
  Val <- MCVal
  NoVal = NoVal
  ClientOp <- OneOp
  MaxOp = 2
  Nil = Nil
  Beating <- AllReplicas
  MaxTimeout = 2
  MaxLost = 1
  MaxResent = 1
  MaxSpurious = 1
  MaxCrash = 0
PROPERTIES
  RequestAnswered
  CommitPropagates
CHECK_DEADLOCK FALSE
