SPECIFICATION Spec
CONSTANTS
  N = 3
  Key = {k1, k2}
  Val <- MCVal
  NoVal = NoVal
  ClientOp <- Updates
  MaxOp = 2
  Nil = Nil
  Beating <- AllReplicas
  MaxTimeout = 0
  MaxLost = 0
  MaxResent = 0
  MaxSpurious = 0
  MaxCrash = 1
SYMMETRY KeySymmetry
INVARIANTS
  KvAgreement
  AckedSurvives
PROPERTIES
  ImplementsReplicatedStore
CHECK_DEADLOCK FALSE
