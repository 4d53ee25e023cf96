SPECIFICATION VcFairSpec
CONSTANTS
  N = 3
  Key <- MCKey
  Val <- MCVal
  NoVal = NoVal
  ClientOp <- OneOp
  Committed <- OneCommitted
  MaxOp = 2
  MaxView = 2
  Nil = Nil
  Beating <- NoReplica
  MaxTimeout = 0
  MaxVcTimeout = 1
  MaxLost = 1
  MaxResent = 1
  MaxSpurious = 1
  MaxCrash = 1
CONSTRAINT OneTroubleOrCrash
INVARIANTS
  VcTypeOK
  QuorumInView
  OnePrimaryPerView
  ViewAgreement
PROPERTIES
  CommitNumsGrow
  BackupTakesOver
CHECK_DEADLOCK FALSE
