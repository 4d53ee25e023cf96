SPECIFICATION RcFairSpec
CONSTANTS
  N = 3
  Key <- MCKey
  Val <- MCVal
  NoVal = NoVal
  ClientOp <- OneOp
  Committed <- OneCommitted
  MaxOp = 2
  MaxView = 0
  Nil = Nil
  Beating <- NoReplica
  MaxTimeout = 0
  MaxVcTimeout = 1
  MaxLost = 0
  MaxResent = 0
  MaxSpurious = 0
  MaxCrash = 0
  CfgFile <- MCCfgFile
  Restarting = {1}
  MaxRestart = 2
  MaxRcFault = 1
  Nonce = {1, 2}
  UninitFlag <- GarbageFlag
CONSTRAINT OneFaultOrTwoStarts
INVARIANTS
  AckedInQuorum
  RejoinedAgrees
PROPERTIES
  RecoveryCompletes
CHECK_DEADLOCK FALSE
