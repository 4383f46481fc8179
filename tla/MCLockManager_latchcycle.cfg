\* Three transactions, both modes, no transaction re-requests a record.
CONSTANTS
  r1 = r1
  r2 = r2
  InvalidRid = InvalidRid
  NoTx = NoTx
  Txns <- Txns3
  Rids <- TwoRids
  Modes <- BothModes
  MaxOps <- Ops3Latch
  TryValues <- NoTry
  CallInvalid = FALSE
  AppAborts = FALSE
  IOCanFail = FALSE
  AllowReRequest = FALSE
SPECIFICATION Spec
INVARIANT NoLatchCycle
CHECK_DEADLOCK FALSE
SYMMETRY RidSymmetry
