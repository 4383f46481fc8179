\* Three transactions take XL locks on two records.
CONSTANTS
  r1 = r1
  r2 = r2
  InvalidRid = InvalidRid
  NoTx = NoTx
  Txns <- Txns3
  Rids <- TwoRids
  Modes <- XLOnly
  MaxOps <- Ops3x2
  TryValues <- NoTry
  CallInvalid = FALSE
  AppAborts = FALSE
  IOCanFail = FALSE
  AllowReRequest = FALSE
SPECIFICATION Spec
INVARIANT NoWaitCycle
CHECK_DEADLOCK FALSE
SYMMETRY RidSymmetry
