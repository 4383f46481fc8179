\* A transaction may request XL on a record it already holds in SH.
CONSTANTS
  r1 = r1
  r2 = r2
  InvalidRid = InvalidRid
  NoTx = NoTx
  Txns <- Txns2
  Rids <- OneRid
  Modes <- BothModes
  MaxOps <- Ops2x2
  TryValues <- AnyTry
  CallInvalid = TRUE
  AppAborts = TRUE
  IOCanFail = FALSE
  AllowReRequest = TRUE
SPECIFICATION Spec
INVARIANT NoLatchCycle
CHECK_DEADLOCK FALSE
