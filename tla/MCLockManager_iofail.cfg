\* A log call fails in Commit or Abort while another transaction waits.
CONSTANTS
  r1 = r1
  r2 = r2
  InvalidRid = InvalidRid
  NoTx = NoTx
  Txns <- Txns2
  Rids <- OneRid
  Modes <- XLOnly
  MaxOps <- Ops2x1
  TryValues <- AnyTry
  CallInvalid = TRUE
  AppAborts = TRUE
  IOCanFail = TRUE
  AllowReRequest = FALSE
SPECIFICATION Spec
PROPERTY AllFinish
CHECK_DEADLOCK FALSE
