\* Two transactions take XL locks and commit; a log flush may fail.
CONSTANTS
  r1 = r1
  r2 = r2
  InvalidRid = InvalidRid
  NoTx = NoTx
  Txns <- Txns2
  Rids <- OneRid
  Modes <- XLOnly
  MaxOps <- Ops2x1
  TryValues <- AnyTry
  CallInvalid = FALSE
  AppAborts = FALSE
  IOCanFail = TRUE
  AllowReRequest = FALSE
SPECIFICATION Spec
INVARIANT CommitOutcomeMatchesLog
CHECK_DEADLOCK FALSE
