\* Two transactions share a record in SH and commit; log I/O is reliable.
CONSTANTS
  r1 = r1
  r2 = r2
  InvalidRid = InvalidRid
  NoTx = NoTx
  Txns <- Txns2
  Rids <- OneRid
  Modes <- BothModes
  MaxOps <- Ops2x1
  TryValues <- AnyTry
  CallInvalid = TRUE
  AppAborts = TRUE
  IOCanFail = FALSE
  AllowReRequest = FALSE
SPECIFICATION Spec
INVARIANT CommitOutcomeMatchesLog
CHECK_DEADLOCK FALSE
