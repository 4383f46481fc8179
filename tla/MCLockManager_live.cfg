\* Two transactions on two records, both modes, try-locks, RID() inputs,
\* application aborts, reliable log I/O; no transaction requests a record
\* it has already queued on.
CONSTANTS
  r1 = r1
  r2 = r2
  InvalidRid = InvalidRid
  NoTx = NoTx
  Txns <- Txns2
  Rids <- TwoRids
  Modes <- BothModes
  MaxOps <- Ops2x2
  TryValues <- AnyTry
  CallInvalid = TRUE
  AppAborts = TRUE
  IOCanFail = FALSE
  AllowReRequest = FALSE
SPECIFICATION Spec
INVARIANT LockCompatibility
INVARIANT NoWaitCycle
PROPERTY AllFinish
