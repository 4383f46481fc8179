\* Two transactions on two records, both modes, try-locks, RID() inputs,
\* application aborts, re-requests (a lock upgrade among them) and failing
\* log I/O.
CONSTANTS
  r1 = r1
  r2 = r2
  InvalidRid = InvalidRid
  NoTx = NoTx
  Txns <- Txns2
  Rids <- TwoRids
  Modes <- BothModes
  MaxOps <- Ops2x2
  TryValues <- AnyTry
  CallInvalid = TRUE
  AppAborts = TRUE
  IOCanFail = TRUE
  AllowReRequest = TRUE
SPECIFICATION Spec
INVARIANT TypeOK
INVARIANT LockListExact
INVARIANT CommitDurableBeforeRelease
SYMMETRY RidSymmetry
\* A transaction whose log call failed keeps its locks, and an upgrade that
\* dies blocks on its own head latch: this workload can stop with a thread
\* blocked for ever.
CHECK_DEADLOCK FALSE
