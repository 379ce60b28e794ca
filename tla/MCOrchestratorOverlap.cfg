SPECIFICATION Spec
CONSTANTS
  Flows = {f1, f2}
  Addrs = {a1, a2}
  NoAddr = NoAddr
  MaxAttempts = 2
  MaxAge = 0
  StartTime = 2
  MaxTime = 3
  MaxStrays = 0
  MaxHints = 1
  MinKickInterval = 1
  MinBackground = 1
  Backoff <- MCBackoff
SYMMETRY MCSymmetry
INVARIANTS
  TypeOK
  ConnectedIsRecorded
  ConnectingIsBacked
  RetryTimerIsUnique
  ConnectedMeansPeerUp
PROPERTIES
  FailedAsksServer
  LearnedAddressKept
CHECK_DEADLOCK FALSE
