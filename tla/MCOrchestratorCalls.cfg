SPECIFICATION FairSpec
CONSTANTS
  Flows = {f1, f2}
  Addrs = {a1}
  NoAddr = NoAddr
  MaxAttempts = 2
  MaxAge = 1
  StartTime = 2
  MaxTime = 3
  MaxStrays = 1
  MaxHints = 0
  MinKickInterval = 1
  MinBackground = 1
  Backoff <- MCBackoff
PROPERTY ConnectEnds
CHECK_DEADLOCK FALSE
