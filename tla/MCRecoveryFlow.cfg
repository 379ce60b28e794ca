SPECIFICATION Spec
CONSTANTS
  MinKickInterval = 2
  MinBackground = 3
  Backoff <- MCBackoff
  StartTime = 2
  MaxTime = 8
INVARIANTS
  TypeOK
  NoReconnectSpam
  ResumeGating
  BackoffFollowsSchedule
CHECK_DEADLOCK FALSE
