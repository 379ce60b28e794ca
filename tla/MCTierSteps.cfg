SPECIFICATION Spec
CONSTANTS
  Links <- MCLinks
  T1 = 250
  T2 = 500
  T3 = 1000
  StepUpTime = 2
  StepDownTime = 1
  StepDownRatio = 85
  CongestedFactor = 80
  StepUpMaxLoss = 10
  StepUpMaxRtt = 300
  StepUpMaxFreeze = 0
  StepDownMinLoss = 30
  Headroom = 85
  BaseBitrate = 250
  BaseArea = 442368
  MinBitrate = 30
  MaxBoost = 1500
  MaxGap = 2
  MaxTime = 6
INVARIANTS
  TypeOK
  TierChangesAreEarned
  TierChangesArePrompt
  BitrateLeavesHeadroom
CHECK_DEADLOCK FALSE
