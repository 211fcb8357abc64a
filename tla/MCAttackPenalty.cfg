SPECIFICATION FairSpec
CONSTANTS
  r1 = r1
  r2 = r2
  none = none
  Robot <- MCRobot
  Nobody = none
  Receivers = {0}
  MaxChanges = 1
  CheckTime = 0
  PassTime = 1
  WaitTime = 1
  LostTime = 0
  TimeBound = 1
PROPERTY
  PenaltyInTime
CHECK_DEADLOCK FALSE
