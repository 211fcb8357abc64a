SPECIFICATION CoopSpec
CONSTANTS
  r1 = r1
  r2 = r2
  none = none
  Robot <- MCRobot
  Nobody = none
  Receivers = {0, 6}
  MaxChanges = 1
  CheckTime = 0
  PassTime = 1
  WaitTime = 1
  LostTime = 0
  TimeBound = 1
INVARIANTS
  TypeOK StartsOnSignal TouchesOnce KickedHasReceiver ShooterIsServed PassWaits
  OnlyChaserKicks RestsBeforeLeaving
PROPERTY
  PlaysEnd ALoneRobotChases
CHECK_DEADLOCK FALSE
