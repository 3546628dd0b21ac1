CONSTANTS
  Stage = {0, 1}
  Hold = {0, 2}
  Prescale = {0, 2}
  Action = {0, 1, 2}
  CountMod = 5
  Cap = 9
  B = 2
  Divider = {0, 2}
  TimerCap = 9
SPECIFICATION TimgSpec
PROPERTIES
  NoEarlyFire
  FireInOrder
  HungIsReset
  PeriodExact
  AlarmArrives
CHECK_DEADLOCK FALSE
