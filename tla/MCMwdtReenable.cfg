CONSTANTS
  Stage = {0, 1}
  Hold = {0, 2}
  Prescale = {0, 2}
  Action = {0, 1, 2}
  CountMod = 5
  Cap = 9
SPECIFICATION ReenableSpec
PROPERTY DisablingRestarts
CHECK_DEADLOCK FALSE
