CONSTANTS
  Drivers = {"step", "fast", "batch"}
  Period = {0, 2}
  MaxSkip = 2
  MaxUlp = 5
  Bites = TRUE
SPECIFICATION SleepSpec
INVARIANTS DeepWakeHasCause
PROPERTIES KindRespected UlpCauseFresh SleepEnds 
