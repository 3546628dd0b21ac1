CONSTANTS
  Line = {"low", "high"}
  LevelOf <- Levels
  EXCM_LEVEL = 3
  MaxNest = 5
  NmiWired = TRUE
SPECIFICATION IntSpec
INVARIANT NmiEdgeLike
