CONSTANTS
  N = 8
  Inc = {1, 2, 3}
  Reach = {2, 3}
  MaxDepth = 4
  Line = {"low", "high"}
  LevelOf <- Levels
  EXCM_LEVEL = 3
  MaxNest = 5
  NmiWired = FALSE
SPECIFICATION CpuSpec
INVARIANTS WindowSound NestsUpward
PROPERTIES RefinesCallStack InsnCompletes ResumesExactly Delivered
