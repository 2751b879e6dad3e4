CONSTANTS
  LineIds = {1, 2, 3, 4, 5, 6}
  Free = 3
  FreeRefs = 3
  Paths = {"f"}
  Terms = {"x", "y", "z"}
  Texts = {"xy", "xx", "yxz", "z"}
  Grams <- MCGrams
  MaxTermIds = 5
  MaxRefs = 20
  Budget = 2
  CommonCutoff = 8
  MinParallel = 4
  ChunkTarget = 2
  MaxTasks = 3
SPECIFICATION MCSpec
CHECK_DEADLOCK FALSE
INVARIANT ExactPreferred
