SPECIFICATION Spec
CONSTANTS
  Obj = {"a", "b", "c", "m", "n", "w", "x", "y"}
  LoopName <- MCLoopName
  Fn <- MCFn
  RFGs <- NoGraphs
  Programs <- BranchInCase
  limit = 3
  DoRace = TRUE
INVARIANT CaseBodiesFilled
CHECK_DEADLOCK FALSE
