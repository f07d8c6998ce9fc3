SPECIFICATION FairSpec
CONSTANTS
  Obj = {"a", "b", "c", "m", "n", "w", "x", "y"}
  LoopName <- MCLoopName
  Fn <- MCFn
  RFGs <- NoGraphs
  Programs <- SmallPrograms
  limit = 3
  DoRace = TRUE
INVARIANT WellBuilt
INVARIANT PathExact
INVARIANT LocksetExact
PROPERTY BuildEnds
CHECK_DEADLOCK FALSE
