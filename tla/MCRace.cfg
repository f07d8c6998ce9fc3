SPECIFICATION Spec
CONSTANTS
  Obj = {"x", "y", "a", "b", "m", "w"}
  LoopName = {"none", "loop"}
  Fn = {"main"}
  Entry = {"main", "test"}
  Plus = TRUE
  AppPkg = TRUE
  NoPos = 0
  Pos <- Positions
  text <- Texts
  Noisy = {6}
  Defines = {"msg := f()"}
  RFGs <- RaceRFGs
  Runs <- RaceRuns
INVARIANT SyncExact
INVARIANT CacheExact
INVARIANT OnlyRaces
PROPERTY ReportsRaces
