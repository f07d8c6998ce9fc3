SPECIFICATION FairSpec
CONSTANTS
  Obj = {"a", "b", "c", "w"}
  LoopName = {"none", "loop", "roc"}
  Fn = {"main", "f"}
  RFGs <- WaitsForEver
PROPERTY Termination
