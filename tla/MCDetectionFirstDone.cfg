SPECIFICATION Spec
CONSTANTS
  Obj = {"a", "b", "c", "w"}
  LoopName = {"none", "loop", "roc"}
  Fn = {"main", "f"}
  RFGs <- TwoDones
INVARIANT WaitForAll
