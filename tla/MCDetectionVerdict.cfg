SPECIFICATION Spec
CONSTANTS
  Obj = {"a", "b", "c", "w"}
  LoopName = {"none", "loop", "roc"}
  Fn = {"main", "f"}
  RFGs <- JudgedPrograms
INVARIANT NoFalseVerdict
INVARIANT NoMiss
