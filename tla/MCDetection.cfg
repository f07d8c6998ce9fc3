SPECIFICATION FairSpec
CONSTANTS
  Obj = {"a", "b", "c", "w"}
  LoopName = {"none", "loop", "roc"}
  Fn = {"main", "f"}
  RFGs <- AllRFGs
INVARIANT TypeOK
INVARIANT OwnPause
INVARIANT PairsAgree
INVARIANT PairsOnceEach
INVARIANT ConsumeAfterProduce
INVARIANT UnlockReleases
INVARIANT HipSound
INVARIANT NoneLostElse
INVARIANT SendWaitsElse
INVARIANT Exclusion
PROPERTY OnlyNilPanics
PROPERTY PairsStable
PROPERTY SearchEnds
