SPECIFICATION FairSpec
CONSTANT Functions <- SmallFunctions
INVARIANT IndexSafe
INVARIANT DeferExact
INVARIANT DoneReported
INVARIANT LockReported
INVARIANT LockReleased
PROPERTY FlowEnds
CHECK_DEADLOCK FALSE
