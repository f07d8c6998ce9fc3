SPECIFICATION FairSpec
CONSTANTS
  N = 2
  Par = 2
  Settings <- Commands
  NodeId = {1}
INVARIANT OwnAnswer
INVARIANT ComparedInTime
INVARIANT AllOrNothing
INVARIANT ParallelComplete
INVARIANT SkipsOwnInTime
PROPERTY DriverEnds
PROPERTY LateEnds
CHECK_DEADLOCK FALSE
