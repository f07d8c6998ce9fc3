SPECIFICATION FairSpec
CONSTANTS
  Node <- Nodes
  Constraint <- AllConstraints
  Points <- Typing
  Tag <- Tags
  Assignable <- AssignablePairs
  SizeOf <- Sizes
  Method <- Methods
  InScope = {"f"}
  Obj <- Objs
  Sig <- Sigs
  Body <- Bodies
  Inputs <- Systems
  Limits = {0, 2}
  Size = 3
INVARIANT NoPanic
INVARIANT Solved
PROPERTY Implements
PROPERTY Terminates
CHECK_DEADLOCK FALSE
