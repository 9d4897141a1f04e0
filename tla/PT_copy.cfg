CONSTANTS
  Name = {x1, x2, x3, x4, x5}
  NoName = NoName
  None = None
SPECIFICATION FairSpec
PROPERTIES
  ImplementsParallelCopy
  SolveTerminates
INVARIANTS
  LeftoversAreCycles
  SequentialIsParallel
