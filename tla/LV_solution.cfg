CONSTANTS
  Block = {b0, b1, b2}
  Entry = b0
  Var = {x}
  MaxSucc = 2
SPECIFICATION FairSpec
INVARIANTS
  FullInv
  LeastSolution
  LiveIffReadLater
PROPERTIES
  OnlyGrows
  CalcInOutTerminates
