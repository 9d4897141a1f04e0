CONSTANTS
  Node = {v1, v2, v3}
  s1 = s1
  a0 = a0
  a1 = a1
  T5 = t5
  Reg = {s1, a0, a1, t5}
  ArgReg = {a0, a1}
  Pool <- PoolTwo
  NoReg = NoReg
  NoNode = NoNode
  MaxMoves = 2
  MaxWeight = 1
SPECIFICATION FairSpec
INVARIANT FullInv
PROPERTY ColorTerminates
