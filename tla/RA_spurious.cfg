CONSTANTS
  s1 = s1
  a0 = a0
  t5 = t5
  a = a
  p = p
  q = q
  t = t
  u = u
  Node = {a, p, q, t, u}
  T5 = t5
  Reg = {s1, a0, t5}
  ArgReg = {a0}
  Pool <- PoolThree
  NoReg = NoReg
  NoNode = NoNode
  MaxMoves = 0
  MaxWeight = 0
  NumBlocks = 3
  Mem = Mem
  NoVar = NoVar
  Programs <- AllPrograms
SPECIFICATION SpecRegAlloc
PROPERTY RemovedEdgesSpurious
