CONSTANTS
  Node = {v1, v2, v3, v4}
  s1 = s1
  a0 = a0
  a1 = a1
  T5 = t5
  Reg = {s1, a0, a1, t5}
  ArgReg = {a0}
  Pool <- PoolTwo
  NoReg = NoReg
  NoNode = NoNode
  MaxMoves = 1
  MaxWeight = 1
SPECIFICATION Spec
SYMMETRY NodeSymmetry
INVARIANTS
  ProperColoring
  CoalescedNeverSpills
  WorklistExact
PROPERTIES
  ParametersKeepTheirRegister
  OnlySpillCandidatesSpill
