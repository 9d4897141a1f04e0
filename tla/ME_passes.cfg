CONSTANTS
  Width = 8
  Fuel = 36
  MaxInlineInstructions = 30
  ArgRegs = 2
  ImmWidth = 5
  LargeCode = 250
  Programs <- AllPrograms
SPECIFICATION FairSpec
INVARIANTS
  DominatorsCorrect
  DefinitionsDominateUses
  PhisMatchEdges
  SCCPInv
  CSEInv
  GenerationRight
  InliningRight
  PromotionRight
  PropagationRight
  SharingRight
  MovesRight
  ThreadingRight
  EmissionRight
PROPERTIES
  LatticeDescends
  CompilationTerminates
