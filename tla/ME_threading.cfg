CONSTANTS
  Width = 8
  Fuel = 36
  MaxInlineInstructions = 50
  ArgRegs = 2
  ImmWidth = 5
  LargeCode = 250
  Programs <- NestedCallPrograms
SPECIFICATION Spec
INVARIANT ThreadingRight
