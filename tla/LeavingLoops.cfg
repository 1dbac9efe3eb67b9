SPECIFICATION Spec
CONSTANTS
  Idents <- MCIdents
  Programs <- MCLeavingLoops
  NumArgRegs = 6
INVARIANT
  OffsetsAreFixed
CHECK_DEADLOCK FALSE
