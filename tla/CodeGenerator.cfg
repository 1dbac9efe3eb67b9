SPECIFICATION Spec
CONSTANTS
  Idents <- MCIdents
  Programs <- MCAccepted
  NumArgRegs = 6
INVARIANTS
  StackAccounting
  SlotsAreDistinct
  DepthNeverBelow
  DepthExactUnlessLeaked
  JumpsLand
PROPERTIES
  BlocksRestoreTheStack
CHECK_DEADLOCK FALSE
