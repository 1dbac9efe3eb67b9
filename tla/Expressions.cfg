SPECIFICATION Spec
CONSTANTS
  Sigs <- MCSigs
  Exprs <- MCExprs
  Height <- MCHeight
  WordSize = 256
  BitOp <- MCBitOp
  One = 16
  Programs <- MCPrograms
  Scope <- MCScope
  ReturnKind = "Float"
INVARIANTS
  DepthIsPredicted
  ComputesTheMeaning
  KindsAreRight
  
CHECK_DEADLOCK FALSE
