SPECIFICATION Spec
CONSTANTS
  Idents <- MCManyIdents
  Programs <- MCManyParameters
  NumArgRegs = 6
INVARIANT
  RegistersSuffice
CHECK_DEADLOCK FALSE
