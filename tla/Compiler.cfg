SPECIFICATION Spec
CONSTANTS
  Idents <- MCIdents
  Programs <- MCCompilerPrograms
  NumArgRegs = 6
INVARIANTS
  AcceptedNamesAreFound
  BindingsAgreeElsewhere
PROPERTIES
  CompilationEnds
CHECK_DEADLOCK FALSE
