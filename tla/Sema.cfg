SPECIFICATION Spec
CONSTANTS
  Idents <- MCIdents
  Programs <- MCSemaPrograms
INVARIANTS
  CountersMatchFrames
  ScopesMatchFrames
  AcceptsExactlyTheWellFormed
  ResolvesLexically
PROPERTIES
  OuterScopesUntouched
CHECK_DEADLOCK FALSE
