SPECIFICATION Spec
CONSTANTS
  Idents <- MCIdents
  Inputs <- MCInputs
INVARIANTS
  FailureIsReportedWhereItIs
  AcceptedTextIsTheTree
  SentencesAreAccepted
PROPERTIES
  LoopsAdvance
  Terminates
CHECK_DEADLOCK FALSE
