SPECIFICATION Spec
CONSTANTS
  Sources <- MCSources
  Letters <- MCLetters
  Digits <- MCDigits
  Spaces <- MCSpaces
  Others <- MCOthers
  Keywords <- MCKeywords
INVARIANTS
  ReadsStayInside
  LocationIsRight
  TokensInOrder
  SplitsTheSource
  ReportsAreDeserved
PROPERTIES
  Terminates
CHECK_DEADLOCK FALSE
