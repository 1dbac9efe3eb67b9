SPECIFICATION StaticsSpec
CONSTANTS
  MaxCalls = 5
  MaxDepth = 3
INVARIANTS
  InitialisedBeforeUse
PROPERTIES
  KeptUnlessReentered
CHECK_DEADLOCK FALSE
