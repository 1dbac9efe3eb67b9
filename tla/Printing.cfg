SPECIFICATION PrintSpec
CONSTANTS
  HeapBytes = 40
  Chars <- MCChars
  Literals <- MCLiterals
  Decimals <- MCDecimals
  MaxStrings = 4
  MaxLen = 20
  WordSize = 256
  FracDigits = 2
  One = 256
  Ints <- MCInts
  Doubles <- MCDoubles
INVARIANTS
  StringsLastWithinHeap
  LinesAreRight
CHECK_DEADLOCK FALSE
