\* Outputs of up to two words, ints up to 8 steps, doubles of four bits.
CONSTANTS
  Words <- MCWords
  MaxLength = 2
  One = 4
  kDoublePrecision = 2
  MaxInt = 8
  Exact = 16
  Spacings = {1, 2, 4, 8, 16, 32}
  MaxDouble = 128
SPECIFICATION Spec
INVARIANTS
  ExactWithinMantissa
  SameValueMatches
CHECK_DEADLOCK FALSE
