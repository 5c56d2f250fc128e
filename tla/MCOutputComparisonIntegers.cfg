\* The instance of MCOutputComparison.cfg.
CONSTANTS
  Words <- MCWords
  MaxLength = 2
  One = 4
  kDoublePrecision = 2
  MaxInt = 8
  Exact = 16
  Spacings = {1, 2, 4, 8, 16, 32}
  MaxDouble = 128
SPECIFICATION Spec
INVARIANTS
  IntegersRequireEquality
CHECK_DEADLOCK FALSE
