\* Both calls, on a program that may do anything and overflows its channels.
\* A compilation may really stop: its program waits for space in an output.
CONSTANTS
  Capacity = 2
  MaxOutput = 4
  Word = 256
  Interpreter = 128
  Second = 40
  MaxDuration = 200
SPECIFICATION FairSpec
INVARIANTS
  RunTypeOK
  OutputComplete
  LimitsFitOptions
PROPERTIES
  RunReturns
  RunNeedsNoLimit
CHECK_DEADLOCK FALSE
