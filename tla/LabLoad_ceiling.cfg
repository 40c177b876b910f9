SPECIFICATION Spec
CONSTANTS
  r1 = r1
  r2 = r2
  r3 = r3
  A = A
  B = B
  Requests <- Two
  AddrOf <- AddrTwo
  WorkersOf <- WorkersTwo
  MaxRuns = 1
  MaxTotal = 1
INVARIANT RunsUnderCeiling
CHECK_DEADLOCK FALSE
