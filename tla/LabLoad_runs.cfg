SPECIFICATION FairSpec
CONSTANTS
  r1 = r1
  r2 = r2
  r3 = r3
  A = A
  B = B
  Requests <- Three
  AddrOf <- AddrThree
  WorkersOf <- WorkersThree
  MaxRuns = 2
  MaxTotal = 1
INVARIANTS
  RunAccounting
  OnePerAddress
  DoneFrameIsFinal
  DoneFollowsStart
PROPERTY RunsEnd
CHECK_DEADLOCK FALSE
