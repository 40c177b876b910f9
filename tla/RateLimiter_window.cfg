SPECIFICATION Spec
CONSTANTS
  Keys = {k1}
  Callers = {q1, q2}
  Cost = 3
  Burst = 2
  TTL = 7
  Skew = 1
  Sec = 2
  MaxClock = 11
INVARIANTS
  TypeOK
  WindowBound
PROPERTIES
  SweepForgivesNothing
  RetryIsHonoured
CHECK_DEADLOCK FALSE
