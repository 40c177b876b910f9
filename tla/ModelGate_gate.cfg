SPECIFICATION Spec
CONSTANTS
  Oracles = {o1, o2}
  Forms = {f1}
  Infers = {i1}
  MaxStreams = 1
  ToolRounds = 2
  Budget = 1
INVARIANTS
  TypeOK
  SlotsAccounted
  InferSlotExact
  BreakerBound
  ChargedOnce
CHECK_DEADLOCK FALSE
