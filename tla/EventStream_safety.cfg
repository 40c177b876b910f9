SPECIFICATION Spec
CONSTANTS
  Clients = {c1, c2, c3}
  Publishers = {p1, p2}
  MaxStreams = 2
  ChanCap = 1
  MaxPub = 3
SYMMETRY Symmetry
INVARIANTS
  TypeOK
  SlotAccounting
  CapHolds
  NoLeakedSubscriber
  NoSendOnClosed
  NoSilentLoss
PROPERTY FeedSpec
CHECK_DEADLOCK FALSE
