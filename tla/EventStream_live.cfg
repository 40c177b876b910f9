SPECIFICATION FairSpec
CONSTANTS
  Clients = {c1, c2}
  Publishers = {p1, p2}
  MaxStreams = 1
  ChanCap = 1
  MaxPub = 2
PROPERTIES
  PublishReturns
  SlotComesBack
  StreamsDrain
CHECK_DEADLOCK FALSE
