SPECIFICATION FairSpec
CONSTANTS
  Probes <- MCProbes
  Self <- MCSelf
  RingCap = 3
  MinSamples = 2
  MaxIncidents = 2
  WallClock <- MCWallClock
  MaxRounds = 4
INVARIANTS
  TypeOK
  LogIsOutages
  SamplesAreCurrent
  PanelCoherent
PROPERTIES
  MonitorReturns
CHECK_DEADLOCK FALSE
