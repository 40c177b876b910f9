SPECIFICATION Spec
CONSTANTS
  Events <- SameSecond
  Hooks = {h1}
  Viewers = {}
  MaxDeploys = 2
  ChanCap = 1
  MaxHooks = 3
  MaxRestarts = 0
PROPERTY ReplaySafe
CHECK_DEADLOCK FALSE
