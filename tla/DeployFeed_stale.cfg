SPECIFICATION Spec
CONSTANTS
  Events <- Rerun
  Hooks = {h1}
  Viewers = {}
  MaxDeploys = 2
  ChanCap = 1
  MaxHooks = 3
  MaxRestarts = 0
PROPERTY StaleChangesNothing
CHECK_DEADLOCK FALSE
