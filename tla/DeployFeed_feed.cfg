SPECIFICATION Spec
CONSTANTS
  Events <- Crowded
  Hooks = {h1, h2}
  Viewers = {v1}
  MaxDeploys = 2
  ChanCap = 1
  MaxHooks = 5
  MaxRestarts = 1
INVARIANTS
  StoreIsKeyed
  TabsAgree
PROPERTIES
  StageNeverRegresses
  ReplaySafe
CHECK_DEADLOCK FALSE
