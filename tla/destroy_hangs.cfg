SPECIFICATION FairSpec
CONSTANTS
  Macros = {m1}
  c1 = c1
  c2 = c2
  Clients = {c1, c2}
  Threads = {t1, t2}
  Resets = {}
  NoOne = NoOne
  GlobalThreadMax = 2
  Wrap = 8
  Ops <- PauseDestroy
  SignalLists <- Lists
  Setups <- MacroSetups
  Initial <- Plain
  SpawnMayFail = FALSE
  Garbage <- NoTimeout
PROPERTIES ClearReturns
CHECK_DEADLOCK FALSE
