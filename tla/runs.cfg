SPECIFICATION FairSpec
CONSTANTS
  Macros = {m1}
  c1 = c1
  c2 = c2
  Clients = {c1, c2}
  Threads = {t1}
  Resets = {}
  NoOne = NoOne
  GlobalThreadMax = 2
  Wrap = 8
  Ops <- StartRunPause
  SignalLists <- Lists
  Setups <- MacroSetups
  Initial <- SelfCalling
  SpawnMayFail = TRUE
  Garbage <- NoTimeout
INVARIANTS ThreadCountExact NoLostUnpause
PROPERTIES PauseEnds DisableSettles
