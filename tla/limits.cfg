SPECIFICATION Spec
CONSTANTS
  Macros = {m1, m2}
  c1 = c1
  c2 = c2
  Clients = {c1, c2}
  Threads = {t1, t2, t3}
  Resets = {}
  NoOne = NoOne
  GlobalThreadMax = 2
  Wrap = 8
  Ops <- BothStart
  SignalLists <- Lists
  Setups <- MacroSetups
  Initial <- OneThread
  SpawnMayFail = TRUE
  Garbage <- NoTimeout
INVARIANTS ActiveExact GlobalLimit
PROPERTIES PoolSpec
