SPECIFICATION FairSpec
CONSTANTS
  Macros = {m1}
  c1 = c1
  c2 = c2
  Clients = {c1, c2}
  Threads = {t1, t2}
  Resets = {}
  NoOne = NoOne
  GlobalThreadMax = 2
  Wrap = 8
  Ops <- StartDestroy
  SignalLists <- PlainLists
  Setups <- PlainSetups
  Initial <- Plain
  SpawnMayFail = FALSE
  Garbage <- AnyStatus
INVARIANTS FreedIsUntouched NeverTerminates
PROPERTIES ClearReturns
CHECK_DEADLOCK FALSE
