SPECIFICATION Spec
CONSTANTS
  Macros = {m1}
  c1 = c1
  c2 = c2
  Clients = {c1, c2}
  Threads = {t1, t2}
  Resets = {}
  NoOne = NoOne
  GlobalThreadMax = 2
  Wrap = 8
  Ops <- StartControl
  SignalLists <- PlainLists
  Setups <- PlainSetups
  Initial <- StickyOrOff
  SpawnMayFail = FALSE
  Garbage <- AnyStatus
INVARIANTS TypeOK QueuedRepaired RegisteredMatches QueuedWithinMax NoLostResume
PROPERTIES SignalsStable
CHECK_DEADLOCK FALSE
