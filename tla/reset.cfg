SPECIFICATION FairSpec
CONSTANTS
  Macros = {m1}
  c1 = c1
  c2 = c2
  Clients = {c1, c2}
  Threads = {t1, t2}
  Resets = {x1, x2}
  NoOne = NoOne
  GlobalThreadMax = 2
  Wrap = 8
  Ops <- StartAll
  SignalLists <- PlainLists
  Setups <- PlainSetups
  Initial <- Plain
  SpawnMayFail = FALSE
  Garbage <- NoTimeout
INVARIANTS WaitersServed NeverTerminates JoinedByOne
PROPERTIES InterruptAllEnds
