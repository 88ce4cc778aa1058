SPECIFICATION ContextsSpec
CONSTANTS
  c1 = c1
  shift = shift
  ctrl = ctrl
  Threads = {t1, t2}
  Contexts = {c1, c2, c3}
  None = None
  Bits <- MCBits
  Signals <- MCSignals
  SetByProgram <- MCSetByProgram
  Created = {TRUE}
  Switched <- MCSwitched
INVARIANTS
  ContextsTypeOK
  RegisteredBuilt
PROPERTIES
  LastCreated
  SendsOneMoment
