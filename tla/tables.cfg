SPECIFICATION Spec
CONSTANTS
  Names <- MCNames
  Fold <- MCFold
  Rank <- MCRank
  Null = Null
  Edited <- MCEdited
  Flags <- MCFlags
  Modes <- MCModes
  Keys <- MCKeys
  Hidden = ""
  NullKey = NullKey
  sa = sa
  sb = sb
  ta = ta
  tb = tb
  other = "other"
  SignalAllocators = {sa, sb}
  TriggerAllocators = {ta, tb}
  OwnName <- MCOwnName
  Objects = {o1, o2}
  Macros = {m1, m2}
  Nothing = Nothing
INVARIANTS
  NamesTypeOK
  RegistriesTypeOK
  ReadBack
  UsesMaker
  InterruptedOnce
PROPERTIES
  EditsApart
  EditsReach
