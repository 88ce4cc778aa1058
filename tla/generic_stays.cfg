SPECIFICATION Spec
CONSTANTS
  t1 = t1
  a1 = a1
  a2 = a2
  d1 = d1
  d2 = d2
  d0 = d0
  alt = alt
  Macros = {m1, m2}
  Triggers = {t1}
  Activators = {a1, a2}
  Dispatchers = {d1, d2, d0}
  Nothing = Nothing
  Generic = d0
  Replacements = {}
  DispatcherOf <- OneEach
  Required <- MCRequired
  Blocks <- MCBlocks
  Flags = {alt}
INVARIANTS AllStartsAsAsked
