SPECIFICATION Spec
CONSTANTS
  k1 = k1
  k2 = k2
  k3 = k3
  k4 = k4
  NoKey = NoKey
  Tomb = Tomb
  Keys <- MCKeys
  Hash <- MCHash
  Vals = {0, 1}
  InitCap = 4
  MaxCap = 8
  Borrowed = TRUE
  Ops <- HeaderOps
INVARIANTS
  LookupsEnd
PROPERTIES
  ImplementsMap
