SPECIFICATION Spec
CONSTANTS
  k1 = k1
  k2 = k2
  k3 = k3
  k4 = k4
  NoKey = NoKey
  Tomb = Tomb
  Keys <- MCMoreKeys
  Hash <- MCHashAll
  Vals = {0}
  InitCap = 4
  MaxCap = 8
  Borrowed = FALSE
  Ops <- WithRemove
INVARIANTS
  LenCountsLive
  RehashAccounts
  ProbeReach
  StoreEnds
CHECK_DEADLOCK FALSE
