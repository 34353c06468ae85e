SPECIFICATION BothSpec
INVARIANTS ListOK CacheInv
PROPERTIES EvictTerminates Implements VisitedSpared OneEvictionAtATime
CONSTANTS
  Keys = {k1, k2, k3, k4}
  Values = {v1, v2}
  Nil = Nil
  Capacity = 3
