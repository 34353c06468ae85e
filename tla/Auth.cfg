SPECIFICATION Spec
INVARIANTS AcceptedIsValid CacheTransparent CachesSound
CONSTRAINT Explored
CONSTANTS
  Requests = {r1, r2}
  Tokens <- AllTokens
  Confs <- AllConfs
  Nil = Nil
  MaxClock = 2
  MaxReloads = 1
SYMMETRY Symmetry
