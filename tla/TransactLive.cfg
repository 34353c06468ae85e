SPECIFICATION FairSpec
CONSTANTS
    Reqs = {r1, r2}
    Conns = {c1}
    Ids = {i1, i2}
    Shapes <- PoolShapes
    Hooks = {"quiet"}
    None = None
PROPERTY AllAnswered
CHECK_DEADLOCK FALSE
