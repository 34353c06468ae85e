SPECIFICATION Spec
CONSTANTS
    Reqs = {r1, r2}
    Conns = {c1, c2}
    Ids = {i1, i2}
    Shapes <- RenderShapes
    Hooks = {"quiet", "status", "raise"}
    None = None
SYMMETRY Symmetry
INVARIANT ErrorMeansUndone
CHECK_DEADLOCK FALSE
