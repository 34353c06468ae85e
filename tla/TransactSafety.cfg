SPECIFICATION Spec
CONSTANTS
    Reqs = {r1, r2}
    Conns = {c1, c2}
    Ids = {i1, i2}
    Shapes <- SafetyShapes
    Hooks = {"quiet", "status", "raise"}
    None = None
SYMMETRY Symmetry
INVARIANTS PageOfTotal RefusedLeavesNothing WriteContract OwnSession
CHECK_DEADLOCK FALSE
