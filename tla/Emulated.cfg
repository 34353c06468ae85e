SPECIFICATION Spec
CONSTANTS
    Reqs = {r1, r2}
    Conns = {c1, c2}
    MaxId = 3
    Seeded = 2
    Shapes <- MCShapes
    Backends <- AllBackends
    None = None
    Keep = Keep
INVARIANTS
    MutationsGuarded
    RepresentationsExact
    QuietCountAgrees
PROPERTIES
    AllAnswered
