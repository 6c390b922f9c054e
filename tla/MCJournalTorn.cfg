SPECIFICATION Spec
CONSTANTS
    Entry = {e1, e2}
    Servers = {s1}
    Readers = {}
    RotateAfter = 1
    MaxAge = 2
    Span = 1
    MaxTime = 1
SYMMETRY ActorSymmetry
INVARIANTS
    TornLineIsContained
