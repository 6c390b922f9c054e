SPECIFICATION Spec
CONSTANTS
    Entry = {e1, e2}
    Servers = {s1, s2}
    Readers = {r}
    RotateAfter = 1
    MaxAge = 2
    Span = 1
    MaxTime = 4
SYMMETRY ActorSymmetry
INVARIANTS
    TypeOK
    NothingLost
    OneNamePerFile
    ReadsAreComplete
