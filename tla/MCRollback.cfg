SPECIFICATION Spec
CONSTANTS
    Users = {u1, u2}
    Record = {r1, r2}
    PlanSteps = 2
    MaxEntries = 2
SYMMETRY Symmetric
INVARIANTS
    TypeOK
    UndoesWrite
    ToldSucceeded
