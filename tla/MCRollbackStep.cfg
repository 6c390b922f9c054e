SPECIFICATION Spec
CONSTANTS
    Users = {u1}
    Record = {r1, r2}
    PlanSteps = 2
    MaxEntries = 2
SYMMETRY Symmetric
INVARIANT UndoesOnlyItself
