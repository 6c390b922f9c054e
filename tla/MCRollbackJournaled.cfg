SPECIFICATION Spec
CONSTANTS
    Users = {u1}
    Record = {r1}
    PlanSteps = 2
    MaxEntries = 1
SYMMETRY Symmetric
INVARIANT AppliedIsJournaled
INVARIANT ToldIsFindable
