SPECIFICATION Spec
CONSTANTS
    Requests = {r1, f1, admin}
    Fleet = {f1}
    Exempt = {admin}
    TTL = 2
    MaxTime = 3
    MaxIncarnations = 2
INVARIANTS
    TypeOK
    RunsNeedApprovals
PROPERTY ImplementsApprovals
