SPECIFICATION Spec
CONSTANTS
    Users = {u1, u2}
    Kinds = {"read", "write", "health", "preview", "rollback", "plan", "bulk"}
    FailureThreshold = 2
    Cooldown = 1
    MaxRetries = 1
    PlanSteps = 2
    Answers = {"ok", "refused", "failed", "late", "closed", "lost", "noHandshake", "unlisted"}
SYMMETRY UserSymmetry
VIEW Essence
INVARIANTS
    TypeOK
    NoCallIsStuck
    TripsUnlessHidden
    LostWritesAreReported
PROPERTIES
    OpensOnlyOnLosses
    ClosesOnReturn
