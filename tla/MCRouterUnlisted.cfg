SPECIFICATION Spec
CONSTANTS
    Users = {u1, u2}
    Kinds = {"read", "write"}
    FailureThreshold = 2
    Cooldown = 1
    MaxRetries = 1
    PlanSteps = 1
    Answers = {"ok", "refused", "unlisted"}
INVARIANT TripsOnDeadRouter
INVARIANT LostWritesAreFlagged
