SPECIFICATION Spec
CONSTANTS
    Users = {u1}
    Kinds = {"bulk"}
    FailureThreshold = 2
    Cooldown = 1
    MaxRetries = 1
    PlanSteps = 1
    Answers = {"ok", "refused", "lost"}
INVARIANT LostWritesAreFlagged
