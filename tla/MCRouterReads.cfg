SPECIFICATION Spec
CONSTANTS
    Users = {u1}
    Kinds = {"read"}
    FailureThreshold = 2
    Cooldown = 1
    MaxRetries = 3
    PlanSteps = 1
    Answers = {"ok", "refused", "failed", "lost"}
INVARIANT AtMostThreeAttempts
PROPERTY ReadsDoNotTrip
