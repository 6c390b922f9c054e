SPECIFICATION FairSpec
CONSTANTS
    Users = {u1, u2}
    Kinds = {"read", "plan"}
    FailureThreshold = 1
    Cooldown = 1
    MaxRetries = 1
    PlanSteps = 1
    Answers = {"ok", "refused", "failed", "late", "closed", "lost", "noHandshake", "unlisted"}
PROPERTY CallsEnd
