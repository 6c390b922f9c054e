SPECIFICATION FairSpec
CONSTANTS
    Callers = {c1, c2, c3, c4}
    FailureThreshold = 2
    Cooldown = 2
INVARIANTS
    TypeOK
    ClosedIffBelowThreshold
    ProbeFlagOwned
    OneProbeOnceDrained
    ProbesWaitFullCooldown
PROPERTIES
    NeverLocksOut
    RecoversFromOutage
