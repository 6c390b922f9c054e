SPECIFICATION Spec
CONSTANTS
    Callers = {c1, c2}
    FailureThreshold = 1
    Cooldown = 1
PROPERTY ClosesByProbeOnly
