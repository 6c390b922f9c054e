SPECIFICATION Spec
CONSTANTS
    Callers = {c1, c2, c3}
    FailureThreshold = 1
    Cooldown = 1
SYMMETRY CallerSymmetry
INVARIANT SingleProbe
