SPECIFICATION Spec
CONSTANTS
    Callers = {c1, c2}
    Passwords = {configured, new}
    Configured = configured
    MaxCalls = 3
    MaxNonces = 3
    None = None
CHECK_DEADLOCK FALSE
INVARIANT ToldIsTrue KeepsInTouch
SYMMETRY CallerSymmetry
