SPECIFICATION ToolsSpec
CONSTANTS
    Handlers <- MCHandlers
    Idempotent <- IdempotentTools
    Callers = {c1, c2}
    MaxCalls = 3
    None = None
SYMMETRY CallerSymmetry
CHECK_DEADLOCK FALSE
PROPERTY ClockRetryChangesNothing RouteSuccessIsTrue OtherTablesAreKept
