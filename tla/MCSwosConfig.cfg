SPECIFICATION Spec
CONSTANTS
    Ports = {1, 2}
    Linked = {1, 2}
    Callers = {"a", "b"}
    Scenes = {"alone", "access", "together"}
    Starts <- MCStarts
    Asks <- MCAsks
    None = None
CHECK_DEADLOCK FALSE
INVARIANT NothingIsCutOff NoPortIsStranded ReportIsTrue
