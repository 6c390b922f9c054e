SPECIFICATION RestoreSpec
CONSTANTS
    Id = {i1, i2, i3, i4}
    InitialIds = {i1, i2}
    Name = {n1, n2}
    Field = {f1}
    Value = {v1, v2}
    Paths <- AllPaths
    MaxAttempts = 2
CHECK_DEADLOCK FALSE
INVARIANTS
    RestoresContent
    AddsNoUser
    KeepsWhatMatches
    NamesAreFree
