\* The second way to break it, equal records: Field = {}, Value = {}, Paths <- FilterOnly.
SPECIFICATION RestoreSpec
CONSTANTS
    Id = {i1, i2, i3, i4}
    InitialIds = {i1, i2}
    Name = {n1, n2}
    Field = {f1}
    Value = {v1}
    Paths <- BridgeOnly
    MaxAttempts = 1
CHECK_DEADLOCK FALSE
INVARIANT RestoresExactly
