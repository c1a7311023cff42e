SPECIFICATION FairSpec
CONSTANTS
    Credentials = {c1, c2}
    Workers = {w1, w2}
    Pins = {p1, p2}
    Manual = {p2}
    Doors = {d1}
    Windows = {1}
    NoCredential = NoCredential
    NoPin = NoPin
    Operations <- Tampering
    Conflicts = 2
    MaxAttempts = 1
    Batch = 1
    MaxOps = 2
    MaxDay = 0
PROPERTY PendingSettles
PROPERTY TamperedDoorsHeal
CHECK_DEADLOCK FALSE
