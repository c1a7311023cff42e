SPECIFICATION Spec
CONSTANTS
    Credentials = {c1}
    Workers = {w1, w2}
    Pins = {p1, p2}
    Manual = {p2}
    Doors = {d1, d2}
    Windows = {1, 2}
    NoCredential = NoCredential
    NoPin = NoPin
    Operations <- CrashingAll
    Conflicts = 1
    MaxAttempts = 1
    Batch = 1
    MaxOps = 3
    MaxDay = 2
SYMMETRY Symmetry
INVARIANT SyncedTellsTheDoor
PROPERTY MirrorSpec
PROPERTY RevocationUndoneByOvertaken
PROPERTY PinChangesByRotation
CHECK_DEADLOCK FALSE
