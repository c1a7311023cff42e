SPECIFICATION Spec
CONSTANTS
    Credentials = {c1}
    Workers = {w1, w2}
    Pins = {p1, p2}
    Manual = {}
    Doors = {d1}
    Windows = {1, 2}
    NoCredential = NoCredential
    NoPin = NoPin
    Operations <- Requests
    Conflicts = 2
    MaxAttempts = 2
    Batch = 1
    MaxOps = 3
    MaxDay = 2
PROPERTY RevocationHolds
