SPECIFICATION FairSpec
CONSTANTS
    Processes = {p1, p2}
    Credentials = {c1, c2, c3, c4, c5, c6, c7}
    NoCredential = NoCredential
    LastDay = 1
    Others = {1}
    Operations = {"lose", "change", "access", "crash", "fault"}
    MaxOps = 2
INVARIANT OnlyCancelledRevoked
PROPERTY NoSecondPin
PROPERTY SuspensionHolds
PROPERTY CancellationReachesGuest
PROPERTY BookingGetsPin
CHECK_DEADLOCK FALSE
