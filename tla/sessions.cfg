SPECIFICATION Spec
CONSTANTS
    Processes = {p1, p2}
    Sessions = {s1, s2}
    Remembered = {s1}
    NoSession = NoSession
    Operations = {"crash", "down", "fault"}
    MaxOps = 2
SYMMETRY Symmetry
INVARIANT OpenIsKept
INVARIANT ChangeReachesEveryDevice
INVARIANT ErasedStaysOut
