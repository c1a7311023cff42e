SPECIFICATION FairSpec
CONSTANTS
    Processes = {p1, p2}
    Sessions = {s1}
    Remembered = {s1}
    NoSession = NoSession
    Operations = {"crash", "rotate", "down", "fault"}
    MaxOps = 3
PROPERTY ClosedIsForgotten
