SPECIFICATION Spec
CONSTANTS
    Items = {i1, i2}
    Phones = {p1, p2}
    Desks = {d1}
    None = None
    Planned = Planned
    MaxMoves = 1
    MaxMishaps = 1
    Operations = {"fault", "lost", "silent", "crash"}
SYMMETRY Symmetry
INVARIANT AnswersKept
INVARIANT CompletedIsAnswered
PROPERTY StartIsKept
CHECK_DEADLOCK FALSE
