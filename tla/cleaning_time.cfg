SPECIFICATION Spec
CONSTANTS
    Requests = {r1, r2}
    Devices = {d1, d2}
    d1 = d1
    d2 = d2
    Skew <- OffClocks
    Room = 3
    Drafts = {0, 1}
    MaxTotal = 4
    None = None
    MaxTime = 3
    MaxRequests = 7
    MaxMishaps = 1
    Operations = {"overlap", "lost", "fault", "blindcheck", "bare", "edit"}
SYMMETRY Symmetry
INVARIANT ExecutedHasStart
INVARIANT MinutesAreWorked
INVARIANT StopwatchShowsSession
INVARIANT PauseIsTold
INVARIANT OneTaskPerCheckout
CHECK_DEADLOCK FALSE
