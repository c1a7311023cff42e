SPECIFICATION Spec
CONSTANTS
    Processes = {p1, p2}
    Reservations = {r1}
    Units = {u1}
    None = None
    ArrivalDates = {3}
    Start <- Starts
    Emision = 1
    Vencimiento = 3
    NoticeDays = {1}
    Zone = 1
    CqlFilters = FALSE
    MaxRuns = 0
    MaxChanges = 0
    MaxMishaps = 0
    Operations = {}
INVARIANT EveryMonthCharged
CHECK_DEADLOCK FALSE
