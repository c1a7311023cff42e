SPECIFICATION Spec
CONSTANTS
    Processes = {p1, p2}
    Reservations = {r1}
    Units = {u1}
    None = None
    ArrivalDates = {3, 4}
    Start <- Starts
    Emision = 1
    Vencimiento = 3
    NoticeDays = {1}
    Zone = 1
    CqlFilters = FALSE
    MaxRuns = 1
    MaxChanges = 2
    MaxMishaps = 1
    Operations = {"crash", "down", "fault", "blind", "lost"}
SYMMETRY Symmetry
INVARIANT InvoicedOnce
INVARIANT BooksAgree
INVARIANT PaidIsBilled
INVARIANT ChargedOnce
INVARIANT UnchargedHadOne
INVARIANT RemindedBeforeDue
CHECK_DEADLOCK FALSE
