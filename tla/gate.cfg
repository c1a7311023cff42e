SPECIFICATION Spec
CONSTANTS
    Guests = {g1, g2}
    Staff = {s1}
    RequestIds = {r1, r2}
    Handlers = {h1, h2}
    NoActor = NoActor
    NoRequest = NoRequest
    Vehicular = TRUE
    Cooldown = 2
    Stale = 3
    CloseWindow = 4
    AutoClose = 5
    Budget = 1
    DailyLimit = 1
    Day = 20
    MaxTime = 6
SYMMETRY Symmetry
CHECK_DEADLOCK FALSE
INVARIANTS
    TruthfulAnswers
    OnePulsePerRequest
    PulsesApart
PROPERTIES
    AnswersNeverChange
    OpenBarrierRefusesOpen
    UnconfirmedOrderHoldsBarrier
    CloseFollowsOwnOpen
