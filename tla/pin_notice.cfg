SPECIFICATION FairSpec
CONSTANTS
    Processes = {p1, p2}
    Stays = {s1}
    Credentials = {c1, c2}
    s1 = s1
    c1 = c1
    c2 = c2
    StayOf <- OneStay
    Scope <- BothAndPedestrian
    NoStay = NoStay
    NoCredential = NoCredential
    Batch = 2
    MaxPin = 1
    Operations = {"renew", "resend", "revoke", "end", "down", "fault", "crash"}
    MaxOps = 2
INVARIANT RecordedWasTold
INVARIANT ToldOnce
PROPERTY PinInForceIsTold
CHECK_DEADLOCK FALSE
