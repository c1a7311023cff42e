------------------------- MODULE GuestAccessProofs -------------------------
(***************************************************************************)
(* Types, the unique index, the second PIN, suspensions and cancellations  *)
(* of GuestAccess, for any number of overlapping processes.                *)
(***************************************************************************)
EXTENDS GuestAccess, TLAPS

----------------------------------------------------------------------------
(* Types of what the steps are built from.                                 *)

LEMMA IdleType == Idle \in Job
  BY BoundsAssumption DEF Idle, Job, Stages, NoReservation, Reservation, NoStay, Stay, Scopes, Days

LEMMA SweepingType ==
    ASSUME NEW stage \in {"fetching", "reading", "comparing"}, NEW day \in Days,
           NEW msg \in Reservation, NEW listed \in BOOLEAN
    PROVE  Sweeping(stage, day, msg, listed) \in Job
  BY BoundsAssumption DEF Sweeping, Job, Stages, NoStay, Stay, Scopes, Days

LEMMA NextDayType ==
    ASSUME NEW day \in Days
    PROVE  /\ NextDay(day) \in Job
           /\ NextDay(day).stage \in {"fetching", "idle"}
  <1>1. NoReservation \in Reservation
    BY BoundsAssumption DEF NoReservation, Reservation, Days
  <1>2. CASE day < LastDay
    <2>1. day + 1 \in Days
      BY <1>2, BoundsAssumption DEF Days
    <2>2. Sweeping("fetching", day + 1, NoReservation, FALSE) \in Job
      BY <1>1, <2>1, SweepingType
    <2>. QED
      BY <1>2, <2>2 DEF NextDay, Sweeping
  <1>3. CASE ~(day < LastDay)
    BY <1>3, IdleType DEF NextDay, Idle
  <1>. QED
    BY <1>2, <1>3

LEMMA AfterType ==
    ASSUME NEW j \in Job, NEW ok \in BOOLEAN
    PROVE  /\ After(j, ok) \in Job
           /\ After(j, ok).stage \in {"comparing", "fetching", "idle"}
  <1>1. j.day \in Days /\ j.listed \in BOOLEAN /\ NoReservation \in Reservation
    BY BoundsAssumption DEF Job, NoReservation, Reservation, Days
  <1>2. Sweeping("comparing", j.day, NoReservation, j.listed) \in Job
    BY <1>1, SweepingType
  <1>3. Sweeping("comparing", j.day, NoReservation, j.listed).stage = "comparing"
    BY DEF Sweeping
  <1>. QED
    BY <1>1, <1>2, <1>3, NextDayType, IdleType DEF After, Idle

LEMMA FinishType ==
    ASSUME TypeOK, NEW p \in Processes, NEW ok \in BOOLEAN, Finish(p, ok)
    PROVE  /\ job' \in [Processes -> Job]
           /\ messages' \subseteq Reservation
           /\ job'[p].stage \in {"comparing", "fetching", "idle"}
  <1>1. job[p] \in Job
    BY DEF TypeOK
  <1>2. After(job[p], ok) \in Job
        /\ After(job[p], ok).stage \in {"comparing", "fetching", "idle"}
    BY <1>1, AfterType
  <1>. QED
    BY <1>2 DEF Finish, TypeOK

LEMMA GoType ==
    ASSUME TypeOK, NEW p \in Processes, NEW stage \in Stages, NEW copy \in Stay,
           NEW cred \in Credentials \cup {NoCredential}, NEW todo \in SUBSET Credentials,
           Go(p, stage, copy, cred, todo)
    PROVE  /\ job' \in [Processes -> Job]
           /\ job'[p].stage = stage /\ job'[p].copy = copy /\ job'[p].cred = cred
  <1>1. job[p] \in Job
    BY DEF TypeOK
  <1>. QED
    BY <1>1 DEF Go, TypeOK, Job

LEMMA CopyType ==
    ASSUME TypeOK, NEW p \in Processes
    PROVE  /\ job[p] \in Job /\ job[p].copy \in Stay /\ job[p].msg \in Reservation
           /\ job[p].day \in Days /\ job[p].level \in Scopes /\ job[p].todo \subseteq Credentials
           /\ job[p].cred \in Credentials \cup {NoCredential}
  BY DEF TypeOK, Job

LEMMA LiveType == Live \subseteq Credentials /\ \A s : LiveIn(s) \subseteq Credentials
  BY DEF Live, LiveIn

\* A row written by a step, if it is one of the table.
LEMMA RowType ==
    ASSUME TypeOK, NEW c, NEW row, c \in Credentials => row \in Row,
           rows' = [rows EXCEPT ![c] = row]
    PROVE  rows' \in [Credentials -> Row]
  BY DEF TypeOK

----------------------------------------------------------------------------
(* Types, action by action.                                                *)

LEMMA InitTypes == Init => TypeOK
  <1>1. Init => hostaway \in Reservation
    BY DEF Init, Reservation
  <1>2. NoStay \in Stay /\ NoRow \in Row
    BY BoundsAssumption DEF NoStay, Stay, NoRow, Row, Scopes, Days
  <1>3. Init => rows \in [Credentials -> Row] /\ job \in [Processes -> Job]
    BY <1>2, IdleType DEF Init
  <1>4. Init => stay \in Stay /\ messages \subseteq Reservation /\ dropped \in BOOLEAN
    BY <1>2 DEF Init
  <1>5. Init => ops \in 0..MaxOps
    BY BoundsAssumption DEF Init
  <1>6. Init => stale \subseteq Processes
    BY DEF Init
  <1>. QED
    BY <1>1, <1>3, <1>4, <1>5, <1>6 DEF TypeOK

\* The way to a projection leaves the tables alone.
LEMMA PathTypes ==
    ASSUME TypeOK, stale' \subseteq Processes, NEW p \in Processes,
           \/ \E m \in messages : Deliver(p, m)
           \/ SweepStart(p) \/ Fetch(p) \/ FetchFails(p) \/ Read(p) \/ Compare(p)
    PROVE  TypeOK'
  <1>1. NoReservation \in Reservation /\ NoStay \in Stay /\ NoCredential \in Credentials \cup {NoCredential}
        /\ 1 \in Days /\ 0 \in Days
    BY BoundsAssumption DEF NoReservation, Reservation, NoStay, Stay, Days
  <1>2. ASSUME job' \in [Processes -> Job], messages' \subseteq Reservation,
               UNCHANGED <<hostaway, dropped, stay, rows, ops>>
        PROVE  TypeOK'
    BY <1>2 DEF TypeOK
  <1>3. ASSUME NEW m \in messages, Deliver(p, m)
        PROVE  TypeOK'
    <2>1. m \in Reservation
      BY DEF TypeOK
    <2>2. [stage |-> "reading", op |-> "webhook", msg |-> m, day |-> 0,
           listed |-> FALSE, copy |-> NoStay, cred |-> NoCredential,
           level |-> "pedestrian", todo |-> {}] \in Job
      BY <1>1, <2>1 DEF Job, Stages, Scopes
    <2>. QED
      BY <1>2, <1>3, <2>2 DEF Deliver, TypeOK
  <1>4. CASE SweepStart(p)
    <2>1. Sweeping("fetching", 1, NoReservation, FALSE) \in Job
      BY <1>1, SweepingType
    <2>. QED
      BY <1>2, <1>4, <2>1 DEF SweepStart, TypeOK
  <1>5. CASE Fetch(p)
    <2>1. job[p].day \in Days /\ hostaway \in Reservation
      BY CopyType DEF TypeOK
    <2>2. \A listed \in BOOLEAN : \A projects \in BOOLEAN :
            Sweeping(IF projects THEN "reading" ELSE "comparing", job[p].day,
                     IF projects THEN hostaway ELSE NoReservation, listed) \in Job
      BY <1>1, <2>1, SweepingType
    <2>3. job' \in [Processes -> Job]
      BY <1>5, <2>2 DEF Fetch, TypeOK
    <2>. QED
      BY <1>2, <1>5, <2>3 DEF Fetch, TypeOK
  <1>6. CASE FetchFails(p)
    BY <1>2, <1>6, CopyType, NextDayType DEF FetchFails, TypeOK
  <1>7. CASE Read(p)
    <2>1. "locating" \in Stages /\ stay \in Stay
      BY DEF Stages, TypeOK
    <2>2. job' \in [Processes -> Job]
      BY <1>7, <1>1, <2>1, GoType DEF Read
    <2>. QED
      BY <1>2, <1>7, <2>2 DEF Read, TypeOK
  <1>8. CASE Compare(p)
    <2>1. job[p].day \in Days /\ stay \in Stay
      BY CopyType DEF TypeOK
    <2>2. [stage |-> "vanishing", op |-> "vanish", msg |-> NoReservation,
           day |-> job[p].day, listed |-> FALSE, copy |-> stay,
           cred |-> NoCredential, level |-> "pedestrian", todo |-> {}] \in Job
      BY <1>1, <2>1 DEF Job, Stages, Scopes
    <2>3. NextDay(job[p].day) \in Job
      BY <2>1, NextDayType
    <2>. QED
      BY <1>2, <1>8, <2>2, <2>3 DEF Compare, TypeOK
  <1>. QED
    BY <1>3, <1>4, <1>5, <1>6, <1>7, <1>8

LEMMA ProjectedType ==
    ASSUME TypeOK, NEW p \in Processes, NEW unit
    PROVE  Projected(job[p], unit) \in Stay
  <1>1. job[p].msg.day \in Days /\ job[p].copy.located \in BOOLEAN
        /\ job[p].copy.suspended \in BOOLEAN
    BY CopyType DEF Reservation, Stay
  <1>. QED
    BY <1>1 DEF Projected, Stay

\* The steps that write at most the row of the stay.
LEMMA StayTypes ==
    ASSUME TypeOK, stale' \subseteq Processes, NEW p \in Processes,
           \/ \E unit \in Units : Persist(p, unit)
           \/ Find(p) \/ Check(p) \/ Vanish(p) \/ ListLive(p) \/ Mark(p) \/ Restore(p)
           \/ Unmark(p)
    PROVE  TypeOK'
  <1>1. /\ {"listing", "finding", "issuing", "moving", "inserting", "revoking",
             "reactivating"} \subseteq Stages
        /\ NoCredential \in Credentials \cup {NoCredential} /\ {} \in SUBSET Credentials
        /\ job[p].copy \in Stay /\ job[p].cred \in Credentials \cup {NoCredential}
        /\ TRUE \in BOOLEAN /\ FALSE \in BOOLEAN
    BY CopyType DEF Stages
  <1>2. ASSUME job' \in [Processes -> Job], messages' \subseteq Reservation, stay' \in Stay,
               UNCHANGED <<hostaway, dropped, rows, ops>>
        PROVE  TypeOK'
    BY <1>2 DEF TypeOK
  <1>3. ASSUME NEW unit \in Units, Persist(p, unit)
        PROVE  TypeOK'
    <2>1. Projected(job[p], unit) \in Stay
      BY ProjectedType
    <2>2. stay' \in Stay
      BY <1>3, <2>1 DEF Persist, TypeOK
    <2>3. job' \in [Processes -> Job] /\ messages' \subseteq Reservation
      BY <1>1, <1>3, <2>1, GoType, FinishType DEF Persist, TypeOK
    <2>. QED
      BY <1>2, <1>3, <2>2, <2>3 DEF Persist
  <1>4. CASE Find(p)
    <2>1. job' \in [Processes -> Job] /\ messages' \subseteq Reservation
      <3>1. CASE Live = {}
        BY <1>1, <1>4, <3>1, GoType DEF Find, TypeOK
      <3>2. ASSUME NEW c \in Live,
                   IF rows[c].day = job[p].copy.day
                   THEN Finish(p, TRUE)
                   ELSE Go(p, "moving", job[p].copy, c, {}) /\ UNCHANGED messages
            PROVE  job' \in [Processes -> Job] /\ messages' \subseteq Reservation
        <4>1. c \in Credentials \cup {NoCredential}
          BY LiveType
        <4>. QED
          BY <1>1, <3>2, <4>1, GoType, FinishType DEF TypeOK
      <3>. QED
        BY <1>4, <3>1, <3>2 DEF Find
    <2>. QED
      BY <1>2, <1>4, <2>1 DEF Find, TypeOK
  <1>5. CASE Check(p)
    <2>1. job' \in [Processes -> Job] /\ messages' \subseteq Reservation
      BY <1>1, <1>5, GoType, FinishType DEF Check, TypeOK
    <2>. QED
      BY <1>2, <1>5, <2>1 DEF Check, TypeOK
  <1>6. CASE Vanish(p)
    <2>1. stay' \in Stay
      BY <1>1, <1>6 DEF Vanish, Stay
    <2>2. job' \in [Processes -> Job]
      BY <1>1, <1>6, GoType DEF Vanish
    <2>. QED
      BY <1>2, <1>6, <2>1, <2>2 DEF Vanish, TypeOK
  <1>7. CASE ListLive(p)
    <2>1. job' \in [Processes -> Job] /\ messages' \subseteq Reservation
      BY <1>1, <1>7, LiveType, GoType, FinishType DEF ListLive, TypeOK
    <2>. QED
      BY <1>2, <1>7, <2>1 DEF ListLive, TypeOK
  <1>8. CASE Mark(p)
    <2>1. stay' \in Stay
      BY <1>1, <1>8 DEF Mark, Suspended, Stay
    <2>2. job' \in [Processes -> Job]
      BY <1>1, <1>8, GoType DEF Mark
    <2>. QED
      BY <1>2, <1>8, <2>1, <2>2 DEF Mark, TypeOK
  <1>9. CASE Restore(p)
    <2>1. job' \in [Processes -> Job] /\ messages' \subseteq Reservation
      BY <1>1, <1>9, GoType, FinishType DEF Restore, TypeOK
    <2>. QED
      BY <1>2, <1>9, <2>1 DEF Restore, TypeOK
  <1>10. CASE Unmark(p)
    <2>1. stay' \in Stay
      BY <1>1, <1>10 DEF Unmark, Suspended, Stay
    <2>2. job' \in [Processes -> Job] /\ messages' \subseteq Reservation
      BY <1>1, <1>10, FinishType DEF Unmark
    <2>. QED
      BY <1>2, <1>10, <2>1, <2>2 DEF Unmark, TypeOK
  <1>. QED
    BY <1>3, <1>4, <1>5, <1>6, <1>7, <1>8, <1>9, <1>10

LEMMA RowFields ==
    ASSUME TypeOK, NEW c \in Credentials
    PROVE  /\ rows[c] \in Row
           /\ rows[c].status \in {"none", "live", "revoked"} /\ rows[c].scope \in Scopes
           /\ rows[c].day \in Days /\ rows[c].reason \in {"none", "cancelled", "cav"}
  BY DEF TypeOK, Row

LEMMA RevokedType ==
    ASSUME TypeOK, NEW c \in Credentials, NEW op
    PROVE  Revoked(rows[c], op) \in Row
  <1>1. [status |-> "revoked", scope |-> rows[c].scope, day |-> rows[c].day,
         reason |-> IF op = "access" THEN "cav" ELSE "cancelled"] \in Row
    BY RowFields DEF Row
  <1>. QED
    BY <1>1, RowFields DEF Revoked

\* The steps that write rows of credentials.
LEMMA RowTypes ==
    ASSUME TypeOK, stale' \subseteq Processes, NEW p \in Processes,
           \/ Move(p) \/ Insert(p) \/ Reactivate(p) \/ Rescope(p)
           \/ \E c \in Credentials : RevokeOne(p, c)
    PROVE  TypeOK'
  <1>1. /\ {"revoking", "unmarking"} \subseteq Stages
        /\ NoCredential \in Credentials \cup {NoCredential} /\ {} \in SUBSET Credentials
        /\ job[p].copy \in Stay /\ job[p].copy.day \in Days /\ job[p].level \in Scopes
        /\ job[p].todo \subseteq Credentials
        /\ TRUE \in BOOLEAN /\ FALSE \in BOOLEAN
    BY CopyType DEF Stages, Stay
  <1>2. ASSUME job' \in [Processes -> Job], messages' \subseteq Reservation,
               rows' \in [Credentials -> Row], UNCHANGED <<hostaway, dropped, stay, ops>>
        PROVE  TypeOK'
    BY <1>2 DEF TypeOK
  <1>3. CASE Move(p)
    <2>1. job[p].cred \in Credentials =>
            [status |-> rows[job[p].cred].status, scope |-> rows[job[p].cred].scope,
             day |-> job[p].copy.day, reason |-> rows[job[p].cred].reason] \in Row
      BY <1>1, RowFields DEF Row
    <2>2. rows' \in [Credentials -> Row]
      BY <1>3, <2>1, RowType DEF Move
    <2>3. job' \in [Processes -> Job] /\ messages' \subseteq Reservation
      BY <1>1, <1>3, FinishType DEF Move
    <2>. QED
      BY <1>2, <1>3, <2>2, <2>3 DEF Move
  <1>4. CASE Insert(p)
    <2>1. [status |-> "live", scope |-> "pedestrian", day |-> job[p].copy.day,
           reason |-> "none"] \in Row
      BY <1>1 DEF Row, Scopes
    <2>2. rows' \in [Credentials -> Row]
      BY <1>4, <2>1, RowType DEF Insert, TypeOK
    <2>3. job' \in [Processes -> Job] /\ messages' \subseteq Reservation
      BY <1>1, <1>4, FinishType DEF Insert
    <2>. QED
      BY <1>2, <1>4, <2>2, <2>3 DEF Insert
  <1>5. CASE Reactivate(p)
    <2>1. [status |-> "live", scope |-> job[p].level, day |-> job[p].copy.day,
           reason |-> "none"] \in Row
      BY <1>1 DEF Row
    <2>2. rows' \in [Credentials -> Row]
      BY <1>5, <2>1, RowType DEF Reactivate, TypeOK
    <2>3. job' \in [Processes -> Job] /\ messages' \subseteq Reservation
      BY <1>1, <1>5, GoType, FinishType DEF Reactivate, TypeOK
    <2>. QED
      BY <1>2, <1>5, <2>2, <2>3 DEF Reactivate
  <1>6. CASE Rescope(p)
    <2>1. ASSUME job[p].cred \in Credentials
          PROVE  (IF rows[job[p].cred].status = "live" /\ LiveIn(job[p].level) = {}
                  THEN [status |-> "live", scope |-> job[p].level,
                        day |-> rows[job[p].cred].day, reason |-> rows[job[p].cred].reason]
                  ELSE rows[job[p].cred]) \in Row
      <3>1. rows[job[p].cred] \in Row
        BY <2>1, RowFields
      <3>2. [status |-> "live", scope |-> job[p].level,
             day |-> rows[job[p].cred].day, reason |-> rows[job[p].cred].reason] \in Row
        BY <1>1, <2>1, RowFields DEF Row
      <3>. QED
        BY <3>1, <3>2
    <2>2. rows' \in [Credentials -> Row]
      BY <1>6, <2>1, RowType DEF Rescope
    <2>3. job' \in [Processes -> Job] /\ messages' \subseteq Reservation
      BY <1>1, <1>6, FinishType DEF Rescope
    <2>. QED
      BY <1>2, <1>6, <2>2, <2>3 DEF Rescope
  <1>7. ASSUME NEW c \in Credentials, RevokeOne(p, c)
        PROVE  TypeOK'
    <2>1. rows' \in [Credentials -> Row]
      BY <1>7, RevokedType, RowType DEF RevokeOne
    <2>2. job[p].todo \ {c} \in SUBSET Credentials
      BY <1>1
    <2>3. job' \in [Processes -> Job] /\ messages' \subseteq Reservation
      BY <1>1, <1>7, <2>2, GoType, FinishType DEF RevokeOne, TypeOK
    <2>. QED
      BY <1>2, <1>7, <2>1, <2>3 DEF RevokeOne
  <1>. QED
    BY <1>3, <1>4, <1>5, <1>6, <1>7

\* The requests of the CAV only start something.
Asks(p) ==
    \/ Suspend(p)
    \/ \E c \in Credentials, level \in Scopes : Widen(p, c, level) \/ Resume(p, c, level)

LEMMA OpsType ==
    ASSUME TypeOK, NEW operation, Spend(operation)
    PROVE  ops' \in 0..MaxOps
  BY BoundsAssumption DEF TypeOK, Spend

LEMMA AccessTypes ==
    ASSUME TypeOK, stale' \subseteq Processes, NEW p \in Processes, Asks(p)
    PROVE  TypeOK'
  <1>1. ASSUME NEW stage \in Stages, NEW c \in Credentials \cup {NoCredential},
               NEW level \in Scopes, Access(p, stage, c, level)
        PROVE  TypeOK'
    <2>1. NoReservation \in Reservation /\ 0 \in Days /\ stay \in Stay
      BY BoundsAssumption DEF NoReservation, Reservation, Days, TypeOK
    <2>2. [stage |-> stage, op |-> "access", msg |-> NoReservation, day |-> 0,
           listed |-> FALSE, copy |-> stay, cred |-> c, level |-> level, todo |-> {}] \in Job
      BY <2>1 DEF Job
    <2>3. job' \in [Processes -> Job]
      BY <1>1, <2>2 DEF Access, TypeOK
    <2>4. ops' \in 0..MaxOps
      BY <1>1, OpsType DEF Access
    <2>. QED
      BY <1>1, <2>3, <2>4 DEF Access, TypeOK
  <1>2. {"listing", "marking", "scoping", "restoring"} \subseteq Stages
        /\ "pedestrian" \in Scopes
    BY DEF Stages, Scopes
  <1>3. CASE Suspend(p)
    BY <1>1, <1>2, <1>3 DEF Suspend
  <1>4. ASSUME NEW c \in Credentials, NEW level \in Scopes,
               Widen(p, c, level) \/ Resume(p, c, level)
        PROVE  TypeOK'
    BY <1>1, <1>2, <1>4 DEF Widen, Resume
  <1>. QED
    BY <1>3, <1>4 DEF Asks

LEMMA OutsideTypes ==
    ASSUME TypeOK, stale' \subseteq Processes,
           \/ \E r \in Reservation : Change(r)
           \/ \E m \in messages : Lose(m)
           \/ Crash \/ \E p \in Processes : Fault(p)
    PROVE  TypeOK'
  <1>1. ASSUME NEW r \in Reservation, Change(r)
        PROVE  TypeOK'
    <2>1. ops' \in 0..MaxOps
      BY <1>1, OpsType DEF Change
    <2>2. messages' \subseteq Reservation /\ dropped' \in BOOLEAN /\ hostaway' \in Reservation
      BY <1>1 DEF Change, TypeOK
    <2>. QED
      BY <1>1, <2>1, <2>2 DEF Change, TypeOK
  <1>2. ASSUME NEW m \in messages, Lose(m)
        PROVE  TypeOK'
    BY <1>2 DEF Lose, TypeOK
  <1>3. CASE Crash
    <2>1. ops' \in 0..MaxOps
      BY <1>3, OpsType DEF Crash
    <2>. QED
      BY <1>3, <2>1, IdleType DEF Crash, TypeOK
  <1>4. ASSUME NEW p \in Processes, Fault(p)
        PROVE  TypeOK'
    <2>1. ops' \in 0..MaxOps
      BY <1>4, OpsType DEF Fault
    <2>2. job' \in [Processes -> Job] /\ messages' \subseteq Reservation
      BY <1>4, FinishType DEF Fault
    <2>. QED
      BY <1>4, <2>1, <2>2 DEF Fault, TypeOK
  <1>. QED
    BY <1>1, <1>2, <1>3, <1>4

LEMMA NextTypes == TypeOK /\ [Next]_vars => TypeOK'
  <1>. SUFFICES ASSUME TypeOK, [Next]_vars
                PROVE  TypeOK'
    OBVIOUS
  <1>1. ASSUME stale' \subseteq Processes, NEW p \in Processes, Step(p)
        PROVE  TypeOK'
    BY <1>1, PathTypes, StayTypes, RowTypes DEF Step
  <1>2. ASSUME stale' \subseteq Processes, NEW p \in Processes,
               SweepStart(p) \/ Asks(p) \/ Fault(p) \/ \E m \in messages : Deliver(p, m)
        PROVE  TypeOK'
    BY <1>2, PathTypes, AccessTypes, OutsideTypes
  <1>3. CASE UNCHANGED vars
    BY <1>3 DEF vars, TypeOK
  <1>4. Observe => stale' \subseteq Processes
    BY DEF Observe
  <1>. QED
    BY <1>1, <1>2, <1>3, <1>4, OutsideTypes DEF Next, Act, Asks

\* Every variable keeps its type, whatever overlaps, fails or dies.
THEOREM TypeCorrect == Spec => []TypeOK
  BY InitTypes, NextTypes, PTL DEF Spec

----------------------------------------------------------------------------
(* The unique index, whatever overlaps.                                    *)

\* A statement that writes one row, and respects the index if it leaves it live.
LEMMA OneWrite ==
    ASSUME OnePinPerScope, NEW c,
           \A e \in Credentials \ {c} : rows'[e] = rows[e],
           rows'[c].status = "live" => LiveIn(rows'[c].scope) \ {c} = {}
    PROVE  OnePinPerScope'
  BY DEF OnePinPerScope, Live, LiveIn

LEMMA IndexHolds ==
    ASSUME TypeOK, OnePinPerScope, [Next]_vars
    PROVE  OnePinPerScope'
  <1>1. CASE UNCHANGED rows
    BY <1>1 DEF OnePinPerScope, Live
  <1>2. ASSUME NEW p \in Processes, Move(p)
        PROVE  OnePinPerScope'
    <2>1. \A e \in Credentials : rows'[e].status = rows[e].status /\ rows'[e].scope = rows[e].scope
      BY <1>2 DEF Move, TypeOK
    <2>. QED
      BY <2>1 DEF OnePinPerScope, Live
  <1>3. ASSUME NEW p \in Processes, Insert(p)
        PROVE  OnePinPerScope'
    <2>1. CASE LiveIn("pedestrian") # {}
      BY <1>1, <1>3, <2>1 DEF Insert
    <2>2. CASE LiveIn("pedestrian") = {}
      <3>1. PICK c \in Credentials :
              rows' = [rows EXCEPT ![c] =
                [status |-> "live", scope |-> "pedestrian",
                 day |-> job[p].copy.day, reason |-> "none"]]
        BY <1>3, <2>2 DEF Insert
      <3>2. rows'[c].scope = "pedestrian" /\ \A e \in Credentials \ {c} : rows'[e] = rows[e]
        BY <3>1 DEF TypeOK
      <3>. QED
        BY <2>2, <3>2, OneWrite
    <2>. QED
      BY <2>1, <2>2
  <1>4. ASSUME NEW p \in Processes, Reactivate(p)
        PROVE  OnePinPerScope'
    <2>. DEFINE c == job[p].cred
    <2>1. CASE LiveIn(job[p].level) \ {c} # {}
      BY <1>1, <1>4, <2>1 DEF Reactivate
    <2>2. CASE LiveIn(job[p].level) \ {c} = {}
      <3>1. rows' = [rows EXCEPT ![c] =
              [status |-> "live", scope |-> job[p].level,
               day |-> job[p].copy.day, reason |-> "none"]]
        BY <1>4, <2>2 DEF Reactivate
      <3>2. c \in Credentials => rows'[c].scope = job[p].level
        BY <3>1 DEF TypeOK
      <3>3. \A e \in Credentials \ {c} : rows'[e] = rows[e]
        BY <3>1 DEF TypeOK
      <3>. QED
        BY <1>1, <2>2, <3>1, <3>2, <3>3 DEF OnePinPerScope, Live, LiveIn, TypeOK
    <2>. QED
      BY <2>1, <2>2
  <1>5. ASSUME NEW p \in Processes, Rescope(p)
        PROVE  OnePinPerScope'
    <2>1. PICK c : c = job[p].cred
      OBVIOUS
    <2>2. \A e \in Credentials \ {c} : rows'[e] = rows[e]
      BY <1>5, <2>1 DEF Rescope, TypeOK
    <2>3. CASE rows[c].status = "live" /\ LiveIn(job[p].level) = {}
      <3>1. c \in Credentials => rows'[c].scope = job[p].level
        BY <1>5, <2>1, <2>3 DEF Rescope, TypeOK
      <3>. QED
        BY <2>2, <2>3, <3>1 DEF OnePinPerScope, Live, LiveIn
    <2>4. CASE ~(rows[c].status = "live" /\ LiveIn(job[p].level) = {})
      <3>1. \A e \in Credentials : rows'[e] = rows[e]
        BY <1>5, <2>1, <2>4 DEF Rescope, TypeOK
      <3>. QED
        BY <3>1 DEF OnePinPerScope, Live
    <2>. QED
      BY <2>3, <2>4
  <1>6. ASSUME NEW p \in Processes, NEW c \in Credentials, RevokeOne(p, c)
        PROVE  OnePinPerScope'
    <2>1. \A e \in Credentials : rows'[e].status = "live" => rows'[e] = rows[e]
      BY <1>6 DEF RevokeOne, Revoked, TypeOK
    <2>. QED
      BY <2>1 DEF OnePinPerScope, Live
  <1>. QED
    BY <1>1, <1>2, <1>3, <1>4, <1>5, <1>6
    DEF Next, Act, Step, vars, SweepStart, Suspend, Widen, Resume, Access, Fault, Deliver, Change,
        Lose, Crash, Fetch, FetchFails, Read, Find, Check, Compare, Vanish, ListLive, Mark,
        Restore, Unmark, Persist

\* Whatever overlaps, two PINs of a guest have different scopes: the unique index
\* holds where issue() and changeScope() looked too early.
THEOREM IndexAlwaysHolds == Spec => []OnePinPerScope
  <1>1. Init => OnePinPerScope
    BY DEF Init, OnePinPerScope, Live, NoRow
  <1>2. TypeOK /\ OnePinPerScope /\ [Next]_vars => OnePinPerScope'
    BY IndexHolds
  <1>. QED
    BY <1>1, <1>2, TypeCorrect, PTL DEF Spec

----------------------------------------------------------------------------
(* Second PINs and suspensions, whatever overlaps.  A process that nobody    *)
(* has overtaken still sees what it looked at; one that has been may act on  *)
(* something else, and is excepted in the properties.                        *)

Sees(p) ==
    /\ job[p].stage \in {"finding", "issuing", "inserting"} => ~job[p].copy.suspended
    /\ p \notin stale =>
         /\ job[p].stage \in {"issuing", "inserting", "reactivating"} => Live = {}
         /\ job[p].stage \in {"restoring", "reactivating"} =>
              /\ job[p].cred \in Credentials
              /\ rows[job[p].cred].status = "revoked" /\ rows[job[p].cred].reason = "cav"
         /\ job[p].stage = "unmarking" => Live # {}

IInv == TypeOK /\ \A p \in Processes : Sees(p)

\* What one step must respect: the bodies of the two properties.
FirstPin ==
    (\E c \in Credentials : BecomesLive(c)) => Live = {} \/ \E p \in stale : Acts(p)

Suspends ==
    stay.suspended =>
      \/ /\ \A c \in Credentials : BecomesLive(c) => rows[c].reason = "cav"
         /\ ~stay'.suspended => Live # {}
      \/ \E p \in Processes : Acts(p) /\ (p \in stale \/ Unaware(p))

Respects == FirstPin /\ Suspends

\* A revoked row comes back or stays as it is.
RowsKept ==
    \A c \in Credentials : rows[c].status = "revoked" =>
      \/ BecomesLive(c)
      \/ rows'[c].status = "revoked" /\ rows'[c].reason = rows[c].reason

\* Nobody forgets by itself that it was overtaken.
LEMMA StaleStays ==
    ASSUME Observe, NEW p \in Processes, p \notin stale', job'[p].stage \in Looked
    PROVE  p \notin stale /\ (job'[p] = job[p] => Live' = Live)
  BY DEF Observe

\* A process that waits sees what it saw, or has been overtaken.
LEMMA WaitingSees ==
    ASSUME IInv, Observe, RowsKept, NEW q \in Processes, job'[q] = job[q]
    PROVE  Sees(q)'
  <1>1. Sees(q)
    BY DEF IInv
  <1>2. CASE q \notin stale' /\ job[q].stage \in Looked
    <2>1. q \notin stale /\ Live' = Live
      BY <1>2, StaleStays
    <2>2. \A c \in Credentials : ~BecomesLive(c)
      BY <2>1 DEF Live, BecomesLive
    <2>. QED
      BY <1>1, <2>1, <2>2 DEF Sees, RowsKept
  <1>3. CASE ~(q \notin stale' /\ job[q].stage \in Looked)
    BY <1>1, <1>3 DEF Sees, Looked
  <1>. QED
    BY <1>2, <1>3

LEMMA OneProcess ==
    ASSUME IInv, TypeOK', Observe, RowsKept, NEW p \in Processes, NEW j,
           job' = [job EXCEPT ![p] = j], Sees(p)'
    PROVE  IInv'
  <1>1. \A q \in Processes \ {p} : job'[q] = job[q]
    BY DEF IInv, TypeOK
  <1>. QED
    BY <1>1, WaitingSees DEF IInv

\* A step of one process that leaves the credentials alone.
LEMMA StayStep ==
    ASSUME IInv, TypeOK', Observe, NEW p \in Processes, NEW j,
           job' = [job EXCEPT ![p] = j], UNCHANGED rows, Sees(p)',
           stay.suspended /\ ~stay'.suspended =>
             Live # {} \/ (Acts(p) /\ (p \in stale \/ Unaware(p)))
    PROVE  IInv' /\ Respects
  <1>1. RowsKept /\ \A c \in Credentials : ~BecomesLive(c)
    BY DEF RowsKept, BecomesLive
  <1>. QED
    BY <1>1, OneProcess DEF Respects, FirstPin, Suspends

\* A stage at which nothing that was read of PINs or suspensions matters.
LEMMA RestSees ==
    ASSUME NEW p \in Processes,
           job'[p].stage \notin {"finding", "issuing", "inserting", "restoring",
                                 "reactivating", "unmarking"}
    PROVE  Sees(p)'
  BY DEF Sees

LEMMA GoTo ==
    ASSUME TypeOK, NEW p \in Processes, NEW stage, NEW copy, NEW cred, NEW todo,
           Go(p, stage, copy, cred, todo)
    PROVE  /\ job'[p].stage = stage /\ job'[p].copy = copy /\ job'[p].cred = cred
           /\ \E j : job' = [job EXCEPT ![p] = j]
  BY DEF Go, TypeOK

LEMMA FinishSees ==
    ASSUME TypeOK, NEW p \in Processes, NEW ok \in BOOLEAN, Finish(p, ok)
    PROVE  Sees(p)' /\ \E j : job' = [job EXCEPT ![p] = j]
  BY FinishType, RestSees DEF Finish

LEMMA PathHolds ==
    ASSUME IInv, TypeOK', Observe, NEW p \in Processes,
           \/ \E m \in messages : Deliver(p, m)
           \/ SweepStart(p) \/ Fetch(p) \/ FetchFails(p) \/ Read(p) \/ Compare(p)
    PROVE  IInv' /\ Respects
  <1>1. ASSUME NEW j, job' = [job EXCEPT ![p] = j], Sees(p)', UNCHANGED <<stay, rows>>
        PROVE  IInv' /\ Respects
    BY <1>1, StayStep
  <1>2. TypeOK /\ Sees(p) /\ job[p] \in Job /\ job[p].day \in Days
    BY CopyType DEF IInv
  <1>3. ASSUME NEW j, job' = [job EXCEPT ![p] = j], UNCHANGED <<stay, rows>>,
               job'[p].stage \in {"idle", "fetching", "reading", "locating", "comparing",
                                  "vanishing"}
        PROVE  IInv' /\ Respects
    BY <1>1, <1>3, RestSees
  <1>4. ASSUME NEW m \in messages, Deliver(p, m)
        PROVE  IInv' /\ Respects
    <2>1. CASE m.status = "other"
      <3>1. job' = [job EXCEPT ![p] = job[p]] /\ job'[p].stage = "idle"
        BY <1>2, <1>4, <2>1 DEF Deliver, Free, TypeOK
      <3>. QED
        BY <1>3, <1>4, <3>1 DEF Deliver
    <2>2. CASE m.status # "other"
      <3>1. job'[p].stage = "reading"
        BY <1>2, <1>4, <2>2 DEF Deliver, TypeOK
      <3>. QED
        BY <1>3, <1>4, <2>2, <3>1 DEF Deliver
    <2>. QED
      BY <2>1, <2>2
  <1>5. CASE SweepStart(p)
    <2>1. job'[p].stage = "fetching"
      BY <1>2, <1>5 DEF SweepStart, Sweeping, TypeOK
    <2>. QED
      BY <1>3, <1>5, <2>1 DEF SweepStart
  <1>6. CASE Fetch(p)
    <2>1. job'[p].stage \in {"reading", "comparing"}
      BY <1>2, <1>6 DEF Fetch, Sweeping, TypeOK
    <2>. QED
      BY <1>3, <1>6, <2>1 DEF Fetch
  <1>7. CASE FetchFails(p)
    <2>1. job'[p].stage \in {"fetching", "idle"}
      BY <1>2, <1>7, NextDayType DEF FetchFails, TypeOK
    <2>. QED
      BY <1>3, <1>7, <2>1 DEF FetchFails
  <1>8. CASE Read(p)
    BY <1>2, <1>3, <1>8, GoTo DEF Read
  <1>9. CASE Compare(p)
    <2>1. job'[p].stage \in {"vanishing", "fetching", "idle"}
      BY <1>2, <1>9, NextDayType DEF Compare, TypeOK
    <2>. QED
      BY <1>3, <1>9, <2>1 DEF Compare
  <1>. QED
    BY <1>4, <1>5, <1>6, <1>7, <1>8, <1>9

LEMMA StayHolds ==
    ASSUME IInv, TypeOK', Observe, NEW p \in Processes,
           \/ \E unit \in Units : Persist(p, unit)
           \/ Find(p) \/ Check(p) \/ Vanish(p) \/ ListLive(p) \/ Mark(p) \/ Restore(p)
           \/ Unmark(p)
    PROVE  IInv' /\ Respects
  <1>1. ASSUME NEW j, job' = [job EXCEPT ![p] = j], Sees(p)', UNCHANGED rows,
               stay.suspended /\ ~stay'.suspended =>
                 Live # {} \/ (Acts(p) /\ (p \in stale \/ Unaware(p)))
        PROVE  IInv' /\ Respects
    BY <1>1, StayStep
  <1>2. TypeOK /\ Sees(p) /\ TRUE \in BOOLEAN /\ FALSE \in BOOLEAN
    BY DEF IInv
  <1>3. ASSUME NEW unit \in Units, Persist(p, unit)
        PROVE  IInv' /\ Respects
    <2>. DEFINE saved == Projected(job[p], unit)
    <2>1. /\ job[p].stage = "locating" /\ saved.suspended = job[p].copy.suspended
          /\ UNCHANGED rows
      BY <1>3 DEF Persist, Projected
    <2>2. ASSUME job'[p].stage # "locating", stay' = stay \/ stay' = saved
          PROVE  stay.suspended /\ ~stay'.suspended => Acts(p) /\ Unaware(p)
      BY <2>1, <2>2 DEF Acts, Unaware
    <2>3. CASE \E ok \in BOOLEAN : Finish(p, ok)
      <3>1. stay' = stay \/ stay' = saved
        BY <1>3 DEF Persist
      <3>2. job'[p].stage # "locating"
        BY <1>2, <2>3, FinishType
      <3>. HIDE DEF saved
      <3>. QED
        BY <1>1, <1>2, <2>1, <2>2, <2>3, <3>1, <3>2, FinishSees
    <2>4. CASE stay' = saved /\ Go(p, "listing", saved, NoCredential, {})
      <3>. HIDE DEF saved
      <3>1. job'[p].stage = "listing" /\ \E j : job' = [job EXCEPT ![p] = j]
        BY <1>2, <2>4, GoTo
      <3>2. Sees(p)'
        BY <3>1, RestSees
      <3>. QED
        BY <1>1, <2>1, <2>2, <2>4, <3>1, <3>2
    <2>5. CASE /\ stay' = saved /\ ~saved.suspended
               /\ Go(p, "finding", saved, NoCredential, {})
      <3>. HIDE DEF saved
      <3>1. /\ job'[p].stage = "finding" /\ job'[p].copy = saved
            /\ \E j : job' = [job EXCEPT ![p] = j]
        BY <1>2, <2>5, GoTo
      <3>2. Sees(p)'
        BY <2>5, <3>1 DEF Sees
      <3>. QED
        BY <1>1, <2>1, <2>2, <2>5, <3>1, <3>2
    <2>. QED
      BY <1>3, <2>3, <2>4, <2>5 DEF Persist
  <1>4. CASE Find(p)
    <2>1. ~job[p].copy.suspended /\ UNCHANGED <<stay, rows>>
      BY <1>2, <1>4 DEF Find, Sees
    <2>2. CASE Live = {} /\ Go(p, "issuing", job[p].copy, NoCredential, {})
      <3>1. /\ job'[p].stage = "issuing" /\ job'[p].copy = job[p].copy
            /\ \E j : job' = [job EXCEPT ![p] = j]
        BY <1>2, <2>2, GoTo
      <3>2. Sees(p)'
        BY <2>1, <2>2, <3>1 DEF Sees, Live
      <3>. QED
        BY <1>1, <2>1, <3>1, <3>2
    <2>3. ASSUME NEW c \in Live, Go(p, "moving", job[p].copy, c, {})
          PROVE  IInv' /\ Respects
      BY <1>1, <1>2, <2>1, <2>3, GoTo, RestSees
    <2>4. CASE Finish(p, TRUE)
      BY <1>1, <1>2, <2>1, <2>4, FinishSees
    <2>. QED
      BY <1>4, <2>2, <2>3, <2>4 DEF Find
  <1>5. CASE Check(p)
    <2>1. /\ job[p].stage = "issuing" /\ ~job[p].copy.suspended
          /\ UNCHANGED <<stay, rows>>
      BY <1>2, <1>5 DEF Check, Sees
    <2>2. CASE Finish(p, TRUE)
      BY <1>1, <1>2, <2>1, <2>2, FinishSees
    <2>3. CASE Go(p, "inserting", job[p].copy, NoCredential, {})
      <3>1. /\ job'[p].stage = "inserting" /\ job'[p].copy = job[p].copy
            /\ \E j : job' = [job EXCEPT ![p] = j]
        BY <1>2, <2>3, GoTo
      <3>2. p \notin stale' => p \notin stale
        BY <3>1, StaleStays DEF Looked
      <3>3. Sees(p)'
        BY <1>2, <2>1, <3>1, <3>2 DEF Sees, Live
      <3>. QED
        BY <1>1, <2>1, <3>1, <3>3
    <2>. QED
      BY <1>5, <2>2, <2>3 DEF Check
  <1>6. CASE Vanish(p)
    <2>1. /\ job[p].stage = "vanishing" /\ stay'.suspended = job[p].copy.suspended
          /\ UNCHANGED rows
      BY <1>6 DEF Vanish
    <2>2. job'[p].stage = "listing" /\ \E j : job' = [job EXCEPT ![p] = j]
      BY <1>2, <1>6, GoTo DEF Vanish
    <2>3. ~stay'.suspended => Acts(p) /\ Unaware(p)
      BY <2>1, <2>2 DEF Acts, Unaware
    <2>. QED
      BY <1>1, <2>1, <2>2, <2>3, RestSees
  <1>7. CASE ListLive(p)
    <2>1. CASE Finish(p, TRUE)
      BY <1>1, <1>2, <1>7, <2>1, FinishSees DEF ListLive
    <2>2. CASE Go(p, "revoking", job[p].copy, NoCredential, Live)
      BY <1>1, <1>2, <1>7, <2>2, GoTo, RestSees DEF ListLive
    <2>. QED
      BY <1>7, <2>1, <2>2 DEF ListLive
  <1>8. CASE Mark(p)
    <2>1. stay'.suspended /\ UNCHANGED rows
      BY <1>8 DEF Mark, Suspended
    <2>2. job'[p].stage = "listing" /\ \E j : job' = [job EXCEPT ![p] = j]
      BY <1>2, <1>8, GoTo DEF Mark
    <2>. QED
      BY <1>1, <2>1, <2>2, RestSees
  <1>9. CASE Restore(p)
    <2>1. job[p].stage = "restoring" /\ UNCHANGED <<stay, rows>>
      BY <1>9 DEF Restore
    <2>2. CASE Finish(p, FALSE)
      BY <1>1, <1>2, <2>1, <2>2, FinishSees
    <2>3. CASE Live = {} /\ Go(p, "reactivating", job[p].copy, job[p].cred, {})
      <3>1. /\ job'[p].stage = "reactivating" /\ job'[p].cred = job[p].cred
            /\ \E j : job' = [job EXCEPT ![p] = j]
        BY <1>2, <2>3, GoTo
      <3>2. p \notin stale' => p \notin stale
        BY <3>1, StaleStays DEF Looked
      <3>3. Sees(p)'
        BY <1>2, <2>1, <2>3, <3>1, <3>2 DEF Sees, Live
      <3>. QED
        BY <1>1, <2>1, <3>1, <3>3
    <2>. QED
      BY <1>9, <2>2, <2>3 DEF Restore
  <1>10. CASE Unmark(p)
    <2>1. job[p].stage = "unmarking" /\ UNCHANGED rows /\ Finish(p, TRUE)
      BY <1>10 DEF Unmark
    <2>2. p \notin stale => Live # {}
      BY <1>2, <2>1 DEF Sees
    <2>3. Acts(p)
      BY <1>2, <2>1, FinishType DEF Acts
    <2>. QED
      BY <1>1, <1>2, <2>1, <2>2, <2>3, FinishSees
  <1>. QED
    BY <1>3, <1>4, <1>5, <1>6, <1>7, <1>8, <1>9, <1>10

\* A step of one process that writes rows of credentials.
LEMMA RowStep ==
    ASSUME IInv, TypeOK', Observe, NEW p \in Processes, NEW j,
           job' = [job EXCEPT ![p] = j], Acts(p), UNCHANGED stay, RowsKept, Sees(p)',
           \A c \in Credentials : BecomesLive(c) =>
             /\ Live = {} \/ p \in stale
             /\ rows[c].reason = "cav" \/ p \in stale \/ (stay.suspended => Unaware(p))
    PROVE  IInv' /\ Respects
  <1>1. IInv'
    BY OneProcess
  <1>2. FirstPin
    BY DEF FirstPin
  <1>3. Suspends
    BY DEF Suspends
  <1>. QED
    BY <1>1, <1>2, <1>3 DEF Respects

LEMMA RowHolds ==
    ASSUME IInv, TypeOK', Observe, NEW p \in Processes,
           \/ Move(p) \/ Insert(p) \/ Reactivate(p) \/ Rescope(p)
           \/ \E c \in Credentials : RevokeOne(p, c)
    PROVE  IInv' /\ Respects
  <1>1. TypeOK /\ Sees(p) /\ TRUE \in BOOLEAN /\ FALSE \in BOOLEAN
    BY DEF IInv
  <1>2. ASSUME Finish(p, TRUE) \/ Finish(p, FALSE),
               job[p].stage \in {"moving", "inserting", "reactivating", "scoping", "revoking"}
        PROVE  Acts(p) /\ Sees(p)' /\ \E j : job' = [job EXCEPT ![p] = j]
    BY <1>1, <1>2, FinishType, FinishSees DEF Acts
  <1>3. ASSUME NEW j, job' = [job EXCEPT ![p] = j], Acts(p), Sees(p)', UNCHANGED stay,
               \A c \in Credentials : /\ rows'[c].status = "live" => rows[c].status = "live"
                                      /\ rows[c].status = "revoked" => rows'[c] = rows[c]
        PROVE  IInv' /\ Respects
    <2>1. RowsKept /\ \A c \in Credentials : ~BecomesLive(c)
      BY <1>3 DEF RowsKept, BecomesLive
    <2>. QED
      BY <1>3, <2>1, RowStep
  <1>4. CASE Move(p)
    <2>1. \A c \in Credentials : /\ rows'[c].status = rows[c].status
                                 /\ rows'[c].reason = rows[c].reason
      BY <1>1, <1>4 DEF Move, TypeOK
    <2>2. RowsKept /\ \A c \in Credentials : ~BecomesLive(c)
      BY <2>1 DEF RowsKept, BecomesLive
    <2>3. Acts(p) /\ Sees(p)' /\ \E j : job' = [job EXCEPT ![p] = j]
      BY <1>2, <1>4 DEF Move
    <2>. QED
      BY <1>4, <2>2, <2>3, RowStep DEF Move
  <1>5. CASE Insert(p)
    <2>1. job[p].stage = "inserting" /\ UNCHANGED stay
      BY <1>5 DEF Insert
    <2>2. ~job[p].copy.suspended /\ (p \notin stale => Live = {})
      BY <1>1, <2>1 DEF Sees
    <2>3. Acts(p) /\ Sees(p)' /\ \E j : job' = [job EXCEPT ![p] = j]
      BY <1>2, <1>5 DEF Insert
    <2>4. RowsKept
      <3>1. CASE UNCHANGED rows
        BY <3>1 DEF RowsKept
      <3>2. ASSUME LiveIn("pedestrian") = {}
            PROVE  RowsKept
        <4>. DEFINE unused == {c \in Credentials : rows[c].status = "none"}
                    fresh == CHOOSE c \in unused : TRUE
        <4>1. fresh \in unused
          BY <1>5, <3>2 DEF Insert
        <4>2. \A e \in Credentials \ {fresh} : rows'[e] = rows[e]
          BY <1>1, <1>5, <3>2 DEF Insert, TypeOK
        <4>. QED
          BY <4>1, <4>2 DEF RowsKept
      <3>. QED
        BY <1>5, <3>1, <3>2 DEF Insert
    <2>5. Unaware(p)
      BY <2>1, <2>2 DEF Unaware
    <2>. QED
      BY <2>1, <2>2, <2>3, <2>4, <2>5, RowStep
  <1>6. CASE Reactivate(p)
    <2>. DEFINE d == job[p].cred
    <2>1. job[p].stage = "reactivating" /\ UNCHANGED stay
      BY <1>6 DEF Reactivate
    <2>2. p \notin stale => /\ Live = {} /\ d \in Credentials
                            /\ rows[d].status = "revoked" /\ rows[d].reason = "cav"
      BY <1>1, <2>1 DEF Sees
    <2>3. CASE Finish(p, FALSE) /\ UNCHANGED rows
      <3>1. RowsKept /\ \A c \in Credentials : ~BecomesLive(c)
        BY <2>3 DEF RowsKept, BecomesLive
      <3>. QED
        BY <1>2, <2>1, <2>3, <3>1, RowStep
    <2>4. CASE /\ rows' = [rows EXCEPT ![d] = [status |-> "live", scope |-> job[p].level,
                                               day |-> job[p].copy.day, reason |-> "none"]]
               /\ Go(p, "unmarking", job[p].copy, NoCredential, {})
      <3>1. /\ d \in Credentials => rows'[d].status = "live"
            /\ \A e \in Credentials \ {d} : rows'[e] = rows[e]
        BY <1>1, <2>4 DEF TypeOK
      <3>2. job'[p].stage = "unmarking" /\ \E j : job' = [job EXCEPT ![p] = j]
        BY <1>1, <2>4, GoTo
      <3>3. Acts(p)
        BY <2>1, <3>2 DEF Acts
      <3>4. p \notin stale' => p \notin stale
        BY <3>2, StaleStays DEF Looked
      <3>5. p \notin stale => (Live # {})'
        BY <2>2, <3>1 DEF Live
      <3>6. Sees(p)'
        BY <3>2, <3>4, <3>5 DEF Sees
      <3>7. RowsKept /\ \A c \in Credentials : BecomesLive(c) => c = d
        BY <3>1 DEF RowsKept, BecomesLive
      <3>. QED
        BY <2>1, <2>2, <3>2, <3>3, <3>6, <3>7, RowStep
    <2>. QED
      BY <1>6, <2>3, <2>4 DEF Reactivate
  <1>7. CASE Rescope(p)
    <2>1. \A c \in Credentials : /\ rows'[c].status = rows[c].status
                                 /\ rows[c].status = "revoked" => rows'[c] = rows[c]
      BY <1>1, <1>7 DEF Rescope, TypeOK
    <2>2. Acts(p) /\ Sees(p)' /\ \E j : job' = [job EXCEPT ![p] = j]
      BY <1>2, <1>7 DEF Rescope
    <2>. QED
      BY <1>3, <1>7, <2>1, <2>2 DEF Rescope
  <1>8. ASSUME NEW c \in Credentials, RevokeOne(p, c)
        PROVE  IInv' /\ Respects
    <2>1. \A e \in Credentials : /\ rows'[e].status = "live" => rows[e].status = "live"
                                 /\ rows[e].status = "revoked" => rows'[e] = rows[e]
      BY <1>1, <1>8 DEF RevokeOne, Revoked, TypeOK
    <2>2. UNCHANGED stay /\ job[p].stage = "revoking" /\ c \in job[p].todo
      BY <1>8 DEF RevokeOne
    <2>3. CASE Finish(p, TRUE)
      BY <1>2, <1>3, <2>1, <2>2, <2>3
    <2>4. CASE Go(p, "revoking", job[p].copy, NoCredential, job[p].todo \ {c})
      <3>1. job'[p].stage = "revoking" /\ \E j : job' = [job EXCEPT ![p] = j]
        BY <1>1, <2>4, GoTo
      <3>2. job'[p].todo = job[p].todo \ {c}
        BY <1>1, <2>4 DEF Go, TypeOK
      <3>3. Acts(p) /\ Sees(p)'
        BY <2>2, <3>1, <3>2, RestSees DEF Acts
      <3>. QED
        BY <1>3, <2>1, <2>2, <3>1, <3>3
    <2>. QED
      BY <1>8, <2>3, <2>4 DEF RevokeOne
  <1>. QED
    BY <1>4, <1>5, <1>6, <1>7, <1>8

LEMMA AccessHolds ==
    ASSUME IInv, TypeOK', Observe, NEW p \in Processes, Asks(p)
    PROVE  IInv' /\ Respects
  <1>1. TypeOK
    BY DEF IInv
  <1>2. ASSUME NEW stage, NEW c, NEW level, Access(p, stage, c, level),
               \/ stage \in {"listing", "marking", "scoping"}
               \/ /\ stage = "restoring" /\ c \in Credentials
                  /\ rows[c].status = "revoked" /\ rows[c].reason = "cav"
        PROVE  IInv' /\ Respects
    <2>1. job'[p].stage = stage /\ job'[p].cred = c /\ \E j : job' = [job EXCEPT ![p] = j]
      BY <1>1, <1>2 DEF Access, TypeOK
    <2>2. UNCHANGED <<stay, rows>>
      BY <1>2 DEF Access
    <2>3. Sees(p)'
      BY <1>2, <2>1, <2>2 DEF Sees
    <2>. QED
      BY <2>1, <2>2, <2>3, StayStep
  <1>3. CASE Suspend(p)
    BY <1>2, <1>3 DEF Suspend
  <1>4. ASSUME NEW c \in Credentials, NEW level \in Scopes,
               Widen(p, c, level) \/ Resume(p, c, level)
        PROVE  IInv' /\ Respects
    BY <1>2, <1>4 DEF Widen, Resume
  <1>. QED
    BY <1>3, <1>4 DEF Asks

LEMMA OutsideHolds ==
    ASSUME IInv, TypeOK', Observe,
           \/ \E r \in Reservation : Change(r)
           \/ \E m \in messages : Lose(m)
           \/ Crash \/ \E p \in Processes : Fault(p)
    PROVE  IInv' /\ Respects
  <1>1. TypeOK /\ UNCHANGED <<stay, rows>>
    BY DEF IInv, Change, Lose, Crash, Fault
  <1>2. RowsKept /\ Respects
    BY <1>1 DEF RowsKept, Respects, FirstPin, Suspends, BecomesLive
  <1>3. CASE UNCHANGED job
    BY <1>2, <1>3, WaitingSees DEF IInv
  <1>4. CASE Crash
    <2>1. \A p \in Processes : Sees(p)'
      BY <1>4, RestSees DEF Crash, Idle
    <2>. QED
      BY <1>2, <2>1 DEF IInv
  <1>5. ASSUME NEW p \in Processes, Fault(p)
        PROVE  IInv' /\ Respects
    BY <1>1, <1>5, FinishSees, StayStep DEF Fault
  <1>. QED
    BY <1>2, <1>3, <1>4, <1>5 DEF Change, Lose

LEMMA InitHolds == Init => IInv
  BY InitTypes DEF Init, IInv, Sees, Idle

LEMMA NextHolds ==
    ASSUME IInv, [Next]_vars
    PROVE  IInv' /\ [Respects]_vars
  <1>1. TypeOK'
    BY NextTypes DEF IInv
  <1>2. ASSUME Observe, NEW p \in Processes, Step(p)
        PROVE  IInv' /\ Respects
    BY <1>1, <1>2, PathHolds, StayHolds, RowHolds DEF Step
  <1>3. ASSUME Observe, NEW p \in Processes,
               SweepStart(p) \/ Asks(p) \/ Fault(p) \/ \E m \in messages : Deliver(p, m)
        PROVE  IInv' /\ Respects
    BY <1>1, <1>3, PathHolds, AccessHolds, OutsideHolds
  <1>4. CASE UNCHANGED vars
    <2>1. \A p \in Processes : Sees(p)'
      BY <1>4 DEF vars, IInv, Sees, Live
    <2>. QED
      BY <1>1, <1>4, <2>1 DEF IInv
  <1>. QED
    BY <1>1, <1>2, <1>3, <1>4, OutsideHolds DEF Next, Act, Asks

LEMMA InvariantHolds == Spec => []IInv
  BY InitHolds, NextHolds, PTL DEF Spec

LEMMA StepsRespect == Spec => [][Respects]_vars
  <1>1. IInv /\ [Next]_vars => [Respects]_vars
    BY NextHolds
  <1>. QED
    BY <1>1, InvariantHolds, PTL DEF Spec

\* Whatever webhooks are lost, repeated or reordered, whatever fails or overlaps, a
\* guest who has a PIN gets a second one only from a process that another one has
\* overtaken since it looked.
THEOREM OnePinPerGuest == Spec => NoSecondPin
  <1>1. [Respects]_vars => [FirstPin]_vars
    BY DEF Respects
  <1>2. Spec => [][FirstPin]_vars
    BY <1>1, StepsRespect, PTL
  <1>. QED
    BY <1>2 DEF FirstPin, NoSecondPin

\* In the same way, a suspension holds until the CAV itself lifts it, except for
\* requests that read the stay before it or that were overtaken.
THEOREM SuspensionRespected == Spec => SuspensionHolds
  <1>1. [Respects]_vars => [Suspends]_vars
    BY DEF Respects
  <1>2. Spec => [][Suspends]_vars
    BY <1>1, StepsRespect, PTL
  <1>. QED
    BY <1>2 DEF Suspends, SuspensionHolds

----------------------------------------------------------------------------
(* Revocations for a cancellation, whatever overlaps.  While Hostaway has    *)
(* neither cancelled, deleted nor moved the reservation, nothing a process   *)
(* has read says so, and no day of the sweep can take it for vanished.       *)

\* What a process has read of a reservation that arrives on that day.
Harmless(j, arrival) ==
    /\ j.msg.status # "cancelled" /\ j.copy.status # "cancelled"
    /\ j.op # "vanish" /\ j.stage # "vanishing"
    /\ j.stage \in {"marking", "listing", "revoking"} => j.op = "access"
    /\ j.stage = "comparing" => j.op = "sweep"
    /\ Others # {} =>
         /\ j.stage \in {"reading", "locating"} => j.msg.day = arrival
         /\ j.copy.exists => j.copy.day = arrival
         /\ j.op = "sweep" /\ j.stage # "fetching" /\ ~j.listed => j.day # arrival

HarmlessStay(s, arrival) ==
    s.status # "cancelled" /\ (Others # {} /\ s.exists => s.day = arrival)

Innocent ==
    /\ hostaway.status \notin {"cancelled", "gone"}
    /\ \A m \in messages :
         m.status # "cancelled" /\ (Others # {} => m.day = hostaway.day)
    /\ HarmlessStay(stay, hostaway.day)
    /\ \A c \in Credentials : rows[c].reason # "cancelled"
    /\ \A p \in Processes : Harmless(job[p], hostaway.day)

Undropped == ~dropped => Innocent

LEMMA IdleHarmless == \A d : Harmless(Idle, d)
  BY DEF Harmless, Idle, NoReservation, NoStay

LEMMA SweepingHarmless ==
    ASSUME NEW d, NEW stage \in {"fetching", "reading", "comparing"}, NEW day, NEW msg,
           NEW listed \in BOOLEAN,
           msg.status # "cancelled",
           Others # {} /\ stage = "reading" => msg.day = d,
           Others # {} /\ stage # "fetching" /\ ~listed => day # d
    PROVE  Harmless(Sweeping(stage, day, msg, listed), d)
  BY DEF Harmless, Sweeping, NoStay

LEMMA NextDayHarmless == \A day, d : Harmless(NextDay(day), d)
  <1>. SUFFICES ASSUME NEW day, NEW d PROVE Harmless(NextDay(day), d)
    OBVIOUS
  <1>1. PICK next : next = day + 1
    OBVIOUS
  <1>2. Harmless(Sweeping("fetching", next, NoReservation, FALSE), d)
    BY DEF Harmless, Sweeping, NoReservation, NoStay
  <1>. QED
    BY <1>1, <1>2, IdleHarmless DEF NextDay

LEMMA AfterHarmless ==
    ASSUME NEW j \in Job, NEW ok \in BOOLEAN, NEW d, Harmless(j, d), j.stage # "fetching"
    PROVE  Harmless(After(j, ok), d)
  <1>1. CASE j.op = "sweep" /\ j.stage # "comparing"
    <2>1. Harmless(Sweeping("comparing", j.day, NoReservation, j.listed), d)
      BY <1>1 DEF Harmless, Sweeping, NoReservation, NoStay
    <2>. QED
      BY <1>1, <2>1 DEF After
  <1>2. CASE ~(j.op = "sweep" /\ j.stage # "comparing")
    BY <1>2, IdleHarmless, NextDayHarmless DEF After
  <1>. QED
    BY <1>1, <1>2

\* A step of one process under which nothing new is read that harms.
LEMMA OneJob ==
    ASSUME TypeOK, Innocent, NEW p \in Processes, NEW j, Harmless(j, hostaway.day),
           job' = [job EXCEPT ![p] = j], hostaway' = hostaway, messages' \subseteq messages,
           HarmlessStay(stay', hostaway.day),
           \A c \in Credentials : rows'[c].reason # "cancelled"
    PROVE  Innocent'
  <1>1. \A q \in Processes : job'[q] = j \/ job'[q] = job[q]
    BY DEF TypeOK
  <1>. QED
    BY <1>1 DEF Innocent

LEMMA FinishInnocent ==
    ASSUME TypeOK, Innocent, NEW p \in Processes, NEW ok \in BOOLEAN, Finish(p, ok),
           job[p].stage # "fetching", hostaway' = hostaway,
           HarmlessStay(stay', hostaway.day),
           \A c \in Credentials : rows'[c].reason # "cancelled"
    PROVE  Innocent'
  <1>1. Harmless(After(job[p], ok), hostaway.day)
    BY AfterHarmless DEF Innocent, TypeOK
  <1>2. messages' \subseteq messages
    BY DEF Finish
  <1>. QED
    BY <1>1, <1>2, OneJob DEF Finish

LEMMA GoInnocent ==
    ASSUME TypeOK, Innocent, NEW p \in Processes, NEW stage, NEW copy, NEW cred, NEW todo,
           Go(p, stage, copy, cred, todo), messages' = messages, hostaway' = hostaway,
           stage \notin {"reading", "comparing", "vanishing", "fetching"}, job[p].stage # "fetching",
           stage = "locating" => job[p].stage = "reading",
           stage \in {"marking", "listing", "revoking"} => job[p].op = "access",
           HarmlessStay(copy, hostaway.day), HarmlessStay(stay', hostaway.day),
           \A c \in Credentials : rows'[c].reason # "cancelled"
    PROVE  Innocent'
  <1>. DEFINE j == [stage |-> stage, op |-> job[p].op, msg |-> job[p].msg,
                    day |-> job[p].day, listed |-> job[p].listed, copy |-> copy,
                    cred |-> cred, level |-> job[p].level, todo |-> todo]
  <1>1. Harmless(job[p], hostaway.day)
    BY DEF Innocent
  <1>2. Harmless(j, hostaway.day)
    BY <1>1 DEF Harmless, HarmlessStay
  <1>. HIDE DEF j
  <1>3. job' = [job EXCEPT ![p] = j]
    BY DEF Go, j
  <1>. QED
    BY <1>2, <1>3, OneJob

LEMMA PathInnocent ==
    ASSUME TypeOK, Innocent, NEW p \in Processes,
           \/ \E m \in messages : Deliver(p, m)
           \/ SweepStart(p) \/ Fetch(p) \/ FetchFails(p) \/ Read(p) \/ Compare(p)
    PROVE  Innocent'
  <1>1. /\ HarmlessStay(stay, hostaway.day) /\ Harmless(job[p], hostaway.day)
        /\ \A c \in Credentials : rows[c].reason # "cancelled"
        /\ hostaway.status \notin {"cancelled", "gone"}
    BY DEF Innocent
  <1>2. UNCHANGED <<hostaway, stay, rows>>
    BY DEF Deliver, SweepStart, Fetch, FetchFails, Read, Compare
  <1>3. ASSUME NEW j, Harmless(j, hostaway.day), job' = [job EXCEPT ![p] = j],
               messages' = messages
        PROVE  Innocent'
    BY <1>1, <1>2, <1>3, OneJob
  <1>4. ASSUME NEW m \in messages, Deliver(p, m)
        PROVE  Innocent'
    <2>1. CASE m.status = "other"
      BY <1>2, <1>4, <2>1 DEF Deliver, Innocent
    <2>2. CASE m.status # "other"
      <3>. DEFINE j == [stage |-> "reading", op |-> "webhook", msg |-> m, day |-> 0,
                        listed |-> FALSE, copy |-> NoStay, cred |-> NoCredential,
                        level |-> "pedestrian", todo |-> {}]
      <3>1. Harmless(j, hostaway.day)
        BY DEF Harmless, Innocent, NoStay
      <3>2. job' = [job EXCEPT ![p] = j] /\ messages' = messages
        BY <1>4, <2>2 DEF Deliver
      <3>. HIDE DEF j
      <3>. QED
        BY <3>1, <3>2, <1>3
    <2>. QED
      BY <2>1, <2>2
  <1>5. CASE SweepStart(p)
    <2>1. Harmless(Sweeping("fetching", 1, NoReservation, FALSE), hostaway.day)
      BY SweepingHarmless DEF NoReservation
    <2>. QED
      BY <1>3, <1>5, <2>1 DEF SweepStart
  <1>6. CASE Fetch(p)
    <2>. DEFINE listed == hostaway.status # "gone" /\ hostaway.day = job[p].day
                projects == listed /\ hostaway.status # "other"
                stage == IF projects THEN "reading" ELSE "comparing"
                msg == IF projects THEN hostaway ELSE NoReservation
    <2>1. /\ stage \in {"fetching", "reading", "comparing"} /\ listed \in BOOLEAN
          /\ msg.status # "cancelled"
          /\ stage = "reading" => msg.day = hostaway.day
          /\ ~listed => job[p].day # hostaway.day
      BY <1>1 DEF NoReservation
    <2>2. job' = [job EXCEPT ![p] = Sweeping(stage, job[p].day, msg, listed)]
          /\ messages' = messages
      BY <1>6 DEF Fetch
    <2>. HIDE DEF listed, projects, stage, msg
    <2>3. Harmless(Sweeping(stage, job[p].day, msg, listed), hostaway.day)
      BY <2>1, SweepingHarmless
    <2>. QED
      BY <1>3, <2>2, <2>3
  <1>7. CASE FetchFails(p)
    BY <1>3, <1>7, NextDayHarmless DEF FetchFails
  <1>8. CASE Read(p)
    BY <1>1, <1>2, <1>8, GoInnocent DEF Read
  <1>9. CASE Compare(p)
    <2>1. ~(/\ stay.exists /\ stay.day = job[p].day /\ stay.status # "cancelled"
            /\ job[p].day \in Others /\ ~job[p].listed)
      <3>1. job[p].stage = "comparing" /\ job[p].op = "sweep"
        BY <1>1, <1>9 DEF Compare, Harmless
      <3>. QED
        BY <1>1, <3>1 DEF Compare, Harmless, HarmlessStay
    <2>2. job' = [job EXCEPT ![p] = NextDay(job[p].day)] /\ messages' = messages
      BY <1>9, <2>1 DEF Compare
    <2>. QED
      BY <1>3, <2>2, NextDayHarmless
  <1>. QED
    BY <1>4, <1>5, <1>6, <1>7, <1>8, <1>9

LEMMA StayInnocent ==
    ASSUME TypeOK, Innocent, NEW p \in Processes,
           \/ \E unit \in Units : Persist(p, unit)
           \/ Find(p) \/ Check(p) \/ Vanish(p) \/ ListLive(p) \/ Mark(p) \/ Restore(p)
           \/ Unmark(p)
    PROVE  Innocent'
  <1>1. /\ HarmlessStay(stay, hostaway.day) /\ Harmless(job[p], hostaway.day)
        /\ HarmlessStay(job[p].copy, hostaway.day)
        /\ \A c \in Credentials : rows[c].reason # "cancelled"
        /\ TRUE \in BOOLEAN /\ FALSE \in BOOLEAN
    BY DEF Innocent, Harmless, HarmlessStay
  <1>2. hostaway' = hostaway /\ rows' = rows
    BY DEF Persist, Find, Check, Vanish, ListLive, Mark, Restore, Unmark
  <1>3. ASSUME NEW ok \in BOOLEAN, Finish(p, ok), job[p].stage # "fetching",
               HarmlessStay(stay', hostaway.day)
        PROVE  Innocent'
    BY <1>1, <1>2, <1>3, FinishInnocent
  <1>4. ASSUME NEW stage, NEW copy, NEW cred, NEW todo,
               Go(p, stage, copy, cred, todo), messages' = messages,
               stage \notin {"reading", "locating", "comparing", "vanishing", "fetching"},
               job[p].stage # "fetching",
               stage \in {"marking", "listing", "revoking"} => job[p].op = "access",
               HarmlessStay(copy, hostaway.day), HarmlessStay(stay', hostaway.day)
        PROVE  Innocent'
    BY <1>1, <1>2, <1>4, GoInnocent
  <1>5. ASSUME NEW unit \in Units, Persist(p, unit)
        PROVE  Innocent'
    <2>. DEFINE saved == Projected(job[p], unit)
    <2>1. job[p].stage = "locating" /\ HarmlessStay(saved, hostaway.day)
          /\ saved.status # "cancelled"
      BY <1>1, <1>5 DEF Persist, Projected, Harmless, HarmlessStay
    <2>2. \/ \E ok \in BOOLEAN : Finish(p, ok) /\ (stay' = stay \/ stay' = saved)
          \/ /\ Go(p, "finding", saved, NoCredential, {}) /\ stay' = saved
             /\ messages' = messages
      BY <1>5, <2>1 DEF Persist
    <2>. HIDE DEF saved
    <2>. QED
      BY <1>1, <1>3, <1>4, <2>1, <2>2
  <1>6. CASE Find(p)
    <2>1. stay' = stay /\ job[p].stage = "finding"
      BY <1>6 DEF Find
    <2>2. \/ Finish(p, TRUE)
          \/ \E stage \in {"issuing", "moving"}, c \in Credentials \cup {NoCredential} :
               Go(p, stage, job[p].copy, c, {}) /\ messages' = messages
      BY <1>6, LiveType DEF Find
    <2>. QED
      BY <1>1, <1>3, <1>4, <2>1, <2>2
  <1>7. CASE Check(p)
    BY <1>1, <1>3, <1>4, <1>7 DEF Check
  <1>8. CASE Vanish(p)
    BY <1>1, <1>8 DEF Vanish, Harmless
  <1>9. CASE ListLive(p)
    <2>1. job[p].op = "access"
      BY <1>1, <1>9 DEF ListLive, Harmless
    <2>. QED
      BY <1>1, <1>3, <1>4, <1>9, <2>1 DEF ListLive
  <1>10. CASE Mark(p)
    <2>1. job[p].op = "access" /\ HarmlessStay(stay', hostaway.day)
      BY <1>1, <1>10 DEF Mark, Harmless, HarmlessStay, Suspended
    <2>. QED
      BY <1>1, <1>4, <1>10, <2>1 DEF Mark
  <1>11. CASE Restore(p)
    BY <1>1, <1>3, <1>4, <1>11 DEF Restore
  <1>12. CASE Unmark(p)
    <2>1. HarmlessStay(stay', hostaway.day)
      BY <1>1, <1>12 DEF Unmark, HarmlessStay, Suspended
    <2>. QED
      BY <1>1, <1>3, <1>12, <2>1 DEF Unmark
  <1>. QED
    BY <1>5, <1>6, <1>7, <1>8, <1>9, <1>10, <1>11, <1>12

LEMMA RowInnocent ==
    ASSUME TypeOK, Innocent, NEW p \in Processes,
           \/ Move(p) \/ Insert(p) \/ Reactivate(p) \/ Rescope(p)
           \/ \E c \in Credentials : RevokeOne(p, c)
    PROVE  Innocent'
  <1>1. /\ HarmlessStay(stay, hostaway.day) /\ Harmless(job[p], hostaway.day)
        /\ HarmlessStay(job[p].copy, hostaway.day)
        /\ \A c \in Credentials : rows[c].reason # "cancelled"
        /\ TRUE \in BOOLEAN /\ FALSE \in BOOLEAN
    BY DEF Innocent, Harmless, HarmlessStay
  <1>2. hostaway' = hostaway /\ stay' = stay
    BY DEF Move, Insert, Reactivate, Rescope, RevokeOne
  <1>3. \A c \in Credentials : rows'[c].reason # "cancelled"
    <2>1. ASSUME NEW d, NEW row, rows' = [rows EXCEPT ![d] = row],
                 d \in Credentials => row.reason # "cancelled"
          PROVE  \A c \in Credentials : rows'[c].reason # "cancelled"
      BY <1>1, <2>1 DEF TypeOK
    <2>2. CASE Move(p)
      BY <1>1, <2>1, <2>2 DEF Move
    <2>3. CASE Insert(p)
      BY <1>1, <2>1, <2>3 DEF Insert
    <2>4. CASE Reactivate(p)
      BY <1>1, <2>1, <2>4 DEF Reactivate
    <2>5. CASE Rescope(p)
      BY <1>1, <2>1, <2>5 DEF Rescope
    <2>6. ASSUME NEW c \in Credentials, RevokeOne(p, c)
          PROVE  \A e \in Credentials : rows'[e].reason # "cancelled"
      <3>1. job[p].op = "access"
        BY <1>1, <2>6 DEF RevokeOne, Harmless
      <3>. QED
        BY <1>1, <2>1, <2>6, <3>1 DEF RevokeOne, Revoked
    <2>. QED
      BY <2>2, <2>3, <2>4, <2>5, <2>6
  <1>4. job[p].stage # "fetching"
    BY DEF Move, Insert, Reactivate, Rescope, RevokeOne
  <1>5. CASE \E ok \in BOOLEAN : Finish(p, ok)
    BY <1>1, <1>2, <1>3, <1>4, <1>5, FinishInnocent
  <1>6. CASE Reactivate(p) /\ Go(p, "unmarking", job[p].copy, NoCredential, {})
             /\ messages' = messages
    BY <1>1, <1>2, <1>3, <1>4, <1>6, GoInnocent
  <1>7. ASSUME NEW c \in Credentials, RevokeOne(p, c),
               Go(p, "revoking", job[p].copy, NoCredential, job[p].todo \ {c}),
               messages' = messages
        PROVE  Innocent'
    <2>1. job[p].op = "access"
      BY <1>1, <1>7 DEF RevokeOne, Harmless
    <2>. QED
      BY <1>1, <1>2, <1>3, <1>4, <1>7, <2>1, GoInnocent
  <1>. QED
    BY <1>1, <1>5, <1>6, <1>7 DEF Move, Insert, Reactivate, Rescope, RevokeOne

LEMMA AccessInnocent ==
    ASSUME TypeOK, Innocent, NEW p \in Processes, Asks(p)
    PROVE  Innocent'
  <1>1. ASSUME NEW stage, NEW c, NEW level, Access(p, stage, c, level),
               stage \in {"listing", "marking", "scoping", "restoring"}
        PROVE  Innocent'
    <2>. DEFINE j == [stage |-> stage, op |-> "access", msg |-> NoReservation, day |-> 0,
                      listed |-> FALSE, copy |-> stay, cred |-> c, level |-> level,
                      todo |-> {}]
    <2>1. Harmless(j, hostaway.day)
      BY <1>1 DEF Harmless, NoReservation, Innocent, HarmlessStay
    <2>2. /\ job' = [job EXCEPT ![p] = j]
          /\ UNCHANGED <<hostaway, messages, stay, rows>>
      BY <1>1 DEF Access
    <2>. HIDE DEF j
    <2>. QED
      BY <2>1, <2>2, OneJob DEF Innocent
  <1>2. CASE Suspend(p)
    BY <1>1, <1>2 DEF Suspend
  <1>3. ASSUME NEW c \in Credentials, NEW level \in Scopes,
               Widen(p, c, level) \/ Resume(p, c, level)
        PROVE  Innocent'
    BY <1>1, <1>3 DEF Widen, Resume
  <1>. QED
    BY <1>2, <1>3 DEF Asks

LEMMA OutsideUndropped ==
    ASSUME TypeOK, Undropped,
           \/ \E r \in Reservation : Change(r)
           \/ \E m \in messages : Lose(m)
           \/ Crash \/ \E p \in Processes : Fault(p)
    PROVE  Undropped'
  <1>. SUFFICES ASSUME ~dropped' PROVE Innocent'
    BY DEF Undropped
  <1>1. Innocent
    BY DEF Undropped, Change, Lose, Crash, Fault
  <1>2. ASSUME NEW r \in Reservation, Change(r)
        PROVE  Innocent'
    <2>1. /\ r.status \notin {"cancelled", "gone"} /\ hostaway' = r
          /\ messages' = messages \cup {r} /\ UNCHANGED <<stay, rows, job>>
      BY <1>2 DEF Change
    <2>2. Others = {} \/ r.day = hostaway.day
      BY <1>2 DEF Change
    <2>3. HarmlessStay(stay, r.day)
      BY <1>1, <2>2 DEF Innocent, HarmlessStay
    <2>4. \A p \in Processes : Harmless(job[p], r.day)
      BY <1>1, <2>2 DEF Innocent, Harmless
    <2>5. \A m \in messages : m.status # "cancelled" /\ (Others # {} => m.day = r.day)
      BY <1>1, <2>2 DEF Innocent
    <2>. QED
      BY <1>1, <2>1, <2>3, <2>4, <2>5 DEF Innocent
  <1>3. ASSUME NEW m \in messages, Lose(m)
        PROVE  Innocent'
    BY <1>1, <1>3 DEF Lose, Innocent
  <1>4. CASE Crash
    BY <1>1, <1>4, IdleHarmless DEF Crash, Innocent
  <1>5. ASSUME NEW p \in Processes, Fault(p)
        PROVE  Innocent'
    BY <1>1, <1>5, FinishInnocent DEF Fault, Innocent
  <1>. QED
    BY <1>2, <1>3, <1>4, <1>5

LEMMA NextUndropped ==
    ASSUME TypeOK, Undropped, [Next]_vars
    PROVE  Undropped'
  <1>1. CASE UNCHANGED vars
    BY <1>1 DEF vars, Undropped, Innocent
  <1>2. ASSUME NEW p \in Processes,
               Step(p) \/ SweepStart(p) \/ Asks(p) \/ \E m \in messages : Deliver(p, m)
        PROVE  Undropped'
    <2>1. dropped' = dropped
      BY <1>2 DEF Step, SweepStart, Asks, Suspend, Widen, Resume, Access, Deliver, Fetch,
         FetchFails, Read, Find, Move, Check, Insert, Compare, Vanish, ListLive, Mark,
         Restore, Reactivate, Unmark, Rescope, Persist, RevokeOne
    <2>2. Innocent => Innocent'
      BY <1>2, PathInnocent, StayInnocent, RowInnocent, AccessInnocent DEF Step
    <2>. QED
      BY <2>1, <2>2 DEF Undropped
  <1>3. CASE \/ \E r \in Reservation : Change(r)
             \/ \E m \in messages : Lose(m)
             \/ Crash \/ \E p \in Processes : Fault(p)
    BY <1>3, OutsideUndropped
  <1>. QED
    BY <1>1, <1>2, <1>3 DEF Next, Act, Asks

\* Whatever overlaps, is lost or dies, a PIN is revoked for a cancellation only if
\* Hostaway cancelled or deleted the reservation, or moved it to another day while
\* others arrive.  With no other arrivals a moved reservation keeps its PIN: an
\* empty answer cancels nothing.
THEOREM OnlyCancelled == Spec => []OnlyCancelledRevoked
  <1>1. Init => Undropped
    <2>1. Init => \A p \in Processes, d \in Days : Harmless(job[p], d)
      BY IdleHarmless DEF Init
    <2>. QED
      BY <2>1 DEF Init, Undropped, Innocent, HarmlessStay, NoStay, NoRow
  <1>2. TypeOK /\ Undropped /\ [Next]_vars => Undropped'
    BY NextUndropped
  <1>3. Undropped => OnlyCancelledRevoked
    BY DEF Undropped, Innocent, OnlyCancelledRevoked
  <1>. QED
    BY <1>1, <1>2, <1>3, TypeCorrect, PTL DEF Spec

=============================================================================
