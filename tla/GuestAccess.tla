----------------------------- MODULE GuestAccess -----------------------------
(***************************************************************************)
(* The stay of one reservation and the guest's access to the doors         *)
(* (access-control/guest-stay.service.ts, reservation-sweep.service.ts,    *)
(* reservations.controller.ts and authorizations.service.ts).              *)
(*                                                                         *)
(* Three actors write the same two tables: the webhook of Hostaway, the    *)
(* daily sweep over the arrivals of the next days and the CAV supervisor.  *)
(* Each reads the stay, awaits something and saves the whole row again, so *)
(* they interleave between any two statements.  Webhooks are lost,         *)
(* repeated and reordered.  The push of a credential to the doors is       *)
(* CredentialSync's: here a credential is live or revoked.                 *)
(***************************************************************************)
EXTENDS Integers

CONSTANTS
    Processes,      \* requests and cron jobs served at the same time
    Credentials,    \* rows of access_credential of the guest
    NoCredential,   \* no row chosen yet
    LastDay,        \* the sweep looks at the arrivals of days 1..LastDay
    Others,         \* days on which other reservations arrive as well
    Operations,     \* what the outside may do, out of AllOperations
    MaxOps          \* bound of the model on those operations

AllOperations == {"change", "lose", "access", "crash", "fault"}

\* Day 0 is past: the window of the sweep starts today.  A day stands for the
\* dates of a stay and the validity computed from them.
Days == 0..LastDay

ASSUME BoundsAssumption == LastDay \in Nat \ {0} /\ MaxOps \in Nat
ASSUME OthersAssumption == Others \subseteq Days
ASSUME NoCredentialAssumption == NoCredential \notin Credentials

VARIABLES
    hostaway,       \* external: the reservation as Hostaway has it
    messages,       \* external: webhooks sent and not yet acknowledged
    dropped,        \* history: it was cancelled, deleted or left a day with others
    stay,           \* row of guest_stay
    rows,           \* rows of access_credential of this guest
    job,            \* what each process works on, and where it waits
    ops,            \* bound of the model: operations of the outside so far
    stale           \* history: processes overtaken since they looked for PINs

vars == <<hostaway, messages, dropped, stay, rows, job, ops, stale>>

\* ISSUING_STATUSES, CANCELLED_STATUSES and all the others; "gone" is a
\* reservation that Hostaway no longer lists.
Reservation == [status: {"issuing", "cancelled", "other", "gone"}, day: Days]
NoReservation == [status |-> "other", day |-> 0]

\* pending, active and completed follow from the dates: "live".
Stay == [exists: BOOLEAN, status: {"live", "cancelled"}, day: Days,
         located: BOOLEAN, suspended: BOOLEAN]
NoStay == [exists |-> FALSE, status |-> "live", day |-> 0,
           located |-> FALSE, suspended |-> FALSE]

Scopes == {"pedestrian", "both"}
Row == [status: {"none", "live", "revoked"}, scope: Scopes, day: Days,
        reason: {"none", "cancelled", "cav"}]
NoRow == [status |-> "none", scope |-> "pedestrian", day |-> 0, reason |-> "none"]

Stages == {"idle", "fetching", "reading", "locating", "finding", "moving", "issuing",
           "inserting", "comparing", "vanishing", "listing", "revoking", "marking",
           "restoring", "reactivating", "unmarking", "scoping"}

\* copy is the stay a process read; msg what it projects; day and listed are the
\* sweep's; cred and level what it acts on; todo what it still has to revoke.
Job == [stage: Stages, op: {"none", "webhook", "sweep", "vanish", "access"},
        msg: Reservation, day: Days, listed: BOOLEAN, copy: Stay,
        cred: Credentials \cup {NoCredential}, level: Scopes,
        todo: SUBSET Credentials]
Idle == [stage |-> "idle", op |-> "none", msg |-> NoReservation, day |-> 0,
         listed |-> FALSE, copy |-> NoStay, cred |-> NoCredential,
         level |-> "pedestrian", todo |-> {}]

Live == {c \in Credentials : rows[c].status = "live"}
LiveIn(scope) == {c \in Live : rows[c].scope = scope}

Init ==
    /\ hostaway \in [status: {"other", "issuing"}, day: Days]
    /\ messages = {}
    /\ dropped = FALSE
    /\ stay = NoStay
    /\ rows = [c \in Credentials |-> NoRow]
    /\ job = [p \in Processes |-> Idle]
    /\ ops = 0
    /\ stale = {}

-----------------------------------------------------------------------------
(* The steps of a process.                                                 *)

Spend(operation) == operation \in Operations /\ ops < MaxOps /\ ops' = ops + 1

Go(p, stage, copy, cred, todo) ==
    job' = [job EXCEPT ![p] =
      [stage |-> stage, op |-> job[p].op, msg |-> job[p].msg, day |-> job[p].day,
       listed |-> job[p].listed, copy |-> copy, cred |-> cred,
       level |-> job[p].level, todo |-> todo]]

\* One arrival day of the sweep, at some stage of it.
Sweeping(stage, day, msg, listed) ==
    [stage |-> stage, op |-> "sweep", msg |-> msg, day |-> day, listed |-> listed,
     copy |-> NoStay, cred |-> NoCredential, level |-> "pedestrian", todo |-> {}]

NextDay(day) ==
    IF day < LastDay THEN Sweeping("fetching", day + 1, NoReservation, FALSE) ELSE Idle

\* What follows a call that returned or threw: the sweep catches the errors of
\* a projection, but not those of its comparison.
After(j, ok) ==
    IF j.op = "sweep" /\ j.stage # "comparing"
    THEN Sweeping("comparing", j.day, NoReservation, j.listed)
    ELSE IF j.op = "vanish" /\ ok THEN NextDay(j.day) ELSE Idle

\* A webhook that failed is answered 503: Hostaway keeps it and sends it again.
Finish(p, ok) ==
    /\ job' = [job EXCEPT ![p] = After(job[p], ok)]
    /\ messages' = IF job[p].op = "webhook" /\ ok THEN messages \ {job[p].msg} ELSE messages

Free(p) == job[p].stage = "idle"

-----------------------------------------------------------------------------
(* Webhook and sweep: the way to a projection.                             *)

\* ReservationsController.receive(): the statuses that neither issue nor cancel
\* are acknowledged without effect.
Deliver(p, m) ==
    /\ Free(p)
    /\ m \in messages
    /\ IF m.status = "other"
       THEN messages' = messages \ {m} /\ UNCHANGED job
       ELSE /\ job' = [job EXCEPT ![p] =
                 [stage |-> "reading", op |-> "webhook", msg |-> m, day |-> 0,
                  listed |-> FALSE, copy |-> NoStay, cred |-> NoCredential,
                  level |-> "pedestrian", todo |-> {}]]
            /\ UNCHANGED messages
    /\ UNCHANGED <<hostaway, dropped, stay, rows, ops>>

\* ReservationSweepService.sweep(), once a day: one at a time.
SweepStart(p) ==
    /\ Free(p)
    /\ \A q \in Processes : job[q].op \notin {"sweep", "vanish"}
    /\ job' = [job EXCEPT ![p] = Sweeping("fetching", 1, NoReservation, FALSE)]
    /\ UNCHANGED <<hostaway, messages, dropped, stay, rows, ops>>

\* Mutant: the sweep projects every reservation it lists as confirmed.
FetchConfirmed(p) ==
    LET listed == hostaway.status # "gone" /\ hostaway.day = job[p].day
    IN  /\ job[p].stage = "fetching"
        /\ job' = [job EXCEPT ![p] =
             Sweeping(IF listed THEN "reading" ELSE "comparing", job[p].day,
                      [status |-> "issuing", day |-> job[p].day], listed)]
        /\ UNCHANGED <<hostaway, messages, dropped, stay, rows, ops>>

\* reconcileDate(): the arrivals of the day, as Hostaway has them.
Fetch(p) ==
    LET listed == hostaway.status # "gone" /\ hostaway.day = job[p].day
        projects == listed /\ hostaway.status # "other"
    IN  /\ job[p].stage = "fetching"
        /\ job' = [job EXCEPT ![p] =
             Sweeping(IF projects THEN "reading" ELSE "comparing", job[p].day,
                      IF projects THEN hostaway ELSE NoReservation, listed)]
        /\ UNCHANGED <<hostaway, messages, dropped, stay, rows, ops>>

\* Mutant: an answer that did not come is taken for a day without this arrival.
FetchNothing(p) ==
    /\ job[p].stage = "fetching"
    /\ job' = [job EXCEPT ![p] = Sweeping("comparing", job[p].day, NoReservation, FALSE)]
    /\ UNCHANGED <<hostaway, messages, dropped, stay, rows, ops>>

\* Hostaway does not answer: the day is skipped.
FetchFails(p) ==
    /\ job[p].stage = "fetching"
    /\ job' = [job EXCEPT ![p] = NextDay(job[p].day)]
    /\ UNCHANGED <<hostaway, messages, dropped, stay, rows, ops>>

-----------------------------------------------------------------------------
(* GuestStayService.upsertFromReservation().                               *)

\* persist(): the stay as it is before openMAINT is asked for the unit.
Read(p) ==
    /\ job[p].stage = "reading"
    /\ Go(p, "locating", stay, NoCredential, {})
    /\ UNCHANGED <<hostaway, messages, dropped, stay, rows, ops>>

\* Mutant: the reservation is saved without the stay it was read over.
ProjectedAfresh(j, unit) ==
    [exists |-> TRUE,
     status |-> IF j.msg.status = "cancelled" THEN "cancelled" ELSE "live",
     day |-> j.msg.day,
     located |-> unit = "found",
     suspended |-> FALSE]

\* The row persist() saves: the reservation over the stay it read.
Projected(j, unit) ==
    [exists |-> TRUE,
     status |-> IF j.msg.status = "cancelled" THEN "cancelled" ELSE "live",
     day |-> j.msg.day,
     located |-> unit = "found" \/ j.copy.located,
     suspended |-> j.copy.suspended]

\* persist(), then what syncCredential() decides without asking the database.
\* openMAINT found the unit, has none for the listing or is down.
Persist(p, unit) ==
    LET j == job[p]
        saved == Projected(j, unit)
    IN  /\ j.stage = "locating"
        /\ IF \/ unit = "down" /\ ~j.copy.located /\ j.msg.status # "cancelled"
              \/ ~j.copy.exists /\ stay.exists        \* unique index
           THEN Finish(p, FALSE) /\ UNCHANGED stay
           ELSE /\ stay' = saved
                /\ IF saved.status = "cancelled"
                   THEN Go(p, "listing", saved, NoCredential, {}) /\ UNCHANGED messages
                   ELSE IF saved.suspended \/ ~saved.located
                   THEN Finish(p, TRUE)
                   ELSE Go(p, "finding", saved, NoCredential, {}) /\ UNCHANGED messages
        /\ UNCHANGED <<hostaway, dropped, rows, ops>>

\* Mutant: syncCredential() looks for a pedestrian credential only.
FindByScope(p) ==
    LET copy == job[p].copy
    IN  /\ job[p].stage = "finding"
        /\ \/ /\ LiveIn("pedestrian") = {}
              /\ Go(p, "issuing", copy, NoCredential, {})
              /\ UNCHANGED messages
           \/ \E c \in LiveIn("pedestrian") :
                IF rows[c].day = copy.day
                THEN Finish(p, TRUE)
                ELSE Go(p, "moving", copy, c, {}) /\ UNCHANGED messages
        /\ UNCHANGED <<hostaway, dropped, stay, rows, ops>>

\* Mutant: a credential that exists is left as it is.
FindKeepsDates(p) ==
    /\ job[p].stage = "finding"
    /\ IF Live = {}
       THEN Go(p, "issuing", job[p].copy, NoCredential, {}) /\ UNCHANGED messages
       ELSE Finish(p, TRUE)
    /\ UNCHANGED <<hostaway, dropped, stay, rows, ops>>

\* syncCredential(): any live credential of the guest, whatever its scope.
Find(p) ==
    LET copy == job[p].copy
    IN  /\ job[p].stage = "finding"
        /\ \/ /\ Live = {}
              /\ Go(p, "issuing", copy, NoCredential, {})
              /\ UNCHANGED messages
           \/ \E c \in Live :
                IF rows[c].day = copy.day
                THEN Finish(p, TRUE)
                ELSE Go(p, "moving", copy, c, {}) /\ UNCHANGED messages
        /\ UNCHANGED <<hostaway, dropped, stay, rows, ops>>

\* CredentialService.reschedule().
Move(p) ==
    LET c == job[p].cred
    IN  /\ job[p].stage = "moving"
        /\ rows' = [rows EXCEPT ![c] =
             [status |-> rows[c].status, scope |-> rows[c].scope,
              day |-> job[p].copy.day, reason |-> rows[c].reason]]
        /\ Finish(p, TRUE)
        /\ UNCHANGED <<hostaway, dropped, stay, ops>>

\* CredentialService.issue(): idempotent by subject and scope.
Check(p) ==
    /\ job[p].stage = "issuing"
    /\ IF LiveIn("pedestrian") # {}
       THEN Finish(p, TRUE)
       ELSE Go(p, "inserting", job[p].copy, NoCredential, {}) /\ UNCHANGED messages
    /\ UNCHANGED <<hostaway, dropped, stay, rows, ops>>

\* persistWithFreshPin(): the unique index is per subject and scope.
Insert(p) ==
    LET unused == {c \in Credentials : rows[c].status = "none"}
        fresh == CHOOSE c \in unused : TRUE
    IN  /\ job[p].stage = "inserting"
        /\ IF LiveIn("pedestrian") # {}
           THEN Finish(p, FALSE) /\ UNCHANGED rows
           ELSE /\ unused # {}
                /\ rows' = [rows EXCEPT ![fresh] =
                     [status |-> "live", scope |-> "pedestrian",
                      day |-> job[p].copy.day, reason |-> "none"]]
                /\ Finish(p, TRUE)
        /\ UNCHANGED <<hostaway, dropped, stay, ops>>

-----------------------------------------------------------------------------
(* ReservationSweepService.cancelDisappeared().                            *)

\* A stay of the day that Hostaway does not list is cancelled, unless Hostaway
\* lists nothing at all.
Compare(p) ==
    LET j == job[p]
        vanished == /\ stay.exists /\ stay.day = j.day /\ stay.status # "cancelled"
                    /\ j.day \in Others
                    /\ ~j.listed
    IN  /\ j.stage = "comparing"
        /\ job' = [job EXCEPT ![p] =
             IF vanished
             THEN [stage |-> "vanishing", op |-> "vanish", msg |-> NoReservation,
                   day |-> j.day, listed |-> FALSE, copy |-> stay,
                   cred |-> NoCredential, level |-> "pedestrian", todo |-> {}]
             ELSE NextDay(j.day)]
        /\ UNCHANGED <<hostaway, messages, dropped, stay, rows, ops>>

Vanish(p) ==
    LET copy == job[p].copy
    IN  /\ job[p].stage = "vanishing"
        /\ stay' = [exists |-> TRUE, status |-> "cancelled", day |-> copy.day,
                    located |-> copy.located, suspended |-> copy.suspended]
        /\ Go(p, "listing", copy, NoCredential, {})
        /\ UNCHANGED <<hostaway, messages, dropped, rows, ops>>

-----------------------------------------------------------------------------
(* Revocation, of a cancelled stay or by the CAV.                          *)

\* revokeByGuestStay() and findLiveForGuest().
ListLive(p) ==
    /\ job[p].stage = "listing"
    /\ IF Live = {}
       THEN Finish(p, TRUE)
       ELSE Go(p, "revoking", job[p].copy, NoCredential, Live) /\ UNCHANGED messages
    /\ UNCHANGED <<hostaway, dropped, stay, rows, ops>>

\* CredentialService.revoke(): one revoked already keeps its reason.
Revoked(row, op) ==
    IF row.status = "revoked" THEN row
    ELSE [status |-> "revoked", scope |-> row.scope, day |-> row.day,
          reason |-> IF op = "access" THEN "cav" ELSE "cancelled"]

RevokeOne(p, c) ==
    LET j == job[p]
    IN  /\ j.stage = "revoking"
        /\ c \in j.todo
        /\ rows' = [rows EXCEPT ![c] = Revoked(rows[c], j.op)]
        /\ IF j.todo = {c}
           THEN Finish(p, TRUE)
           ELSE Go(p, "revoking", j.copy, NoCredential, j.todo \ {c}) /\ UNCHANGED messages
        /\ UNCHANGED <<hostaway, dropped, stay, ops>>

-----------------------------------------------------------------------------
(* AuthorizationsService.changeAccessLevel().                              *)

Access(p, stage, c, level) ==
    /\ Free(p)
    /\ Spend("access")
    /\ stay.exists
    /\ job' = [job EXCEPT ![p] =
         [stage |-> stage, op |-> "access", msg |-> NoReservation, day |-> 0,
          listed |-> FALSE, copy |-> stay, cred |-> c, level |-> level, todo |-> {}]]
    /\ UNCHANGED <<hostaway, messages, dropped, stay, rows>>

\* Level none.  A stay suspended already has no mark to write.
Suspend(p) ==
    /\ stay.suspended \/ Live # {}
    /\ Access(p, IF stay.suspended THEN "listing" ELSE "marking", NoCredential, "pedestrian")

\* Another level for a live credential.
Widen(p, c, level) ==
    /\ ~stay.suspended /\ c \in Live
    /\ Access(p, "scoping", c, level)

\* A level for a suspended stay.  lastSuspended() takes the row updated last:
\* any, because the push of a revocation updates its row whenever it ends.
Resume(p, c, level) ==
    /\ stay.suspended
    /\ rows[c].status = "revoked" /\ rows[c].reason = "cav"
    /\ Access(p, "restoring", c, level)

Suspended(copy, mark) ==
    [exists |-> copy.exists, status |-> copy.status, day |-> copy.day,
     located |-> copy.located, suspended |-> mark]

Mark(p) ==
    /\ job[p].stage = "marking"
    /\ stay' = Suspended(job[p].copy, TRUE)
    /\ Go(p, "listing", job[p].copy, NoCredential, {})
    /\ UNCHANGED <<hostaway, messages, dropped, rows, ops>>

\* CredentialService.reactivate(), its checks and then its save.
Restore(p) ==
    LET c == job[p].cred
    IN  /\ job[p].stage = "restoring"
        /\ IF rows[c].status # "revoked" \/ Live # {}
           THEN Finish(p, FALSE)
           ELSE Go(p, "reactivating", job[p].copy, c, {}) /\ UNCHANGED messages
        /\ UNCHANGED <<hostaway, dropped, stay, rows, ops>>

Reactivate(p) ==
    LET j == job[p]
    IN  /\ j.stage = "reactivating"
        /\ IF LiveIn(j.level) \ {j.cred} # {}
           THEN Finish(p, FALSE) /\ UNCHANGED rows
           ELSE /\ rows' = [rows EXCEPT ![j.cred] =
                     [status |-> "live", scope |-> j.level, day |-> j.copy.day,
                      reason |-> "none"]]
                /\ Go(p, "unmarking", j.copy, NoCredential, {})
                /\ UNCHANGED messages
        /\ UNCHANGED <<hostaway, dropped, stay, ops>>

Unmark(p) ==
    /\ job[p].stage = "unmarking"
    /\ stay' = Suspended(job[p].copy, FALSE)
    /\ Finish(p, TRUE)
    /\ UNCHANGED <<hostaway, dropped, rows, ops>>

\* CredentialService.changeScope(): refused for a credential that is no longer
\* live and for a scope that another one has.
Rescope(p) ==
    LET j == job[p]
        row == rows[j.cred]
    IN  /\ j.stage = "scoping"
        /\ rows' = [rows EXCEPT ![j.cred] =
             IF row.status = "live" /\ LiveIn(j.level) = {}
             THEN [status |-> "live", scope |-> j.level, day |-> row.day, reason |-> row.reason]
             ELSE row]
        /\ Finish(p, TRUE)
        /\ UNCHANGED <<hostaway, dropped, stay, ops>>

-----------------------------------------------------------------------------
(* The outside.                                                            *)

\* Hostaway: the reservation is booked, moved, cancelled or deleted.  Every
\* change but a deletion sends a webhook with the whole reservation.
Change(r) ==
    /\ hostaway.status # "gone"
    /\ r # hostaway
    /\ Spend("change")
    /\ hostaway' = r
    /\ messages' = IF r.status = "gone" THEN messages ELSE messages \cup {r}
    /\ dropped' = (\/ dropped
                   \/ r.status \in {"cancelled", "gone"}
                   \/ r.day # hostaway.day /\ Others # {})
    /\ UNCHANGED <<stay, rows, job>>

\* A webhook is lost, or Hostaway gives it up.
Lose(m) ==
    /\ "lose" \in Operations
    /\ messages' = messages \ {m}
    /\ UNCHANGED <<hostaway, dropped, stay, rows, job, ops>>

\* The process dies: what its requests and cron jobs were doing is forgotten.
Crash ==
    /\ Spend("crash")
    /\ \E p \in Processes : ~Free(p)
    /\ job' = [p \in Processes |-> Idle]
    /\ UNCHANGED <<hostaway, messages, dropped, stay, rows>>

\* A statement of the database fails.
Fault(p) ==
    /\ job[p].stage \notin {"idle", "fetching"}
    /\ Spend("fault")
    /\ Finish(p, FALSE)
    /\ UNCHANGED <<hostaway, dropped, stay, rows>>

-----------------------------------------------------------------------------
Units == {"found", "unmapped", "down"}

Step(p) ==
    \/ Fetch(p) \/ FetchFails(p) \/ Read(p) \/ Find(p) \/ Move(p) \/ Check(p) \/ Insert(p)
    \/ Compare(p) \/ Vanish(p) \/ ListLive(p)
    \/ Mark(p) \/ Restore(p) \/ Reactivate(p) \/ Unmark(p) \/ Rescope(p)
    \/ \E unit \in Units : Persist(p, unit)
    \/ \E c \in Credentials : RevokeOne(p, c)

\* Stages in which a process relies on the PINs it saw.
Looked == {"issuing", "inserting", "restoring", "reactivating", "unmarking"}

\* A process is overtaken when another one gives or takes a PIN in between.
Observe ==
    stale' = {p \in Processes :
                /\ job'[p].stage \in Looked
                /\ \/ p \in stale
                   \/ job'[p] = job[p] /\ Live' # Live}

Act ==
    \/ \E p \in Processes :
         \/ Step(p) \/ SweepStart(p) \/ Suspend(p) \/ Fault(p)
         \/ \E m \in messages : Deliver(p, m)
         \/ \E c \in Credentials, level \in Scopes : Widen(p, c, level) \/ Resume(p, c, level)
    \/ \E r \in Reservation : Change(r)
    \/ \E m \in messages : Lose(m)
    \/ Crash

Next == Act /\ Observe

Spec == Init /\ [][Next]_vars
-----------------------------------------------------------------------------
(* Fairness and properties.                                                *)

\* The cron comes back every day, whatever else is served; a call that started
\* goes on, because every call outside has a timeout; and the services outside
\* do not fail for ever.
Fairness ==
    /\ SF_vars((\E p \in Processes : SweepStart(p)) /\ Observe)
    /\ SF_vars((\E p \in Processes : Fetch(p)) /\ Observe)
    /\ SF_vars((\E p \in Processes : Persist(p, "found")) /\ Observe)
    /\ \A p \in Processes : WF_vars(Step(p) /\ Observe)

FairSpec == Spec /\ Fairness

TypeOK ==
    /\ hostaway \in Reservation
    /\ messages \subseteq Reservation
    /\ dropped \in BOOLEAN
    /\ stay \in Stay
    /\ rows \in [Credentials -> Row]
    /\ job \in [Processes -> Job]
    /\ ops \in 0..MaxOps
    /\ stale \subseteq Processes

Acts(p) == job'[p] # job[p]

BecomesLive(c) == rows[c].status # "live" /\ rows'[c].status = "live"

\* A guest who has a PIN gets no second one, although the unique index alone
\* would allow one per scope (syncCredential() and reactivate() look for any live
\* one): only a process that another one has overtaken since it looked may.
NoSecondPin ==
    [][(\E c \in Credentials : BecomesLive(c)) =>
         Live = {} \/ \E p \in stale : Acts(p)]_vars

\* Whatever overlaps, two PINs of a guest have different scopes: the index takes
\* over where issue() and changeScope() looked too early (the migration: "Impide
\* la doble emisión cuando el webhook y el barrido diario coinciden").
OnePinPerScope == \A c, d \in Live : rows[c].scope = rows[d].scope => c = d

\* The process saves or projects the stay as it was before the suspension.
Unaware(p) ==
    /\ job[p].stage \in {"locating", "finding", "issuing", "inserting", "vanishing"}
    /\ ~job[p].copy.suspended

\* While the CAV has a stay suspended nobody issues a PIN for it, only its own
\* credential comes back, and the mark is taken off only after that
\* (changeAccessLevel(): "un webhook en medio no debe reemitir").  Only a request
\* that read the stay before the suspension, or that another one has overtaken
\* since it looked for PINs, may break it.
SuspensionHolds ==
    [][stay.suspended =>
         \/ /\ \A c \in Credentials : BecomesLive(c) => rows[c].reason = "cav"
            /\ ~stay'.suspended => Live # {}
         \/ \E p \in Processes : Acts(p) /\ (p \in stale \/ Unaware(p))]_vars

\* A PIN is revoked for a cancellation only if Hostaway cancelled or deleted the
\* reservation, or moved it while others arrive, which cancelDisappeared() cannot
\* tell from a deletion; and never because Hostaway did not answer (reconcileDate():
\* "no puede traducirse en revocaciones masivas") or answered with an empty list.
OnlyCancelledRevoked ==
    \A c \in Credentials : rows[c].reason = "cancelled" => dropped

\* However many webhooks are lost, repeated or reordered and whatever dies on
\* the way, a cancelled reservation of the next days ends without a PIN.
CancellationReachesGuest ==
    <>[](hostaway.status = "cancelled" /\ hostaway.day # 0) => <>[](Live = {})

\* In the same way a booked reservation of the next days, not suspended, ends
\* with a PIN for its dates.
BookingGetsPin ==
    <>[](hostaway.status = "issuing" /\ hostaway.day # 0 /\ ~stay.suspended)
      => <>[](\E c \in Live : rows[c].day = hostaway.day)
=============================================================================
