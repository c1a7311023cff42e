--------------------------- MODULE CredentialSync ---------------------------
(***************************************************************************)
(* The PINs of one building in the two places that keep them: the table    *)
(* access_credential, which says what is wanted, and the terminals behind  *)
(* the VPS, which open the doors (access-control/credential.service.ts,    *)
(* sync-retry.service.ts, access-maintenance.service.ts).                  *)
(*                                                                         *)
(* Every operation loads a row into memory, changes it there, saves it     *)
(* whole, calls the VPS and saves the same object again with the result.   *)
(* Each of these is an await, so a worker (a request or a cron job) may    *)
(* save a row that another one has changed since it was loaded.  The       *)
(* credentials belong to different subjects.                               *)
(***************************************************************************)
EXTENDS Integers, FiniteSets

CONSTANTS
    Credentials,    \* ids of the table, each issued at most once
    Workers,        \* requests and cron jobs that run at the same time
    Pins,           \* the PINs the generator draws from
    Manual,         \* PINs of users that were loaded by hand in a terminal
    Doors,          \* terminals of the building; a scope is a set of them
    Windows,        \* the ends of validity that are asked for
    NoCredential, NoPin,
    Operations,     \* the requests this instance makes
    Conflicts,      \* MAX_PIN_CONFLICT_RETRIES
    MaxAttempts,    \* ACCESS_SYNC_MAX_ATTEMPTS
    Batch,          \* BATCH_SIZE of the sweep
    MaxOps,         \* bound of the model on requests, crashes and tampering
    MaxDay          \* bound of the model on the clock

ASSUME NoneAssumption == NoCredential \notin Credentials /\ NoPin \notin Pins
ASSUME SizesAssumption ==
    /\ Manual \subseteq Pins /\ Windows \subseteq Nat
    /\ Conflicts \in Nat \ {0} /\ MaxAttempts \in Nat \ {0} /\ Batch \in Nat \ {0}
    /\ MaxOps \in Nat /\ MaxDay \in Nat

VARIABLES
    rows,           \* table access_credential
    older,          \* updatedAt: the rows last saved before each row
    door,           \* external: the users the terminals hold
    job,            \* what each worker is doing, with its object in memory
    today,          \* the clock, in units of a validity window
    ops,            \* requests, crashes and tampering so far
    stale,          \* history: workers overtaken by a save of their row
    astray          \* history: credentials left in disorder

history == <<stale, astray>>
vars == <<rows, older, door, job, today, ops, history>>

Row == [status: {"none", "pending", "active", "revoked", "expired"},
        pin: Pins \cup {NoPin}, until: Nat, scope: SUBSET Doors,
        sync: {"pending", "synced", "failed"}, attempts: 0..MaxAttempts]
NoRow == [status |-> "none", pin |-> NoPin, until |-> 0, scope |-> {},
          sync |-> "pending", attempts |-> 0]

Entry == [pin: Pins \cup {NoPin}, until: Nat]
Absent == [pin |-> NoPin, until |-> 0]
Shut == [d \in Doors |-> Absent]

\* "saving" before a save of the object, "calling" for the VPS, "found" before
\* reschedule() loads the row, "comparing" with an inventory in hand.  next says
\* what follows the save: the call, the second save of a renewed PIN (and then,
\* after "second", the call), the result of a PIN that never fitted, or nothing.
Job == [stage: {"idle", "found", "comparing", "saving", "calling"},
        cred: Credentials \cup {NoCredential}, copy: Row,
        next: {"push", "mark", "second", "fail", "end"}, tries: 0..Conflicts,
        seen: [Doors -> Entry]]
Idle == [stage |-> "idle", cred |-> NoCredential, copy |-> NoRow,
         next |-> "end", tries |-> 0, seen |-> Shut]

Exists(c) == rows[c].status # "none"
Live(row) == row.status \in {"pending", "active"}

Answers == {"written", "partial", "failed", "lost"}

\* What the terminals should hold for a row.
Wanted(row) ==
    [d \in Doors |-> IF Live(row) /\ d \in row.scope
                     THEN [pin |-> row.pin, until |-> row.until] ELSE Absent]

Init ==
    /\ rows = [c \in Credentials |-> NoRow]
    /\ door = [c \in Credentials |-> Shut]
    /\ job = [k \in Workers |-> Idle]
    /\ older = [c \in Credentials |-> {}]
    /\ today = 0 /\ ops = 0
    /\ stale = {} /\ astray = {}

----------------------------------------------------------------------------
(* Helpers of the service.                                                  *)

\* The row an operation marks for synchronisation.
Pend(status, pin, until, scope) ==
    [status |-> status, pin |-> pin, until |-> until, scope |-> scope,
     sync |-> "pending", attempts |-> 0]

\* generate(): not the PIN of a living row, nor of one that still cools down.
\* The runs are shorter than the 30 days of the cooldown.
FreshPins == {p \in Pins : \A c \in Credentials : rows[c].pin # p}

\* The unique index on the PIN of the living rows of a building.
Clash(c, row) ==
    Live(row) /\ \E e \in Credentials \ {c} : Live(rows[e]) /\ rows[e].pin = row.pin

\* Mutant: whatever is written becomes active.
AppliedAlwaysActive(row, answer) ==
    [status |-> IF answer = "written" THEN "active" ELSE row.status,
     pin |-> row.pin, until |-> row.until, scope |-> row.scope,
     sync |-> IF answer = "written" THEN "synced" ELSE "pending",
     attempts |-> row.attempts]

\* One more attempt; past the limit the count makes no difference.
Bump(row) == IF row.attempts < MaxAttempts THEN row.attempts + 1 ELSE MaxAttempts

\* applyResult(): what the answer of the VPS makes of the object in memory.
\* "lost" is the catch of sync(): a timeout or a network error.
Applied(row, answer) ==
    [status |-> IF answer = "written" /\ row.status = "pending"
                THEN "active" ELSE row.status,
     pin |-> row.pin, until |-> row.until, scope |-> row.scope,
     sync |-> IF answer = "written" THEN "synced"
              ELSE IF answer = "failed" THEN "failed" ELSE "pending",
     attempts |-> Bump(row)]

Start(k, c, stage, copy, next) ==
    job' = [job EXCEPT ![k] =
              [stage |-> stage, cred |-> c, copy |-> copy, next |-> next,
               tries |-> 0, seen |-> Shut]]

Continue(k, stage, copy, next, tries) ==
    job' = [job EXCEPT ![k] =
              [stage |-> stage, cred |-> job[k].cred, copy |-> copy,
               next |-> next, tries |-> tries, seen |-> Shut]]

Stop(k) == job' = [job EXCEPT ![k] = Idle]

\* Worker k takes a request, one of the bounded number there are.
Takes(k, op) ==
    /\ op \in Operations /\ ops < MaxOps /\ ops' = ops + 1
    /\ job[k].stage = "idle"

----------------------------------------------------------------------------
(* Requests: credential.service.ts.                                         *)

Issue(k, c, p, until, scope) ==
    /\ Takes(k, "issue")
    /\ ~Exists(c) /\ \A j \in Workers : job[j].cred # c
    /\ p \in FreshPins
    /\ Start(k, c, "saving", Pend("pending", p, until, scope), "push")
    /\ UNCHANGED <<rows, older, door, today, history>>

Revoke(k, c) ==
    /\ Takes(k, "revoke")
    /\ Exists(c) /\ rows[c].status # "revoked"
    /\ LET row == rows[c]
       IN  Start(k, c, "saving", Pend("revoked", row.pin, row.until, row.scope), "push")
    /\ UNCHANGED <<rows, older, door, today, history>>

\* syncCredential() of the stay saw the credential alive with another validity;
\* reschedule() then loads it again, whatever it has become.
Find(k, c, until) ==
    /\ Takes(k, "reschedule")
    /\ Live(rows[c]) /\ rows[c].until # until
    /\ Start(k, c, "found", [NoRow EXCEPT !.until = until], "end")
    /\ UNCHANGED <<rows, older, door, today, history>>

Reschedule(k) ==
    LET row == rows[job[k].cred]
    IN  /\ job[k].stage = "found"
        /\ Continue(k, "saving",
             Pend(row.status, row.pin, job[k].copy.until, row.scope), "push", 0)
        /\ UNCHANGED <<rows, older, door, today, ops, history>>

ChangeScope(k, c, scope) ==
    /\ Takes(k, "changeScope")
    /\ Live(rows[c]) /\ rows[c].scope # scope
    /\ LET row == rows[c]
       IN  Start(k, c, "saving", Pend(row.status, row.pin, row.until, scope), "push")
    /\ UNCHANGED <<rows, older, door, today, history>>

\* Mutant: the access comes back with a new PIN.
ReactivateAfresh(k, c, until, scope) ==
    /\ Takes(k, "reactivate")
    /\ rows[c].status = "revoked"
    /\ until > today
    /\ \E p \in FreshPins : Start(k, c, "saving", Pend("pending", p, until, scope), "push")
    /\ UNCHANGED <<rows, older, door, today, history>>

Reactivate(k, c, until, scope) ==
    /\ Takes(k, "reactivate")
    /\ rows[c].status = "revoked"
    /\ until > today
    /\ ~Clash(c, Pend("pending", rows[c].pin, until, scope))
    /\ Start(k, c, "saving", Pend("pending", rows[c].pin, until, scope), "push")
    /\ UNCHANGED <<rows, older, door, today, history>>

\* regeneratePin(): rotatePin() saves the new PIN, and a second save marks it.
RegeneratePin(k, c, p) ==
    /\ Takes(k, "regenerate")
    /\ Live(rows[c])
    /\ p \in FreshPins
    /\ LET row == rows[c]
       IN  Start(k, c, "saving",
                 [status |-> row.status, pin |-> p, until |-> row.until,
                  scope |-> row.scope, sync |-> row.sync,
                  attempts |-> row.attempts], "mark")
    /\ UNCHANGED <<rows, older, door, today, history>>

----------------------------------------------------------------------------
(* Cron jobs: sync-retry.service.ts and access-maintenance.service.ts.      *)

\* sweep() takes the rows not synchronised that were saved longest ago.
InBatch(c) ==
    /\ Exists(c) /\ rows[c].sync # "synced"
    /\ Cardinality({e \in older[c] : rows[e].sync # "synced"}) < Batch

\* The batch holds copies of the rows as they were when it was read.
Retry(k, c) ==
    /\ job[k].stage = "idle"
    /\ InBatch(c) /\ rows[c].attempts < MaxAttempts
    /\ Start(k, c, "calling", rows[c], "end")
    /\ UNCHANGED <<rows, older, door, today, ops, history>>

\* Mutant: a row gives up only when it has passed the limit.
GiveUpPastLimit(k, c) ==
    /\ job[k].stage = "idle"
    /\ InBatch(c) /\ rows[c].sync = "pending" /\ rows[c].attempts > MaxAttempts
    /\ Start(k, c, "saving", rows[c], "end")
    /\ UNCHANGED <<rows, older, door, today, ops, history>>

\* A row that has failed already is not written, and keeps its place.
GiveUp(k, c) ==
    /\ job[k].stage = "idle"
    /\ InBatch(c) /\ rows[c].sync = "pending" /\ rows[c].attempts = MaxAttempts
    /\ LET row == rows[c]
       IN  Start(k, c, "saving",
                 [status |-> row.status, pin |-> row.pin, until |-> row.until,
                  scope |-> row.scope, sync |-> "failed",
                  attempts |-> row.attempts], "end")
    /\ UNCHANGED <<rows, older, door, today, ops, history>>

\* Mutant: an expired row is not marked for its deletion.
ExpireUnmarked(k, c) ==
    /\ job[k].stage = "idle"
    /\ Live(rows[c]) /\ rows[c].until < today
    /\ Start(k, c, "saving", [rows[c] EXCEPT !.status = "expired"], "end")
    /\ UNCHANGED <<rows, older, door, today, ops, history>>

Expire(k, c) ==
    /\ job[k].stage = "idle"
    /\ Live(rows[c]) /\ rows[c].until < today
    /\ LET row == rows[c]
       IN  Start(k, c, "saving", Pend("expired", row.pin, row.until, row.scope), "end")
    /\ UNCHANGED <<rows, older, door, today, ops, history>>

Purge(k, c) ==
    /\ job[k].stage = "idle"
    /\ rows[c].status \in {"expired", "revoked"} /\ rows[c].sync = "pending"
    /\ Start(k, c, "calling", rows[c], "end")
    /\ UNCHANGED <<rows, older, door, today, ops, history>>

\* reconcileDevice(): the inventory is read before the rows.
Inventory(k, c) ==
    /\ job[k].stage = "idle"
    /\ Exists(c)
    /\ job' = [job EXCEPT ![k] =
         [stage |-> "comparing", cred |-> c, copy |-> NoRow, next |-> "end",
          tries |-> 0, seen |-> door[c]]]
    /\ UNCHANGED <<rows, older, door, today, ops, history>>

\* Mutant: only presence is compared.
DiffersAbsent(row, seen) == \E d \in row.scope : seen[d] = Absent

\* Presence and validity are compared; the inventory does not show the PIN.
Differs(row, seen) ==
    \E d \in row.scope : seen[d] = Absent \/ seen[d].until # row.until

Reconcile(k) ==
    LET row == rows[job[k].cred]
    IN  /\ job[k].stage = "comparing"
        /\ IF Live(row) /\ row.sync = "synced" /\ Differs(row, job[k].seen)
           THEN Continue(k, "saving", Pend(row.status, row.pin, row.until, row.scope), "end", 0)
           ELSE Stop(k)
        /\ UNCHANGED <<rows, older, door, today, ops, history>>

----------------------------------------------------------------------------
(* The steps every operation shares.                                        *)

\* A save moves the row behind all others.
Moved(c) ==
    [e \in Credentials |->
        IF e = c THEN {x \in Credentials \ {c} : Exists(x)} ELSE older[e] \ {c}]

\* The other workers that have loaded the row of worker k.
Overtaken(k) ==
    {l \in Workers \ {k} : /\ job[l].cred = job[k].cred
                          /\ job[l].stage \in {"saving", "calling"}}

\* save() writes the whole object, whatever the row holds by now.
Save(k) ==
    LET j == job[k]
    IN  /\ j.stage = "saving"
        /\ ~Clash(j.cred, j.copy)
        /\ rows' = [rows EXCEPT ![j.cred] = j.copy]
        /\ older' = Moved(j.cred)
        /\ \/ /\ j.next \in {"push", "second"}
              /\ Continue(k, "calling", j.copy, "end", j.tries)
           \/ /\ j.next = "mark"
              /\ Continue(k, "saving", Pend(j.copy.status, j.copy.pin, j.copy.until,
                                            j.copy.scope), "second", 0)
           \/ /\ j.next = "fail"
              /\ Continue(k, "saving", Applied(j.copy, "failed"), "end", j.tries)
           \/ /\ j.next = "end"
              /\ Stop(k)
        /\ stale' = (stale \ {k}) \cup Overtaken(k)
        /\ astray' = IF k \in stale THEN astray \cup {j.cred} ELSE astray
        /\ UNCHANGED <<door, today, ops>>

\* The index refuses the save.  Inside write() that counts as a failed attempt;
\* elsewhere the operation ends with an error.
Reject(k) ==
    LET j == job[k]
    IN  /\ j.stage = "saving"
        /\ Clash(j.cred, j.copy)
        /\ \/ /\ j.tries > 0 /\ j.next # "end"
              /\ Continue(k, "saving", Applied(j.copy, "lost"), "end", j.tries)
              /\ UNCHANGED stale
           \/ /\ j.tries = 0 \/ j.next = "end"
              /\ Stop(k)
              /\ stale' = stale \ {k}
        /\ UNCHANGED <<rows, older, door, today, ops, astray>>

\* External: the VPS puts or deletes the credential on the terminals it reaches
\* and answers, or its answer is lost.  It writes nothing for a PIN that a
\* terminal already has, and it never acts on a call its client gave up.
Call(k, reached, answer) ==
    LET j == job[k]
    IN  /\ j.stage = "calling"
        /\ Live(j.copy) /\ j.copy.pin \in Manual => reached = {}
        /\ answer = "written" => reached = Doors
        /\ door' = [door EXCEPT ![j.cred] =
             [d \in Doors |-> IF d \in reached THEN Wanted(j.copy)[d] ELSE door[j.cred][d]]]
        /\ Continue(k, "saving", Applied(j.copy, answer), "end", j.tries)
        /\ astray' = IF k \in stale THEN astray \cup {j.cred}
                     ELSE IF answer = "written" THEN astray \ {j.cred} ELSE astray
        /\ UNCHANGED <<rows, older, today, ops, stale>>

\* Mutant: the PIN drawn after a conflict is sent before it is saved.
ConflictUnsaved(k, p) ==
    LET j == job[k]
    IN  /\ j.stage = "calling"
        /\ Live(j.copy) /\ j.copy.pin \in Manual
        /\ p \in FreshPins
        /\ Continue(k, "calling", [j.copy EXCEPT !.pin = p], "end", j.tries)
        /\ UNCHANGED <<rows, older, door, today, ops, history>>

\* write(): on pin_conflict the PIN is drawn again, saved and tried again.
Conflict(k, p) ==
    LET j == job[k]
    IN  /\ j.stage = "calling"
        /\ Live(j.copy) /\ j.copy.pin \in Manual
        /\ p \in FreshPins
        /\ Continue(k, "saving",
             [status |-> j.copy.status, pin |-> p, until |-> j.copy.until,
              scope |-> j.copy.scope, sync |-> j.copy.sync,
              attempts |-> j.copy.attempts],
             IF j.tries + 1 < Conflicts THEN "push" ELSE "fail", j.tries + 1)
        /\ UNCHANGED <<rows, older, door, today, ops, history>>

\* rotatePin() finds no PIN: the exception is a failed attempt.
OutOfPins(k) ==
    /\ job[k].stage = "calling"
    /\ Live(job[k].copy) /\ job[k].copy.pin \in Manual
    /\ FreshPins = {}
    /\ Continue(k, "saving", Applied(job[k].copy, "lost"), "end", job[k].tries)
    /\ UNCHANGED <<rows, older, door, today, ops, history>>

Elapse ==
    /\ today < MaxDay
    /\ today' = today + 1
    /\ UNCHANGED <<rows, older, door, job, ops, history>>

\* The process dies and restarts; a call under way may have reached terminals,
\* which Call with a lost answer followed by this step stands for.
Crash ==
    /\ "crash" \in Operations /\ ops < MaxOps /\ ops' = ops + 1
    /\ \E k \in Workers : job[k].stage # "idle"
    /\ job' = [k \in Workers |-> Idle]
    /\ stale' = {}
    /\ astray' = astray \cup
         {job[k].cred : k \in {l \in Workers : job[l].stage = "saving" /\ job[l].next = "second"}}
    /\ UNCHANGED <<rows, older, door, today>>

\* External: somebody removes a user of the system from a terminal, or changes
\* its validity there.
Tamper(c, d, entry) ==
    /\ "tamper" \in Operations /\ ops < MaxOps /\ ops' = ops + 1
    /\ door[c][d] # Absent /\ door[c][d] # entry
    /\ entry = Absent \/ entry.pin = door[c][d].pin
    /\ door' = [door EXCEPT ![c] = [e \in Doors |-> IF e = d THEN entry ELSE door[c][e]]]
    /\ astray' = astray \cup {c}
    /\ UNCHANGED <<rows, older, job, today, stale>>

Request(k, c) ==
    \/ \E until \in Windows, scope \in SUBSET Doors \ {{}} :
         \/ \E p \in Pins : Issue(k, c, p, until, scope)
         \/ Reactivate(k, c, until, scope)
    \/ Revoke(k, c)
    \/ \E until \in Windows : Find(k, c, until)
    \/ \E scope \in SUBSET Doors \ {{}} : ChangeScope(k, c, scope)
    \/ \E p \in Pins : RegeneratePin(k, c, p)

Cron(k, c) ==
    Retry(k, c) \/ GiveUp(k, c) \/ Expire(k, c) \/ Purge(k, c) \/ Inventory(k, c)

Step(k) ==
    \/ Reschedule(k) \/ Reconcile(k) \/ Save(k) \/ Reject(k) \/ OutOfPins(k)
    \/ \E reached \in SUBSET Doors, answer \in Answers : Call(k, reached, answer)
    \/ \E p \in Pins : Conflict(k, p)

Next ==
    \/ \E k \in Workers, c \in Credentials : Request(k, c) \/ Cron(k, c)
    \/ \E k \in Workers : Step(k)
    \/ Elapse \/ Crash
    \/ \E c \in Credentials, d \in Doors :
         \/ Tamper(c, d, Absent)
         \/ \E until \in Windows \cup {0} :
              Tamper(c, d, [pin |-> door[c][d].pin, until |-> until])

Spec == Init /\ [][Next]_vars

\* A started operation goes on, since every call of the VPS ends at its timeout,
\* and each run of sweep(), in its own timer every ten minutes, takes the rows
\* of its batch.
Progress ==
    /\ \A k \in Workers : WF_vars(Step(k))
    /\ \A c \in Credentials :
         SF_vars(\E k \in Workers : Retry(k, c) \/ GiveUp(k, c))

\* Of the calls of a worker some reach every terminal, if there are enough; and
\* the reconciliation of every night looks at each credential.
Repair ==
    /\ \A k \in Workers : SF_vars(Call(k, Doors, "written"))
    /\ \A c \in Credentials : SF_vars(\E k \in Workers : Inventory(k, c))

FairSpec == Spec /\ Progress /\ Repair

----------------------------------------------------------------------------
(* Properties.                                                              *)

\* Every variable keeps its type.
TypeOK ==
    /\ rows \in [Credentials -> Row]
    /\ older \in [Credentials -> SUBSET Credentials]
    /\ door \in [Credentials -> [Doors -> Entry]]
    /\ job \in [Workers -> Job]
    /\ today \in Nat /\ ops \in Nat
    /\ stale \subseteq Workers /\ astray \subseteq Credentials

AtRest(c) == \A k \in Workers : job[k].cred # c

\* A row that says synced, and that no operation is working on, tells what the
\* terminals hold: every PIN that opens is in force and every one in force
\* opens, on exactly the doors of its scope and with its validity.  Operations
\* may overlap; the row is only in disorder from the moment an overtaken worker
\* saves it or calls for it, a terminal is tampered with or a renewal is cut
\* between its two saves, until the terminals have all taken the row again.
SyncedTellsTheDoor ==
    \A c \in Credentials :
        rows[c].sync = "synced" /\ AtRest(c) /\ c \notin astray => door[c] = Wanted(rows[c])

\* Worker k saves the row of c over one that changed since k loaded it.
SavesOver(k, c) ==
    k \in stale /\ job[k].cred = c /\ rows'[c] = job[k].copy

RevokedOrRestored(c) ==
    rows[c].status = "revoked" =>
        rows'[c].status = "revoked" \/ rows'[c] = Pend("pending", rows'[c].pin,
                                          rows'[c].until, rows'[c].scope)

\* A revocation, once saved, stands until the access is restored: only
\* reactivate() makes a revoked row pending again (revoke, changeAccessLevel).
RevocationHolds == [][\A c \in Credentials : RevokedOrRestored(c)]_vars

\* Whatever overlaps, a revocation is only undone by reactivate() or by a worker
\* that loaded the row before the revocation and saves its whole object after
\* it: the save of applyResult(), of the catch of sync() or of a first save.
RevocationUndoneByOvertaken ==
    [][\A c \in Credentials :
        RevokedOrRestored(c) \/ \E k \in Workers : SavesOver(k, c)]_vars

\* The step saves a PIN drawn anew: a renewal or the way out of a conflict.
Rotates(k, c) ==
    /\ job[k].stage = "saving" /\ job[k].cred = c
    /\ job[k].next = "mark" \/ job[k].tries > 0

\* A change of dates or of scope, a retry or a cron job never changes the PIN
\* the guest has, but for a worker that saves an object loaded before a renewal
\* (reschedule, changeScope, regeneratePin).
PinChangesByRotation ==
    [][\A c \in Credentials :
        Exists(c) /\ rows'[c].pin # rows[c].pin =>
            \E k \in Workers : Rotates(k, c) \/ SavesOver(k, c)]_vars

\* The row has used up its attempts: the sweep passes over it for ever.
Exhausted(c) == rows[c].sync = "failed" /\ rows[c].attempts = MaxAttempts

\* A batch of exhausted rows stands before c, so the sweep does not see it.
Starved(c) == Cardinality({e \in older[c] : Exhausted(e)}) >= Batch

\* No row waits for its synchronisation for ever: the sweep ends in the door or
\* in failed, which asks for a human (sweep, giveUp), unless as many rows as a
\* batch holds have failed for good before it.
PendingSettles ==
    \A c \in Credentials :
        rows[c].sync = "pending" /\ Exists(c) ~> rows[c].sync # "pending" \/ Starved(c)

\* A PIN in force that a terminal lost, or holds with another validity, comes
\* back unless the synchronisation fails, the PIN ends (reconcile) or the sweep
\* cannot see it for the rows that failed before it.
Opens(c) ==
    \/ ~Live(rows[c]) \/ rows[c].sync = "failed"
    \/ door[c] = Wanted(rows[c])
TamperedDoorsHeal == \A c \in Credentials : []<>(Opens(c) \/ Starved(c))

\* The terminals obey orders, each taken from the table as it was: what worker k
\* is calling the VPS for.
Order(k) ==
    IF job[k].stage = "calling"
    THEN {[cred |-> job[k].cred, want |-> Wanted(job[k].copy)]} ELSE {}

Mirror == INSTANCE DoorMirror WITH
    wanted <- [c \in Credentials |-> Wanted(rows[c])],
    orders <- [k \in Workers |-> Order(k)],
    Tampering <- "tamper" \in Operations
MirrorSpec == Mirror!Spec

=============================================================================
