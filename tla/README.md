# A TLA+ verification development of dt4fm-system

dt4fm-system runs furnished apartment buildings: doors with PINs and remote
opening, guests that come from Hostaway, cleaning, maintenance and billing over
openMAINT. The backend is one NestJS process over Postgres; the doors hang from
an external server (the *VPS*) that drives the terminals and the barriers. This
directory holds TLA+ models of the parts of the backend whose correctness
depends on order, concurrency and failure, their TLC runs, and proofs.

Paths below are relative to `src/backend/src/modules/` unless they say
otherwise.

## 1. Inventory

Node runs one handler at a time between two `await`s, so every statement between
awaits is atomic and every await is a place where another request, a cron job, or
the death of the process comes in. Postgres gives single-row atomicity, unique
indexes, and in one place (`remote-open`) a transaction with a row lock. There is
one instance of the backend. That is the concurrency all the models use.

| Component | State | Operations | Talks to | What is hard | What makes it correct |
|---|---|---|---|---|---|
| Remote opening (`access-control/remote-open*`) | `remote_open_request`, `vehicular_gate_phase` | order by guest or staff, replay, uncertain resolution | VPS trigger, portal, CAV panel | a barrier with ONE relay and no position sensor: opening twice is closing; lost answers; crashes between pulse, outcome and phase | one pulse per tap, pulses apart, truthful answers, a barrier that is up refuses to open, an unconfirmed order holds the barrier |
| Credentials (`credential`, `sync-retry`, `access-maintenance`, `pin-generator`) | `access_credential` (wanted state and sync state), the terminals | issue, revoke, reschedule, change of scope, reactivate, regenerate PIN, sweep of retries, expire, purge, reconcile | VPS PUT/DELETE/inventory; guest stays; CAV | two stores of truth; entities in memory saved whole after a network call; partial writes | a row that says synced tells what the door holds; a revocation reaches the door; every pending row is settled |
| Guest stays (`guest-stay`, `reservation-sweep`, `authorizations`) | `guest_stay` | webhook, daily sweep, disappearance, suspension and restoration by the CAV | Hostaway, openMAINT, credentials | webhook, sweep and CAV on one stay; rows read before openMAINT answers | one PIN per guest, a suspension holds, a cancelled reservation ends without a PIN and a booked one with one, no PIN is cancelled without its reservation |
| PIN notices, guest links (`guest-pin-notice`, `../guest-link`) | `guest_pin_notice`, `guest_link_delivery` | notify, forced resend, sweep, renewal | Hostaway messages, mail | check, send, record: no transaction spans the three; a PIN renewed while it is being told | the PIN in force is told in the end, once, and only what was told is recorded |
| App sessions (`app-sessions`, `auth`) | memory cache, `app_session`, openMAINT sessions | load, register, touch, close, close all, keep alive, purge | openMAINT | cache against table against openMAINT, snapshots worked through with awaits, restarts, a rotated key | no failure loses an open session; a password change reaches every registered session; what was forgotten stays forgotten |
| Password recovery | none (signed token) | request, reset | openMAINT, mail, app sessions | single use without a table | a token works once |
| Cleaning tasks | a card of openMAINT; the stopwatch of each device | generate, start, pause, complete, review, reopen, cancel, edit | Hostaway, openMAINT, push | phase read, validated and written without a version; pauses and sessions kept in notes; minutes added up by a device | minutes are those worked, the stopwatch those of the session, a pause is told from a reopening, one task per checkout |
| Billing, payments | cards of openMAINT, documents of Contifico | daily billing, monthly generation, reminders, overdue notices, all of them by hand too | Hostaway, Contifico, openMAINT, mail | invoice and card are two services; lists read once; work done on one day only | one invoice per reservation, one payment per unit and period; who paid is billed, who owes is charged and reminded |
| Push notifications | subscriptions, claimed events | subscribe, dispatch, claim | browsers | same sweep twice | an event is dispatched at most once |
| IoT alarms, meeting reminders, video surveillance | almost none | create, remind, live session | openMAINT, VPS | retries of creations | an alarm is not lost; an audited session |
| Preventive maintenance (`preventive-maintenance`, `maintenance-supervision`) | a process and a checklist of openMAINT; the answers of each page | open, start, answer, suspend, save, close; assign, resume, reassign | openMAINT, push | two cards without a transaction; an array rewritten whole; a 200 that moves nothing; two starts at once | no saved answer is lost, nothing closes without its answers, the sealed start stays |
| Incidents, corrective maintenance, owners, buildings, notifications | none: forms over openMAINT | queries and process steps | openMAINT | the workflow engine is openMAINT | outside this code |
| Frontend | browser state | forms; the stopwatch of a cleaning | backend | presentation, but for the stopwatch, whose minutes are written as they come | what it may send is an input of the models; the stopwatch is in `CleaningTask` |

`PROJECT.json` lists every component with its status, and every hazard with its
line and the properties that cover it, or the reason why none does.

## 2. Modules

| Module | What it is | Status |
|---|---|---|
| `RemoteGate` | the opening of one door, design level | checked, proved |
| `CredentialSync` | the credential table against the terminals | checked, proved |
| `DoorMirror` | abstract mirror that `CredentialSync` implements | checked, proved |
| `GuestAccess` | stay, webhook, sweep and CAV over the credentials of one guest | checked, proved |
| `PinNotice` | the notices of their PIN to the guests | checked, proved |
| `AppSessions` | the sessions of the app in memory, table and openMAINT | checked, proved |
| `CleaningTask` | a cleaning task and the stopwatches of its cleaner | checked, proved |
| `Charges` | invoices of guests and monthly payments of owners | checked, proved |
| `Preventive` | a preventive maintenance, its checklist and its pages | checked, proved |
| `...Proofs` | the theorems about the module of that name | proved |
| `MC...` | symmetry and structured constants of its instances | |

"Proved" is of the theorems that the section of each module lists; the rest of
its properties, liveness first, is model-checked (section 11).

`RemoteGate` stands alone: whether a guest may open (status and dates of the
stay, a credential that reaches the barrier) is decided once, before the order.
`GuestAccess` and `CredentialSync` split one table: `GuestAccess` decides which
credentials of a guest are live, `CredentialSync` brings a live or revoked
credential to the terminals. What crosses between them is the row itself, its
status, scope and dates. The push that ends each operation of `GuestAccess` is a
`Call` of `CredentialSync`.

`PinNotice` takes from the same table what a notice asks of it: whether a
credential is live, whether it is at the door (`Sync` stands for
`CredentialSync`), and the PIN in force. `AppSessions`, `CleaningTask`, `Charges`
and `Preventive` share no state with the others nor among themselves.

The type invariant of each module is the theorem `TypeCorrect`, for every value of
the constants, and the runs are left to what is not proved, or is best seen by
example.

## 3. Remote opening: `RemoteGate`

**State.** `rows` is `remote_open_request` by request id, `phase` the row of
`vehicular_gate_phase` of the barrier, `handler` what each running request of the
backend holds between two awaits. `working` and `relay` are the other side: the
triggers the VPS still works on, and the pulses the door received. `tap`, `told`
and `lost` are history: who minted a request id, what its client was told, and the
requests whose command was cut off between its reservation and its phase.

**Actions.** `Arrive` is `forGuest`/`forStaff` up to the reservation (replay
lookup, daily limit); `Replay` is `replay()`; `Reserve` and `Refuse` are the
transaction of `reserve()` under the lock of the door; `Answer`, `Record` and
`Finish` are the three awaits after it (the trigger and its classification, the
outcome on the row, `advancePhase`); `ResolveUncertain` is the supervisor's
release; `Crash` kills every handler, and `Fault` is one of the two statements
after the trigger that fails, which nobody catches. `RelayPulse` is external: the VPS pulses
once per request, within the time a command may last, also when nobody listens
any more.

**Time.** The clock is an integer. The constants keep the order of the real ones,
10 s of cooldown < 30 s of staleness < 40 s of close window < 90 s until the
barrier closes by itself, with a command (8 s of HTTP timeout) shorter than the
cooldown: `Cooldown 2, Stale 3, CloseWindow 4, AutoClose 5, Budget 1`. `Tick`
waits for a living command to end within `Budget`; a command that died does not
hold the clock. `BudgetAssumption` names what the proofs take from the real numbers:
a living command ends before its order counts as dead, and on a barrier before the
next pulse may be reserved. `MaxTime` (6) lets an opening go through its whole cycle,
a command and the 5 units until the barrier has closed by itself, with another order
after it; and an order that died become stale, be released, and another one follow.

**Runs.**

| Run | Instance | Shows |
|---|---|---|
| `gate` | 2 taps, 2 guests, a supervisor, crashes | one pulse per tap, pulses apart; a client is told what the door did, and nothing else later; no "Open" on a barrier that is up; a "Close" only right after a confirmed "Open", in its window, by who opened or a supervisor; an unconfirmed order holds the barrier |

A command that is cut off leaves holes, and the properties say where. Outcome and
phase are two statements, so of an order that died between them (`lost`) the phase
has not heard: its barrier is up with a phase still `ready`, and TLC finds the next
"Open" accepted after the cooldown, where the decision document
(`docs/accesos y huespedes/decisiones-arquitectura-y-seguridad.md:278-280`) has a
409, if `OpenBarrierRefusesOpen` does not except it. An order that died before its
outcome holds the barrier (`Unconfirmed`) only from the moment it counts as
uncertain, 30 s, while its cooldown ends after 10 s: what is accepted in between
hides it. The third was found by the proof, because it takes three taps: after a
"Close" that was cut off, the phase still says that the barrier is open, and a second
"Close", which then opens it, is accepted inside the window of the first "Open" as
soon as the cooldown has passed. `CloseFollowsOwnOpen` therefore says of every pulse
since the "Open" that its command was cut off, and that it is not stale if its row was
never finished.

Deadlock is not checked: requests and clock are bounded, and a
door at which nobody taps does nothing. Two taps and two handlers already give
every race of two orders, or of an order with its own copy, and every pair of an
opening and what follows it. The run is of a barrier; the theorems hold for a
pedestrian door as well (`Vehicular`).

**Proved**, for every number of guests, taps and handlers, and with crashes and
failed statements: `TypeCorrect` and every property of the run (`PulseOnce`,
`PulsesStayApart`, `AnswersTruthful`, `AnswersStand`, `OpenRefusesOpen`,
`UnconfirmedHolds`, `CloseIsOwn`). None of them is inductive. The invariant `IInv` adds who owns what: `Owners` (a handler
past the reservation owns an existing row, and no other handler is on it),
`RowsApart` (rows that count as pulses are a cooldown apart, which is what the lock
gives), `WorkingOrders` (the VPS works only on orders that were reserved and have not
pulsed) and `RelayOrders` (a pulse belongs to a row that counts and falls within
`Budget` of its reservation). Two pulses then inherit the distance of their rows, less
one budget. What a client or the phase is told rests on a second invariant,
`Answers`: a command under way is within its budget (`Living`), outcomes are written
with the time they were obtained (`Timely`), a client was told what the row says or
that a dead order is uncertain (`Told`), the phase says what the row of the order that
wrote it says (`PhaseOfRow`), and of every order that may have pulsed the phase has
heard, or it is under way, or it was cut off (`Accounted`). That a step of
`advancePhase()` outside the lock never overwrites a newer phase follows from these
and from `BudgetAssumption`. The assumptions on the constants are the ones the module declares.

## 4. Credentials and terminals: `CredentialSync`

**State.** `rows` is `access_credential` (status, PIN, end of validity, scope,
sync state, attempts), `older` the rows whose `updatedAt` is before that of a row;
`door` is what each terminal holds of each credential; `job` is what each worker, a
request or a cron job, has loaded, and where it waits. A scope is a set of doors; a
window is the end of a validity; the clock `today` runs in units of a window.
`stale` and `astray` are history: the workers whose row another one has saved since
they loaded it, and the credentials that something has left in disorder, which is a
save or a call of such a worker, a hand on a terminal or a crash between the two saves
of a renewal, until every terminal has taken the row again.

**Actions.** The pattern of the code is load, change in memory, save whole, call
the VPS, save whole again. The first half of an operation (`Issue`, `Revoke`,
`Find` and `Reschedule`, `ChangeScope`, `Reactivate`, `RegeneratePin`; the cron
jobs `Retry`, `GiveUp`, `Expire`, `Purge`, `Inventory` and `Reconcile`) loads the
row and leaves in `job` the object it will save. The rest is shared: `Save`
writes the object over whatever the row holds by then, `Reject` is the unique
index refusing it, `Call` is the VPS with its answer (`applyResult`, or the catch
of `sync`), `Conflict` and `OutOfPins` are the ways of `write()` out of a PIN that
a terminal already has. `Crash` forgets every job.

The sweep sees a batch (`InBatch`): the `Batch` rows not synchronised that were saved
longest ago. `giveUp()` leaves a row that has failed already as it is, so such a row
keeps its place, and a credential with a batch of them before it (`Starved`) is not
seen again, whatever the comment at `access-control/credential.service.ts:185-186` says
of pending rows.

`save` of the repository compares the object with the row and writes every column
that differs, so a field loaded before another worker wrote it is written back:
that is the whole-row assignment of `Save`. The `void` push of `deferSync` is the
same job without a client that waits.

**External.** The VPS answers `written` only when every terminal took its part,
may have reached any subset otherwise, and never acts on a call its client gave
up (it does not queue: `guia-servidor-vps-accesos.md:245`). `Manual` are PINs of
residents that the backend does not know. `Tamper` is somebody at a terminal.

**Bounds.** Requests, crashes and tampering share a budget, `MaxOps` (two or
three); `Operations` says which of them a run makes. `cred_crash` has two workers on
one credential with two doors, a PIN that is `Manual` and one that is not, and two
windows: every pair of operations on one row, partial answers of the VPS, a conflict
that is repaired and one that runs out of PINs, a change of dates, an expiry and a
crash in each of them all happen. `cred_heals` has two credentials, so that one may
stand before the other in a `Batch` of one and the index may refuse a save, on one
door. It leaves out renewals, because the reconciliation does not see a PIN and cannot
repair what a crash inside a renewal leaves. `MaxAttempts` is 1 (instead of 30) and
`Batch` 1 (instead of 50): a row below the limit and at it, one that is seen by the
sweep and one that is not. `Conflicts` is 1 or 2 instead of 3. Runs are shorter than
the cooldown of a PIN (30 days). Symmetry is used only where no liveness is checked.

**Runs.**

| Run | Instance | Shows |
|---|---|---|
| `cred_crash` | two workers, every request, conflicts, crashes | a synced row at rest tells what the terminals hold, unless it is astray; the terminals implement `DoorMirror`; a saved revocation is undone only by `reactivate()` or by an overtaken worker; a PIN changes only by a rotation or by an overtaken worker |
| `cred_heals` | two workers, two credentials, a batch of one, crashes, tampering | liveness: no row stays pending for ever, and PINs in force come back to the terminals that lost them, unless the sweep is starved |
| `cred_race` | two workers | *violated*: a retry under way saves `active` over a revocation (and, the same way, an old PIN over a renewed one) |

`cred_crash` and `cred_race` belong together. The first says that a worker overtaken
between its load and its save is the *only* way to undo a revocation or a renewal, or
to leave a synced row that is not true without a crash in a renewal; the second that
the code does have this way, because nothing locks a credential.

That `PendingSettles` may settle a revocation as failed is a state nothing leaves:
`purge()` takes rows still pending, the sweep leaves alone those out of attempts,
and `reconcileDevice()` goes through live rows. The PIN of a revocation that failed
as often as the limit stays in its terminal, while
`decisiones-arquitectura-y-seguridad.md:208` says that a daily sweep deletes what
is revoked and still written.

`cred_crash` and `cred_heals` do not check deadlock: a budget spent before the
first credential exists leaves nothing to do.

**Fairness.** `Progress`: a started operation goes on, because every call of the
VPS ends at the timeout of its client and every database call returns; and the
sweep, a timer of its own every ten minutes, takes each row that is in its batch again
and again, strongly fair because another operation may hold the worker when it comes
round. Nothing is promised of a row behind the batch: `Starved` is the exception of
both properties, and TLC finds both violated without it. `PendingSettles` needs nothing
else: not that the VPS ever works.
`Repair` is there for a door to heal: of the calls of a worker, some reach
every terminal if there are enough of them, and the reconciliation of every night
looks at each credential.

**Proved**, for every number of credentials, PINs, doors, windows and workers, with
operations that overlap as they like, crashes, renewals and tampering mixed, and
without any hypothesis but the assumptions on the constants:

- `TypeCorrect`. It needs `Busy`, that a busy worker has a credential and that a call
  of `write()` still has a conflict left to count.
- `SyncedTruthfully` (`Spec => []SyncedTellsTheDoor`). `IInv` says of each worker that
  nobody has overtaken what its object in memory is worth (`Mine`): a call carries the
  row; a save under way writes a PIN other than that of the row only in a renewal or
  after a conflict (`KeepsPin`), over a revocation only a revoked object or the one of
  `reactivate()` (`KeepsRevoked`), and `synced` only of what the terminals took, if the
  credential is not astray (`Settled`). A synced row tells the truth unless it is
  astray or between the two saves of a renewal (`Renewing`), the second of which no
  index can refuse.
- `ImplementsMirror` (`Spec => MirrorSpec`): a worker's load or save maps to taking an
  order, or to a change of what is wanted, a call to a terminal that obeys, everything
  else to a stutter. It needs the types only: that terminals may obey an order that is
  no longer wanted is part of `DoorMirror`.
- `RevocationStands` and `RotationOnly` (`Spec => RevocationUndoneByOvertaken` and
  `=> PinChangesByRotation`), from `KeepsRevoked` and `KeepsPin`.

## 5. Guest stays: `GuestAccess`

**State.** `stay` is the row of `guest_stay` of one reservation and `rows` the
rows of `access_credential` of its guest, each of them used once. `job` is what
each process, a request or a cron job, has read and where it waits. A status of
the stay that follows from its dates is "live"; a day stands for the dates of a
stay and the validity computed from them. `hostaway` and `messages` are the other
side: the reservation as Hostaway has it, and the webhooks it has sent. `dropped`
and `stale` are history: that Hostaway cancelled or deleted the reservation once, or
moved it while others arrive; and the processes that saw which PINs there are before
another one gave or took one.

**Actions.** `Deliver` is the controller of the webhook, `SweepStart`, `Fetch` and
`FetchFails` the daily sweep over its days. Both go through
`upsertFromReservation()`: `Read` is the query of `persist()`, `Persist` its save
after openMAINT has answered and what follows without asking the database, `Find`
is `syncCredential()`, which ends in `Move` (`reschedule()`) or in `Check` and
`Insert` (`issue()`). `Compare` and `Vanish` are `cancelDisappeared()`. `Suspend`,
`Widen` and `Resume` are the three branches of `changeAccessLevel()` with what
`resolve()` asks of them; `Mark`, `Restore`, `Reactivate`, `Unmark` and `Rescope`
are their statements. `ListLive` and `RevokeOne` serve a cancellation and the CAV.
`Finish` is how each of them returns: the sweep goes on with the next day, a
webhook that failed is kept for another attempt.

**External.** `Change`: Hostaway books, moves, cancels or deletes the reservation
and sends it whole in a webhook, except for a deletion. A webhook may be repeated
and reordered (it stays in `messages` until it is acknowledged), or lost (`Lose`).
openMAINT finds the unit, has none, or is down (`Units`). `Crash` forgets every
process, `Fault` is a statement of Postgres that fails.

**Bounds.** The outside acts at most `MaxOps` times, by the operations a run lists
in `Operations`; losing a webhook is not counted. Day 0 is past and outside the
sweep; the window does not move, so a run is shorter than the days before the
arrival. `Others` are the days on which Hostaway lists other arrivals, without
which the sweep cancels nothing; here that is the day of the sweep. `Credentials` is as
many PINs as the instance can issue: seven, so that no behaviour waits for a free one.
Two operations of the outside, in any combination of changes of the reservation,
requests of the CAV, crashes and failed statements, meet webhooks and sweeps without
number, so that every pair of them overlaps. Deadlock is not checked: without messages and with a sweep
that never starts there is nothing to do.

**Runs.**

| Run | Instance | Shows |
|---|---|---|
| `guest` | two processes, every operation, a day with other arrivals | a second PIN comes only from an overtaken process; a suspension is broken only by a request that read the stay before it or was overtaken; a PIN is cancelled only for a reservation that was cancelled, deleted or moved; liveness: a cancelled reservation ends without a PIN, a booked one that is not suspended with one for its dates |

What the properties leave open the code does, and TLC finds it when the exception is
taken away. `NoSecondPin` (`stale`): webhook and sweep both find no credential, the
sweep issues one, the supervisor widens it to `both`, and the webhook, which looked for
a pedestrian one, issues a second. `SuspensionHolds` (`Unaware`): a webhook that read
the stay before the suspension saves its copy, the mark is gone and a PIN is issued.
`OnlyCancelledRevoked` (`dropped`): a reservation moved to another day, its webhook lost
or late, is taken by the sweep of its old day for cancelled, because a day that does not
list it is all the sweep sees. What remains of the last is what `reconcileDate()`
promises, that openMAINT or Hostaway out of reach, or an empty list, revokes nothing.

**Fairness.** The sweep is a cron job, so it starts again and again whatever else
is served (strongly, because both processes may be busy when it is due); Hostaway
and openMAINT answer some of the times they are asked; a process that has started
goes on, because every call outside has a timeout. A webhook need never arrive:
no fairness is given to `Deliver`.

**Proved**, for every number of processes that overlap, die and lose messages, of
credentials, days and operations, and without any hypothesis:

- `TypeCorrect`: `Spec => []TypeOK`.
- `IndexAlwaysHolds`: `Spec => []OnePinPerScope`. It is inductive with
  `TypeOK`, and is all that the database itself guarantees.
- `OnePinPerGuest` and `SuspensionRespected`: `Spec => NoSecondPin` and
  `=> SuspensionHolds`. The invariant says what a process that nobody has overtaken may
  rely on at each point: one about to issue has no live credential beside it, one that
  restores has a credential the CAV revoked, one about to take the mark off has a live
  one.
- `OnlyCancelled`: `Spec => []OnlyCancelledRevoked`. `Undropped` says of everything a
  process has read (`Harmless`), of the stay and of the messages that it does not show a
  cancellation before there was one, nor a day of arrival that Hostaway has left.

## 6. PIN notices: `PinNotice`

**State.** `cred` is what a notice asks of `access_credential`: live, at the door,
and which PIN (a number that a renewal raises, for the fingerprint). `current` are
the stays that are pending or active. `handled` and `cooling` are
`guest_pin_notice`: the PINs with a row `sent`, and those whose last attempt failed
within the cooldown. `job` is a pass of the sweep or a request of the panel.
`reachable` and `received` are the other side: the reservations that have a
conversation in Hostaway, and what each guest was told. `twice` and `excused` are
history.

**Actions.** `SweepStart` and `NextStay` are `sweep()` over its batch. `Read`,
`PickOne`, `Check` (`alreadyHandled()`), `CheckCooldown` (`recentlyFailed()`),
`Send` with `SendNowhere` and `SendFails`, and `Record` are `tryNotify()` and
`send()`, one action for each of their awaits. `Renew`, `Unsync` and `Push` are
`regenerate()` of the panel, which ends in the same notice; `Resend` is
`resendPinNotice()`, the same notice without its two checks. `Fault` is a statement
that fails, `Crash` the death of the process.

**External.** `Sync` stands for `CredentialSync`: a PIN reaches the door some time,
or never. `Revoke` and `EndStay` are requests of other components, `Appear` a
conversation that Hostaway opens, `CoolDown` the clock.

**Bounds.** One guest with two PINs, of which the pedestrian one never gets its
notice while the other is live, so that a credential that always waits takes part in
the batch; two processes; one renewal; two operations of the outside.

**Runs.**

| Run | Instance | Shows |
|---|---|---|
| `pin_notice` | two processes, every operation | what is recorded was told, with that very PIN; no PIN is told twice unasked; liveness: the PIN in force is told |

Deadlock is not checked: nobody waits for a notice once the stays have ended.

**Fairness.** A notice under way ends, because each of its calls has a timeout;
the sweep is a cron job and starts again and again whatever the panel does
(strongly fair, because both processes may be busy); the cooldown passes. Neither
the push to the door nor the conversation is promised: `PinInForceIsTold` is stated
of a credential that stays at the door and a guest who can be written to. It is
also stated while fewer than a batch of other credentials wait, and that is not for
the sake of the bound: the query takes the 50 least recently written, a notice
that cannot be sent does not write the credential, and those in front stay there.

**Proved**, for every number of guests, credentials, scopes and processes:
`TypeCorrect`; `RecordedWasSent` (`RecordedWasTold`), which holds whatever
overlaps or fails; and `NeverTwice` (`ToldOnce`). `IInv` adds `Sound`, that a
process about to record a notice as sent has sent that PIN, and `Orderly`, which
holds as long as nothing was `excused`: one notice is under way at most, every PIN
that was told is recorded or about to be, and a notice past `alreadyHandled()` holds
one that is not.

## 7. App sessions: `AppSessions`

**State.** A session lives in three places: `openmaint`, `rows` (the table
`app_session`) and `cache` (memory). `client` is what the device got; `load` and
`snapshot` are the loading of the table after a start, `readable` the rows the
present key decrypts. `job` is a request or a cron job. `unclosed`, `ended` and
`erased` are history: sessions that somebody tried to close, that a password
change listed, and that were forgotten.

**Actions.** `Boot`, `BootFails`, `LoadRead`, `LoadApply` and `LoadFails` are
`onModuleInit()` and `ensureLoaded()`. `Login`, `Store`, `StoreFails` and `Cache`
are the login with `register()`; `TouchStart`, `Touch` and `SaveTouch` are
`touch()`; `Logout` is `close()`; `ChangeStart` and `Change` are
`closeAllForUser()`. `CronStart`, `Keep`, `Ping` and `PingDown` are `keepAlive()`,
and `Purge` is `purgeExpired()`. All of them close through the shared steps `Close`, `CloseDown`,
`Forget`, `Delete` and `DeleteFails`. `Crash` and `Rotate` restart the process, the
second with another key.

**External.** `Drop` is a session that openMAINT ends by itself; `ExpireRow` and
`ExpireEntry` are the clock.

**Bounds.** `sessions` has two sessions, one remembered and one not, two processes,
and two of: a crash, openMAINT down, a statement that fails. A session of another device
is then open, kept or closed beside the one at hand, and openMAINT may be down for one
of them only. `sessions_forget`, with liveness, has one session, three mishaps and a key
that is rotated as well: to forget a session takes nothing of another. What a rotated
key does beside a second session is in the theorems, which hold for any number of
devices. Deadlock is checked.

**Runs.**

| Run | Instance | Shows |
|---|---|---|
| `sessions` | two devices, two processes, failures and restarts | an open session is kept; a password change that ends well has asked to close every other session; what was forgotten does not come back |
| `sessions_forget` | one device, every operation | liveness: a closed session leaves the memory |

**Fairness.** The loading and a started request end; each cron job fires again and
again (strongly, because the processes may be busy); rows and entries expire with
the clock. Nothing is assumed of openMAINT.

**Proved**, for every number of devices and processes: `TypeCorrect`,
`OpenSessionsKept` (`OpenIsKept`), `ChangeEndsSessions`
(`ChangeReachesEveryDevice`) and `ForgottenForGood` (`ErasedStaysOut`). `IInv` adds
`Tables`, how the three places and the loading relate (during a load, a session may
be in the snapshot only), and `Jobs`, what a process holds at each stage: a session has
one login, whose row is there once it is stored, and what a process is about to
forget it has asked openMAINT about.

## 8. Cleaning tasks: `CleaningTask`

**State.** `card` is the task in openMAINT: phase, cleaner, first start, minutes,
and the text `TeamObservations` as what matters of it, the marks in order (`log`)
and the room of the draft. `copies` counts the cards of one checkout. `view` is the
stopwatch of each device (`activeTask` of its store). `job` is a request that has
read the card and not written it. `worked`, `session`, `starts`, `left` and `upset`
are history: minutes in execution, in all and since the task was begun anew; how
often it was started; how it was left; what went wrong. `began`, `drift` and
`sessionDrift` are history too: when the task was last started, and the minutes that the
clocks of the devices have added.

**Actions.** A request is two actions, the read with its checks and the write:
`Create` and `CreateWrites` (the synchronisation of checkouts), `Start`, `Pause`,
`Complete` and their `...Writes`, and `Supervise` with `SuperviseWrites` (approve,
reject, reopen, cancel, assign, edit). `CreateManual` is one, because it reads
nothing. `Load` is a device that reads the task again; `Fails` is a write openMAINT
refuses; `Tick` is a minute.

**Bounds.** A note is one unit, and the text has room for three of them
(`MAX_TEAM_OBSERVATIONS` is 500 characters); a draft takes
none of it or one; at most three minutes, seven requests, and one mishap: two requests
that overlap, a lost answer, a failed write, a duplicate check that fails, a client that reports no
minutes, or a free edit by a supervisor. Three notes are a pause, a resume and a
restart, so that every mark may be the one that is cut. One device is a minute ahead of
the server and one a minute behind (`Skew`). A report may exceed the maximum
(`MaxTotal` is 4). Deadlock is not checked: requests and minutes run out.

**Runs.**

| Run | Instance | Shows |
|---|---|---|
| `cleaning_time` | two requests, two devices, one mishap | the first start is never lost; the minutes of the card are those in execution and what the clocks of the devices add to them; a stopwatch shows its session, likewise; a pause is told from a reopening; one task per checkout |

Each property names in `upset` what it does not stand: `race` (the card changed
between read and write), `stale` (a device leaves an execution whose beginning it did
not see), `blind` (the mark to count from was cut away), `cut` (a note was lost as an
execution was left), `capped` (a report above the maximum), `edit`, and `double` (two
synchronisations at once, or a check that failed).

Three statements of the repository do not hold, and the properties say what does.

- The comment at `cleaning-tasks/cleaning-tasks.service.ts:1116-1118` has the minutes
  measured "de punta a punta con el mismo reloj", so that an offset between device and
  server does not matter. The device subtracts an instant of the server from its own
  `Date.now()` (`useCleaningTaskExecution.ts:173-185`), so each execution is off by the
  clock of the device that leaves it, but never below zero: `MinutesAreWorked` is
  `card.minutes = worked + drift`, with `drift` the sum of those (`Adds`).
- `:147-149` and section 4 of `docs/limpieza modulo/pausa-de-tareas.md` have every
  device compute the same elapsed time. Each one shows it with its own clock's offset:
  `StopwatchShowsSession` takes `Adds(d)` off.
- The comment at `:81-90` gives the number on a restart mark as the reason why a
  resumed stopwatch does not show what was worked before a reopening. The mark of a start
  may push that restart out of the text (`forgot`), as below: the stopwatch may then show
  the minutes of the whole task, which `StopwatchShowsSession` says, and nothing else.

`:204-206` of the same document says that the state stays right when a text is cut,
because only the last mark counts. It does if marks are cut by marks; but the draft takes
its room first, and with one that fills the text no mark is left (`cut`).

`forgot` was found by the proof. With a draft of one note the text has room for two:
a task that was reopened, paused and resumed keeps the pause and the resumption and
loses the restart, `resolveSessionCarryMinutes()` answers 0, and a device that loads
the task shows the minutes of before the reopening as well, while the one that started
it does not. The minutes that are written are not affected:
`MinutesAreWorked` does not except it.

**Proved**, for every number of requests, devices and marks, every room of the text
and every mishap, `TypeCorrect` and all the properties of the run. `StartIsKept`
(`ExecutedHasStart`) and `OneTask` (`OneTaskPerCheckout`) hold with requests that
overlap as they like. `IInv` adds `Leaving` (a request that pauses or completes read a
card with a start), `OneCopy` and `HasStart`. The other three hold where no write
meets a card it has not read:

- `PausesTold` (`PauseIsTold`). `PInv` adds the phase each kind of request was let
  through in (`Reading`), and `Pausing`: an open pause is in the text from the pause to the
  next start and never else. It rests on lemmas about the text: what `Keep` leaves is
  the end of the log, and the note written last gives way last (`KeepEnds`,
  `KeepLastNote`, `LastAppend`).
- `MinutesWorked`: `Spec => []MinutesAreWorked`, for any `Skew` of any device.
  `WInv` adds `Counting`: the card has all minutes, with their drift, but those of the
  execution going on (`CardCounts`), tells when that began by its first start or by its
  last mark (`CardTells`), every device that knows of it counts from there
  (`DevicesCount`), and a report under way is already right (`Reports`).
- `StopwatchTrue`: `Spec => []StopwatchShowsSession`, likewise. `SInv` adds
  `Carries`, that the last restart carries the minutes from before this session, and
  `Shows`, that each stopwatch begins with what the session had before this execution;
  once the text lost the restart, that both speak of the whole task.

## 9. Billing and payments: `Charges`

**State.** `day`, `month` and `due` are the calendar and the timers that have not
fired today. `booking` is Hostaway: whether a reservation is paid, whether it stands (its
status is new, modified or confirmed) and its date of arrival; `invoices` is Contifico, `cards` the cards of openMAINT
about invoices (`OK` or `ERROR`); `charges` and `settled` are the payments of the
owners by unit and period, `told` the mails. `job` is a run. `ready`, `since`, `doubt`,
`unsure` and `troubled` are history: since when a reservation is to be billed as it is,
when a charge was made, and what a lost answer or an overlap left open.

**Actions.** `BillingTimer`, `PaymentsTimer`, `Down` (the hour passed while the
process was not there: `setTimeout` does not make up for it) and `ByHand` begin a run.
`Arrivals`, `Check`, `Invoice` and `Save` are the billing of one reservation after
the other. `GenerateRead` and `Post`, `RemindRead`, `OverdueRead` and `Mail` are the three
runs of the payments, which the timer makes one after another (`Following`). `Ends`
and `Fails` are their two ends, `Crash` the third.

**External.** `Rebook` (a reservation is paid or paid back, cancelled or restored, or
its dates move, at any moment), `OwnerPays` and `NextDay`. Contifico takes a document a second time:
its answer to one is not in the repository.

**Bounds.** Two months of two days with the emission on day 1, the due
date on day 3 (a day the first month lacks, so that it falls on the first of the
second), a notice day, and a zone one day behind UTC; one reservation with
two dates of arrival and two changes; one unit; one run by
hand and one mishap (a crash, a missed hour, a failed or blind call, a lost answer).
Deadlock is not checked: the calendar ends.

**Runs.**

| Run | Instance | Shows |
|---|---|---|
| `charges` | two months, two runs at a time, one mishap, `CqlFilters = FALSE` | one invoice per reservation; card and Contifico agree; who is to be billed in time has a card; one charge per unit and month; a unit without any payment is charged on the next day of emission; an owner is reminded before the due date |
| `charges_cql` | the same, with no trouble at all | violation of `EveryMonthCharged`: the second month is not charged |

`CqlFilters` says whether openMAINT heeds the condition on the period in
`getPagosDelPeriodo()` (`payments/payments-openmaint.repository.ts:154-174`). The comment
at `:183-186` and section 9 of `docs/notifications module/notificaciones-de-pagos.md` say
that this version ignores `cql` and returns every card, so both runs have it `FALSE`. As
`payments.service.ts:104-118` compares owner and description only, and the description
names no period, the payments of the first month then count as those of every other, and
`charges_cql` finds the second month uncharged, which is the finding. What is left, and
proved with and without the condition, is `UnchargedHadOne`: only a unit that had a
payment already, of whatever month, may go uncharged.
`RemindedBeforeDue` is stated of an eve in the month of its payment. With
`DiaVencimiento` 1 the eve is in the month before and no reminder is ever sent,
although the comment at `payments/payment-reminder.service.ts:154` has that edge
resolved.

**Proved**, for every calendar, every number of reservations, units and overlapping
runs, and every failure: `TypeCorrect`, and all the properties of `charges`:
`NoSecondInvoice`, `BooksStayTrue` and `NoSecondCharge` (with `IInv`:
what each run knows of the reservation or the unit it is at), `NobodyUnbilled`,
`NobodyUncharged` and `NobodyUnreminded` (with `TInv`: what
a run of the timer still has before it on its day). Nothing was at fault in the last
three but the day itself: `troubled` names the one day whose run may have failed.

## 10. Preventive maintenance: `Preventive`

**State.** `card` is the process in openMAINT: its status, a number for the activity
it is at, and `ExecStartDate` as who sealed it (`Planned` is the date openMAINT
fills in). `list` is its checklist: the activities with a value and those marked
N.D. `page` is what a page shows, with the answers a technician has typed and not
saved. `job` is a request, with the card and the list it has read. `saved` and
`upset` are history: the activities a page was told are saved, and what went wrong.

**Actions.** `Open` (and `Reopen`, the end of a start) is `openMaintenance()`, with
`UnmarkRead` and `Unmark` for `clearNotDone()` and `Show` for `toDetail()`. `Start`,
`Advance`, `Wait`, `Confirm` and `Seal` are the awaits of `startExecution()`.
`Suspend` and `Finish` are the two buttons of the page; they share `SaveRead` and
`Save`, and then are `MarkRead` and `Mark`, or `Close` and `AssertComplete`, and
`Leave` and `Check`. `Assign`, `Supervise` and `Decide` are the three moves of a
supervisor. `Fails` is a call that fails, `Crash` the death of the process.

**External.** `Put` is openMAINT's side of a move: carried out if the process is
still at the activity the request read, refused otherwise or while another request
holds its lock; it does not leave the execution while an activity is unresolved, and
answers 200 all the same. These are what the comments of the code say it verified.

**Bounds.** Two activities, so that a list may be answered in part; two pages and one
supervisor; one resumption or reassignment; one mishap: a failed call, a lost answer, a
200 that moves nothing, a crash. A suspension with its resumption, two starts at once,
a close against a suspension and every pair of requests on one list happen. Deadlock is
not checked: a closed maintenance stays closed.

**Runs.**

| Run | Instance | Shows |
|---|---|---|
| `preventive` | two pages, one supervisor, one mishap | no saved answer is lost; nothing is closed without a value for every activity; the sealed start stays |

Each property names in `upset` what it does not stand, and TLC finds each of them
real. `list`: two requests have read the array and both write it; the second takes the
answers of the first away, and a suspension that had read the list before a close
saved it marks N.D. over its answers, so that `assertComplete()` lets the maintenance
close without them. `start`: a close sends the start it had read, which another
request has sealed meanwhile. `silent`: a start that openMAINT said 200 to and did not
make goes on, and seals the start of another.

**Proved**, for every number of activities, pages and supervisors, with every mishap:
`TypeCorrect`, and the three properties of the run: `NoAnswerLost` (`AnswersKept`),
`ClosedWithAnswers` (`CompletedIsAnswered`) and `StartStays` (`StartIsKept`). `IInv`
adds `Requests` (the activity a request read is of the status it found, so that a
move accepted later starts there; only a suspension marks; a close brings all the
answers), `Answered` (a close past its save has the whole list) and `Sealed` (one
winner of a start at most, and while there is one nobody has sealed it).

## 11. What is only checked, and what is left out

**Only model-checked.** Liveness (`PendingSettles`, `TamperedDoorsHeal`,
`CancellationReachesGuest`, `BookingGetsPin`, `ClosedIsForgotten`,
`PinInForceIsTold`), because TLAPS does not do fairness and `ENABLED`. Every safety
property of a passing run is a theorem of the specification as it stands, under the
assumptions its module declares of the constants and no other hypothesis. What the code
does not keep is an exception inside the property, named by a history variable (`lost`,
`stale`, `astray`, `dropped`, `excused`, `upset`, `unsure`, `troubled`) and explained in
its section. That the exceptions do not swallow the properties is what the mutants show.

**Left out of the modules.**

- `RemoteGate`: which doors and cameras a user may see, and the statuses `opened`
  and `closed` of old rows.
- `CredentialSync`: several credentials of one subject (`GuestAccess` has them),
  names and wire formats, the filter of weak PINs, the paging of the inventory,
  `validFrom`, and that a batch is worked row by row, after it was read.
- `GuestAccess`: pushes, the expiry, buildings without access control, the
  endpoints that act on one credential directly, and the await between load and save
  inside `CredentialService`. `resolve()` is one step, although it reads the stay and
  then the credential.
- `PinNotice`: the text of the message, and reservations without a conversation by
  design (direct ones).
- `AppSessions`: the hash and the encryption of the identifiers.
- `CleaningTask`: attachments, checklists, the planned schedule, `DelayTime`, push
  messages.
- `Charges`: amounts, the payload of Contifico, the grouping of the mails of one owner.
- `Preventive`: the values of the answers, notes, reasons, documents, the assignee, manual
  creation, cancellation in openMAINT, and a maintenance without a checklist.

**Known, and without a property.** The daily limit of openings is counted before the
lock. Between the cooldown of an order that died and its staleness the barrier takes
another one. A rotated PIN has no cooldown. The start of a maintenance whose answer was lost is never sealed,
and its planned date stays. A crash in the middle of a renewal leaves
a row that says synced with a PIN no door has (`astray`); and where a renewal overlaps a retry
the door may keep the old PIN, which `reconcileDevice()` never repairs, because it
compares presence and validity and not the PIN. Fifty rows that failed for good
hide all others from the sweep. Each is a hazard in `PROJECT.json`, at its line.

**Not modelled.** Guest links (the shape of `PinNotice`, with less in it), push
dispatch (best effort behind one unique index), IoT alarms, meeting reminders and
video surveillance (relays with no state of their own), password recovery (the token
is signed with the hash it changes), the guest portal (reads), the PIN cipher (a
function), the clients of Hostaway, openMAINT, Contifico and the VPS (HTTP), the
queries and forms of owners, buildings, incidents and corrective maintenance, whose
workflow is openMAINT's, and the presentation in the frontend. The note of each component in `PROJECT.json`
gives the reason.
