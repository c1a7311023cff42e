----------------------------- MODULE RemoteGate -----------------------------
(***************************************************************************)
(* Remote opening of one door by a single relay pulse                      *)
(* (access-control/remote-open.service.ts and remote-open.rules.ts).       *)
(*                                                                         *)
(* The backend serves each tap in a handler of its own: it looks for a     *)
(* replay, reserves the order under a lock per door, calls the VPS once,   *)
(* writes the outcome on the row of the order and, on a vehicular barrier, *)
(* writes the phase of the barrier.  Every database or network call is an  *)
(* await, so handlers interleave between these steps, and the process may  *)
(* die between any two of them.  The relay belongs to the VPS: it pulses   *)
(* while it works on a call, whether or not the backend still listens.     *)
(***************************************************************************)
EXTENDS Integers, FiniteSets

CONSTANTS
    Guests,         \* stays that may use the barrier from the portal
    Staff,          \* usernames of the CAV supervisors
    RequestIds,     \* one per tap, made by the client
    Handlers,       \* HTTP requests the backend serves at the same time
    NoActor,        \* the null of openedByStayId and openedByUsername
    NoRequest,      \* the null of requestId
    Vehicular,      \* TRUE: barrier with measured timings; FALSE: pedestrian
    Cooldown,       \* PULSE_COOLDOWN_MS or PEDESTRIAN_COOLDOWN_MS
    Stale,          \* STALE_ATTEMPT_MS
    CloseWindow,    \* closeWindowMs of the building
    AutoClose,      \* autoCloseMs of the building
    Budget,         \* bound on a living command: HTTP timeout and its writes
    DailyLimit,     \* GUEST_DAILY_OPEN_LIMIT
    Day,            \* DAY_MS
    MaxTime         \* bound of the model on the clock

Actors == Guests \cup Staff

ASSUME NoActorAssumption == NoActor \notin Actors
ASSUME NoRequestAssumption == NoRequest \notin RequestIds
\* A living command ends before its order counts as dead, and on a barrier
\* before the next pulse may be reserved: 8 s < 10 s < 30 s.
ASSUME BudgetAssumption == Budget <= Stale /\ (Vehicular => Budget < Cooldown)
ASSUME TimingsAssumption ==
    /\ Vehicular \in BOOLEAN
    /\ Cooldown \in Nat /\ Stale \in Nat /\ Budget \in Nat
    /\ CloseWindow \in Nat \ {0} /\ AutoClose \in Nat /\ CloseWindow < AutoClose
    /\ DailyLimit \in Nat /\ Day \in Nat /\ MaxTime \in Nat

VARIABLES
    now,            \* the clock of the backend
    tap,            \* who minted each request id, and for which action
    rows,           \* table remote_open_request, by request_id
    phase,          \* row of vehicular_gate_phase of this barrier
    handler,        \* the running handlers of the backend process
    working,        \* external: requests the VPS still works on
    relay,          \* external: history of the pulses the door received
    told,           \* history: the outcome the client of a request was given
    lost            \* history: requests whose command died half-way

vars == <<now, tap, rows, phase, handler, working, relay, told, lost>>

Actions == {"open", "close"}
Outcomes == {"triggered", "failed", "uncertain"}

\* A client mints a request id for one tap, so the row of a request and every
\* copy of it carry the same actor and action: replay() answers 409 to others.
Tap == [actor: Actors, action: Actions]

Row == [status: {"none", "attempted"} \cup Outcomes, at: Int, finished: Int]
NoRow == [status |-> "none", at |-> 0, finished |-> 0]

Phase == [phase: {"none", "ready", "open", "uncertain"}, pulsedAt: Int,
          openedBy: Actors \cup {NoActor},
          request: RequestIds \cup {NoRequest}, updatedAt: Int]
NoPhase == [phase |-> "none", pulsedAt |-> 0, openedBy |-> NoActor,
            request |-> NoRequest, updatedAt |-> 0]

\* Where a handler waits: "checked" before the reservation, "calling" for the
\* VPS, "answered" to write the outcome, "recorded" to write the phase.
Handler == [stage: {"idle", "checked", "calling", "answered", "recorded"},
            request: RequestIds \cup {NoRequest}, outcome: Outcomes, at: Int]
Idle == [stage |-> "idle", request |-> NoRequest, outcome |-> "failed", at |-> 0]

Pulse == [request: RequestIds, at: Int]

Exists(r) == rows[r].status # "none"

\* The handler that inserted the row of its request and has not finished.
Commanding(h) == handler[h].stage \in {"calling", "answered", "recorded"}

Init ==
    /\ now = 0
    /\ tap \in [RequestIds -> Tap]
    /\ rows = [r \in RequestIds |-> NoRow]
    /\ phase = NoPhase
    /\ handler = [h \in Handlers |-> Idle]
    /\ working = {}
    /\ relay = {}
    /\ told = [r \in RequestIds |-> "none"]
    /\ lost = {}

----------------------------------------------------------------------------
(* The rules: remote-open.rules.ts.                                         *)

\* Mutant: a living attempt already reads as uncertain.
EffectiveStatusNoWait(r) ==
    IF rows[r].status = "attempted" /\ now > rows[r].at
    THEN "uncertain" ELSE rows[r].status

EffectiveStatus(r) ==
    IF rows[r].status = "attempted" /\ now - rows[r].at > Stale
    THEN "uncertain"
    ELSE rows[r].status

\* An attempt that died half-way, not older than the phase.
StaleAttempt ==
    \E r \in RequestIds :
        /\ rows[r].status = "attempted"
        /\ now - rows[r].at > Stale
        /\ phase.phase = "none" \/ rows[r].at > phase.updatedAt

\* Mutant: the barrier is ready as soon as its close window ends.
EffectivePhaseNoSettling ==
    IF StaleAttempt \/ phase.phase = "uncertain" THEN "uncertain"
    ELSE IF phase.phase = "open" /\ now - phase.pulsedAt < CloseWindow
         THEN "closable" ELSE "ready"

EffectivePhase ==
    IF StaleAttempt THEN "uncertain"
    ELSE IF phase.phase # "open"
         THEN IF phase.phase = "uncertain" THEN "uncertain" ELSE "ready"
         ELSE LET elapsed == now - phase.pulsedAt
              IN  IF elapsed < CloseWindow THEN "closable"
                  ELSE IF elapsed < AutoClose THEN "settling" ELSE "ready"

\* Mutant: any guest may close.
PulseAllowedAnyCloser(r) ==
    \/ tap[r].action = "open" /\ EffectivePhase = "ready"
    \/ tap[r].action = "close" /\ EffectivePhase = "closable"

PulseAllowed(r) ==
    \/ tap[r].action = "open" /\ EffectivePhase = "ready"
    \/ /\ tap[r].action = "close" /\ EffectivePhase = "closable"
       /\ tap[r].actor \in Guests => phase.openedBy = tap[r].actor

\* Mutant: only finished orders cool the door down.
PulseRowsFinished == {r \in RequestIds : rows[r].status \in {"triggered", "uncertain"}}

\* The rows that count as pulses: every one but the failed.
PulseRows == {r \in RequestIds : rows[r].status \notin {"none", "failed"}}

Cooling == \E r \in PulseRows : rows[r].at > now - Cooldown

OpensToday(g) ==
    {r \in RequestIds : /\ Exists(r) /\ rows[r].at > now - Day
                        /\ tap[r] = [actor |-> g, action |-> "open"]}

DailyLimitReached(g) == Cardinality(OpensToday(g)) >= DailyLimit

----------------------------------------------------------------------------
(* The handlers: remote-open.service.ts.                                    *)

\* forGuest and forStaff up to command(): no replay, the door takes the
\* action, and a guest who opens is under the daily limit.
Arrive(h, r) ==
    /\ handler[h].stage = "idle"
    /\ ~Exists(r)
    /\ Vehicular \/ (tap[r].actor \in Staff /\ tap[r].action = "open")
    /\ (tap[r].actor \in Guests /\ tap[r].action = "open")
          => ~DailyLimitReached(tap[r].actor)
    /\ handler' = [handler EXCEPT ![h] =
         [stage |-> "checked", request |-> r, outcome |-> "failed", at |-> 0]]
    /\ UNCHANGED <<now, tap, rows, phase, working, relay, told, lost>>

\* replay(): the same tap again gets what happened, without another pulse.
Replay(r) ==
    /\ Exists(r)
    /\ EffectiveStatus(r) # "attempted"
    /\ told' = [told EXCEPT ![r] = EffectiveStatus(r)]
    /\ UNCHANGED <<now, tap, rows, phase, handler, working, relay, lost>>

\* Mutant: no unique index on the request.
MayReserveTwice(h) ==
    (Vehicular => PulseAllowed(handler[h].request)) /\ ~Cooling

\* The conditions reserve() checks inside the transaction that holds the lock
\* of the door, the unique index on the request included.
MayReserve(h) ==
    /\ Vehicular => PulseAllowed(handler[h].request)
    /\ ~Cooling
    /\ ~Exists(handler[h].request)

\* reserve() commits the attempted row; the call to the VPS starts.
Reserve(h) ==
    /\ handler[h].stage = "checked"
    /\ MayReserve(h)
    /\ rows' = [rows EXCEPT ![handler[h].request] =
         [status |-> "attempted", at |-> now, finished |-> 0]]
    /\ handler' = [handler EXCEPT ![h].stage = "calling"]
    /\ working' = working \cup {handler[h].request}
    /\ UNCHANGED <<now, tap, phase, relay, told, lost>>

\* reserve() answers 409 or 429: nothing is written.
Refuse(h) ==
    /\ handler[h].stage = "checked"
    /\ ~MayReserve(h)
    /\ handler' = [handler EXCEPT ![h] = Idle]
    /\ UNCHANGED <<now, tap, rows, phase, working, relay, told, lost>>

\* External: the VPS pulses the relay, once per request, within the time a
\* command may last.
RelayPulse(r) ==
    /\ r \in working
    /\ now <= rows[r].at + Budget
    /\ relay' = relay \cup {[request |-> r, at |-> now]}
    /\ working' = working \ {r}
    /\ UNCHANGED <<now, tap, rows, phase, handler, told, lost>>

Pulsed(r) == \E p \in relay : p.request = r

\* Mutant: a timeout after sending is classified as a failure.
AnswerTimeoutFails(h, outcome) ==
    /\ handler[h].stage = "calling"
    /\ outcome = "triggered" => Pulsed(handler[h].request)
    /\ handler' = [handler EXCEPT ![h] =
         [@ EXCEPT !.stage = "answered", !.outcome = outcome, !.at = now]]
    /\ working' = working \ {handler[h].request}
    /\ UNCHANGED <<now, tap, rows, phase, relay, told, lost>>

\* pulse(): triggerDevice resolves.  A confirmed pulse happened, a failure
\* never reached the relay, and an uncertain call may still pulse.
Answer(h, outcome) ==
    LET r == handler[h].request
    IN  /\ handler[h].stage = "calling"
        /\ outcome = "triggered" => Pulsed(r)
        /\ outcome = "failed" => ~Pulsed(r)
        /\ handler' = [handler EXCEPT ![h] =
             [stage |-> "answered", request |-> r, outcome |-> outcome, at |-> now]]
        /\ working' = IF outcome = "uncertain" THEN working ELSE working \ {r}
        /\ UNCHANGED <<now, tap, rows, phase, relay, told, lost>>

\* pulse(): requests.update with the outcome.
Record(h) ==
    LET r == handler[h].request
    IN  /\ handler[h].stage = "answered"
        /\ rows' = [rows EXCEPT ![r] =
             [status |-> handler[h].outcome, at |-> rows[r].at,
              finished |-> handler[h].at]]
        /\ handler' = [handler EXCEPT ![h].stage = "recorded"]
        /\ UNCHANGED <<now, tap, phase, working, relay, told, lost>>

\* Mutant: an uncertain order is taken for a confirmed one.
PhaseAfterDeduced(h) ==
    [phase |-> IF tap[handler[h].request].action = "open" THEN "open" ELSE "ready",
     pulsedAt |-> handler[h].at, openedBy |-> NoActor,
     request |-> handler[h].request, updatedAt |-> handler[h].at]

\* The row advancePhase() saves for an order that was not a failure.
PhaseAfter(h) ==
    LET r == handler[h].request
        opened == handler[h].outcome = "triggered" /\ tap[r].action = "open"
    IN  [phase |-> IF handler[h].outcome = "uncertain" THEN "uncertain"
                   ELSE IF opened THEN "open" ELSE "ready",
         pulsedAt |-> handler[h].at,
         openedBy |-> IF opened THEN tap[r].actor ELSE NoActor,
         request |-> r,
         updatedAt |-> handler[h].at]

\* advancePhase(), outside the lock, and the answer to the client.
Finish(h) ==
    /\ handler[h].stage = "recorded"
    /\ phase' = IF Vehicular /\ handler[h].outcome # "failed"
                THEN PhaseAfter(h) ELSE phase
    /\ told' = [told EXCEPT ![handler[h].request] = handler[h].outcome]
    /\ handler' = [handler EXCEPT ![h] = Idle]
    /\ UNCHANGED <<now, tap, rows, working, relay, lost>>

\* resolveUncertain(): the supervisor has looked at the barrier.
ResolveUncertain ==
    /\ Vehicular
    /\ EffectivePhase = "uncertain"
    /\ phase' = [phase |-> "ready", pulsedAt |-> phase.pulsedAt,
                 openedBy |-> NoActor, request |-> NoRequest,
                 updatedAt |-> now]
    /\ UNCHANGED <<now, tap, rows, handler, working, relay, told, lost>>

\* A living command ends within its budget: the clock waits for it.
Tick ==
    /\ now < MaxTime
    /\ \A h \in Handlers :
         Commanding(h) => now < rows[handler[h].request].at + Budget
    /\ now' = now + 1
    /\ UNCHANGED <<tap, rows, phase, handler, working, relay, told, lost>>

\* The process dies and restarts: every handler is lost, the database and the
\* calls the VPS already received are not.
Crash ==
    /\ \E h \in Handlers : handler[h].stage # "idle"
    /\ lost' = lost \cup {handler[h].request : h \in {k \in Handlers : Commanding(k)}}
    /\ handler' = [h \in Handlers |-> Idle]
    /\ UNCHANGED <<now, tap, rows, phase, working, relay, told>>

\* A statement of Postgres fails: requests.update leaves the row attempted,
\* phases.save leaves the phase as it was; nobody catches either.
Fault(h) ==
    /\ handler[h].stage \in {"answered", "recorded"}
    /\ lost' = lost \cup {handler[h].request}
    /\ handler' = [handler EXCEPT ![h] = Idle]
    /\ UNCHANGED <<now, tap, rows, phase, working, relay, told>>

Next ==
    \/ \E h \in Handlers, r \in RequestIds : Arrive(h, r)
    \/ \E r \in RequestIds : Replay(r) \/ RelayPulse(r)
    \/ \E h \in Handlers : Reserve(h) \/ Refuse(h) \/ Record(h) \/ Finish(h) \/ Fault(h)
    \/ \E h \in Handlers, outcome \in Outcomes : Answer(h, outcome)
    \/ ResolveUncertain
    \/ Tick
    \/ Crash

Spec == Init /\ [][Next]_vars

----------------------------------------------------------------------------
(* Properties.                                                              *)

\* Every variable keeps its type; rows of the table are never in the future.
TypeOK ==
    /\ now \in Nat
    /\ tap \in [RequestIds -> Tap]
    /\ rows \in [RequestIds -> Row]
    /\ phase \in Phase
    /\ handler \in [Handlers -> Handler]
    /\ working \in SUBSET RequestIds
    /\ relay \in SUBSET Pulse
    /\ told \in [RequestIds -> {"none"} \cup Outcomes]
    /\ lost \in SUBSET RequestIds

\* A tap moves the door at most once, however often its request is repeated,
\* raced by a copy of itself, or cut off by a crash (requestId, replay() and
\* the unique index of remote_open_request).
OnePulsePerRequest ==
    \A p, q \in relay : p.request = q.request => p = q

\* Two taps never reach the relay closer than the cooldown less the time a
\* command may last: reserve() counts the cooldown under the lock, and from the
\* attempted row, so an order in flight already blocks the next one.
PulsesApart ==
    \A p, q \in relay :
        p # q => \/ p.at + Cooldown <= q.at + Budget
                 \/ q.at + Cooldown <= p.at + Budget

\* What the client of a tap is told is what the door did: a confirmed pulse
\* happened, and a failed one neither happened nor will (classifyTriggerError,
\* replay() of rows left half-way).
TruthfulAnswers ==
    \A r \in RequestIds :
        /\ told[r] = "triggered" => Pulsed(r)
        /\ told[r] = "failed" => ~Pulsed(r) /\ r \notin working

\* Once told, an outcome never changes, whichever of the command and its
\* replays answers first: STALE_ATTEMPT_MS is past every living command.
AnswersNeverChange ==
    [][\A r \in RequestIds : told[r] # "none" => told'[r] = told[r]]_vars

\* The step commits the attempted row of s: an order was accepted.
Accepts(s) == ~Exists(s) /\ Exists(s)'

\* The last order that may have moved the barrier.
LastPulse(r) ==
    r \in PulseRows /\ \A q \in PulseRows : rows[q].at <= rows[r].at

\* No "Open" is accepted while the barrier is up or coming down by itself after
\* a confirmed "Open" that was not cut off before its phase: with a single pulse
\* it would be a "Close" on the car of another (pulseRefusal, and advancePhase
\* racing the next reserve()).
OpenBarrierRefusesOpen ==
    [][\A r, s \in RequestIds :
        /\ Vehicular /\ Accepts(s) /\ tap[s].action = "open"
        /\ LastPulse(r) /\ rows[r].status = "triggered" /\ tap[r].action = "open"
        /\ r \notin lost
        => now >= rows[r].finished + AutoClose]_vars

\* A "Close" is accepted only in the window of a confirmed "Open", from a guest
\* only if that guest opened, and after no other pulse but those of commands
\* that were cut off: of these the phase says nothing until they are stale, and
\* nothing ever if their row was finished (pulseRefusal, effectivePhase).
CloseFollowsOwnOpen ==
    [][\A s \in RequestIds : Accepts(s) /\ tap[s].action = "close" =>
        \E r \in RequestIds :
            /\ rows[r].status = "triggered" /\ tap[r].action = "open"
            /\ now < rows[r].finished + CloseWindow
            /\ tap[s].actor \in Guests => tap[r].actor = tap[s].actor
            /\ \A q \in PulseRows : rows[q].at > rows[r].at =>
                 /\ q \in lost
                 /\ rows[q].status = "attempted" => now - rows[q].at <= Stale]_vars

\* An order that may have pulsed without confirmation, or that was left half-way
\* longer than any command lasts, and that no supervisor has released since.
Unconfirmed(r) ==
    /\ \/ rows[r].status = "uncertain" /\ r \notin lost
       \/ rows[r].status = "attempted" /\ now - rows[r].at > Stale
    /\ phase.request = r \/ phase.phase = "none" \/ phase.updatedAt < rows[r].at

\* After an unconfirmed order no pulse is accepted until a supervisor releases
\* the barrier (effectivePhase, resolveUncertain).
UnconfirmedOrderHoldsBarrier ==
    [][\A r, s \in RequestIds : Vehicular /\ Unconfirmed(r) => ~Accepts(s)]_vars

=============================================================================
