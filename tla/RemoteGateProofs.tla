-------------------------- MODULE RemoteGateProofs --------------------------
(***************************************************************************)
(* Proofs about RemoteGate, with crashes, for every value of the           *)
(* constants.  The inductive invariant says who owns a row: the handler    *)
(* that inserted it, until it writes the outcome; and what the VPS may     *)
(* still do with it.                                                       *)
(***************************************************************************)
EXTENDS RemoteGate, TLAPS

\* A handler past the reservation has the row of its request, alone.
Owners ==
    /\ \A h \in Handlers :
        /\ handler[h].stage # "idle" => handler[h].request \in RequestIds
        /\ handler[h].stage \in {"calling", "answered"}
             => rows[handler[h].request].status = "attempted"
        /\ handler[h].stage = "recorded"
             => rows[handler[h].request].status = handler[h].outcome
    /\ \A h, k \in Handlers :
        Commanding(h) /\ Commanding(k) /\ handler[h].request = handler[k].request
            => h = k

\* Rows lie in the past; those that may have pulsed are a cooldown apart.
RowsApart ==
    /\ \A r \in RequestIds : rows[r].at <= now
    /\ \A r, s \in PulseRows :
        r # s => \/ rows[r].at + Cooldown <= rows[s].at
                 \/ rows[s].at + Cooldown <= rows[r].at

\* The VPS works only on orders that are neither confirmed nor failed.
WorkingOrders ==
    /\ \A r \in working : rows[r].status \in {"attempted", "uncertain"}
    /\ \A h \in Handlers :
        handler[h].stage = "answered" /\ handler[h].outcome # "uncertain"
            => handler[h].request \notin working

\* A pulse belongs to an order that did not fail, within its budget.
RelayOrders ==
    /\ \A p \in relay :
        /\ rows[p.request].status \notin {"none", "failed"}
        /\ p.request \notin working
        /\ rows[p.request].at <= p.at /\ p.at <= now
        /\ p.at <= rows[p.request].at + Budget
    /\ \A h \in Handlers :
        handler[h].stage = "answered" /\ handler[h].outcome = "failed"
            => ~Pulsed(handler[h].request)
    /\ OnePulsePerRequest

IInv == TypeOK /\ Owners /\ RowsApart /\ WorkingOrders /\ RelayOrders

USE NoActorAssumption, NoRequestAssumption, TimingsAssumption, BudgetAssumption

LEMMA InitInv == Init => IInv
<1> SUFFICES ASSUME Init PROVE IInv OBVIOUS
<1> USE DEF Init, NoRow, Idle
<1>1. TypeOK
  BY DEF TypeOK, Row, NoPhase, Phase, Handler, Outcomes
<1>2. Owners BY DEF Owners, Commanding
<1>3. RowsApart BY DEF RowsApart, PulseRows
<1>4. WorkingOrders BY DEF WorkingOrders
<1>5. RelayOrders BY DEF RelayOrders, OnePulsePerRequest, Pulsed
<1>6. QED BY <1>1, <1>2, <1>3, <1>4, <1>5 DEF IInv

LEMMA ArriveInv ==
  ASSUME IInv, NEW h \in Handlers, NEW r \in RequestIds, Arrive(h, r)
  PROVE  IInv'
<1> USE DEF IInv, TypeOK, Arrive, Handler, Idle, Outcomes
<1>1. TypeOK'
  OBVIOUS
<1>2. Owners'
  BY DEF Owners, Commanding
<1>3. RowsApart'
  BY DEF RowsApart, PulseRows
<1>4. WorkingOrders'
  BY DEF WorkingOrders
<1>5. RelayOrders'
  BY DEF RelayOrders, OnePulsePerRequest, Pulsed
<1>6. QED BY <1>1, <1>2, <1>3, <1>4, <1>5 DEF IInv

LEMMA ReplayInv ==
  ASSUME IInv, NEW r \in RequestIds, Replay(r)
  PROVE  IInv'
<1> USE DEF IInv, TypeOK, Replay
<1>1. TypeOK'
  BY DEF EffectiveStatus, Exists, Row, Outcomes
<1>2. Owners'
  BY DEF Owners, Commanding
<1>3. RowsApart'
  BY DEF RowsApart, PulseRows
<1>4. WorkingOrders'
  BY DEF WorkingOrders
<1>5. RelayOrders'
  BY DEF RelayOrders, OnePulsePerRequest, Pulsed
<1>6. QED BY <1>1, <1>2, <1>3, <1>4, <1>5 DEF IInv

LEMMA RelayPulseInv ==
  ASSUME IInv, NEW r \in RequestIds, RelayPulse(r)
  PROVE  IInv'
<1> USE DEF IInv, TypeOK, RelayPulse
<1>1. TypeOK'
  BY DEF Pulse
<1>2. Owners'
  BY DEF Owners, Commanding
<1>3. RowsApart'
  BY DEF RowsApart, PulseRows
<1>4. WorkingOrders'
  BY DEF WorkingOrders, Owners
<1>5. RelayOrders'
  <2> DEFINE new == [request |-> r, at |-> now]
  <2>1. /\ rows[r].status \in {"attempted", "uncertain"}
        /\ rows[r].at <= now /\ now <= rows[r].at + Budget
    BY DEF WorkingOrders, RowsApart
  <2>2. \A p \in relay : p.request # r
    BY DEF RelayOrders
  <2>3. relay' = relay \cup {new} /\ new.request = r /\ new.at = now
    OBVIOUS
  <2>4. \A p \in relay' :
          /\ rows[p.request].status \notin {"none", "failed"}
          /\ p.request \notin working'
          /\ rows[p.request].at <= p.at /\ p.at <= now'
          /\ p.at <= rows[p.request].at + Budget
    BY <2>1, <2>2, <2>3 DEF RelayOrders
  <2>5. ASSUME NEW h \in Handlers, handler[h].stage = "answered",
               handler[h].outcome = "failed"
        PROVE  ~Pulsed(handler[h].request)'
    BY <2>3, <2>5 DEF RelayOrders, Pulsed, WorkingOrders
  <2>6. OnePulsePerRequest'
    BY <2>2, <2>3 DEF RelayOrders, OnePulsePerRequest
  <2>7. QED BY <2>4, <2>5, <2>6 DEF RelayOrders
<1>6. QED BY <1>1, <1>2, <1>3, <1>4, <1>5 DEF IInv

LEMMA ReserveInv ==
  ASSUME IInv, NEW h \in Handlers, Reserve(h)
  PROVE  IInv'
<1> USE DEF IInv, TypeOK, Reserve, MayReserve, Exists
<1>1. TypeOK'
  BY DEF Owners, Row, Handler
<1>2. Owners'
  <2> DEFINE r == handler[h].request
  <2>1. /\ r \in RequestIds /\ rows[r].status = "none"
        /\ rows' = [rows EXCEPT ![r] =
             [status |-> "attempted", at |-> now, finished |-> 0]]
    BY DEF Owners, Row
  <2>2. \A k \in Handlers : Commanding(k) => handler[k].request # r
    BY <2>1 DEF Owners, Commanding, Handler, Outcomes
  <2>3. \A k \in Handlers : k # h => handler'[k] = handler[k]
    OBVIOUS
  <2>4. handler'[h].stage = "calling" /\ handler'[h].request = r
    BY DEF Handler
  <2>5. QED BY <2>1, <2>2, <2>3, <2>4 DEF Owners, Commanding
<1>3. RowsApart'
  BY DEF RowsApart, PulseRows, Cooling, Owners, Row
<1>4. WorkingOrders'
  BY DEF WorkingOrders, Owners, Handler, Row, Commanding
<1>5. RelayOrders'
  BY DEF RelayOrders, OnePulsePerRequest, Pulsed, Owners, Handler, Row, Pulse
<1>6. QED BY <1>1, <1>2, <1>3, <1>4, <1>5 DEF IInv

LEMMA RefuseInv ==
  ASSUME IInv, NEW h \in Handlers, Refuse(h)
  PROVE  IInv'
<1> USE DEF IInv, TypeOK, Refuse, Idle
<1>1. TypeOK'
  BY DEF Handler, Outcomes
<1>2. Owners'
  BY DEF Owners, Commanding
<1>3. RowsApart'
  BY DEF RowsApart, PulseRows
<1>4. WorkingOrders'
  BY DEF WorkingOrders
<1>5. RelayOrders'
  BY DEF RelayOrders, OnePulsePerRequest, Pulsed
<1>6. QED BY <1>1, <1>2, <1>3, <1>4, <1>5 DEF IInv

LEMMA AnswerInv ==
  ASSUME IInv, NEW h \in Handlers, NEW outcome \in Outcomes, Answer(h, outcome)
  PROVE  IInv'
<1> USE DEF IInv, TypeOK, Answer, Handler, Outcomes
<1>1. TypeOK'
  BY DEF Owners
<1>2. Owners'
  BY DEF Owners, Commanding
<1>3. RowsApart'
  BY DEF RowsApart, PulseRows
<1>4. WorkingOrders'
  BY DEF WorkingOrders, Owners, Commanding
<1>5. RelayOrders'
  BY DEF RelayOrders, OnePulsePerRequest, Pulsed, Owners, Commanding
<1>6. QED BY <1>1, <1>2, <1>3, <1>4, <1>5 DEF IInv

LEMMA RecordInv ==
  ASSUME IInv, NEW h \in Handlers, Record(h)
  PROVE  IInv'
<1> USE DEF IInv, TypeOK, Record, Handler, Outcomes
<1>1. TypeOK'
  <2> DEFINE r == handler[h].request
  <2>1. r \in RequestIds
    BY DEF Owners
  <2>2. QED BY <2>1 DEF Row
<1>2. Owners'
  BY DEF Owners, Commanding, Row
<1>3. RowsApart'
  BY DEF RowsApart, PulseRows, Owners, Row
<1>4. WorkingOrders'
  BY DEF WorkingOrders, Owners, Row, Commanding
<1>5. RelayOrders'
  BY DEF RelayOrders, OnePulsePerRequest, Pulsed, Owners, Row, Commanding, Pulse, WorkingOrders
<1>6. QED BY <1>1, <1>2, <1>3, <1>4, <1>5 DEF IInv

LEMMA FinishInv ==
  ASSUME IInv, NEW h \in Handlers, Finish(h)
  PROVE  IInv'
<1> USE DEF IInv, TypeOK, Finish, Idle
<1>1. TypeOK'
  BY DEF Owners, PhaseAfter, Phase, Tap, Actors, Handler, Outcomes
<1>2. Owners'
  BY DEF Owners, Commanding
<1>3. RowsApart'
  BY DEF RowsApart, PulseRows
<1>4. WorkingOrders'
  BY DEF WorkingOrders
<1>5. RelayOrders'
  BY DEF RelayOrders, OnePulsePerRequest, Pulsed
<1>6. QED BY <1>1, <1>2, <1>3, <1>4, <1>5 DEF IInv

LEMMA FaultInv ==
  ASSUME IInv, NEW h \in Handlers, Fault(h)
  PROVE  IInv'
<1> USE DEF IInv, TypeOK, Fault, Idle
<1>1. TypeOK'
  BY DEF Owners, Handler, Outcomes
<1>2. Owners'
  BY DEF Owners, Commanding
<1>3. RowsApart'
  BY DEF RowsApart, PulseRows
<1>4. WorkingOrders'
  BY DEF WorkingOrders
<1>5. RelayOrders'
  BY DEF RelayOrders, OnePulsePerRequest, Pulsed
<1>6. QED BY <1>1, <1>2, <1>3, <1>4, <1>5 DEF IInv

LEMMA RestInv ==
  ASSUME IInv, ResolveUncertain \/ Tick \/ Crash \/ UNCHANGED vars
  PROVE  IInv'
<1> USE DEF IInv, TypeOK, ResolveUncertain, Tick, Crash, vars, Idle
<1>1. TypeOK'
  BY DEF Phase, Handler, Outcomes, Owners, Commanding
<1>2. Owners'
  BY DEF Owners, Commanding
<1>3. RowsApart'
  BY DEF RowsApart, PulseRows, Row
<1>4. WorkingOrders'
  BY DEF WorkingOrders
<1>5. RelayOrders'
  <2>1. rows' = rows /\ working' = working /\ relay' = relay /\ now <= now'
    OBVIOUS
  <2>2. \A h \in Handlers : handler'[h] = handler[h] \/ handler'[h].stage = "idle"
    OBVIOUS
  <2>3. \A p \in relay : p.at <= now'
    BY <2>1 DEF RelayOrders, Pulse
  <2>4. QED BY <2>1, <2>2, <2>3 DEF RelayOrders, OnePulsePerRequest, Pulsed
<1>6. QED BY <1>1, <1>2, <1>3, <1>4, <1>5 DEF IInv

LEMMA StepInv == IInv /\ [Next]_vars => IInv'
<1> SUFFICES ASSUME IInv, [Next]_vars PROVE IInv'
  OBVIOUS
<1>1. CASE \E h \in Handlers, r \in RequestIds : Arrive(h, r)
  BY <1>1, ArriveInv
<1>2. CASE \E r \in RequestIds : Replay(r) \/ RelayPulse(r)
  BY <1>2, ReplayInv, RelayPulseInv
<1>3. CASE \E h \in Handlers :
           Reserve(h) \/ Refuse(h) \/ Record(h) \/ Finish(h) \/ Fault(h)
  BY <1>3, ReserveInv, RefuseInv, RecordInv, FinishInv, FaultInv
<1>4. CASE \E h \in Handlers, outcome \in Outcomes : Answer(h, outcome)
  BY <1>4, AnswerInv
<1>5. CASE ResolveUncertain \/ Tick \/ Crash \/ UNCHANGED vars
  BY <1>5, RestInv
<1>6. QED BY <1>1, <1>2, <1>3, <1>4, <1>5 DEF Next

LEMMA Invariance == Spec => []IInv
  BY InitInv, StepInv, PTL DEF Spec

\* Types hold along every behaviour, crashes included.
THEOREM TypeCorrect == Spec => []TypeOK
<1>1. IInv => TypeOK BY DEF IInv
<1>2. QED BY <1>1, Invariance, PTL

\* Requests repeated, raced and cut off by crashes pulse the relay once.
THEOREM PulseOnce == Spec => []OnePulsePerRequest
<1>1. IInv => OnePulsePerRequest BY DEF IInv, RelayOrders
<1>2. QED BY <1>1, Invariance, PTL

LEMMA ApartInv == IInv => PulsesApart
<1> SUFFICES ASSUME IInv, NEW p \in relay, NEW q \in relay, p # q
             PROVE  \/ p.at + Cooldown <= q.at + Budget
                    \/ q.at + Cooldown <= p.at + Budget
  BY DEF PulsesApart
<1>1. p.request # q.request
  BY DEF IInv, RelayOrders, OnePulsePerRequest
<1>2. p.request \in PulseRows /\ q.request \in PulseRows
  BY DEF IInv, TypeOK, RelayOrders, PulseRows, Pulse
<1>3. QED BY <1>1, <1>2 DEF IInv, TypeOK, RelayOrders, RowsApart, Pulse, PulseRows, Row

\* Two pulses of the relay are never closer than the cooldown less the budget.
THEOREM PulsesStayApart == Spec => []PulsesApart
<1>1. QED BY ApartInv, Invariance, PTL

----------------------------------------------------------------------------
(* What clients are told, and what the phase of the barrier knows.          *)

\* A command that is alive is within its budget.
Living ==
    \A h \in Handlers : Commanding(h) => now <= rows[handler[h].request].at + Budget

\* The outcome a handler carries was obtained while its command was alive, and
\* a confirmed one is of a pulse that happened.
HandlerTimely(h) ==
    /\ handler[h].stage \in {"answered", "recorded"}
         => /\ rows[handler[h].request].at <= handler[h].at
            /\ handler[h].at <= now
            /\ handler[h].at <= rows[handler[h].request].at + Budget
    /\ handler[h].stage = "recorded"
         => rows[handler[h].request].finished = handler[h].at
    /\ handler[h].stage = "answered" /\ handler[h].outcome = "triggered"
         => Pulsed(handler[h].request)
    /\ handler[h].stage # "idle" /\ ~Vehicular
         => tap[handler[h].request].action = "open"

\* The same of the outcome a row keeps.
RowTimely(r) ==
    /\ rows[r].status \in Outcomes
         => /\ rows[r].at <= rows[r].finished
            /\ rows[r].finished <= now
            /\ rows[r].finished <= rows[r].at + Budget
    /\ rows[r].status = "triggered" => Pulsed(r)

Timely ==
    /\ \A h \in Handlers : HandlerTimely(h)
    /\ \A r \in RequestIds : RowTimely(r)

\* An order that nobody commands any more and that will never have an outcome.
Dead(r) == rows[r].status = "attempted" /\ now - rows[r].at > Stale

\* Clients were told what the row says, or that a dead order is uncertain.
Told ==
    \A r \in RequestIds :
        told[r] # "none" =>
            rows[r].status = told[r] \/ (told[r] = "uncertain" /\ Dead(r))

\* The phase that an order wrote says what the row of that order says.
PhaseOfRow ==
    /\ phase.phase # "none" => phase.updatedAt <= now
    /\ phase.request = NoRequest => phase.phase \in {"none", "ready"}
    /\ \A r \in RequestIds : phase.request = r =>
        /\ rows[r].status \in {"triggered", "uncertain"}
        /\ phase.phase = "uncertain" <=> rows[r].status = "uncertain"
        /\ phase.phase = "open"
             <=> rows[r].status = "triggered" /\ tap[r].action = "open"
        /\ phase.phase # "none"
        /\ phase.pulsedAt = rows[r].finished
        /\ phase.updatedAt = rows[r].finished
        /\ phase.phase = "open" => phase.openedBy = tap[r].actor

\* Another order reserved after r has ended, or is dead.
Overtaken(r) ==
    \E q \in RequestIds :
        /\ rows[q].at > rows[r].at
        /\ rows[q].status \in {"triggered", "uncertain"} \/ Dead(q)

\* The phase is the one r wrote, or has been written since.
Heard(r) ==
    \/ phase.request = r
    \/ /\ phase.phase # "none"
       /\ phase.updatedAt >= rows[r].at
       /\ rows[r].status = "triggered" => Overtaken(r)

Commanded(r) == \E h \in Handlers : Commanding(h) /\ handler[h].request = r

\* Of an order that may have pulsed the phase has heard, unless its command is
\* under way or was cut off.
Accounted ==
    Vehicular =>
        \A r \in PulseRows :
            \/ r \in lost
            \/ Commanded(r)
            \/ rows[r].status # "attempted" /\ Heard(r)

Answers == Living /\ Timely /\ Told /\ PhaseOfRow /\ Accounted

LEMMA InitAnswers == Init => Answers
<1> SUFFICES ASSUME Init PROVE Answers OBVIOUS
<1> USE DEF Init, NoRow, Idle, NoPhase
<1>1. Living BY DEF Living, Commanding
<1>2. Timely BY DEF Timely, HandlerTimely, RowTimely, Outcomes
<1>3. Told BY DEF Told
<1>4. PhaseOfRow BY DEF PhaseOfRow
<1>5. Accounted BY DEF Accounted, PulseRows
<1>6. QED BY <1>1, <1>2, <1>3, <1>4, <1>5 DEF Answers

LEMMA ArriveAnswers ==
  ASSUME IInv, Answers, NEW h \in Handlers, NEW r \in RequestIds, Arrive(h, r)
  PROVE  Answers'
<1> USE DEF IInv, TypeOK, Answers, Arrive, Handler, Idle, Outcomes
<1>1. Living'
  BY DEF Living, Commanding
<1>2. Timely'
  BY DEF Timely, HandlerTimely, RowTimely, Pulsed, Actions, Tap
<1>3. Told'
  BY DEF Told, Dead
<1>4. PhaseOfRow'
  BY DEF PhaseOfRow
<1>5. Accounted'
  BY DEF Accounted, Commanded, Commanding, PulseRows, Heard, Overtaken, Dead
<1>6. QED BY <1>1, <1>2, <1>3, <1>4, <1>5 DEF Answers

LEMMA ReplayAnswers ==
  ASSUME IInv, Answers, NEW r \in RequestIds, Replay(r)
  PROVE  Answers'
<1> USE DEF IInv, TypeOK, Answers, Replay
<1>1. Living'
  BY DEF Living, Commanding
<1>2. Timely'
  BY DEF Timely, HandlerTimely, RowTimely, Pulsed
<1>3. Told'
  BY DEF Told, Dead, EffectiveStatus, Exists
<1>4. PhaseOfRow'
  BY DEF PhaseOfRow
<1>5. Accounted'
  BY DEF Accounted, Commanded, Commanding, PulseRows, Heard, Overtaken, Dead
<1>6. QED BY <1>1, <1>2, <1>3, <1>4, <1>5 DEF Answers

LEMMA RelayPulseAnswers ==
  ASSUME IInv, Answers, NEW r \in RequestIds, RelayPulse(r)
  PROVE  Answers'
<1> USE DEF IInv, TypeOK, Answers, RelayPulse
<1>1. Living'
  BY DEF Living, Commanding
<1>2. Timely'
  BY DEF Timely, HandlerTimely, RowTimely, Pulsed
<1>3. Told'
  BY DEF Told, Dead
<1>4. PhaseOfRow'
  BY DEF PhaseOfRow
<1>5. Accounted'
  BY DEF Accounted, Commanded, Commanding, PulseRows, Heard, Overtaken, Dead
<1>6. QED BY <1>1, <1>2, <1>3, <1>4, <1>5 DEF Answers

LEMMA ReserveAnswers ==
  ASSUME IInv, Answers, NEW h \in Handlers, Reserve(h)
  PROVE  Answers'
<1> DEFINE s == handler[h].request
<1>1. /\ s \in RequestIds /\ rows[s].status = "none" /\ handler[h].stage = "checked"
      /\ rows' = [rows EXCEPT ![s] =
           [status |-> "attempted", at |-> now, finished |-> 0]]
      /\ handler' = [handler EXCEPT ![h].stage = "calling"]
      /\ UNCHANGED <<now, tap, phase, relay, told, lost>>
  BY DEF IInv, TypeOK, Owners, Reserve, MayReserve, Exists, Row
<1>2. \A r \in RequestIds : r # s => rows'[r] = rows[r]
  BY <1>1 DEF IInv, TypeOK
<1>3. rows'[s] = [status |-> "attempted", at |-> now, finished |-> 0]
  BY <1>1 DEF IInv, TypeOK
<1>4. \A k \in Handlers : k # h => handler'[k] = handler[k]
  BY <1>1 DEF IInv, TypeOK
<1>5. handler'[h].stage = "calling" /\ handler'[h].request = s
  BY <1>1 DEF IInv, TypeOK, Handler
<1>6. \A k \in Handlers :
        Commanding(k) => handler[k].request # s /\ handler[k].request \in RequestIds
  BY <1>1 DEF IInv, TypeOK, Owners, Commanding, Handler, Outcomes
<1> HIDE DEF s
<1>7. Living'
  BY <1>1, <1>2, <1>3, <1>4, <1>5, <1>6 DEF Answers, Living, Commanding, IInv, TypeOK
<1>8. Timely'
  <2>1. \A k \in Handlers : handler'[k].stage \in {"answered", "recorded"}
          => k # h /\ Commanding(k)
    BY <1>4, <1>5 DEF Commanding
  <2>2. \A k \in Handlers : handler'[k].request = handler[k].request
    BY <1>1, <1>4, <1>5 DEF IInv, TypeOK, s
  <2>3. \A k \in Handlers : handler'[k].stage # "idle" => handler[k].stage # "idle"
    BY <1>1, <1>4, <1>5
  <2>4. QED
    BY <1>1, <1>2, <1>3, <1>4, <1>6, <2>1, <2>2, <2>3
       DEF Answers, Timely, HandlerTimely, RowTimely, Pulsed, Outcomes
<1>9. Told'
  BY <1>1, <1>2, <1>3 DEF Answers, Told, Dead, IInv, TypeOK, Outcomes
<1>10. PhaseOfRow'
  BY <1>1, <1>2, <1>3 DEF Answers, PhaseOfRow
<1>11. Accounted'
  <2> SUFFICES ASSUME Vehicular, NEW r \in PulseRows'
               PROVE  \/ r \in lost'
                      \/ Commanded(r)'
                      \/ rows'[r].status # "attempted" /\ Heard(r)'
    BY DEF Accounted
  <2>1. CASE r = s
    BY <2>1, <1>5 DEF Commanded, Commanding
  <2>2. CASE r # s
    <3>1. r \in PulseRows /\ rows'[r] = rows[r]
      BY <2>2, <1>2 DEF PulseRows
    <3>2. Commanded(r) => Commanded(r)'
      <4>1. \A k \in Handlers : Commanding(k) => k # h
        BY <1>1 DEF Commanding
      <4>2. QED BY <4>1, <1>4 DEF Commanded, Commanding
    <3>3. Heard(r) => Heard(r)'
      <4>1. Overtaken(r) => Overtaken(r)'
        BY <1>1, <1>2, <3>1 DEF Overtaken, Dead
      <4>2. QED BY <4>1, <3>1, <1>1 DEF Heard
    <3>4. QED BY <3>1, <3>2, <3>3, <1>1 DEF Answers, Accounted
  <2>3. QED BY <2>1, <2>2
<1>12. QED BY <1>7, <1>8, <1>9, <1>10, <1>11 DEF Answers

LEMMA RefuseAnswers ==
  ASSUME IInv, Answers, NEW h \in Handlers, Refuse(h)
  PROVE  Answers'
<1> USE DEF IInv, TypeOK, Answers, Refuse, Idle
<1>1. Living'
  BY DEF Living, Commanding
<1>2. Timely'
  BY DEF Timely, HandlerTimely, RowTimely, Pulsed
<1>3. Told'
  BY DEF Told, Dead
<1>4. PhaseOfRow'
  BY DEF PhaseOfRow
<1>5. Accounted'
  BY DEF Accounted, Commanded, Commanding, PulseRows, Heard, Overtaken, Dead
<1>6. QED BY <1>1, <1>2, <1>3, <1>4, <1>5 DEF Answers

LEMMA AnswerAnswers ==
  ASSUME IInv, Answers, NEW h \in Handlers, NEW outcome \in Outcomes, Answer(h, outcome)
  PROVE  Answers'
<1> DEFINE s == handler[h].request
<1>1. /\ s \in RequestIds /\ handler[h].stage = "calling"
      /\ rows[s].status = "attempted"
      /\ outcome = "triggered" => Pulsed(s)
      /\ handler' = [handler EXCEPT ![h] =
           [stage |-> "answered", request |-> s, outcome |-> outcome, at |-> now]]
      /\ UNCHANGED <<now, tap, rows, phase, relay, told, lost>>
  BY DEF IInv, TypeOK, Owners, Answer
<1>2. handler'[h] = [stage |-> "answered", request |-> s, outcome |-> outcome, at |-> now]
  BY <1>1 DEF IInv, TypeOK
<1>3. \A k \in Handlers : k # h => handler'[k] = handler[k]
  BY <1>1 DEF IInv, TypeOK
<1>4. \A k \in Handlers : /\ handler'[k].request = handler[k].request
                          /\ Commanding(k)' <=> Commanding(k)
  BY <1>1, <1>2, <1>3 DEF Commanding, s
<1>5. rows[s].at <= now /\ now <= rows[s].at + Budget
  BY <1>1 DEF Answers, Living, IInv, RowsApart, Commanding, s
<1>6. Living'
  BY <1>1, <1>4 DEF Answers, Living
<1>7. Timely'
  <2> HIDE DEF s
  <2>1. ~Vehicular => tap[s].action = "open"
    BY <1>1 DEF Answers, Timely, HandlerTimely, s
  <2>2. \A r \in RequestIds : Pulsed(r)' <=> Pulsed(r)
    BY <1>1 DEF Pulsed
  <2>3. HandlerTimely(h)'
    BY <1>1, <1>2, <1>5, <2>1, <2>2 DEF HandlerTimely, IInv, TypeOK
  <2>4. ASSUME NEW k \in Handlers, k # h PROVE HandlerTimely(k)'
    <3>1. HandlerTimely(k) BY DEF Answers, Timely
    <3>2. QED BY <1>1, <1>3, <2>4, <3>1 DEF HandlerTimely, Pulsed
  <2>5. ASSUME NEW r \in RequestIds PROVE RowTimely(r)'
    <3>1. RowTimely(r) BY DEF Answers, Timely
    <3>2. QED BY <1>1, <2>2, <3>1 DEF RowTimely
  <2>6. QED BY <2>3, <2>4, <2>5 DEF Timely
<1>8. Told'
  BY <1>1 DEF Answers, Told, Dead
<1>9. PhaseOfRow'
  BY <1>1 DEF Answers, PhaseOfRow
<1>10. Accounted'
  BY <1>1, <1>4 DEF Answers, Accounted, Commanded, PulseRows, Heard, Overtaken, Dead
<1>11. QED BY <1>6, <1>7, <1>8, <1>9, <1>10 DEF Answers

LEMMA RecordAnswers ==
  ASSUME IInv, Answers, NEW h \in Handlers, Record(h)
  PROVE  Answers'
<1> DEFINE s == handler[h].request
           row == [status |-> handler[h].outcome, at |-> rows[s].at,
                   finished |-> handler[h].at]
<1>1. /\ s \in RequestIds /\ handler[h].stage = "answered"
      /\ rows[s].status = "attempted"
      /\ rows' = [rows EXCEPT ![s] = row]
      /\ handler' = [handler EXCEPT ![h].stage = "recorded"]
      /\ UNCHANGED <<now, tap, phase, working, relay, told, lost>>
  BY DEF IInv, TypeOK, Owners, Record
<1>2. rows'[s] = row /\ \A r \in RequestIds : r # s => rows'[r] = rows[r]
  BY <1>1 DEF IInv, TypeOK
<1>3. \A k \in Handlers : k # h => handler'[k] = handler[k]
  BY <1>1 DEF IInv, TypeOK
<1>4. handler'[h] = [handler[h] EXCEPT !.stage = "recorded"]
  BY <1>1 DEF IInv, TypeOK
<1>5. handler'[h].stage = "recorded" /\ handler'[h].request = s
      /\ handler'[h].at = handler[h].at /\ handler'[h].outcome = handler[h].outcome
  BY <1>4 DEF IInv, TypeOK, Handler
<1>6. \A k \in Handlers : /\ handler'[k].request = handler[k].request
                          /\ Commanding(k)' <=> Commanding(k)
  BY <1>1, <1>3, <1>5 DEF Commanding
<1>7. /\ handler[h].outcome \in Outcomes
      /\ \A k \in Handlers : k # h /\ Commanding(k) => handler[k].request # s
  BY <1>1 DEF IInv, TypeOK, Handler, Owners, Commanding
<1>8. /\ rows[s].at <= handler[h].at /\ handler[h].at <= now
      /\ handler[h].at <= rows[s].at + Budget
      /\ handler[h].outcome = "triggered" => Pulsed(s)
  BY <1>1 DEF Answers, Timely, HandlerTimely, RowTimely
<1>9. \A r \in RequestIds : rows'[r].at = rows[r].at
  BY <1>2
<1>10. ~Dead(s)
  <2>1. now <= rows[s].at + Budget
    BY <1>1 DEF Answers, Living, Commanding
  <2>2. now \in Int /\ rows[s].at \in Int
    BY <1>1 DEF IInv, TypeOK, Row
  <2>3. QED BY <2>1, <2>2 DEF Dead
<1>11. ASSUME NEW r \in RequestIds, Dead(r) PROVE Dead(r)'
  BY <1>1, <1>2, <1>10, <1>11 DEF Dead
<1> HIDE DEF s
<1>12. Living'
  BY <1>1, <1>6, <1>9 DEF Answers, Living, IInv, Owners, Commanding
<1>13. Timely'
  <2>1. HandlerTimely(h)'
    <3>1. handler[h].stage # "idle" /\ ~Vehicular => tap[s].action = "open"
      BY DEF Answers, Timely, HandlerTimely, s
    <3>2. QED BY <3>1, <1>1, <1>2, <1>5, <1>8 DEF HandlerTimely
  <2>2. ASSUME NEW k \in Handlers, k # h PROVE HandlerTimely(k)'
    <3>1. handler'[k] = handler[k] /\ HandlerTimely(k)
      BY <2>2, <1>3 DEF Answers, Timely
    <3>2. handler[k].stage \in {"answered", "recorded"}
            => rows'[handler[k].request] = rows[handler[k].request]
      BY <2>2, <1>2, <1>7 DEF Commanding, IInv, Owners
    <3>3. QED BY <3>1, <3>2, <1>1 DEF HandlerTimely, Pulsed
  <2>3. ASSUME NEW r \in RequestIds PROVE RowTimely(r)'
    <3>1. RowTimely(r) BY DEF Answers, Timely
    <3>2. QED BY <3>1, <1>1, <1>2, <1>8 DEF RowTimely, Pulsed
  <2>4. QED BY <2>1, <2>2, <2>3 DEF Timely
<1>14. Told'
  <2> SUFFICES ASSUME NEW r \in RequestIds, told[r] # "none"
               PROVE  \/ rows'[r].status = told[r]
                      \/ told[r] = "uncertain" /\ Dead(r)'
    BY <1>1 DEF Told
  <2>1. rows[r].status = told[r] \/ (told[r] = "uncertain" /\ Dead(r))
    BY DEF Answers, Told
  <2>2. r # s
    BY <2>1, <1>1, <1>10 DEF IInv, TypeOK, Outcomes
  <2>3. QED BY <2>1, <2>2, <1>2, <1>11
<1>15. PhaseOfRow'
  BY <1>1, <1>2 DEF Answers, PhaseOfRow
<1>16. Accounted'
  <2> SUFFICES ASSUME Vehicular, NEW r \in PulseRows'
               PROVE  \/ r \in lost'
                      \/ Commanded(r)'
                      \/ rows'[r].status # "attempted" /\ Heard(r)'
    BY DEF Accounted
  <2>1. CASE r = s
    BY <2>1, <1>5 DEF Commanded, Commanding
  <2>2. CASE r # s
    <3>1. r \in PulseRows /\ rows'[r] = rows[r]
      BY <2>2, <1>2 DEF PulseRows
    <3>2. Commanded(r) => Commanded(r)'
      BY <1>6 DEF Commanded
    <3>3. Heard(r) => Heard(r)'
      <4>1. r \in RequestIds BY <3>1 DEF PulseRows
      <4>2. ASSUME NEW q \in RequestIds,
                   rows[q].status \in {"triggered", "uncertain"} \/ Dead(q)
            PROVE  rows'[q].status \in {"triggered", "uncertain"} \/ Dead(q)'
        BY <4>2, <1>1, <1>2, <1>11
      <4>3. Overtaken(r) => Overtaken(r)'
        BY <4>1, <4>2, <1>9 DEF Overtaken
      <4>4. QED BY <4>3, <3>1, <1>1 DEF Heard
    <3>4. QED BY <3>1, <3>2, <3>3, <1>1 DEF Answers, Accounted
  <2>3. QED BY <2>1, <2>2
<1>17. QED BY <1>12, <1>13, <1>14, <1>15, <1>16 DEF Answers

LEMMA FinishAnswers ==
  ASSUME IInv, Answers, NEW h \in Handlers, Finish(h)
  PROVE  Answers'
<1> DEFINE s == handler[h].request
<1>1. /\ s \in RequestIds /\ handler[h].stage = "recorded"
      /\ rows[s].status = handler[h].outcome /\ handler[h].outcome \in Outcomes
      /\ phase' = IF Vehicular /\ handler[h].outcome # "failed"
                  THEN PhaseAfter(h) ELSE phase
      /\ told' = [told EXCEPT ![s] = handler[h].outcome]
      /\ handler' = [handler EXCEPT ![h] = Idle]
      /\ UNCHANGED <<now, tap, rows, working, relay, lost>>
  BY DEF IInv, TypeOK, Owners, Finish, Handler
<1>2. handler'[h] = Idle /\ \A k \in Handlers : k # h => handler'[k] = handler[k]
  BY <1>1 DEF IInv, TypeOK
<1>3. /\ rows[s].at <= handler[h].at /\ handler[h].at <= now
      /\ now <= rows[s].at + Budget /\ rows[s].finished = handler[h].at
      /\ now \in Int /\ rows[s].at \in Int /\ handler[h].at \in Int
  BY <1>1 DEF Answers, Timely, HandlerTimely, Living, Commanding, IInv, TypeOK, Row,
              Handler
<1>4. Living'
  BY <1>1, <1>2 DEF Answers, Living, Commanding, Idle
<1>5. Timely'
  <2>1. ASSUME NEW k \in Handlers PROVE HandlerTimely(k)'
    <3>1. HandlerTimely(k) BY DEF Answers, Timely
    <3>2. QED BY <1>1, <1>2, <3>1 DEF HandlerTimely, Pulsed, Idle
  <2>2. ASSUME NEW r \in RequestIds PROVE RowTimely(r)'
    <3>1. RowTimely(r) BY DEF Answers, Timely
    <3>2. QED BY <1>1, <3>1 DEF RowTimely, Pulsed
  <2>3. QED BY <2>1, <2>2 DEF Timely
<1>6. Told'
  BY <1>1 DEF Answers, Told, Dead, IInv, TypeOK
<1>7. PhaseOfRow'
  <2>1. CASE phase' = phase
    BY <2>1, <1>1 DEF Answers, PhaseOfRow
  <2>2. CASE phase' = PhaseAfter(h) /\ handler[h].outcome # "failed"
    <3>1. /\ phase'.request = s /\ phase'.pulsedAt = handler[h].at
          /\ phase'.updatedAt = handler[h].at
          /\ phase'.phase = "uncertain" <=> handler[h].outcome = "uncertain"
          /\ phase'.phase = "open"
               <=> handler[h].outcome = "triggered" /\ tap[s].action = "open"
          /\ phase'.phase # "none"
          /\ phase'.phase = "open" => phase'.openedBy = tap[s].actor
      BY <2>2 DEF PhaseAfter
    <3>2. s # NoRequest
      BY <1>1
    <3>3. QED BY <3>1, <3>2, <2>2, <1>1, <1>3 DEF PhaseOfRow, Outcomes
  <2>3. QED BY <2>1, <2>2, <1>1
<1>8. Accounted'
  <2> SUFFICES ASSUME Vehicular, NEW r \in PulseRows
               PROVE  \/ r \in lost
                      \/ Commanded(r)'
                      \/ rows[r].status # "attempted" /\ Heard(r)'
    BY <1>1 DEF Accounted, PulseRows
  <2>1. r \in RequestIds /\ rows[r].at \in Int
    BY DEF PulseRows, IInv, TypeOK, Row
  <2>2. CASE r = s
    <3>1. rows[r].status # "attempted" /\ phase' = PhaseAfter(h)
      BY <2>2, <1>1 DEF PulseRows, Outcomes
    <3>2. QED BY <3>1, <2>2 DEF Heard, PhaseAfter
  <2>3. CASE r # s
    <3>1. Commanded(r) => Commanded(r)'
      BY <2>3, <1>2 DEF Commanded, Commanding
    <3>2. ASSUME Heard(r) PROVE Heard(r)'
      <4>1. CASE phase' = phase
        BY <4>1, <3>2, <1>1 DEF Heard, Overtaken, Dead
      <4>2. CASE phase' = PhaseAfter(h) /\ handler[h].outcome # "failed"
        <5>1. s \in PulseRows /\ rows[s].status \in {"triggered", "uncertain"}
          BY <4>2, <1>1 DEF PulseRows, Outcomes
        <5>2. rows[r].at < rows[s].at
          <6>1. rows[r].at <= now
            BY <2>1 DEF IInv, RowsApart
          <6>2. \/ rows[r].at + Cooldown <= rows[s].at
                \/ rows[s].at + Cooldown <= rows[r].at
            BY <2>3, <5>1 DEF IInv, RowsApart
          <6>3. QED BY <6>1, <6>2, <1>3, <2>1
        <5>3. Overtaken(r)'
          BY <5>1, <5>2, <1>1 DEF Overtaken
        <5>4. phase'.phase # "none" /\ phase'.updatedAt = handler[h].at
          BY <4>2 DEF PhaseAfter
        <5>5. QED BY <5>2, <5>3, <5>4, <1>1, <1>3, <2>1 DEF Heard
      <4>3. QED BY <4>1, <4>2, <1>1
    <3>3. QED BY <3>1, <3>2 DEF Answers, Accounted
  <2>4. QED BY <2>2, <2>3
<1>9. QED BY <1>4, <1>5, <1>6, <1>7, <1>8 DEF Answers

LEMMA FaultAnswers ==
  ASSUME IInv, Answers, NEW h \in Handlers, Fault(h)
  PROVE  Answers'
<1> USE DEF IInv, TypeOK, Answers, Fault, Idle
<1>1. Living'
  BY DEF Living, Commanding
<1>2. Timely'
  BY DEF Timely, HandlerTimely, RowTimely, Pulsed
<1>3. Told'
  BY DEF Told, Dead
<1>4. PhaseOfRow'
  BY DEF PhaseOfRow
<1>5. Accounted'
  BY DEF Accounted, Commanded, Commanding, PulseRows, Heard, Overtaken, Dead
<1>6. QED BY <1>1, <1>2, <1>3, <1>4, <1>5 DEF Answers

LEMMA ResolveAnswers ==
  ASSUME IInv, Answers, ResolveUncertain
  PROVE  Answers'
<1>1. /\ EffectivePhase = "uncertain" /\ now \in Int
      /\ phase'.phase = "ready" /\ phase'.request = NoRequest
      /\ phase'.updatedAt = now
      /\ UNCHANGED <<now, tap, rows, handler, working, relay, told, lost>>
  BY DEF ResolveUncertain, IInv, TypeOK
<1>2. Living'
  BY <1>1 DEF Answers, Living, Commanding
<1>3. Timely'
  BY <1>1 DEF Answers, Timely, HandlerTimely, RowTimely, Pulsed
<1>4. Told'
  BY <1>1 DEF Answers, Told, Dead
<1>5. PhaseOfRow'
  BY <1>1 DEF PhaseOfRow
<1>6. Accounted'
  <2> SUFFICES ASSUME NEW r \in PulseRows, Heard(r) PROVE Heard(r)'
    BY <1>1 DEF Answers, Accounted, Commanded, Commanding, PulseRows
  <2>1. r \in RequestIds /\ rows[r].at \in Int /\ rows[r].at <= now
    BY DEF PulseRows, IInv, TypeOK, Row, RowsApart
  <2>2. ASSUME rows[r].status = "triggered" PROVE Overtaken(r)
    <3>1. CASE phase.request = r
      <4>1. /\ phase.phase \notin {"none", "uncertain"}
            /\ rows[r].at <= phase.updatedAt
        BY <3>1, <2>1, <2>2 DEF Answers, PhaseOfRow, Timely, RowTimely, Outcomes
      <4>2. PICK q \in RequestIds :
              /\ rows[q].status = "attempted" /\ now - rows[q].at > Stale
              /\ rows[q].at > phase.updatedAt
        BY <4>1, <1>1 DEF EffectivePhase, StaleAttempt
      <4>3. rows[q].at > rows[r].at
        BY <4>1, <4>2, <2>1 DEF IInv, TypeOK, Row, Phase
      <4>4. QED BY <4>2, <4>3 DEF Overtaken, Dead
    <3>2. CASE phase.request # r
      BY <3>2, <2>2 DEF Heard
    <3>3. QED BY <3>1, <3>2
  <2>3. QED BY <1>1, <2>1, <2>2 DEF Heard, Overtaken, Dead
<1>7. QED BY <1>2, <1>3, <1>4, <1>5, <1>6 DEF Answers

LEMMA TickAnswers ==
  ASSUME IInv, Answers, Tick
  PROVE  Answers'
<1>1. /\ now' = now + 1 /\ now \in Int
      /\ UNCHANGED <<tap, rows, phase, handler, working, relay, told, lost>>
  BY DEF Tick, IInv, TypeOK
<1>2. \A r \in RequestIds : rows[r].at \in Int /\ rows[r].finished \in Int
  BY DEF IInv, TypeOK, Row
<1>3. \A r \in RequestIds : Dead(r) => Dead(r)'
  BY <1>1, <1>2 DEF Dead
<1>4. Living'
  BY <1>1, <1>2 DEF Living, Commanding, Tick, IInv, Owners
<1>5. Timely'
  BY <1>1, <1>2 DEF Answers, Timely, HandlerTimely, RowTimely, Pulsed, IInv, TypeOK,
                    Handler
<1>6. Told'
  BY <1>1, <1>3 DEF Answers, Told
<1>7. PhaseOfRow'
  BY <1>1 DEF Answers, PhaseOfRow, IInv, TypeOK, Phase
<1>8. Accounted'
  <2>1. \A r \in RequestIds : Overtaken(r) => Overtaken(r)'
    BY <1>1, <1>3 DEF Overtaken
  <2>2. QED BY <1>1, <2>1 DEF Answers, Accounted, Commanded, Commanding, PulseRows, Heard
<1>9. QED BY <1>4, <1>5, <1>6, <1>7, <1>8 DEF Answers

LEMMA CrashAnswers ==
  ASSUME IInv, Answers, Crash \/ UNCHANGED vars
  PROVE  Answers'
<1> USE DEF Answers, Crash, vars, Idle
<1>1. Living'
  BY DEF Living, Commanding
<1>2. Timely'
  BY DEF Timely, HandlerTimely, RowTimely, Pulsed
<1>3. Told'
  BY DEF Told, Dead
<1>4. PhaseOfRow'
  BY DEF PhaseOfRow
<1>5. Accounted'
  BY DEF Accounted, Commanded, Commanding, PulseRows, Heard, Overtaken, Dead
<1>6. QED BY <1>1, <1>2, <1>3, <1>4, <1>5 DEF Answers

LEMMA StepAnswers == IInv /\ Answers /\ [Next]_vars => Answers'
<1> SUFFICES ASSUME IInv, Answers, [Next]_vars PROVE Answers'
  OBVIOUS
<1>1. CASE \E h \in Handlers, r \in RequestIds : Arrive(h, r)
  BY <1>1, ArriveAnswers
<1>2. CASE \E r \in RequestIds : Replay(r) \/ RelayPulse(r)
  BY <1>2, ReplayAnswers, RelayPulseAnswers
<1>3. CASE \E h \in Handlers :
           Reserve(h) \/ Refuse(h) \/ Record(h) \/ Finish(h) \/ Fault(h)
  BY <1>3, ReserveAnswers, RefuseAnswers, RecordAnswers, FinishAnswers, FaultAnswers
<1>4. CASE \E h \in Handlers, outcome \in Outcomes : Answer(h, outcome)
  BY <1>4, AnswerAnswers
<1>5. CASE ResolveUncertain \/ Tick \/ Crash \/ UNCHANGED vars
  BY <1>5, ResolveAnswers, TickAnswers, CrashAnswers
<1>6. QED BY <1>1, <1>2, <1>3, <1>4, <1>5 DEF Next

LEMMA AnswersInvariance == Spec => [](IInv /\ Answers)
<1>1. Init => IInv /\ Answers
  BY InitInv, InitAnswers
<1>2. IInv /\ Answers /\ [Next]_vars => (IInv /\ Answers)'
  BY StepInv, StepAnswers
<1>3. QED BY <1>1, <1>2, PTL DEF Spec

\* A client is told what the door did: confirmed pulses happened, failed ones
\* neither happened nor will, whatever was raced, repeated or cut off.
THEOREM AnswersTruthful == Spec => []TruthfulAnswers
<1>1. IInv /\ Answers => TruthfulAnswers
  <2> SUFFICES ASSUME IInv, Answers, NEW r \in RequestIds
               PROVE  /\ told[r] = "triggered" => Pulsed(r)
                      /\ told[r] = "failed" => ~Pulsed(r) /\ r \notin working
    BY DEF TruthfulAnswers
  <2>1. told[r] \in {"triggered", "failed"} => rows[r].status = told[r]
    BY DEF Answers, Told
  <2>2. rows[r].status = "triggered" => Pulsed(r)
    BY DEF Answers, Timely, RowTimely
  <2>3. rows[r].status = "failed" => ~Pulsed(r) /\ r \notin working
    BY DEF IInv, RelayOrders, WorkingOrders, Pulsed
  <2>4. QED BY <2>1, <2>2, <2>3
<1>2. QED BY <1>1, AnswersInvariance, PTL

\* An outcome once told is the outcome for ever.
THEOREM AnswersStand == Spec => AnswersNeverChange
<1>1. IInv /\ Answers /\ [Next]_vars
        => [\A r \in RequestIds : told[r] # "none" => told'[r] = told[r]]_vars
  <2> SUFFICES ASSUME IInv, Answers, Next, NEW r \in RequestIds, told[r] # "none"
               PROVE  told'[r] = told[r]
    OBVIOUS
  <2>1. rows[r].status = told[r] \/ (told[r] = "uncertain" /\ Dead(r))
    BY DEF Answers, Told
  <2>2. ASSUME NEW s \in RequestIds, Replay(s) PROVE told'[r] = told[r]
    BY <2>1, <2>2 DEF Replay, EffectiveStatus, Dead, IInv, TypeOK, Outcomes
  <2>3. ASSUME NEW h \in Handlers, Finish(h) PROVE told'[r] = told[r]
    <3>1. CASE handler[h].request = r
      <4>1. rows[r].status = handler[h].outcome /\ handler[h].outcome \in Outcomes
        BY <3>1, <2>3 DEF Finish, IInv, Owners, TypeOK, Handler
      <4>2. told[r] = handler[h].outcome
        BY <4>1, <2>1 DEF Dead, Outcomes
      <4>3. QED BY <3>1, <4>2, <2>3 DEF Finish, IInv, TypeOK
    <3>2. CASE handler[h].request # r
      BY <3>2, <2>3 DEF Finish, IInv, TypeOK
    <3>3. QED BY <3>1, <3>2
  <2>4. QED
    BY <2>2, <2>3 DEF Next, Arrive, RelayPulse, Reserve, Refuse, Answer, Record,
       Fault, ResolveUncertain, Tick, Crash
<1>2. QED BY <1>1, AnswersInvariance, PTL DEF Spec, AnswersNeverChange

\* Rows appear in reserve() and nowhere else.
LEMMA OnlyReserveAccepts ==
  ASSUME IInv, [Next]_vars, NEW s \in RequestIds, Accepts(s)
  PROVE  \E h \in Handlers : Reserve(h) /\ handler[h].request = s
<1>1. CASE \E h \in Handlers : Reserve(h)
  <2>1. PICK h \in Handlers : Reserve(h) BY <1>1
  <2>2. handler[h].request # s => rows'[s] = rows[s]
    BY <2>1 DEF Reserve, IInv, TypeOK
  <2>3. QED BY <2>1, <2>2 DEF Accepts, Exists
<1>2. CASE \E h \in Handlers : Record(h)
  <2>1. PICK h \in Handlers : Record(h) BY <1>2
  <2>2. rows[handler[h].request].status = "attempted"
    BY <2>1 DEF Record, IInv, Owners
  <2>3. handler[h].request = s \/ rows'[s] = rows[s]
    BY <2>1 DEF Record, IInv, TypeOK
  <2>4. QED BY <2>2, <2>3 DEF Accepts, Exists
<1>3. CASE rows' = rows
  BY <1>3 DEF Accepts, Exists
<1>4. QED
  BY <1>1, <1>2, <1>3 DEF Next, vars, Arrive, Replay, RelayPulse, Refuse, Answer,
     Finish, Fault, ResolveUncertain, Tick, Crash

\* While an order is commanded the door still cools down for it.
LEMMA CommandedCools ==
  ASSUME IInv, Answers, Vehicular, NEW r \in PulseRows, Commanded(r)
  PROVE  Cooling
<1>1. now <= rows[r].at + Budget
  BY DEF Commanded, Answers, Living
<1>2. rows[r].at \in Int /\ now \in Int
  BY DEF PulseRows, IInv, TypeOK, Row
<1>3. rows[r].at > now - Cooldown
  BY <1>1, <1>2
<1>4. QED BY <1>3 DEF Cooling

\* No "Open" over a confirmed "Open" before the barrier has surely come down.
THEOREM OpenRefusesOpen == Spec => OpenBarrierRefusesOpen
<1> DEFINE Refused == \A r, s \in RequestIds :
        /\ Vehicular /\ Accepts(s) /\ tap[s].action = "open"
        /\ LastPulse(r) /\ rows[r].status = "triggered" /\ tap[r].action = "open"
        /\ r \notin lost
        => now >= rows[r].finished + AutoClose
<1>1. IInv /\ Answers /\ [Next]_vars => [Refused]_vars
  <2> SUFFICES ASSUME IInv, Answers, [Next]_vars,
                      NEW r \in RequestIds, NEW s \in RequestIds,
                      Vehicular, Accepts(s), tap[s].action = "open",
                      LastPulse(r), rows[r].status = "triggered",
                      tap[r].action = "open", r \notin lost
               PROVE  now >= rows[r].finished + AutoClose
    OBVIOUS
  <2>1. PICK h \in Handlers : Reserve(h) /\ handler[h].request = s
    BY OnlyReserveAccepts
  <2>2. ~Cooling /\ EffectivePhase = "ready"
    BY <2>1 DEF Reserve, MayReserve, PulseAllowed
  <2>3. r \in PulseRows /\ Heard(r)
    BY <2>2, CommandedCools DEF LastPulse, Answers, Accounted
  <2>4. ~Overtaken(r)
    <3>1. ASSUME NEW q \in RequestIds, rows[q].at > rows[r].at,
                 rows[q].status \in {"triggered", "uncertain"} \/ Dead(q)
          PROVE  FALSE
      <4>1. q \in PulseRows BY <3>1 DEF PulseRows, Dead
      <4>2. QED BY <3>1, <4>1 DEF LastPulse, IInv, TypeOK, Row
    <3>2. QED BY <3>1 DEF Overtaken
  <2>5. phase.phase = "open" /\ phase.pulsedAt = rows[r].finished
    BY <2>3, <2>4 DEF Heard, Answers, PhaseOfRow
  <2>6. ~(now - phase.pulsedAt < AutoClose)
    <3>1. ~StaleAttempt BY <2>2 DEF EffectivePhase
    <3>2. ~(now - phase.pulsedAt < CloseWindow)
      BY <3>1, <2>2, <2>5 DEF EffectivePhase
    <3>3. QED BY <3>1, <3>2, <2>2, <2>5 DEF EffectivePhase
  <2>7. QED BY <2>5, <2>6 DEF IInv, TypeOK, Row
<1>2. QED BY <1>1, AnswersInvariance, PTL DEF Spec, OpenBarrierRefusesOpen

\* An unconfirmed order blocks every pulse until a supervisor has looked.
THEOREM UnconfirmedHolds == Spec => UnconfirmedOrderHoldsBarrier
<1> DEFINE Held == \A r, s \in RequestIds : Vehicular /\ Unconfirmed(r) => ~Accepts(s)
<1>1. IInv /\ Answers /\ [Next]_vars => [Held]_vars
  <2> SUFFICES ASSUME IInv, Answers, [Next]_vars,
                      NEW r \in RequestIds, NEW s \in RequestIds,
                      Vehicular, Unconfirmed(r), Accepts(s)
               PROVE  FALSE
    OBVIOUS
  <2>1. PICK h \in Handlers : Reserve(h) /\ handler[h].request = s
    BY OnlyReserveAccepts
  <2>2. ~Cooling /\ EffectivePhase # "uncertain"
    BY <2>1 DEF Reserve, MayReserve, PulseAllowed
  <2>3. r \in PulseRows
    BY DEF PulseRows, Unconfirmed
  <2>4. ~StaleAttempt /\ phase.phase # "uncertain"
    BY <2>2 DEF EffectivePhase
  <2>5. CASE rows[r].status = "uncertain" /\ r \notin lost
    <3>1. Heard(r)
      BY <2>2, <2>3, <2>5, CommandedCools DEF Answers, Accounted
    <3>2. phase.request # r
      BY <2>4, <2>5 DEF Answers, PhaseOfRow
    <3>3. QED BY <3>1, <3>2 DEF Heard, Unconfirmed, IInv, TypeOK, Row, Phase
  <2>6. CASE Dead(r)
    <3>1. phase.request # r
      BY <2>6 DEF Dead, Answers, PhaseOfRow
    <3>2. phase.phase = "none" \/ rows[r].at > phase.updatedAt
      BY <3>1 DEF Unconfirmed, IInv, TypeOK, Row, Phase
    <3>3. QED BY <3>2, <2>4, <2>6 DEF StaleAttempt, Dead
  <2>7. QED BY <2>5, <2>6 DEF Unconfirmed, Dead
<1>2. QED BY <1>1, AnswersInvariance, PTL DEF Spec, UnconfirmedOrderHoldsBarrier

\* A "Close" follows the "Open" of its own guest, unless a command was cut off.
THEOREM CloseIsOwn == Spec => CloseFollowsOwnOpen
<1> DEFINE Own == \A s \in RequestIds : Accepts(s) /\ tap[s].action = "close" =>
        \E r \in RequestIds :
            /\ rows[r].status = "triggered" /\ tap[r].action = "open"
            /\ now < rows[r].finished + CloseWindow
            /\ tap[s].actor \in Guests => tap[r].actor = tap[s].actor
            /\ \A q \in PulseRows : rows[q].at > rows[r].at =>
                 /\ q \in lost
                 /\ rows[q].status = "attempted" => now - rows[q].at <= Stale
<1>1. IInv /\ Answers /\ [Next]_vars => [Own]_vars
  <2> SUFFICES ASSUME IInv, Answers, [Next]_vars, NEW s \in RequestIds,
                      Accepts(s), tap[s].action = "close"
               PROVE  \E r \in RequestIds :
            /\ rows[r].status = "triggered" /\ tap[r].action = "open"
            /\ now < rows[r].finished + CloseWindow
            /\ tap[s].actor \in Guests => tap[r].actor = tap[s].actor
            /\ \A q \in PulseRows : rows[q].at > rows[r].at =>
                 /\ q \in lost
                 /\ rows[q].status = "attempted" => now - rows[q].at <= Stale
    OBVIOUS
  <2>1. PICK h \in Handlers : Reserve(h) /\ handler[h].request = s
    BY OnlyReserveAccepts
  <2>2. Vehicular
    BY <2>1 DEF Reserve, Answers, Timely, HandlerTimely
  <2>3. /\ ~Cooling /\ EffectivePhase = "closable"
        /\ tap[s].actor \in Guests => phase.openedBy = tap[s].actor
    BY <2>1, <2>2 DEF Reserve, MayReserve, PulseAllowed
  <2>4. ~StaleAttempt /\ phase.phase = "open" /\ now - phase.pulsedAt < CloseWindow
    <3>1. ~StaleAttempt BY <2>3 DEF EffectivePhase
    <3>2. phase.phase = "open" BY <3>1, <2>3 DEF EffectivePhase
    <3>3. QED BY <3>1, <3>2, <2>3 DEF EffectivePhase
  <2> DEFINE r == phase.request
  <2>5. /\ r \in RequestIds
        /\ rows[r].status = "triggered" /\ tap[r].action = "open"
        /\ phase.pulsedAt = rows[r].finished /\ phase.updatedAt = rows[r].finished
        /\ phase.openedBy = tap[r].actor
    BY <2>4 DEF Answers, PhaseOfRow, IInv, TypeOK, Phase
  <2>6. now < rows[r].finished + CloseWindow
    BY <2>4, <2>5 DEF IInv, TypeOK, Row
  <2> HIDE DEF r
  <2>7. ASSUME NEW q \in PulseRows, rows[q].at > rows[r].at
        PROVE  /\ q \in lost
               /\ rows[q].status = "attempted" => now - rows[q].at <= Stale
    <3>1. /\ q \in RequestIds /\ rows[q].at \in Int /\ rows[r].at \in Int
          /\ rows[r].finished \in Int /\ now \in Int
      BY <2>5 DEF PulseRows, IInv, TypeOK, Row
    <3>2. rows[r].at + Cooldown <= rows[q].at
      <4>1. r \in PulseRows BY <2>5 DEF PulseRows
      <4>2. \/ rows[q].at + Cooldown <= rows[r].at
            \/ rows[r].at + Cooldown <= rows[q].at
        BY <2>7, <3>1, <4>1 DEF IInv, RowsApart
      <4>3. QED BY <2>7, <3>1, <4>2
    <3>3. rows[r].finished < rows[q].at
      <4>1. rows[r].finished <= rows[r].at + Budget
        BY <2>5 DEF Answers, Timely, RowTimely, Outcomes
      <4>2. QED BY <2>2, <3>1, <3>2, <4>1
    <3>4. ~Heard(q)
      BY <2>5, <3>1, <3>3, <2>7 DEF Heard, r
    <3>5. q \in lost
      BY <2>2, <2>3, <3>4, CommandedCools DEF Answers, Accounted
    <3>6. rows[q].status = "attempted" => ~(now - rows[q].at > Stale)
      BY <2>4, <2>5, <3>1, <3>3 DEF StaleAttempt
    <3>7. QED BY <3>1, <3>5, <3>6
  <2>8. QED BY <2>3, <2>5, <2>6, <2>7
<1>2. QED BY <1>1, AnswersInvariance, PTL DEF Spec, CloseFollowsOwnOpen

=============================================================================
