------------------------------ MODULE CleaningTask ------------------------------
(***************************************************************************)
(* A cleaning task of openMAINT (cleaning-tasks/cleaning-tasks.service.ts) *)
(* from the checkout that creates it to its review, and the stopwatch of   *)
(* the cleaner's devices (modulo-incidentes).                              *)
(*                                                                         *)
(* Every request reads the card, validates it and writes some of its       *)
(* fields, with an await in between and no version: two requests may       *)
(* overlap.  The card has no paused phase and no session of its own: both  *)
(* are told from the marks in TeamObservations, a text of 500 characters   *)
(* whose oldest notes give way.  Its minutes are added up by the device.   *)
(*                                                                         *)
(* Left out: attachments, checklists, the planned schedule, DelayTime      *)
(* (written with ActualStartTime, and never again), push messages.         *)
(***************************************************************************)
EXTENDS Integers, Sequences, FiniteSets

CONSTANTS
    Requests,       \* requests under way at the same time
    Devices,        \* of the cleaner the task is assigned to
    Skew,           \* what the clock of each device is ahead
    Room,           \* MAX_TEAM_OBSERVATIONS, in notes
    Drafts,         \* the room that a draft may take
    MaxTotal,       \* MAX_TOTAL_EXECUTION_MINUTES
    None,           \* null
    MaxTime,        \* bound of the model: minutes
    MaxRequests,    \* bound of the model: requests in all
    MaxMishaps,     \* bound of the model on what goes wrong
    Operations      \* what may go wrong, out of AllOperations

\* Requests that overlap, an answer that is lost, a request that fails, a duplicate check that
\* fails, a client that does not report minutes, a supervisor that edits the phase or the
\* minutes.
AllOperations == {"overlap", "lost", "fault", "blindcheck", "bare", "edit"}

ASSUME SkewAssumption == Skew \in [Devices -> Int]
ASSUME RoomAssumption == Room \in Nat \ {0} /\ Drafts \subseteq 0..Room /\ 0 \in Drafts
ASSUME BoundsAssumption == MaxTotal \in Nat /\ MaxTime \in Nat
ASSUME MaxAssumption == MaxRequests \in Nat /\ MaxMishaps \in Nat
ASSUME NoneAssumption == None \notin Int

VARIABLES
    card,           \* the task in openMAINT
    copies,         \* cards created for its checkout
    view,           \* what each device knows of the execution: activeTask
    job,            \* requests that have read the card and not written it
    clock,          \* minutes
    requests,       \* bound of the model: requests so far
    mishaps,        \* bound of the model: what has gone wrong so far
    worked,         \* history: minutes in execution
    session,        \* history: the same, since the task was last begun anew
    starts,         \* history: how often it was started
    left,           \* history: how it was left: "new", "pause" or "done"
    began,          \* history: when it was last started
    drift,          \* history: minutes the clocks of the devices added in all
    sessionDrift,   \* history: the same, since the task was last begun anew
    upset           \* history: what went wrong

vars == <<card, copies, view, job, clock, requests, mishaps, worked, session, starts, left,
          began, drift, sessionDrift, upset>>

Phases == {"Assigned", "InExecution", "Completed", "Reviewed", "Cancelled"}

\* A note of TeamObservations: a mark with its minute and, on a restart, the
\* minutes the task already had.
Note == [kind: {"pause", "resume", "restart", "text"}, at: Nat, carry: Int]

Card == [phase: Phases \cup {"none"}, owned: BOOLEAN, started: Nat \cup {None},
         ended: BOOLEAN, minutes: Int, log: Seq(Note), draft: 0..Room]

\* What the device counts from: the minutes it found, the beginning of this
\* execution, and the minutes its stopwatch shows at that moment.
View == [accumulated: Int, since: Int, base: Int, start: Nat]

Job == [op: {"none", "create", "start", "pause", "complete", "approve", "reject", "reopen",
             "cancel", "assign", "edit"},
        dev: Devices \cup {None}, was: Card, start: Nat, report: Int \cup {None}, draft: 0..Room]

Fresh == [phase |-> "none", owned |-> FALSE, started |-> None, ended |-> FALSE,
          minutes |-> 0, log |-> <<>>, draft |-> 0]
Idle == [op |-> "none", dev |-> None, was |-> Fresh, start |-> 0, report |-> None, draft |-> 0]

AtLeast(a, b) == IF a >= b THEN a ELSE b

-----------------------------------------------------------------------------
(* What the card tells.                                                    *)

\* The position of the last note of these kinds.
Last(log, kinds) ==
    LET at == {i \in 1..Len(log) : log[i].kind \in kinds}
    IN IF at = {} THEN 0 ELSE CHOOSE i \in at : \A j \in at : j <= i

\* Mutant: a restart closes a pause as well.
PausedByAnyMark(c) ==
    c.phase = "Assigned" /\ Last(c.log, {"pause"}) # 0

\* isPausedTask()
Paused(c) ==
    c.phase = "Assigned" /\ Last(c.log, {"pause"}) > Last(c.log, {"resume"})

\* resolveSessionStartedAt(), of a task in execution.
Since(c) ==
    LET i == Last(c.log, {"resume", "restart"}) IN
    IF i # 0 THEN c.log[i].at
    ELSE IF c.minutes > 0 THEN None ELSE c.started

\* resolveSessionCarryMinutes()
Carry(c) ==
    LET i == Last(c.log, {"restart"}) IN IF i = 0 THEN 0 ELSE c.log[i].carry

\* Mutant: the stopwatch of a resumed task goes on from the whole of its minutes.
BaseOfAll(c) ==
    IF Last(c.log, {"resume"}) > Last(c.log, {"restart"}) THEN AtLeast(0, c.minutes) ELSE 0

\* resolveSessionBaseMinutes(), of a task in execution.
Base(c) ==
    IF Last(c.log, {"resume"}) > Last(c.log, {"restart"})
    THEN AtLeast(0, c.minutes - Carry(c)) ELSE 0

\* appendNote() and withDraftObservations(): the oldest notes give way.
Keep(log, draft) ==
    IF Len(log) + draft <= Room THEN log
    ELSE SubSeq(log, Len(log) + draft - Room + 1, Len(log))

\* validatePhaseTransition(): where PHASE_TRANSITIONS allows to go.
Transitions ==
    [phase \in Phases \cup {"none"} |->
        CASE phase = "Assigned" -> {"InExecution", "Cancelled"}
          [] phase = "InExecution" -> {"Completed", "Cancelled", "Assigned"}
          [] phase = "Completed" -> {"Reviewed", "InExecution", "Assigned"}
          [] phase = "Reviewed" -> {"InExecution", "Assigned"}
          [] OTHER -> {}]

Init ==
    /\ card = Fresh /\ copies = 0
    /\ view = [d \in Devices |-> None]
    /\ job = [r \in Requests |-> Idle]
    /\ clock = 1 /\ requests = 0 /\ mishaps = 0
    /\ worked = 0 /\ session = 0 /\ starts = 0
    /\ left = "new" /\ upset = {}
    /\ began = 1 /\ drift = 0 /\ sessionDrift = 0

-----------------------------------------------------------------------------
(* The bookkeeping of a step.                                              *)

History == <<worked, session, starts, left, began, drift, sessionDrift>>

\* Something goes wrong, or nothing does.
May(operation) == operation \in Operations /\ mishaps < MaxMishaps /\ mishaps' = mishaps + 1
Well == UNCHANGED mishaps

Overlapping == \E r \in Requests : job[r] # Idle

\* A request that passes its checks; one that does not changes nothing.
Asks(r, op, dev, report, draft, mishap) ==
    /\ job[r] = Idle /\ requests < MaxRequests
    /\ LET wrong == mishap \cup (IF Overlapping THEN {"overlap"} ELSE {})
       IN /\ wrong \subseteq Operations /\ mishaps + Cardinality(wrong) <= MaxMishaps
          /\ mishaps' = mishaps + Cardinality(wrong)
    /\ requests' = requests + 1
    /\ job' = [job EXCEPT ![r] = [op |-> op, dev |-> dev, was |-> card, start |-> starts,
                                  report |-> report, draft |-> draft]]
    /\ UNCHANGED <<card, copies, clock, History>>

Is(r, op) == job[r].op = op

\* The request writes: it ends, and it may be that the card is not what it read.
Writes(r, card1) ==
    /\ card' = card1
    /\ job' = [job EXCEPT ![r] = Idle]
    /\ UNCHANGED <<copies, clock, requests>>

Races(r) == IF job[r].was = card /\ job[r].start = starts THEN {} ELSE {"race"}

\* The device gets the answer, or it does not.
Answers(r, v) ==
    \/ view' = [view EXCEPT ![job[r].dev] = v] /\ Well
    \/ May("lost") /\ UNCHANGED view

-----------------------------------------------------------------------------
(* A checkout becomes a task.                                              *)

Synchronising == \E r \in Requests : job[r].op = "create"

\* Mutant: no look at the tasks there are.
CreateUnchecked(r) ==
    /\ Asks(r, "create", None, None, 0, {})
    /\ upset' = IF Synchronising THEN upset \cup {"double"} ELSE upset
    /\ UNCHANGED view

\* createCleaningTask(): taskExistsByReservationId() says no if it cannot tell.
Create(r) ==
    /\ Asks(r, "create", None, None, 0, IF copies > 0 THEN {"blindcheck"} ELSE {})
    /\ upset' = IF copies > 0 \/ Synchronising THEN upset \cup {"double"} ELSE upset
    /\ UNCHANGED view

\* The card is posted.  If there is one already, this is another task.
CreateWrites(r) ==
    /\ Is(r, "create")
    /\ copies' = copies + 1
    /\ card' = IF card.phase = "none" THEN [Fresh EXCEPT !.phase = "Assigned"] ELSE card
    /\ job' = [job EXCEPT ![r] = Idle]
    /\ UNCHANGED <<view, clock, requests, mishaps, History, upset>>

\* createManualCleaningTask(), with or without a cleaner.
CreateManual ==
    /\ card.phase = "none" /\ requests < MaxRequests
    /\ requests' = requests + 1
    /\ \E owned \in BOOLEAN : card' = [Fresh EXCEPT !.phase = "Assigned", !.owned = owned]
    /\ UNCHANGED <<copies, view, job, clock, mishaps, History, upset>>

-----------------------------------------------------------------------------
(* The cleaner.                                                            *)

\* startTask() reads: the task is the cleaner's and may be executed.
Start(r, d) ==
    /\ card.owned /\ "InExecution" \in Transitions[card.phase]
    /\ Asks(r, "start", d, None, 0, {})
    /\ UNCHANGED <<view, upset>>

HasRun(c) == c.started # None \/ c.minutes > 0

\* The note of a start that is not the first.
StartNote(c) ==
    IF Paused(c) THEN [kind |-> "resume", at |-> clock, carry |-> 0]
    ELSE [kind |-> "restart", at |-> clock, carry |-> AtLeast(0, c.minutes)]

\* What the text keeps of the log of a start that is not the first.
StartKeeps(c) == Keep(Keep(Append(c.log, StartNote(c)), 0), c.draft)

\* History: of the restart before, the minutes it carries gave way to the note.
Forgets(c) ==
    IF HasRun(c) /\ Carry([c EXCEPT !.log = StartKeeps(c)])
                     # Carry([c EXCEPT !.log = Append(c.log, StartNote(c))])
    THEN {"forgot"} ELSE {}

\* startTask() writes: the first start is recorded once, any other by a note.
StartWrites(r) ==
    LET c == job[r].was IN
    /\ Is(r, "start")
    /\ Writes(r, IF HasRun(c)
                 THEN [card EXCEPT !.phase = "InExecution", !.draft = c.draft,
                                   !.log = StartKeeps(c)]
                 ELSE [card EXCEPT !.phase = "InExecution", !.started = clock])
    /\ Answers(r, [accumulated |-> c.minutes, since |-> clock,
                   base |-> IF Paused(c) THEN AtLeast(0, c.minutes - Carry(c)) ELSE 0,
                   start |-> starts + 1])
    /\ starts' = starts + 1
    /\ session' = IF left = "pause" THEN session ELSE 0
    /\ sessionDrift' = IF left = "pause" THEN sessionDrift ELSE 0
    /\ began' = clock
    /\ upset' = upset \cup Races(r) \cup Forgets(c)
    /\ UNCHANGED <<worked, left, drift>>

\* The device reads the task: syncActiveTask(), or clearActiveTask().  The minutes it has do not
\* go down; without a mark to count from it keeps its own, or counts from now.
Load(d) ==
    LET known == view[d] # None
        since == Since(card)
    IN
    /\ card.owned /\ card.phase # "none"
    /\ view' = [view EXCEPT ![d] =
         IF card.phase # "InExecution" THEN None
         ELSE [accumulated |-> IF known THEN AtLeast(card.minutes, view[d].accumulated)
                               ELSE card.minutes,
               since |-> IF since # None THEN since
                         ELSE IF known THEN view[d].since ELSE clock + Skew[d],
               base |-> Base(card),
               start |-> starts]]
    /\ view' # view
    /\ upset' = IF card.phase = "InExecution" /\ starts > 1 /\ Last(card.log, {"resume", "restart"}) = 0
                THEN upset \cup {"blind"} ELSE upset
    /\ UNCHANGED <<card, copies, job, clock, requests, mishaps, History>>

\* Minutes since the beginning that the device knows of.
Elapsed(d) == AtLeast(0, clock + Skew[d] - view[d].since)

\* Mutant: the device reports the minutes its stopwatch shows.
ReportShown(d) == view[d].base + Elapsed(d)

\* resolveTotalExecutionMinutes() of the device.
Report(d) == AtLeast(0, view[d].accumulated) + Elapsed(d)

\* resolveTotalExecutionMinutes() of the backend: what is there never goes down.
Total(c, report) ==
    IF report # None
    THEN IF report > MaxTotal THEN AtLeast(MaxTotal, c.minutes) ELSE AtLeast(report, c.minutes)
    ELSE IF c.minutes > 0 THEN c.minutes ELSE AtLeast(0, clock - c.started)

\* The execution is left by a device that knows of it, or by a client that does
\* not say how long it took.
Leaves(r, op, d, draft) ==
    /\ card.owned /\ card.phase = "InExecution"
    /\ card.started # None
    /\ \/ /\ view[d] # None
          /\ Asks(r, op, d, Report(d), draft, {})
          /\ upset' = IF view[d].start # starts THEN upset \cup {"stale"} ELSE upset
       \/ /\ Asks(r, op, d, None, draft, {"bare"})
          /\ upset' = IF starts > 1 THEN upset \cup {"stale"} ELSE upset
    /\ UNCHANGED view

Pause(r, d) == \E draft \in Drafts : Leaves(r, "pause", d, draft)

Complete(r, d) == Leaves(r, "complete", d, 0)

\* History: what the clock of a device adds to an execution that it counts from the instant of
\* the server.  It takes away no more than there is.
Adds(d) == AtLeast(began - clock, Skew[d])

Drifts(r) ==
    LET added == IF job[r].report = None THEN 0 ELSE Adds(job[r].dev) IN
    /\ drift' = drift + added
    /\ sessionDrift' = sessionDrift + added

\* History: the report is above MAX_TOTAL_EXECUTION_MINUTES.
Caps(r) ==
    IF job[r].report # None /\ job[r].report > MaxTotal THEN {"capped"} ELSE {}

Loses(c, log, draft) ==
    IF Len(log) + draft > Room THEN {"cut"} ELSE {}

\* pauseTask() writes: back to Assigned, with the mark and the draft.
PauseWrites(r) ==
    LET c == job[r].was
        log == Append(c.log, [kind |-> "pause", at |-> clock, carry |-> 0])
    IN
    /\ Is(r, "pause")
    /\ Writes(r, [card EXCEPT !.phase = "Assigned", !.minutes = Total(c, job[r].report),
                              !.draft = job[r].draft,
                              !.log = Keep(Keep(log, 0), job[r].draft)])
    /\ Answers(r, None)
    /\ left' = "pause"
    /\ Drifts(r)
    /\ upset' = upset \cup Races(r) \cup Caps(r) \cup Loses(c, log, job[r].draft)
    /\ UNCHANGED <<worked, session, starts, began>>

\* completeTask() writes, with or without a final observation; the draft goes.
CompleteWrites(r) ==
    LET c == job[r].was
        text == Append(c.log, [kind |-> "text", at |-> clock, carry |-> 0])
    IN
    /\ Is(r, "complete")
    /\ \E log \in {c.log, text} :
         /\ Writes(r, [card EXCEPT !.phase = "Completed", !.ended = TRUE,
                                   !.minutes = Total(c, job[r].report),
                                   !.draft = 0, !.log = Keep(log, 0)])
         /\ upset' = upset \cup Races(r) \cup Caps(r) \cup Loses(c, log, 0)
    /\ Answers(r, None)
    /\ left' = "done"
    /\ Drifts(r)
    /\ UNCHANGED <<worked, session, starts, began>>

-----------------------------------------------------------------------------
(* The supervisor and the coordinator.                                     *)

\* reviewTask(), reopenTask(), cancelTask(), updateCleaningTask() read.  A supervisor may assign
\* and edit in any phase, and cancel more than a coordinator may.
Supervise(r) ==
    /\ \/ card.phase = "Completed" /\ \E op \in {"approve", "reject"} : Asks(r, op, None, None, 0, {})
       \/ card.phase \in {"Completed", "Reviewed"} /\ Asks(r, "reopen", None, None, 0, {})
       \/ card.phase \in {"Assigned", "InExecution"} /\ Asks(r, "cancel", None, None, 0, {})
       \/ card.phase # "none" /\ Asks(r, "assign", None, None, 0, {})
       \/ card.phase # "none" /\ Asks(r, "edit", None, None, 0, {"edit"})
    /\ UNCHANGED <<view, upset>>

\* Mutant: a reopened task begins from nothing.
ReopenedAnew(c) == [c EXCEPT !.phase = "Assigned", !.ended = FALSE, !.started = None]

\* What a rejected review and a reopening write.
Reopened(c) == [c EXCEPT !.phase = "Assigned", !.ended = FALSE]

\* ... and write.  An assignment gives the task to the cleaner or takes it away; an edit
\* writes a phase or minutes as they come.
SuperviseWrites(r) ==
    /\ \/ Is(r, "approve") /\ Writes(r, [card EXCEPT !.phase = "Reviewed"])
       \/ (Is(r, "reject") \/ Is(r, "reopen")) /\ Writes(r, Reopened(card))
       \/ Is(r, "cancel") /\ Writes(r, [card EXCEPT !.phase = "Cancelled"])
       \/ Is(r, "assign") /\ \E owned \in BOOLEAN : Writes(r, [card EXCEPT !.owned = owned])
       \/ Is(r, "edit") /\ \E phase \in Phases : Writes(r, [card EXCEPT !.phase = phase])
       \/ Is(r, "edit") /\ \E n \in 0..MaxTime : Writes(r, [card EXCEPT !.minutes = n])
    /\ upset' = upset \cup Races(r) \cup (IF Is(r, "edit") THEN {"edit"} ELSE {})
    /\ UNCHANGED <<view, mishaps, History>>

\* openMAINT refuses a write, or is not there: nothing changes.
Fails(r) ==
    /\ job[r] # Idle /\ May("fault")
    /\ job' = [job EXCEPT ![r] = Idle]
    /\ UNCHANGED <<card, copies, view, clock, requests, History, upset>>

\* A minute, with no request under way: those take less.
Tick ==
    /\ clock < MaxTime /\ \A r \in Requests : job[r] = Idle
    /\ clock' = clock + 1
    /\ worked' = IF card.phase = "InExecution" THEN worked + 1 ELSE worked
    /\ session' = IF card.phase = "InExecution" THEN session + 1 ELSE session
    /\ UNCHANGED <<card, copies, view, job, requests, mishaps, starts, left, began, drift,
                   sessionDrift, upset>>

-----------------------------------------------------------------------------
Next ==
    \/ \E r \in Requests :
         \/ Create(r) \/ CreateWrites(r) \/ StartWrites(r) \/ PauseWrites(r)
         \/ CompleteWrites(r) \/ Supervise(r) \/ SuperviseWrites(r) \/ Fails(r)
         \/ \E d \in Devices : Start(r, d) \/ Pause(r, d) \/ Complete(r, d)
    \/ \E d \in Devices : Load(d)
    \/ CreateManual \/ Tick

Spec == Init /\ [][Next]_vars

-----------------------------------------------------------------------------
(* Properties.                                                             *)

\* Types, and that a task that was executed has its first start.
TypeOK ==
    /\ card \in Card /\ Len(card.log) <= Room
    /\ copies \in Nat
    /\ view \in [Devices -> View \cup {None}]
    /\ job \in [Requests -> Job]
    /\ clock \in 1..AtLeast(1, MaxTime) /\ requests \in 0..MaxRequests /\ mishaps \in 0..MaxMishaps
    /\ worked \in Nat /\ session \in Nat /\ starts \in Nat
    /\ left \in {"new", "pause", "done"}
    /\ began \in Nat /\ drift \in Int /\ sessionDrift \in Int
    /\ upset \subseteq {"double", "race", "stale", "blind", "cut", "edit", "forgot", "capped"}

\* A task in execution, completed or reviewed has its first start, whatever
\* requests overlap: without it no cleaner can pause or complete it.  An edit can
\* take it away: minutes that a supervisor writes on a task not begun yet.
ExecutedHasStart ==
    "edit" \notin upset /\ card.phase \in {"InExecution", "Completed", "Reviewed"}
        => card.started # None

\* The minutes of the card are the minutes in execution, pauses and reopenings
\* left out, whichever device counted which part, and what the clocks of those devices
\* are off: resolveTotalExecutionMinutes() subtracts an instant of the server from the
\* time of the device, whatever the comment of the backend says of one and the same
\* clock.  (A cancellation does not count the execution it ends.)  Excepted are
\* requests that overlap, a device that left an execution it had not seen the beginning
\* of, a text without room for the beginning, and a report above the maximum.
MinutesAreWorked ==
    /\ upset \cap {"race", "stale", "blind", "edit", "capped"} = {}
    /\ card.phase \in {"Assigned", "Completed", "Reviewed"}
    => card.minutes = worked + drift

\* The stopwatch of every device that knows of this execution shows the minutes since
\* the task was first started, or last reopened, and what its own clock and those
\* before it are off.  If the text lost the last restart it may show the minutes of
\* before as well, which the comment on RESTART_MARKER has prevented.
StopwatchShowsSession ==
    \A d \in Devices :
        /\ upset \cap {"race", "stale", "blind", "edit", "cut", "capped"} = {}
        /\ card.phase = "InExecution" /\ view[d] # None
        /\ view[d].start = starts
        => LET shown == view[d].base + Elapsed(d) - Adds(d) IN
           \/ shown = session + sessionDrift
           \/ "forgot" \in upset /\ shown = worked + drift

\* A task the cleaner paused is told from one that was reopened, and from one
\* that was never begun, as long as no note was lost.
PauseIsTold ==
    upset \cap {"race", "cut", "edit"} = {} /\ card.phase = "Assigned"
        => (Paused(card) <=> left = "pause")

\* A checkout has one task, unless two synchronisations overlapped or the check
\* for duplicates failed.
OneTaskPerCheckout == "double" \notin upset => copies <= 1
=============================================================================
