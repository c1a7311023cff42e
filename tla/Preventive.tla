------------------------------- MODULE Preventive -------------------------------
(***************************************************************************)
(* A preventive maintenance of openMAINT, from its assignment to its       *)
(* close: the technician's pages and requests (preventive-maintenance/,    *)
(* modulo-incidentes) and the supervisor's (maintenance-supervision/).     *)
(*                                                                         *)
(* The process and its checklist are two cards of openMAINT.  A move of    *)
(* the process names the activity it was read in, and openMAINT refuses    *)
(* another one; the checklist is one array that every request reads,       *)
(* changes and writes back whole.  openMAINT does not let a process leave  *)
(* its execution with activities unresolved, and says 200 all the same;    *)
(* an activity without a value is resolved when it is marked N.D., which   *)
(* a suspension does and the next opening takes back.                      *)
(*                                                                         *)
(* Left out: the values of the answers, notes, reasons, documents, the     *)
(* assignee (no step looks at it), push messages, and a maintenance        *)
(* without a checklist, which its page cannot complete.                    *)
(***************************************************************************)
EXTENDS Integers

CONSTANTS
    Items,          \* activities of the checklist
    Phones,         \* pages open on it, of one technician or several
    Desks,          \* requests of supervisors under way at the same time
    None, Planned,  \* no start; the start that openMAINT fills in
    MaxMoves,       \* bound of the model: resumptions and reassignments
    MaxMishaps,     \* bound of the model on what goes wrong
    Operations      \* what may go wrong, out of AllOperations

\* A call fails; it is carried out and its answer is lost; openMAINT says 200 and does
\* not move; the backend dies.
AllOperations == {"fault", "lost", "silent", "crash"}

ASSUME PhonesAssumption == None # Planned /\ {None, Planned} \cap Phones = {}
ASSUME DesksAssumption == Phones \cap Desks = {}
ASSUME MaxAssumption == MaxMoves \in Nat /\ MaxMishaps \in Nat

VARIABLES
    card,           \* the process: status, activity, ExecStartDate (who sealed it)
    list,           \* its checklist: activities with a value, activities marked N.D.
    page,           \* what each page shows: status, activities with a value
    job,            \* requests under way, with what they have read
    moves,          \* bound of the model: resumptions and reassignments so far
    mishaps,        \* bound of the model: what has gone wrong so far
    saved,          \* history: activities that a page was told are saved
    upset           \* history: what overwrote something newer, or moved nothing

vars == <<card, list, page, job, moves, mishaps, saved, upset>>

Processes == Phones \cup Desks

Statuses == {"Planning", "Acceptance", "Execution", "Suspension", "Completed"}

Card == [status: Statuses, activity: Nat, start: Phones \cup {None, Planned}]
List == [done: SUBSET Items, nd: SUBSET Items]
Page == [status: Statuses \cup {"none"}, has: SUBSET Items]

Job == [op: {"none", "open", "start", "suspend", "finish", "assign", "resume", "return"},
        stage: {"idle", "clearing", "unmarking", "showing", "advancing", "waiting",
                "confirming", "sealing", "reopening", "reading", "merging", "pending",
                "marking", "closing", "asserting", "leaving", "checking"},
        card: Card, list: List, items: SUBSET Items]

NewCard == [status |-> "Planning", activity |-> 0, start |-> None]
NewList == [done |-> {}, nd |-> {}]
Blank == [status |-> "none", has |-> {}]
Idle == [op |-> "none", stage |-> "idle", card |-> NewCard, list |-> NewList, items |-> {}]

\* isResolved(), of every activity.
Resolved(l) == l.done \cup l.nd = Items

Init ==
    /\ card = NewCard /\ list = NewList
    /\ page = [p \in Phones |-> Blank]
    /\ job = [p \in Processes |-> Idle]
    /\ moves = 0 /\ mishaps = 0
    /\ saved = {} /\ upset = {}

-----------------------------------------------------------------------------
(* The bookkeeping of a step.                                              *)

May(operation) == operation \in Operations /\ mishaps < MaxMishaps /\ mishaps' = mishaps + 1
Well == UNCHANGED mishaps

Is(p, stage) == job[p].stage = stage
Turns(p, j) == job' = [job EXCEPT ![p] = j]
Begins(p, op, stage, read, items) ==
    /\ Is(p, "idle")
    /\ Turns(p, [op |-> op, stage |-> stage, card |-> read, list |-> NewList, items |-> items])

\* A request goes on, with what it needs of what it has read.
Goes(p, stage) ==
    Turns(p, IF stage = "idle" THEN Idle
             ELSE [job[p] EXCEPT !.stage = stage, !.list = NewList, !.items = {}])
ReadsCard(p, stage) == Turns(p, [job[p] EXCEPT !.stage = stage, !.card = card])
ReadsList(p, stage) == Turns(p, [job[p] EXCEPT !.stage = stage, !.list = list])

\* The array is written whole; the answer comes, or it does not.
WritesList(p, l, told, stage, otherwise) ==
    /\ list' = l
    /\ upset' = IF list = job[p].list THEN upset ELSE upset \cup {"list"}
    /\ \/ Goes(p, stage) /\ saved' = saved \cup told /\ Well
       \/ Goes(p, otherwise) /\ May("lost") /\ UNCHANGED saved

\* advance() and saveFields() under way.
Putting(p) == job[p].stage \in {"advancing", "sealing", "leaving"}

\* openMAINT carries the write out if the activity is still the one that was read, and
\* refuses it if it is not, or while it holds the lock for another one.
Put(p, card1, stage, otherwise) ==
    \/ /\ card.activity = job[p].card.activity
       /\ card' = card1
       /\ \/ Goes(p, stage) /\ Well
          \/ Goes(p, otherwise) /\ May("lost")
    \/ /\ \/ card.activity # job[p].card.activity /\ Well
          \/ (\E q \in Processes \ {p} : Putting(q)) /\ Well
          \/ May("fault")
       /\ Goes(p, otherwise)
       /\ UNCHANGED card

Moved(status, start) == [status |-> status, activity |-> card.activity + 1, start |-> start]

-----------------------------------------------------------------------------
(* The technician opens the maintenance.                                   *)

\* openMaintenance(): what a suspension left as N.D. is taken back, in execution.
AfterOpening == IF card.status = "Execution" THEN "clearing" ELSE "showing"

\* The page is loaded, or loaded again.
Open(p) ==
    /\ Begins(p, "open", AfterOpening, card, {})
    /\ page' = [page EXCEPT ![p] = Blank]
    /\ UNCHANGED <<card, list, moves, mishaps, saved, upset>>

\* The end of startExecution().
Reopen(p) ==
    /\ Is(p, "reopening")
    /\ ReadsCard(p, AfterOpening)
    /\ UNCHANGED <<card, list, page, moves, mishaps, saved, upset>>

\* clearNotDone() reads; with nothing to take back it writes nothing.
UnmarkRead(p) ==
    /\ Is(p, "clearing")
    /\ IF list.nd = {} THEN Goes(p, "showing") ELSE ReadsList(p, "unmarking")
    /\ UNCHANGED <<card, list, page, moves, mishaps, saved, upset>>

\* ... and writes; a failure does not stop the technician.
Unmark(p) ==
    /\ Is(p, "unmarking")
    /\ WritesList(p, [job[p].list EXCEPT !.nd = {}], {}, "showing", "showing")
    /\ UNCHANGED <<card, page, moves>>

\* toDetail() reads the list again; the page shows the status read before it.
Show(p) ==
    /\ Is(p, "showing")
    /\ page' = [page EXCEPT ![p] = [status |-> job[p].card.status, has |-> list.done]]
    /\ Goes(p, "idle")
    /\ UNCHANGED <<card, list, moves, mishaps, saved, upset>>

\* setAnswer(): a value is given, or emptied.
Answer(p) ==
    /\ page[p].status = "Execution" /\ Is(p, "idle")
    /\ \E i \in Items :
         page' = [page EXCEPT ![p].has = IF i \in @ THEN @ \ {i} ELSE @ \cup {i}]
    /\ UNCHANGED <<card, list, job, moves, mishaps, saved, upset>>

-----------------------------------------------------------------------------
(* He starts it.                                                           *)

\* startExecution() moves it only out of Acceptance.
Start(p) ==
    /\ page[p].status = "Acceptance"
    /\ Begins(p, "start", IF card.status = "Acceptance" THEN "advancing" ELSE "reopening", card, {})
    /\ UNCHANGED <<card, list, page, moves, mishaps, saved, upset>>

\* advanceToExecution(): openMAINT fills the planned start in.
Advance(p) ==
    /\ Is(p, "advancing") /\ job[p].op = "start"
    /\ \/ /\ Put(p, Moved("Execution", Planned), "confirming", "waiting")
          /\ UNCHANGED upset
       \/ /\ May("silent") /\ Goes(p, "confirming")
          /\ upset' = upset \cup {"silent"}
          /\ UNCHANGED card
    /\ UNCHANGED <<list, page, moves, saved>>

\* Mutant: whoever finds it started seals the start.
WaitSeals(p) ==
    /\ Is(p, "waiting")
    /\ Goes(p, IF card.status = "Execution" THEN "confirming" ELSE "idle")
    /\ UNCHANGED <<card, list, page, moves, mishaps, saved, upset>>

\* waitUntilExecuting(): another request may have won.  One of three looks finds it in
\* execution, or none does and the request fails.
Wait(p) ==
    /\ Is(p, "waiting")
    /\ Goes(p, IF card.status = "Execution" THEN "reopening" ELSE "idle")
    /\ UNCHANGED <<card, list, page, moves, mishaps, saved, upset>>

\* assertStatus() of the winner, which also reads the new activity.
Confirm(p) ==
    /\ Is(p, "confirming")
    /\ IF card.status = "Execution" THEN ReadsCard(p, "sealing") ELSE Goes(p, "idle")
    /\ UNCHANGED <<card, list, page, moves, mishaps, saved, upset>>

\* registerExecutionStart(): a failure does not stop the technician.
Seal(p) ==
    /\ Is(p, "sealing")
    /\ Put(p, [card EXCEPT !.start = p], "reopening", "reopening")
    /\ UNCHANGED <<list, page, moves, saved, upset>>

-----------------------------------------------------------------------------
(* He suspends it, or finishes it.                                         *)

\* suspendPreventiveMaintenance(), with the answers of the page.
Suspend(p) ==
    /\ page[p].status = "Execution" /\ card.status = "Execution"
    /\ Begins(p, "suspend", IF page[p].has = {} THEN "pending" ELSE "reading", card, page[p].has)
    /\ UNCHANGED <<card, list, page, moves, mishaps, saved, upset>>

\* Mutant: the button is there before every activity has a value.
FinishAnyway(p) ==
    /\ page[p].status = "Execution"
    /\ Begins(p, "finish", "reading", NewCard, page[p].has)
    /\ UNCHANGED <<card, list, page, moves, mishaps, saved, upset>>

\* handleConfirmComplete(): every activity has a value on the page, N.D. or not.  The
\* answers are saved first, in a request that does not look at the status.
Finish(p) ==
    /\ page[p].status = "Execution" /\ page[p].has = Items
    /\ Begins(p, "finish", "reading", NewCard, page[p].has)
    /\ UNCHANGED <<card, list, page, moves, mishaps, saved, upset>>

\* saveChecklist() reads ...
SaveRead(p) ==
    /\ Is(p, "reading")
    /\ ReadsList(p, "merging")
    /\ UNCHANGED <<card, list, page, moves, mishaps, saved, upset>>

AfterSaving(p) == IF job[p].op = "suspend" THEN "pending" ELSE "closing"

\* Mutant: the answers of the page are the list.
SaveOnly(p) ==
    /\ Is(p, "merging")
    /\ WritesList(p, [job[p].list EXCEPT !.done = job[p].items], job[p].items,
                  AfterSaving(p), "idle")
    /\ UNCHANGED <<card, page, moves>>

\* ... and writes: the rest of the list is kept, the mark N.D. as well.
Save(p) ==
    /\ Is(p, "merging")
    /\ WritesList(p, [job[p].list EXCEPT !.done = @ \cup job[p].items], job[p].items,
                  AfterSaving(p), "idle")
    /\ UNCHANGED <<card, page, moves>>

\* markPendingAsNotDone() reads; with nothing pending it writes nothing.
MarkRead(p) ==
    /\ Is(p, "pending")
    /\ IF Resolved(list) THEN Goes(p, "leaving") ELSE ReadsList(p, "marking")
    /\ UNCHANGED <<card, list, page, moves, mishaps, saved, upset>>

\* ... and writes.
Mark(p) ==
    /\ Is(p, "marking")
    /\ WritesList(p, [job[p].list EXCEPT !.nd = @ \cup (Items \ job[p].list.done)], {},
                  "leaving", "idle")
    /\ UNCHANGED <<card, page, moves>>

\* completePreventiveMaintenance() has to find it in execution ...
Close(p) ==
    /\ Is(p, "closing")
    /\ IF card.status = "Execution" THEN ReadsCard(p, "asserting") ELSE Goes(p, "idle")
    /\ UNCHANGED <<card, list, page, moves, mishaps, saved, upset>>

\* ... and resolved: assertComplete(), for which N.D. is as good as a value.
AssertComplete(p) ==
    /\ Is(p, "asserting")
    /\ Goes(p, IF Resolved(list) THEN "leaving" ELSE "idle")
    /\ UNCHANGED <<card, list, page, moves, mishaps, saved, upset>>

\* The start that goes with the close is the one that was read.
StartSent(p) ==
    IF job[p].op = "suspend" THEN card.start
    ELSE IF job[p].card.start = None THEN p ELSE job[p].card.start

\* The move.  If openMAINT does not make it, it keeps the fields all the same.
Leave(p) ==
    LET to == IF job[p].op = "suspend" THEN "Suspension" ELSE "Completed"
        kept == [card EXCEPT !.start = StartSent(p)]
    IN
    /\ Is(p, "leaving")
    /\ \/ Put(p, IF Resolved(list) THEN Moved(to, StartSent(p)) ELSE kept, "checking", "idle")
       \/ /\ card.activity = job[p].card.activity
          /\ May("silent") /\ card' = kept /\ Goes(p, "checking")
    /\ upset' = IF card'.start = card.start THEN upset ELSE upset \cup {"start"}
    /\ UNCHANGED <<list, page, moves, saved>>

\* assertReachedStatus(): the page is left if it moved, and says so if it did not.
Check(p) ==
    /\ Is(p, "checking")
    /\ page' = IF card.status = (IF job[p].op = "suspend" THEN "Suspension" ELSE "Completed")
               THEN [page EXCEPT ![p] = Blank] ELSE page
    /\ Goes(p, "idle")
    /\ UNCHANGED <<card, list, moves, mishaps, saved, upset>>

-----------------------------------------------------------------------------
(* The supervisor.                                                         *)

\* assignPreventive() reads.
Assign(d) ==
    /\ card.status = "Planning"
    /\ Begins(d, "assign", "advancing", card, {})
    /\ UNCHANGED <<card, list, page, moves, mishaps, saved, upset>>

\* resumePreventive() and, of a suspended maintenance, updateAssignee() read.
Supervise(d, op) ==
    /\ card.status = "Suspension" /\ moves < MaxMoves
    /\ Begins(d, op, "advancing", card, {})
    /\ moves' = moves + 1
    /\ UNCHANGED <<card, list, page, mishaps, saved, upset>>

\* ... and write.  What they check afterwards changes their answer only.
Decide(d) ==
    /\ Is(d, "advancing")
    /\ \/ job[d].op = "assign" /\ Put(d, Moved("Acceptance", card.start), "idle", "idle")
       \/ /\ job[d].op = "resume"
          /\ \E start \in {card.start, Planned} : Put(d, Moved("Execution", start), "idle", "idle")
       \/ job[d].op = "return" /\ Put(d, Moved("Suspension", card.start), "idle", "idle")
    /\ UNCHANGED <<list, page, moves, saved, upset>>

-----------------------------------------------------------------------------
(* Failures.                                                               *)

\* A read fails, or a write of the list that was not carried out.
Fails(p) ==
    /\ ~Is(p, "idle") /\ ~Putting(p)
    /\ May("fault")
    /\ Goes(p, IF job[p].stage \in {"clearing", "unmarking"} THEN "showing" ELSE "idle")
    /\ UNCHANGED <<card, list, page, moves, saved, upset>>

\* The pages stay, with an error.
Crash ==
    /\ May("crash")
    /\ job' = [p \in Processes |-> Idle]
    /\ UNCHANGED <<card, list, page, moves, saved, upset>>

-----------------------------------------------------------------------------
Next ==
    \/ \E p \in Phones :
         \/ Open(p) \/ Reopen(p) \/ UnmarkRead(p) \/ Unmark(p) \/ Show(p) \/ Answer(p)
         \/ Start(p) \/ Advance(p) \/ Wait(p) \/ Confirm(p) \/ Seal(p)
         \/ Suspend(p) \/ Finish(p) \/ SaveRead(p) \/ Save(p) \/ MarkRead(p) \/ Mark(p)
         \/ Close(p) \/ AssertComplete(p) \/ Leave(p) \/ Check(p)
         \/ Fails(p)
    \/ \E d \in Desks : Assign(d) \/ Decide(d) \/ \E op \in {"resume", "return"} : Supervise(d, op)
    \/ Crash

Spec == Init /\ [][Next]_vars

-----------------------------------------------------------------------------
(* Properties.                                                             *)

\* Types; a supervisor's request is at its write, a technician's anywhere else.
TypeOK ==
    /\ card \in Card
    /\ list \in List
    /\ page \in [Phones -> Page]
    /\ job \in [Processes -> Job]
    /\ \A d \in Desks : job[d].stage \in {"idle", "advancing"}
    /\ moves \in 0..MaxMoves /\ mishaps \in 0..MaxMishaps
    /\ saved \subseteq Items
    /\ upset \subseteq {"list", "start", "silent"}

\* What a technician was told is saved stays in the list, through suspensions,
\* resumptions, failures, and pages that show an older list: unless two requests
\* rewrote the array at the same time.
AnswersKept == "list" \notin upset => saved \subseteq list.done

\* A maintenance is closed with a value for every activity, although both openMAINT and
\* the backend take N.D. for one, and a suspension that fails half-way leaves N.D. in a
\* maintenance under execution: unless two requests rewrote the array at the same time.
CompletedIsAnswered ==
    card.status = "Completed" /\ "list" \notin upset => list.done = Items

\* The start that a technician sealed stays: neither the loser of two starts at once, nor a
\* retry, nor a close moves it.  The exceptions: a resumption, in which openMAINT may fill
\* it in again; a close that had read an older one; a start that openMAINT said 200 to and
\* did not make, which seals what another one started.
StartIsKept ==
    [][card.start \in Phones /\ card'.start # card.start
         => card.status = "Suspension" \/ upset' \cap {"start", "silent"} # {}]_vars
=============================================================================
