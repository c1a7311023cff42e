---------------------------- MODULE PreventiveProofs ----------------------------
(***************************************************************************)
(* For any number of activities, pages and supervisors, and any failures:  *)
(* what was saved is kept, a maintenance is closed with all its answers,   *)
(* and the start that was sealed stays.                                    *)
(***************************************************************************)
EXTENDS Preventive, TLAPS

Stages == {"idle", "clearing", "unmarking", "showing", "advancing", "waiting",
           "confirming", "sealing", "reopening", "reading", "merging", "pending",
           "marking", "closing", "asserting", "leaving", "checking"}
Ops == {"none", "open", "start", "suspend", "finish", "assign", "resume", "return"}

-----------------------------------------------------------------------------
(* Types of the parts.                                                     *)

LEMMA TypeGives ==
    ASSUME TypeOK
    PROVE  /\ card \in Card /\ card.status \in Statuses /\ card.activity \in Nat
           /\ card.start \in Phones \cup {None, Planned}
           /\ list \in List /\ list.done \subseteq Items /\ list.nd \subseteq Items
           /\ page \in [Phones -> Page]
           /\ job \in [Processes -> Job]
           /\ moves \in 0..MaxMoves /\ mishaps \in 0..MaxMishaps
           /\ saved \subseteq Items /\ upset \subseteq {"list", "start", "silent"}
  BY DEF TypeOK, Card, List

LEMMA JobParts ==
    ASSUME NEW j
    PROVE  j \in Job <=> /\ j = [op |-> j.op, stage |-> j.stage, card |-> j.card,
                                 list |-> j.list, items |-> j.items]
                         /\ j.op \in Ops /\ j.stage \in Stages
                         /\ j.card \in Card /\ j.list \in List /\ j.items \in SUBSET Items
  BY DEF Job, Ops, Stages

LEMMA Nothing == NewCard \in Card /\ NewList \in List /\ Idle \in Job /\ Blank \in Page
  <1>1. NewCard \in Card
    BY DEF NewCard, Card, Statuses
  <1>2. NewList \in List
    BY DEF NewList, List
  <1>3. Blank \in Page
    BY DEF Blank, Page
  <1>4. Idle \in Job
    BY <1>1, <1>2 DEF Idle, Job
  <1>. QED
    BY <1>1, <1>2, <1>3, <1>4

LEMMA MayType ==
    ASSUME TypeOK, NEW operation, May(operation) \/ Well
    PROVE  mishaps' \in 0..MaxMishaps
  BY TypeGives, MaxAssumption DEF May, Well

\* What one process turns to, the others being where they were.
LEMMA Turned ==
    ASSUME TypeOK, NEW p \in Processes, NEW j, Turns(p, j)
    PROVE  /\ job'[p] = j
           /\ \A q \in Processes \ {p} : job'[q] = job[q]
           /\ j \in Job => job' \in [Processes -> Job]
  BY TypeGives DEF Turns

\* A request that began.
LEMMA Begun ==
    ASSUME TypeOK, NEW p \in Processes, NEW op \in Ops, NEW stage \in Stages,
           NEW read \in Card, NEW items \in SUBSET Items, Begins(p, op, stage, read, items)
    PROVE  /\ job' \in [Processes -> Job]
           /\ \A q \in Processes \ {p} : job'[q] = job[q]
           /\ job'[p].op = op /\ job'[p].stage = stage /\ job'[p].card = read
           /\ job'[p].items = items
           /\ job[p].stage = "idle"
  <1> DEFINE j == [op |-> op, stage |-> stage, card |-> read, list |-> NewList, items |-> items]
  <1>1. j \in Job
    BY Nothing DEF Job, Ops, Stages
  <1>2. Turns(p, j) /\ job[p].stage = "idle"
    BY DEF Begins, Is
  <1>3. j.op = op /\ j.stage = stage /\ j.card = read /\ j.items = items
    OBVIOUS
  <1> HIDE DEF j
  <1>. QED
    BY <1>1, <1>2, <1>3, Turned

\* A request that went on.
LEMMA Gone ==
    ASSUME TypeOK, NEW p \in Processes, NEW stage \in Stages, Goes(p, stage)
    PROVE  /\ job' \in [Processes -> Job]
           /\ \A q \in Processes \ {p} : job'[q] = job[q]
           /\ job'[p].stage = stage
           /\ stage = "idle" => job'[p] = Idle
           /\ stage # "idle" => job'[p].op = job[p].op /\ job'[p].card = job[p].card
  <1>1. CASE stage = "idle"
    BY <1>1, Turned, Nothing DEF Goes, Idle
  <1>2. CASE stage # "idle"
    <2> DEFINE j == [job[p] EXCEPT !.stage = stage, !.list = NewList, !.items = {}]
    <2>1. job[p] \in Job
      BY TypeGives
    <2>2. j \in Job /\ j.stage = stage /\ j.op = job[p].op /\ j.card = job[p].card
      BY <2>1, Nothing DEF Job, Stages
    <2>3. Turns(p, j)
      BY <1>2 DEF Goes
    <2> HIDE DEF j
    <2>. QED
      BY <1>2, <2>2, <2>3, Turned
  <1>. QED
    BY <1>1, <1>2

LEMMA CardWasRead ==
    ASSUME TypeOK, NEW p \in Processes, NEW stage \in Stages, ReadsCard(p, stage)
    PROVE  /\ job' \in [Processes -> Job]
           /\ \A q \in Processes \ {p} : job'[q] = job[q]
           /\ job'[p].stage = stage /\ job'[p].card = card
           /\ job'[p].op = job[p].op
  <1> DEFINE j == [job[p] EXCEPT !.stage = stage, !.card = card]
  <1>1. job[p] \in Job
    BY TypeGives
  <1>2. j \in Job /\ j.stage = stage /\ j.op = job[p].op /\ j.card = card
    BY <1>1, TypeGives DEF Job, Stages
  <1>3. Turns(p, j)
    BY DEF ReadsCard
  <1> HIDE DEF j
  <1>. QED
    BY <1>2, <1>3, Turned

LEMMA ListWasRead ==
    ASSUME TypeOK, NEW p \in Processes, NEW stage \in Stages, ReadsList(p, stage)
    PROVE  /\ job' \in [Processes -> Job]
           /\ \A q \in Processes \ {p} : job'[q] = job[q]
           /\ job'[p].stage = stage /\ job'[p].items = job[p].items
           /\ job'[p].op = job[p].op /\ job'[p].card = job[p].card
  <1> DEFINE j == [job[p] EXCEPT !.stage = stage, !.list = list]
  <1>1. job[p] \in Job
    BY TypeGives
  <1>2. /\ j \in Job /\ j.stage = stage /\ j.op = job[p].op
        /\ j.card = job[p].card /\ j.items = job[p].items
    BY <1>1, TypeGives DEF Job, Stages
  <1>3. Turns(p, j)
    BY DEF ReadsList
  <1> HIDE DEF j
  <1>. QED
    BY <1>2, <1>3, Turned

\* A write of the process card.
LEMMA PutCases ==
    ASSUME TypeOK, NEW p \in Processes, NEW card1, NEW stage, NEW otherwise,
           Put(p, card1, stage, otherwise)
    PROVE  /\ mishaps' \in 0..MaxMishaps
           /\ \/ /\ card.activity = job[p].card.activity /\ card' = card1
                 /\ Goes(p, stage) \/ Goes(p, otherwise)
              \/ card' = card /\ Goes(p, otherwise)
  <1>1. mishaps' \in 0..MaxMishaps
    BY MayType DEF Put
  <1>. QED
    BY <1>1 DEF Put

-----------------------------------------------------------------------------
(* The inductive invariant.                                                *)

\* The status in which a request read the activity that it will name.
Expects(j, s) ==
    \/ j.stage = "advancing" /\ \/ s = "Planning" /\ j.op = "assign"
                                \/ s = "Acceptance" /\ j.op = "start"
                                \/ s = "Suspension" /\ j.op \in {"resume", "return"}
    \/ s = "Execution" /\ \/ j.stage \in {"asserting", "leaving", "sealing"}
                          \/ j.op = "suspend" /\ j.stage \in {"reading", "merging", "pending", "marking"}

\* As long as the activity is the same, so is the status.
Current(j) ==
    \A s \in Statuses : Expects(j, s) =>
        /\ j.card.activity <= card.activity
        /\ j.card.activity = card.activity => card.status = s

\* Only a suspension marks, and a close brings all the answers.
Sound(j) ==
    /\ j.stage \in {"pending", "marking"} => j.op = "suspend"
    /\ j.stage \in {"reading", "merging"} /\ j.op # "suspend" => j.items = Items

\* A close that has saved them.
Late(j) == j.op # "suspend" /\ j.stage \in {"closing", "asserting", "leaving", "checking"}

\* The winner of a start, which has not sealed it yet.
Winner(j) == j.stage \in {"confirming", "sealing"}

Requests == \A p \in Processes : Current(job[p]) /\ Sound(job[p])

Answered ==
    "list" \notin upset =>
        /\ saved \subseteq list.done
        /\ card.status = "Completed" => list.done = Items
        /\ \A p \in Processes : Late(job[p]) => list.done = Items

Sealed ==
    upset \cap {"start", "silent"} = {} =>
        /\ \A p, q \in Processes : Winner(job[p]) /\ Winner(job[q]) => p = q
        /\ \A p \in Processes : Winner(job[p]) => card.start \notin Phones
        /\ card.status \in {"Planning", "Acceptance"} =>
             card.start = None /\ \A p \in Processes : ~Winner(job[p])

IInv == TypeOK /\ Requests /\ Answered /\ Sealed

LEMMA TypeParts ==
    ASSUME card' \in Card, list' \in List, page' \in [Phones -> Page],
           job' \in [Processes -> Job], moves' \in 0..MaxMoves, mishaps' \in 0..MaxMishaps,
           saved' \subseteq Items, upset' \subseteq {"list", "start", "silent"},
           \A d \in Desks : job'[d].stage \in {"idle", "advancing"}
    PROVE  TypeOK'
  BY DEF TypeOK

LEMMA IdleIsFree ==
    /\ ~Winner(Idle) /\ ~Late(Idle) /\ Sound(Idle)
    /\ \A s \in Statuses : ~Expects(Idle, s)
    /\ Idle.stage = "idle"
  BY DEF Idle, Winner, Late, Sound, Expects

LEMMA InitInv == Init => IInv
  <1>. SUFFICES ASSUME Init PROVE IInv
    OBVIOUS
  <1>1. \A p \in Processes : job[p] = Idle
    BY DEF Init
  <1>2. TypeOK
    BY Nothing, IdleIsFree, MaxAssumption DEF Init, TypeOK, Processes
  <1>3. Requests
    BY <1>1, IdleIsFree DEF Requests, Current
  <1>4. Answered
    BY <1>1, IdleIsFree DEF Init, Answered, NewCard, NewList
  <1>5. Sealed
    BY <1>1, IdleIsFree DEF Init, Sealed, NewCard
  <1>. QED
    BY <1>2, <1>3, <1>4, <1>5 DEF IInv

-----------------------------------------------------------------------------
(* Steps that write nothing.                                               *)

\* What a request may turn to without any card being written.
Follows(j1, j) ==
    /\ \A s \in Statuses : Expects(j1, s) =>
         (j1.card = card /\ card.status = s) \/ (Expects(j, s) /\ j1.card = j.card)
    /\ Sound(j) => Sound(j1)
    /\ Winner(j1) => Winner(j)
    /\ Late(j1) => Late(j) \/ ~Sound(j)

Quiet(p) ==
    /\ UNCHANGED <<card, list, saved, upset>>
    /\ job' \in [Processes -> Job] /\ \A q \in Processes \ {p} : job'[q] = job[q]
    /\ Follows(job'[p], job[p])
    /\ p \in Desks => job'[p].stage \in {"idle", "advancing"}

LEMMA IdleFollows == \A j : Follows(Idle, j)
  BY IdleIsFree DEF Follows

LEMMA QuietKeeps ==
    ASSUME IInv, NEW p \in Processes, Quiet(p),
           page' \in [Phones -> Page], moves' \in 0..MaxMoves, mishaps' \in 0..MaxMishaps
    PROVE  IInv'
  <1>. USE DEF IInv
  <1>1. TypeOK'
    <2>1. \A d \in Desks : job'[d].stage \in {"idle", "advancing"}
      BY DEF Quiet, TypeOK, Processes
    <2>2. UNCHANGED <<card, list, saved, upset>> /\ job' \in [Processes -> Job]
      BY DEF Quiet
    <2>. QED
      BY <2>1, <2>2, TypeGives, TypeParts
  <1>2. Sound(job[p]) /\ Current(job[p]) /\ Follows(job'[p], job[p])
    BY DEF Quiet, Requests
  <1>3. Sound(job'[p])
    BY <1>2 DEF Follows
  <1>4. Current(job[p])'
    <2> SUFFICES ASSUME NEW s \in Statuses, Expects(job'[p], s)
                 PROVE  /\ job'[p].card.activity <= card.activity
                        /\ job'[p].card.activity = card.activity => card.status = s
      BY DEF Current, Quiet
    <2>1. CASE job'[p].card = card /\ card.status = s
      BY <2>1, TypeGives
    <2>2. CASE Expects(job[p], s) /\ job'[p].card = job[p].card
      BY <1>2, <2>2 DEF Current
    <2>. QED
      BY <1>2, <2>1, <2>2 DEF Follows
  <1>5. \A q \in Processes \ {p} : Current(job[q])' /\ Sound(job'[q])
    BY DEF Quiet, Requests, Current
  <1>6. Requests'
    BY <1>3, <1>4, <1>5 DEF Requests
  <1>7. Answered'
    BY <1>2 DEF Answered, Quiet, Follows
  <1>8. Sealed'
    <2>1. \A q \in Processes : Winner(job'[q]) => Winner(job[q])
      BY <1>2 DEF Quiet, Follows
    <2>. QED
      BY <2>1 DEF Sealed, Quiet
  <1>. QED
    BY <1>1, <1>6, <1>7, <1>8

\* What is left to the type of a quiet step.
Plain == page' \in [Phones -> Page] /\ moves' \in 0..MaxMoves /\ mishaps' \in 0..MaxMishaps

\* A technician's request goes on, or ends, as told.
LEMMA GoneFollows ==
    ASSUME TypeOK, NEW p \in Phones, NEW stage \in Stages, Goes(p, stage),
           UNCHANGED <<card, list, saved, upset>>,
           \/ stage = "idle"
           \/ \A j : /\ j.stage = stage /\ j.op = job[p].op /\ j.card = job[p].card
                     => Follows(j, job[p])
    PROVE  Quiet(p)
  <1>1. p \in Processes /\ p \notin Desks
    BY DesksAssumption DEF Processes
  <1>2. Follows(job'[p], job[p])
    <2>1. CASE stage = "idle"
      BY <1>1, <2>1, Gone, IdleFollows
    <2>2. CASE stage # "idle"
      BY <1>1, <2>2, Gone
    <2>. QED
      BY <2>1, <2>2
  <1>. QED
    BY <1>1, <1>2, Gone DEF Quiet

LEMMA BeginsQuietly ==
    ASSUME IInv, NEW p \in Phones, Open(p) \/ Start(p) \/ Suspend(p) \/ Finish(p)
    PROVE  Quiet(p) /\ Plain
  <1>0. TypeOK /\ p \in Processes /\ p \notin Desks
    BY DesksAssumption DEF IInv, Processes
  <1>t. page' \in [Phones -> Page] /\ moves' \in 0..MaxMoves /\ mishaps' \in 0..MaxMishaps
    BY <1>0, TypeGives, Nothing DEF Open, Start, Suspend, Finish
  <1>i. page[p].has \in SUBSET Items /\ {} \in SUBSET Items
    BY <1>0, TypeGives DEF Page
  <1>1. CASE Open(p)
    <2>1. AfterOpening \in Stages /\ AfterOpening \in {"clearing", "showing"} /\ "open" \in Ops
      BY DEF AfterOpening, Stages, Ops
    <2>2. Begins(p, "open", AfterOpening, card, {})
      BY <1>1 DEF Open
    <2>3. /\ job' \in [Processes -> Job] /\ \A q \in Processes \ {p} : job'[q] = job[q]
          /\ job'[p].op = "open" /\ job'[p].stage = AfterOpening
      BY <1>0, <1>i, <2>1, <2>2, Begun, TypeGives
    <2>4. Follows(job'[p], job[p])
      BY <2>1, <2>3 DEF Follows, Expects, Sound, Winner, Late
    <2>. QED
      BY <1>0, <1>t, <1>1, <2>3, <2>4 DEF Open, Quiet, Plain
  <1>2. CASE Start(p)
    <2> DEFINE s == IF card.status = "Acceptance" THEN "advancing" ELSE "reopening"
    <2>1. s \in Stages /\ "start" \in Ops
      BY DEF Stages, Ops
    <2>2. Begins(p, "start", s, card, {})
      BY <1>2 DEF Start
    <2> HIDE DEF s
    <2>3. /\ job' \in [Processes -> Job] /\ \A q \in Processes \ {p} : job'[q] = job[q]
          /\ job'[p].op = "start" /\ job'[p].stage = s /\ job'[p].card = card
      BY <1>0, <1>i, <2>1, <2>2, Begun, TypeGives
    <2>4. Follows(job'[p], job[p])
      BY <2>3 DEF s, Follows, Expects, Sound, Winner, Late
    <2>. QED
      BY <1>0, <1>t, <1>2, <2>3, <2>4 DEF Start, Quiet, Plain
  <1>3. CASE Suspend(p)
    <2> DEFINE s == IF page[p].has = {} THEN "pending" ELSE "reading"
    <2>1. s \in Stages /\ "suspend" \in Ops
      BY DEF Stages, Ops
    <2>2. Begins(p, "suspend", s, card, page[p].has) /\ card.status = "Execution"
      BY <1>3 DEF Suspend
    <2> HIDE DEF s
    <2>3. /\ job' \in [Processes -> Job] /\ \A q \in Processes \ {p} : job'[q] = job[q]
          /\ job'[p].op = "suspend" /\ job'[p].stage = s /\ job'[p].card = card
      BY <1>0, <1>i, <2>1, <2>2, Begun, TypeGives
    <2>4. Follows(job'[p], job[p])
      BY <2>2, <2>3 DEF s, Follows, Expects, Sound, Winner, Late
    <2>. QED
      BY <1>0, <1>t, <1>3, <2>3, <2>4 DEF Suspend, Quiet, Plain
  <1>4. CASE Finish(p)
    <2>1. "reading" \in Stages /\ "finish" \in Ops
      BY DEF Stages, Ops
    <2>2. Begins(p, "finish", "reading", NewCard, page[p].has) /\ page[p].has = Items
      BY <1>4 DEF Finish
    <2>3. /\ job' \in [Processes -> Job] /\ \A q \in Processes \ {p} : job'[q] = job[q]
          /\ job'[p].op = "finish" /\ job'[p].stage = "reading" /\ job'[p].items = Items
      BY <1>0, <1>i, <2>1, <2>2, Begun, Nothing
    <2>4. Follows(job'[p], job[p])
      BY <2>3 DEF Follows, Expects, Sound, Winner, Late
    <2>. QED
      BY <1>0, <1>t, <1>4, <2>3, <2>4 DEF Finish, Quiet, Plain
  <1>. QED
    BY <1>1, <1>2, <1>3, <1>4

LEMMA GoesQuietly ==
    ASSUME IInv, NEW p \in Phones,
           Show(p) \/ Wait(p) \/ AssertComplete(p) \/ Check(p) \/ Fails(p)
    PROVE  Quiet(p) /\ Plain
  <1>0. TypeOK /\ p \in Processes /\ card.status \in Statuses /\ list.done \in SUBSET Items
    BY TypeGives DEF IInv, Processes
  <1>s. {"idle", "showing", "reopening", "leaving"} \subseteq Stages
    BY DEF Stages
  <1>1. CASE Show(p)
    <2>1. page' \in [Phones -> Page]
      <3>1. job[p].card.status \in Statuses
        BY <1>0, TypeGives DEF Job, Card
      <3>2. [status |-> job[p].card.status, has |-> list.done] \in Page
        BY <1>0, <3>1 DEF Page
      <3>. QED
        BY <1>0, <1>1, <3>2, TypeGives DEF Show
    <2>2. Goes(p, "idle") /\ UNCHANGED <<card, list, moves, mishaps, saved, upset>>
      BY <1>1 DEF Show
    <2>. QED
      BY <1>0, <1>s, <2>1, <2>2, GoneFollows, TypeGives DEF Plain
  <1>2. CASE Wait(p)
    <2> DEFINE s == IF card.status = "Execution" THEN "reopening" ELSE "idle"
    <2>1. Goes(p, s) /\ UNCHANGED <<card, list, page, moves, mishaps, saved, upset>>
      BY <1>2 DEF Wait
    <2>2. s \in Stages /\ s \in {"reopening", "idle"}
      BY <1>s
    <2> HIDE DEF s
    <2>4. job[p].stage = "waiting"
      BY <1>2 DEF Wait, Is
    <2>3. ASSUME NEW j, j.stage = s, j.op = job[p].op, j.card = job[p].card, s # "idle"
          PROVE  Follows(j, job[p])
      BY <2>2, <2>3, <2>4 DEF Follows, Expects, Sound, Winner, Late
    <2>. QED
      BY <1>0, <2>1, <2>2, <2>3, GoneFollows, TypeGives DEF Plain
  <1>3. CASE AssertComplete(p)
    <2> DEFINE s == IF Resolved(list) THEN "leaving" ELSE "idle"
    <2>1. Goes(p, s) /\ UNCHANGED <<card, list, page, moves, mishaps, saved, upset>>
      BY <1>3 DEF AssertComplete
    <2>2. s \in Stages /\ s \in {"leaving", "idle"}
      BY <1>s
    <2> HIDE DEF s
    <2>4. job[p].stage = "asserting"
      BY <1>3 DEF AssertComplete, Is
    <2>3. ASSUME NEW j, j.stage = s, j.op = job[p].op, j.card = job[p].card, s # "idle"
          PROVE  Follows(j, job[p])
      BY <2>2, <2>3, <2>4 DEF Follows, Expects, Sound, Winner, Late
    <2>. QED
      BY <1>0, <2>1, <2>2, <2>3, GoneFollows, TypeGives DEF Plain
  <1>4. CASE Check(p)
    <2>1. page' \in [Phones -> Page]
      BY <1>0, <1>4, Nothing, TypeGives DEF Check
    <2>2. Goes(p, "idle") /\ UNCHANGED <<card, list, moves, mishaps, saved, upset>>
      BY <1>4 DEF Check
    <2>. QED
      BY <1>0, <1>s, <2>1, <2>2, GoneFollows, TypeGives DEF Plain
  <1>5. CASE Fails(p)
    <2> DEFINE s == IF job[p].stage \in {"clearing", "unmarking"} THEN "showing" ELSE "idle"
    <2>1. /\ Goes(p, s) /\ UNCHANGED <<card, list, page, moves, saved, upset>>
          /\ mishaps' \in 0..MaxMishaps
      BY <1>0, <1>5, MayType DEF Fails
    <2>2. s \in Stages /\ s \in {"showing", "idle"}
      BY <1>s
    <2>4. s = "showing" => job[p].stage \in {"clearing", "unmarking"}
      OBVIOUS
    <2> HIDE DEF s
    <2>3. ASSUME NEW j, j.stage = s, j.op = job[p].op, j.card = job[p].card, s # "idle"
          PROVE  Follows(j, job[p])
      BY <2>2, <2>3, <2>4 DEF Follows, Expects, Sound, Winner, Late
    <2>. QED
      BY <1>0, <2>1, <2>2, <2>3, GoneFollows, TypeGives DEF Plain
  <1>. QED
    BY <1>1, <1>2, <1>3, <1>4, <1>5

LEMMA ReadsQuietly ==
    ASSUME IInv, NEW p \in Phones,
           \/ Reopen(p) \/ UnmarkRead(p) \/ Confirm(p) \/ SaveRead(p) \/ MarkRead(p)
           \/ Close(p) \/ Answer(p)
    PROVE  Quiet(p) /\ Plain
  <1>0. TypeOK /\ p \in Processes /\ p \notin Desks
    BY DesksAssumption DEF IInv, Processes
  <1>s. {"idle", "clearing", "showing", "unmarking", "sealing", "merging", "leaving", "marking",
         "asserting"} \subseteq Stages
    BY DEF Stages
  <1>c. ASSUME NEW s \in Stages, ReadsCard(p, s), UNCHANGED <<card, list, saved, upset>>,
               \A j : j.stage = s /\ j.card = card /\ j.op = job[p].op => Follows(j, job[p])
        PROVE  Quiet(p)
    BY <1>0, <1>c, CardWasRead DEF Quiet
  <1>l. ASSUME NEW s \in Stages, ReadsList(p, s), UNCHANGED <<card, list, saved, upset>>,
               \A j : (j.stage = s /\ j.card = job[p].card /\ j.op = job[p].op
                       /\ j.items = job[p].items) => Follows(j, job[p])
        PROVE  Quiet(p)
    BY <1>0, <1>l, ListWasRead DEF Quiet
  <1>t. moves' \in 0..MaxMoves /\ mishaps' \in 0..MaxMishaps
    BY <1>0, TypeGives DEF Reopen, UnmarkRead, Confirm, SaveRead, MarkRead, Close, Answer
  <1>g. page' \in [Phones -> Page]
    <2>1. CASE UNCHANGED page
      BY <1>0, <2>1, TypeGives
    <2>2. CASE Answer(p)
      <3>1. PICK i \in Items : page' = [page EXCEPT ![p].has = IF i \in @ THEN @ \ {i} ELSE @ \cup {i}]
        BY <2>2 DEF Answer
      <3>2. page[p] \in Page
        BY <1>0, TypeGives
      <3>3. [page[p] EXCEPT !.has = IF i \in @ THEN @ \ {i} ELSE @ \cup {i}] \in Page
        BY <3>2 DEF Page
      <3>4. page' = [page EXCEPT ![p] = [page[p] EXCEPT !.has = IF i \in @ THEN @ \ {i} ELSE @ \cup {i}]]
        BY <3>1
      <3>. QED
        BY <1>0, <3>3, <3>4, TypeGives
    <2>. QED
      BY <2>1, <2>2 DEF Reopen, UnmarkRead, Confirm, SaveRead, MarkRead, Close
  <1>1. CASE Reopen(p)
    <2>1. AfterOpening \in Stages /\ AfterOpening \in {"clearing", "showing"}
      BY <1>s DEF AfterOpening
    <2>2. ReadsCard(p, AfterOpening) /\ UNCHANGED <<card, list, saved, upset>>
          /\ job[p].stage = "reopening"
      BY <1>1 DEF Reopen, Is
    <2>3. ASSUME NEW j, j.stage = AfterOpening, j.card = card, j.op = job[p].op
          PROVE  Follows(j, job[p])
      <3>1. \A s : ~Expects(j, s)
        BY <2>1, <2>3 DEF Expects
      <3>2. Sound(j) /\ ~Winner(j) /\ ~Late(j)
        BY <2>1, <2>3 DEF Sound, Winner, Late
      <3>. QED
        BY <3>1, <3>2 DEF Follows
    <2>. QED
      BY <1>c, <1>t, <1>g, <2>1, <2>2, <2>3 DEF Plain
  <1>2. CASE UnmarkRead(p)
    <2>0. UNCHANGED <<card, list, saved, upset>> /\ job[p].stage = "clearing"
      BY <1>2 DEF UnmarkRead, Is
    <2>1. CASE Goes(p, "showing")
      <3>1. ASSUME NEW j, j.stage = "showing", j.op = job[p].op, j.card = job[p].card
            PROVE  Follows(j, job[p])
        BY <3>1 DEF Follows, Expects, Sound, Winner, Late
      <3>. QED
        BY <1>0, <1>s, <1>t, <1>g, <2>0, <2>1, <3>1, GoneFollows DEF Plain
    <2>2. CASE ReadsList(p, "unmarking")
      <3>1. ASSUME NEW j, j.stage = "unmarking", j.card = job[p].card, j.op = job[p].op,
                   j.items = job[p].items
            PROVE  Follows(j, job[p])
        BY <3>1 DEF Follows, Expects, Sound, Winner, Late
      <3>. QED
        BY <1>s, <1>l, <1>t, <1>g, <2>0, <2>2, <3>1 DEF Plain
    <2>. QED
      BY <1>2, <2>1, <2>2 DEF UnmarkRead
  <1>3. CASE Confirm(p)
    <2>0. UNCHANGED <<card, list, saved, upset>> /\ job[p].stage = "confirming"
      BY <1>3 DEF Confirm, Is
    <2>1. CASE Goes(p, "idle")
      BY <1>0, <1>s, <1>t, <1>g, <2>0, <2>1, GoneFollows DEF Plain
    <2>2. CASE ReadsCard(p, "sealing") /\ card.status = "Execution"
      <3>1. ASSUME NEW j, j.stage = "sealing", j.card = card, j.op = job[p].op
            PROVE  Follows(j, job[p])
        <4>1. \A s : Expects(j, s) => s = "Execution"
          BY <3>1 DEF Expects
        <4>2. Sound(j)
          BY <3>1 DEF Sound
        <4>3. (Winner(j) => Winner(job[p])) /\ (Late(j) => Late(job[p]))
          BY <2>0, <3>1 DEF Winner, Late
        <4>. QED
          BY <2>2, <3>1, <4>1, <4>2, <4>3 DEF Follows
      <3>. QED
        BY <1>s, <1>c, <1>t, <1>g, <2>0, <2>2, <3>1 DEF Plain
    <2>. QED
      BY <1>3, <2>1, <2>2 DEF Confirm
  <1>4. CASE SaveRead(p)
    <2>0. /\ UNCHANGED <<card, list, saved, upset>> /\ job[p].stage = "reading"
          /\ ReadsList(p, "merging")
      BY <1>4 DEF SaveRead, Is
    <2>1. ASSUME NEW j, j.stage = "merging", j.card = job[p].card, j.op = job[p].op,
                 j.items = job[p].items
          PROVE  Follows(j, job[p])
      BY <2>0, <2>1 DEF Follows, Expects, Sound, Winner, Late
    <2>. QED
      BY <1>s, <1>l, <1>t, <1>g, <2>0, <2>1 DEF Plain
  <1>5. CASE MarkRead(p)
    <2>0. UNCHANGED <<card, list, saved, upset>> /\ job[p].stage = "pending"
      BY <1>5 DEF MarkRead, Is
    <2>s. job[p].op = "suspend"
      BY <1>0, <2>0 DEF IInv, Requests, Sound
    <2>1. CASE Goes(p, "leaving")
      <3>1. ASSUME NEW j, j.stage = "leaving", j.op = job[p].op, j.card = job[p].card
            PROVE  Follows(j, job[p])
        BY <2>0, <2>s, <3>1 DEF Follows, Expects, Sound, Winner, Late
      <3>. QED
        BY <1>0, <1>s, <1>t, <1>g, <2>0, <2>1, <3>1, GoneFollows DEF Plain
    <2>2. CASE ReadsList(p, "marking")
      <3>1. ASSUME NEW j, j.stage = "marking", j.card = job[p].card, j.op = job[p].op,
                   j.items = job[p].items
            PROVE  Follows(j, job[p])
        BY <2>0, <2>s, <3>1 DEF Follows, Expects, Sound, Winner, Late
      <3>. QED
        BY <1>s, <1>l, <1>t, <1>g, <2>0, <2>2, <3>1 DEF Plain
    <2>. QED
      BY <1>5, <2>1, <2>2 DEF MarkRead
  <1>6. CASE Close(p)
    <2>0. UNCHANGED <<card, list, saved, upset>> /\ job[p].stage = "closing"
      BY <1>6 DEF Close, Is
    <2>1. CASE Goes(p, "idle")
      BY <1>0, <1>s, <1>t, <1>g, <2>0, <2>1, GoneFollows DEF Plain
    <2>2. CASE ReadsCard(p, "asserting") /\ card.status = "Execution"
      <3>1. ASSUME NEW j, j.stage = "asserting", j.card = card, j.op = job[p].op
            PROVE  Follows(j, job[p])
        <4>1. \A s : Expects(j, s) => s = "Execution"
          BY <3>1 DEF Expects
        <4>2. Sound(j)
          BY <3>1 DEF Sound
        <4>3. (Winner(j) => Winner(job[p])) /\ (Late(j) => Late(job[p]))
          BY <2>0, <3>1 DEF Winner, Late
        <4>. QED
          BY <2>2, <3>1, <4>1, <4>2, <4>3 DEF Follows
      <3>. QED
        BY <1>s, <1>c, <1>t, <1>g, <2>0, <2>2, <3>1 DEF Plain
    <2>. QED
      BY <1>6, <2>1, <2>2 DEF Close
  <1>7. CASE Answer(p)
    <2>1. UNCHANGED <<card, list, job, saved, upset>>
      BY <1>7 DEF Answer
    <2>2. Follows(job[p], job[p])
      BY DEF Follows
    <2>. QED
      BY <1>0, <1>t, <1>g, <2>1, <2>2, TypeGives DEF Quiet, Plain
  <1>. QED
    BY <1>1, <1>2, <1>3, <1>4, <1>5, <1>6, <1>7

LEMMA DesksBeginQuietly ==
    ASSUME IInv, NEW d \in Desks,
           Assign(d) \/ \E op \in {"resume", "return"} : Supervise(d, op)
    PROVE  Quiet(d) /\ Plain
  <1>0. TypeOK /\ d \in Processes /\ {} \in SUBSET Items
    BY DEF IInv, Processes
  <1>1. PICK op \in {"assign", "resume", "return"} :
          /\ Begins(d, op, "advancing", card, {})
          /\ card.status = IF op = "assign" THEN "Planning" ELSE "Suspension"
          /\ UNCHANGED <<card, list, page, mishaps, saved, upset>>
          /\ moves' = moves \/ (moves < MaxMoves /\ moves' = moves + 1)
    BY DEF Assign, Supervise
  <1>2. "advancing" \in Stages /\ op \in Ops
    BY DEF Stages, Ops
  <1>3. /\ job' \in [Processes -> Job] /\ \A q \in Processes \ {d} : job'[q] = job[q]
        /\ job'[d].op = op /\ job'[d].stage = "advancing" /\ job'[d].card = card
    BY <1>0, <1>1, <1>2, Begun, TypeGives
  <1>4. Follows(job'[d], job[d])
    BY <1>1, <1>3 DEF Follows, Expects, Sound, Winner, Late
  <1>5. moves' \in 0..MaxMoves
    BY <1>0, <1>1, TypeGives, MaxAssumption
  <1>6. page' \in [Phones -> Page] /\ mishaps' \in 0..MaxMishaps
    BY <1>0, <1>1, TypeGives
  <1>7. Quiet(d)
    BY <1>1, <1>3, <1>4 DEF Quiet
  <1>. QED
    BY <1>5, <1>6, <1>7 DEF Plain

-----------------------------------------------------------------------------
(* Steps that write the list.                                              *)

\* A request that has written the list, and what it was told.
Written(p) ==
    /\ UNCHANGED card
    /\ job' \in [Processes -> Job] /\ \A q \in Processes \ {p} : job'[q] = job[q]
    /\ \A s \in Statuses : Expects(job'[p], s) => Expects(job[p], s) /\ job'[p].card = job[p].card
    /\ Sound(job'[p]) /\ ~Winner(job'[p])
    /\ upset \subseteq upset' /\ upset' \subseteq upset \cup {"list"}
    /\ list' \in List /\ saved' \subseteq Items
    /\ "list" \notin upset' => /\ list.done \subseteq list'.done
                               /\ saved' \subseteq saved \cup list'.done
                               /\ Late(job'[p]) => list'.done = Items

LEMMA WrittenKeeps ==
    ASSUME IInv, NEW p \in Phones, Written(p), Plain
    PROVE  IInv'
  <1>. USE DEF IInv
  <1>0. p \in Processes /\ p \notin Desks /\ TypeOK
    BY DesksAssumption DEF Processes
  <1>1. TypeOK'
    <2>1. \A d \in Desks : job'[d].stage \in {"idle", "advancing"}
      BY <1>0 DEF Written, TypeOK, Processes
    <2>2. card' \in Card /\ upset' \subseteq {"list", "start", "silent"}
      BY TypeGives DEF Written
    <2>. QED
      BY <2>1, <2>2, TypeParts DEF Written, Plain
  <1>2. Requests'
    <2>1. Current(job[p])'
      BY <1>0 DEF Requests, Current, Written
    <2>2. \A q \in Processes \ {p} : Current(job[q])' /\ Sound(job'[q])
      BY DEF Written, Requests, Current
    <2>. QED
      BY <2>1, <2>2 DEF Requests, Written
  <1>3. Answered'
    <2> SUFFICES ASSUME "list" \notin upset'
                 PROVE  /\ saved' \subseteq list'.done
                        /\ card'.status = "Completed" => list'.done = Items
                        /\ \A q \in Processes : Late(job'[q]) => list'.done = Items
      BY DEF Answered
    <2>1. /\ "list" \notin upset /\ list.done \subseteq list'.done
          /\ saved' \subseteq saved \cup list'.done /\ card' = card
          /\ Late(job'[p]) => list'.done = Items
          /\ \A q \in Processes \ {p} : job'[q] = job[q]
      BY DEF Written
    <2>2. list'.done \subseteq Items
      BY DEF Written, List
    <2>3. list.done = Items => list'.done = Items
      BY <2>1, <2>2
    <2>. QED
      BY <2>1, <2>3 DEF Answered
  <1>4. Sealed'
    <2>1. \A q \in Processes : Winner(job'[q]) => Winner(job[q])
      BY DEF Written
    <2>2. card' = card /\ (upset' \cap {"start", "silent"} = {} => upset \cap {"start", "silent"} = {})
      BY DEF Written
    <2>. QED
      BY <2>1, <2>2 DEF Sealed
  <1>. QED
    BY <1>1, <1>2, <1>3, <1>4

\* What a write of the list leaves, whether its answer comes or not.
LEMMA ListWrote ==
    ASSUME TypeOK, NEW p \in Phones, NEW l \in List, NEW told \in SUBSET Items,
           NEW stage \in Stages, NEW otherwise \in Stages,
           WritesList(p, l, told, stage, otherwise)
    PROVE  /\ list' = l /\ mishaps' \in 0..MaxMishaps
           /\ job' \in [Processes -> Job] /\ \A q \in Processes \ {p} : job'[q] = job[q]
           /\ upset \subseteq upset' /\ upset' \subseteq upset \cup {"list"}
           /\ "list" \notin upset' => list = job[p].list
           /\ saved' \subseteq saved \cup told /\ saved' \subseteq Items
           /\ \/ job'[p] = Idle /\ "idle" \in {stage, otherwise}
              \/ /\ job'[p].stage \in {stage, otherwise}
                 /\ job'[p].op = job[p].op /\ job'[p].card = job[p].card
  <1>1. p \in Processes
    BY DEF Processes
  <1>2. Goes(p, stage) \/ Goes(p, otherwise)
    BY DEF WritesList
  <1>3. mishaps' \in 0..MaxMishaps
    BY MayType DEF WritesList
  <1>4. saved' = saved \cup told \/ saved' = saved
    BY DEF WritesList
  <1>5. list' = l /\ upset' = IF list = job[p].list THEN upset ELSE upset \cup {"list"}
    BY DEF WritesList
  <1>6. CASE Goes(p, stage)
    BY <1>1, <1>3, <1>4, <1>5, <1>6, Gone, TypeGives
  <1>7. CASE Goes(p, otherwise)
    BY <1>1, <1>3, <1>4, <1>5, <1>7, Gone, TypeGives
  <1>. QED
    BY <1>2, <1>6, <1>7

LEMMA ListWrites ==
    ASSUME IInv, NEW p \in Phones, Unmark(p) \/ Save(p) \/ Mark(p)
    PROVE  Written(p) /\ Plain
  <1>0. TypeOK /\ p \in Processes /\ {} \in SUBSET Items /\ Sound(job[p]) /\ Sound(Idle)
    BY IdleIsFree DEF IInv, Processes, Requests
  <1>s. {"idle", "showing", "pending", "closing", "leaving"} \subseteq Stages
    BY DEF Stages
  <1>t. job[p].list \in List /\ job[p].items \in SUBSET Items
    BY <1>0, TypeGives DEF Job
  <1>p. page' \in [Phones -> Page] /\ moves' \in 0..MaxMoves /\ UNCHANGED card
    BY <1>0, TypeGives DEF Unmark, Save, Mark
  <1>i. ~Winner(Idle) /\ ~Late(Idle) /\ \A s \in Statuses : ~Expects(Idle, s)
    BY IdleIsFree
  <1>1. CASE Unmark(p)
    <2> DEFINE l == [job[p].list EXCEPT !.nd = {}]
    <2>1. l \in List /\ l.done = job[p].list.done
      BY <1>t DEF List
    <2>n. "idle" \notin {"showing", "showing"} /\ "showing" \in Stages
      BY <1>s
    <2>2. WritesList(p, l, {}, "showing", "showing")
      BY <1>1 DEF Unmark
    <2> HIDE DEF l
    <2>3. /\ list' = l /\ mishaps' \in 0..MaxMishaps
          /\ job' \in [Processes -> Job] /\ \A q \in Processes \ {p} : job'[q] = job[q]
          /\ upset \subseteq upset' /\ upset' \subseteq upset \cup {"list"}
          /\ "list" \notin upset' => list = job[p].list
          /\ saved' \subseteq saved /\ saved' \subseteq Items
          /\ \/ job'[p] = Idle /\ "idle" \in {"showing", "showing"}
             \/ /\ job'[p].stage \in {"showing", "showing"}
                /\ job'[p].op = job[p].op /\ job'[p].card = job[p].card
      BY <1>0, <2>n, <2>1, <2>2, ListWrote
    <2>s. job'[p].stage = "showing"
      BY <2>n, <2>3
    <2>4. /\ Sound(job'[p]) /\ ~Winner(job'[p]) /\ ~Late(job'[p])
          /\ \A s \in Statuses : ~Expects(job'[p], s)
      BY <2>s DEF Sound, Winner, Late, Expects
    <2>. QED
      BY <1>p, <2>1, <2>3, <2>4 DEF Written, Plain
  <1>2. CASE Save(p)
    <2> DEFINE l == [job[p].list EXCEPT !.done = @ \cup job[p].items]
    <2> DEFINE stage == AfterSaving(p)
    <2>1. l \in List /\ l.done = job[p].list.done \cup job[p].items
      BY <1>t DEF List
    <2>2. WritesList(p, l, job[p].items, stage, "idle") /\ job[p].stage = "merging"
      BY <1>2 DEF Save, Is
    <2>n. /\ stage \in Stages
          /\ \/ stage = "pending" /\ job[p].op = "suspend"
             \/ stage = "closing" /\ job[p].op # "suspend"
      BY <1>s DEF AfterSaving
    <2> HIDE DEF l, stage
    <2>3. /\ list' = l /\ mishaps' \in 0..MaxMishaps
          /\ job' \in [Processes -> Job] /\ \A q \in Processes \ {p} : job'[q] = job[q]
          /\ upset \subseteq upset' /\ upset' \subseteq upset \cup {"list"}
          /\ "list" \notin upset' => list = job[p].list
          /\ saved' \subseteq saved \cup job[p].items /\ saved' \subseteq Items
          /\ \/ job'[p] = Idle
             \/ /\ job'[p].stage \in {stage, "idle"}
                /\ job'[p].op = job[p].op /\ job'[p].card = job[p].card
      BY <1>0, <1>s, <1>t, <2>1, <2>2, <2>n, ListWrote
    <2>4. Sound(job'[p]) /\ ~Winner(job'[p])
      BY <1>0, <1>i, <2>n, <2>3 DEF Sound, Winner
    <2>5. \A s \in Statuses : Expects(job'[p], s) => Expects(job[p], s) /\ job'[p].card = job[p].card
      <3>1. CASE job'[p] = Idle
        BY <1>i, <3>1
      <3>2. CASE /\ job'[p].stage \in {stage, "idle"}
                 /\ job'[p].op = job[p].op /\ job'[p].card = job[p].card
        BY <2>2, <2>n, <3>2 DEF Expects
      <3>. QED
        BY <2>3, <3>1, <3>2
    <2>6. Late(job'[p]) => job[p].items = Items
      BY <1>0, <1>i, <2>2, <2>n, <2>3 DEF Late, Sound
    <2>7. "list" \notin upset' =>
             /\ list.done \subseteq list'.done
             /\ saved' \subseteq saved \cup list'.done
             /\ Late(job'[p]) => list'.done = Items
      BY <1>t, <2>1, <2>3, <2>6 DEF List
    <2>. QED
      BY <1>p, <2>1, <2>3, <2>4, <2>5, <2>7 DEF Written, Plain
  <1>3. CASE Mark(p)
    <2> DEFINE l == [job[p].list EXCEPT !.nd = @ \cup (Items \ job[p].list.done)]
    <2>1. l \in List /\ l.done = job[p].list.done
      BY <1>t DEF List
    <2>2. WritesList(p, l, {}, "leaving", "idle") /\ job[p].stage = "marking"
      BY <1>3 DEF Mark, Is
    <2>n. job[p].op = "suspend"
      BY <1>0, <2>2 DEF Sound
    <2> HIDE DEF l
    <2>3. /\ list' = l /\ mishaps' \in 0..MaxMishaps
          /\ job' \in [Processes -> Job] /\ \A q \in Processes \ {p} : job'[q] = job[q]
          /\ upset \subseteq upset' /\ upset' \subseteq upset \cup {"list"}
          /\ "list" \notin upset' => list = job[p].list
          /\ saved' \subseteq saved /\ saved' \subseteq Items
          /\ \/ job'[p] = Idle
             \/ /\ job'[p].stage \in {"leaving", "idle"}
                /\ job'[p].op = job[p].op /\ job'[p].card = job[p].card
      BY <1>0, <1>s, <2>1, <2>2, ListWrote
    <2>4. Sound(job'[p]) /\ ~Winner(job'[p]) /\ ~Late(job'[p])
      BY <1>0, <1>i, <2>n, <2>3 DEF Sound, Winner, Late
    <2>5. \A s \in Statuses : Expects(job'[p], s) => Expects(job[p], s) /\ job'[p].card = job[p].card
      <3>1. CASE job'[p] = Idle
        BY <1>i, <3>1
      <3>2. CASE /\ job'[p].stage \in {"leaving", "idle"}
                 /\ job'[p].op = job[p].op /\ job'[p].card = job[p].card
        BY <2>2, <2>n, <3>2 DEF Expects
      <3>. QED
        BY <2>3, <3>1, <3>2
    <2>. QED
      BY <1>p, <2>1, <2>3, <2>4, <2>5 DEF Written, Plain
  <1>. QED
    BY <1>1, <1>2, <1>3

-----------------------------------------------------------------------------
(* Steps that write the process.                                           *)

\* A request that has written the process, or has been refused.
Moving(p) ==
    /\ UNCHANGED <<list, page, moves, saved>> /\ mishaps' \in 0..MaxMishaps
    /\ upset \subseteq upset' /\ upset' \subseteq {"list", "start", "silent"}
    /\ ("list" \in upset') = ("list" \in upset)
    /\ card' \in Card
    /\ \/ card'.activity = card.activity /\ card'.status = card.status
       \/ card'.activity = card.activity + 1
    /\ card'.status = "Completed" => card.status = "Completed" \/ Late(job[p])
    /\ job' \in [Processes -> Job] /\ \A q \in Processes \ {p} : job'[q] = job[q]
    /\ \A s \in Statuses : ~Expects(job'[p], s)
    /\ Sound(job'[p]) /\ (Late(job'[p]) => Late(job[p]))
    /\ p \in Desks => job'[p].stage = "idle"
    /\ Sealed'

LEMMA MovingKeeps ==
    ASSUME IInv, NEW p \in Processes, Moving(p)
    PROVE  IInv'
  <1>. USE DEF IInv
  <1>1. TypeOK'
    <2>1. \A d \in Desks : job'[d].stage \in {"idle", "advancing"}
      BY DEF Moving, TypeOK, Processes
    <2>2. list' \in List /\ page' \in [Phones -> Page] /\ moves' \in 0..MaxMoves /\ saved' \subseteq Items
      BY TypeGives DEF Moving
    <2>. QED
      BY <2>1, <2>2, TypeParts DEF Moving
  <1>2. Requests'
    <2>1. Current(job[p])' /\ Sound(job'[p])
      BY DEF Moving, Current
    <2>2. ASSUME NEW q \in Processes \ {p}
          PROVE  Current(job[q])' /\ Sound(job'[q])
      <3>1. job'[q] = job[q] /\ Sound(job[q]) /\ Current(job[q])
        BY DEF Moving, Requests
      <3>2. ASSUME NEW s \in Statuses, Expects(job[q], s)
            PROVE  /\ job[q].card.activity <= card'.activity
                   /\ job[q].card.activity = card'.activity => card'.status = s
        <4>1. /\ job[q].card.activity <= card.activity
              /\ job[q].card.activity = card.activity => card.status = s
          BY <3>1, <3>2 DEF Current
        <4>2. job[q].card.activity \in Nat /\ card.activity \in Nat
          BY TypeGives DEF Job, Card
        <4>3. \/ card'.activity = card.activity /\ card'.status = card.status
              \/ card'.activity = card.activity + 1
          BY DEF Moving
        <4>. QED
          BY <4>1, <4>2, <4>3
      <3>. QED
        BY <3>1, <3>2 DEF Current
    <2>. QED
      BY <2>1, <2>2 DEF Requests
  <1>3. Answered'
    <2> SUFFICES ASSUME "list" \notin upset'
                 PROVE  /\ saved \subseteq list.done
                        /\ card'.status = "Completed" => list.done = Items
                        /\ \A q \in Processes : Late(job'[q]) => list.done = Items
      BY DEF Answered, Moving
    <2>. QED
      BY DEF Moving, Answered
  <1>. QED
    BY <1>1, <1>2, <1>3 DEF Moving

\* The sealed start is moved only where it may be.
Kept == card.start \in Phones /\ card'.start # card.start
          => card.status = "Suspension" \/ upset' \cap {"start", "silent"} # {}

\* What a write of the process leaves of the request.
LEMMA PutWrote ==
    ASSUME TypeOK, NEW p \in Processes, NEW card1, NEW stage \in Stages, NEW otherwise \in Stages,
           Put(p, card1, stage, otherwise)
    PROVE  /\ mishaps' \in 0..MaxMishaps
           /\ job' \in [Processes -> Job] /\ \A q \in Processes \ {p} : job'[q] = job[q]
           /\ \/ job'[p] = Idle
              \/ /\ job'[p].stage \in {stage, otherwise}
                 /\ job'[p].op = job[p].op /\ job'[p].card = job[p].card
           /\ job'[p].stage \in {stage, otherwise}
           /\ \/ card.activity = job[p].card.activity /\ card' = card1
              \/ card' = card /\ job'[p].stage = otherwise
  <1>1. /\ mishaps' \in 0..MaxMishaps
        /\ \/ /\ card.activity = job[p].card.activity /\ card' = card1
              /\ Goes(p, stage) \/ Goes(p, otherwise)
           \/ card' = card /\ Goes(p, otherwise)
    BY PutCases
  <1>2. ASSUME NEW s \in Stages, Goes(p, s)
        PROVE  /\ job' \in [Processes -> Job] /\ \A q \in Processes \ {p} : job'[q] = job[q]
               /\ job'[p].stage = s
               /\ job'[p] = Idle \/ (job'[p].op = job[p].op /\ job'[p].card = job[p].card)
    BY <1>2, Gone
  <1>3. CASE Goes(p, stage)
    BY <1>1, <1>2, <1>3
  <1>4. CASE Goes(p, otherwise)
    BY <1>1, <1>2, <1>4
  <1>. QED
    BY <1>1, <1>3, <1>4

\* A request in the middle of a write read the activity in the right status.
LEMMA ReadIn ==
    ASSUME IInv, NEW p \in Processes, NEW s \in Statuses, Expects(job[p], s),
           card.activity = job[p].card.activity
    PROVE  card.status = s
  BY DEF IInv, Requests, Current

\* The start of a maintenance.
LEMMA Advances ==
    ASSUME IInv, NEW p \in Phones, Advance(p)
    PROVE  Moving(p) /\ Kept
  <1>0. /\ TypeOK /\ p \in Processes /\ p \notin Desks /\ card \in Card /\ card.activity \in Nat
        /\ upset \subseteq {"list", "start", "silent"} /\ Sealed
    BY DesksAssumption, TypeGives DEF IInv, Processes
  <1>s. {"confirming", "waiting"} \subseteq Stages
    BY DEF Stages
  <1>1. /\ job[p].stage = "advancing" /\ job[p].op = "start"
        /\ UNCHANGED <<list, page, moves, saved>>
    BY DEF Advance, Is
  <1>d. ASSUME job'[p].stage \in {"confirming", "waiting"}
        PROVE  /\ \A s \in Statuses : ~Expects(job'[p], s)
               /\ Sound(job'[p]) /\ ~Late(job'[p])
               /\ Winner(job'[p]) => job'[p].stage = "confirming"
    BY <1>d, <1>1 DEF Expects, Sound, Late, Winner
  <1>2. CASE Put(p, Moved("Execution", Planned), "confirming", "waiting") /\ UNCHANGED upset
    <2>1. /\ mishaps' \in 0..MaxMishaps
          /\ job' \in [Processes -> Job] /\ \A q \in Processes \ {p} : job'[q] = job[q]
          /\ job'[p].stage \in {"confirming", "waiting"}
          /\ \/ card.activity = job[p].card.activity /\ card' = Moved("Execution", Planned)
             \/ card' = card /\ job'[p].stage = "waiting"
      BY <1>0, <1>s, <1>2, PutWrote
    <2>2. /\ \A s \in Statuses : ~Expects(job'[p], s)
          /\ Sound(job'[p]) /\ ~Late(job'[p])
          /\ Winner(job'[p]) => job'[p].stage = "confirming"
      BY <1>d, <2>1
    <2>3. CASE card.activity = job[p].card.activity /\ card' = Moved("Execution", Planned)
      <3>1. card.status = "Acceptance"
        BY <1>1, <2>3, ReadIn, <1>0 DEF Expects, Statuses
      <3>2. /\ card'.status = "Execution" /\ card'.start = Planned
            /\ card'.activity = card.activity + 1 /\ card' \in Card
        BY <1>0, <2>3 DEF Moved, Card, Statuses
      <3>3. upset \cap {"start", "silent"} = {} =>
              card.start = None /\ \A q \in Processes : ~Winner(job[q])
        BY <1>0, <3>1 DEF Sealed
      <3>4. Sealed'
        <4>1. Planned \notin Phones
          BY PhonesAssumption
        <4>. QED
          BY <1>2, <2>1, <3>2, <3>3, <4>1 DEF Sealed
      <3>5. Kept
        BY <1>2, <3>3, PhonesAssumption DEF Kept
      <3>. QED
        BY <1>0, <1>1, <1>2, <2>1, <2>2, <3>2, <3>4, <3>5 DEF Moving
    <2>4. CASE card' = card /\ job'[p].stage = "waiting"
      <3>1. \A q \in Processes : Winner(job'[q]) => Winner(job[q])
        BY <2>1, <2>2, <2>4
      <3>2. Sealed' /\ Kept
        BY <1>0, <1>2, <2>4, <3>1 DEF Sealed, Kept
      <3>. QED
        BY <1>0, <1>1, <1>2, <2>1, <2>2, <2>4, <3>2 DEF Moving
    <2>. QED
      BY <2>1, <2>3, <2>4
  <1>3. CASE /\ May("silent") /\ Goes(p, "confirming")
             /\ upset' = upset \cup {"silent"} /\ UNCHANGED card
    <2>1. /\ mishaps' \in 0..MaxMishaps /\ job'[p].stage = "confirming"
          /\ job' \in [Processes -> Job] /\ \A q \in Processes \ {p} : job'[q] = job[q]
      BY <1>0, <1>s, <1>3, MayType, Gone
    <2>2. Sealed' /\ Kept
      BY <1>3 DEF Sealed, Kept
    <2>. QED
      BY <1>0, <1>1, <1>d, <1>3, <2>1, <2>2 DEF Moving
  <1>. QED
    BY <1>2, <1>3 DEF Advance

LEMMA Seals ==
    ASSUME IInv, NEW p \in Phones, Seal(p)
    PROVE  Moving(p) /\ Kept
  <1>0. /\ TypeOK /\ p \in Processes /\ p \notin Desks /\ card \in Card
        /\ upset \subseteq {"list", "start", "silent"} /\ Sealed
    BY DesksAssumption, TypeGives DEF IInv, Processes
  <1>1. /\ job[p].stage = "sealing" /\ Winner(job[p])
        /\ UNCHANGED <<list, page, moves, saved, upset>>
        /\ Put(p, [card EXCEPT !.start = p], "reopening", "reopening")
    BY DEF Seal, Is, Winner
  <1>2. "reopening" \in Stages
    BY DEF Stages
  <1>3. /\ mishaps' \in 0..MaxMishaps
        /\ job' \in [Processes -> Job] /\ \A q \in Processes \ {p} : job'[q] = job[q]
        /\ job'[p].stage \in {"reopening", "reopening"}
        /\ \/ card.activity = job[p].card.activity /\ card' = [card EXCEPT !.start = p]
           \/ card' = card
    BY <1>0, <1>1, <1>2, PutWrote
  <1>4. /\ \A s \in Statuses : ~Expects(job'[p], s)
        /\ Sound(job'[p]) /\ ~Late(job'[p]) /\ ~Winner(job'[p])
    BY <1>3 DEF Expects, Sound, Late, Winner
  <1>5. card' \in Card /\ card'.status = card.status /\ card'.activity = card.activity
    BY <1>0, <1>3 DEF Card
  <1>6. upset \cap {"start", "silent"} = {} =>
          /\ \A q \in Processes : ~Winner(job'[q])
          /\ card.start \notin Phones /\ card.status \notin {"Planning", "Acceptance"}
    BY <1>0, <1>1, <1>3, <1>4 DEF Sealed
  <1>7. Sealed' /\ Kept
    BY <1>1, <1>5, <1>6 DEF Sealed, Kept
  <1>. QED
    BY <1>0, <1>1, <1>3, <1>4, <1>5, <1>7 DEF Moving

LEMMA Leaves ==
    ASSUME IInv, NEW p \in Phones, Leave(p)
    PROVE  Moving(p) /\ Kept
  <1> DEFINE to == IF job[p].op = "suspend" THEN "Suspension" ELSE "Completed"
  <1> DEFINE kept == [card EXCEPT !.start = StartSent(p)]
  <1>0. /\ TypeOK /\ p \in Processes /\ p \notin Desks /\ card \in Card
        /\ upset \subseteq {"list", "start", "silent"} /\ Sealed
    BY DesksAssumption, TypeGives DEF IInv, Processes
  <1>s. {"checking", "idle"} \subseteq Stages
    BY DEF Stages
  <1>1. /\ job[p].stage = "leaving"
        /\ UNCHANGED <<list, page, moves, saved>>
        /\ upset' = IF card'.start = card.start THEN upset ELSE upset \cup {"start"}
        /\ \/ Put(p, IF Resolved(list) THEN Moved(to, StartSent(p)) ELSE kept, "checking", "idle")
           \/ /\ card.activity = job[p].card.activity
              /\ May("silent") /\ card' = kept /\ Goes(p, "checking")
    BY DEF Leave, Is
  <1>2. StartSent(p) \in Phones \cup {None, Planned}
    <2>1. job[p].card \in Card
      BY <1>0, TypeGives DEF Job
    <2>. QED
      BY <1>0, <2>1 DEF StartSent, Card
  <1>3. /\ kept \in Card /\ kept.status = card.status /\ kept.activity = card.activity
        /\ Moved(to, StartSent(p)) \in Card /\ Moved(to, StartSent(p)).status = to
        /\ Moved(to, StartSent(p)).activity = card.activity + 1
    BY <1>0, <1>2 DEF Card, Moved, Statuses
  <1>4. /\ mishaps' \in 0..MaxMishaps
        /\ job' \in [Processes -> Job] /\ \A q \in Processes \ {p} : job'[q] = job[q]
        /\ \/ job'[p] = Idle
           \/ job'[p].stage \in {"checking", "idle"} /\ job'[p].op = job[p].op
        /\ card' \in {Moved(to, StartSent(p)), kept, card}
    <2>1. CASE Put(p, IF Resolved(list) THEN Moved(to, StartSent(p)) ELSE kept, "checking", "idle")
      <3> DEFINE moved == IF Resolved(list) THEN Moved(to, StartSent(p)) ELSE kept
      <3>1. Put(p, moved, "checking", "idle")
        BY <2>1
      <3>2. moved \in {Moved(to, StartSent(p)), kept}
        OBVIOUS
      <3> HIDE DEF moved, to, kept
      <3>. QED
        BY <1>0, <1>s, <3>1, <3>2, PutWrote
    <2>2. CASE May("silent") /\ card' = kept /\ Goes(p, "checking")
      BY <1>0, <1>s, <2>2, MayType, Gone
    <2>. QED
      BY <1>1, <2>1, <2>2
  <1>5. to # "Suspension" => Late(job[p]) /\ to = "Completed"
    BY <1>1 DEF Late
  <1>w. to \notin {"Planning", "Acceptance"}
    OBVIOUS
  <1> HIDE DEF to, kept
  <1>6. /\ card' \in Card
        /\ \/ card'.activity = card.activity /\ card'.status = card.status
           \/ card'.activity = card.activity + 1 /\ card'.status = to
    BY <1>0, <1>3, <1>4
  <1>7. /\ \A s \in Statuses : ~Expects(job'[p], s)
        /\ Sound(job'[p]) /\ ~Winner(job'[p]) /\ (Late(job'[p]) => Late(job[p]))
    BY <1>1, <1>4, IdleIsFree DEF Expects, Sound, Winner, Late
  <1>8. \A q \in Processes : Winner(job'[q]) => Winner(job[q])
    BY <1>4, <1>7
  <1>9. Sealed' /\ Kept
    <2>1. CASE card'.start = card.start
      BY <1>0, <1>1, <1>6, <1>8, <1>w, <2>1 DEF Sealed, Kept
    <2>2. CASE card'.start # card.start
      BY <1>1, <2>2 DEF Sealed, Kept
    <2>. QED
      BY <2>1, <2>2
  <1>10. card'.status = "Completed" => card.status = "Completed" \/ Late(job[p])
    BY <1>5, <1>6
  <1>11. /\ upset \subseteq upset' /\ upset' \subseteq {"list", "start", "silent"}
         /\ ("list" \in upset') = ("list" \in upset)
    BY <1>0, <1>1
  <1>. QED
    BY <1>0, <1>1, <1>4, <1>6, <1>7, <1>9, <1>10, <1>11 DEF Moving

LEMMA Decides ==
    ASSUME IInv, NEW d \in Desks, Decide(d)
    PROVE  Moving(d) /\ Kept
  <1>0. /\ TypeOK /\ d \in Processes /\ card \in Card
        /\ upset \subseteq {"list", "start", "silent"} /\ Sealed
    BY TypeGives DEF IInv, Processes
  <1>s. "idle" \in Stages
    BY DEF Stages
  <1>1. /\ job[d].stage = "advancing" /\ UNCHANGED <<list, page, moves, saved, upset>>
    BY DEF Decide, Is
  <1>2. PICK to \in {"Acceptance", "Execution", "Suspension"}, start \in {card.start, Planned} :
          /\ to = "Acceptance" => job[d].op = "assign" /\ start = card.start
          /\ to = "Execution" => job[d].op = "resume"
          /\ to = "Suspension" => job[d].op = "return" /\ start = card.start
          /\ Put(d, Moved(to, start), "idle", "idle")
    BY DEF Decide
  <1>3. /\ mishaps' \in 0..MaxMishaps
        /\ job' \in [Processes -> Job] /\ \A q \in Processes \ {d} : job'[q] = job[q]
        /\ job'[d].stage \in {"idle", "idle"}
        /\ \/ card.activity = job[d].card.activity /\ card' = Moved(to, start)
           \/ card' = card
    BY <1>0, <1>2, <1>s, PutWrote
  <1>4. /\ \A s \in Statuses : ~Expects(job'[d], s)
        /\ Sound(job'[d]) /\ ~Late(job'[d]) /\ ~Winner(job'[d])
    BY <1>3 DEF Expects, Sound, Late, Winner
  <1>5. \A q \in Processes : Winner(job'[q]) => Winner(job[q])
    BY <1>3, <1>4
  <1>6. CASE card' = card
    <2>1. Sealed' /\ Kept
      BY <1>0, <1>1, <1>5, <1>6 DEF Sealed, Kept
    <2>. QED
      BY <1>0, <1>1, <1>3, <1>4, <1>6, <2>1 DEF Moving
  <1>7. CASE card.activity = job[d].card.activity /\ card' = Moved(to, start)
    <2>1. /\ to = "Acceptance" => card.status = "Planning"
          /\ to \in {"Execution", "Suspension"} => card.status = "Suspension"
      BY <1>0, <1>1, <1>2, <1>7, ReadIn DEF Expects, Statuses
    <2>2. /\ card' \in Card /\ card'.status = to /\ card'.start = start
          /\ card'.activity = card.activity + 1
      BY <1>0, <1>7 DEF Moved, Card, Statuses
    <2>3. Kept
      BY <1>2, <2>1, <2>2 DEF Kept
    <2>4. Sealed'
      <3>1. Planned \notin Phones
        BY PhonesAssumption
      <3>. QED
        BY <1>0, <1>1, <1>2, <1>5, <2>1, <2>2, <3>1 DEF Sealed
    <2>. QED
      BY <1>0, <1>1, <1>3, <1>4, <2>2, <2>3, <2>4 DEF Moving
  <1>. QED
    BY <1>3, <1>6, <1>7

-----------------------------------------------------------------------------
(* Every step.                                                             *)

LEMMA CrashKeeps ==
    ASSUME IInv, Crash
    PROVE  IInv'
  <1>1. /\ UNCHANGED <<card, list, page, moves, saved, upset>> /\ TypeOK
        /\ job' = [p \in Processes |-> Idle] /\ mishaps' \in 0..MaxMishaps
    BY MayType DEF Crash, IInv
  <1>2. \A p \in Processes : job'[p] = Idle
    BY <1>1
  <1>3. TypeOK'
    BY <1>1, <1>2, IdleIsFree, Nothing, TypeGives, TypeParts DEF Processes
  <1>4. Requests'
    BY <1>2, IdleIsFree DEF Requests, Current
  <1>5. Answered'
    BY <1>1, <1>2, IdleIsFree DEF IInv, Answered
  <1>6. Sealed'
    BY <1>1, <1>2, IdleIsFree DEF IInv, Sealed
  <1>. QED
    BY <1>3, <1>4, <1>5, <1>6 DEF IInv

LEMMA NextKeeps ==
    ASSUME IInv, [Next]_vars
    PROVE  IInv' /\ Kept
  <1>p. Phones \subseteq Processes /\ Desks \subseteq Processes
    BY DEF Processes
  <1>k. card' = card => Kept
    BY DEF Kept
  <1>1. ASSUME NEW p \in Phones,
               \/ Open(p) \/ Start(p) \/ Suspend(p) \/ Finish(p)
               \/ Show(p) \/ Wait(p) \/ AssertComplete(p) \/ Check(p) \/ Fails(p)
               \/ Reopen(p) \/ UnmarkRead(p) \/ Confirm(p) \/ SaveRead(p) \/ MarkRead(p)
               \/ Close(p) \/ Answer(p)
        PROVE  IInv' /\ Kept
    <2>1. Quiet(p) /\ Plain
      BY <1>1, BeginsQuietly, GoesQuietly, ReadsQuietly
    <2>. QED
      BY <1>p, <1>k, <2>1, QuietKeeps DEF Plain, Quiet
  <1>2. ASSUME NEW p \in Phones, Unmark(p) \/ Save(p) \/ Mark(p)
        PROVE  IInv' /\ Kept
    BY <1>2, <1>k, ListWrites, WrittenKeeps DEF Written
  <1>3. ASSUME NEW p \in Phones, Advance(p) \/ Seal(p) \/ Leave(p)
        PROVE  IInv' /\ Kept
    BY <1>p, <1>3, Advances, Seals, Leaves, MovingKeeps
  <1>4. ASSUME NEW d \in Desks, Assign(d) \/ \E op \in {"resume", "return"} : Supervise(d, op)
        PROVE  IInv' /\ Kept
    <2>1. Quiet(d) /\ Plain
      BY <1>4, DesksBeginQuietly
    <2>. QED
      BY <1>p, <1>k, <2>1, QuietKeeps DEF Plain, Quiet
  <1>5. ASSUME NEW d \in Desks, Decide(d)
        PROVE  IInv' /\ Kept
    BY <1>p, <1>5, Decides, MovingKeeps
  <1>6. CASE Crash
    BY <1>k, <1>6, CrashKeeps DEF Crash
  <1>7. CASE UNCHANGED vars
    <2>1. IInv'
      BY <1>7 DEF vars, IInv, TypeOK, Requests, Current, Answered, Sealed
    <2>. QED
      BY <1>k, <1>7, <2>1 DEF vars
  <1>. QED
    BY <1>1, <1>2, <1>3, <1>4, <1>5, <1>6, <1>7 DEF Next

LEMMA AlwaysInv == Spec => []IInv
  <1>1. IInv /\ [Next]_vars => IInv'
    BY NextKeeps
  <1>. QED
    BY InitInv, <1>1, PTL DEF Spec

-----------------------------------------------------------------------------
(* The theorems.                                                           *)

\* Every variable keeps its type, whatever fails and whoever works on the maintenance.
THEOREM TypeCorrect == Spec => []TypeOK
  <1>1. IInv => TypeOK
    BY DEF IInv
  <1>. QED
    BY <1>1, AlwaysInv, PTL

\* Unless two requests rewrote the array at the same time, what saveChecklist() said is
\* saved is in the list: neither marking nor unmarking N.D. takes a value away.
THEOREM NoAnswerLost == Spec => []AnswersKept
  <1>1. IInv => AnswersKept
    BY DEF IInv, Answered, AnswersKept
  <1>. QED
    BY <1>1, AlwaysInv, PTL

\* With the same exception, completePreventiveMaintenance() closes nothing that has an
\* activity without a value, although assertComplete() would let N.D. pass.
THEOREM ClosedWithAnswers == Spec => []CompletedIsAnswered
  <1>1. IInv => CompletedIsAnswered
    BY DEF IInv, Answered, CompletedIsAnswered
  <1>. QED
    BY <1>1, AlwaysInv, PTL

\* The sealed start stays, but for a resumption, a close that had read another one, or a
\* start that openMAINT did not make: registerExecutionStart() is reached by one request.
THEOREM StartStays == Spec => StartIsKept
  <1>1. IInv /\ [Next]_vars =>
          [card.start \in Phones /\ card'.start # card.start
             => card.status = "Suspension" \/ upset' \cap {"start", "silent"} # {}]_vars
    BY NextKeeps DEF Kept
  <1>. QED
    BY <1>1, AlwaysInv, PTL DEF Spec, StartIsKept
=============================================================================
