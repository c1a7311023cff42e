-------------------------- MODULE CleaningTaskProofs --------------------------
(***************************************************************************)
(* For any number of overlapping requests, devices, notes and minutes, and *)
(* any mishaps: what a task never loses.                                   *)
(***************************************************************************)
EXTENDS CleaningTask, TLAPS, FiniteSetTheorems, SequenceTheorems, WellFoundedInduction

-----------------------------------------------------------------------------
(* The notes of a card.                                                    *)

\* A set of positions that is not empty has a last one.
LEMMA LastExists ==
    ASSUME NEW n \in Nat, NEW at \in SUBSET (1..n), at # {}
    PROVE  \E i \in at : \A j \in at : j <= i
<1> DEFINE T == {n - i : i \in at}
           R == OpToRel(<, Nat)
<1>1. T \subseteq Nat /\ T # {}
  <2>1. PICK i \in at : TRUE
    OBVIOUS
  <2>2. n - i \in T
    BY <2>1
  <2>3. \A j \in at : n - j \in Nat
    OBVIOUS
  <2> QED  BY <2>2, <2>3
<1>2. PICK x \in T : \A y \in T : ~ (<<y, x>> \in R)
  <2> HIDE DEF T, R
  <2> QED  BY <1>1, WFMin, NatLessThanWellFounded DEF R
<1>3. \A y \in T : ~ (y < x)
  BY <1>1, <1>2 DEF OpToRel
<1>4. PICK i \in at : x = n - i
  OBVIOUS
<1>5. ASSUME NEW j \in at  PROVE j <= i
  <2>1. n - j \in T
    OBVIOUS
  <2>2. ~ (n - j < n - i)
    BY <2>1, <1>3, <1>4
  <2> QED  BY <2>2, i \in Nat, j \in Nat
<1> QED  BY <1>5

LEMMA LastType ==
    ASSUME NEW log \in Seq(Note), NEW kinds
    PROVE  /\ Last(log, kinds) \in 0..Len(log)
           /\ Last(log, kinds) # 0 => log[Last(log, kinds)] \in Note
<1> DEFINE at == {i \in 1..Len(log) : log[i].kind \in kinds}
<1>1. Len(log) \in Nat /\ at \in SUBSET (1..Len(log))
  OBVIOUS
<1>2. CASE at = {}
  <2>1. Last(log, kinds) = 0
    BY <1>2 DEF Last
  <2> QED  BY <2>1, <1>1
<1>3. CASE at # {}
  <2>1. \E i \in at : \A j \in at : j <= i
    <3> HIDE DEF at
    <3> QED  BY <1>1, <1>3, LastExists
  <2>2. Last(log, kinds) = CHOOSE i \in at : \A j \in at : j <= i
    BY <1>3 DEF Last
  <2>3. Last(log, kinds) \in at
    <3> HIDE DEF at
    <3> QED  BY <2>1, <2>2
  <2>4. Last(log, kinds) \in 1..Len(log)
    BY <2>3
  <2> QED  BY <2>4, <1>1
<1> QED  BY <1>2, <1>3

\* What the text of a card keeps fits with the draft.
LEMMA KeepType ==
    ASSUME NEW log \in Seq(Note), NEW draft \in 0..Room
    PROVE  /\ Keep(log, draft) \in Seq(Note)
           /\ Len(Keep(log, draft)) + draft <= Room
<1>1. Room \in Nat /\ draft \in Nat /\ draft <= Room /\ Len(log) \in Nat
  BY RoomAssumption
<1>2. CASE Len(log) + draft <= Room
  BY <1>2, <1>1 DEF Keep
<1>3. CASE ~ (Len(log) + draft <= Room)
  <2> DEFINE m == Len(log) + draft - Room + 1
  <2>1. m \in 1..Len(log) + 1
    BY <1>1, <1>3
  <2>2. \A i \in m..Len(log) : log[i] \in Note
    BY <2>1, <1>1
  <2>3. Keep(log, draft) = SubSeq(log, m, Len(log))
    BY <1>3 DEF Keep
  <2>4. /\ SubSeq(log, m, Len(log)) \in Seq(Note)
        /\ Len(SubSeq(log, m, Len(log))) = IF m <= Len(log) THEN Len(log) - m + 1 ELSE 0
    <3>1. m \in Int /\ Len(log) \in Int
      BY <2>1, <1>1
    <3> HIDE DEF m
    <3> QED  BY <3>1, <2>2, SubSeqProperties
  <2> QED  BY <2>1, <2>3, <2>4, <1>1
<1> QED  BY <1>2, <1>3

\* What Last says of a log.
LEMMA LastGives ==
    ASSUME NEW log \in Seq(Note), NEW kinds
    PROVE  /\ Last(log, kinds) \in 0..Len(log)
           /\ Last(log, kinds) # 0 => log[Last(log, kinds)].kind \in kinds
           /\ \A i \in 1..Len(log) : i > Last(log, kinds) => log[i].kind \notin kinds
<1> DEFINE at == {i \in 1..Len(log) : log[i].kind \in kinds}
<1>1. Len(log) \in Nat /\ at \in SUBSET (1..Len(log))
  OBVIOUS
<1>2. CASE at = {}
  <2>1. Last(log, kinds) = 0
    BY <1>2 DEF Last
  <2> QED  BY <2>1, <1>1, <1>2
<1>3. CASE at # {}
  <2>1. \E i \in at : \A j \in at : j <= i
    <3> HIDE DEF at
    <3> QED  BY <1>1, <1>3, LastExists
  <2>2. Last(log, kinds) = CHOOSE i \in at : \A j \in at : j <= i
    BY <1>3 DEF Last
  <2>3. Last(log, kinds) \in at /\ \A j \in at : j <= Last(log, kinds)
    <3> HIDE DEF at
    <3> QED  BY <2>1, <2>2
  <2>4. \A i \in 1..Len(log) : i > Last(log, kinds) => i \notin at
    <3>1. Last(log, kinds) \in Nat
      BY <2>3, <1>1
    <3> HIDE DEF at
    <3> QED  BY <2>3, <3>1, <1>1
  <2> QED  BY <2>3, <2>4
<1> QED  BY <1>2, <1>3

LEMMA LastIs ==
    ASSUME NEW log \in Seq(Note), NEW kinds, NEW i \in 1..Len(log), log[i].kind \in kinds,
           \A j \in 1..Len(log) : j > i => log[j].kind \notin kinds
    PROVE  Last(log, kinds) = i
<1>1. /\ Last(log, kinds) \in 0..Len(log) /\ Len(log) \in Nat
      /\ Last(log, kinds) # 0 => log[Last(log, kinds)].kind \in kinds
      /\ ~ (i > Last(log, kinds))
  BY LastGives
<1> QED  BY <1>1

LEMMA LastNone ==
    ASSUME NEW log \in Seq(Note), NEW kinds, \A i \in 1..Len(log) : log[i].kind \notin kinds
    PROVE  Last(log, kinds) = 0
<1>1. /\ Last(log, kinds) \in 0..Len(log) /\ Len(log) \in Nat
      /\ Last(log, kinds) # 0 => log[Last(log, kinds)].kind \in kinds
  BY LastGives
<1> QED  BY <1>1

LEMMA LastAppend ==
    ASSUME NEW log \in Seq(Note), NEW note \in Note, NEW kinds
    PROVE  Last(Append(log, note), kinds)
             = IF note.kind \in kinds THEN Len(log) + 1 ELSE Last(log, kinds)
<1> DEFINE new == Append(log, note)
<1>1. /\ new \in Seq(Note) /\ Len(log) \in Nat /\ Len(new) = Len(log) + 1
      /\ new[Len(log) + 1] = note /\ \A i \in 1..Len(log) : new[i] = log[i]
  BY AppendProperties
<1> HIDE DEF new
<1>2. CASE note.kind \in kinds
  <2>1. Len(log) + 1 \in 1..Len(new) /\ ~ \E j \in 1..Len(new) : j > Len(log) + 1
    BY <1>1
  <2>2. Last(new, kinds) = Len(log) + 1
    BY <2>1, <1>1, <1>2, LastIs
  <2> QED  BY <2>2, <1>2 DEF new
<1>3. CASE note.kind \notin kinds
  <2>1. /\ Last(log, kinds) \in 0..Len(log)
        /\ Last(log, kinds) # 0 => log[Last(log, kinds)].kind \in kinds
        /\ \A i \in 1..Len(log) : i > Last(log, kinds) => log[i].kind \notin kinds
    BY LastGives
  <2>2. \A i \in 1..Len(new) : i > Last(log, kinds) => new[i].kind \notin kinds
    BY <2>1, <1>1, <1>3
  <2>3. CASE Last(log, kinds) = 0
    <3>1. \A i \in 1..Len(new) : new[i].kind \notin kinds
      BY <2>2, <2>3
    <3>2. Last(new, kinds) = 0
      BY <3>1, <1>1, LastNone
    <3> QED  BY <3>2, <2>3, <1>3 DEF new
  <2>4. CASE Last(log, kinds) # 0
    <3>1. Last(log, kinds) \in 1..Len(new) /\ new[Last(log, kinds)].kind \in kinds
      BY <2>1, <2>4, <1>1
    <3>2. Last(new, kinds) = Last(log, kinds)
      BY <3>1, <2>2, <1>1, LastIs
    <3> QED  BY <3>2, <1>3 DEF new
  <2> QED  BY <2>3, <2>4
<1> QED  BY <1>2, <1>3

\* What is kept is what the log ends with, and all of it where there is room.
LEMMA KeepEnds ==
    ASSUME NEW log \in Seq(Note), NEW draft \in 0..Room
    PROVE  /\ \E m \in 0..Len(log) :
                /\ Len(Keep(log, draft)) = Len(log) - m
                /\ \A i \in 1..Len(Keep(log, draft)) : Keep(log, draft)[i] = log[i + m]
           /\ Len(log) + draft <= Room => Keep(log, draft) = log
<1>1. Room \in Nat /\ draft \in Nat /\ draft <= Room /\ Len(log) \in Nat
  BY RoomAssumption
<1>2. CASE Len(log) + draft <= Room
  <2>1. Keep(log, draft) = log
    BY <1>2 DEF Keep
  <2>2. 0 \in 0..Len(log) /\ Len(log) = Len(log) - 0 /\ \A i \in 1..Len(log) : log[i] = log[i + 0]
    BY <1>1
  <2> QED  BY <2>1, <2>2
<1>3. CASE ~ (Len(log) + draft <= Room)
  <2> DEFINE m == Len(log) + draft - Room
  <2>1. m \in 0..Len(log) /\ m + 1 \in Int
    BY <1>1, <1>3
  <2>2. Keep(log, draft) = SubSeq(log, m + 1, Len(log))
    BY <1>3 DEF Keep
  <2> HIDE DEF m
  <2>3. \A i \in m + 1..Len(log) : log[i] \in Note
    BY <2>1, <1>1
  <2>4. /\ Len(SubSeq(log, m + 1, Len(log))) = Len(log) - m
        /\ \A i \in 1..Len(log) - m : SubSeq(log, m + 1, Len(log))[i] = log[i + m]
    <3>1. /\ Len(SubSeq(log, m + 1, Len(log)))
               = (IF m + 1 <= Len(log) THEN Len(log) - (m + 1) + 1 ELSE 0)
          /\ \A i \in 1..Len(log) - (m + 1) + 1 :
               SubSeq(log, m + 1, Len(log))[i] = log[m + 1 + i - 1]
      BY <2>1, <2>3, <1>1, SubSeqProperties
    <3> QED  BY <3>1, <2>1, <1>1
  <2> QED  BY <2>1, <2>2, <2>4, <1>3
<1> QED  BY <1>2, <1>3

LEMMA KeepNone ==
    ASSUME NEW log \in Seq(Note), NEW draft \in 0..Room, Len(log) = 0
    PROVE  Len(Keep(log, draft)) = 0
<1>1. Len(log) + draft <= Room
  BY RoomAssumption
<1> QED  BY <1>1 DEF Keep

LEMMA KeepUnmarked ==
    ASSUME NEW log \in Seq(Note), NEW draft \in 0..Room, NEW kinds,
           \A i \in 1..Len(log) : log[i].kind \notin kinds
    PROVE  \A i \in 1..Len(Keep(log, draft)) : Keep(log, draft)[i].kind \notin kinds
<1> DEFINE kept == Keep(log, draft)
<1>1. PICK m \in 0..Len(log) :
        Len(kept) = Len(log) - m /\ \A i \in 1..Len(kept) : kept[i] = log[i + m]
  BY KeepEnds
<1>2. Len(log) \in Nat
  OBVIOUS
<1> HIDE DEF kept
<1>3. \A i \in 1..Len(kept) : i + m \in 1..Len(log)
  BY <1>1, <1>2
<1>4. \A i \in 1..Len(kept) : kept[i].kind \notin kinds
  BY <1>1, <1>3
<1> QED  BY <1>4 DEF kept

\* The note that was written last gives way last.
LEMMA KeepLastNote ==
    ASSUME NEW log \in Seq(Note), NEW draft \in 0..Room, NEW note, Len(log) # 0,
           log[Len(log)] = note, Len(Keep(log, draft)) # 0
    PROVE  Keep(log, draft)[Len(Keep(log, draft))] = note
<1> DEFINE kept == Keep(log, draft)
<1>1. PICK m \in 0..Len(log) :
        Len(kept) = Len(log) - m /\ \A i \in 1..Len(kept) : kept[i] = log[i + m]
  BY KeepEnds
<1>2. Len(log) \in Nat
  OBVIOUS
<1> HIDE DEF kept
<1>3. Len(kept) \in 1..Len(kept) /\ Len(kept) + m = Len(log)
  BY <1>1, <1>2 DEF kept
<1> QED  BY <1>1, <1>3 DEF kept

LEMMA CarryType ==
    ASSUME NEW c \in Card
    PROVE  Carry(c) \in Int
<1>1. c.log \in Seq(Note)
  BY DEF Card
<1>2. Last(c.log, {"restart"}) # 0 => c.log[Last(c.log, {"restart"})] \in Note
  BY <1>1, LastType
<1> QED  BY <1>2 DEF Carry, Note

LEMMA SinceType ==
    ASSUME NEW c \in Card
    PROVE  Since(c) \in Nat \cup {None}
<1>1. c.log \in Seq(Note) /\ c.started \in Nat \cup {None}
  BY DEF Card
<1>2. Last(c.log, {"resume", "restart"}) # 0
        => c.log[Last(c.log, {"resume", "restart"})] \in Note
  BY <1>1, LastType
<1> QED  BY <1>1, <1>2 DEF Since, Note

LEMMA BaseType ==
    ASSUME NEW c \in Card
    PROVE  /\ Base(c) \in Int
           /\ AtLeast(0, c.minutes - Carry(c)) \in Int
  BY CarryType DEF Base, AtLeast, Card

LEMMA TotalType ==
    ASSUME NEW c \in Card, NEW report \in Int \cup {None}, clock \in Nat, c.started # None
    PROVE  Total(c, report) \in Int
<1>1. c.minutes \in Int /\ c.started \in Nat /\ MaxTotal \in Int
  BY BoundsAssumption DEF Card
<1> QED  BY <1>1 DEF Total, AtLeast

-----------------------------------------------------------------------------
(* Types.                                                                  *)

Ops == {"none", "create", "start", "pause", "complete", "approve", "reject", "reopen",
        "cancel", "assign", "edit"}

Upsets == {"double", "race", "stale", "blind", "cut", "edit", "forgot", "capped"}

Cards == {c \in Card : Len(c.log) <= Room}

\* Who leaves an execution has seen that it had begun: what Total counts from.
Leaving ==
    \A r \in Requests :
        job[r].op \in {"pause", "complete"} => job[r].was.started # None /\ job[r].dev \in Devices

LEMMA TypeGives ==
    ASSUME TypeOK
    PROVE  /\ card \in Cards /\ card \in Card /\ copies \in Nat
           /\ view \in [Devices -> View \cup {None}]
           /\ job \in [Requests -> Job]
           /\ clock \in 1..AtLeast(1, MaxTime) /\ clock \in Nat
           /\ requests \in 0..MaxRequests /\ mishaps \in 0..MaxMishaps
           /\ worked \in Nat /\ session \in Nat /\ starts \in Nat
           /\ left \in {"new", "pause", "done"} /\ upset \subseteq Upsets
           /\ began \in Nat /\ drift \in Int /\ sessionDrift \in Int
  BY BoundsAssumption DEF TypeOK, Cards, Upsets, AtLeast

LEMMA TypeParts ==
    ASSUME card' \in Cards, copies' \in Nat, view' \in [Devices -> View \cup {None}],
           job' \in [Requests -> Job], clock' \in 1..AtLeast(1, MaxTime),
           requests' \in 0..MaxRequests, mishaps' \in 0..MaxMishaps,
           worked' \in Nat, session' \in Nat, starts' \in Nat,
           left' \in {"new", "pause", "done"}, upset' \subseteq Upsets,
           began' \in Nat, drift' \in Int, sessionDrift' \in Int
    PROVE  TypeOK'
  BY DEF TypeOK, Cards, Upsets

LEMMA FreshType == Fresh \in Cards /\ Fresh.started = None /\ Fresh.minutes = 0 /\ Fresh.log = <<>>
<1>1. <<>> \in Seq(Note) /\ Len(<<>>) = 0
  OBVIOUS
<1>2. Fresh \in Card /\ Fresh.log = <<>>
  BY <1>1, RoomAssumption DEF Fresh, Card, Phases
<1> QED  BY <1>1, <1>2, RoomAssumption DEF Cards, Fresh

LEMMA IdleType == Idle \in Job /\ Idle.op = "none" /\ Idle.was = Fresh
  BY FreshType, RoomAssumption DEF Idle, Job, Cards

LEMMA JobType ==
    ASSUME NEW r \in Requests, job \in [Requests -> Job]
    PROVE  /\ job[r].op \in Ops /\ job[r].was \in Card
           /\ job[r].report \in Int \cup {None} /\ job[r].draft \in 0..Room
           /\ job[r].start \in Nat
  BY DEF Job, Ops

\* A card of which some fields are written is a card.
LEMMA PhaseType ==
    ASSUME NEW c \in Cards, NEW phase \in Phases
    PROVE  /\ [c EXCEPT !.phase = phase] \in Cards
           /\ [c EXCEPT !.phase = phase].started = c.started
           /\ [c EXCEPT !.phase = phase].minutes = c.minutes
           /\ [c EXCEPT !.phase = phase].phase = phase
  BY DEF Cards, Card

LEMMA ReopenedType ==
    ASSUME NEW c \in Cards
    PROVE  /\ Reopened(c) \in Cards
           /\ Reopened(c).started = c.started
           /\ Reopened(c).minutes = c.minutes
           /\ Reopened(c).phase = "Assigned"
  BY DEF Cards, Card, Reopened, Phases

LEMMA OwnedType ==
    ASSUME NEW c \in Cards, NEW owned \in BOOLEAN
    PROVE  /\ [c EXCEPT !.owned = owned] \in Cards
           /\ [c EXCEPT !.owned = owned].started = c.started
           /\ [c EXCEPT !.owned = owned].minutes = c.minutes
           /\ [c EXCEPT !.owned = owned].phase = c.phase
  BY DEF Cards, Card

LEMMA MinutesType ==
    ASSUME NEW c \in Cards, NEW n \in Int
    PROVE  [c EXCEPT !.minutes = n] \in Cards
  BY DEF Cards, Card

LEMMA AssignedType ==
    ASSUME NEW owned \in BOOLEAN
    PROVE  /\ [Fresh EXCEPT !.phase = "Assigned", !.owned = owned] \in Cards
           /\ [Fresh EXCEPT !.phase = "Assigned"] \in Cards
  BY FreshType DEF Cards, Card, Phases

LEMMA FirstStartType ==
    ASSUME NEW c \in Cards, NEW t \in Nat
    PROVE  /\ [c EXCEPT !.phase = "InExecution", !.started = t] \in Cards
           /\ [c EXCEPT !.phase = "InExecution", !.started = t].started = t
           /\ [c EXCEPT !.phase = "InExecution", !.started = t].minutes = c.minutes
           /\ [c EXCEPT !.phase = "InExecution", !.started = t].phase = "InExecution"
  BY DEF Cards, Card, Phases

LEMMA AgainType ==
    ASSUME NEW c \in Cards, NEW draft \in 0..Room, NEW log \in Seq(Note), Len(log) <= Room
    PROVE  LET d == [c EXCEPT !.phase = "InExecution", !.draft = draft, !.log = log]
           IN  d \in Cards /\ d.started = c.started /\ d.minutes = c.minutes
               /\ d.phase = "InExecution"
  BY DEF Cards, Card, Phases

\* The cards that a pause and a completion write.
PausedCard(c, n, draft, log) ==
    [c EXCEPT !.phase = "Assigned", !.minutes = n, !.draft = draft, !.log = log]

CompletedCard(c, n, log) ==
    [c EXCEPT !.phase = "Completed", !.ended = TRUE, !.minutes = n, !.draft = 0, !.log = log]

LEMMA PausedType ==
    ASSUME NEW c \in Cards, NEW draft \in 0..Room, NEW log \in Seq(Note), Len(log) <= Room,
           NEW n \in Int
    PROVE  /\ PausedCard(c, n, draft, log) \in Cards
           /\ PausedCard(c, n, draft, log).started = c.started
           /\ PausedCard(c, n, draft, log).phase = "Assigned"
  BY DEF PausedCard, Cards, Card, Phases

LEMMA CompletedType ==
    ASSUME NEW c \in Cards, NEW log \in Seq(Note), Len(log) <= Room, NEW n \in Int
    PROVE  /\ CompletedCard(c, n, log) \in Cards
           /\ CompletedCard(c, n, log).started = c.started
           /\ CompletedCard(c, n, log).phase = "Completed"
  BY RoomAssumption DEF CompletedCard, Cards, Card, Phases

\* What a request that asks leaves: its job and what it counts against the bounds.
LEMMA AsksType ==
    ASSUME TypeOK, NEW r \in Requests, NEW op \in Ops, NEW dev \in Devices \cup {None},
           NEW report \in Int \cup {None}, NEW draft \in 0..Room,
           NEW mishap, IsFiniteSet(mishap),
           Asks(r, op, dev, report, draft, mishap)
    PROVE  /\ job' \in [Requests -> Job]
           /\ job'[r].op = op /\ job'[r].was = card /\ job'[r].dev = dev
           /\ \A q \in Requests \ {r} : job'[q] = job[q]
           /\ requests' \in 0..MaxRequests /\ mishaps' \in 0..MaxMishaps
           /\ UNCHANGED <<card, copies, clock, worked, session, starts, left, began, drift, sessionDrift>>
<1> DEFINE wrong == mishap \cup (IF Overlapping THEN {"overlap"} ELSE {})
           j == [op |-> op, dev |-> dev, was |-> card, start |-> starts, report |-> report,
                 draft |-> draft]
<1>1. Cardinality(wrong) \in Nat
  <2>1. IsFiniteSet(IF Overlapping THEN {"overlap"} ELSE {})
    BY FS_EmptySet, FS_Singleton
  <2>2. IsFiniteSet(wrong)
    BY <2>1, FS_Union
  <2> HIDE DEF wrong
  <2> QED  BY <2>2, FS_CardinalityType
<1>2. mishaps' = mishaps + Cardinality(wrong) /\ mishaps + Cardinality(wrong) <= MaxMishaps
  BY DEF Asks
<1>3. mishaps' \in 0..MaxMishaps
  <2> HIDE DEF wrong
  <2> QED  BY <1>1, <1>2, TypeGives, MaxAssumption
<1>4. requests < MaxRequests /\ requests' = requests + 1
  BY DEF Asks
<1>5. requests' \in 0..MaxRequests
  BY <1>4, TypeGives, MaxAssumption
<1>6. j \in Job
  BY TypeGives DEF Job, Ops
<1>7. job' = [job EXCEPT ![r] = j]
  BY DEF Asks
<1>8. /\ job' \in [Requests -> Job]
      /\ job'[r].op = op /\ job'[r].was = card /\ job'[r].dev = dev
      /\ \A q \in Requests \ {r} : job'[q] = job[q]
  BY <1>6, <1>7, TypeGives
<1>9. UNCHANGED <<card, copies, clock, worked, session, starts, left, began, drift, sessionDrift>>
  BY DEF Asks, History
<1> QED  BY <1>3, <1>5, <1>8, <1>9

\* What ends a request.
LEMMA EndsType ==
    ASSUME TypeOK, NEW r \in Requests, job' = [job EXCEPT ![r] = Idle]
    PROVE  /\ job' \in [Requests -> Job] /\ job'[r] = Idle
           /\ \A q \in Requests \ {r} : job'[q] = job[q]
  BY TypeGives, IdleType

LEMMA AnswersType ==
    ASSUME TypeOK, NEW r \in Requests, NEW v \in View \cup {None}, Answers(r, v)
    PROVE  view' \in [Devices -> View \cup {None}] /\ mishaps' \in 0..MaxMishaps
  BY TypeGives, MaxAssumption DEF Answers, Well, May

LEMMA RacesType ==
    ASSUME NEW r
    PROVE  Races(r) \subseteq {"race"}
  BY DEF Races

LEMMA CapsType ==
    ASSUME NEW r
    PROVE  Caps(r) \subseteq {"capped"}
  BY DEF Caps

\* What the clock of a device adds is a number of minutes.
LEMMA DriftsType ==
    ASSUME TypeOK, NEW r \in Requests, job[r].dev \in Devices, Drifts(r)
    PROVE  drift' \in Int /\ sessionDrift' \in Int
<1>1. began \in Nat /\ clock \in Nat /\ Skew[job[r].dev] \in Int /\ drift \in Int /\ sessionDrift \in Int
  BY TypeGives, SkewAssumption
<1>2. Adds(job[r].dev) \in Int
  BY <1>1 DEF Adds, AtLeast
<1> QED  BY <1>1, <1>2 DEF Drifts

LEMMA LosesType ==
    ASSUME NEW c, NEW log, NEW draft
    PROVE  Loses(c, log, draft) \subseteq {"cut"}
  BY DEF Loses

-----------------------------------------------------------------------------
(* Every step keeps the types.                                             *)

LEMMA InitType == Init => TypeOK
  BY FreshType, IdleType, BoundsAssumption, MaxAssumption DEF Init, TypeOK, Cards, AtLeast

LEMMA CreateType ==
    ASSUME TypeOK, NEW r \in Requests, Create(r) \/ CreateWrites(r)
    PROVE  TypeOK'
<1> USE TypeGives
<1>1. CASE Create(r)
  <2>1. Asks(r, "create", None, None, 0, IF copies > 0 THEN {"blindcheck"} ELSE {})
    BY <1>1 DEF Create
  <2>2. IsFiniteSet(IF copies > 0 THEN {"blindcheck"} ELSE {})
    BY FS_EmptySet, FS_Singleton
  <2>3. "create" \in Ops /\ 0 \in 0..Room
    BY RoomAssumption DEF Ops
  <2>4. /\ job' \in [Requests -> Job]
        /\ requests' \in 0..MaxRequests /\ mishaps' \in 0..MaxMishaps
        /\ UNCHANGED <<card, copies, clock, worked, session, starts, left, began, drift, sessionDrift>>
    BY <2>1, <2>2, <2>3, AsksType
  <2>5. UNCHANGED view /\ upset' \subseteq Upsets
    BY <1>1 DEF Create, Upsets
  <2> QED  BY <2>4, <2>5, TypeParts
<1>2. CASE CreateWrites(r)
  <2>1. job' \in [Requests -> Job]
    BY <1>2, EndsType DEF CreateWrites
  <2>2. card' \in Cards
    BY <1>2, AssignedType DEF CreateWrites
  <2>3. copies' \in Nat /\ UNCHANGED <<view, clock, requests, mishaps, History, upset>>
    BY <1>2 DEF CreateWrites
  <2> QED  BY <2>1, <2>2, <2>3, TypeParts DEF History
<1> QED  BY <1>1, <1>2

LEMMA ManualType ==
    ASSUME TypeOK, CreateManual
    PROVE  TypeOK'
<1> USE TypeGives
<1>1. card' \in Cards
  BY AssignedType DEF CreateManual
<1>2. requests' \in 0..MaxRequests
  <2>1. requests < MaxRequests /\ requests' = requests + 1
    BY DEF CreateManual
  <2> QED  BY <2>1, MaxAssumption
<1>3. UNCHANGED <<copies, view, job, clock, mishaps, History, upset>>
  BY DEF CreateManual
<1> QED  BY <1>1, <1>2, <1>3, TypeParts DEF History

LEMMA StartType ==
    ASSUME TypeOK, NEW r \in Requests, NEW d \in Devices, Start(r, d)
    PROVE  TypeOK'
<1> USE TypeGives
<1>1. Asks(r, "start", d, None, 0, {}) /\ UNCHANGED <<view, upset>>
  BY DEF Start
<1>2. "start" \in Ops /\ 0 \in 0..Room /\ IsFiniteSet({})
  BY RoomAssumption, FS_EmptySet DEF Ops
<1>3. /\ job' \in [Requests -> Job]
      /\ requests' \in 0..MaxRequests /\ mishaps' \in 0..MaxMishaps
      /\ UNCHANGED <<card, copies, clock, worked, session, starts, left, began, drift, sessionDrift>>
  BY <1>1, <1>2, AsksType
<1> QED  BY <1>1, <1>3, TypeParts

\* The notes of a start.
LEMMA StartLogType ==
    ASSUME NEW c \in Card, clock \in Nat
    PROVE  StartKeeps(c) \in Seq(Note) /\ Len(StartKeeps(c)) <= Room
<1>1. StartNote(c) \in Note /\ c.log \in Seq(Note) /\ c.draft \in 0..Room
  BY DEF StartNote, Note, Card, AtLeast
<1>2. Append(c.log, StartNote(c)) \in Seq(Note)
  BY <1>1, AppendProperties
<1>3. Keep(Append(c.log, StartNote(c)), 0) \in Seq(Note)
  BY <1>2, KeepType, RoomAssumption
<1>4. /\ Keep(Keep(Append(c.log, StartNote(c)), 0), c.draft) \in Seq(Note)
      /\ Len(Keep(Keep(Append(c.log, StartNote(c)), 0), c.draft)) + c.draft <= Room
  BY <1>1, <1>3, KeepType
<1>5. Len(Keep(Keep(Append(c.log, StartNote(c)), 0), c.draft)) \in Nat /\ c.draft \in Nat /\ Room \in Nat
  BY <1>1, <1>4, RoomAssumption
<1> QED  BY <1>4, <1>5 DEF StartKeeps

\* What a start writes: the card, and the first start if it has not run.
LEMMA StartWritesCard ==
    ASSUME TypeOK, NEW r \in Requests, StartWrites(r)
    PROVE  /\ card' \in Cards /\ card'.minutes = card.minutes /\ card'.phase = "InExecution"
           /\ IF HasRun(job[r].was) THEN card'.started = card.started ELSE card'.started = clock
           /\ job' = [job EXCEPT ![r] = Idle] /\ UNCHANGED <<copies, clock, requests>>
<1> DEFINE c == job[r].was
           log == StartKeeps(c)
           again == [card EXCEPT !.phase = "InExecution", !.draft = c.draft, !.log = log]
           first == [card EXCEPT !.phase = "InExecution", !.started = clock]
<1>1. Writes(r, IF HasRun(c) THEN again ELSE first)
  BY DEF StartWrites
<1>2. card' = (IF HasRun(c) THEN again ELSE first)
      /\ job' = [job EXCEPT ![r] = Idle] /\ UNCHANGED <<copies, clock, requests>>
  BY <1>1 DEF Writes
<1>3. c \in Card /\ c.draft \in 0..Room /\ clock \in Nat
  BY TypeGives, JobType DEF Card
<1>4. log \in Seq(Note) /\ Len(log) <= Room
  BY <1>3, StartLogType
<1>5. again \in Cards /\ again.started = card.started /\ again.minutes = card.minutes
      /\ again.phase = "InExecution"
  <2>1. card \in Cards
    BY TypeGives
  <2> HIDE DEF log
  <2> QED  BY <1>3, <1>4, <2>1, AgainType
<1>6. first \in Cards /\ first.started = clock /\ first.minutes = card.minutes
      /\ first.phase = "InExecution"
  BY TypeGives, FirstStartType
<1> QED
  <2> HIDE DEF again, first, c
  <2> QED  BY <1>2, <1>5, <1>6 DEF c

LEMMA StartWritesType ==
    ASSUME TypeOK, NEW r \in Requests, StartWrites(r)
    PROVE  TypeOK'
<1> DEFINE c == job[r].was
           v == [accumulated |-> c.minutes, since |-> clock,
                 base |-> IF Paused(c) THEN AtLeast(0, c.minutes - Carry(c)) ELSE 0,
                 start |-> starts + 1]
<1> USE TypeGives
<1>1. card' \in Cards /\ job' = [job EXCEPT ![r] = Idle] /\ UNCHANGED <<copies, clock, requests>>
  BY StartWritesCard
<1>2. job' \in [Requests -> Job]
  BY <1>1, EndsType
<1>3. c \in Card
  BY JobType
<1>4. AtLeast(0, c.minutes - Carry(c)) \in Int /\ c.minutes \in Int
  BY <1>3, BaseType DEF Card
<1>5. v \in View
  BY <1>4 DEF View
<1>6. Answers(r, v)
  BY DEF StartWrites
<1>7. view' \in [Devices -> View \cup {None}] /\ mishaps' \in 0..MaxMishaps
  BY <1>5, <1>6, AnswersType
<1>8. /\ starts' \in Nat /\ session' \in Nat /\ upset' \subseteq Upsets
      /\ began' \in Nat /\ sessionDrift' \in Int
      /\ UNCHANGED <<worked, left, drift>>
  BY RacesType DEF StartWrites, Upsets, Forgets
<1> QED  BY <1>1, <1>2, <1>7, <1>8, TypeParts

LEMMA LoadType ==
    ASSUME TypeOK, NEW d \in Devices, Load(d)
    PROVE  TypeOK'
<1> DEFINE known == view[d] # None
           since == Since(card)
           v == [accumulated |-> IF known THEN AtLeast(card.minutes, view[d].accumulated)
                                 ELSE card.minutes,
                 since |-> IF since # None THEN since
                           ELSE IF known THEN view[d].since ELSE clock + Skew[d],
                 base |-> Base(card),
                 start |-> starts]
<1> USE TypeGives
<1>1. since \in Nat \cup {None} /\ Base(card) \in Int /\ card.minutes \in Int
  BY SinceType, BaseType DEF Card
<1>2. Skew[d] \in Int
  BY SkewAssumption
<1>3. known => view[d].accumulated \in Int /\ view[d].since \in Int
  BY DEF View
<1>4. v \in View
  <2>1. v.accumulated \in Int
    BY <1>1, <1>3 DEF AtLeast
  <2>2. v.since \in Int
    <3> HIDE DEF since, known
    <3> QED  BY <1>1, <1>2, <1>3
  <2> HIDE DEF since, known
  <2> QED  BY <2>1, <2>2, <1>1 DEF View
<1>5. view' = [view EXCEPT ![d] = IF card.phase # "InExecution" THEN None ELSE v]
  BY DEF Load
<1>6. view' \in [Devices -> View \cup {None}]
  <2> HIDE DEF v
  <2> QED  BY <1>4, <1>5
<1>7. upset' \subseteq Upsets /\ UNCHANGED <<card, copies, job, clock, requests, mishaps, History>>
  BY DEF Load, Upsets
<1> QED  BY <1>6, <1>7, TypeParts DEF History

\* What leaving an execution asks for.
LEMMA LeavesAsks ==
    ASSUME TypeOK, NEW r \in Requests, NEW op \in {"pause", "complete"}, NEW d \in Devices,
           NEW draft \in 0..Room, Leaves(r, op, d, draft)
    PROVE  /\ card.phase = "InExecution" /\ card.started # None
           /\ job' \in [Requests -> Job]
           /\ job'[r].op = op /\ job'[r].was = card /\ job'[r].dev = d
           /\ \A q \in Requests \ {r} : job'[q] = job[q]
           /\ requests' \in 0..MaxRequests /\ mishaps' \in 0..MaxMishaps
           /\ UNCHANGED <<card, copies, view, clock, worked, session, starts, left, began, drift, sessionDrift>>
           /\ upset \subseteq upset' /\ upset' \subseteq upset \cup {"stale"}
<1>1. op \in Ops
  BY DEF Ops
<1>2. card.phase = "InExecution" /\ card.started # None /\ UNCHANGED view
  BY DEF Leaves
<1>3. \/ view[d] # None /\ Asks(r, op, d, Report(d), draft, {})
      \/ Asks(r, op, d, None, draft, {"bare"})
  BY DEF Leaves
<1>4. upset \subseteq upset' /\ upset' \subseteq upset \cup {"stale"}
  BY DEF Leaves
<1>5. CASE view[d] # None /\ Asks(r, op, d, Report(d), draft, {})
  <2>1. view[d] \in View /\ Skew[d] \in Int /\ clock \in Nat
    BY <1>5, TypeGives, SkewAssumption
  <2>2. Report(d) \in Int
    BY <2>1 DEF Report, Elapsed, AtLeast, View
  <2>3. IsFiniteSet({})
    BY FS_EmptySet
  <2> QED  BY <1>1, <1>2, <1>4, <1>5, <2>2, <2>3, AsksType
<1>6. CASE Asks(r, op, d, None, draft, {"bare"})
  <2>1. IsFiniteSet({"bare"})
    BY FS_Singleton
  <2> QED  BY <1>1, <1>2, <1>4, <1>6, <2>1, AsksType
<1> QED  BY <1>3, <1>5, <1>6

LEMMA LeavesType ==
    ASSUME TypeOK, NEW r \in Requests, NEW op \in {"pause", "complete"}, NEW d \in Devices,
           NEW draft \in 0..Room, Leaves(r, op, d, draft)
    PROVE  TypeOK'
<1>1. upset' \subseteq Upsets
  BY LeavesAsks, TypeGives DEF Upsets
<1>2. /\ job' \in [Requests -> Job]
      /\ requests' \in 0..MaxRequests /\ mishaps' \in 0..MaxMishaps
      /\ UNCHANGED <<card, copies, view, clock, worked, session, starts, left, began, drift, sessionDrift>>
  BY LeavesAsks
<1> QED  BY <1>1, <1>2, TypeGives, TypeParts

\* What the end of an execution writes: neither takes the first start away.
LEMMA LeavingWritesCard ==
    ASSUME TypeOK, Leaving, NEW r \in Requests, PauseWrites(r) \/ CompleteWrites(r)
    PROVE  /\ card' \in Cards /\ card'.started = card.started
           /\ card'.phase \in {"Assigned", "Completed"} /\ job[r].was.started # None
           /\ job' = [job EXCEPT ![r] = Idle] /\ UNCHANGED <<copies, clock, requests>>
<1> DEFINE c == job[r].was
           n == Total(c, job[r].report)
<1>1. c \in Card /\ job[r].report \in Int \cup {None} /\ job[r].draft \in 0..Room
      /\ c.log \in Seq(Note) /\ clock \in Nat /\ card \in Cards
  BY TypeGives, JobType DEF Card
<1>2. c.started # None
  BY DEF Leaving, PauseWrites, CompleteWrites, Is
<1>3. n \in Int
  BY <1>1, <1>2, TotalType
<1>4. CASE PauseWrites(r)
  <2> DEFINE log == Append(c.log, [kind |-> "pause", at |-> clock, carry |-> 0])
             cut == Keep(Keep(log, 0), job[r].draft)
             new == PausedCard(card, n, job[r].draft, cut)
  <2>1. [kind |-> "pause", at |-> clock, carry |-> 0] \in Note
    BY <1>1 DEF Note
  <2>2. log \in Seq(Note)
    BY <2>1, <1>1, AppendProperties
  <2>3. Keep(log, 0) \in Seq(Note)
    BY <2>2, KeepType, RoomAssumption
  <2>4. cut \in Seq(Note) /\ Len(cut) + job[r].draft <= Room
    BY <2>3, <1>1, KeepType
  <2>5. Len(cut) <= Room
    <3>1. Len(cut) \in Nat /\ job[r].draft \in Nat /\ Room \in Nat
      BY <1>1, <2>4, RoomAssumption
    <3> HIDE DEF cut
    <3> QED  BY <3>1, <2>4
  <2>6. new \in Cards /\ new.started = card.started /\ new.phase = "Assigned"
    <3>1. card \in Cards /\ job[r].draft \in 0..Room /\ cut \in Seq(Note)
      BY <1>1, <2>4
    <3> HIDE DEF cut, n
    <3> QED  BY <3>1, <1>3, <2>5, PausedType
  <2>7. card' = new /\ job' = [job EXCEPT ![r] = Idle] /\ UNCHANGED <<copies, clock, requests>>
    BY <1>4 DEF PauseWrites, Writes, PausedCard
  <2> HIDE DEF new, c
  <2> QED  BY <2>6, <2>7, <1>2 DEF c
<1>5. CASE CompleteWrites(r)
  <2> DEFINE text == Append(c.log, [kind |-> "text", at |-> clock, carry |-> 0])
  <2>1. [kind |-> "text", at |-> clock, carry |-> 0] \in Note
    BY <1>1 DEF Note
  <2>2. text \in Seq(Note)
    BY <2>1, <1>1, AppendProperties
  <2>3. PICK log \in {c.log, text} :
          Writes(r, [card EXCEPT !.phase = "Completed", !.ended = TRUE, !.minutes = n,
                                 !.draft = 0, !.log = Keep(log, 0)])
    BY <1>5 DEF CompleteWrites
  <2> DEFINE cut == Keep(log, 0)
             new == CompletedCard(card, n, cut)
  <2>4. log \in Seq(Note)
    BY <2>2, <1>1
  <2>5. cut \in Seq(Note) /\ Len(cut) + 0 <= Room
    BY <2>4, KeepType, RoomAssumption
  <2>6. Len(cut) <= Room
    <3>1. Len(cut) \in Nat
      BY <2>5
    <3> HIDE DEF cut
    <3> QED  BY <3>1, <2>5
  <2>7. new \in Cards /\ new.started = card.started /\ new.phase = "Completed"
    <3>1. card \in Cards /\ cut \in Seq(Note)
      BY <1>1, <2>5
    <3> HIDE DEF cut, n
    <3> QED  BY <3>1, <1>3, <2>6, CompletedType
  <2>8. card' = new /\ job' = [job EXCEPT ![r] = Idle] /\ UNCHANGED <<copies, clock, requests>>
    BY <2>3 DEF Writes, CompletedCard
  <2> HIDE DEF new, c
  <2> QED  BY <2>7, <2>8, <1>2 DEF c
<1> QED  BY <1>4, <1>5

LEMMA LeavingWritesType ==
    ASSUME TypeOK, Leaving, NEW r \in Requests, PauseWrites(r) \/ CompleteWrites(r)
    PROVE  TypeOK'
<1>1. card' \in Cards /\ job' = [job EXCEPT ![r] = Idle] /\ UNCHANGED <<copies, clock, requests>>
  BY LeavingWritesCard
<1>2. job' \in [Requests -> Job]
  BY <1>1, EndsType
<1>3. Answers(r, None)
  BY DEF PauseWrites, CompleteWrites
<1>4. view' \in [Devices -> View \cup {None}] /\ mishaps' \in 0..MaxMishaps
  BY <1>3, AnswersType
<1>5. left' \in {"new", "pause", "done"} /\ UNCHANGED <<worked, session, starts, began>>
  BY DEF PauseWrites, CompleteWrites
<1>7. drift' \in Int /\ sessionDrift' \in Int
  <2>1. job[r].dev \in Devices /\ Drifts(r)
    BY DEF Leaving, PauseWrites, CompleteWrites, Is
  <2> QED  BY <2>1, DriftsType
<1>6. upset' \subseteq Upsets
  <2>1. CASE PauseWrites(r)
    BY <2>1, RacesType, LosesType, CapsType, TypeGives DEF PauseWrites, Upsets
  <2>2. CASE CompleteWrites(r)
    BY <2>2, RacesType, LosesType, CapsType, TypeGives DEF CompleteWrites, Upsets
  <2> QED  BY <2>1, <2>2
<1> QED  BY <1>1, <1>2, <1>4, <1>5, <1>6, <1>7, TypeGives, TypeParts

\* What a supervisor asks for.
LEMMA SuperviseAsks ==
    ASSUME TypeOK, NEW r \in Requests, Supervise(r)
    PROVE  /\ card.phase # "none"
           /\ job' \in [Requests -> Job]
           /\ job'[r].op \in {"approve", "reject", "reopen", "cancel", "assign", "edit"}
           /\ job'[r].was = card
           /\ job'[r].op = "approve" => card.phase = "Completed"
           /\ \A q \in Requests \ {r} : job'[q] = job[q]
           /\ requests' \in 0..MaxRequests /\ mishaps' \in 0..MaxMishaps
           /\ UNCHANGED <<card, copies, view, clock, worked, session, starts, left, began, drift, sessionDrift, upset>>
<1>1. PICK op \in {"approve", "reject", "reopen", "cancel", "assign", "edit"},
           mishap \in {{}, {"edit"}} :
             /\ Asks(r, op, None, None, 0, mishap) /\ card.phase # "none"
             /\ op = "approve" => card.phase = "Completed"
  BY DEF Supervise
<1>2. op \in Ops /\ 0 \in 0..Room
  BY RoomAssumption DEF Ops
<1>3. IsFiniteSet(mishap)
  <2>1. mishap = {} \/ mishap = {"edit"}
    OBVIOUS
  <2>2. IsFiniteSet({}) /\ IsFiniteSet({"edit"})
    BY FS_EmptySet, FS_Singleton
  <2> QED  BY <2>1, <2>2
<1>4. UNCHANGED <<view, upset>>
  BY DEF Supervise
<1> QED  BY <1>1, <1>2, <1>3, <1>4, AsksType

LEMMA SuperviseType ==
    ASSUME TypeOK, NEW r \in Requests, Supervise(r)
    PROVE  TypeOK'
  BY SuperviseAsks, TypeGives, TypeParts

\* What a supervisor writes takes the first start from no card, and an edit is told.
LEMMA SuperviseWritesCard ==
    ASSUME TypeOK, NEW r \in Requests, SuperviseWrites(r)
    PROVE  /\ card' \in Cards /\ card'.started = card.started
           /\ card'.phase = "none" => card.phase = "none"
           /\ ~ Is(r, "edit") => /\ card'.minutes = card.minutes
                                 /\ \/ card'.phase \in {"none", "Assigned", "Cancelled"}
                                    \/ card'.phase = card.phase
                                    \/ Is(r, "approve")
           /\ Is(r, "edit") => "edit" \in upset'
           /\ upset \subseteq upset' /\ upset' \subseteq upset \cup {"race", "edit"}
           /\ job' = [job EXCEPT ![r] = Idle]
           /\ UNCHANGED <<copies, clock, requests, view, mishaps, worked, session, starts, left, began, drift, sessionDrift>>
<1> DEFINE Same == /\ job' = [job EXCEPT ![r] = Idle] /\ UNCHANGED <<copies, clock, requests>>
<1> USE TypeGives
<1>1. upset' = upset \cup Races(r) \cup (IF Is(r, "edit") THEN {"edit"} ELSE {})
      /\ UNCHANGED <<view, mishaps, worked, session, starts, left, began, drift, sessionDrift>>
  BY DEF SuperviseWrites, History
<1>2. Races(r) \subseteq {"race"}
  BY RacesType
<1>3. CASE Is(r, "approve") /\ Writes(r, [card EXCEPT !.phase = "Reviewed"])
  <2>1. "Reviewed" \in Phases /\ card' = [card EXCEPT !.phase = "Reviewed"] /\ Same
    BY <1>3 DEF Writes, Phases
  <2>2. card' \in Cards /\ card'.started = card.started /\ card'.minutes = card.minutes
        /\ card'.phase = "Reviewed"
    BY <2>1, PhaseType
  <2> QED  BY <1>1, <1>2, <1>3, <2>1, <2>2 DEF Is
<1>4. CASE (Is(r, "reject") \/ Is(r, "reopen")) /\ Writes(r, Reopened(card))
  <2>1. card' = Reopened(card) /\ Same
    BY <1>4 DEF Writes
  <2>2. card' \in Cards /\ card'.started = card.started /\ card'.minutes = card.minutes
        /\ card'.phase = "Assigned"
    BY <2>1, ReopenedType
  <2> QED  BY <1>1, <1>2, <1>4, <2>1, <2>2 DEF Is
<1>5. CASE Is(r, "cancel") /\ Writes(r, [card EXCEPT !.phase = "Cancelled"])
  <2>1. "Cancelled" \in Phases /\ card' = [card EXCEPT !.phase = "Cancelled"] /\ Same
    BY <1>5 DEF Writes, Phases
  <2>2. card' \in Cards /\ card'.started = card.started /\ card'.minutes = card.minutes
        /\ card'.phase = "Cancelled"
    BY <2>1, PhaseType
  <2> QED  BY <1>1, <1>2, <1>5, <2>1, <2>2 DEF Is
<1>6. CASE Is(r, "assign") /\ \E owned \in BOOLEAN : Writes(r, [card EXCEPT !.owned = owned])
  <2>1. PICK owned \in BOOLEAN : card' = [card EXCEPT !.owned = owned] /\ Same
    BY <1>6 DEF Writes
  <2>2. card' \in Cards /\ card'.started = card.started /\ card'.minutes = card.minutes
        /\ card'.phase = card.phase
    BY <2>1, OwnedType
  <2> QED  BY <1>1, <1>2, <1>6, <2>1, <2>2 DEF Is
<1>7. CASE Is(r, "edit") /\ \E phase \in Phases : Writes(r, [card EXCEPT !.phase = phase])
  <2>1. PICK phase \in Phases : card' = [card EXCEPT !.phase = phase] /\ Same
    BY <1>7 DEF Writes
  <2>2. card' \in Cards /\ card'.started = card.started /\ card'.phase # "none"
    BY <2>1, PhaseType DEF Phases
  <2> QED  BY <1>1, <1>2, <1>7, <2>1, <2>2
<1>8. CASE Is(r, "edit") /\ \E n \in 0..MaxTime : Writes(r, [card EXCEPT !.minutes = n])
  <2>1. PICK n \in 0..MaxTime : card' = [card EXCEPT !.minutes = n] /\ Same
    BY <1>8 DEF Writes
  <2>2. card' \in Cards /\ card'.started = card.started /\ card'.phase = card.phase
    BY <2>1, MinutesType DEF Cards, Card
  <2> QED  BY <1>1, <1>2, <1>8, <2>1, <2>2
<1> QED  BY <1>3, <1>4, <1>5, <1>6, <1>7, <1>8 DEF SuperviseWrites

LEMMA SuperviseWritesType ==
    ASSUME TypeOK, NEW r \in Requests, SuperviseWrites(r)
    PROVE  TypeOK'
<1>1. job' \in [Requests -> Job]
  BY SuperviseWritesCard, EndsType
<1>2. upset' \subseteq Upsets
  BY SuperviseWritesCard, TypeGives DEF Upsets
<1> QED  BY <1>1, <1>2, SuperviseWritesCard, TypeGives, TypeParts

LEMMA FailsType ==
    ASSUME TypeOK, NEW r \in Requests, Fails(r)
    PROVE  TypeOK'
<1> USE TypeGives
<1>1. job' \in [Requests -> Job]
  BY EndsType DEF Fails
<1>2. mishaps' \in 0..MaxMishaps
  BY MaxAssumption DEF Fails, May
<1>3. UNCHANGED <<card, copies, view, clock, requests, History, upset>>
  BY DEF Fails
<1> QED  BY <1>1, <1>2, <1>3, TypeParts DEF History

LEMMA TickType ==
    ASSUME TypeOK, Tick
    PROVE  TypeOK'
<1> USE TypeGives
<1>1. clock' \in 1..AtLeast(1, MaxTime)
  BY BoundsAssumption DEF Tick, AtLeast
<1>2. worked' \in Nat /\ session' \in Nat
  BY DEF Tick
<1>3. UNCHANGED <<card, copies, view, job, requests, mishaps, starts, left, began, drift,
                  sessionDrift, upset>>
  BY DEF Tick
<1> QED  BY <1>1, <1>2, <1>3, TypeParts

-----------------------------------------------------------------------------
(* What a step does to the requests under way.                             *)

Others(r) == \A q \in Requests \ {r} : job'[q] = job[q]

\* A request begins: it has read the card.
Asked(r) ==
    /\ job'[r].was = card /\ Others(r)
    /\ job'[r].op \in {"pause", "complete"} => card.started # None /\ job'[r].dev \in Devices
    /\ job'[r].op = "approve" => card.phase = "Completed"
    /\ job'[r].op = "create" => Create(r)
    /\ UNCHANGED <<card, copies>> /\ upset \subseteq upset'

\* A request writes, or fails.
Ended(r) == job'[r] = Idle /\ Others(r)

LEMMA AskedSteps ==
    ASSUME TypeOK, NEW r \in Requests,
           \/ Create(r) \/ Supervise(r)
           \/ \E d \in Devices : Start(r, d) \/ Pause(r, d) \/ Complete(r, d)
    PROVE  Asked(r)
<1>1. CASE Create(r)
  <2>1. Asks(r, "create", None, None, 0, IF copies > 0 THEN {"blindcheck"} ELSE {})
    BY <1>1 DEF Create
  <2>2. IsFiniteSet(IF copies > 0 THEN {"blindcheck"} ELSE {})
    BY FS_EmptySet, FS_Singleton
  <2>3. "create" \in Ops /\ 0 \in 0..Room
    BY RoomAssumption DEF Ops
  <2>4. /\ job'[r].op = "create" /\ job'[r].was = card
        /\ \A q \in Requests \ {r} : job'[q] = job[q]
        /\ UNCHANGED <<card, copies>>
    BY <2>1, <2>2, <2>3, AsksType
  <2>5. upset \subseteq upset'
    BY <1>1 DEF Create
  <2> QED  BY <1>1, <2>4, <2>5 DEF Asked, Others
<1>2. ASSUME NEW d \in Devices, Start(r, d)  PROVE Asked(r)
  <2>1. Asks(r, "start", d, None, 0, {}) /\ UNCHANGED <<view, upset>>
    BY <1>2 DEF Start
  <2>2. "start" \in Ops /\ 0 \in 0..Room /\ IsFiniteSet({})
    BY RoomAssumption, FS_EmptySet DEF Ops
  <2>3. /\ job'[r].op = "start" /\ job'[r].was = card
        /\ \A q \in Requests \ {r} : job'[q] = job[q]
        /\ UNCHANGED <<card, copies>>
    BY <2>1, <2>2, AsksType
  <2> QED  BY <2>1, <2>3 DEF Asked, Others
<1>3. ASSUME NEW d \in Devices, Pause(r, d) \/ Complete(r, d)  PROVE Asked(r)
  <2>1. PICK op \in {"pause", "complete"}, draft \in 0..Room : Leaves(r, op, d, draft)
    BY <1>3, RoomAssumption DEF Pause, Complete
  <2>2. /\ card.started # None /\ job'[r].op = op /\ job'[r].was = card /\ job'[r].dev = d
        /\ \A q \in Requests \ {r} : job'[q] = job[q]
        /\ UNCHANGED <<card, copies>> /\ upset \subseteq upset'
    BY <2>1, LeavesAsks
  <2> QED  BY <2>2 DEF Asked, Others
<1>4. CASE Supervise(r)
  <2>1. /\ job'[r].op \in {"approve", "reject", "reopen", "cancel", "assign", "edit"}
        /\ job'[r].was = card
        /\ job'[r].op = "approve" => card.phase = "Completed"
        /\ \A q \in Requests \ {r} : job'[q] = job[q]
        /\ UNCHANGED <<card, copies, upset>>
    BY <1>4, SuperviseAsks
  <2> QED  BY <2>1 DEF Asked, Others
<1> QED  BY <1>1, <1>2, <1>3, <1>4

LEMMA EndedSteps ==
    ASSUME TypeOK, NEW r \in Requests, job' = [job EXCEPT ![r] = Idle]
    PROVE  Ended(r)
  BY EndsType DEF Ended, Others

\* Next, by what its steps do to the requests.
LEMMA NextSplits ==
    ASSUME Next
    PROVE  \/ \E r \in Requests :
                \/ Create(r) \/ Supervise(r)
                \/ CreateWrites(r) \/ StartWrites(r) \/ PauseWrites(r) \/ CompleteWrites(r)
                \/ SuperviseWrites(r) \/ Fails(r)
           \/ \E r \in Requests, d \in Devices : Start(r, d) \/ Pause(r, d) \/ Complete(r, d)
           \/ \E d \in Devices : Load(d)
           \/ CreateManual \/ Tick
  BY DEF Next

\* An invariant of the requests under way is kept by a step that begins one,
\* ends one, or leaves them alone.
LEMMA LeavingStep ==
    ASSUME Leaving, NEW r \in Requests, Asked(r) \/ Ended(r) \/ UNCHANGED job
    PROVE  Leaving'
<1>1. CASE Asked(r)
  BY <1>1 DEF Leaving, Asked, Others
<1>2. CASE Ended(r)
  BY <1>2 DEF Leaving, Ended, Others, Idle
<1>3. CASE UNCHANGED job
  BY <1>3 DEF Leaving
<1> QED  BY <1>1, <1>2, <1>3

-----------------------------------------------------------------------------
(* One task per checkout.                                                  *)

\* A synchronisation that may still create the task is the only one, and there
\* is no task yet: the two looks at what is there are before the one creation.
OneCopy ==
    "double" \notin upset =>
        /\ copies \in {0, 1}
        /\ \A r \in Requests : job[r].op = "create" => copies = 0
        /\ \A r, q \in Requests : job[r].op = "create" /\ job[q].op = "create" => r = q

LEMMA OneCopyAsked ==
    ASSUME TypeOK, OneCopy, NEW r \in Requests, Asked(r)
    PROVE  OneCopy'
<1> SUFFICES ASSUME "double" \notin upset'  PROVE OneCopy'
  BY DEF OneCopy
<1>1. "double" \notin upset /\ copies' = copies
  BY DEF Asked
<1>2. CASE job'[r].op = "create"
  <2>1. ~ (copies > 0) /\ ~ Synchronising
    BY <1>2 DEF Asked, Create
  <2>2. copies' = 0 /\ \A q \in Requests \ {r} : job'[q].op # "create"
    BY <1>1, <2>1 DEF Asked, Others, Synchronising, OneCopy
  <2> QED  BY <2>2 DEF OneCopy
<1>3. CASE job'[r].op # "create"
  BY <1>1, <1>3 DEF Asked, Others, OneCopy
<1> QED  BY <1>2, <1>3

LEMMA OneCopyEnded ==
    ASSUME TypeOK, OneCopy, NEW r \in Requests, Ended(r), upset \subseteq upset',
           \/ copies' = copies
           \/ job[r].op = "create" /\ copies' = copies + 1
    PROVE  OneCopy'
<1> SUFFICES ASSUME "double" \notin upset'  PROVE OneCopy'
  BY DEF OneCopy
<1>1. "double" \notin upset
  OBVIOUS
<1>2. \A q \in Requests : job'[q].op = "create" => q # r /\ job[q].op = "create"
  BY DEF Ended, Others, Idle
<1>3. CASE copies' = copies
  BY <1>1, <1>2, <1>3 DEF OneCopy
<1>4. CASE job[r].op = "create" /\ copies' = copies + 1
  <2>1. copies' = 1 /\ \A q \in Requests : job'[q].op # "create"
    BY <1>1, <1>2, <1>4 DEF OneCopy
  <2> QED  BY <2>1 DEF OneCopy
<1> QED  BY <1>3, <1>4

-----------------------------------------------------------------------------
(* The first start.                                                        *)

\* Minutes, an execution, and whatever a request under way has read of one all
\* come after the first start, which nothing but an edit takes away.
HasStart ==
    "edit" \notin upset =>
        /\ card.phase \in {"InExecution", "Completed", "Reviewed"} => card.started # None
        /\ card.minutes > 0 => card.started # None
        /\ card.phase = "none" => card.started = None
        /\ \A r \in Requests :
             /\ job[r].was.started # None => card.started # None
             /\ job[r].op = "approve" => job[r].was.started # None
             /\ job[r].op = "start" /\ HasRun(job[r].was) => job[r].was.started # None

LEMMA HasStartAsked ==
    ASSUME HasStart, NEW r \in Requests, Asked(r)
    PROVE  HasStart'
<1> SUFFICES ASSUME "edit" \notin upset'  PROVE HasStart'
  BY DEF HasStart
<1>1. "edit" \notin upset /\ card' = card /\ job'[r].was = card
  BY DEF Asked
<1>2. /\ job'[r].was.started # None => card.started # None
      /\ job'[r].op = "approve" => job'[r].was.started # None
      /\ job'[r].op = "start" /\ HasRun(job'[r].was) => job'[r].was.started # None
  BY <1>1 DEF Asked, HasStart, HasRun
<1>3. \A q \in Requests \ {r} : job'[q] = job[q]
  BY DEF Asked, Others
<1> QED  BY <1>1, <1>2, <1>3 DEF HasStart

\* A request ends, and the card has its first start if anybody read it.
LEMMA HasStartEnded ==
    ASSUME HasStart, NEW r \in Requests, Ended(r), upset \subseteq upset',
           "edit" \notin upset' =>
               /\ card'.phase \in {"InExecution", "Completed", "Reviewed"} => card'.started # None
               /\ card'.minutes > 0 => card'.started # None
               /\ card'.phase = "none" => card'.started = None
               /\ card.started # None => card'.started # None
    PROVE  HasStart'
<1> SUFFICES ASSUME "edit" \notin upset'  PROVE HasStart'
  BY DEF HasStart
<1>1. "edit" \notin upset
  OBVIOUS
<1>2. /\ job'[r].was.started = None /\ job'[r].op = "none"
  BY DEF Ended, Idle, Fresh
<1>3. \A q \in Requests \ {r} : job'[q] = job[q]
  BY DEF Ended, Others
<1> QED  BY <1>1, <1>2, <1>3 DEF HasStart

-----------------------------------------------------------------------------
(* The invariant.                                                          *)

IInv == TypeOK /\ Leaving /\ OneCopy /\ HasStart

LEMMA InitInv == Init => IInv
<1> SUFFICES ASSUME Init  PROVE IInv
  OBVIOUS
<1>1. TypeOK
  BY InitType
<1>2. Leaving
  BY DEF Init, Leaving, Idle
<1>3. OneCopy
  BY DEF Init, OneCopy, Idle
<1>4. HasStart
  BY DEF Init, HasStart, Idle, Fresh
<1> QED  BY <1>1, <1>2, <1>3, <1>4 DEF IInv

LEMMA AskedInv ==
    ASSUME IInv, NEW r \in Requests,
           \/ Create(r) \/ Supervise(r)
           \/ \E d \in Devices : Start(r, d) \/ Pause(r, d) \/ Complete(r, d)
    PROVE  IInv'
<1>1. Asked(r)
  BY AskedSteps DEF IInv
<1>2. TypeOK'
  <2>1. CASE Create(r)
    BY <2>1, CreateType DEF IInv
  <2>2. CASE Supervise(r)
    BY <2>2, SuperviseType DEF IInv
  <2>3. ASSUME NEW d \in Devices, Start(r, d)  PROVE TypeOK'
    BY <2>3, StartType DEF IInv
  <2>4. ASSUME NEW d \in Devices, Pause(r, d) \/ Complete(r, d)  PROVE TypeOK'
    <3>1. PICK op \in {"pause", "complete"}, draft \in 0..Room : Leaves(r, op, d, draft)
      BY <2>4, RoomAssumption DEF Pause, Complete
    <3> QED  BY <3>1, LeavesType DEF IInv
  <2> QED  BY <2>1, <2>2, <2>3, <2>4
<1> QED  BY <1>1, <1>2, LeavingStep, OneCopyAsked, HasStartAsked DEF IInv

\* A request that writes without creating a task.
LEMMA WritesInv ==
    ASSUME IInv, NEW r \in Requests,
           StartWrites(r) \/ PauseWrites(r) \/ CompleteWrites(r) \/ SuperviseWrites(r) \/ Fails(r)
    PROVE  IInv'
<1> USE DEF IInv
<1>1. CASE StartWrites(r)
  <2>1. /\ card'.minutes = card.minutes /\ card'.phase = "InExecution"
        /\ IF HasRun(job[r].was) THEN card'.started = card.started ELSE card'.started = clock
        /\ job' = [job EXCEPT ![r] = Idle] /\ UNCHANGED <<copies, clock, requests>>
    BY <1>1, StartWritesCard
  <2>2. Ended(r) /\ upset \subseteq upset' /\ job[r].op = "start"
    BY <1>1, <2>1, EndedSteps DEF StartWrites, Is
  <2>3. clock # None
    BY TypeGives, NoneAssumption
  <2>4. "edit" \notin upset' =>
          /\ card'.started # None
          /\ card.started # None => card'.started # None
    BY <2>1, <2>2, <2>3 DEF HasStart
  <2>5. HasStart'
    BY <2>1, <2>2, <2>4, HasStartEnded
  <2> QED  BY <1>1, <2>1, <2>2, <2>5, StartWritesType, LeavingStep, OneCopyEnded
<1>2. CASE PauseWrites(r) \/ CompleteWrites(r)
  <2>1. /\ card'.started = card.started
        /\ card'.phase \in {"Assigned", "Completed"} /\ job[r].was.started # None
        /\ job' = [job EXCEPT ![r] = Idle] /\ UNCHANGED <<copies, clock, requests>>
    BY <1>2, LeavingWritesCard
  <2>2. Ended(r) /\ upset \subseteq upset'
    BY <1>2, <2>1, EndedSteps DEF PauseWrites, CompleteWrites
  <2>3. "edit" \notin upset' => card'.started # None
    BY <2>1, <2>2 DEF HasStart
  <2>4. HasStart'
    BY <2>1, <2>2, <2>3, HasStartEnded
  <2> QED  BY <1>2, <2>1, <2>2, <2>4, LeavingWritesType, LeavingStep, OneCopyEnded
<1>3. CASE SuperviseWrites(r)
  <2>1. /\ card'.started = card.started
        /\ card'.phase = "none" => card.phase = "none"
        /\ ~ Is(r, "edit") => /\ card'.minutes = card.minutes
                              /\ \/ card'.phase \in {"none", "Assigned", "Cancelled"}
                                 \/ card'.phase = card.phase
                                 \/ Is(r, "approve")
        /\ Is(r, "edit") => "edit" \in upset'
        /\ upset \subseteq upset'
        /\ job' = [job EXCEPT ![r] = Idle] /\ UNCHANGED copies
    BY <1>3, SuperviseWritesCard
  <2>2. Ended(r)
    BY <2>1, EndedSteps
  <2>3. "edit" \notin upset' =>
          /\ card'.phase \in {"InExecution", "Completed", "Reviewed"} => card'.started # None
          /\ card'.minutes > 0 => card'.started # None
          /\ card'.phase = "none" => card'.started = None
          /\ card.started # None => card'.started # None
    BY <2>1 DEF HasStart, Is
  <2>4. HasStart'
    BY <2>1, <2>2, <2>3, HasStartEnded
  <2> QED  BY <1>3, <2>1, <2>2, <2>4, SuperviseWritesType, LeavingStep, OneCopyEnded
<1>4. CASE Fails(r)
  <2>1. job' = [job EXCEPT ![r] = Idle] /\ UNCHANGED <<card, copies, upset>>
    BY <1>4 DEF Fails
  <2>2. Ended(r)
    BY <2>1, EndedSteps
  <2>3. HasStart'
    <3>1. "edit" \notin upset' =>
            /\ card'.phase \in {"InExecution", "Completed", "Reviewed"} => card'.started # None
            /\ card'.minutes > 0 => card'.started # None
            /\ card'.phase = "none" => card'.started = None
            /\ card.started # None => card'.started # None
      BY <2>1 DEF HasStart
    <3> QED  BY <2>1, <2>2, <3>1, HasStartEnded
  <2> QED  BY <1>4, <2>1, <2>2, <2>3, FailsType, LeavingStep, OneCopyEnded
<1> QED  BY <1>1, <1>2, <1>3, <1>4

\* The creation of a task, by a synchronisation or by hand.
LEMMA CreatesInv ==
    ASSUME IInv, NEW r \in Requests, CreateWrites(r)
    PROVE  IInv'
<1> USE DEF IInv
<1>1. /\ card' = IF card.phase = "none" THEN [Fresh EXCEPT !.phase = "Assigned"] ELSE card
      /\ job' = [job EXCEPT ![r] = Idle] /\ UNCHANGED upset
      /\ job[r].op = "create" /\ copies' = copies + 1
  BY DEF CreateWrites, Is
<1>2. Ended(r)
  BY <1>1, EndedSteps
<1>3. card.phase = "none" =>
        card'.started = None /\ card'.minutes = 0 /\ card'.phase = "Assigned"
  BY <1>1, FreshType DEF Fresh
<1>4. card.phase # "none" => card' = card
  BY <1>1
<1>5. "edit" \notin upset' =>
        /\ card'.phase \in {"InExecution", "Completed", "Reviewed"} => card'.started # None
        /\ card'.minutes > 0 => card'.started # None
        /\ card'.phase = "none" => card'.started = None
        /\ card.started # None => card'.started # None
  BY <1>1, <1>3, <1>4 DEF HasStart
<1>6. HasStart'
  BY <1>1, <1>2, <1>5, HasStartEnded
<1> QED  BY <1>1, <1>2, <1>6, CreateType, LeavingStep, OneCopyEnded

LEMMA ManualInv ==
    ASSUME IInv, CreateManual
    PROVE  IInv'
<1> USE DEF IInv
<1>1. PICK owned \in BOOLEAN : card' = [Fresh EXCEPT !.phase = "Assigned", !.owned = owned]
  BY DEF CreateManual
<1>2. card.phase = "none" /\ UNCHANGED <<copies, job, upset>>
  BY DEF CreateManual
<1>3. card'.started = None /\ card'.minutes = 0 /\ card'.phase = "Assigned"
  BY <1>1, FreshType DEF Fresh
<1>4. HasStart'
  BY <1>2, <1>3 DEF HasStart
<1>5. OneCopy'
  BY <1>2 DEF OneCopy
<1> QED  BY <1>2, <1>4, <1>5, ManualType DEF Leaving

\* A device that loads, the clock, and steps of nobody.
LEMMA RestInv ==
    ASSUME IInv, (\E d \in Devices : Load(d)) \/ Tick \/ UNCHANGED vars
    PROVE  IInv'
<1> USE DEF IInv
<1>1. UNCHANGED <<card, copies, job>> /\ upset \subseteq upset'
  BY DEF Load, Tick, vars
<1>2. TypeOK'
  <2>1. CASE \E d \in Devices : Load(d)
    BY <2>1, LoadType
  <2>2. CASE Tick
    BY <2>2, TickType
  <2>3. CASE UNCHANGED vars
    BY <2>3 DEF vars, TypeOK
  <2> QED  BY <2>1, <2>2, <2>3
<1>3. Leaving' /\ OneCopy' /\ HasStart'
  BY <1>1 DEF Leaving, OneCopy, HasStart
<1> QED  BY <1>2, <1>3

LEMMA StepInv == IInv /\ [Next]_vars => IInv'
<1> SUFFICES ASSUME IInv, Next \/ UNCHANGED vars  PROVE IInv'
  OBVIOUS
<1>1. CASE Next
  <2>1. ASSUME NEW r \in Requests,
               \/ Create(r) \/ Supervise(r)
               \/ \E d \in Devices : Start(r, d) \/ Pause(r, d) \/ Complete(r, d)
        PROVE  IInv'
    BY <2>1, AskedInv
  <2>2. ASSUME NEW r \in Requests,
               StartWrites(r) \/ PauseWrites(r) \/ CompleteWrites(r) \/ SuperviseWrites(r) \/ Fails(r)
        PROVE  IInv'
    BY <2>2, WritesInv
  <2>3. ASSUME NEW r \in Requests, CreateWrites(r)  PROVE IInv'
    BY <2>3, CreatesInv
  <2>4. CASE CreateManual
    BY <2>4, ManualInv
  <2>5. CASE (\E d \in Devices : Load(d)) \/ Tick
    BY <2>5, RestInv
  <2> QED  BY <1>1, <2>1, <2>2, <2>3, <2>4, <2>5, NextSplits
<1>2. CASE UNCHANGED vars
  BY <1>2, RestInv
<1> QED  BY <1>1, <1>2

LEMMA Invariance == Spec => []IInv
  BY InitInv, StepInv, PTL DEF Spec

-----------------------------------------------------------------------------
(* Theorems.                                                               *)

\* The types, with the text of a card within its room, whatever overlaps or
\* goes wrong.
THEOREM TypeCorrect == Spec => []TypeOK
<1>1. IInv => TypeOK
  BY DEF IInv
<1> QED  BY <1>1, Invariance, PTL

\* A task that is or was executed keeps its first start, which pauseTask() and
\* completeTask() ask for, through every overlap of requests but not an edit.
THEOREM StartIsKept == Spec => []ExecutedHasStart
<1>1. IInv => ExecutedHasStart
  BY DEF IInv, HasStart, ExecutedHasStart
<1> QED  BY <1>1, Invariance, PTL

\* However many synchronisations there are, the look at the tasks there are is
\* enough to create one, unless two overlap or the look fails.
THEOREM OneTask == Spec => []OneTaskPerCheckout
<1>1. IInv => OneTaskPerCheckout
  BY DEF IInv, OneCopy, OneTaskPerCheckout
<1> QED  BY <1>1, Invariance, PTL

-----------------------------------------------------------------------------
(* What a request under way has read, as long as no request overlapped with *)
(* another and nobody edited.                                               *)

Undisturbed == upset \cap {"race", "edit"} = {}

\* The phases that each kind of request is let through in.
ReadIn(j) ==
    /\ j.op = "start" => j.was.phase \in {"Assigned", "Completed", "Reviewed"}
    /\ j.op \in {"pause", "complete"} => j.was.phase = "InExecution"
    /\ j.op \in {"approve", "reject"} => j.was.phase = "Completed"
    /\ j.op = "reopen" => j.was.phase \in {"Completed", "Reviewed"}
    /\ j.op = "cancel" => j.was.phase \in {"Assigned", "InExecution"}
    /\ j.op = "assign" => j.was.phase # "none"

Reading == \A r \in Requests : ReadIn(job[r])

Blank == Undisturbed /\ card.phase = "none" => card = Fresh

\* A request that asks.
Begins(r) ==
    \/ Create(r) \/ Supervise(r)
    \/ \E d \in Devices : Start(r, d) \/ Pause(r, d) \/ Complete(r, d)

\* Of a step that begins a request nothing but the request is seen.
LEMMA BeginsLeaves ==
    ASSUME TypeOK, NEW r \in Requests, Begins(r)
    PROVE  UNCHANGED <<card, copies, view, clock, worked, session, starts, left, began, drift, sessionDrift>>
           /\ upset \subseteq upset'
  BY DEF Begins, Create, Supervise, Start, Pause, Complete, Leaves, Asks, History

LEMMA BeginsReading ==
    ASSUME TypeOK, Reading, NEW r \in Requests, Begins(r)
    PROVE  Reading'
<1>1. Others(r)
  BY AskedSteps DEF Begins, Asked
<1>2. ReadIn(job'[r])
  <2>1. ASSUME NEW op, NEW dev, NEW report, NEW draft, NEW mishap,
               Asks(r, op, dev, report, draft, mishap)
        PROVE  job'[r].op = op /\ job'[r].was = card
    BY <2>1, TypeGives DEF Asks
  <2>2. CASE Create(r)
    BY <2>1, <2>2 DEF Create, ReadIn
  <2>3. ASSUME NEW d \in Devices, Start(r, d)  PROVE ReadIn(job'[r])
    <3>1. card.phase \in {"Assigned", "Completed", "Reviewed"}
      BY <2>3, TypeGives DEF Start, Transitions, Card, Phases
    <3> QED  BY <2>1, <2>3, <3>1 DEF Start, ReadIn
  <2>4. ASSUME NEW d \in Devices, Pause(r, d) \/ Complete(r, d)  PROVE ReadIn(job'[r])
    <3>1. PICK op \in {"pause", "complete"}, draft \in 0..Room : Leaves(r, op, d, draft)
      BY <2>4, RoomAssumption DEF Pause, Complete
    <3> QED  BY <2>1, <3>1 DEF Leaves, ReadIn
  <2>5. CASE Supervise(r)
    <3>1. CASE card.phase = "Completed" /\ \E op \in {"approve", "reject"} : Asks(r, op, None, None, 0, {})
      BY <2>1, <3>1 DEF ReadIn
    <3>2. CASE card.phase \in {"Completed", "Reviewed"} /\ Asks(r, "reopen", None, None, 0, {})
      BY <2>1, <3>2 DEF ReadIn
    <3>3. CASE card.phase \in {"Assigned", "InExecution"} /\ Asks(r, "cancel", None, None, 0, {})
      BY <2>1, <3>3 DEF ReadIn
    <3>4. CASE card.phase # "none" /\ Asks(r, "assign", None, None, 0, {})
      BY <2>1, <3>4 DEF ReadIn
    <3>5. CASE Asks(r, "edit", None, None, 0, {"edit"})
      BY <2>1, <3>5 DEF ReadIn
    <3> QED  BY <2>5, <3>1, <3>2, <3>3, <3>4, <3>5 DEF Supervise
  <2> QED  BY <2>2, <2>3, <2>4, <2>5 DEF Begins
<1> QED  BY <1>1, <1>2 DEF Reading, Others

LEMMA EndedReading ==
    ASSUME Reading, NEW r \in Requests, Ended(r)
    PROVE  Reading'
  BY DEF Reading, Ended, Others, ReadIn, Idle

-----------------------------------------------------------------------------
(* What a step does to the card, when no request overlapped with another.   *)

\* A phase that is written where it may be, and nothing else of the card.
Moves ==
    /\ card'.log = card.log /\ card'.minutes = card.minutes /\ card'.started = card.started
    /\ \/ card'.phase = card.phase
       \/ card.phase = "none" /\ card'.phase = "Assigned"
       \/ card.phase = "Completed" /\ card'.phase = "Reviewed"
       \/ card.phase \in {"Completed", "Reviewed"} /\ card'.phase = "Assigned"
       \/ card.phase # "none" /\ card'.phase = "Cancelled"

Quiet == Moves /\ UNCHANGED <<view, clock, worked, session, starts, left, began, drift, sessionDrift>>

LEMMA AssignedFresh ==
    ASSUME NEW owned \in BOOLEAN
    PROVE  LET c == [Fresh EXCEPT !.phase = "Assigned", !.owned = owned]
               e == [Fresh EXCEPT !.phase = "Assigned"]
           IN  /\ c.phase = "Assigned" /\ c.log = Fresh.log /\ c.minutes = Fresh.minutes
               /\ c.started = Fresh.started
               /\ e.phase = "Assigned" /\ e.log = Fresh.log /\ e.minutes = Fresh.minutes
               /\ e.started = Fresh.started
  BY DEF Fresh

\* The supervisor's writes, of a card that is still what the request read.
LEMMA SuperviseMoves ==
    ASSUME TypeOK, Reading, NEW r \in Requests, SuperviseWrites(r), Undisturbed'
    PROVE  Quiet /\ upset \subseteq upset' /\ (card'.phase = "none" => card' = card)
<1>1. upset' = upset \cup Races(r) \cup (IF Is(r, "edit") THEN {"edit"} ELSE {})
      /\ UNCHANGED <<view, mishaps, worked, session, starts, left, began, drift, sessionDrift>>
  BY DEF SuperviseWrites, History
<1>2. job[r].was = card /\ ~ Is(r, "edit")
  BY <1>1 DEF Undisturbed, Races
<1>3. ReadIn(job[r]) /\ card \in Cards
  BY TypeGives DEF Reading
<1>4. ASSUME NEW phase \in Phases, Writes(r, [card EXCEPT !.phase = phase])
      PROVE  card' = [card EXCEPT !.phase = phase] /\ clock' = clock
             /\ card'.log = card.log /\ card'.minutes = card.minutes
             /\ card'.started = card.started /\ card'.phase = phase
  BY <1>3, <1>4 DEF Writes, Cards, Card
<1>5. CASE Is(r, "approve") /\ Writes(r, [card EXCEPT !.phase = "Reviewed"])
  BY <1>1, <1>2, <1>3, <1>4, <1>5 DEF Is, ReadIn, Quiet, Moves, Phases
<1>6. CASE (Is(r, "reject") \/ Is(r, "reopen")) /\ Writes(r, Reopened(card))
  <2>1. card'.log = card.log /\ card'.minutes = card.minutes /\ clock' = clock
        /\ card'.started = card.started /\ card'.phase = "Assigned"
    BY <1>3, <1>6 DEF Writes, Reopened, Cards, Card
  <2>2. card.phase \in {"Completed", "Reviewed"}
    BY <1>2, <1>3, <1>6 DEF Is, ReadIn
  <2> QED  BY <1>1, <2>1, <2>2 DEF Quiet, Moves
<1>7. CASE Is(r, "cancel") /\ Writes(r, [card EXCEPT !.phase = "Cancelled"])
  BY <1>1, <1>2, <1>3, <1>4, <1>7 DEF Is, ReadIn, Quiet, Moves, Phases
<1>8. CASE Is(r, "assign") /\ \E owned \in BOOLEAN : Writes(r, [card EXCEPT !.owned = owned])
  <2>1. card'.log = card.log /\ card'.minutes = card.minutes /\ clock' = clock
        /\ card'.started = card.started /\ card'.phase = card.phase
    BY <1>3, <1>8 DEF Writes, Cards, Card
  <2>2. card.phase # "none"
    BY <1>2, <1>3, <1>8 DEF Is, ReadIn
  <2> QED  BY <1>1, <2>1, <2>2 DEF Quiet, Moves
<1> QED  BY <1>2, <1>5, <1>6, <1>7, <1>8 DEF SuperviseWrites

\* The steps that neither start nor end an execution, load, or take a minute.
Other ==
    \/ \E r \in Requests : Begins(r) \/ CreateWrites(r) \/ SuperviseWrites(r) \/ Fails(r)
    \/ CreateManual \/ UNCHANGED vars

LEMMA OtherQuiet ==
    ASSUME TypeOK, Reading, Blank, Other, Undisturbed'
    PROVE  Quiet /\ upset \subseteq upset' /\ Blank'
<1>1. ASSUME NEW r \in Requests, Begins(r)  PROVE Quiet /\ upset \subseteq upset' /\ card' = card
  BY <1>1, BeginsLeaves DEF Quiet, Moves
<1>2. ASSUME NEW r \in Requests, CreateWrites(r)
      PROVE  Quiet /\ upset \subseteq upset' /\ (card'.phase = "none" => card' = card)
  <2>1. UNCHANGED <<view, clock, upset, worked, session, starts, left, began, drift, sessionDrift>>
        /\ card' = IF card.phase = "none" THEN [Fresh EXCEPT !.phase = "Assigned"] ELSE card
    BY <1>2 DEF CreateWrites, History
  <2>2. card.phase = "none" => card = Fresh
    BY <2>1 DEF Blank, Undisturbed
  <2>3. Moves
    BY <2>1, <2>2, AssignedFresh DEF Moves
  <2> QED  BY <2>1, <2>3, AssignedFresh DEF Quiet
<1>3. ASSUME NEW r \in Requests, SuperviseWrites(r)
      PROVE  Quiet /\ upset \subseteq upset' /\ (card'.phase = "none" => card' = card)
  BY <1>3, SuperviseMoves
<1>4. ASSUME NEW r \in Requests, Fails(r)  PROVE Quiet /\ upset \subseteq upset' /\ card' = card
  BY <1>4 DEF Fails, History, Quiet, Moves
<1>5. ASSUME CreateManual
      PROVE  Quiet /\ upset \subseteq upset' /\ (card'.phase = "none" => card' = card)
  <2>1. UNCHANGED <<view, clock, upset, worked, session, starts, left, began, drift, sessionDrift>> /\ card.phase = "none"
        /\ \E owned \in BOOLEAN : card' = [Fresh EXCEPT !.phase = "Assigned", !.owned = owned]
    BY <1>5 DEF CreateManual, History
  <2>2. card = Fresh
    BY <2>1 DEF Blank, Undisturbed
  <2>3. card'.phase = "Assigned" /\ card'.log = card.log /\ card'.minutes = card.minutes
        /\ card'.started = card.started
    BY <2>1, <2>2, AssignedFresh
  <2> QED  BY <2>1, <2>3 DEF Quiet, Moves
<1>6. ASSUME UNCHANGED vars  PROVE Quiet /\ upset \subseteq upset' /\ card' = card
  BY <1>6 DEF vars, Quiet, Moves
<1>7. CASE Quiet /\ upset \subseteq upset' /\ (card'.phase = "none" => card' = card)
  BY <1>7 DEF Blank, Undisturbed
<1> QED  BY <1>1, <1>2, <1>3, <1>4, <1>5, <1>6, <1>7 DEF Other

\* What a start does: with a note, if it is not the first.
Starts ==
    /\ card.phase \in {"Assigned", "Completed", "Reviewed"}
    /\ card'.phase = "InExecution" /\ card'.minutes = card.minutes
    /\ IF HasRun(card) THEN card'.started = card.started /\ card'.log = StartKeeps(card)
       ELSE card'.started = clock /\ card'.log = card.log
    /\ starts' = starts + 1
    /\ session' = IF left = "pause" THEN session ELSE 0
    /\ sessionDrift' = IF left = "pause" THEN sessionDrift ELSE 0
    /\ began' = clock
    /\ UNCHANGED <<clock, worked, left, drift>>
    /\ upset \subseteq upset' /\ Forgets(card) \subseteq upset'

\* What its device gets to know.
StartView ==
    [accumulated |-> card.minutes, since |-> clock,
     base |-> IF Paused(card) THEN AtLeast(0, card.minutes - Carry(card)) ELSE 0,
     start |-> starts + 1]

LEMMA StartDoes ==
    ASSUME TypeOK, Reading, NEW r \in Requests, StartWrites(r), Undisturbed'
    PROVE  Starts /\ \A d \in Devices : view'[d] = view[d] \/ view'[d] = StartView
<1>1. job[r].was = card /\ Is(r, "start")
  BY DEF StartWrites, Undisturbed, Races
<1>2. card.phase \in {"Assigned", "Completed", "Reviewed"}
  BY <1>1 DEF Reading, ReadIn, Is
<1>3. /\ card' = IF HasRun(card)
                 THEN [card EXCEPT !.phase = "InExecution", !.draft = card.draft,
                                   !.log = StartKeeps(card)]
                 ELSE [card EXCEPT !.phase = "InExecution", !.started = clock]
      /\ UNCHANGED clock
  BY <1>1 DEF StartWrites, Writes
<1>4. /\ card'.phase = "InExecution" /\ card'.minutes = card.minutes
      /\ IF HasRun(card) THEN card'.started = card.started /\ card'.log = StartKeeps(card)
         ELSE card'.started = clock /\ card'.log = card.log
  BY <1>3, TypeGives DEF Cards, Card
<1>5. Starts
  BY <1>1, <1>2, <1>3, <1>4 DEF Starts, StartWrites
<1>6. Answers(r, StartView)
  BY <1>1 DEF StartWrites, StartView
<1>7. \A d \in Devices : view'[d] = view[d] \/ view'[d] = StartView
  <2> HIDE DEF StartView
  <2> QED  BY <1>6, TypeGives DEF Answers
<1> QED  BY <1>5, <1>7

\* The log with a note of this minute.
Noted(kind) == Append(card.log, [kind |-> kind, at |-> clock, carry |-> 0])

\* What a report says more than was worked.
Added(j) == IF j.report = None THEN 0 ELSE Adds(j.dev)

\* What the end of an execution does.
Ends(r) ==
    /\ card.phase = "InExecution" /\ card.started # None
    /\ job[r].start = starts /\ job[r].dev \in Devices
    /\ drift' = drift + Added(job[r]) /\ sessionDrift' = sessionDrift + Added(job[r])
    /\ card'.started = card.started /\ card'.minutes = Total(card, job[r].report)
    /\ UNCHANGED <<clock, worked, session, starts, began>>
    /\ upset \subseteq upset' /\ Caps(r) \subseteq upset'

PauseDoes ==
    /\ card'.phase = "Assigned" /\ left' = "pause"
    /\ \E draft \in 0..Room : card'.log = Keep(Keep(Noted("pause"), 0), draft)
    /\ "cut" \notin upset' => card'.log = Noted("pause")

CompleteDoes ==
    /\ card'.phase = "Completed" /\ left' = "done"
    /\ \E log \in {card.log, Noted("text")} :
         card'.log = Keep(log, 0) /\ ("cut" \notin upset' => card'.log = log)

LEMMA NotedType ==
    ASSUME TypeOK, NEW kind \in {"pause", "resume", "restart", "text"}
    PROVE  Noted(kind) \in Seq(Note) /\ [kind |-> kind, at |-> clock, carry |-> 0] \in Note
<1>1. [kind |-> kind, at |-> clock, carry |-> 0] \in Note /\ card.log \in Seq(Note)
  BY TypeGives DEF Note, Card
<1> QED  BY <1>1, AppendProperties DEF Noted

\* Nothing is lost when all of it fits.
LEMMA KeepsWhole ==
    ASSUME NEW log \in Seq(Note), NEW draft \in 0..Room, NEW c,
           "cut" \notin Loses(c, log, draft)
    PROVE  Keep(log, 0) = log /\ Keep(Keep(log, 0), draft) = log
<1>1. ~ (Len(log) + draft > Room) /\ Len(log) \in Nat /\ draft \in Nat /\ Room \in Nat
  BY RoomAssumption DEF Loses
<1>2. Len(log) + draft <= Room /\ Len(log) + 0 <= Room /\ 0 \in 0..Room
  BY <1>1
<1>3. Keep(log, 0) = log
  BY <1>2 DEF Keep
<1> QED  BY <1>2, <1>3 DEF Keep

LEMMA EndsDo ==
    ASSUME TypeOK, Leaving, Reading, NEW r \in Requests,
           PauseWrites(r) \/ CompleteWrites(r), Undisturbed'
    PROVE  /\ Ends(r) /\ job[r].op \in {"pause", "complete"} /\ job[r].was = card
           /\ PauseDoes \/ CompleteDoes
           /\ \A d \in Devices : view'[d] = view[d] \/ view'[d] = None
<1>1. job[r].op \in {"pause", "complete"}
  BY DEF PauseWrites, CompleteWrites, Is
<1>2. job[r].was = card /\ job[r].start = starts
      /\ upset \subseteq upset' /\ Caps(r) \subseteq upset'
  BY DEF PauseWrites, CompleteWrites, Undisturbed, Races
<1>3. card.phase = "InExecution" /\ card.started # None /\ job[r].dev \in Devices
  BY <1>1, <1>2 DEF Reading, ReadIn, Leaving
<1>8. drift' = drift + Added(job[r]) /\ sessionDrift' = sessionDrift + Added(job[r])
  BY DEF PauseWrites, CompleteWrites, Drifts, Added
<1>4. \A d \in Devices : view'[d] = view[d] \/ view'[d] = None
  <2>1. Answers(r, None)
    BY DEF PauseWrites, CompleteWrites
  <2> QED  BY <2>1, TypeGives DEF Answers
<1>5. card \in Card /\ job[r].draft \in 0..Room
  BY TypeGives, JobType
<1>6. CASE PauseWrites(r)
  <2> DEFINE log == Noted("pause")
             kept == Keep(Keep(log, 0), job[r].draft)
  <2>1. card' = [card EXCEPT !.phase = "Assigned", !.minutes = Total(card, job[r].report),
                             !.draft = job[r].draft, !.log = kept]
        /\ left' = "pause" /\ UNCHANGED <<clock, worked, session, starts, began>>
        /\ Loses(card, log, job[r].draft) \subseteq upset'
    BY <1>2, <1>6 DEF PauseWrites, Writes, Noted
  <2>2. "cut" \notin upset' => kept = log
    <3>1. log \in Seq(Note)
      BY NotedType
    <3> HIDE DEF log
    <3> QED  BY <2>1, <3>1, <1>5, KeepsWhole
  <2>3. card'.phase = "Assigned" /\ card'.minutes = Total(card, job[r].report)
        /\ card'.log = kept /\ card'.started = card.started
    <3> HIDE DEF kept
    <3> QED  BY <2>1, <1>5 DEF Card
  <2>4. PauseDoes
    BY <2>1, <2>2, <2>3, <1>5 DEF PauseDoes
  <2> QED  BY <1>1, <1>2, <1>3, <1>4, <1>8, <2>1, <2>3, <2>4 DEF Ends
<1>7. CASE CompleteWrites(r)
  <2>1. PICK log \in {card.log, Noted("text")} :
          /\ Writes(r, [card EXCEPT !.phase = "Completed", !.ended = TRUE,
                                    !.minutes = Total(card, job[r].report),
                                    !.draft = 0, !.log = Keep(log, 0)])
          /\ upset' = upset \cup Races(r) \cup Caps(r) \cup Loses(card, log, 0)
    BY <1>2, <1>7 DEF CompleteWrites, Noted
  <2>2. left' = "done" /\ UNCHANGED <<worked, session, starts, began>>
    BY <1>7 DEF CompleteWrites
  <2>3. log \in Seq(Note)
    BY <1>5, NotedType DEF Card
  <2>4. "cut" \notin upset' => Keep(log, 0) = log
    BY <2>1, <2>3, KeepsWhole, RoomAssumption
  <2>5. card'.phase = "Completed" /\ card'.minutes = Total(card, job[r].report)
        /\ card'.log = Keep(log, 0) /\ card'.started = card.started /\ clock' = clock
    BY <2>1, <1>5 DEF Writes, Card
  <2>6. CompleteDoes
    BY <2>2, <2>4, <2>5 DEF CompleteDoes
  <2> QED  BY <1>1, <1>2, <1>3, <1>4, <1>8, <2>2, <2>5, <2>6 DEF Ends
<1> QED  BY <1>6, <1>7

-----------------------------------------------------------------------------
(* The pause.                                                              *)

\* The last mark of a pause comes after the last one of a resumption.
Open(log) == Last(log, {"pause"}) > Last(log, {"resume"})

LEMMA OpenAppend ==
    ASSUME NEW log \in Seq(Note), NEW note \in Note
    PROVE  /\ note.kind = "pause" => Open(Append(log, note))
           /\ note.kind = "resume" => ~ Open(Append(log, note))
           /\ note.kind \in {"restart", "text"} => (Open(Append(log, note)) <=> Open(log))
<1>1. /\ Last(log, {"pause"}) \in 0..Len(log) /\ Last(log, {"resume"}) \in 0..Len(log)
      /\ Len(log) \in Nat
  BY LastGives
<1>2. \A kinds : Last(Append(log, note), kinds)
                   = IF note.kind \in kinds THEN Len(log) + 1 ELSE Last(log, kinds)
  BY LastAppend
<1>3. Last(Append(log, note), {"pause"})
        = IF note.kind \in {"pause"} THEN Len(log) + 1 ELSE Last(log, {"pause"})
  BY <1>2
<1>4. Last(Append(log, note), {"resume"})
        = IF note.kind \in {"resume"} THEN Len(log) + 1 ELSE Last(log, {"resume"})
  BY <1>2
<1> QED  BY <1>1, <1>3, <1>4 DEF Open

\* A resumption outlives the pause that it closes.
LEMMA OpenKeep ==
    ASSUME NEW log \in Seq(Note), NEW draft \in 0..Room, ~ Open(log)
    PROVE  ~ Open(Keep(log, draft))
<1> DEFINE kept == Keep(log, draft)
<1>1. PICK m \in 0..Len(log) :
        Len(kept) = Len(log) - m /\ \A i \in 1..Len(kept) : kept[i] = log[i + m]
  BY KeepEnds
<1>2. kept \in Seq(Note)
  BY KeepType
<1> HIDE DEF kept
<1>3. Len(log) \in Nat /\ Len(kept) \in Nat
  BY <1>2
<1>4. SUFFICES ASSUME Open(kept)  PROVE FALSE
  BY DEF kept
<1> DEFINE p == Last(kept, {"pause"})
           q == Last(kept, {"resume"})
           P == Last(log, {"pause"})
           Q == Last(log, {"resume"})
<1>5. /\ p \in 1..Len(kept) /\ q \in 0..Len(kept) /\ p > q
      /\ kept[p].kind = "pause"
      /\ \A i \in 1..Len(kept) : i > q => kept[i].kind # "resume"
  <2>1. p \in 0..Len(kept) /\ q \in 0..Len(kept) /\ p > q
        /\ (p # 0 => kept[p].kind \in {"pause"})
        /\ \A i \in 1..Len(kept) : i > q => kept[i].kind \notin {"resume"}
    BY <1>2, <1>3, <1>4, LastGives DEF Open
  <2> HIDE DEF p, q
  <2> QED  BY <2>1, <1>2, <1>3
<1>6. /\ P \in 0..Len(log) /\ Q \in 0..Len(log) /\ P <= Q
      /\ Q # 0 => log[Q].kind = "resume"
      /\ \A i \in 1..Len(log) : i > P => log[i].kind # "pause"
  <2>1. P \in 0..Len(log) /\ Q \in 0..Len(log) /\ ~ (P > Q)
        /\ (Q # 0 => log[Q].kind \in {"resume"})
        /\ \A i \in 1..Len(log) : i > P => log[i].kind \notin {"pause"}
    BY LastGives DEF Open
  <2> HIDE DEF P, Q
  <2> QED  BY <2>1, <1>2, <1>3
<1> HIDE DEF p, q, P, Q
<1>7. p + m \in 1..Len(log) /\ log[p + m].kind = "pause"
  BY <1>1, <1>2, <1>3, <1>5
<1>8. p + m <= P
  BY <1>2, <1>3, <1>6, <1>7
<1>9. Q - m \in 1..Len(kept) /\ Q - m > q /\ (Q - m) + m = Q /\ Q # 0
  BY <1>1, <1>2, <1>3, <1>5, <1>6, <1>8
<1>10. kept[Q - m] = log[Q]
  BY <1>1, <1>9
<1> QED  BY <1>5, <1>6, <1>9, <1>10

LEMMA StartNoteType ==
    ASSUME TypeOK, NEW c \in Card
    PROVE  /\ StartNote(c) \in Note /\ StartNote(c).at = clock
           /\ StartNote(c).kind = IF Paused(c) THEN "resume" ELSE "restart"
           /\ ~ Paused(c) => StartNote(c).carry = AtLeast(0, c.minutes)
           /\ Append(c.log, StartNote(c)) \in Seq(Note)
           /\ StartKeeps(c) \in Seq(Note) /\ c.draft \in 0..Room
<1>1. StartNote(c) \in Note /\ c.log \in Seq(Note) /\ c.draft \in 0..Room
  BY TypeGives DEF StartNote, Note, Card, AtLeast
<1>2. StartNote(c).at = clock /\ StartNote(c).kind = (IF Paused(c) THEN "resume" ELSE "restart")
      /\ (~ Paused(c) => StartNote(c).carry = AtLeast(0, c.minutes))
  BY DEF StartNote
<1> QED  BY <1>1, <1>2, AppendProperties, TypeGives, StartLogType

\* A start closes the pause, or there is none.
LEMMA StartCloses ==
    ASSUME TypeOK, NEW c \in Card, Paused(c) \/ ~ Open(c.log)
    PROVE  ~ Open(StartKeeps(c))
<1> DEFINE log == Append(c.log, StartNote(c))
<1>1. StartNote(c) \in Note /\ c.log \in Seq(Note) /\ log \in Seq(Note) /\ c.draft \in 0..Room
      /\ StartNote(c).kind = IF Paused(c) THEN "resume" ELSE "restart"
  BY StartNoteType DEF Card
<1>2. ~ Open(log)
  BY <1>1, OpenAppend
<1>3. Keep(log, 0) \in Seq(Note) /\ 0 \in 0..Room
  BY <1>1, KeepType, RoomAssumption
<1>4. ~ Open(Keep(log, 0))
  BY <1>1, <1>2, <1>3, OpenKeep
<1>5. ~ Open(Keep(Keep(log, 0), c.draft))
  BY <1>1, <1>3, <1>4, OpenKeep
<1> QED  BY <1>5 DEF StartKeeps

\* A pause that is not resumed is open in the text, and no other is.
Pausing ==
    /\ Undisturbed /\ left = "pause" => card.started # None
    /\ Undisturbed /\ "cut" \notin upset =>
        /\ card.phase = "Assigned" => (Open(card.log) <=> left = "pause")
        /\ card.phase \in {"none", "InExecution", "Completed", "Reviewed"} => ~ Open(card.log)
        /\ card.phase = "none" => left = "new"
        /\ card.phase \in {"Completed", "Reviewed"} => left = "done"

PInv == IInv /\ Reading /\ Blank /\ Pausing

\* The steps that matter to an execution, and the others.
LEMMA StepKinds ==
    ASSUME [Next]_vars
    PROVE  \/ \E r \in Requests : StartWrites(r)
           \/ \E r \in Requests : PauseWrites(r) \/ CompleteWrites(r)
           \/ \E d \in Devices : Load(d)
           \/ Tick
           \/ Other
<1>1. CASE Next
  BY <1>1, NextSplits DEF Other, Begins
<1>2. CASE UNCHANGED vars
  BY <1>2 DEF Other
<1> QED  BY <1>1, <1>2

LEMMA StartPausing ==
    ASSUME PInv, NEW r \in Requests, StartWrites(r)
    PROVE  Pausing'
<1> SUFFICES ASSUME Undisturbed'  PROVE Pausing'
  BY DEF Pausing
<1>1. Starts /\ TypeOK /\ Pausing /\ card \in Card
  BY StartDoes, TypeGives DEF PInv, IInv
<1>2. Undisturbed /\ HasStart
  BY <1>1 DEF Starts, Undisturbed, PInv, IInv
<1>3. card'.started # None
  BY <1>1, <1>2, TypeGives, NoneAssumption DEF Starts, HasRun, HasStart, Undisturbed
<1>4. ASSUME "cut" \notin upset'  PROVE ~ Open(card'.log)
  <2>1. "cut" \notin upset
    BY <1>1, <1>4 DEF Starts
  <2>2. /\ card.phase = "Assigned" => (Open(card.log) <=> left = "pause")
        /\ card.phase \in {"Completed", "Reviewed"} => ~ Open(card.log)
    BY <1>1, <1>2, <2>1 DEF Pausing
  <2>3. CASE HasRun(card)
    <3>1. Paused(card) \/ ~ Open(card.log)
      BY <1>1, <2>2 DEF Starts, Paused, Open
    <3>2. ~ Open(StartKeeps(card))
      BY <1>1, <3>1, StartCloses
    <3> QED  BY <1>1, <2>3, <3>2 DEF Starts
  <2>4. CASE ~ HasRun(card)
    <3>1. left # "pause"
      BY <1>1, <1>2, <2>4 DEF Pausing, HasRun
    <3>2. ~ Open(card.log)
      BY <1>1, <2>2, <3>1 DEF Starts
    <3> QED  BY <1>1, <2>4, <3>2 DEF Starts
  <2> QED  BY <2>3, <2>4
<1> QED  BY <1>1, <1>3, <1>4 DEF Starts, Pausing

LEMMA EndPausing ==
    ASSUME PInv, NEW r \in Requests, PauseWrites(r) \/ CompleteWrites(r)
    PROVE  Pausing'
<1> SUFFICES ASSUME Undisturbed'  PROVE Pausing'
  BY DEF Pausing
<1>1. Ends(r) /\ (PauseDoes \/ CompleteDoes) /\ TypeOK /\ Pausing /\ card.log \in Seq(Note)
  BY EndsDo, TypeGives DEF PInv, IInv, Card
<1>2. Undisturbed
  BY <1>1 DEF Ends, Undisturbed
<1>3. card'.started # None
  BY <1>1 DEF Ends
<1>4. CASE "cut" \in upset'
  BY <1>3, <1>4 DEF Pausing
<1>5. CASE "cut" \notin upset'
  <2>1. ~ Open(card.log)
    BY <1>1, <1>2, <1>5 DEF Ends, Pausing
  <2>2. CASE PauseDoes
    <3>1. Open(Noted("pause"))
      <4>1. [kind |-> "pause", at |-> clock, carry |-> 0] \in Note
        BY <1>1, NotedType
      <4> QED  BY <4>1, <1>1, OpenAppend DEF Noted
    <3>2. card'.phase = "Assigned" /\ left' = "pause" /\ card'.log = Noted("pause")
      BY <2>2, <1>5 DEF PauseDoes
    <3>3. Open(card'.log)
      BY <3>1, <3>2
    <3> QED  BY <1>3, <3>2, <3>3 DEF Pausing
  <2>3. CASE CompleteDoes
    <3>1. ~ Open(Noted("text"))
      <4>1. [kind |-> "text", at |-> clock, carry |-> 0] \in Note
        BY <1>1, NotedType
      <4> QED  BY <4>1, <1>1, <2>1, OpenAppend DEF Noted
    <3>2. card'.phase = "Completed" /\ left' = "done" /\ card'.log \in {card.log, Noted("text")}
      BY <2>3, <1>5 DEF CompleteDoes
    <3>3. ~ Open(card'.log)
      BY <2>1, <3>1, <3>2
    <3> QED  BY <1>3, <3>2, <3>3 DEF Pausing
  <2> QED  BY <1>1, <2>2, <2>3
<1> QED  BY <1>4, <1>5

LEMMA QuietPausing ==
    ASSUME Pausing, Quiet, upset \subseteq upset'
    PROVE  Pausing'
<1> SUFFICES ASSUME Undisturbed'  PROVE Pausing'
  BY DEF Pausing
<1>1. Undisturbed /\ left' = left /\ card'.started = card.started /\ card'.log = card.log
  BY DEF Undisturbed, Quiet, Moves
<1>2. CASE "cut" \in upset'
  BY <1>1, <1>2 DEF Pausing
<1>3. CASE "cut" \notin upset'
  <2>1. /\ card.phase = "Assigned" => (Open(card.log) <=> left = "pause")
        /\ card.phase \in {"none", "InExecution", "Completed", "Reviewed"} => ~ Open(card.log)
        /\ card.phase = "none" => left = "new"
        /\ card.phase \in {"Completed", "Reviewed"} => left = "done"
        /\ left = "pause" => card.started # None
    BY <1>1, <1>3 DEF Pausing
  <2>2. \/ card'.phase = card.phase
        \/ card.phase = "none" /\ card'.phase = "Assigned"
        \/ card.phase = "Completed" /\ card'.phase = "Reviewed"
        \/ card.phase \in {"Completed", "Reviewed"} /\ card'.phase = "Assigned"
        \/ card'.phase = "Cancelled"
    BY DEF Quiet, Moves
  <2>3. Open(card'.log) <=> Open(card.log)
    BY <1>1
  <2> QED  BY <1>1, <2>1, <2>2, <2>3 DEF Pausing
<1> QED  BY <1>2, <1>3

LEMMA StepPInv ==
    ASSUME PInv, [Next]_vars
    PROVE  PInv'
<1>1. IInv' /\ TypeOK
  BY StepInv DEF PInv, IInv
<1>2. ASSUME NEW r \in Requests, StartWrites(r)  PROVE PInv'
  <2>1. Ended(r)
    BY <1>1, <1>2, EndedSteps DEF StartWrites, Writes
  <2>2. Blank'
    BY <1>1, <1>2, StartDoes DEF Blank, Starts, PInv
  <2> QED  BY <1>1, <1>2, <2>1, <2>2, EndedReading, StartPausing DEF PInv
<1>3. ASSUME NEW r \in Requests, PauseWrites(r) \/ CompleteWrites(r)  PROVE PInv'
  <2>1. Ended(r)
    BY <1>1, <1>3, EndedSteps DEF PauseWrites, CompleteWrites, Writes
  <2>2. Blank'
    BY <1>1, <1>3, EndsDo DEF Blank, PauseDoes, CompleteDoes, PInv, IInv
  <2> QED  BY <1>1, <1>3, <2>1, <2>2, EndedReading, EndPausing DEF PInv
<1>4. CASE (\E d \in Devices : Load(d)) \/ Tick
  <2>1. UNCHANGED <<card, job, left>> /\ upset \subseteq upset'
    BY <1>4 DEF Load, Tick, History
  <2>2. Reading' /\ Blank' /\ Pausing'
    BY <2>1 DEF PInv, Reading, Blank, Pausing, Undisturbed
  <2> QED  BY <1>1, <2>2 DEF PInv
<1>5. CASE Other
  <2>1. Reading'
    <3>1. ASSUME NEW r \in Requests, Begins(r)  PROVE Reading'
      BY <1>1, <3>1, BeginsReading DEF PInv
    <3>2. ASSUME NEW r \in Requests, CreateWrites(r) \/ SuperviseWrites(r) \/ Fails(r)
          PROVE  Reading'
      <4>1. job' = [job EXCEPT ![r] = Idle]
        <5>1. CASE CreateWrites(r) \/ Fails(r)
          BY <5>1 DEF CreateWrites, Fails
        <5>2. CASE SuperviseWrites(r)
          BY <1>1, <5>2, SuperviseWritesCard
        <5> QED  BY <3>2, <5>1, <5>2
      <4> QED  BY <1>1, <4>1, EndedSteps, EndedReading DEF PInv
    <3>3. CASE CreateManual \/ UNCHANGED vars
      BY <3>3 DEF CreateManual, vars, Reading, PInv
    <3> QED  BY <1>5, <3>1, <3>2, <3>3 DEF Other
  <2>2. CASE Undisturbed'
    BY <1>1, <1>5, <2>1, <2>2, OtherQuiet, QuietPausing DEF PInv
  <2>3. CASE ~ Undisturbed'
    BY <1>1, <2>1, <2>3 DEF PInv, Blank, Pausing
  <2> QED  BY <2>2, <2>3
<1> QED  BY <1>2, <1>3, <1>4, <1>5, StepKinds

LEMMA InitPInv == Init => PInv
<1> SUFFICES ASSUME Init  PROVE PInv
  OBVIOUS
<1>1. IInv
  BY InitInv
<1>2. Reading
  BY DEF Init, Reading, ReadIn, Idle
<1>3. Blank
  BY DEF Init, Blank
<1>4. Pausing
  <2>1. card.log = <<>> /\ card.phase = "none" /\ left = "new"
    BY FreshType DEF Init, Fresh
  <2>2. Last(<<>>, {"pause"}) = 0 /\ Last(<<>>, {"resume"}) = 0
    <3>1. ASSUME NEW kinds  PROVE Last(<<>>, kinds) = 0
      <4>1. {i \in 1..Len(<<>>) : <<>>[i].kind \in kinds} = {}
        OBVIOUS
      <4> QED  BY <4>1 DEF Last
    <3> QED  BY <3>1
  <2> QED  BY <2>1, <2>2 DEF Pausing, Open
<1> QED  BY <1>1, <1>2, <1>3, <1>4 DEF PInv

LEMMA PInvariance == Spec => []PInv
  BY InitPInv, StepPInv, PTL DEF Spec

\* A pause is told from a reopening and from a task never begun, for any room of
\* the text, drafts and overlaps that do not cross: unless a note was lost as an
\* execution was left.
THEOREM PausesTold == Spec => []PauseIsTold
<1>1. PInv => PauseIsTold
  BY DEF PInv, Pausing, Undisturbed, PauseIsTold, Paused, Open
<1> QED  BY <1>1, PInvariance, PTL

-----------------------------------------------------------------------------
(* The minutes.                                                            *)

\* Nobody left an execution, or went on with one, without having seen it begin, and no report
\* was above the maximum.
Seen == upset \cap {"race", "stale", "blind", "edit", "capped"} = {}

\* The minutes in execution as the clocks of the devices have them.
Written == worked + drift

Starting == {"resume", "restart"}

Unmarked(log) == \A i \in 1..Len(log) : log[i].kind \notin Starting

\* The minutes of the execution going on, which the card does not have yet.
Running == Written - card.minutes

\* What the card has is right but for those.
CardCounts ==
    /\ 0 <= card.minutes /\ card.minutes <= Written
    /\ card.phase \in {"none", "Assigned", "Completed", "Reviewed"} => card.minutes = Written
    /\ card.phase = "InExecution" => began = clock - Running

\* Of the first start the card tells by its field, of a later one by a mark, and
\* either stands at the beginning of the execution.
CardTells ==
    /\ card.phase = "none" => starts = 0
    /\ starts = 0 => card.started = None /\ worked = 0 /\ session = 0
    /\ starts = 0 => drift = 0 /\ sessionDrift = 0
    /\ starts = 0 => card.phase \in {"none", "Assigned", "Cancelled"}
    /\ starts # 0 => card.started # None
    /\ starts <= 1 => Unmarked(card.log)
    /\ card.phase = "InExecution" /\ starts = 1 =>
           card.minutes = 0 /\ card.started = clock - Running
    /\ card.phase = "InExecution" /\ Last(card.log, Starting) # 0 =>
           card.log[Last(card.log, Starting)].at = clock - Running

\* A device that knows of this execution counts from there.
DeviceCounts(d) ==
    view[d] # None =>
        /\ view[d].start <= starts
        /\ view[d].accumulated <= card.minutes
        /\ card.phase = "InExecution" /\ view[d].start = starts =>
               view[d].accumulated = card.minutes /\ view[d].since = clock - Running

\* What is going to be written of the execution that goes on are its minutes, and what the
\* clock of the device adds.
Reported(j) ==
    j.op \in {"pause", "complete"} =>
        /\ j.start <= starts
        /\ card.phase = "InExecution" /\ j.start = starts =>
               \/ Total(j.was, j.report) = Written + Added(j)
               \/ j.report # None /\ j.report > MaxTotal

Reports == \A r \in Requests : Reported(job[r])
DevicesCount == \A d \in Devices : DeviceCounts(d)

Counting == Seen => CardCounts /\ CardTells /\ DevicesCount /\ Reports

WInv == PInv /\ Counting

LEMMA WTypes ==
    ASSUME TypeOK
    PROVE  /\ card.minutes \in Int /\ card.log \in Seq(Note) /\ Len(card.log) \in Nat
           /\ card.started \in Nat \cup {None} /\ clock \in Nat /\ worked \in Nat
           /\ starts \in Nat /\ session \in Nat
           /\ began \in Nat /\ drift \in Int /\ sessionDrift \in Int /\ Written \in Int
           /\ \A d \in Devices : view[d] # None =>
                view[d] \in View /\ view[d].accumulated \in Int /\ view[d].since \in Int
                /\ view[d].base \in Int /\ view[d].start \in Nat
<1>1. card \in Card /\ clock \in Nat /\ worked \in Nat /\ starts \in Nat /\ session \in Nat
      /\ began \in Nat /\ drift \in Int /\ sessionDrift \in Int
      /\ view \in [Devices -> View \cup {None}]
  BY TypeGives
<1>2. ASSUME NEW d \in Devices, view[d] # None
      PROVE  view[d] \in View /\ view[d].accumulated \in Int /\ view[d].since \in Int
             /\ view[d].base \in Int /\ view[d].start \in Nat
  BY <1>1, <1>2 DEF View
<1>3. card.minutes \in Int /\ card.log \in Seq(Note) /\ card.started \in Nat \cup {None}
  BY <1>1 DEF Card
<1>4. Written \in Int
  BY <1>1 DEF Written
<1> QED  BY <1>1, <1>2, <1>3, <1>4

\* The note of a start is the last to give way: the card tells of it, or of none.
LEMMA StartTold ==
    ASSUME TypeOK, NEW c \in Card
    PROVE  \/ Len(StartKeeps(c)) = 0
           \/ StartKeeps(c)[Len(StartKeeps(c))] = StartNote(c)
<1> DEFINE log == Append(c.log, StartNote(c))
           once == Keep(log, 0)
<1>1. log \in Seq(Note) /\ c.draft \in 0..Room /\ StartNote(c) \in Note /\ c.log \in Seq(Note)
  BY StartNoteType DEF Card
<1>2. Len(log) # 0 /\ log[Len(log)] = StartNote(c)
  <2>1. Len(log) = Len(c.log) + 1 /\ Len(c.log) \in Nat /\ log[Len(c.log) + 1] = StartNote(c)
    BY <1>1, AppendProperties
  <2> HIDE DEF log
  <2> QED  BY <2>1
<1>3. 0 \in 0..Room /\ once \in Seq(Note)
  BY <1>1, KeepType, RoomAssumption
<1>4. StartKeeps(c) = Keep(once, c.draft)
  BY DEF StartKeeps
<1>5. CASE Len(once) = 0
  <2>1. Len(Keep(once, c.draft)) = 0
    <3> HIDE DEF once
    <3> QED  BY <1>1, <1>3, <1>5, KeepNone
  <2> QED  BY <2>1, <1>4
<1>6. CASE Len(once) # 0
  <2>1. once[Len(once)] = StartNote(c)
    <3> HIDE DEF log
    <3> QED  BY <1>1, <1>2, <1>3, <1>6, KeepLastNote
  <2>2. CASE Len(Keep(once, c.draft)) # 0
    <3> HIDE DEF once
    <3> QED  BY <1>1, <1>3, <1>4, <1>6, <2>1, <2>2, KeepLastNote
  <2> QED  BY <1>4, <2>2
<1> QED  BY <1>5, <1>6

LEMMA StartLast ==
    ASSUME TypeOK, NEW c \in Card, NEW kinds, Len(StartKeeps(c)) # 0, StartNote(c).kind \in kinds
    PROVE  Last(StartKeeps(c), kinds) = Len(StartKeeps(c))
<1> DEFINE kept == StartKeeps(c)
<1>1. kept \in Seq(Note) /\ kept[Len(kept)] = StartNote(c)
  BY StartTold, StartNoteType
<1> HIDE DEF kept
<1>2. Len(kept) \in 1..Len(kept) /\ ~ \E j \in 1..Len(kept) : j > Len(kept)
  <2>1. Len(kept) \in Nat /\ Len(kept) # 0
    BY <1>1 DEF kept
  <2> QED  BY <2>1
<1>3. Last(kept, kinds) = Len(kept)
  BY <1>1, <1>2, LastIs
<1> QED  BY <1>3 DEF kept

LEMMA StartMark ==
    ASSUME TypeOK, NEW c \in Card, Last(StartKeeps(c), Starting) # 0
    PROVE  /\ Last(StartKeeps(c), Starting) = Len(StartKeeps(c))
           /\ StartKeeps(c)[Last(StartKeeps(c), Starting)] = StartNote(c)
<1>1. StartKeeps(c) \in Seq(Note) /\ StartNote(c).kind \in Starting
  BY StartNoteType DEF Starting
<1>2. Len(StartKeeps(c)) # 0
  <2>1. Last(StartKeeps(c), Starting) \in 0..Len(StartKeeps(c))
    BY <1>1, LastGives
  <2> QED  BY <2>1
<1> QED  BY <1>1, <1>2, StartTold, StartLast

\* The minutes that are written are no fewer than those there are.
LEMMA TotalGrows ==
    ASSUME TypeOK, card.started # None, 0 <= card.minutes, NEW report \in Int \cup {None}
    PROVE  card.minutes <= Total(card, report)
<1>1. card.minutes \in Int /\ MaxTotal \in Int /\ clock \in Nat /\ card.started \in Nat
  BY WTypes, BoundsAssumption
<1> QED  BY <1>1 DEF Total, AtLeast

\* The clock of a device takes away no more than the execution has.
LEMMA AddsType ==
    ASSUME TypeOK, NEW d \in Devices
    PROVE  Adds(d) \in Int /\ Adds(d) = AtLeast(began - clock, Skew[d])
  BY WTypes, SkewAssumption DEF Adds, AtLeast

LEMMA AddedType ==
    ASSUME TypeOK, NEW j, j.dev \in Devices
    PROVE  Added(j) \in Int
  BY AddsType DEF Added

\* A request that ends says nothing more, and the others say it of an execution that went on.
LEMMA EndedReports ==
    ASSUME TypeOK, Reports, NEW r \in Requests, Ended(r),
           starts <= starts', starts' \in Nat, UNCHANGED <<clock, worked>>,
           card'.phase = "InExecution" /\ starts' = starts =>
               card.phase = "InExecution" /\ UNCHANGED <<began, drift>>
    PROVE  Reports'
<1>1. ASSUME NEW q \in Requests  PROVE Reported(job[q])'
  <2>1. CASE q = r
    BY <2>1 DEF Ended, Reported, Idle
  <2>2. CASE q # r
    <3> SUFFICES ASSUME job[q].op \in {"pause", "complete"}  PROVE Reported(job[q])'
      BY <2>2 DEF Ended, Others, Reported
    <3>1. job'[q] = job[q] /\ job[q].start \in Nat /\ job[q].start <= starts /\ starts \in Nat
      BY <2>2, JobType, TypeGives DEF Ended, Others, Reports, Reported
    <3>2. job[q].start <= starts'
      BY <3>1
    <3>3. ASSUME card'.phase = "InExecution", job[q].start = starts'
          PROVE  \/ (Total(job[q].was, job[q].report) = Written + Added(job[q]))'
                 \/ job'[q].report # None /\ job'[q].report > MaxTotal
      <4>1. job[q].start = starts /\ starts' = starts
        BY <3>1, <3>3
      <4>2. card.phase = "InExecution" /\ UNCHANGED <<began, drift, clock, worked>>
        BY <3>3, <4>1
      <4>3. \/ Total(job[q].was, job[q].report) = Written + Added(job[q])
            \/ job[q].report # None /\ job[q].report > MaxTotal
        BY <4>1, <4>2 DEF Reports, Reported
      <4> QED  BY <3>1, <4>2, <4>3 DEF Total, Written, Added, Adds
    <3> QED  BY <3>1, <3>2, <3>3 DEF Reported
  <2> QED  BY <2>1, <2>2
<1> QED  BY <1>1 DEF Reports

\* What a step with no overlap needs of the minutes before it.
Counted == CardCounts /\ CardTells /\ DevicesCount /\ Reports

LEMMA StartCounts ==
    ASSUME TypeOK, Counted, Starts,
           \A d \in Devices : view'[d] = view[d] \/ view'[d] = StartView
    PROVE  (CardCounts /\ CardTells /\ DevicesCount)'
<1>1. /\ card.minutes \in Int /\ card.log \in Seq(Note) /\ clock \in Nat /\ clock # None
      /\ worked \in Nat /\ starts \in Nat /\ card.started \in Nat \cup {None} /\ card \in Card
      /\ Written \in Int
  BY WTypes, TypeGives, NoneAssumption
<1>2. /\ card.minutes = Written /\ card'.phase = "InExecution" /\ card'.minutes = Written
      /\ starts' = starts + 1 /\ starts' # 0 /\ clock' = clock /\ Written' = Written
      /\ worked' = worked /\ drift' = drift /\ began' = clock /\ 0 <= card.minutes
  BY <1>1 DEF Starts, Counted, CardCounts, Written
<1>3. Running' = 0
  BY <1>1, <1>2 DEF Running
<1>4. card.started = None => starts = 0 /\ ~ HasRun(card) /\ Unmarked(card.log)
  BY <1>1, <1>2 DEF Counted, CardTells, HasRun, Written
<1>5. CardCounts'
  BY <1>1, <1>2, <1>3 DEF CardCounts
<1>6. CardTells'
  <2>1. CASE HasRun(card)
    <3>1. card.started # None /\ card'.started = card.started /\ card'.log = StartKeeps(card)
      BY <1>4, <2>1 DEF Starts
    <3>2. starts # 0
      BY <3>1 DEF Counted, CardTells
    <3>3. ~ (starts' <= 1)
      BY <1>1, <1>2, <3>2
    <3>4. Last(card'.log, Starting) # 0 => card'.log[Last(card'.log, Starting)].at = clock
      <4> SUFFICES ASSUME Last(card'.log, Starting) # 0
                   PROVE  card'.log[Last(card'.log, Starting)].at = clock
        OBVIOUS
      <4>1. StartKeeps(card)[Last(StartKeeps(card), Starting)] = StartNote(card)
        BY <1>1, <3>1, StartMark
      <4>2. StartNote(card).at = clock
        BY DEF StartNote
      <4> QED  BY <4>1, <4>2, <3>1
    <3>5. clock = clock' - Running'
      BY <1>1, <1>2, <1>3
    <3> QED  BY <1>2, <3>1, <3>3, <3>4, <3>5 DEF CardTells
  <2>2. CASE ~ HasRun(card)
    <3>1. card.started = None /\ card'.started = clock /\ card'.log = card.log
      BY <2>2 DEF Starts, HasRun
    <3>2. starts = 0 /\ Unmarked(card'.log) /\ Written = 0
      BY <1>4, <3>1 DEF Counted, CardTells, Written
    <3>3. Last(card'.log, Starting) = 0
      BY <1>1, <3>1, <3>2, LastNone DEF Unmarked
    <3>4. clock = clock' - Running'
      BY <1>1, <1>2, <1>3
    <3> QED  BY <1>1, <1>2, <3>1, <3>2, <3>3, <3>4 DEF CardTells
  <2> QED  BY <2>1, <2>2
<1>7. ASSUME NEW d \in Devices  PROVE DeviceCounts(d)'
  <2>1. clock = clock' - Running'
    BY <1>1, <1>2, <1>3
  <2>2. CASE view'[d] = StartView
    <3>1. StartView.start = starts' /\ StartView.accumulated = card'.minutes
          /\ StartView.since = clock' - Running' /\ starts' <= starts'
          /\ card'.minutes <= card'.minutes
      BY <1>1, <1>2, <2>1 DEF StartView
    <3> QED  BY <2>2, <3>1 DEF DeviceCounts
  <2>3. CASE view'[d] = view[d] /\ view[d] # None
    <3>1. view[d].start <= starts /\ view[d].accumulated <= card.minutes
          /\ view[d].start \in Nat
      BY <2>3, WTypes DEF Counted, DevicesCount, DeviceCounts
    <3>2. view[d].start <= starts' /\ view[d].start # starts' /\ card'.minutes = card.minutes
      BY <1>1, <1>2, <3>1
    <3> QED  BY <2>3, <3>1, <3>2 DEF DeviceCounts
  <2>4. CASE view'[d] = None
    BY <2>4 DEF DeviceCounts
  <2> QED  BY <2>2, <2>3, <2>4
<1> QED  BY <1>5, <1>6, <1>7 DEF DevicesCount

\* The end of an execution writes its minutes, and no mark of a start.
LEMMA EndUnmarked ==
    ASSUME TypeOK, Unmarked(card.log), PauseDoes \/ CompleteDoes
    PROVE  Unmarked(card'.log)
<1>1. card.log \in Seq(Note) /\ Len(card.log) \in Nat /\ 0 \in 0..Room
  BY WTypes, RoomAssumption
<1>2. ASSUME NEW kind \in {"pause", "text"}
      PROVE  Noted(kind) \in Seq(Note) /\ Unmarked(Noted(kind))
  <2> DEFINE note == [kind |-> kind, at |-> clock, carry |-> 0]
  <2>1. note \in Note /\ note.kind \notin Starting /\ Noted(kind) = Append(card.log, note)
    BY NotedType DEF Starting, Noted
  <2> HIDE DEF note
  <2>2. /\ Append(card.log, note) \in Seq(Note)
        /\ Len(Append(card.log, note)) = Len(card.log) + 1
        /\ Append(card.log, note)[Len(card.log) + 1] = note
        /\ \A i \in 1..Len(card.log) : Append(card.log, note)[i] = card.log[i]
    BY <1>1, <2>1, AppendProperties
  <2> QED  BY <1>1, <2>1, <2>2 DEF Unmarked
<1>3. ASSUME NEW log \in Seq(Note), Unmarked(log), NEW draft \in 0..Room
      PROVE  Keep(log, draft) \in Seq(Note) /\ Unmarked(Keep(log, draft))
  BY <1>3, KeepType, KeepUnmarked DEF Unmarked
<1>4. CASE PauseDoes
  <2>1. PICK draft \in 0..Room : card'.log = Keep(Keep(Noted("pause"), 0), draft)
    BY <1>4 DEF PauseDoes
  <2>2. Keep(Noted("pause"), 0) \in Seq(Note) /\ Unmarked(Keep(Noted("pause"), 0))
    BY <1>1, <1>2, <1>3
  <2> QED  BY <1>3, <2>1, <2>2
<1>5. CASE CompleteDoes
  <2>1. PICK log \in {card.log, Noted("text")} : card'.log = Keep(log, 0)
    BY <1>5 DEF CompleteDoes
  <2>2. log \in Seq(Note) /\ Unmarked(log)
    BY <1>1, <1>2, <2>1
  <2> QED  BY <1>1, <1>3, <2>1, <2>2
<1> QED  BY <1>4, <1>5

LEMMA EndWrites ==
    ASSUME TypeOK, Counted, NEW r \in Requests, Ends(r), job[r].op \in {"pause", "complete"},
           job[r].was = card, "capped" \notin upset'
    PROVE  /\ card'.minutes = Written' /\ Written' \in Int
           /\ Written' = Written + Added(job[r]) /\ Added(job[r]) \in Int
           /\ card.minutes <= card'.minutes /\ 0 <= card.minutes
<1>1. /\ card.minutes \in Int /\ worked \in Nat /\ drift \in Int /\ Written \in Int
      /\ job[r].report \in Int \cup {None} /\ Added(job[r]) \in Int /\ 0 <= card.minutes
  BY WTypes, TypeGives, JobType, AddedType DEF Ends, Counted, CardCounts
<1>2. Written' = Written + Added(job[r])
  BY <1>1 DEF Written, Ends
<1>3. ~ (job[r].report # None /\ job[r].report > MaxTotal)
  BY DEF Caps, Ends
<1>4. card'.minutes = Written + Added(job[r])
  <2>1. Reported(job[r])
    BY DEF Counted, Reports
  <2>2. Total(card, job[r].report) = Written + Added(job[r])
    BY <2>1, <1>3 DEF Reported, Ends
  <2> QED  BY <2>2 DEF Ends
<1>5. card.minutes <= Total(card, job[r].report)
  BY <1>1, TotalGrows DEF Ends
<1>6. card.minutes <= card'.minutes
  BY <1>5 DEF Ends
<1> QED  BY <1>1, <1>2, <1>4, <1>6

LEMMA EndCounts ==
    ASSUME TypeOK, Counted, NEW r \in Requests, Ends(r), job[r].op \in {"pause", "complete"},
           job[r].was = card, PauseDoes \/ CompleteDoes,
           \A d \in Devices : view'[d] = view[d] \/ view'[d] = None, "capped" \notin upset'
    PROVE  (CardCounts /\ CardTells /\ DevicesCount)'
<1>1. /\ card.minutes \in Int /\ worked \in Nat /\ starts \in Nat /\ Written \in Int
      /\ UNCHANGED <<clock, worked, session, starts>> /\ card'.started = card.started
  BY WTypes DEF Ends
<1>2. /\ card'.minutes = Written' /\ Written' \in Int
      /\ card.minutes <= card'.minutes /\ 0 <= card.minutes
  BY EndWrites
<1>3. card'.phase \in {"Assigned", "Completed"}
  BY DEF PauseDoes, CompleteDoes
<1>4. starts # 0
  BY DEF Ends, Counted, CardTells
<1>5. CardCounts'
  BY <1>1, <1>2, <1>3 DEF CardCounts
<1>6. CardTells'
  <2>1. starts <= 1 => Unmarked(card'.log)
    BY EndUnmarked DEF Counted, CardTells
  <2>2. card'.started # None
    BY <1>1 DEF Ends
  <2> QED  BY <1>1, <1>3, <1>4, <2>1, <2>2 DEF CardTells
<1>7. ASSUME NEW d \in Devices  PROVE DeviceCounts(d)'
  <2>1. CASE view'[d] = None
    BY <2>1 DEF DeviceCounts
  <2>2. CASE view'[d] = view[d] /\ view[d] # None
    <3>1. view[d].start <= starts /\ view[d].accumulated <= card.minutes
          /\ view[d].accumulated \in Int
      BY <2>2, WTypes DEF Counted, DevicesCount, DeviceCounts
    <3>2. view[d].accumulated <= card'.minutes
      BY <1>1, <1>2, <3>1
    <3> QED  BY <1>1, <1>3, <2>2, <3>1, <3>2 DEF DeviceCounts
  <2> QED  BY <2>1, <2>2
<1> QED  BY <1>5, <1>6, <1>7 DEF DevicesCount

\* What a card in execution tells a device to count from.
LEMMA SinceTells ==
    ASSUME TypeOK, Counted, card.phase = "InExecution",
           starts <= 1 \/ Last(card.log, Starting) # 0
    PROVE  Since(card) = clock - Running /\ Since(card) # None
<1>1. /\ card.log \in Seq(Note) /\ clock \in Nat /\ Written \in Int /\ card.minutes \in Int
      /\ starts \in Nat
  BY WTypes
<1>2. clock - Running # None
  BY <1>1, NoneAssumption DEF Running
<1>3. CASE Last(card.log, Starting) # 0
  <2>1. Since(card) = card.log[Last(card.log, Starting)].at
    BY <1>3 DEF Since, Starting
  <2>2. card.log[Last(card.log, Starting)].at = clock - Running
    BY <1>3 DEF Counted, CardTells
  <2> QED  BY <1>2, <2>1, <2>2
<1>4. CASE Last(card.log, Starting) = 0
  <2>1. starts = 1
    <3>1. starts # 0 /\ starts <= 1
      BY <1>4 DEF Counted, CardTells
    <3> QED  BY <1>1, <3>1
  <2>2. card.minutes = 0 /\ card.started = clock - Running
    BY <2>1 DEF Counted, CardTells
  <2>3. Since(card) = card.started
    BY <1>4, <2>2 DEF Since, Starting
  <2> QED  BY <1>2, <2>2, <2>3
<1> QED  BY <1>3, <1>4

LEMMA LoadCounts ==
    ASSUME TypeOK, Counted, NEW d \in Devices, Load(d), "blind" \notin upset'
    PROVE  Counted'
<1>1. UNCHANGED <<card, job, clock, worked, session, starts, began, drift, sessionDrift>>
  BY DEF Load, History
<1>7. UNCHANGED <<Written, Running>>
  BY <1>1 DEF Written, Running
<1>2. /\ card.minutes \in Int /\ starts \in Nat
      /\ view[d] # None => view[d].accumulated \in Int
  BY WTypes
<1>3. (CardCounts /\ CardTells /\ Reports)'
  BY <1>1, <1>7 DEF Counted, CardCounts, CardTells, Reports, Reported, Total, Added, Adds
<1>4. ASSUME NEW e \in Devices, view'[e] = view[e]  PROVE DeviceCounts(e)'
  BY <1>1, <1>4, <1>7 DEF Counted, DevicesCount, DeviceCounts
<1>5. DeviceCounts(d)'
  <2> DEFINE new == [accumulated |-> IF view[d] # None
                                     THEN AtLeast(card.minutes, view[d].accumulated)
                                     ELSE card.minutes,
                     since |-> IF Since(card) # None THEN Since(card)
                               ELSE IF view[d] # None THEN view[d].since ELSE clock + Skew[d],
                     base |-> Base(card), start |-> starts]
  <2>1. view'[d] = IF card.phase # "InExecution" THEN None ELSE new
    BY TypeGives DEF Load
  <2>2. CASE card.phase # "InExecution"
    BY <2>1, <2>2 DEF DeviceCounts
  <2>3. CASE card.phase = "InExecution"
    <3>1. Last(card.log, Starting) # 0 \/ ~ (starts > 1)
      BY <2>3 DEF Load, Starting
    <3>2. starts <= 1 \/ Last(card.log, Starting) # 0
      BY <1>2, <3>1
    <3>3. new.since = clock - Running /\ new.start = starts
      BY <2>3, <3>2, SinceTells
    <3>4. new.accumulated = card.minutes
      <4>1. view[d] # None => view[d].accumulated <= card.minutes
        BY DEF Counted, DevicesCount, DeviceCounts
      <4> QED  BY <1>2, <4>1 DEF AtLeast
    <3> HIDE DEF new
    <3>5. card'.minutes <= card'.minutes /\ starts' <= starts'
      BY <1>1, <1>2
    <3> QED  BY <1>1, <1>7, <2>1, <2>3, <3>3, <3>4, <3>5 DEF DeviceCounts
  <2> QED  BY <2>2, <2>3
<1>6. ASSUME NEW e \in Devices \ {d}  PROVE view'[e] = view[e]
  BY TypeGives DEF Load
<1> QED  BY <1>3, <1>4, <1>5, <1>6 DEF Counted, DevicesCount

LEMMA TickCounts ==
    ASSUME TypeOK, Counted, Tick
    PROVE  Counted'
<1>1. /\ UNCHANGED <<card, view, job, starts, began, drift, sessionDrift>> /\ clock' = clock + 1
      /\ worked' = (IF card.phase = "InExecution" THEN worked + 1 ELSE worked)
      /\ session' = (IF card.phase = "InExecution" THEN session + 1 ELSE session)
      /\ \A r \in Requests : job[r] = Idle
  BY DEF Tick
<1>2. card.minutes \in Int /\ worked \in Nat /\ clock \in Nat /\ drift \in Int
  BY WTypes
<1>3. card.phase = "InExecution" => clock' - Running' = clock - Running
  BY <1>1, <1>2 DEF Running, Written
<1>4. CardCounts'
  <2>1. card.minutes <= Written /\ Written \in Int /\ Written' \in {Written, Written + 1}
        /\ (card.phase # "InExecution" => Written' = Written)
    BY <1>1, <1>2 DEF Counted, CardCounts, Written
  <2>2. card.minutes <= Written'
    BY <1>2, <2>1
  <2> QED  BY <1>1, <1>3, <2>1, <2>2 DEF Counted, CardCounts
<1>5. CardTells'
  BY <1>1, <1>3 DEF Counted, CardTells
<1>6. DevicesCount'
  BY <1>1, <1>3 DEF Counted, DevicesCount, DeviceCounts
<1>7. Reports'
  BY <1>1 DEF Reports, Reported, Idle
<1> QED  BY <1>4, <1>5, <1>6, <1>7 DEF Counted

LEMMA QuietCounts ==
    ASSUME TypeOK, Counted, Quiet
    PROVE  (CardCounts /\ CardTells /\ DevicesCount)'
<1>1. /\ card'.log = card.log /\ card'.minutes = card.minutes /\ card'.started = card.started
      /\ UNCHANGED <<view, clock, worked, session, starts, began, drift, sessionDrift>>
  BY DEF Quiet, Moves
<1>2. \/ card'.phase = card.phase
      \/ card.phase = "none" /\ card'.phase = "Assigned"
      \/ card.phase = "Completed" /\ card'.phase = "Reviewed"
      \/ card.phase \in {"Completed", "Reviewed"} /\ card'.phase = "Assigned"
      \/ card.phase # "none" /\ card'.phase = "Cancelled"
  BY DEF Quiet, Moves
<1>3. Running' = Running /\ Written' = Written
  BY <1>1 DEF Running, Written
<1>4. CardCounts'
  BY <1>1, <1>2, <1>3 DEF Counted, CardCounts
<1>5. CardTells'
  BY <1>1, <1>2, <1>3 DEF Counted, CardTells
<1>6. DevicesCount'
  BY <1>1, <1>2, <1>3 DEF Counted, DevicesCount, DeviceCounts
<1> QED  BY <1>4, <1>5, <1>6

\* A report is right when it is asked for, by a device that saw the execution begin, or
\* without one in the first.
LEMMA LeavesReports ==
    ASSUME TypeOK, Counted, NEW r \in Requests, NEW d \in Devices,
           NEW op, NEW draft, Leaves(r, op, d, draft), "stale" \notin upset'
    PROVE  /\ job'[r].was = card /\ job'[r].start = starts
           /\ \/ Total(card, job'[r].report) = Written + Added(job'[r])
              \/ job'[r].report # None /\ job'[r].report > MaxTotal
<1>1. /\ card.phase = "InExecution" /\ card.started # None
      /\ \/ view[d] # None /\ view[d].start = starts /\ Asks(r, op, d, Report(d), draft, {})
         \/ ~ (starts > 1) /\ Asks(r, op, d, None, draft, {"bare"})
  BY DEF Leaves
<1>2. /\ card.minutes \in Int /\ Written \in Int /\ clock \in Nat /\ starts \in Nat
      /\ 0 <= card.minutes /\ card.minutes <= Written /\ began = clock - Running
  BY <1>1, WTypes DEF Counted, CardCounts
<1>3. ASSUME NEW report, NEW mishap, Asks(r, op, d, report, draft, mishap)
      PROVE  job'[r].report = report /\ job'[r].was = card /\ job'[r].start = starts
             /\ job'[r].dev = d
  BY <1>3, TypeGives DEF Asks
<1>4. CASE view[d] # None /\ view[d].start = starts /\ Asks(r, op, d, Report(d), draft, {})
  <2>1. view[d].accumulated = card.minutes /\ view[d].since = clock - Running
    BY <1>1, <1>4 DEF Counted, DevicesCount, DeviceCounts
  <2>2. Skew[d] \in Int /\ Adds(d) \in Int /\ Adds(d) = AtLeast(began - clock, Skew[d])
    BY SkewAssumption, AddsType
  <2>3. Report(d) = Written + Adds(d) /\ card.minutes <= Report(d) /\ Report(d) \in Int
    BY <1>2, <2>1, <2>2 DEF Report, Elapsed, AtLeast, Running
  <2>4. Report(d) # None
    BY <2>3, NoneAssumption
  <2>5. Total(card, Report(d)) = Report(d) \/ Report(d) > MaxTotal
    BY <1>2, <2>3, <2>4, BoundsAssumption DEF Total, AtLeast
  <2>6. Added(job'[r]) = Adds(d)
    BY <1>3, <1>4, <2>4 DEF Added
  <2> QED  BY <1>3, <1>4, <2>3, <2>4, <2>5, <2>6
<1>5. CASE ~ (starts > 1) /\ Asks(r, op, d, None, draft, {"bare"})
  <2>1. starts = 1
    <3>1. starts # 0
      BY <1>1 DEF Counted, CardTells
    <3> QED  BY <1>2, <1>5, <3>1
  <2>2. card.minutes = 0 /\ card.started = clock - Running
    BY <1>1, <2>1 DEF Counted, CardTells
  <2>3. Total(card, None) = Written
    BY <1>2, <2>2 DEF Total, AtLeast, Running
  <2>4. Added(job'[r]) = 0
    BY <1>3, <1>5 DEF Added
  <2> QED  BY <1>2, <1>3, <1>5, <2>3, <2>4
<1> QED  BY <1>1, <1>4, <1>5

LEMMA BeginsReports ==
    ASSUME TypeOK, Counted, NEW r \in Requests, Begins(r), "stale" \notin upset'
    PROVE  Reports'
<1>1. Others(r) /\ UNCHANGED <<card, clock, worked, starts, began, drift>>
  BY AskedSteps, BeginsLeaves DEF Begins, Asked
<1>2. Reported(job[r])'
  <2>1. ASSUME NEW op \in {"create", "start", "approve", "reject", "reopen", "cancel", "assign", "edit"},
               NEW dev, NEW report, NEW draft, NEW mishap, Asks(r, op, dev, report, draft, mishap)
        PROVE  Reported(job[r])'
    <3>1. job'[r].op = op
      BY <2>1, TypeGives DEF Asks
    <3> QED  BY <3>1 DEF Reported
  <2>2. CASE Create(r)
    BY <2>1, <2>2 DEF Create
  <2>3. ASSUME NEW d \in Devices, Start(r, d)  PROVE Reported(job[r])'
    BY <2>1, <2>3 DEF Start
  <2>4. ASSUME NEW d \in Devices, Pause(r, d) \/ Complete(r, d)  PROVE Reported(job[r])'
    <3>1. PICK op \in {"pause", "complete"}, draft \in 0..Room : Leaves(r, op, d, draft)
      BY <2>4, RoomAssumption DEF Pause, Complete
    <3>2. /\ job'[r].was = card /\ job'[r].start = starts
          /\ \/ Total(card, job'[r].report) = Written + Added(job'[r])
             \/ job'[r].report # None /\ job'[r].report > MaxTotal
      BY <3>1, LeavesReports
    <3>3. starts \in Nat
      BY WTypes
    <3>4. \/ (Total(job[r].was, job[r].report) = Written + Added(job[r]))'
          \/ job'[r].report # None /\ job'[r].report > MaxTotal
      BY <1>1, <3>2 DEF Total, Written, Added, Adds
    <3>5. job'[r].start <= starts'
      BY <1>1, <3>2, <3>3
    <3> QED  BY <3>4, <3>5 DEF Reported
  <2>5. CASE Supervise(r)
    BY <2>1, <2>5 DEF Supervise
  <2> QED  BY <1>1, <2>2, <2>3, <2>4, <2>5 DEF Begins
<1>3. ASSUME NEW q \in Requests \ {r}  PROVE Reported(job[q])'
  BY <1>1, <1>3 DEF Others, Counted, Reports, Reported, Total, Written, Added, Adds
<1> QED  BY <1>2, <1>3 DEF Reports

LEMMA OtherReports ==
    ASSUME TypeOK, Counted, Other, Quiet, "stale" \notin upset'
    PROVE  Reports'
<1>1. ASSUME NEW r \in Requests, Begins(r)  PROVE Reports'
  BY <1>1, BeginsReports
<1>4. /\ UNCHANGED <<clock, worked, starts, began, drift>> /\ starts \in Nat /\ starts <= starts'
      /\ card'.phase = "InExecution" => card.phase = "InExecution"
  BY WTypes DEF Quiet, Moves
<1>2. ASSUME NEW r \in Requests, CreateWrites(r) \/ SuperviseWrites(r) \/ Fails(r)  PROVE Reports'
  <2>1. job' = [job EXCEPT ![r] = Idle]
    <3>1. CASE CreateWrites(r) \/ Fails(r)
      BY <3>1 DEF CreateWrites, Fails
    <3>2. CASE SuperviseWrites(r)
      BY <3>2, SuperviseWritesCard
    <3> QED  BY <1>2, <3>1, <3>2
  <2> QED  BY <1>4, <2>1, EndedSteps, EndedReports DEF Counted
<1>3. CASE CreateManual \/ UNCHANGED vars
  <2>1. job' = job
    BY <1>3 DEF CreateManual, vars
  <2> QED  BY <1>4, <2>1 DEF Counted, Reports, Reported, Total, Written, Added, Adds
<1> QED  BY <1>1, <1>2, <1>3 DEF Other

\* What went wrong stays so.
LEMMA UpsetGrows ==
    ASSUME TypeOK, [Next]_vars
    PROVE  upset \subseteq upset'
<1>1. CASE Other
  <2>1. ASSUME NEW r \in Requests, Begins(r)  PROVE upset \subseteq upset'
    BY <2>1, BeginsLeaves
  <2>2. ASSUME NEW r \in Requests, CreateWrites(r) \/ SuperviseWrites(r) \/ Fails(r)
        PROVE  upset \subseteq upset'
    BY <2>2 DEF CreateWrites, SuperviseWrites, Fails
  <2>3. CASE CreateManual \/ UNCHANGED vars
    BY <2>3 DEF CreateManual, vars
  <2> QED  BY <1>1, <2>1, <2>2, <2>3 DEF Other
<1>2. CASE Tick \/ \E d \in Devices : Load(d)
  BY <1>2 DEF Tick, Load
<1>3. ASSUME NEW r \in Requests, StartWrites(r) \/ PauseWrites(r) \/ CompleteWrites(r)
      PROVE  upset \subseteq upset'
  BY <1>3 DEF StartWrites, PauseWrites, CompleteWrites
<1> QED  BY <1>1, <1>2, <1>3, StepKinds

LEMMA StepWInv ==
    ASSUME WInv, [Next]_vars
    PROVE  WInv'
<1>1. PInv' /\ TypeOK /\ Reading /\ Blank /\ Leaving /\ starts \in Nat
  BY StepPInv, WTypes DEF WInv, PInv, IInv
<1>2. upset \subseteq upset'
  BY <1>1, UpsetGrows
<1>3. ASSUME Seen'  PROVE Counted'
  <2>1. Seen /\ Undisturbed' /\ Counted
        /\ "stale" \notin upset' /\ "blind" \notin upset' /\ "capped" \notin upset'
    BY <1>2, <1>3 DEF Seen, Undisturbed, WInv, Counting, Counted
  <2>2. ASSUME NEW r \in Requests, StartWrites(r)  PROVE Counted'
    <3>1. Starts /\ \A d \in Devices : view'[d] = view[d] \/ view'[d] = StartView
      BY <1>1, <2>1, <2>2, StartDoes
    <3>2. /\ Ended(r) /\ UNCHANGED <<clock, worked>>
          /\ starts' # starts /\ starts <= starts' /\ starts' \in Nat
      <4>1. job' = [job EXCEPT ![r] = Idle] /\ starts' = starts + 1 /\ UNCHANGED <<clock, worked>>
        BY <2>2, <3>1 DEF StartWrites, Writes, Starts
      <4>2. Ended(r)
        BY <1>1, <4>1, EndedSteps
      <4>3. starts' # starts /\ starts <= starts' /\ starts' \in Nat
        BY <1>1, <4>1
      <4> QED  BY <4>1, <4>2, <4>3
    <3> QED  BY <1>1, <2>1, <3>1, <3>2, StartCounts, EndedReports DEF Counted
  <2>3. ASSUME NEW r \in Requests, PauseWrites(r) \/ CompleteWrites(r)  PROVE Counted'
    <3>1. /\ Ends(r) /\ job[r].op \in {"pause", "complete"} /\ job[r].was = card
          /\ PauseDoes \/ CompleteDoes
          /\ \A d \in Devices : view'[d] = view[d] \/ view'[d] = None
      BY <1>1, <2>1, <2>3, EndsDo
    <3>2. /\ Ended(r) /\ UNCHANGED <<clock, worked>> /\ starts <= starts' /\ starts' \in Nat
          /\ card'.phase # "InExecution"
      BY <1>1, <2>3, <3>1, EndedSteps
         DEF PauseWrites, CompleteWrites, Writes, PauseDoes, CompleteDoes
    <3> QED  BY <1>1, <2>1, <3>1, <3>2, EndCounts, EndedReports DEF Counted
  <2>4. ASSUME NEW d \in Devices, Load(d)  PROVE Counted'
    BY <1>1, <2>1, <2>4, LoadCounts
  <2>5. CASE Tick
    BY <1>1, <2>1, <2>5, TickCounts
  <2>6. CASE Other
    <3>1. Quiet
      BY <1>1, <2>1, <2>6, OtherQuiet
    <3>2. Reports'
      BY <1>1, <2>1, <2>6, <3>1, OtherReports
    <3> QED  BY <1>1, <2>1, <3>1, <3>2, QuietCounts DEF Counted
  <2> QED  BY <2>2, <2>3, <2>4, <2>5, <2>6, StepKinds
<1> QED  BY <1>1, <1>3 DEF WInv, Counting, Counted

LEMMA InitWInv == Init => WInv
<1> SUFFICES ASSUME Init  PROVE WInv
  OBVIOUS
<1>1. PInv /\ worked = 0 /\ clock = 1 /\ starts = 0 /\ session = 0 /\ drift = 0 /\ sessionDrift = 0
  BY InitPInv DEF Init
<1>2. card.log = <<>> /\ card.phase = "none" /\ card.started = None /\ card.minutes = 0
  BY FreshType DEF Init, Fresh
<1>3. CardCounts /\ CardTells
  BY <1>1, <1>2 DEF CardCounts, CardTells, Unmarked, Written
<1>4. DevicesCount /\ Reports
  BY DEF Init, DevicesCount, DeviceCounts, Reports, Reported, Idle
<1> QED  BY <1>1, <1>3, <1>4 DEF WInv, Counting

LEMMA WInvariance == Spec => []WInv
  BY InitWInv, StepWInv, PTL DEF Spec

\* The minutes of the card are the minutes in execution and what the clocks of the devices
\* are off, whatever those are, for any number of devices, of requests that do not cross,
\* and of pauses and reopenings.
THEOREM MinutesWorked == Spec => []MinutesAreWorked
<1>1. WInv => MinutesAreWorked
  BY DEF WInv, Counting, Seen, CardCounts, MinutesAreWorked, Written
<1> QED  BY <1>1, WInvariance, PTL

-----------------------------------------------------------------------------
(* The stopwatch.                                                          *)

\* Nothing went wrong that a stopwatch shows.
Whole == upset \cap {"race", "stale", "blind", "edit", "cut", "capped"} = {}

\* The minutes that the last restart carries.
Carried(log) ==
    LET i == Last(log, {"restart"}) IN IF i = 0 THEN 0 ELSE log[i].carry

\* The session went on from a pause, or began with this execution.
Resumed(log) == Last(log, {"resume"}) > Last(log, {"restart"})
Restarted(log) == Last(log, {"resume"}) < Last(log, {"restart"})

\* The minutes of the session as the clocks of the devices have them.
Session == session + sessionDrift

\* The last restart carries the minutes from before this session, or the text has lost it.
Carries ==
    /\ \/ Carried(card.log) = Written - Session
       \/ "forgot" \in upset /\ Carried(card.log) = 0
    /\ Carried(card.log) <= card.minutes

\* A session that began with this execution is as old as it, and the stopwatch of a device
\* begins with what the session had before, or with all the minutes there are.
Shows ==
    card.phase = "InExecution" =>
        /\ starts = 1 \/ Restarted(card.log) => Session = Running
        /\ \A d \in Devices : view[d] # None /\ view[d].start = starts =>
               \/ view[d].base = Session - Running
               \/ "forgot" \in upset /\ view[d].base = card.minutes

Sessions == Whole => Carries /\ Shows

SInv == WInv /\ Sessions

LEMMA CarriedIs ==
    ASSUME NEW c
    PROVE  Carry(c) = Carried(c.log)
  BY DEF Carry, Carried

LEMMA CarriedType ==
    ASSUME NEW log \in Seq(Note)
    PROVE  Carried(log) \in Int
<1>1. Last(log, {"restart"}) # 0 => log[Last(log, {"restart"})] \in Note
  BY LastType
<1> QED  BY <1>1 DEF Carried, Note

LEMMA CarriedAppend ==
    ASSUME NEW log \in Seq(Note), NEW note \in Note
    PROVE  Carried(Append(log, note)) = IF note.kind = "restart" THEN note.carry ELSE Carried(log)
<1> DEFINE new == Append(log, note)
<1>1. /\ Len(log) \in Nat /\ new[Len(log) + 1] = note
      /\ \A i \in 1..Len(log) : new[i] = log[i]
  BY AppendProperties
<1>2. Last(new, {"restart"})
        = IF note.kind \in {"restart"} THEN Len(log) + 1 ELSE Last(log, {"restart"})
  BY LastAppend
<1>3. Last(log, {"restart"}) \in 0..Len(log)
  BY LastGives
<1> HIDE DEF new
<1>4. CASE note.kind = "restart"
  <2>1. Last(new, {"restart"}) = Len(log) + 1 /\ Len(log) + 1 # 0
    BY <1>1, <1>2, <1>4
  <2>2. Carried(new) = note.carry
    BY <1>1, <2>1 DEF Carried
  <2> QED  BY <1>4, <2>2 DEF new
<1>5. CASE note.kind # "restart"
  <2>1. Last(new, {"restart"}) = Last(log, {"restart"})
    BY <1>2, <1>5
  <2>2. Last(log, {"restart"}) # 0 => new[Last(log, {"restart"})] = log[Last(log, {"restart"})]
    BY <1>1, <1>3
  <2>3. Carried(new) = Carried(log)
    BY <2>1, <2>2 DEF Carried
  <2> QED  BY <1>5, <2>3 DEF new
<1> QED  BY <1>4, <1>5

\* A text that is cut carries the same minutes, or none.
LEMMA KeepCarried ==
    ASSUME NEW log \in Seq(Note), NEW draft \in 0..Room
    PROVE  Carried(Keep(log, draft)) \in {Carried(log), 0}
<1> DEFINE kept == Keep(log, draft)
           k == Last(kept, {"restart"})
           i == Last(log, {"restart"})
<1>1. PICK m \in 0..Len(log) :
        Len(kept) = Len(log) - m /\ \A n \in 1..Len(kept) : kept[n] = log[n + m]
  BY KeepEnds
<1>2. kept \in Seq(Note)
  BY KeepType
<1> HIDE DEF kept
<1>3. /\ Len(log) \in Nat /\ Len(kept) \in Nat
      /\ k \in 0..Len(kept) /\ (k # 0 => kept[k].kind = "restart")
      /\ i \in 0..Len(log) /\ (i # 0 => log[i].kind = "restart")
  BY <1>2, LastGives
<1>4. /\ \A n \in 1..Len(kept) : n > k => kept[n].kind # "restart"
      /\ \A n \in 1..Len(log) : n > i => log[n].kind # "restart"
  BY <1>2, LastGives
<1> HIDE DEF k, i
<1>5. CASE k = 0
  BY <1>5 DEF Carried, kept, k
<1>6. CASE k # 0
  <2>1. k + m \in 1..Len(log) /\ kept[k] = log[k + m]
    BY <1>1, <1>3, <1>6
  <2>2. ~ (k + m > i)
    BY <1>3, <1>4, <1>6, <2>1
  <2>3. i - m \in 1..Len(kept) /\ (i - m) + m = i
    BY <1>1, <1>3, <1>6, <2>1, <2>2
  <2>4. kept[i - m] = log[i] /\ i # 0
    BY <1>1, <1>3, <2>1, <2>2, <2>3
  <2>5. ~ (i - m > k)
    BY <1>3, <1>4, <2>3, <2>4
  <2>6. i = k + m
    BY <1>1, <1>3, <2>2, <2>5
  <2>7. kept[k].carry = log[i].carry
    BY <2>1, <2>6
  <2> QED  BY <1>6, <2>4, <2>7 DEF Carried, kept, k, i
<1> QED  BY <1>5, <1>6

\* So does the text of a start.
LEMMA StartCarries ==
    ASSUME TypeOK, NEW c \in Card
    PROVE  Carried(StartKeeps(c)) \in {Carried(Append(c.log, StartNote(c))), 0}
<1> DEFINE log == Append(c.log, StartNote(c))
<1>1. log \in Seq(Note) /\ c.draft \in 0..Room /\ 0 \in 0..Room
  BY StartNoteType, RoomAssumption
<1> HIDE DEF log
<1>2. Keep(log, 0) \in Seq(Note) /\ Carried(Keep(log, 0)) \in {Carried(log), 0}
  BY <1>1, KeepType, KeepCarried
<1>3. Carried(Keep(Keep(log, 0), c.draft)) \in {Carried(Keep(log, 0)), 0}
  BY <1>1, <1>2, KeepCarried
<1> QED  BY <1>2, <1>3 DEF StartKeeps, log

\* Which marks a log has.
LEMMA MarksTell ==
    ASSUME NEW log \in Seq(Note)
    PROVE  Resumed(log) \/ Restarted(log) \/ Last(log, Starting) = 0
<1>1. /\ Last(log, {"resume"}) \in 0..Len(log) /\ Last(log, {"restart"}) \in 0..Len(log)
      /\ Len(log) \in Nat
      /\ Last(log, {"resume"}) # 0 => log[Last(log, {"resume"})].kind \in {"resume"}
      /\ Last(log, {"restart"}) # 0 => log[Last(log, {"restart"})].kind \in {"restart"}
  BY LastGives
<1>2. CASE Last(log, {"resume"}) = 0 /\ Last(log, {"restart"}) = 0
  <2>1. \A i \in 1..Len(log) : log[i].kind \notin {"resume"} /\ log[i].kind \notin {"restart"}
    BY <1>1, <1>2, LastGives
  <2>2. Last(log, Starting) = 0
    BY <2>1, LastNone DEF Starting
  <2> QED  BY <2>2
<1>3. CASE Last(log, {"resume"}) # 0 /\ Last(log, {"resume"}) = Last(log, {"restart"})
  BY <1>1, <1>3
<1> QED  BY <1>1, <1>2, <1>3 DEF Resumed, Restarted

\* A start tells a pause from the rest.
LEMMA PausedLeft ==
    ASSUME Pausing, Whole, card.phase \in {"Assigned", "Completed", "Reviewed"}
    PROVE  Paused(card) <=> left = "pause"
<1>1. Undisturbed /\ "cut" \notin upset
  BY DEF Whole, Undisturbed
<1> QED  BY <1>1 DEF Pausing, Paused, Open

LEMMA STypes ==
    ASSUME TypeOK
    PROVE  /\ card.minutes \in Int /\ card.log \in Seq(Note) /\ worked \in Nat /\ starts \in Nat
           /\ session \in Nat /\ card \in Card /\ Carried(card.log) \in Int
           /\ drift \in Int /\ sessionDrift \in Int /\ Written \in Int /\ Session \in Int
  BY WTypes, TypeGives, CarriedType DEF Session

\* What the text of a card tells after a start that is not the first.
LEMMA StartAgain ==
    ASSUME TypeOK, Counted, Carries, Starts, Paused(card) <=> left = "pause", HasRun(card)
    PROVE  /\ \/ Carried(card'.log) = Written - Session'
              \/ "forgot" \in upset' /\ Carried(card'.log) = 0
           /\ Carried(card'.log) <= card.minutes
           /\ Restarted(card'.log) => Session' = 0
<1> DEFINE new == Append(card.log, StartNote(card))
           kept == StartKeeps(card)
<1>1. /\ card.minutes \in Int /\ card.minutes = Written /\ 0 <= card.minutes
      /\ Written \in Int /\ Session \in Int /\ Carried(card.log) \in Int
      /\ card \in Card /\ card.log \in Seq(Note)
  BY STypes DEF Starts, Counted, CardCounts
<1>2. card'.log = kept /\ kept \in Seq(Note) /\ StartNote(card) \in Note
  BY <1>1, StartNoteType DEF Starts
<1>3. Session' = IF left = "pause" THEN Session ELSE 0
  BY DEF Starts, Session
<1>4. Carried(new) = IF StartNote(card).kind = "restart" THEN StartNote(card).carry
                     ELSE Carried(card.log)
  BY <1>1, <1>2, CarriedAppend
<1>5. \/ Carried(new) = Written - Session'
      \/ "forgot" \in upset' /\ Carried(new) = 0
  <2>1. CASE Paused(card)
    <3>1. StartNote(card).kind = "resume"
      BY <2>1 DEF StartNote
    <3> QED  BY <1>3, <1>4, <2>1, <3>1 DEF Carries, Starts
  <2>2. CASE ~ Paused(card)
    <3>1. StartNote(card).kind = "restart" /\ StartNote(card).carry = AtLeast(0, card.minutes)
      BY <2>2 DEF StartNote
    <3>2. AtLeast(0, card.minutes) = Written /\ Session' = 0
      BY <1>1, <1>3, <2>2 DEF AtLeast
    <3> QED  BY <1>1, <1>4, <3>1, <3>2
  <2> QED  BY <2>1, <2>2
<1>6. Carried(new) <= card.minutes
  <2>1. CASE Paused(card)
    <3>1. StartNote(card).kind = "resume"
      BY <2>1 DEF StartNote
    <3> QED  BY <1>4, <3>1 DEF Carries
  <2>2. CASE ~ Paused(card)
    <3>1. StartNote(card).kind = "restart" /\ StartNote(card).carry = AtLeast(0, card.minutes)
      BY <2>2 DEF StartNote
    <3> QED  BY <1>1, <1>4, <3>1 DEF AtLeast
  <2> QED  BY <2>1, <2>2
<1>7. Carried(kept) = Carried(new) \/ ("forgot" \in upset' /\ Carried(kept) = 0)
  <2>1. CASE Carried(kept) = Carried(new)
    BY <2>1
  <2>2. CASE Carried(kept) # Carried(new)
    <3>1. ASSUME NEW log  PROVE Carry([card EXCEPT !.log = log]) = Carried(log)
      <4>1. [card EXCEPT !.log = log].log = log
        BY <1>1 DEF Card
      <4> QED  BY <4>1, CarriedIs
    <3>2. Carry([card EXCEPT !.log = kept]) # Carry([card EXCEPT !.log = new])
      <4> HIDE DEF kept, new
      <4> QED  BY <2>2, <3>1
    <3>3. Forgets(card) = {"forgot"}
      BY <3>2 DEF Forgets
    <3>4. "forgot" \in upset'
      BY <3>3 DEF Starts
    <3> QED  BY <1>1, <2>2, <3>4, StartCarries
  <2> QED  BY <2>1, <2>2
<1>8. Restarted(kept) => Session' = 0
  <2>1. CASE Paused(card)
    <3>1. StartNote(card).kind = "resume"
      BY <2>1 DEF StartNote
    <3>2. Last(kept, {"restart"}) \in 0..Len(kept) /\ Len(kept) \in Nat
          /\ Last(kept, {"resume"}) \in 0..Len(kept)
      BY <1>2, LastGives
    <3>3. Len(kept) # 0 => Last(kept, {"resume"}) = Len(kept)
      BY <1>1, <3>1, StartLast
    <3> HIDE DEF kept
    <3> QED  BY <3>2, <3>3 DEF Restarted
  <2>2. CASE ~ Paused(card)
    BY <1>3, <2>2
  <2> QED  BY <2>1, <2>2
<1> HIDE DEF kept, new
<1> QED  BY <1>1, <1>2, <1>5, <1>6, <1>7, <1>8

LEMMA StartSessions ==
    ASSUME TypeOK, Pausing, Counted, Whole, Whole', Carries, Starts,
           \A d \in Devices : view'[d] = view[d] \/ view'[d] = StartView
    PROVE  (Carries /\ Shows)'
<1>1. /\ card.minutes \in Int /\ starts \in Nat /\ Session \in Int /\ Written \in Int
      /\ Carried(card.log) \in Int
  BY STypes
<1>2. /\ card.minutes = Written /\ card'.phase = "InExecution" /\ card'.minutes = card.minutes
      /\ starts' = starts + 1 /\ Written' = Written /\ 0 <= card.minutes
      /\ Session' = IF left = "pause" THEN Session ELSE 0
  BY DEF Starts, Counted, CardCounts, Written, Session
<1>3. Running' = 0 /\ Session' \in Int
  BY <1>1, <1>2 DEF Running
<1>4. Paused(card) <=> left = "pause"
  BY PausedLeft DEF Starts
<1>5. "forgot" \in upset => "forgot" \in upset'
  BY DEF Starts
<1>6. /\ \/ Carried(card'.log) = Written - Session'
         \/ "forgot" \in upset' /\ Carried(card'.log) = 0
      /\ Carried(card'.log) <= card.minutes
      /\ starts' = 1 \/ Restarted(card'.log) => Session' = 0
  <2>1. CASE ~ HasRun(card)
    <3>1. card.started = None /\ card'.log = card.log
      BY <2>1 DEF Starts, HasRun
    <3>2. starts = 0 /\ Written = 0 /\ Session = 0
      BY <3>1 DEF Counted, CardTells, Written, Session
    <3>3. Session' = 0
      BY <1>2, <3>2
    <3> QED  BY <1>1, <1>2, <1>5, <3>1, <3>2, <3>3 DEF Carries
  <2>2. CASE HasRun(card)
    <3>1. starts' # 1
      <4>1. starts # 0
        BY <1>1, <1>2, <2>2 DEF HasRun, Counted, CardTells, Written
      <4> QED  BY <1>1, <1>2, <4>1
    <3> QED  BY <1>4, <2>2, <3>1, StartAgain
  <2> QED  BY <2>1, <2>2
<1>7. Carries'
  BY <1>1, <1>2, <1>6 DEF Carries
<1>8. ASSUME NEW d \in Devices, view'[d] # None, view'[d].start = starts'
      PROVE  \/ view'[d].base = Session' - Running'
             \/ "forgot" \in upset' /\ view'[d].base = card'.minutes
  <2>1. view'[d] = StartView
    <3>1. view'[d] = view[d] => view[d].start <= starts /\ view[d].start \in Nat
      BY <1>8, WTypes DEF Counted, DevicesCount, DeviceCounts
    <3> QED  BY <1>1, <1>2, <1>8, <3>1
  <2>2. view'[d].base = IF Paused(card) THEN AtLeast(0, card.minutes - Carried(card.log)) ELSE 0
    BY <2>1, CarriedIs DEF StartView
  <2>3. CASE ~ Paused(card)
    BY <1>2, <1>3, <1>4, <2>2, <2>3
  <2>4. CASE Paused(card)
    <3>1. view'[d].base = card.minutes - Carried(card.log)
      BY <1>1, <2>2, <2>4 DEF Carries, AtLeast
    <3>2. Session' = Session
      BY <1>2, <1>4, <2>4
    <3> QED  BY <1>1, <1>2, <1>3, <1>5, <3>1, <3>2 DEF Carries
  <2> QED  BY <2>3, <2>4
<1> QED  BY <1>2, <1>3, <1>6, <1>7, <1>8 DEF Shows

LEMMA EndSessions ==
    ASSUME TypeOK, Counted, Carries, NEW r \in Requests, Ends(r),
           job[r].op \in {"pause", "complete"}, job[r].was = card,
           PauseDoes \/ CompleteDoes, "cut" \notin upset', "capped" \notin upset'
    PROVE  (Carries /\ Shows)'
<1>1. /\ card.minutes \in Int /\ card.log \in Seq(Note) /\ Written \in Int /\ Session \in Int
      /\ Carried(card.log) \in Int /\ sessionDrift \in Int /\ session \in Nat
  BY STypes
<1>2. /\ card'.minutes = Written' /\ Written' \in Int
      /\ Written' = Written + Added(job[r]) /\ Added(job[r]) \in Int
      /\ card.minutes <= card'.minutes
  BY EndWrites
<1>3. Session' = Session + Added(job[r]) /\ ("forgot" \in upset => "forgot" \in upset')
  BY <1>1, <1>2 DEF Ends, Session
<1>4. ASSUME NEW kind \in {"pause", "text"}  PROVE Carried(Noted(kind)) = Carried(card.log)
  BY <1>1, NotedType, CarriedAppend DEF Noted
<1>5. card'.log \in {card.log, Noted("pause"), Noted("text")} /\ card'.phase # "InExecution"
  BY DEF PauseDoes, CompleteDoes
<1>6. Carried(card'.log) = Carried(card.log)
  BY <1>4, <1>5
<1>7. Written' - Session' = Written - Session /\ Carried(card.log) <= card'.minutes
  BY <1>1, <1>2, <1>3 DEF Carries
<1>8. Carries'
  BY <1>3, <1>6, <1>7 DEF Carries
<1> QED  BY <1>5, <1>8 DEF Shows

LEMMA LoadSessions ==
    ASSUME TypeOK, Counted, Carries, Shows, NEW d \in Devices, Load(d), "blind" \notin upset'
    PROVE  (Carries /\ Shows)'
<1>1. UNCHANGED <<card, worked, session, starts, drift, sessionDrift>> /\ upset \subseteq upset'
  BY DEF Load, History
<1>2. /\ card.minutes \in Int /\ card.log \in Seq(Note) /\ Written \in Int /\ starts \in Nat
      /\ Session \in Int /\ Carried(card.log) \in Int
  BY STypes
<1>3. UNCHANGED <<Written, Session, Running>> /\ Carries'
  BY <1>1 DEF Carries, Running, Written, Session
<1>4. CASE card.phase # "InExecution"
  BY <1>1, <1>3, <1>4 DEF Shows
<1>5. CASE card.phase = "InExecution"
  <2>1. Base(card) = Session - Running \/ ("forgot" \in upset /\ Base(card) = card.minutes)
    <3>1. Base(card) = IF Resumed(card.log) THEN AtLeast(0, card.minutes - Carried(card.log)) ELSE 0
      BY CarriedIs DEF Base, Resumed
    <3>2. CASE Resumed(card.log)
      <4>1. Base(card) = card.minutes - Carried(card.log)
        BY <1>2, <3>1, <3>2 DEF Carries, AtLeast
      <4> QED  BY <1>2, <4>1 DEF Carries, Running
    <3>3. CASE ~ Resumed(card.log)
      <4>1. starts = 1 \/ Restarted(card.log)
        <5>1. Last(card.log, Starting) # 0 \/ ~ (starts > 1)
          BY <1>5 DEF Load, Starting
        <5>2. starts # 0
          BY <1>5 DEF Counted, CardTells
        <5> QED  BY <1>2, <3>3, <5>1, <5>2, MarksTell
      <4>2. Session = Running
        BY <1>5, <4>1 DEF Shows
      <4> QED  BY <1>2, <3>1, <3>3, <4>2
    <3> QED  BY <3>2, <3>3
  <2>2. ASSUME NEW e \in Devices, view'[e] # None, view'[e].start = starts'
        PROVE  \/ view'[e].base = Session - Running
               \/ "forgot" \in upset /\ view'[e].base = card.minutes
    <3>1. CASE e = d
      <4>1. view'[e].base = Base(card)
        BY <1>5, <3>1, TypeGives DEF Load
      <4> QED  BY <2>1, <4>1
    <3>2. CASE e # d
      <4>1. view'[e] = view[e]
        BY <3>2, TypeGives DEF Load
      <4> QED  BY <1>1, <1>5, <2>2, <4>1 DEF Shows
    <3> QED  BY <3>1, <3>2
  <2> QED  BY <1>1, <1>3, <1>5, <2>2 DEF Shows
<1> QED  BY <1>3, <1>4, <1>5

LEMMA TickSessions ==
    ASSUME TypeOK, Carries, Shows, Tick
    PROVE  (Carries /\ Shows)'
<1>1. /\ UNCHANGED <<card, view, starts, upset, drift, sessionDrift>>
      /\ worked' = (IF card.phase = "InExecution" THEN worked + 1 ELSE worked)
      /\ session' = (IF card.phase = "InExecution" THEN session + 1 ELSE session)
  BY DEF Tick
<1>2. card.minutes \in Int /\ worked \in Nat /\ session \in Nat /\ drift \in Int /\ sessionDrift \in Int
  BY STypes
<1>3. /\ Written' - Session' = Written - Session
      /\ card.phase = "InExecution" => Session' - Running' = Session - Running
      /\ card.phase = "InExecution" /\ Session = Running => Session' = Running'
  BY <1>1, <1>2 DEF Running, Written, Session
<1>4. Carries'
  BY <1>1, <1>3 DEF Carries
<1>5. Shows'
  BY <1>1, <1>3 DEF Shows
<1> QED  BY <1>4, <1>5

LEMMA QuietSessions ==
    ASSUME Carries, Shows, Quiet, upset \subseteq upset'
    PROVE  (Carries /\ Shows)'
<1>1. /\ card'.log = card.log /\ card'.minutes = card.minutes
      /\ UNCHANGED <<view, worked, session, starts, drift, sessionDrift>>
      /\ card'.phase = "InExecution" => card.phase = "InExecution"
  BY DEF Quiet, Moves
<1>2. UNCHANGED <<Written, Session, Running>>
  BY <1>1 DEF Running, Written, Session
<1> QED  BY <1>1, <1>2 DEF Carries, Shows

LEMMA StepSInv ==
    ASSUME SInv, [Next]_vars
    PROVE  SInv'
<1>1. WInv' /\ WInv /\ TypeOK /\ Reading /\ Blank /\ Leaving /\ Pausing
  BY StepWInv DEF SInv, WInv, PInv, IInv
<1>2. upset \subseteq upset'
  BY <1>1, UpsetGrows
<1>3. ASSUME Whole'  PROVE (Carries /\ Shows)'
  <2>1. Whole /\ Seen /\ Undisturbed' /\ Counted /\ Carries /\ Shows
        /\ "blind" \notin upset' /\ "cut" \notin upset' /\ "capped" \notin upset'
    BY <1>1, <1>2, <1>3 DEF Whole, Seen, Undisturbed, SInv, Sessions, WInv, Counting, Counted
  <2>2. ASSUME NEW r \in Requests, StartWrites(r)  PROVE (Carries /\ Shows)'
    <3>1. Starts /\ \A d \in Devices : view'[d] = view[d] \/ view'[d] = StartView
      BY <1>1, <2>1, <2>2, StartDoes
    <3> QED  BY <1>1, <1>3, <2>1, <3>1, StartSessions
  <2>3. ASSUME NEW r \in Requests, PauseWrites(r) \/ CompleteWrites(r)
        PROVE  (Carries /\ Shows)'
    <3>1. /\ Ends(r) /\ job[r].op \in {"pause", "complete"} /\ job[r].was = card
          /\ PauseDoes \/ CompleteDoes
      BY <1>1, <2>1, <2>3, EndsDo
    <3> QED  BY <1>1, <2>1, <3>1, EndSessions
  <2>4. ASSUME NEW d \in Devices, Load(d)  PROVE (Carries /\ Shows)'
    BY <1>1, <2>1, <2>4, LoadSessions
  <2>5. CASE Tick
    BY <1>1, <2>1, <2>5, TickSessions
  <2>6. CASE Other
    <3>1. Quiet
      BY <1>1, <2>1, <2>6, OtherQuiet
    <3> QED  BY <1>2, <2>1, <3>1, QuietSessions
  <2> QED  BY <2>2, <2>3, <2>4, <2>5, <2>6, StepKinds
<1> QED  BY <1>1, <1>3 DEF SInv, Sessions

LEMMA InitSInv == Init => SInv
<1> SUFFICES ASSUME Init  PROVE SInv
  OBVIOUS
<1>1. card.log = <<>> /\ card.phase = "none" /\ card.minutes = 0
      /\ worked = 0 /\ session = 0 /\ drift = 0 /\ sessionDrift = 0
  BY FreshType DEF Init, Fresh
<1>2. Carried(<<>>) = 0
  <2>1. Last(<<>>, {"restart"}) = 0
    <3>1. {i \in 1..Len(<<>>) : <<>>[i].kind \in {"restart"}} = {}
      OBVIOUS
    <3> QED  BY <3>1 DEF Last
  <2> QED  BY <2>1 DEF Carried
<1>3. Carries /\ Shows
  BY <1>1, <1>2 DEF Carries, Shows, Written, Session
<1> QED  BY <1>3, InitWInv DEF SInv, Sessions

LEMMA SInvariance == Spec => []SInv
  BY InitSInv, StepSInv, PTL DEF Spec

\* Every device that knows of the execution shows the minutes of the session and what its own
\* clock and those before it are off, whichever pauses, reopenings and restarts went before;
\* or all the minutes of the card, if the text lost the restart.
THEOREM StopwatchTrue == Spec => []StopwatchShowsSession
<1>1. ASSUME SInv, NEW d \in Devices, Whole, card.phase = "InExecution",
             view[d] # None, view[d].start = starts
      PROVE  LET shown == view[d].base + Elapsed(d) - Adds(d) IN
             \/ shown = session + sessionDrift
             \/ "forgot" \in upset /\ shown = worked + drift
  <2>1. TypeOK /\ Counted
    BY <1>1 DEF SInv, WInv, PInv, IInv, Whole, Seen, Counting, Counted
  <2>2. /\ card.minutes \in Int /\ Written \in Int /\ Session \in Int /\ clock \in Nat
        /\ view[d].since = clock - Running /\ began = clock - Running
        /\ view[d].base \in Int /\ Skew[d] \in Int
    BY <1>1, <2>1, WTypes, STypes, SkewAssumption DEF Counted, CardCounts, DevicesCount, DeviceCounts
  <2>3. Elapsed(d) - Adds(d) = Running /\ Elapsed(d) \in Int /\ Adds(d) \in Int
    BY <2>2 DEF Elapsed, Adds, AtLeast, Running
  <2>4. view[d].base + Elapsed(d) - Adds(d) = view[d].base + Running
    BY <2>2, <2>3 DEF Running
  <2>5. \/ view[d].base = Session - Running
        \/ "forgot" \in upset /\ view[d].base = card.minutes
    BY <1>1 DEF SInv, Sessions, Shows
  <2> QED  BY <2>2, <2>4, <2>5 DEF Running, Written, Session
<1>2. SInv => StopwatchShowsSession
  BY <1>1 DEF StopwatchShowsSession, Whole
<1> QED  BY <1>2, SInvariance, PTL
=============================================================================
