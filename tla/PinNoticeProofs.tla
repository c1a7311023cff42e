---------------------------- MODULE PinNoticeProofs ----------------------------
(***************************************************************************)
(* For any number of stays, credentials and overlapping passes, and any    *)
(* failures: what is recorded as told was told, and no PIN is told twice.  *)
(***************************************************************************)
EXTENDS PinNotice, TLAPS

----------------------------------------------------------------------------
(* Types.                                                                  *)

Stages == {"idle", "next", "reading", "picking", "checking", "waiting", "sending",
           "recording", "marking", "pushing"}
Chosen == {"checking", "waiting", "sending", "recording", "marking", "pushing"}

\* What TypeOK asks of a job.
Fits(j) ==
    /\ j \in Job
    /\ j.stage \notin {"idle", "next"} => j.stay \in Stays
    /\ j.stage \in Chosen => j.cred \in Credentials

LEMMA AtFits ==
    ASSUME NEW stage \in Stages, NEW op \in {"none", "sweep", "renew", "resend"},
           NEW todo \in SUBSET Stays, NEW s \in Stays \cup {NoStay},
           NEW c \in Credentials \cup {NoCredential}, NEW pin \in Pins, NEW ok \in BOOLEAN,
           stage \notin {"idle", "next"} => s \in Stays,
           stage \in Chosen => c \in Credentials
    PROVE  /\ Fits(At(stage, op, todo, s, c, pin, ok))
           /\ At(stage, op, todo, s, c, pin, ok).stage = stage
           /\ At(stage, op, todo, s, c, pin, ok).op = op
           /\ At(stage, op, todo, s, c, pin, ok).stay = s
           /\ At(stage, op, todo, s, c, pin, ok).cred = c
           /\ At(stage, op, todo, s, c, pin, ok).pin = pin
           /\ At(stage, op, todo, s, c, pin, ok).ok = ok
  BY DEF At, Job, Fits, Stages

LEMMA ZeroPin == 0 \in Pins
  BY BoundsAssumption DEF Pins

LEMMA IdleFits == Fits(Idle) /\ Idle.stage = "idle"
  BY ZeroPin DEF Idle, At, Job, Fits, Chosen

LEMMA TypeGives ==
    ASSUME TypeOK
    PROVE  /\ cred \in [Credentials -> [live: BOOLEAN, synced: BOOLEAN, pin: Pins]]
           /\ current \subseteq Stays /\ reachable \subseteq Stays
           /\ handled \subseteq Told /\ cooling \subseteq Told
           /\ received \subseteq Told /\ twice \subseteq Told
           /\ job \in [Processes -> Job]
           /\ excused \in BOOLEAN /\ ops \in 0..MaxOps
           /\ \A q \in Processes : Fits(job[q])
  BY DEF TypeOK, Fits, Chosen

LEMMA TypeParts ==
    ASSUME cred' \in [Credentials -> [live: BOOLEAN, synced: BOOLEAN, pin: Pins]],
           current' \subseteq Stays, reachable' \subseteq Stays,
           handled' \subseteq Told, cooling' \subseteq Told,
           received' \subseteq Told, twice' \subseteq Told,
           job' \in [Processes -> Job],
           excused' \in BOOLEAN, ops' \in 0..MaxOps,
           \A q \in Processes : Fits(job'[q])
    PROVE  TypeOK'
  BY DEF TypeOK, Fits, Chosen

LEMMA JobFields ==
    ASSUME NEW j, Fits(j)
    PROVE  /\ j \in Job /\ j.stage \in Stages
           /\ j.op \in {"none", "sweep", "renew", "resend"}
           /\ j.todo \in SUBSET Stays /\ j.stay \in Stays \cup {NoStay}
           /\ j.cred \in Credentials \cup {NoCredential} /\ j.pin \in Pins
           /\ j.ok \in BOOLEAN
           /\ j.stage \notin {"idle", "next"} => j.stay \in Stays
           /\ j.stage \in Chosen => j.cred \in Credentials
           /\ j.stage \in Chosen => <<j.cred, j.pin>> \in Told
  BY DEF Fits, Job, Stages, Told

LEMMA TurnsType ==
    ASSUME TypeOK, NEW p \in Processes, NEW j, Fits(j), Turns(p, j)
    PROVE  /\ job' \in [Processes -> Job]
           /\ \A q \in Processes : Fits(job'[q])
           /\ job'[p] = j
           /\ \A q \in Processes : q # p => job'[q] = job[q]
  BY TypeGives DEF Turns, Fits

\* A job that goes on with what it has.
LEMMA GoesType ==
    ASSUME TypeOK, NEW p \in Processes, NEW stage \in Stages, Goes(p, stage),
           stage \notin {"idle", "next"} => job[p].stay \in Stays,
           stage \in Chosen => job[p].cred \in Credentials
    PROVE  /\ job' \in [Processes -> Job]
           /\ \A q \in Processes : Fits(job'[q])
           /\ job'[p].stage = stage
           /\ job'[p].op = job[p].op
           /\ job'[p].cred = job[p].cred /\ job'[p].pin = job[p].pin
           /\ job'[p].ok = job[p].ok
           /\ \A q \in Processes : q # p => job'[q] = job[q]
  <1> DEFINE j == [job[p] EXCEPT !.stage = stage]
  <1>1. job[p] \in Job
    BY TypeGives
  <1>2. /\ j \in Job /\ j.stage = stage /\ j.op = job[p].op /\ j.cred = job[p].cred
        /\ j.pin = job[p].pin /\ j.ok = job[p].ok /\ j.stay = job[p].stay
    BY <1>1 DEF Job, Stages
  <1>3. Fits(j)
    BY <1>2 DEF Fits
  <1>4. Turns(p, j)
    BY DEF Goes
  <1> QED
    BY <1>2, <1>3, <1>4, TurnsType

LEMMA EndsType ==
    ASSUME TypeOK, NEW p \in Processes, Ends(p)
    PROVE  /\ job' \in [Processes -> Job]
           /\ \A q \in Processes : Fits(job'[q])
           /\ job'[p].stage \in {"idle", "next"}
           /\ \A q \in Processes : q # p => job'[q] = job[q]
  <1>1. CASE job[p].op = "sweep"
    <2>1. Goes(p, "next") /\ "next" \in Stages /\ "next" \notin Chosen
      BY <1>1 DEF Ends, Stages, Chosen
    <2> QED BY <2>1, GoesType
  <1>2. CASE job[p].op # "sweep"
    <2>1. Turns(p, Idle)
      BY <1>2 DEF Ends
    <2> QED BY <2>1, TurnsType, IdleFits
  <1> QED BY <1>1, <1>2

LEMMA SpendType ==
    ASSUME TypeOK, NEW operation, Spend(operation)
    PROVE  ops' \in 0..MaxOps
  BY TypeGives, BoundsAssumption DEF Spend

----------------------------------------------------------------------------
(* Types, action by action.                                                *)

CredRow == [live: BOOLEAN, synced: BOOLEAN, pin: Pins]

LEMMA CredType ==
    ASSUME TypeOK, NEW c \in Credentials
    PROVE  /\ cred[c] \in CredRow /\ cred[c].pin \in Pins
           /\ \A pin \in Pins : [cred EXCEPT ![c].pin = pin] \in [Credentials -> CredRow]
  BY TypeGives DEF CredRow

LEMMA InitTypes == Init => TypeOK
  <1> SUFFICES ASSUME Init PROVE TypeOK
    OBVIOUS
  <1>1. cred \in [Credentials -> [live: BOOLEAN, synced: BOOLEAN, pin: Pins]]
    BY ZeroPin DEF Init
  <1>2. job \in [Processes -> Job] /\ \A q \in Processes : job[q] = Idle
    BY IdleFits DEF Init, Fits
  <1>3. \A q \in Processes : Fits(job[q])
    BY <1>2, IdleFits
  <1> QED
    <2>1. /\ current \subseteq Stays /\ reachable \subseteq Stays
          /\ handled \subseteq Told /\ cooling \subseteq Told
          /\ received \subseteq Told /\ twice \subseteq Told
          /\ excused \in BOOLEAN
      BY DEF Init
    <2>2. ops \in 0..MaxOps
      BY BoundsAssumption DEF Init
    <2> QED
      BY <1>1, <1>2, <1>3, <2>1, <2>2 DEF TypeOK, Fits, Chosen

\* The steps of a process, but for the rows and the notices.
LEMMA ProcessTypes ==
    ASSUME TypeOK, NEW p \in Processes,
           \/ SweepStart(p) \/ NextStay(p) \/ Read(p) \/ PickOne(p) \/ Check(p)
           \/ CheckCooldown(p) \/ Fault(p)
    PROVE  TypeOK'
  <1>1. excused' \in BOOLEAN /\ ops' \in 0..MaxOps /\ UNCHANGED <<Rows, Notices, Outside>>
    <2>1. CASE Fault(p)
      BY <2>1, SpendType, TypeGives DEF Fault, Is
    <2>2. CASE ~Fault(p)
      BY <2>2, TypeGives DEF SweepStart, Overlaps, NextStay, Read, PickOne, Check, CheckCooldown
    <2> QED BY <2>1, <2>2
  <1>2. job' \in [Processes -> Job] /\ \A q \in Processes : Fits(job'[q])
    <2>0. /\ Fits(job[p])
          /\ job[p].todo \in SUBSET Stays /\ job[p].stay \in Stays \cup {NoStay}
          /\ job[p].op \in {"none", "sweep", "renew", "resend"}
          /\ job[p].stage \notin {"idle", "next"} => job[p].stay \in Stays
          /\ job[p].stage \in Chosen => job[p].cred \in Credentials
      BY TypeGives, JobFields
    <2>1. CASE SweepStart(p)
      <3>1. PICK batch \in SUBSET Pending :
              Turns(p, At("next", "sweep", {StayOf[c] : c \in batch}, NoStay, NoCredential,
                          0, FALSE))
        BY <2>1 DEF SweepStart
      <3>2. {StayOf[c] : c \in batch} \in SUBSET Stays
        BY StayOfAssumption DEF Pending
      <3>3. Fits(At("next", "sweep", {StayOf[c] : c \in batch}, NoStay, NoCredential, 0, FALSE))
        BY <3>2, ZeroPin DEF At, Job, Fits, Chosen
      <3> QED BY <3>1, <3>3, TurnsType
    <2>2. CASE NextStay(p)
      <3>1. CASE Turns(p, Idle)
        BY <3>1, TurnsType, IdleFits
      <3>2. CASE \E s \in job[p].todo :
                   Turns(p, At("reading", "sweep", job[p].todo \ {s}, s, NoCredential, 0, FALSE))
        <4>1. PICK s \in job[p].todo :
                Turns(p, At("reading", "sweep", job[p].todo \ {s}, s, NoCredential, 0, FALSE))
          BY <3>2
        <4>2. s \in Stays /\ job[p].todo \ {s} \in SUBSET Stays
          BY <2>0
        <4>3. Fits(At("reading", "sweep", job[p].todo \ {s}, s, NoCredential, 0, FALSE))
          BY <4>2, ZeroPin DEF At, Job, Fits, Chosen
        <4> QED BY <4>1, <4>3, TurnsType
      <3> QED BY <2>2, <3>1, <3>2 DEF NextStay
    <2>3. CASE Ends(p)
      BY <2>3, EndsType
    <2>4. CASE Read(p) /\ Goes(p, "picking")
      BY <2>0, <2>4, GoesType DEF Read, Is, Stages, Chosen
    <2>5. CASE PickOne(p) /\ ~Ends(p)
      <3>1. PICK c \in {x \in Pick(job[p].stay) : cred[x].synced} :
              Turns(p, At(IF job[p].op = "resend" THEN "sending" ELSE "checking", job[p].op,
                          job[p].todo, job[p].stay, c, cred[c].pin, FALSE))
        BY <2>5 DEF PickOne
      <3>2. c \in Credentials
        BY DEF Pick, LiveOf
      <3>3. cred[c].pin \in Pins
        BY <3>2, CredType
      <3>4. job[p].stay \in Stays
        BY <2>0, <2>5 DEF PickOne, Is
      <3>5. (IF job[p].op = "resend" THEN "sending" ELSE "checking") \in Stages
        BY DEF Stages
      <3>6. Fits(At(IF job[p].op = "resend" THEN "sending" ELSE "checking", job[p].op,
                    job[p].todo, job[p].stay, c, cred[c].pin, FALSE))
        BY <2>0, <3>2, <3>3, <3>4, <3>5 DEF At, Job, Fits, Chosen
      <3> QED BY <3>1, <3>6, TurnsType
    <2>6. CASE Check(p) /\ Goes(p, "waiting")
      BY <2>0, <2>6, GoesType DEF Check, Is, Stages, Chosen
    <2>7. CASE CheckCooldown(p) /\ Goes(p, "sending")
      BY <2>0, <2>7, GoesType DEF CheckCooldown, Is, Stages, Chosen
    <2>8. CASE Fault(p)
      BY <2>3, <2>8 DEF Fault
    <2> QED
      BY <2>1, <2>2, <2>3, <2>4, <2>5, <2>6, <2>7, <2>8 DEF Read, Check, CheckCooldown
  <1> QED
    BY <1>1, <1>2, TypeGives, TypeParts DEF Rows, Notices, Outside

LEMMA SentType ==
    ASSUME TypeOK, NEW p \in Processes, Is(p, "sending"), NEW ok \in BOOLEAN, Sent(p, ok)
    PROVE  /\ job' \in [Processes -> Job]
           /\ \A q \in Processes : Fits(job'[q])
           /\ job'[p].stage = "recording" /\ job'[p].ok = ok
           /\ job'[p].cred = job[p].cred /\ job'[p].pin = job[p].pin
           /\ \A q \in Processes : q # p => job'[q] = job[q]
           /\ <<job[p].cred, job[p].pin>> \in Told
  <1>1. Fits(job[p]) /\ job[p].stage = "sending"
    BY TypeGives DEF Is
  <1>2. /\ job[p].op \in {"none", "sweep", "renew", "resend"}
        /\ job[p].todo \in SUBSET Stays /\ job[p].stay \in Stays
        /\ job[p].cred \in Credentials /\ job[p].pin \in Pins
        /\ <<job[p].cred, job[p].pin>> \in Told
    BY <1>1, JobFields DEF Chosen
  <1> DEFINE j == At("recording", job[p].op, job[p].todo, job[p].stay, job[p].cred,
                     job[p].pin, ok)
  <1>3. /\ Fits(j) /\ j.stage = "recording" /\ j.ok = ok
        /\ j.cred = job[p].cred /\ j.pin = job[p].pin
    <2>1. "recording" \in Stages
      BY DEF Stages
    <2> QED BY <1>2, <2>1, AtFits
  <1>4. Turns(p, j)
    BY DEF Sent
  <1> QED
    BY <1>2, <1>3, <1>4, TurnsType

LEMMA SendTypes ==
    ASSUME TypeOK, NEW p \in Processes, Send(p) \/ SendNowhere(p) \/ SendFails(p)
    PROVE  TypeOK'
  <1>1. /\ Is(p, "sending") /\ \E ok \in BOOLEAN : Sent(p, ok)
        /\ UNCHANGED <<Rows, Notices, reachable>>
    BY DEF Send, SendNowhere, SendFails, Outside
  <1>2. /\ job' \in [Processes -> Job] /\ \A q \in Processes : Fits(job'[q])
        /\ <<job[p].cred, job[p].pin>> \in Told
    BY <1>1, SentType
  <1>3. received' \subseteq Told /\ twice' \subseteq Told
    BY <1>2, TypeGives DEF Send, SendNowhere, SendFails, Deliver, Outside
  <1>4. excused' \in BOOLEAN /\ ops' \in 0..MaxOps
    BY SpendType, TypeGives DEF Send, SendNowhere, SendFails, Outside
  <1> QED
    BY <1>1, <1>2, <1>3, <1>4, TypeGives, TypeParts DEF Rows, Notices

LEMMA RecordTypes ==
    ASSUME TypeOK, NEW p \in Processes, Record(p)
    PROVE  TypeOK'
  <1>1. <<job[p].cred, job[p].pin>> \in Told
    BY TypeGives, JobFields DEF Record, Is, Chosen
  <1>2. handled' \subseteq Told /\ cooling' \subseteq Told
    BY <1>1, TypeGives DEF Record
  <1> QED
    BY <1>2, EndsType, TypeGives, TypeParts DEF Record, Rows, Outside

LEMMA SupervisorTypes ==
    ASSUME TypeOK, NEW p \in Processes, NEW s \in Stays,
           Renew(p, s) \/ Unsync(p) \/ Push(p) \/ Resend(p, s)
    PROVE  TypeOK'
  <1>1. CASE Renew(p, s)
    <2>1. PICK c \in Pick(s) :
            /\ cred[c].pin < MaxPin
            /\ cred' = [cred EXCEPT ![c].pin = cred[c].pin + 1]
            /\ Turns(p, At("marking", "renew", {}, s, c, 0, FALSE))
      BY <1>1 DEF Renew
    <2>2. c \in Credentials
      BY DEF Pick, LiveOf
    <2>3. cred[c].pin + 1 \in Pins
      BY <2>1, <2>2, CredType, BoundsAssumption DEF Pins
    <2>4. cred' \in [Credentials -> CredRow]
      BY <2>1, <2>2, <2>3, CredType
    <2>5. Fits(At("marking", "renew", {}, s, c, 0, FALSE))
      BY <2>2, ZeroPin DEF At, Job, Fits
    <2>6. job' \in [Processes -> Job] /\ \A q \in Processes : Fits(job'[q])
      BY <2>1, <2>5, TurnsType
    <2>7. ops' \in 0..MaxOps /\ excused' \in BOOLEAN
      BY <1>1, SpendType, TypeGives DEF Renew, Overlaps
    <2> QED
      BY <1>1, <2>4, <2>6, <2>7, TypeGives, TypeParts DEF Renew, Notices, Outside, CredRow
  <1>2. CASE Unsync(p) \/ Push(p)
    <2>1. job[p].cred \in Credentials /\ job[p].stay \in Stays
      BY <1>2, TypeGives, JobFields DEF Unsync, Push, Is, Chosen
    <2>2. cred' \in [Credentials -> CredRow]
      <3>1. PICK b \in BOOLEAN : cred' = [cred EXCEPT ![job[p].cred].synced = b]
        BY <1>2 DEF Unsync, Push
      <3> QED BY <2>1, <3>1, TypeGives DEF CredRow
    <2>3. job' \in [Processes -> Job] /\ \A q \in Processes : Fits(job'[q])
      <3>1. CASE Goes(p, "pushing")
        BY <2>1, <3>1, GoesType DEF Stages
      <3>2. CASE Goes(p, "reading")
        BY <2>1, <3>2, GoesType DEF Stages, Chosen
      <3> QED BY <1>2, <3>1, <3>2 DEF Unsync, Push
    <2> QED
      BY <1>2, <2>2, <2>3, TypeGives, TypeParts DEF Unsync, Push, Notices, Outside, CredRow
  <1>3. CASE Resend(p, s)
    <2>1. Fits(At("reading", "resend", {}, s, NoCredential, 0, FALSE))
      BY ZeroPin DEF At, Job, Fits, Chosen
    <2>2. job' \in [Processes -> Job] /\ \A q \in Processes : Fits(job'[q])
      BY <1>3, <2>1, TurnsType DEF Resend
    <2>3. ops' \in 0..MaxOps /\ excused' \in BOOLEAN
      BY <1>3, SpendType, TypeGives DEF Resend, Overlaps
    <2> QED
      BY <1>3, <2>2, <2>3, TypeGives, TypeParts DEF Resend, Rows, Notices, Outside
  <1> QED BY <1>1, <1>2, <1>3

\* A step of the outside.
External ==
    \/ \E c \in Credentials : Sync(c) \/ Revoke(c)
    \/ \E s \in Stays : EndStay(s) \/ Appear(s)
    \/ \E x \in Told : CoolDown(x)

LEMMA ExternalTypes ==
    ASSUME TypeOK, External \/ Crash
    PROVE  TypeOK'
  <1>1. CASE \E c \in Credentials : Sync(c) \/ Revoke(c)
    <2>1. PICK c \in Credentials : Sync(c) \/ Revoke(c)
      BY <1>1
    <2>2. cred' \in [Credentials -> CredRow]
      <3>1. PICK b \in BOOLEAN : \/ cred' = [cred EXCEPT ![c].synced = b]
                                \/ cred' = [cred EXCEPT ![c].live = b]
        BY <2>1 DEF Sync, Revoke
      <3> QED BY <3>1, TypeGives DEF CredRow
    <2>3. ops' \in 0..MaxOps /\ UNCHANGED <<current, Notices, Outside, job, excused>>
      BY <2>1, SpendType, TypeGives DEF Sync, Revoke
    <2> QED
      BY <2>2, <2>3, TypeGives, TypeParts DEF Notices, Outside, CredRow
  <1>2. CASE \E s \in Stays : EndStay(s) \/ Appear(s)
    <2>1. PICK s \in Stays : EndStay(s) \/ Appear(s)
      BY <1>2
    <2>2. current' \subseteq Stays /\ reachable' \subseteq Stays
      BY <2>1, TypeGives DEF EndStay, Appear, Outside, Rows
    <2>3. /\ ops' \in 0..MaxOps
          /\ UNCHANGED <<cred, Notices, received, twice, job, excused>>
      BY <2>1, SpendType, TypeGives DEF EndStay, Appear, Outside, Rows
    <2> QED
      BY <2>2, <2>3, TypeGives, TypeParts DEF Notices
  <1>3. CASE \E x \in Told : CoolDown(x)
    BY <1>3, TypeGives, TypeParts DEF CoolDown, Rows, Outside
  <1>4. CASE Crash
    <2>1. job' \in [Processes -> Job] /\ \A q \in Processes : job'[q] = Idle
      BY <1>4, IdleFits DEF Crash, Fits
    <2>2. ops' \in 0..MaxOps /\ excused' \in BOOLEAN
      BY <1>4, SpendType, TypeGives DEF Crash, Is
    <2> QED
      BY <1>4, <2>1, <2>2, IdleFits, TypeGives, TypeParts DEF Crash, Rows, Notices, Outside
  <1> QED BY <1>1, <1>2, <1>3, <1>4 DEF External

\* The rows, notices, conversations and jobs keep their types: what a type
\* error would be here is a notice sent without a credential.
THEOREM TypeCorrect == Spec => []TypeOK
  <1>1. Init => TypeOK
    BY InitTypes
  <1>2. TypeOK /\ [Next]_vars => TypeOK'
    <2> SUFFICES ASSUME TypeOK, [Next]_vars PROVE TypeOK'
      OBVIOUS
    <2>1. CASE UNCHANGED vars
      BY <2>1, TypeGives, TypeParts DEF vars
    <2>2. CASE External \/ Crash
      BY <2>2, ExternalTypes
    <2>3. ASSUME NEW p \in Processes,
                 \/ SweepStart(p) \/ Proceed(p) \/ SendFails(p) \/ Fault(p)
          PROVE  TypeOK'
      <3>1. CASE Unsync(p) \/ Push(p)
        <4>1. Fits(job[p]) /\ job[p].stage \notin {"idle", "next"}
          BY <3>1, TypeGives DEF Unsync, Push, Is
        <4>2. job[p].stay \in Stays
          BY <4>1 DEF Fits
        <4> QED BY <3>1, <4>2, SupervisorTypes
      <3> QED BY <2>3, <3>1, ProcessTypes, SendTypes, RecordTypes DEF Proceed
    <2>4. ASSUME NEW p \in Processes, NEW s \in Stays, Renew(p, s) \/ Resend(p, s)
          PROVE  TypeOK'
      BY <2>4, SupervisorTypes
    <2> QED BY <2>1, <2>2, <2>3, <2>4 DEF Next, External
  <1> QED BY <1>1, <1>2, PTL DEF Spec

----------------------------------------------------------------------------
(* What was recorded was told, and told once.                              *)

X(j) == <<j.cred, j.pin>>

\* A record to be made of a message that was taken.
Owes(j) == j.stage = "recording" /\ j.ok

SentIfOk == \A p \in Processes : Owes(job[p]) => X(job[p]) \in received

Alone == \A p, q \in Processes : job[p].stage # "idle" /\ job[q].stage # "idle" => p = q

Accounted == \A x \in received : x \in handled \/ \E p \in Processes : Owes(job[p]) /\ x = X(job[p])

\* A notice that passed alreadyHandled(), or was not asked to.
Fresh(j) == j.stage \in {"waiting", "sending"} /\ j.op # "resend" => X(j) \notin handled

\* The inductive invariant.  Without Alone a second notice could record between
\* the check of a first one and its send; without Accounted a message could be
\* out that no row and no notice under way knows of.
Sound == RecordedWasTold /\ SentIfOk
Orderly == Alone /\ Accounted /\ twice = {} /\ \A p \in Processes : Fresh(job[p])
IInv == TypeOK /\ Sound /\ (~excused => Orderly)

\* A step of a process that neither sends nor records.
Quiet(p) ==
    /\ UNCHANGED <<handled, received, twice>>
    /\ \A q \in Processes : q # p => job'[q] = job[q]
    /\ ~Owes(job'[p])
    /\ ~excused' => /\ ~excused
                    /\ ~Owes(job[p])
                    /\ job[p].stage = "idle" => \A q \in Processes \ {p} : job[q].stage = "idle"
                    /\ Fresh(job[p]) => Fresh(job'[p])

LEMMA QuietKeeps ==
    ASSUME IInv, TypeOK', NEW p \in Processes, Quiet(p)
    PROVE  IInv'
  <1>1. Sound'
    <2>1. RecordedWasTold'
      BY DEF IInv, Sound, RecordedWasTold, Quiet
    <2>2. ASSUME NEW q \in Processes, Owes(job'[q])
          PROVE  X(job'[q]) \in received'
      BY <2>2 DEF IInv, Sound, SentIfOk, Quiet
    <2> QED BY <2>1, <2>2 DEF Sound, SentIfOk
  <1>2. ASSUME ~excused' PROVE Orderly'
    <2>0. Orderly /\ ~excused
      BY <1>2 DEF IInv, Quiet
    <2>1. Alone'
      BY <1>2, <2>0 DEF Orderly, Alone, Quiet
    <2>2. Accounted'
      BY <1>2, <2>0 DEF Orderly, Accounted, Quiet
    <2>3. ASSUME NEW q \in Processes PROVE Fresh(job[q])'
      <3>1. CASE q = p
        BY <1>2, <2>0, <3>1 DEF Orderly, Quiet, Fresh
      <3>2. CASE q # p
        BY <2>0, <3>2 DEF Orderly, Quiet, Fresh
      <3> QED BY <3>1, <3>2
    <2> QED BY <2>0, <2>1, <2>2, <2>3 DEF Orderly, Quiet
  <1> QED BY <1>1, <1>2 DEF IInv

LEMMA EndsQuiet ==
    ASSUME TypeOK, NEW p \in Processes, Ends(p), job[p].stage # "idle",
           UNCHANGED <<handled, received, twice>>,
           ~excused' => ~excused /\ ~Owes(job[p])
    PROVE  Quiet(p)
  BY EndsType DEF Quiet, Owes, Fresh

LEMMA GoesQuiet ==
    ASSUME TypeOK, NEW p \in Processes, NEW stage \in Stages, Goes(p, stage),
           stage \notin {"idle", "next"} => job[p].stay \in Stays,
           stage \in Chosen => job[p].cred \in Credentials,
           job[p].stage \notin {"idle", "recording"}, stage # "recording",
           stage \in {"waiting", "sending"} =>
             X(job[p]) \notin handled \/ (Fresh(job[p]) /\ job[p].stage = "waiting"),
           UNCHANGED <<handled, received, twice, excused>>
    PROVE  Quiet(p)
  BY GoesType DEF Quiet, Owes, Fresh, X

LEMMA TurnsQuiet ==
    ASSUME TypeOK, NEW p \in Processes, NEW j, Fits(j), Turns(p, j),
           ~Owes(j), Fresh(j),
           UNCHANGED <<handled, received, twice>>,
           job[p].stage # "recording",
           job[p].stage = "idle" => excused' = (excused \/ Overlaps(p)),
           job[p].stage # "idle" => excused' = excused
    PROVE  Quiet(p)
  <1>1. job'[p] = j /\ \A q \in Processes : q # p => job'[q] = job[q]
    BY TurnsType
  <1>2. ~Owes(job'[p]) /\ Fresh(job'[p]) /\ ~Owes(job[p])
    BY <1>1 DEF Owes
  <1>3. ~excused' => /\ ~excused
                     /\ job[p].stage = "idle" => \A q \in Processes \ {p} : job[q].stage = "idle"
    BY TypeGives DEF Overlaps, Is
  <1> QED
    BY <1>1, <1>2, <1>3 DEF Quiet

LEMMA ProcessKeeps ==
    ASSUME IInv, TypeOK', NEW p \in Processes,
           \/ SweepStart(p) \/ NextStay(p) \/ Read(p) \/ PickOne(p) \/ Check(p)
           \/ CheckCooldown(p) \/ Fault(p)
    PROVE  IInv'
  <1>0. TypeOK /\ UNCHANGED <<handled, received, twice>>
    BY DEF IInv, SweepStart, NextStay, Read, PickOne, Check, CheckCooldown, Fault,
           Notices, Outside
  <1>1. /\ Fits(job[p])
        /\ job[p].todo \in SUBSET Stays
        /\ job[p].op \in {"none", "sweep", "renew", "resend"}
        /\ job[p].stage \notin {"idle", "next"} => job[p].stay \in Stays
        /\ job[p].stage \in Chosen => job[p].cred \in Credentials
    BY <1>0, TypeGives, JobFields
  <1>2. CASE SweepStart(p)
    <2>1. PICK batch \in SUBSET Pending :
            Turns(p, At("next", "sweep", {StayOf[c] : c \in batch}, NoStay, NoCredential,
                        0, FALSE))
      BY <1>2 DEF SweepStart
    <2> DEFINE j == At("next", "sweep", {StayOf[c] : c \in batch}, NoStay, NoCredential,
                       0, FALSE)
    <2>2. {StayOf[c] : c \in batch} \in SUBSET Stays
      BY StayOfAssumption DEF Pending
    <2>3. Fits(j) /\ ~Owes(j) /\ Fresh(j)
      BY <2>2, ZeroPin DEF At, Job, Fits, Chosen, Owes, Fresh
    <2>4. job[p].stage = "idle" /\ excused' = (excused \/ Overlaps(p))
      BY <1>2 DEF SweepStart, Is
    <2>5. Quiet(p)
      BY <1>0, <2>1, <2>3, <2>4, TurnsQuiet
    <2> QED BY <2>5, QuietKeeps
  <1>3. CASE NextStay(p)
    <2>1. job[p].stage = "next" /\ excused' = excused
      BY <1>3 DEF NextStay, Is
    <2>2. PICK j : Turns(p, j) /\ Fits(j) /\ ~Owes(j) /\ Fresh(j)
      <3>1. CASE Turns(p, Idle)
        BY <3>1, IdleFits DEF Owes, Fresh
      <3>2. CASE \E s \in job[p].todo :
                   Turns(p, At("reading", "sweep", job[p].todo \ {s}, s, NoCredential, 0, FALSE))
        <4>1. PICK s \in job[p].todo :
                Turns(p, At("reading", "sweep", job[p].todo \ {s}, s, NoCredential, 0, FALSE))
          BY <3>2
        <4> DEFINE k == At("reading", "sweep", job[p].todo \ {s}, s, NoCredential, 0, FALSE)
        <4>2. s \in Stays /\ job[p].todo \ {s} \in SUBSET Stays
          BY <1>1
        <4>3. Fits(k) /\ ~Owes(k) /\ Fresh(k)
          BY <4>2, ZeroPin DEF At, Job, Fits, Chosen, Owes, Fresh
        <4> QED BY <4>1, <4>3
      <3> QED BY <1>3, <3>1, <3>2 DEF NextStay
    <2>3. Quiet(p)
      BY <1>0, <2>1, <2>2, TurnsQuiet
    <2> QED BY <2>3, QuietKeeps
  <1>4. CASE Ends(p) /\ (Fault(p) \/ Read(p) \/ PickOne(p) \/ Check(p) \/ CheckCooldown(p))
    <2>1. job[p].stage # "idle"
      BY <1>4 DEF Fault, Read, PickOne, Check, CheckCooldown, Is
    <2>2. ~excused' => ~excused /\ ~Owes(job[p])
      BY <1>4 DEF Fault, Read, PickOne, Check, CheckCooldown, Is, Owes
    <2>3. Quiet(p)
      BY <1>0, <1>4, <2>1, <2>2, EndsQuiet
    <2> QED BY <2>3, QuietKeeps
  <1>5. CASE Read(p) /\ Goes(p, "picking")
    <2>1. /\ job[p].stage = "reading" /\ excused' = excused
          /\ "picking" \in Stages /\ "picking" \notin Chosen
      BY <1>5 DEF Read, Is, Stages, Chosen
    <2>2. Quiet(p)
      BY <1>0, <1>1, <1>5, <2>1, GoesQuiet
    <2> QED BY <2>2, QuietKeeps
  <1>6. CASE Check(p) /\ Goes(p, "waiting")
    <2>1. job[p].stage = "checking" /\ "waiting" \in Stages
      BY <1>6 DEF Check, Is, Stages
    <2>2. X(job[p]) \notin handled
      <3>1. ~Ends(p)
        <4>1. Ends(p) => job'[p].stage \in {"idle", "next"}
          BY <1>0, EndsType
        <4>2. job'[p].stage = "waiting"
          BY <1>0, <1>1, <1>6, <2>1, GoesType DEF Chosen
        <4> QED BY <4>1, <4>2
      <3> QED BY <1>6, <3>1 DEF Check, X
    <2>3. excused' = excused
      BY <1>6 DEF Check
    <2>4. job[p].stay \in Stays /\ job[p].cred \in Credentials
      BY <1>1, <2>1 DEF Chosen
    <2>5. UNCHANGED <<handled, received, twice, excused>>
      BY <1>0, <2>3
    <2>6. Quiet(p)
      BY <1>0, <1>6, <2>1, <2>2, <2>4, <2>5, GoesType DEF Quiet, Owes, Fresh, X
    <2> QED BY <2>6, QuietKeeps
  <1>7. CASE CheckCooldown(p) /\ Goes(p, "sending")
    <2>1. job[p].stage = "waiting" /\ "sending" \in Stages /\ excused' = excused
      BY <1>7 DEF CheckCooldown, Is, Stages
    <2>2. CASE excused
      <3>1. UNCHANGED <<handled, received, twice, excused>>
        BY <1>0, <2>1
      <3>2. Quiet(p)
        BY <1>0, <1>1, <1>7, <2>1, <2>2, GoesType DEF Quiet, Owes, Chosen
      <3> QED BY <3>2, QuietKeeps
    <2>3. CASE ~excused
      <3>1. Fresh(job[p])
        BY <2>3 DEF IInv, Orderly
      <3>2. Quiet(p)
        BY <1>0, <1>1, <1>7, <2>1, <3>1, GoesQuiet DEF Chosen
      <3> QED BY <3>2, QuietKeeps
    <2> QED BY <2>2, <2>3
  <1>8. CASE PickOne(p) /\ ~Ends(p)
    <2>1. PICK c \in {x \in Pick(job[p].stay) : cred[x].synced} :
            Turns(p, At(IF job[p].op = "resend" THEN "sending" ELSE "checking", job[p].op,
                        job[p].todo, job[p].stay, c, cred[c].pin, FALSE))
      BY <1>8 DEF PickOne
    <2> DEFINE j == At(IF job[p].op = "resend" THEN "sending" ELSE "checking", job[p].op,
                       job[p].todo, job[p].stay, c, cred[c].pin, FALSE)
    <2>2. c \in Credentials /\ job[p].stage = "picking" /\ excused' = excused
      BY <1>8 DEF Pick, LiveOf, PickOne, Is
    <2>3. cred[c].pin \in Pins /\ job[p].stay \in Stays
      BY <1>0, <1>1, <2>2, CredType
    <2>4. Fits(j)
      BY <1>1, <2>2, <2>3 DEF At, Job, Fits, Chosen
    <2>5. ~Owes(j) /\ Fresh(j)
      BY DEF At, Owes, Fresh
    <2>6. Quiet(p)
      BY <1>0, <2>1, <2>2, <2>4, <2>5, TurnsQuiet
    <2> QED BY <2>6, QuietKeeps
  <1> QED
    BY <1>2, <1>3, <1>4, <1>5, <1>6, <1>7, <1>8 DEF Read, Check, CheckCooldown, Fault

LEMMA SupervisorKeeps ==
    ASSUME IInv, TypeOK', NEW p \in Processes, NEW s \in Stays,
           Renew(p, s) \/ Unsync(p) \/ Push(p) \/ Resend(p, s)
    PROVE  IInv'
  <1>0. TypeOK /\ UNCHANGED <<handled, received, twice>>
    BY DEF IInv, Renew, Unsync, Push, Resend, Notices, Outside
  <1>1. CASE Renew(p, s) \/ Resend(p, s)
    <2>1. job[p].stage = "idle" /\ excused' = (excused \/ Overlaps(p))
      BY <1>1 DEF Renew, Resend, Is
    <2>2. PICK j : Turns(p, j) /\ Fits(j) /\ ~Owes(j) /\ Fresh(j)
      <3>1. CASE Renew(p, s)
        <4>1. PICK c \in Pick(s) : Turns(p, At("marking", "renew", {}, s, c, 0, FALSE))
          BY <3>1 DEF Renew
        <4> DEFINE k == At("marking", "renew", {}, s, c, 0, FALSE)
        <4>2. c \in Credentials
          BY DEF Pick, LiveOf
        <4>3. Fits(k) /\ ~Owes(k) /\ Fresh(k)
          BY <4>2, ZeroPin DEF At, Job, Fits, Chosen, Owes, Fresh
        <4> QED BY <4>1, <4>3
      <3>2. CASE Resend(p, s)
        <4> DEFINE k == At("reading", "resend", {}, s, NoCredential, 0, FALSE)
        <4>1. Turns(p, k)
          BY <3>2 DEF Resend
        <4>2. Fits(k) /\ ~Owes(k) /\ Fresh(k)
          BY ZeroPin DEF At, Job, Fits, Chosen, Owes, Fresh
        <4> QED BY <4>1, <4>2
      <3> QED BY <1>1, <3>1, <3>2
    <2>3. Quiet(p)
      BY <1>0, <2>1, <2>2, TurnsQuiet
    <2> QED BY <2>3, QuietKeeps
  <1>2. CASE Unsync(p) \/ Push(p)
    <2>1. /\ job[p].stage \in {"marking", "pushing"} /\ excused' = excused
          /\ job[p].stay \in Stays /\ job[p].cred \in Credentials
      BY <1>0, <1>2, TypeGives, JobFields DEF Unsync, Push, Is, Chosen
    <2>2. PICK stage \in {"pushing", "reading"} : Goes(p, stage)
      BY <1>2 DEF Unsync, Push
    <2>3. Quiet(p)
      BY <1>0, <2>1, <2>2, GoesQuiet DEF Stages
    <2> QED BY <2>3, QuietKeeps
  <1> QED BY <1>1, <1>2

LEMMA SendKeeps ==
    ASSUME IInv, TypeOK', NEW p \in Processes, Send(p) \/ SendNowhere(p) \/ SendFails(p)
    PROVE  IInv'
  <1>0. TypeOK /\ Is(p, "sending") /\ job[p].stage = "sending" /\ UNCHANGED handled
    BY DEF IInv, Send, SendNowhere, SendFails, Is, Notices
  <1>1. CASE UNCHANGED <<received, twice, excused>> /\ Sent(p, FALSE)
    <2>1. Quiet(p)
      BY <1>0, <1>1, SentType DEF Quiet, Owes, Fresh
    <2> QED BY <2>1, QuietKeeps
  <1>2. CASE /\ Deliver(p) /\ \E ok \in BOOLEAN : Sent(p, ok)
             /\ ~excused' => ~excused /\ Sent(p, TRUE)
    <2>1. received' = received \cup {X(job[p])}
      BY <1>2 DEF Deliver, X
    <2>2. /\ job'[p].stage = "recording" /\ X(job'[p]) = X(job[p])
          /\ \A q \in Processes : q # p => job'[q] = job[q]
      BY <1>0, <1>2, SentType DEF X
    <2>3. Sound'
      <3>1. RecordedWasTold'
        BY <1>0, <2>1 DEF IInv, Sound, RecordedWasTold
      <3>2. ASSUME NEW q \in Processes, Owes(job'[q])
            PROVE  X(job'[q]) \in received'
        BY <2>1, <2>2, <3>2 DEF IInv, Sound, SentIfOk
      <3> QED BY <3>1, <3>2 DEF Sound, SentIfOk
    <2>4. ASSUME ~excused' PROVE Orderly'
      <3>0. Orderly /\ job'[p].ok /\ Owes(job'[p])
        BY <1>0, <1>2, <2>2, <2>4, SentType DEF IInv, Owes
      <3>1. Alone'
        BY <1>0, <2>2, <3>0 DEF Orderly, Alone
      <3>2. \A q \in Processes : ~Owes(job[q])
        BY <1>0, <3>0 DEF Orderly, Alone, Owes
      <3>3. received \subseteq handled
        BY <3>0, <3>2 DEF Orderly, Accounted
      <3>4. Accounted'
        <4>1. ASSUME NEW x \in received'
              PROVE  x \in handled' \/ \E q \in Processes : Owes(job'[q]) /\ x = X(job'[q])
          <5>1. CASE x \in received
            BY <1>0, <3>3, <5>1
          <5>2. CASE x = X(job[p])
            BY <2>2, <3>0, <5>2
          <5> QED BY <2>1, <4>1, <5>1, <5>2
        <4> QED BY <4>1 DEF Accounted, Owes, X
      <3>5. twice' = {}
        <4>1. job[p].op # "resend" => X(job[p]) \notin received
          BY <1>0, <3>0, <3>3 DEF Orderly, Fresh
        <4> QED BY <1>2, <3>0, <4>1 DEF Deliver, Orderly, X
      <3>6. ASSUME NEW q \in Processes PROVE Fresh(job[q])'
        <4>1. CASE q = p
          BY <2>2, <4>1 DEF Fresh
        <4>2. CASE q # p
          BY <1>0, <2>2, <3>0, <4>2 DEF Orderly, Fresh, X
        <4> QED BY <4>1, <4>2
      <3> QED BY <3>1, <3>4, <3>5, <3>6 DEF Orderly
    <2> QED BY <2>3, <2>4 DEF IInv
  <1>3. CASE Send(p)
    BY <1>2, <1>3 DEF Send
  <1>4. CASE SendNowhere(p)
    BY <1>1, <1>4 DEF SendNowhere, Outside
  <1>5. CASE SendFails(p)
    BY <1>1, <1>2, <1>5 DEF SendFails
  <1> QED
    BY <1>3, <1>4, <1>5

LEMMA RecordKeeps ==
    ASSUME IInv, TypeOK', NEW p \in Processes, Record(p)
    PROVE  IInv'
  <1>0. /\ TypeOK /\ job[p].stage = "recording"
        /\ UNCHANGED <<received, twice, excused>>
    BY DEF IInv, Record, Is, Outside
  <1>1. /\ job'[p].stage \in {"idle", "next"}
        /\ \A q \in Processes : q # p => job'[q] = job[q]
    BY <1>0, EndsType DEF Record
  <1>2. handled' = IF job[p].ok THEN handled \cup {X(job[p])} ELSE handled
    BY DEF Record, X
  <1>3. Sound'
    <2>1. RecordedWasTold'
      BY <1>0, <1>2 DEF IInv, Sound, SentIfOk, Owes, RecordedWasTold
    <2>2. ASSUME NEW q \in Processes, Owes(job'[q])
          PROVE  X(job'[q]) \in received'
      BY <1>0, <1>1, <2>2 DEF IInv, Sound, SentIfOk, Owes
    <2> QED BY <2>1, <2>2 DEF Sound, SentIfOk
  <1>4. ASSUME ~excused' PROVE Orderly'
    <2>0. Orderly
      BY <1>0, <1>4 DEF IInv
    <2>1. Alone'
      BY <1>0, <1>1, <2>0 DEF Orderly, Alone
    <2>2. Accounted'
      <3>1. received \subseteq handled'
        BY <1>0, <1>2, <2>0 DEF Orderly, Accounted, Alone, Owes
      <3> QED BY <1>0, <3>1 DEF Accounted
    <2>3. ASSUME NEW q \in Processes PROVE Fresh(job[q])'
      <3>1. CASE q = p
        BY <1>1, <3>1 DEF Fresh
      <3>2. CASE q # p
        BY <1>0, <1>1, <2>0, <3>2 DEF Orderly, Alone, Fresh
      <3> QED BY <3>1, <3>2
    <2> QED BY <1>0, <2>0, <2>1, <2>2, <2>3 DEF Orderly
  <1> QED BY <1>3, <1>4 DEF IInv

LEMMA StillKeeps ==
    ASSUME IInv, TypeOK', UNCHANGED <<handled, received, twice, job, excused>>
    PROVE  IInv'
  BY DEF IInv, Sound, RecordedWasTold, SentIfOk, Orderly, Alone, Accounted, Owes, X, Fresh

LEMMA CrashKeeps ==
    ASSUME IInv, TypeOK', Crash
    PROVE  IInv'
  <1>1. /\ UNCHANGED <<handled, received, twice>>
        /\ \A q \in Processes : job'[q] = Idle
        /\ ~excused' => ~excused /\ \A q \in Processes : ~Owes(job[q])
    BY DEF Crash, Notices, Outside, Owes, Is
  <1>2. \A q \in Processes : job'[q].stage = "idle"
    BY <1>1, IdleFits
  <1>3. Sound'
    BY <1>1, <1>2 DEF IInv, Sound, RecordedWasTold, SentIfOk, Owes
  <1>4. ASSUME ~excused' PROVE Orderly'
    BY <1>1, <1>2, <1>4 DEF IInv, Orderly, Alone, Accounted, Owes, Fresh
  <1> QED BY <1>3, <1>4 DEF IInv

LEMMA InvHolds == Spec => []IInv
  <1>1. Init => Sound /\ (~excused => Orderly)
    <2> SUFFICES ASSUME Init PROVE Sound /\ Orderly
      OBVIOUS
    <2>1. \A q \in Processes : job[q] = Idle
      BY DEF Init
    <2> QED
      BY <2>1, IdleFits DEF Init, Sound, RecordedWasTold, SentIfOk, Owes, Orderly, Alone,
         Accounted, Fresh
  <1>2. IInv /\ TypeOK' /\ [Next]_vars => IInv'
    <2> SUFFICES ASSUME IInv, TypeOK', [Next]_vars PROVE IInv'
      OBVIOUS
    <2>1. CASE UNCHANGED vars
      BY <2>1, StillKeeps DEF vars
    <2>2. CASE External
      <3>1. UNCHANGED <<handled, received, twice, job, excused>>
        BY <2>2 DEF External, Sync, Revoke, EndStay, Appear, CoolDown, Notices, Outside, Rows
      <3> QED BY <3>1, StillKeeps
    <2>3. CASE Crash
      BY <2>3, CrashKeeps
    <2>4. ASSUME NEW p \in Processes,
                 \/ SweepStart(p) \/ Proceed(p) \/ SendFails(p) \/ Fault(p)
          PROVE  IInv'
      <3>1. CASE Unsync(p) \/ Push(p)
        <4>1. Fits(job[p]) /\ job[p].stage \notin {"idle", "next"}
          BY <3>1, TypeGives DEF IInv, Unsync, Push, Is
        <4>2. job[p].stay \in Stays
          BY <4>1 DEF Fits
        <4> QED BY <3>1, <4>2, SupervisorKeeps
      <3> QED BY <2>4, <3>1, ProcessKeeps, SendKeeps, RecordKeeps DEF Proceed
    <2>5. ASSUME NEW p \in Processes, NEW s \in Stays, Renew(p, s) \/ Resend(p, s)
          PROVE  IInv'
      BY <2>5, SupervisorKeeps
    <2> QED BY <2>1, <2>2, <2>3, <2>4, <2>5 DEF Next, External
  <1>3. Init => IInv
    BY <1>1, InitTypes DEF IInv
  <1> QED BY <1>2, <1>3, TypeCorrect, PTL DEF Spec

\* A PIN whose notice is recorded as sent (guest_pin_notice, status "sent") was
\* sent to the guest, whatever was renewed, failed or restarted meanwhile.
THEOREM RecordedWasSent == Spec => []RecordedWasTold
  <1>1. IInv => RecordedWasTold
    BY DEF IInv, Sound
  <1> QED BY <1>1, InvHolds, PTL

\* As long as notices did not overlap and no record was lost, no PIN was told
\* again without the supervisor asking: alreadyHandled() is enough.
THEOREM NeverTwice == Spec => []ToldOnce
  <1>1. IInv => ToldOnce
    BY DEF IInv, Orderly, ToldOnce
  <1> QED BY <1>1, InvHolds, PTL
=============================================================================
