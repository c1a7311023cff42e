-------------------------- MODULE AppSessionsProofs --------------------------
(***************************************************************************)
(* For any number of sessions and overlapping requests, and any failures:  *)
(* open sessions are kept, a password change reaches every device, and     *)
(* what was forgotten stays forgotten.                                     *)
(***************************************************************************)
EXTENDS AppSessions, TLAPS

----------------------------------------------------------------------------
(* Types.                                                                  *)

LEMMA AtType ==
    ASSUME NEW stage \in {"idle", "waiting", "storing", "caching", "saving",
                          "closing", "pinging", "deleting"},
           NEW op \in {"none", "login", "touch", "logout", "change", "keep", "purge"},
           NEW s \in Sessions \cup {NoSession},
           NEW todo \in SUBSET Sessions, NEW found \in SUBSET Sessions,
           NEW owed \in SUBSET Sessions
    PROVE  /\ At(stage, op, s, todo, found, owed) \in Job
           /\ At(stage, op, s, todo, found, owed).stage = stage
           /\ At(stage, op, s, todo, found, owed).op = op
           /\ At(stage, op, s, todo, found, owed).sess = s
           /\ At(stage, op, s, todo, found, owed).todo = todo
           /\ At(stage, op, s, todo, found, owed).found = found
           /\ At(stage, op, s, todo, found, owed).owed = owed
  BY DEF At, Job

LEMMA IdleType ==
    /\ Idle \in Job /\ Idle.stage = "idle" /\ Idle.op = "none"
    /\ Idle.sess = NoSession /\ Idle.todo = {} /\ Idle.found = {} /\ Idle.owed = {}
  BY DEF Idle, At, Job

LEMMA JobType ==
    ASSUME TypeOK, NEW p \in Processes
    PROVE  /\ job[p] \in Job
           /\ job[p].sess \in Sessions \cup {NoSession}
           /\ job[p].todo \subseteq Sessions /\ job[p].found \subseteq Sessions
           /\ job[p].owed \subseteq Sessions
           /\ job[p].stage \in {"storing", "caching", "saving"} \/ job[p].op = "touch"
                => job[p].sess \in Sessions
  BY DEF TypeOK, Job

\* A job that moves on, or that has asked about one more session.
LEMMA StageType ==
    ASSUME NEW j \in Job,
           NEW stage \in {"caching", "saving", "deleting"}
    PROVE  /\ [j EXCEPT !.stage = stage] \in Job
           /\ [j EXCEPT !.stage = stage].stage = stage
           /\ [j EXCEPT !.stage = stage].op = j.op
           /\ [j EXCEPT !.stage = stage].sess = j.sess
           /\ [j EXCEPT !.stage = stage].found = j.found
           /\ [j EXCEPT !.stage = stage].owed = j.owed
           /\ [j EXCEPT !.stage = stage].todo = j.todo
  BY DEF Job

LEMMA TodoType ==
    ASSUME NEW j \in Job, NEW s
    PROVE  /\ [j EXCEPT !.todo = @ \ {s}] \in Job
           /\ [j EXCEPT !.todo = @ \ {s}].stage = j.stage
           /\ [j EXCEPT !.todo = @ \ {s}].op = j.op
           /\ [j EXCEPT !.todo = @ \ {s}].sess = j.sess
           /\ [j EXCEPT !.todo = @ \ {s}].found = j.found
           /\ [j EXCEPT !.todo = @ \ {s}].owed = j.owed
           /\ [j EXCEPT !.todo = @ \ {s}].todo = j.todo \ {s}
  BY DEF Job

\* What TypeOK asks of a job.
Fits(j) ==
    /\ j \in Job
    /\ j.stage \in {"storing", "caching", "saving"} \/ j.op = "touch" => j.sess \in Sessions
    /\ j.stage = "deleting" => j.found # {}

LEMMA IdleFits == Fits(Idle)
  BY IdleType DEF Fits

LEMMA GoesType ==
    ASSUME TypeOK, NEW p \in Processes, NEW j, Fits(j), Goes(p, j)
    PROVE  /\ job' \in [Processes -> Job]
           /\ \A q \in Processes : Fits(job'[q])
           /\ job'[p] = j
           /\ \A q \in Processes : q # p => job'[q] = job[q]
  BY DEF TypeOK, Goes, Fits, Is

LEMMA SpendType ==
    ASSUME TypeOK, NEW operation, Spend(operation)
    PROVE  ops' \in 0..MaxOps
  BY MaxOpsAssumption DEF TypeOK, Spend

\* TypeOK of the next state, part by part.
LEMMA TypeParts ==
    ASSUME openmaint' \in [Sessions -> {"none", "open", "closed"}],
           client' \in [Sessions -> Client],
           rows' \in [Sessions -> Entry], cache' \in [Sessions -> Entry],
           load' \in {"boot", "off", "reading", "on"},
           snapshot' \in [Sessions -> Entry], readable' \subseteq Sessions,
           job' \in [Processes -> Job], \A q \in Processes : Fits(job'[q]),
           unclosed' \subseteq Sessions, ended' \subseteq Sessions,
           erased' \subseteq Sessions, ops' \in 0..MaxOps
    PROVE  TypeOK'
  BY DEF TypeOK, Fits, Is

LEMMA TypeGives ==
    ASSUME TypeOK
    PROVE  /\ openmaint \in [Sessions -> {"none", "open", "closed"}]
           /\ client \in [Sessions -> Client]
           /\ rows \in [Sessions -> Entry] /\ cache \in [Sessions -> Entry]
           /\ load \in {"boot", "off", "reading", "on"}
           /\ snapshot \in [Sessions -> Entry] /\ readable \subseteq Sessions
           /\ job \in [Processes -> Job] /\ \A q \in Processes : Fits(job[q])
           /\ unclosed \subseteq Sessions /\ ended \subseteq Sessions
           /\ erased \subseteq Sessions /\ ops \in 0..MaxOps
  BY DEF TypeOK, Fits, Is

----------------------------------------------------------------------------
(* Types, action by action.                                                *)

LEMMA InitTypes == Init => TypeOK
  <1>1. ASSUME Init
        PROVE  /\ openmaint \in [Sessions -> {"none", "open", "closed"}]
               /\ client \in [Sessions -> Client]
               /\ rows \in [Sessions -> Entry] /\ cache \in [Sessions -> Entry]
               /\ snapshot \in [Sessions -> Entry] /\ readable \subseteq Sessions
               /\ ops \in 0..MaxOps
    BY <1>1, MaxOpsAssumption DEF Init, Client, Entry
  <1>2. ASSUME Init
        PROVE  job \in [Processes -> Job] /\ \A q \in Processes : Fits(job[q])
    BY <1>2, IdleFits, IdleType DEF Init
  <1>3. Init => /\ load \in {"boot", "off", "reading", "on"}
                /\ unclosed \subseteq Sessions /\ ended \subseteq Sessions
                /\ erased \subseteq Sessions
    BY DEF Init
  <1>. QED
    BY <1>1, <1>2, <1>3 DEF TypeOK, Fits, Is

LEMMA LoadingTypes ==
    ASSUME TypeOK, Loading \/ BootFails \/ LoadFails \/ Crash \/ Rotate
    PROVE  TypeOK'
  <1>. USE TypeGives
  <1>1. [s \in Sessions |-> "none"] \in [Sessions -> Entry]
    BY DEF Entry
  <1>2. CASE Boot
    BY <1>2, TypeParts DEF Boot, Outside, History
  <1>3. CASE LoadRead
    BY <1>3, TypeParts DEF LoadRead, Outside, History
  <1>4. CASE LoadApply
    BY <1>1, <1>4, TypeParts DEF LoadApply, Outside, History
  <1>5. CASE BootFails
    <2>1. ops' \in 0..MaxOps
      BY <1>5, SpendType DEF BootFails
    <2>. QED
      BY <1>5, <2>1, TypeParts DEF BootFails, Outside, History
  <1>6. CASE LoadFails
    <2>1. ops' \in 0..MaxOps
      BY <1>6, SpendType DEF LoadFails
    <2>2. job' \in [Processes -> Job] /\ \A q \in Processes : Fits(job'[q])
      BY <1>6, IdleFits, IdleType DEF LoadFails
    <2>. QED
      BY <1>1, <1>6, <2>1, <2>2, TypeParts DEF LoadFails, Outside, History
  <1>7. ASSUME NEW operation, NEW still \in SUBSET Sessions, Restart(operation, still)
        PROVE  TypeOK'
    <2>1. ops' \in 0..MaxOps
      BY <1>7, SpendType DEF Restart
    <2>2. job' \in [Processes -> Job] /\ \A q \in Processes : Fits(job'[q])
      BY <1>7, IdleFits, IdleType DEF Restart
    <2>. QED
      BY <1>1, <1>7, <2>1, <2>2, TypeParts DEF Restart, Outside, History
  <1>8. CASE Crash \/ Rotate
    BY <1>7, <1>8 DEF Crash, Rotate
  <1>. QED
    BY <1>2, <1>3, <1>4, <1>5, <1>6, <1>8 DEF Loading

\* Steps that write nothing but the job.
LEMMA JobOnlyTypes ==
    ASSUME TypeOK, NEW p \in Processes, NEW j, Fits(j), Goes(p, j),
           ended' \subseteq Sessions, ops' \in 0..MaxOps,
           UNCHANGED <<Outside, rows, Memory, readable, unclosed, erased>>
    PROVE  TypeOK'
  BY TypeGives, GoesType, TypeParts DEF Outside, Memory

LEMMA RequestTypes ==
    ASSUME TypeOK, NEW p \in Processes,
           Request(p) \/ \E op \in {"keep", "purge"} : CronStart(p, op)
    PROVE  TypeOK'
  <1>1. ASSUME NEW s \in Sessions, Login(p, s)
        PROVE  TypeOK'
    <2>1. Fits(At("storing", "login", s, {}, {}, {}))
      BY AtType DEF Fits
    <2>. QED
      BY <1>1, <2>1, GoesType, TypeGives, TypeParts DEF Login, Memory, History
  <1>2. ASSUME NEW s \in Sessions, TouchStart(p, s)
        PROVE  TypeOK'
    <2>1. Fits(At("waiting", "touch", s, {}, {}, {}))
      BY AtType DEF Fits
    <2>. QED
      BY <1>2, <2>1, JobOnlyTypes, TypeGives DEF TouchStart, History
  <1>3. ASSUME NEW s \in Sessions, Logout(p, s)
        PROVE  TypeOK'
    <2>1. Fits(At("closing", "logout", s, {s}, {s}, {}))
      BY AtType DEF Fits
    <2>2. client' \in [Sessions -> Client]
      BY <1>3, TypeGives DEF Logout, Client
    <2>. QED
      BY <1>3, <2>1, <2>2, GoesType, TypeGives, TypeParts DEF Logout, Memory, History
  <1>4. ASSUME NEW keep \in Sessions \cup {NoSession}, ChangeStart(p, keep)
        PROVE  TypeOK'
    <2>1. Fits(At("waiting", "change", keep, {}, {}, {}))
      BY AtType DEF Fits
    <2>. QED
      BY <1>4, <2>1, JobOnlyTypes, TypeGives DEF ChangeStart, History
  <1>5. ASSUME NEW op \in {"keep", "purge"}, CronStart(p, op)
        PROVE  TypeOK'
    <2>1. Fits(At("waiting", op, NoSession, {}, {}, {}))
      BY AtType DEF Fits
    <2>. QED
      BY <1>5, <2>1, JobOnlyTypes, TypeGives DEF CronStart, History
  <1>. QED
    BY <1>1, <1>2, <1>3, <1>4, <1>5, Zenon DEF Request

LEMMA RegisterTypes ==
    ASSUME TypeOK, NEW p \in Processes,
           Store(p) \/ StoreFails(p) \/ Cache(p) \/ Touch(p) \/ SaveTouch(p) \/ SaveTouchFails(p)
    PROVE  TypeOK'
  <1>. USE TypeGives, JobType
  <1>1. CASE Store(p)
    <2>1. Fits([job[p] EXCEPT !.stage = "caching"])
      BY <1>1, StageType DEF Fits, Store, Is
    <2>2. rows' \in [Sessions -> Entry]
      BY <1>1 DEF Store, Entry
    <2>. QED
      BY <1>1, <2>1, <2>2, GoesType, TypeParts DEF Store, Outside, Memory, History
  <1>2. CASE StoreFails(p)
    <2>1. rows' \in [Sessions -> Entry] /\ client' \in [Sessions -> Client]
      BY <1>2 DEF StoreFails, Entry, Client, Is
    <2>2. ops' \in 0..MaxOps
      BY <1>2, SpendType DEF StoreFails
    <2>. QED
      BY <1>2, <2>1, <2>2, IdleFits, GoesType, TypeParts DEF StoreFails, Memory, History
  <1>3. CASE Cache(p)
    <2>1. cache' \in [Sessions -> Entry] /\ client' \in [Sessions -> Client]
      BY <1>3 DEF Cache, Entry, Client
    <2>. QED
      BY <1>3, <2>1, IdleFits, GoesType, TypeParts DEF Cache, Memory, History
  <1>4. CASE Touch(p)
    <2>1. cache' \in [Sessions -> Entry]
      BY <1>4 DEF Touch, Entry
    <2>2. CASE Goes(p, Idle)
      BY <1>4, <2>1, <2>2, IdleFits, GoesType, TypeParts DEF Touch, Outside, History
    <2>3. CASE Goes(p, [job[p] EXCEPT !.stage = "saving"]) /\ cache[job[p].sess] # "none"
      <3>1. job[p].sess \in Sessions
        BY <1>4, JobType DEF Touch
      <3>2. Fits([job[p] EXCEPT !.stage = "saving"])
        BY <3>1, StageType DEF Fits
      <3>. QED
        BY <1>4, <2>1, <2>3, <3>2, GoesType, TypeParts DEF Touch, Outside, History
    <2>. QED
      BY <1>4, <2>2, <2>3 DEF Touch
  <1>5. CASE SaveTouch(p)
    <2>1. rows' \in [Sessions -> Entry]
      BY <1>5 DEF SaveTouch, Entry
    <2>. QED
      BY <1>5, <2>1, IdleFits, GoesType, TypeParts DEF SaveTouch, Outside, Memory, History
  <1>6. CASE SaveTouchFails(p)
    <2>1. ops' \in 0..MaxOps
      BY <1>6, SpendType DEF SaveTouchFails
    <2>. QED
      BY <1>6, <2>1, IdleFits, JobOnlyTypes, TypeGives DEF SaveTouchFails, History
  <1>. QED
    BY <1>1, <1>2, <1>3, <1>4, <1>5, <1>6

LEMMA CronTypes ==
    ASSUME TypeOK, NEW p \in Processes,
           \/ Change(p) \/ Keep(p) \/ Purge(p)
           \/ \E s \in Sessions : Ping(p, s) \/ PingDown(p, s)
    PROVE  TypeOK'
  <1>1. CASE Change(p)
    <2>. DEFINE keep == job[p].sess
                others == {s \in Sessions : cache[s] # "none" /\ s # keep}
                owed == Registered \ {keep}
    <2>1. owed \subseteq Sessions /\ others \subseteq Sessions
      BY DEF Registered
    <2>2. ended' \subseteq Sessions
      BY <1>1, <2>1, TypeGives, JobType DEF Change
    <2>3. Fits(At("closing", "change", keep, others, others, owed))
      BY JobType, <2>1, AtType DEF Fits
    <2>4. CASE Goes(p, Idle)
      BY <1>1, <2>2, <2>4, IdleFits, JobOnlyTypes, TypeGives, JobType DEF Change
    <2>5. CASE Goes(p, At("closing", "change", keep, others, others, owed))
      BY <1>1, <2>2, <2>3, <2>5, JobOnlyTypes, TypeGives, JobType DEF Change
    <2>. QED
      BY <1>1, <2>4, <2>5, TypeGives, JobType DEF Change
  <1>2. CASE Keep(p)
    <2>. DEFINE due == {s \in Remembered : cache[s] = "fresh"}
    <2>1. Fits(At("pinging", "keep", NoSession, due, {}, {}))
      <3>1. due \in SUBSET Sessions
        BY RememberedAssumption
      <3>2. At("pinging", "keep", NoSession, due, {}, {}) \in Job
            /\ At("pinging", "keep", NoSession, due, {}, {}).stage = "pinging"
            /\ At("pinging", "keep", NoSession, due, {}, {}).op = "keep"
        BY <3>1 DEF At, Job
      <3>. QED
        BY <3>2 DEF Fits
    <2>2. CASE Goes(p, Idle)
      BY <1>2, <2>2, IdleFits, JobOnlyTypes, TypeGives, JobType DEF Keep, History
    <2>3. CASE Goes(p, At("pinging", "keep", NoSession, due, {}, {}))
      BY <1>2, <2>1, <2>3, JobOnlyTypes, TypeGives, JobType DEF Keep, History
    <2>. QED
      BY <1>2, <2>2, <2>3, TypeGives, JobType DEF Keep
  <1>3. CASE Purge(p)
    <2>. DEFINE expired == {s \in Sessions : cache[s] = "expired"}
    <2>1. Fits(At("closing", "purge", NoSession, expired, expired, {}))
      BY JobType, AtType DEF Fits
    <2>2. CASE Goes(p, Idle)
      BY <1>3, <2>2, IdleFits, JobOnlyTypes, TypeGives, JobType DEF Purge, History
    <2>3. CASE Goes(p, At("closing", "purge", NoSession, expired, expired, {}))
      BY <1>3, <2>1, <2>3, JobOnlyTypes, TypeGives, JobType DEF Purge, History
    <2>. QED
      BY <1>3, <2>2, <2>3, TypeGives, JobType DEF Purge
  <1>4. ASSUME NEW s \in Sessions, Ping(p, s)
        PROVE  TypeOK'
    <2>1. ASSUME NEW found \in SUBSET Sessions
          PROVE  Fits(At("pinging", "keep", NoSession, job[p].todo \ {s}, found, {}))
      <3>1. job[p].todo \ {s} \in SUBSET Sessions /\ job[p].found \in SUBSET Sessions
        BY JobType
      <3>2. /\ At("pinging", "keep", NoSession, job[p].todo \ {s}, found, {}) \in Job
            /\ At("pinging", "keep", NoSession, job[p].todo \ {s}, found, {}).stage = "pinging"
            /\ At("pinging", "keep", NoSession, job[p].todo \ {s}, found, {}).op = "keep"
        BY <3>1 DEF At, Job
      <3>. QED
        BY <3>2 DEF Fits
    <2>2. PICK found \in SUBSET Sessions :
            Goes(p, At("pinging", "keep", NoSession, job[p].todo \ {s}, found, {}))
      BY <1>4, TypeGives, JobType DEF Ping
    <2>3. unclosed' \subseteq Sessions
      BY <1>4, TypeGives, JobType DEF Ping
    <2>. QED
      BY <1>4, <2>1, <2>2, <2>3, GoesType, TypeParts, TypeGives, JobType DEF Ping, Outside, Memory
  <1>5. ASSUME NEW s \in Sessions, PingDown(p, s)
        PROVE  TypeOK'
    <2>1. Fits(At("pinging", "keep", NoSession, job[p].todo \ {s}, job[p].found, {}))
      <3>1. job[p].todo \ {s} \in SUBSET Sessions /\ job[p].found \in SUBSET Sessions
        BY JobType
      <3>2. /\ At("pinging", "keep", NoSession, job[p].todo \ {s}, job[p].found, {}) \in Job
            /\ At("pinging", "keep", NoSession, job[p].todo \ {s}, job[p].found, {}).stage = "pinging"
            /\ At("pinging", "keep", NoSession, job[p].todo \ {s}, job[p].found, {}).op = "keep"
        BY <3>1 DEF At, Job
      <3>. QED
        BY <3>2 DEF Fits
    <2>2. ops' \in 0..MaxOps
      BY <1>5, SpendType, TypeGives, JobType DEF PingDown
    <2>. QED
      BY <1>5, <2>1, <2>2, JobOnlyTypes, TypeGives, JobType DEF PingDown, History
  <1>. QED
    BY <1>1, <1>2, <1>3, <1>4, <1>5

LEMMA ForgetTypes ==
    ASSUME TypeOK, NEW p \in Processes,
           \/ Forget(p) \/ Delete(p) \/ DeleteFails(p)
           \/ \E s \in Sessions : Close(p, s) \/ CloseDown(p, s)
    PROVE  TypeOK'
  <1>1. CASE Forget(p)
    <2>1. cache' \in [Sessions -> Entry]
      BY <1>1, TypeGives, JobType DEF Forget, Without, Entry
    <2>2. CASE Goes(p, Idle)
      BY <1>1, <2>1, <2>2, IdleFits, GoesType, TypeParts, TypeGives, JobType DEF Forget, Outside, History
    <2>3. CASE job[p].found # {} /\ Goes(p, [job[p] EXCEPT !.stage = "deleting"])
      <3>1. Fits([job[p] EXCEPT !.stage = "deleting"])
        <4>1. job[p] \in Job /\ (job[p].op = "touch" => job[p].sess \in Sessions)
          BY JobType
        <4>. DEFINE j == [job[p] EXCEPT !.stage = "deleting"]
        <4>2. j \in Job /\ j.stage = "deleting" /\ j.op = job[p].op
              /\ j.sess = job[p].sess /\ j.found = job[p].found
          BY <4>1, StageType
        <4>. QED
          BY <2>3, <4>1, <4>2 DEF Fits
      <3>. QED
        BY <1>1, <2>1, <2>3, <3>1, GoesType, TypeParts, TypeGives, JobType DEF Forget, Outside, History
    <2>. QED
      BY <1>1, <2>2, <2>3, TypeGives, JobType DEF Forget
  <1>2. CASE Delete(p)
    <2>1. rows' \in [Sessions -> Entry]
      BY <1>2, TypeGives, JobType DEF Delete, Without, Entry
    <2>2. ended' \subseteq Sessions /\ erased' \subseteq Sessions
      BY <1>2, TypeGives, JobType DEF Delete
    <2>. QED
      BY <1>2, <2>1, <2>2, IdleFits, GoesType, TypeParts, TypeGives, JobType DEF Delete, Outside, Memory
  <1>3. CASE DeleteFails(p)
    <2>1. ops' \in 0..MaxOps
      BY <1>3, SpendType, TypeGives, JobType DEF DeleteFails
    <2>. QED
      BY <1>3, <2>1, IdleFits, JobOnlyTypes, TypeGives, JobType DEF DeleteFails, History
  <1>4. ASSUME NEW s \in Sessions, Close(p, s)
        PROVE  TypeOK'
    <2>1. Fits([job[p] EXCEPT !.todo = @ \ {s}])
      BY JobType, <1>4, TodoType DEF Close, Is, Fits
    <2>2. openmaint' \in [Sessions -> {"none", "open", "closed"}] /\ unclosed' \subseteq Sessions
      BY <1>4, TypeGives, JobType DEF Close
    <2>. QED
      BY <1>4, <2>1, <2>2, GoesType, TypeParts, TypeGives, JobType DEF Close, Memory
  <1>5. ASSUME NEW s \in Sessions, CloseDown(p, s)
        PROVE  TypeOK'
    <2>1. Fits([job[p] EXCEPT !.todo = @ \ {s}])
      BY JobType, <1>5, TodoType DEF CloseDown, Is, Fits
    <2>2. ops' \in 0..MaxOps /\ unclosed' \subseteq Sessions
      BY <1>5, SpendType, TypeGives, JobType DEF CloseDown
    <2>. QED
      BY <1>5, <2>1, <2>2, GoesType, TypeParts, TypeGives, JobType DEF CloseDown, Outside, Memory
  <1>. QED
    BY <1>1, <1>2, <1>3, <1>4, <1>5

LEMMA ClockTypes ==
    ASSUME TypeOK, NEW s \in Sessions, Drop(s) \/ ExpireRow(s) \/ ExpireEntry(s)
    PROVE  TypeOK'
  <1>. USE TypeGives
  <1>1. CASE Drop(s)
    <2>1. openmaint' \in [Sessions -> {"none", "open", "closed"}]
      BY <1>1 DEF Drop
    <2>. QED
      BY <1>1, <2>1, TypeParts DEF Drop, Memory, History
  <1>2. CASE ExpireRow(s)
    <2>1. rows' \in [Sessions -> Entry] /\ snapshot' \in [Sessions -> Entry]
      BY <1>2 DEF ExpireRow, Entry
    <2>. QED
      BY <1>2, <2>1, TypeParts DEF ExpireRow, Outside, History
  <1>3. CASE ExpireEntry(s)
    <2>1. cache' \in [Sessions -> Entry]
      BY <1>3 DEF ExpireEntry, Entry
    <2>. QED
      BY <1>3, <2>1, TypeParts DEF ExpireEntry, Outside, History
  <1>. QED
    BY <1>1, <1>2, <1>3

LEMMA NextTypes == TypeOK /\ [Next]_vars => TypeOK'
  <1>. SUFFICES ASSUME TypeOK, [Next]_vars PROVE TypeOK'
    OBVIOUS
  <1>1. ASSUME NEW p \in Processes, Proceed(p) \/ Fails(p)
        PROVE  TypeOK'
    <2>1. CASE Proceed(p)
      BY <2>1, RegisterTypes, CronTypes, ForgetTypes DEF Proceed
    <2>2. CASE Fails(p)
      BY <2>2, RegisterTypes, CronTypes, ForgetTypes DEF Fails
    <2>. QED
      BY <1>1, <2>1, <2>2
  <1>2. CASE UNCHANGED vars
    BY <1>2 DEF vars, TypeOK, Is
  <1>. QED
    BY <1>1, <1>2, LoadingTypes, RequestTypes, ClockTypes DEF Next, Environment

\* Every state has its types, however many sessions, requests and failures.
THEOREM TypeCorrect == Spec => []TypeOK
  <1>. QED
    BY InitTypes, NextTypes, PTL DEF Spec

----------------------------------------------------------------------------
(* The inductive invariant.                                                *)

\* Nothing keeps it alive: openMAINT closed it, or could not be asked to.
Dead(s) == openmaint[s] = "closed" \/ s \in unclosed

LoggingIn(p) == job[p].stage \in {"storing", "caching"}

\* OpenIsKept, and its counterpart for a load under way.
Kept ==
    \A s \in Sessions :
      client[s] = "registered" /\ ~Dead(s)
        => /\ rows[s] # "none"
           /\ load = "on" => cache[s] # "none"
           /\ load = "reading" => cache[s] # "none" \/ snapshot[s] # "none"

Issued == \A s \in Sessions : client[s] # "none" => openmaint[s] # "none"

NoOldAnswer == load # "reading" => \A s \in Sessions : snapshot[s] = "none"

ErasedGone ==
    \A s \in erased : /\ cache[s] = "none" /\ rows[s] = "none" /\ snapshot[s] = "none"
                      /\ client[s] # "none"

\* One login per session, whose row is there once it is stored; what a process
\* forgets it has asked openMAINT about; what a change owes it forgets.
OneLogin ==
    \A p, q \in Processes :
      LoggingIn(p) /\ LoggingIn(q) /\ job[p].sess = job[q].sess => p = q

Coherent(p) ==
    /\ LoggingIn(p) => /\ openmaint[job[p].sess] # "none"
                       /\ client[job[p].sess] = "none"
    /\ job[p].stage = "caching" => rows[job[p].sess] # "none" \/ Dead(job[p].sess)
    /\ \A s \in job[p].found : (job[p].stage = "closing" /\ s \in job[p].todo) \/ Dead(s)
    /\ \A s \in job[p].owed : s \in job[p].found \/ Dead(s)

Tables == Kept /\ Issued /\ NoOldAnswer /\ ErasedGone /\ \A s \in ended : Dead(s)
Jobs == OneLogin /\ \A p \in Processes : Coherent(p)

IInv == TypeOK /\ Tables /\ Jobs

----------------------------------------------------------------------------
(* What a step of one process asks of the others.                          *)

\* A step of p that keeps what the logins of the others rely on.
LEMMA JobsStep ==
    ASSUME IInv, NEW p \in Processes,
           \A q \in Processes : q # p => job'[q] = job[q],
           \A s \in Sessions : Dead(s) => Dead(s)',
           \A s \in Sessions : openmaint[s] # "none" => openmaint'[s] # "none",
           \A q \in Processes : q # p /\ LoggingIn(q)
             => /\ client'[job[q].sess] = client[job[q].sess]
                /\ rows[job[q].sess] # "none" =>
                     rows'[job[q].sess] # "none" \/ Dead(job[q].sess)',
           LoggingIn(p)' => LoggingIn(p) /\ job'[p].sess = job[p].sess,
           Coherent(p)'
    PROVE  Jobs'
  <1>1. ASSUME NEW q \in Processes, q # p
        PROVE  Coherent(q)'
    <2>. DEFINE s == job[q].sess
    <2>1. job'[q] = job[q] /\ Coherent(q)
      BY <1>1 DEF IInv, Jobs
    <2>2. job[q].found \subseteq Sessions /\ job[q].owed \subseteq Sessions
          /\ (LoggingIn(q) => s \in Sessions)
      BY JobType DEF IInv, LoggingIn
    <2>3. LoggingIn(q)' <=> LoggingIn(q)
      BY <2>1 DEF LoggingIn
    <2>4. LoggingIn(q) => openmaint'[s] # "none" /\ client'[s] = "none"
      BY <1>1, <2>1, <2>2 DEF Coherent
    <2>5. job[q].stage = "caching" => rows'[s] # "none" \/ Dead(s)'
      BY <1>1, <2>1, <2>2 DEF Coherent, LoggingIn
    <2>6. \A x \in job[q].found : (job[q].stage = "closing" /\ x \in job[q].todo) \/ Dead(x)'
      BY <2>1, <2>2 DEF Coherent
    <2>7. \A x \in job[q].owed : x \in job[q].found \/ Dead(x)'
      BY <2>1, <2>2 DEF Coherent
    <2>. QED
      BY <2>1, <2>3, <2>4, <2>5, <2>6, <2>7 DEF Coherent, Dead
  <1>2. OneLogin'
    BY DEF IInv, Jobs, OneLogin, LoggingIn
  <1>. QED
    BY <1>1, <1>2 DEF Jobs

\* A step that writes neither openMAINT, nor the devices, nor the table.
LEMMA JobsQuiet ==
    ASSUME IInv, NEW p \in Processes, NEW j, Fits(j), Goes(p, j),
           UNCHANGED <<openmaint, client, rows, unclosed>>,
           j.stage \notin {"storing", "caching"},
           \A s \in j.found : (j.stage = "closing" /\ s \in j.todo) \/ Dead(s),
           \A s \in j.owed : s \in j.found \/ Dead(s)
    PROVE  Jobs'
  <1>1. job'[p] = j /\ \A q \in Processes : q # p => job'[q] = job[q]
    BY GoesType DEF IInv
  <1>2. \A s : Dead(s)' <=> Dead(s)
    BY DEF Dead
  <1>3. Coherent(p)' /\ ~LoggingIn(p)'
    BY <1>1, <1>2 DEF Coherent, LoggingIn, Dead
  <1>4. \A q \in Processes : q # p /\ LoggingIn(q)
          => /\ client'[job[q].sess] = client[job[q].sess]
             /\ rows[job[q].sess] # "none" => rows'[job[q].sess] # "none" \/ Dead(job[q].sess)'
    OBVIOUS
  <1>. QED
    BY <1>1, <1>2, <1>3, <1>4, JobsStep

\* A step that writes no table at all.
LEMMA TablesQuiet ==
    ASSUME IInv, UNCHANGED <<Outside, rows, Memory, History>>
    PROVE  Tables'
  BY DEF IInv, Tables, Kept, Issued, NoOldAnswer, ErasedGone, Dead, Outside, Memory, History

----------------------------------------------------------------------------
(* The invariant, action by action.                                        *)

\* Jobs that are left alone, or all idle.
LEMMA JobsRest ==
    ASSUME IInv, UNCHANGED <<openmaint, client, unclosed>>,
           \A s \in Sessions : rows[s] # "none" => rows'[s] # "none",
           job' \in [Processes -> Job],
           \A q \in Processes : job'[q] = job[q] \/ job'[q] = Idle
    PROVE  Jobs'
  <1>1. ASSUME NEW q \in Processes
        PROVE  Coherent(q)'
    <2>1. CASE job'[q] = Idle
      BY <2>1, IdleType DEF Coherent, LoggingIn
    <2>2. CASE job'[q] = job[q]
      <3>1. Coherent(q) /\ (LoggingIn(q) => job[q].sess \in Sessions)
        BY JobType DEF IInv, Jobs, LoggingIn
      <3>. QED
        BY <2>2, <3>1 DEF Coherent, LoggingIn, Dead
    <2>. QED
      BY <2>1, <2>2
  <1>2. OneLogin'
    BY IdleType DEF IInv, Jobs, OneLogin, LoggingIn
  <1>. QED
    BY <1>1, <1>2 DEF Jobs

LEMMA LoadingHolds ==
    ASSUME IInv, Loading \/ BootFails \/ LoadFails \/ Crash \/ Rotate
    PROVE  Tables' /\ Jobs'
  <1>. USE DEF IInv, Tables, Kept, Issued, NoOldAnswer, ErasedGone, Dead
  <1>1. TypeOK /\ TypeOK'
    BY LoadingTypes
  <1>2. UNCHANGED <<openmaint, client, unclosed, ended, erased, rows>>
    BY DEF Loading, Boot, LoadRead, LoadApply, BootFails, LoadFails, Crash, Rotate,
           Restart, Outside, History
  <1>3. \A q \in Processes : job'[q] = job[q] \/ job'[q] = Idle
    BY <1>1 DEF TypeOK, Loading, Boot, LoadRead, LoadApply, BootFails, LoadFails,
                Crash, Rotate, Restart
  <1>4. Jobs'
    BY <1>1, <1>2, <1>3, JobsRest DEF TypeOK
  <1>5. Issued' /\ \A s \in ended' : Dead(s)'
    BY <1>2
  <1>6. NoOldAnswer'
    BY DEF Loading, Boot, LoadRead, LoadApply, BootFails, LoadFails, Crash, Rotate, Restart
  <1>7. ErasedGone'
    <2>1. \A s \in erased : s \in Sessions
      BY <1>1 DEF TypeOK
    <2>2. \A s \in erased : cache'[s] = "none" /\ snapshot'[s] = "none"
      BY <2>1 DEF Loading, Boot, LoadRead, LoadApply, BootFails, LoadFails, Crash,
                  Rotate, Restart
    <2>. QED
      BY <1>2, <2>2
  <1>8. Kept'
    <2>1. ASSUME NEW s \in Sessions, client[s] = "registered", ~Dead(s)
          PROVE  /\ load' = "on" => cache'[s] # "none"
                 /\ load' = "reading" => cache'[s] # "none" \/ snapshot'[s] # "none"
      <3>1. rows[s] # "none"
        BY <2>1
      <3>. QED
        BY <2>1, <3>1 DEF Loading, Boot, LoadRead, LoadApply, BootFails, LoadFails,
                          Crash, Rotate, Restart
    <2>. QED
      BY <1>2, <2>1
  <1>. QED
    BY <1>4, <1>5, <1>6, <1>7, <1>8

LEMMA LoginHolds ==
    ASSUME IInv, NEW p \in Processes, NEW s \in Sessions, Login(p, s)
    PROVE  Tables' /\ Jobs'
  <1>. DEFINE j == At("storing", "login", s, {}, {}, {})
  <1>1. TypeOK /\ openmaint' = [openmaint EXCEPT ![s] = "open"] /\ openmaint[s] = "none"
        /\ UNCHANGED <<client, rows, cache, load, snapshot, unclosed, ended, erased>>
    BY DEF IInv, Login, Memory, History
  <1>2. job'[p] = j /\ (\A q \in Processes : q # p => job'[q] = job[q])
        /\ j.stage = "storing" /\ j.sess = s /\ j.found = {} /\ j.owed = {}
    BY <1>1, AtType, GoesType DEF Login, Fits
  <1>3. \A x \in Sessions : openmaint[x] # "none" => openmaint'[x] # "none"
    BY <1>1 DEF TypeOK
  <1>4. client[s] = "none" /\ openmaint'[s] = "open"
    BY <1>1 DEF IInv, Tables, Issued, TypeOK
  <1>5. Coherent(p)'
    BY <1>1, <1>2, <1>4 DEF Coherent, LoggingIn
  <1>6. \A q \in Processes : LoggingIn(q) => job[q].sess # s /\ job[q].sess \in Sessions
    BY <1>1, JobType DEF IInv, Jobs, Coherent, LoggingIn
  <1>7. ASSUME NEW q \in Processes, q # p
        PROVE  Coherent(q)'
    <2>1. Coherent(q) /\ job'[q] = job[q] /\ job[q].found \subseteq Sessions
          /\ job[q].owed \subseteq Sessions
      BY <1>1, <1>2, <1>7, JobType DEF IInv, Jobs
    <2>2. \A x \in job[q].found : (job[q].stage = "closing" /\ x \in job[q].todo) \/ Dead(x)'
      BY <1>1, <2>1 DEF Coherent, Dead, TypeOK
    <2>3. \A x \in job[q].owed : x \in job[q].found \/ Dead(x)'
      BY <1>1, <2>1 DEF Coherent, Dead, TypeOK
    <2>4. LoggingIn(q) => openmaint'[job[q].sess] # "none" /\ client[job[q].sess] = "none"
      <3>1. LoggingIn(q) => openmaint[job[q].sess] # "none" /\ client[job[q].sess] = "none"
        BY <2>1 DEF Coherent
      <3>2. LoggingIn(q) => job[q].sess \in Sessions
        BY <1>6, <1>7
      <3>. QED
        BY <1>3, <3>1, <3>2
    <2>5. job[q].stage = "caching" => rows[job[q].sess] # "none" \/ Dead(job[q].sess)'
      BY <1>1, <1>6, <2>1 DEF Coherent, LoggingIn, Dead
    <2>. QED
      BY <1>1, <2>1, <2>2, <2>3, <2>4, <2>5 DEF Coherent, LoggingIn, Dead
  <1>8. OneLogin'
    BY <1>2, <1>6 DEF IInv, Jobs, OneLogin, LoggingIn
  <1>9. Issued' /\ NoOldAnswer' /\ ErasedGone'
    BY <1>1, <1>3 DEF IInv, Tables, Issued, NoOldAnswer, ErasedGone
  <1>10. \A x \in ended' : Dead(x)'
    BY <1>1 DEF IInv, Tables, TypeOK, Dead
  <1>11. Kept'
    BY <1>1 DEF IInv, Tables, Kept, Dead, TypeOK
  <1>. QED
    BY <1>5, <1>7, <1>8, <1>9, <1>10, <1>11 DEF Tables, Jobs

LEMMA RequestHolds ==
    ASSUME IInv, NEW p \in Processes,
           Request(p) \/ \E op \in {"keep", "purge"} : CronStart(p, op)
    PROVE  Tables' /\ Jobs'
  <1>1. ASSUME NEW op \in {"touch", "change", "keep", "purge"},
               NEW s \in Sessions \cup {NoSession}, op = "touch" => s \in Sessions,
               Goes(p, At("waiting", op, s, {}, {}, {})),
               UNCHANGED <<Outside, rows, Memory, History>>
        PROVE  Tables' /\ Jobs'
    <2>. DEFINE j == At("waiting", op, s, {}, {}, {})
    <2>1. j \in Job /\ j.stage = "waiting" /\ j.op = op /\ j.sess = s
          /\ j.found = {} /\ j.owed = {}
      BY AtType
    <2>2. Fits(j)
      BY <1>1, <2>1 DEF Fits
    <2>. QED
      BY <1>1, <2>1, <2>2, JobsQuiet, TablesQuiet DEF Outside, History
  <1>2. ASSUME NEW s \in Sessions, TouchStart(p, s)
        PROVE  Tables' /\ Jobs'
    BY <1>1, <1>2 DEF TouchStart
  <1>3. ASSUME NEW s \in Sessions, Logout(p, s)
        PROVE  Tables' /\ Jobs'
    <2>. DEFINE j == At("closing", "logout", s, {s}, {s}, {})
    <2>1. TypeOK /\ client' = [client EXCEPT ![s] = "left"]
          /\ client[s] \in {"bare", "registered"}
          /\ UNCHANGED <<openmaint, rows, cache, load, snapshot, unclosed, ended, erased>>
      BY <1>3 DEF IInv, Logout, Memory, History
    <2>2. job'[p] = j /\ (\A q \in Processes : q # p => job'[q] = job[q])
          /\ j.stage = "closing" /\ j.todo = {s} /\ j.found = {s} /\ j.owed = {}
      BY <1>3, <2>1, AtType, GoesType DEF Logout, Fits
    <2>3. Coherent(p)' /\ ~LoggingIn(p)'
      BY <2>2 DEF Coherent, LoggingIn
    <2>4. \A q \in Processes : LoggingIn(q) => client'[job[q].sess] = client[job[q].sess]
      BY <2>1, JobType DEF IInv, Jobs, Coherent, LoggingIn, TypeOK
    <2>5. \A x : Dead(x) => Dead(x)'
      BY <2>1 DEF Dead
    <2>6. Jobs'
      BY <2>1, <2>2, <2>3, <2>4, <2>5, JobsStep
    <2>7. Issued' /\ NoOldAnswer' /\ ErasedGone'
      BY <2>1 DEF IInv, Tables, Issued, NoOldAnswer, ErasedGone, TypeOK
    <2>8. Kept' /\ \A x \in ended' : Dead(x)'
      BY <2>1 DEF IInv, Tables, Kept, Dead, TypeOK
    <2>. QED
      BY <2>6, <2>7, <2>8 DEF Tables
  <1>4. ASSUME NEW keep \in Sessions \cup {NoSession}, ChangeStart(p, keep)
        PROVE  Tables' /\ Jobs'
    BY <1>1, <1>4 DEF ChangeStart
  <1>5. ASSUME NEW op \in {"keep", "purge"}, CronStart(p, op)
        PROVE  Tables' /\ Jobs'
    BY <1>1, <1>5 DEF CronStart
  <1>. QED
    BY <1>2, <1>3, <1>4, <1>5, LoginHolds, Zenon DEF Request

LEMMA StoreHolds ==
    ASSUME IInv, NEW p \in Processes, Store(p) \/ StoreFails(p) \/ Cache(p)
    PROVE  Tables' /\ Jobs'
  <1>. DEFINE s == job[p].sess
  <1>1. TypeOK /\ LoggingIn(p) /\ s \in Sessions /\ job[p] \in Job
    BY JobType DEF IInv, Store, StoreFails, Cache, LoggingIn, Is
  <1>2. openmaint[s] # "none" /\ client[s] = "none" /\ s \notin erased
    BY <1>1 DEF IInv, Jobs, Coherent, Tables, ErasedGone
  <1>3. \A q \in Processes : q # p /\ LoggingIn(q) => job[q].sess # s /\ job[q].sess \in Sessions
    BY <1>1, JobType DEF IInv, Jobs, OneLogin, LoggingIn
  <1>4. UNCHANGED <<openmaint, load, snapshot, unclosed, ended, erased>>
    BY DEF Store, StoreFails, Cache, Outside, Memory, History
  <1>5. \A x : Dead(x)' <=> Dead(x)
    BY <1>4 DEF Dead
  <1>6. NoOldAnswer' /\ \A x \in ended' : Dead(x)'
    BY <1>4, <1>5 DEF IInv, Tables, NoOldAnswer
  <1>7. CASE Store(p)
    <2>. DEFINE j == [job[p] EXCEPT !.stage = "caching"]
    <2>1. rows' = [rows EXCEPT ![s] = "fresh"] /\ UNCHANGED <<client, cache>>
      BY <1>7 DEF Store, Outside, Memory
    <2>2. j \in Job /\ j.stage = "caching" /\ j.op = job[p].op /\ j.sess = s
          /\ j.found = job[p].found /\ j.owed = job[p].owed
      BY <1>1, StageType
    <2>3. Fits(j)
      BY <1>1, <2>2 DEF Fits
    <2>4. job'[p] = j /\ \A q \in Processes : q # p => job'[q] = job[q]
      BY <1>1, <1>7, <2>3, GoesType DEF Store
    <2>5. \A x \in Sessions : rows[x] # "none" => rows'[x] # "none"
      BY <1>1, <2>1 DEF TypeOK
    <2>6. rows'[s] # "none" /\ Coherent(p) /\ job[p].stage = "storing"
      BY <1>1, <1>7, <2>1 DEF TypeOK, IInv, Jobs, Store, Is
    <2>7. Coherent(p)'
      BY <1>2, <1>4, <2>1, <2>2, <2>4, <2>6 DEF Coherent, LoggingIn, Dead
    <2>8. \A q \in Processes : q # p /\ LoggingIn(q)
            => /\ client'[job[q].sess] = client[job[q].sess]
               /\ rows[job[q].sess] # "none" =>
                     rows'[job[q].sess] # "none" \/ Dead(job[q].sess)'
      BY <1>3, <2>1, <2>5
    <2>9. Jobs'
      BY <1>1, <1>4, <1>5, <2>2, <2>4, <2>7, <2>8, JobsStep
    <2>10. Issued' /\ ErasedGone'
      BY <1>2, <1>4, <2>1 DEF IInv, Tables, Issued, ErasedGone
    <2>11. Kept'
      BY <1>4, <2>1, <2>5 DEF IInv, Tables, Kept, Dead
    <2>. QED
      BY <1>6, <2>9, <2>10, <2>11 DEF Tables
  <1>8. CASE StoreFails(p) \/ Cache(p)
    <2>1. job'[p] = Idle /\ \A q \in Processes : q # p => job'[q] = job[q]
      BY <1>1, <1>8, IdleFits, GoesType DEF StoreFails, Cache
    <2>2. Coherent(p)' /\ ~LoggingIn(p)'
      BY <2>1, IdleType DEF Coherent, LoggingIn
    <2>3. \A x \in Sessions : x # s => /\ client'[x] = client[x] /\ rows'[x] = rows[x]
                                      /\ cache'[x] = cache[x]
      BY <1>1, <1>8 DEF StoreFails, Cache, TypeOK, Memory
    <2>4. client'[s] # "none" /\ (StoreFails(p) => client'[s] = "bare")
      BY <1>1, <1>8 DEF StoreFails, Cache, TypeOK
    <2>5. Jobs'
      BY <1>3, <1>4, <1>5, <2>1, <2>2, <2>3, JobsStep
    <2>6. Issued'
      BY <1>2, <1>4, <2>3 DEF IInv, Tables, Issued
    <2>7. ErasedGone'
      <3>1. erased \subseteq Sessions
        BY <1>1 DEF TypeOK
      <3>. QED
        BY <1>2, <1>4, <2>3, <3>1 DEF IInv, Tables, ErasedGone
    <2>8. ~StoreFails(p) => rows' = rows /\ cache'[s] = "fresh" /\ (rows[s] # "none" \/ Dead(s))
      <3>1. ASSUME Cache(p)
            PROVE  rows' = rows /\ cache'[s] = "fresh" /\ job[p].stage = "caching"
        BY <1>1, <3>1 DEF Cache, Is, TypeOK
      <3>. QED
        BY <1>8, <3>1 DEF IInv, Jobs, Coherent
    <2>9. Kept'
      <3>1. ASSUME NEW x \in Sessions, client'[x] = "registered", ~Dead(x)
            PROVE  /\ rows'[x] # "none"
                   /\ load = "on" => cache'[x] # "none"
                   /\ load = "reading" => cache'[x] # "none" \/ snapshot[x] # "none"
        <4>1. CASE x = s
          BY <2>4, <2>8, <3>1, <4>1
        <4>2. CASE x # s
          BY <2>3, <3>1, <4>2 DEF IInv, Tables, Kept
        <4>. QED
          BY <4>1, <4>2
      <3>. QED
        BY <1>4, <1>5, <3>1 DEF Kept, Dead
    <2>. QED
      BY <1>6, <2>5, <2>6, <2>7, <2>9 DEF Tables
  <1>. QED
    BY <1>7, <1>8

LEMMA TouchHolds ==
    ASSUME IInv, NEW p \in Processes, Touch(p) \/ SaveTouch(p) \/ SaveTouchFails(p)
    PROVE  Tables' /\ Jobs'
  <1>. DEFINE s == job[p].sess
  <1>1. TypeOK /\ s \in Sessions /\ job[p] \in Job /\ Coherent(p)
    BY JobType DEF IInv, Jobs, Touch, SaveTouch, SaveTouchFails, Is
  <1>2. UNCHANGED <<openmaint, client, load, snapshot, unclosed, ended, erased>>
    BY DEF Touch, SaveTouch, SaveTouchFails, Outside, Memory, History
  <1>3. \A x \in Sessions : /\ (rows'[x] = "none" <=> rows[x] = "none")
                            /\ (cache'[x] = "none" <=> cache[x] = "none")
    BY <1>1 DEF Touch, SaveTouch, SaveTouchFails, TypeOK, Memory
  <1>4. job' \in [Processes -> Job] /\ \A q \in Processes : q # p => job'[q] = job[q]
    BY <1>1, IdleFits, GoesType, RegisterTypes DEF TypeOK, Touch, SaveTouch, SaveTouchFails, Goes
  <1>5. \/ job'[p] = Idle
        \/ job'[p] = [job[p] EXCEPT !.stage = "saving"] /\ job[p].stage = "waiting"
    <2>1. \A j : Goes(p, j) => job'[p] = j
      BY <1>1 DEF TypeOK, Goes
    <2>2. CASE Touch(p)
      BY <2>1, <2>2 DEF Touch, Is
    <2>3. CASE SaveTouch(p) \/ SaveTouchFails(p)
      <3>1. Goes(p, Idle)
        BY <2>3 DEF SaveTouch, SaveTouchFails
      <3>. QED
        <4>1. job'[p] = Idle
          BY <1>1, <3>1 DEF Goes, TypeOK
        <4>. QED
          BY <4>1
    <2>. QED
      BY <2>2, <2>3
  <1>6. Coherent(p)' /\ ~LoggingIn(p)'
    <2>1. CASE job'[p] = Idle
      BY <2>1, IdleType DEF Coherent, LoggingIn
    <2>2. CASE job'[p] = [job[p] EXCEPT !.stage = "saving"] /\ job[p].stage = "waiting"
      <3>. DEFINE j == [job[p] EXCEPT !.stage = "saving"]
      <3>1. j.stage = "saving" /\ j.sess = s /\ j.found = job[p].found /\ j.owed = job[p].owed
        BY <1>1, StageType
      <3>. QED
        BY <1>1, <1>2, <2>2, <3>1 DEF Coherent, LoggingIn, Dead
    <2>. QED
      BY <1>5, <2>1, <2>2
  <1>7. \A x : Dead(x)' <=> Dead(x)
    BY <1>2 DEF Dead
  <1>8. \A q \in Processes : LoggingIn(q) => job[q].sess \in Sessions
    BY <1>1, JobType DEF LoggingIn
  <1>9. Jobs'
    BY <1>2, <1>3, <1>4, <1>6, <1>7, <1>8, JobsStep
  <1>10. Issued' /\ NoOldAnswer' /\ \A x \in ended' : Dead(x)'
    BY <1>2, <1>7 DEF IInv, Tables, Issued, NoOldAnswer
  <1>11. ErasedGone'
    BY <1>1, <1>2, <1>3 DEF IInv, Tables, ErasedGone, TypeOK
  <1>12. Kept'
    BY <1>2, <1>3 DEF IInv, Tables, Kept, Dead
  <1>. QED
    BY <1>9, <1>10, <1>11, <1>12 DEF Tables

\* A change finds in memory, once it is loaded, every session it owes.
LEMMA ChangeHolds ==
    ASSUME IInv, NEW p \in Processes, Change(p)
    PROVE  Tables' /\ Jobs'
  <1>. DEFINE keep == job[p].sess
              others == {s \in Sessions : cache[s] # "none" /\ s # keep}
              owed == Registered \ {keep}
              j == At("closing", "change", keep, others, others, owed)
  <1>1. TypeOK /\ load = "on" /\ others \in SUBSET Sessions /\ owed \in SUBSET Sessions
        /\ keep \in Sessions \cup {NoSession}
    BY JobType DEF IInv, Change, Registered
  <1>2. UNCHANGED <<openmaint, client, rows, cache, load, snapshot, unclosed, erased>>
    BY DEF Change, Outside, Memory
  <1>3. \A s \in owed : s \in others \/ Dead(s)
    BY <1>1 DEF IInv, Tables, Kept, Registered
  <1>4. j \in Job /\ j.stage = "closing" /\ j.op = "change" /\ j.todo = others
        /\ j.found = others /\ j.owed = owed
    BY <1>1, AtType
  <1>5. Fits(j)
    BY <1>4 DEF Fits
  <1>6. \/ Goes(p, Idle) /\ others = {} /\ ended' = ended \cup owed
        \/ Goes(p, j) /\ ended' = ended
    BY DEF Change
  <1>7. Jobs'
    <2>1. CASE Goes(p, Idle)
      BY <1>2, <2>1, IdleType, IdleFits, JobsQuiet
    <2>2. CASE Goes(p, j)
      BY <1>2, <1>3, <1>4, <1>5, <2>2, JobsQuiet
    <2>. QED
      BY <1>6, <2>1, <2>2
  <1>8. \A s \in ended' : Dead(s)'
    BY <1>2, <1>3, <1>6 DEF IInv, Tables, Dead
  <1>9. Kept' /\ Issued' /\ NoOldAnswer' /\ ErasedGone'
    BY <1>2 DEF IInv, Tables, Kept, Issued, NoOldAnswer, ErasedGone, Dead
  <1>. QED
    BY <1>7, <1>8, <1>9 DEF Tables

LEMMA CronHolds ==
    ASSUME IInv, NEW p \in Processes,
           \/ Keep(p) \/ Purge(p)
           \/ \E s \in Sessions : PingDown(p, s)
    PROVE  Tables' /\ Jobs'
  <1>1. TypeOK /\ job[p].todo \in SUBSET Sessions /\ job[p].found \in SUBSET Sessions
        /\ Coherent(p)
    BY JobType DEF IInv, Jobs
  <1>2. UNCHANGED <<Outside, rows, Memory, History>>
    BY DEF Keep, Purge, PingDown
  <1>3. CASE Keep(p)
    <2>. DEFINE due == {s \in Remembered : cache[s] = "fresh"}
                j == At("pinging", "keep", NoSession, due, {}, {})
    <2>1. due \in SUBSET Sessions
      BY RememberedAssumption
    <2>2. j \in Job /\ j.stage = "pinging" /\ j.op = "keep" /\ j.found = {} /\ j.owed = {}
      BY <2>1 DEF At, Job
    <2>3. Fits(j)
      BY <2>2 DEF Fits
    <2>4. Goes(p, Idle) \/ Goes(p, j)
      BY <1>3 DEF Keep
    <2>. QED
      BY <1>2, <2>2, <2>3, <2>4, IdleType, IdleFits, JobsQuiet, TablesQuiet DEF Outside, History
  <1>4. CASE Purge(p)
    <2>. DEFINE expired == {s \in Sessions : cache[s] = "expired"}
                j == At("closing", "purge", NoSession, expired, expired, {})
    <2>1. j \in Job /\ j.stage = "closing" /\ j.op = "purge" /\ j.todo = expired
          /\ j.found = expired /\ j.owed = {}
      BY DEF At, Job
    <2>2. Fits(j)
      BY <2>1 DEF Fits
    <2>3. Goes(p, Idle) \/ Goes(p, j)
      BY <1>4 DEF Purge
    <2>. QED
      BY <1>2, <2>1, <2>2, <2>3, IdleType, IdleFits, JobsQuiet, TablesQuiet DEF Outside, History
  <1>5. ASSUME NEW s \in Sessions, PingDown(p, s)
        PROVE  Tables' /\ Jobs'
    <2>. DEFINE j == At("pinging", "keep", NoSession, job[p].todo \ {s}, job[p].found, {})
    <2>1. j \in Job /\ j.stage = "pinging" /\ j.op = "keep" /\ j.found = job[p].found
          /\ j.owed = {}
      BY <1>1 DEF At, Job
    <2>2. Fits(j)
      BY <2>1 DEF Fits
    <2>3. \A x \in j.found : Dead(x)
      BY <1>1, <1>5, <2>1 DEF Coherent, PingDown, Is
    <2>4. Goes(p, j)
      BY <1>5 DEF PingDown
    <2>. QED
      BY <1>2, <2>1, <2>2, <2>3, <2>4, JobsQuiet, TablesQuiet DEF Outside, History
  <1>. QED
    BY <1>3, <1>4, <1>5

\* A call that answered, or failed: openMAINT and the history of failures.
LEMMA CallHolds ==
    ASSUME IInv, NEW p \in Processes, NEW s \in Sessions,
           Ping(p, s) \/ Close(p, s) \/ CloseDown(p, s)
    PROVE  Tables' /\ Jobs'
  <1>1. TypeOK /\ job[p] \in Job /\ Coherent(p) /\ job[p].stage \in {"closing", "pinging"}
        /\ job[p].todo \in SUBSET Sessions /\ job[p].found \in SUBSET Sessions
        /\ job[p].owed \in SUBSET Sessions
    BY JobType DEF IInv, Jobs, Ping, Close, CloseDown, Is
  <1>2. UNCHANGED <<client, rows, cache, load, snapshot, ended, erased>>
    BY DEF Ping, Close, CloseDown, Outside, Memory
  <1>3. \A x \in Sessions : Dead(x) => Dead(x)'
    BY <1>1 DEF Ping, Close, CloseDown, Dead, TypeOK, Outside
  <1>4. \A x \in Sessions : openmaint[x] # "none" => openmaint'[x] # "none"
    BY <1>1 DEF Ping, Close, CloseDown, TypeOK, Outside
  <1>5. Coherent(p)' /\ ~LoggingIn(p)' /\ \A q \in Processes : q # p => job'[q] = job[q]
    <2>1. CASE Close(p, s) \/ CloseDown(p, s)
      <3>. DEFINE j == [job[p] EXCEPT !.todo = @ \ {s}]
      <3>1. j \in Job /\ j.stage = "closing" /\ j.op = job[p].op /\ j.sess = job[p].sess
            /\ j.todo = job[p].todo \ {s} /\ j.found = job[p].found /\ j.owed = job[p].owed
        BY <1>1, <2>1, TodoType DEF Close, CloseDown, Is
      <3>2. job'[p] = j /\ \A q \in Processes : q # p => job'[q] = job[q]
        BY <1>1, <2>1 DEF Close, CloseDown, Goes, TypeOK
      <3>3. Dead(s)'
        BY <1>1, <2>1 DEF Close, CloseDown, Dead, TypeOK
      <3>4. \A x \in j.found : x \in j.todo \/ Dead(x)'
        <4>1. \A x \in j.found : x \in job[p].todo \/ Dead(x)
          BY <1>1, <3>1 DEF Coherent
        <4>. QED
          BY <1>1, <1>3, <3>1, <3>3, <4>1
      <3>5. \A x \in j.owed : x \in j.found \/ Dead(x)'
        BY <1>1, <1>3, <3>1 DEF Coherent
      <3>. QED
        BY <3>1, <3>2, <3>4, <3>5 DEF Coherent, LoggingIn, Dead
    <2>2. CASE Ping(p, s)
      <3>1. PICK found \in SUBSET Sessions :
              /\ Goes(p, At("pinging", "keep", NoSession, job[p].todo \ {s}, found, {}))
              /\ \A x \in found : x \in job[p].found \/ (x = s /\ Dead(s)')
        BY <1>1, <2>2 DEF Ping, Dead, Outside
      <3>. DEFINE j == At("pinging", "keep", NoSession, job[p].todo \ {s}, found, {})
      <3>2. j.stage = "pinging" /\ j.found = found /\ j.owed = {}
        BY <1>1 DEF At
      <3>3. job'[p] = j /\ \A q \in Processes : q # p => job'[q] = job[q]
        BY <1>1, <3>1 DEF Goes, TypeOK
      <3>4. \A x \in found : Dead(x)'
        <4>1. \A x \in job[p].found : Dead(x)
          BY <1>1, <2>2 DEF Coherent, Ping, Is
        <4>. QED
          BY <1>1, <1>3, <3>1, <4>1
      <3>. QED
        BY <3>2, <3>3, <3>4 DEF Coherent, LoggingIn, Dead
    <2>. QED
      BY <2>1, <2>2
  <1>6. Jobs'
    BY <1>2, <1>3, <1>4, <1>5, JobsStep
  <1>7. Issued' /\ NoOldAnswer' /\ ErasedGone'
    BY <1>2, <1>4 DEF IInv, Tables, Issued, NoOldAnswer, ErasedGone
  <1>8. Kept' /\ \A x \in ended' : Dead(x)'
    <2>1. ended \subseteq Sessions /\ \A x \in ended : Dead(x)
      BY <1>1 DEF IInv, Tables, TypeOK
    <2>2. \A x \in ended' : Dead(x)'
      BY <1>2, <1>3, <2>1
    <2>3. Kept'
      BY <1>2, <1>3 DEF IInv, Tables, Kept
    <2>. QED
      BY <2>2, <2>3
  <1>. QED
    BY <1>6, <1>7, <1>8 DEF Tables

LEMMA ForgetHolds ==
    ASSUME IInv, NEW p \in Processes, Forget(p) \/ Delete(p) \/ DeleteFails(p)
    PROVE  Tables' /\ Jobs'
  <1>1. TypeOK /\ job[p] \in Job /\ Coherent(p) /\ job[p].found \in SUBSET Sessions
        /\ job[p].stage \in {"closing", "pinging", "deleting"}
        /\ (job[p].stage = "closing" => job[p].todo = {})
    BY JobType DEF IInv, Jobs, Forget, Delete, DeleteFails, Is
  <1>2. /\ \A s \in job[p].found : Dead(s)
        /\ \A s \in job[p].owed : Dead(s)
    BY <1>1 DEF Coherent
  <1>3. UNCHANGED <<openmaint, client, load, snapshot, unclosed>>
    BY DEF Forget, Delete, DeleteFails, Outside, Memory, History
  <1>4. job' \in [Processes -> Job] /\ \A q \in Processes : q # p => job'[q] = job[q]
    BY <1>1, ForgetTypes DEF TypeOK, Forget, Delete, DeleteFails, Goes
  <1>5. Coherent(p)' /\ ~LoggingIn(p)'
    <2>0. \A j : Goes(p, j) => job'[p] = j
      BY <1>1 DEF TypeOK, Goes
    <2>1. CASE job'[p] = Idle
      BY <2>1, IdleType DEF Coherent, LoggingIn
    <2>2. CASE job'[p] = [job[p] EXCEPT !.stage = "deleting"]
      <3>. DEFINE j == [job[p] EXCEPT !.stage = "deleting"]
      <3>1. j.stage = "deleting" /\ j.found = job[p].found /\ j.owed = job[p].owed
        BY <1>1, StageType
      <3>. QED
        BY <1>2, <1>3, <2>2, <3>1 DEF Coherent, LoggingIn, Dead
    <2>3. job'[p] = Idle \/ job'[p] = [job[p] EXCEPT !.stage = "deleting"]
      BY <2>0 DEF Forget, Delete, DeleteFails
    <2>. QED
      BY <2>1, <2>2, <2>3
  <1>6. \A s \in Sessions : ~Dead(s) => rows'[s] = rows[s] /\ cache'[s] = cache[s]
    BY <1>1, <1>2 DEF Forget, Delete, DeleteFails, Without, TypeOK, Memory
  <1>7. \A s \in Sessions : /\ rows[s] = "none" => rows'[s] = "none"
                            /\ cache[s] = "none" => cache'[s] = "none"
    BY <1>1 DEF Forget, Delete, DeleteFails, Without, TypeOK, Memory
  <1>8. \A s : Dead(s)' <=> Dead(s)
    BY <1>3 DEF Dead
  <1>9. \A q \in Processes : q # p /\ LoggingIn(q)
          => /\ client'[job[q].sess] = client[job[q].sess]
             /\ rows[job[q].sess] # "none" => rows'[job[q].sess] # "none" \/ Dead(job[q].sess)'
    <2>1. \A q \in Processes : LoggingIn(q) => job[q].sess \in Sessions
      BY <1>1, JobType DEF LoggingIn
    <2>2. ASSUME NEW q \in Processes, q # p, LoggingIn(q), rows[job[q].sess] # "none"
          PROVE  rows'[job[q].sess] # "none" \/ Dead(job[q].sess)'
      <3>1. rows'[job[q].sess] = rows[job[q].sess] \/ Dead(job[q].sess)
        BY <1>6, <2>1, <2>2
      <3>. QED
        BY <1>3, <1>4, <2>2, <3>1 DEF Dead
    <2>. QED
      BY <1>3, <2>2
  <1>10. Jobs'
    BY <1>3, <1>4, <1>5, <1>8, <1>9, JobsStep
  <1>11. Issued' /\ NoOldAnswer'
    BY <1>3 DEF IInv, Tables, Issued, NoOldAnswer
  <1>12. \A s \in ended' : Dead(s)'
    <2>1. \A s \in ended' : s \in ended \/ s \in job[p].owed
      BY DEF Forget, Delete, DeleteFails, History
    <2>. QED
      BY <1>2, <1>3, <2>1 DEF IInv, Tables, Dead
  <1>13. Kept'
    BY <1>3, <1>6 DEF IInv, Tables, Kept, Dead
  <1>14. ErasedGone'
    <2>1. ASSUME NEW s \in erased'
          PROVE  /\ s \in Sessions /\ client[s] # "none" /\ snapshot[s] = "none"
                 /\ cache'[s] = "none" /\ rows'[s] = "none"
      <3>1. CASE s \in erased
        <4>1. s \in Sessions
          BY <1>1, <3>1 DEF TypeOK
        <4>2. cache[s] = "none" /\ rows[s] = "none" /\ snapshot[s] = "none" /\ client[s] # "none"
          BY <3>1 DEF IInv, Tables, ErasedGone
        <4>3. cache'[s] = "none" /\ rows'[s] = "none"
          BY <1>7, <4>1, <4>2
        <4>. QED
          BY <4>1, <4>2, <4>3
      <3>2. CASE s \notin erased
        <4>1. Delete(p) /\ s \in job[p].found /\ load = "on" /\ cache[s] = "none"
              /\ client[s] # "none"
          BY <2>1, <3>2 DEF Forget, Delete, DeleteFails, History
        <4>2. s \in Sessions /\ rows'[s] = "none" /\ cache' = cache
          BY <1>1, <4>1 DEF Delete, Without, Memory
        <4>3. snapshot[s] = "none"
          BY <4>1, <4>2 DEF IInv, Tables, NoOldAnswer
        <4>. QED
          BY <4>1, <4>2, <4>3
      <3>. QED
        BY <3>1, <3>2
    <2>. QED
      BY <1>3, <2>1 DEF ErasedGone
  <1>. QED
    BY <1>10, <1>11, <1>12, <1>13, <1>14 DEF Tables

LEMMA ClockHolds ==
    ASSUME IInv, NEW s \in Sessions, Drop(s) \/ ExpireRow(s) \/ ExpireEntry(s)
    PROVE  Tables' /\ Jobs'
  <1>1. TypeOK
    BY DEF IInv
  <1>2. UNCHANGED <<client, load, job, unclosed, ended, erased>>
    BY DEF Drop, ExpireRow, ExpireEntry, Outside, Memory, History
  <1>3. \A x \in Sessions : /\ rows'[x] = "none" <=> rows[x] = "none"
                            /\ cache'[x] = "none" <=> cache[x] = "none"
                            /\ snapshot'[x] = "none" <=> snapshot[x] = "none"
    BY <1>1 DEF Drop, ExpireRow, ExpireEntry, TypeOK, Entry, Memory
  <1>4. \A x \in Sessions : /\ openmaint[x] # "none" => openmaint'[x] # "none"
                            /\ openmaint[x] = "closed" => openmaint'[x] = "closed"
    BY <1>1 DEF Drop, ExpireRow, ExpireEntry, TypeOK, Outside
  <1>5. ASSUME NEW q \in Processes
        PROVE  Coherent(q)'
    <2>1. Coherent(q) /\ (LoggingIn(q) => job[q].sess \in Sessions)
          /\ job[q].found \subseteq Sessions /\ job[q].owed \subseteq Sessions
      BY <1>1, JobType DEF IInv, Jobs, LoggingIn
    <2>2. LoggingIn(q) => openmaint'[job[q].sess] # "none" /\ client[job[q].sess] = "none"
      BY <1>4, <2>1 DEF Coherent
    <2>3. job[q].stage = "caching" => rows'[job[q].sess] # "none" \/ openmaint'[job[q].sess] = "closed"
                                      \/ job[q].sess \in unclosed
      BY <1>3, <1>4, <2>1 DEF Coherent, LoggingIn, Dead
    <2>4. \A x \in job[q].found : \/ job[q].stage = "closing" /\ x \in job[q].todo
                                  \/ openmaint'[x] = "closed" \/ x \in unclosed
      BY <1>4, <2>1 DEF Coherent, Dead
    <2>5. \A x \in job[q].owed : x \in job[q].found \/ openmaint'[x] = "closed" \/ x \in unclosed
      BY <1>4, <2>1 DEF Coherent, Dead
    <2>. QED
      BY <1>2, <2>2, <2>3, <2>4, <2>5 DEF Coherent, LoggingIn, Dead
  <1>6. Jobs'
    BY <1>2, <1>5 DEF IInv, Jobs, OneLogin, LoggingIn
  <1>7. Issued' /\ NoOldAnswer'
    BY <1>2, <1>3, <1>4 DEF IInv, Tables, Issued, NoOldAnswer
  <1>8. ErasedGone' /\ \A x \in ended' : Dead(x)'
    <2>1. erased \subseteq Sessions /\ ended \subseteq Sessions
      BY <1>1 DEF TypeOK
    <2>. QED
      BY <1>2, <1>3, <1>4, <2>1 DEF IInv, Tables, ErasedGone, Dead
  <1>9. Kept'
    BY <1>2, <1>3, <1>4 DEF IInv, Tables, Kept, Dead
  <1>. QED
    BY <1>6, <1>7, <1>8, <1>9 DEF Tables

LEMMA InitHolds == Init => IInv
  <1>. SUFFICES ASSUME Init PROVE IInv
    OBVIOUS
  <1>1. TypeOK
    BY InitTypes
  <1>2. Tables
    BY DEF Init, Tables, Kept, Issued, NoOldAnswer, ErasedGone, Dead
  <1>3. Jobs
    BY IdleType DEF Init, Jobs, OneLogin, Coherent, LoggingIn
  <1>. QED
    BY <1>1, <1>2, <1>3 DEF IInv

LEMMA NextHolds == IInv /\ [Next]_vars => IInv'
  <1>. SUFFICES ASSUME IInv, [Next]_vars PROVE IInv'
    OBVIOUS
  <1>1. TypeOK'
    BY NextTypes DEF IInv
  <1>2. ASSUME NEW p \in Processes, Proceed(p) \/ Fails(p)
        PROVE  Tables' /\ Jobs'
    <2>1. CASE Proceed(p)
      BY <2>1, StoreHolds, TouchHolds, ChangeHolds, CronHolds, CallHolds, ForgetHolds DEF Proceed
    <2>2. CASE Fails(p)
      BY <2>2, StoreHolds, TouchHolds, CronHolds, CallHolds, ForgetHolds DEF Fails
    <2>. QED
      BY <1>2, <2>1, <2>2
  <1>3. CASE UNCHANGED vars
    <2>1. Tables'
      BY <1>3, TablesQuiet DEF vars, Outside, Memory, History
    <2>2. Jobs'
      BY <1>1, <1>3, JobsRest DEF vars, TypeOK
    <2>. QED
      BY <1>1, <2>1, <2>2 DEF IInv
  <1>4. [Next]_vars /\ ~UNCHANGED vars => Tables' /\ Jobs'
    BY <1>2, LoadingHolds, RequestHolds, ClockHolds DEF Next, Environment
  <1>. QED
    BY <1>1, <1>3, <1>4 DEF IInv

LEMMA InvariantHolds == Spec => []IInv
  <1>. QED
    BY InitHolds, NextHolds, PTL DEF Spec

----------------------------------------------------------------------------

\* A session open in openMAINT that nobody tried to close is in the table, and
\* in memory once it is loaded, whatever fails and whoever crashes.
THEOREM OpenSessionsKept == Spec => []OpenIsKept
  <1>1. IInv => OpenIsKept
    BY DEF IInv, Tables, Kept, OpenIsKept, Dead
  <1>. QED
    BY <1>1, InvariantHolds, PTL

\* A password change that ends well leaves open only what openMAINT refused to
\* close, what does not decrypt, and the session it keeps.
THEOREM ChangeEndsSessions == Spec => []ChangeReachesEveryDevice
  <1>1. IInv => ChangeReachesEveryDevice
    BY DEF IInv, Tables, ChangeReachesEveryDevice, Dead
  <1>. QED
    BY <1>1, InvariantHolds, PTL

\* What was forgotten, with no load or login under way, stays forgotten.
THEOREM ForgottenForGood == Spec => []ErasedStaysOut
  <1>1. IInv => ErasedStaysOut
    BY DEF IInv, Tables, ErasedGone, ErasedStaysOut
  <1>. QED
    BY <1>1, InvariantHolds, PTL
=============================================================================
