------------------------ MODULE CredentialSyncProofs ------------------------
(***************************************************************************)
(* Theorems about CredentialSync, for every number of credentials and of   *)
(* workers that overlap, with crashes and tampering: the types, what a     *)
(* synced row tells, that the terminals only obey orders taken from the    *)
(* table, and who may undo a revocation or change a PIN.  What an          *)
(* overtaken worker does to its row is told apart by the history variables *)
(* stale and astray.                                                       *)
(***************************************************************************)
EXTENDS CredentialSync, TLAPS

USE NoneAssumption, SizesAssumption

\* A busy worker works on a credential, and only writes inside write() count
\* conflicts, of which there is always one left.
Busy ==
    \A k \in Workers :
        /\ job[k].stage # "idle" => job[k].cred \in Credentials
        /\ job[k].stage = "calling" => job[k].tries < Conflicts
        /\ job[k].stage = "saving" /\ job[k].next \in {"push", "second"} =>
               job[k].tries < Conflicts

TInv == TypeOK /\ Busy

----------------------------------------------------------------------------
(* What the operators return.                                               *)

LEMMA PendType ==
    ASSUME NEW status \in {"none", "pending", "active", "revoked", "expired"},
           NEW pin \in Pins \cup {NoPin}, NEW until \in Nat, NEW scope \in SUBSET Doors
    PROVE  Pend(status, pin, until, scope) \in Row
  BY DEF Pend, Row

LEMMA AppliedType ==
    ASSUME NEW row \in Row, NEW answer
    PROVE  Applied(row, answer) \in Row
  <1>1. Bump(row) \in 0..MaxAttempts
    BY DEF Bump, Row
  <1>. QED
    BY <1>1 DEF Applied, Row

LEMMA NoRowType == NoRow \in Row
  BY DEF NoRow, Row

LEMMA ShutType == Shut \in [Doors -> Entry]
  BY DEF Shut, Absent, Entry

LEMMA WantedType ==
    ASSUME NEW row \in Row
    PROVE  Wanted(row) \in [Doors -> Entry]
  BY DEF Wanted, Row, Entry, Absent

\* The object in memory goes through steps of its worker only.
LEMMA StartType ==
    ASSUME TInv, NEW k \in Workers, NEW c \in Credentials, NEW copy \in Row,
           NEW stage \in {"found", "comparing", "saving", "calling"},
           NEW next \in {"push", "mark", "second", "fail", "end"},
           Start(k, c, stage, copy, next)
    PROVE  job' \in [Workers -> Job] /\ Busy'
  <1>1. [stage |-> stage, cred |-> c, copy |-> copy, next |-> next,
         tries |-> 0, seen |-> Shut] \in Job
    BY ShutType DEF Job
  <1>2. job' \in [Workers -> Job]
    BY <1>1 DEF TInv, TypeOK, Start
  <1>3. Busy'
    BY <1>1 DEF TInv, TypeOK, Busy, Start
  <1>. QED
    BY <1>2, <1>3

LEMMA ContinueType ==
    ASSUME TInv, NEW k \in Workers, NEW copy \in Row, NEW tries \in 0..Conflicts,
           NEW stage \in {"saving", "calling"},
           NEW next \in {"push", "mark", "second", "fail", "end"},
           job[k].stage # "idle",
           stage = "calling" \/ next \in {"push", "second"} => tries < Conflicts,
           Continue(k, stage, copy, next, tries)
    PROVE  job' \in [Workers -> Job] /\ Busy'
  <1>1. job[k] \in Job /\ job[k].cred \in Credentials
    BY DEF TInv, TypeOK, Busy
  <1>2. [stage |-> stage, cred |-> job[k].cred, copy |-> copy, next |-> next,
         tries |-> tries, seen |-> Shut] \in Job
    BY <1>1, ShutType DEF Job
  <1>3. job' \in [Workers -> Job]
    BY <1>2 DEF TInv, TypeOK, Continue
  <1>4. Busy'
    BY <1>1, <1>2 DEF TInv, TypeOK, Busy, Continue
  <1>. QED
    BY <1>3, <1>4

LEMMA IdleType == Idle \in Job
  BY NoRowType, ShutType DEF Idle, Job

LEMMA StopType ==
    ASSUME TInv, NEW k \in Workers, Stop(k)
    PROVE  job' \in [Workers -> Job] /\ Busy'
  BY IdleType DEF TInv, TypeOK, Busy, Stop, Idle

----------------------------------------------------------------------------
(* Types, action by action.                                                 *)

LEMMA InitTypes == Init => TInv
  BY IdleType, NoRowType, ShutType DEF Init, TInv, TypeOK, Busy, Idle

\* The requests only load a row and change it in memory.
LEMMA RequestTypes ==
    ASSUME TInv, NEW k \in Workers, NEW c \in Credentials, Request(k, c)
    PROVE  TInv'
  <1>. DEFINE row == rows[c]
  <1>1. row \in Row /\ row.pin \in Pins \cup {NoPin} /\ row.until \in Nat
        /\ row.scope \in SUBSET Doors /\ row.attempts \in 0..MaxAttempts
        /\ row.status \in {"none", "pending", "active", "revoked", "expired"}
        /\ row.sync \in {"pending", "synced", "failed"}
    BY DEF TInv, TypeOK, Row
  <1>2. ops \in Nat /\ ops + 1 \in Nat
    BY DEF TInv, TypeOK
  <1>3. ASSUME NEW copy \in Row, NEW stage \in {"found", "saving"},
               NEW next \in {"push", "mark", "end"},
               Start(k, c, stage, copy, next), ops' = ops + 1,
               UNCHANGED <<rows, older, door, today, history>>
        PROVE  TInv'
    BY <1>2, <1>3, StartType DEF TInv, TypeOK, history
  <1>4. CASE \E until \in Windows, scope \in SUBSET Doors \ {{}} :
               \/ \E p \in Pins : Issue(k, c, p, until, scope)
               \/ Reactivate(k, c, until, scope)
    <2>1. ASSUME NEW until \in Windows, NEW scope \in SUBSET Doors \ {{}}, NEW p \in Pins,
                 Issue(k, c, p, until, scope)
          PROVE  TInv'
      <3>1. Pend("pending", p, until, scope) \in Row
        BY PendType
      <3>. QED
        BY <2>1, <3>1, <1>3 DEF Issue, Takes
    <2>2. ASSUME NEW until \in Windows, NEW scope \in SUBSET Doors \ {{}},
                 Reactivate(k, c, until, scope)
          PROVE  TInv'
      <3>1. Pend("pending", row.pin, until, scope) \in Row
        BY <1>1, PendType
      <3>. QED
        BY <2>2, <3>1, <1>3 DEF Reactivate, Takes
    <2>. QED
      BY <1>4, <2>1, <2>2
  <1>5. CASE Revoke(k, c)
    <2>1. Pend("revoked", row.pin, row.until, row.scope) \in Row
      BY <1>1, PendType
    <2>. QED
      BY <1>5, <2>1, <1>3 DEF Revoke, Takes
  <1>6. CASE \E until \in Windows : Find(k, c, until)
    <2>1. ASSUME NEW until \in Windows, Find(k, c, until) PROVE TInv'
      <3>1. [NoRow EXCEPT !.until = until] \in Row
        BY NoRowType DEF Row
      <3>. QED
        BY <2>1, <3>1, <1>3 DEF Find, Takes
    <2>. QED
      BY <1>6, <2>1
  <1>7. CASE \E scope \in SUBSET Doors \ {{}} : ChangeScope(k, c, scope)
    <2>1. ASSUME NEW scope \in SUBSET Doors \ {{}}, ChangeScope(k, c, scope) PROVE TInv'
      <3>1. Pend(row.status, row.pin, row.until, scope) \in Row
        BY <1>1, PendType
      <3>. QED
        BY <2>1, <3>1, <1>3 DEF ChangeScope, Takes
    <2>. QED
      BY <1>7, <2>1
  <1>8. CASE \E p \in Pins : RegeneratePin(k, c, p)
    <2>1. ASSUME NEW p \in Pins, RegeneratePin(k, c, p) PROVE TInv'
      <3>1. [status |-> row.status, pin |-> p, until |-> row.until,
             scope |-> row.scope, sync |-> row.sync, attempts |-> row.attempts] \in Row
        BY <1>1 DEF Row
      <3>. QED
        BY <2>1, <3>1, <1>3 DEF RegeneratePin, Takes
    <2>. QED
      BY <1>8, <2>1
  <1>. QED
    BY <1>4, <1>5, <1>6, <1>7, <1>8 DEF Request

LEMMA CronTypes ==
    ASSUME TInv, NEW k \in Workers, NEW c \in Credentials, Cron(k, c)
    PROVE  TInv'
  <1>. DEFINE row == rows[c]
  <1>1. row \in Row /\ row.pin \in Pins \cup {NoPin} /\ row.until \in Nat
        /\ row.scope \in SUBSET Doors /\ row.attempts \in 0..MaxAttempts
        /\ row.status \in {"none", "pending", "active", "revoked", "expired"}
    BY DEF TInv, TypeOK, Row
  <1>2. ASSUME NEW copy \in Row, NEW stage \in {"saving", "calling"},
               Start(k, c, stage, copy, "end"),
               UNCHANGED <<rows, older, door, today, ops, history>>
        PROVE  TInv'
    BY <1>2, StartType DEF TInv, TypeOK, history
  <1>3. CASE Retry(k, c) \/ Purge(k, c)
    BY <1>1, <1>2, <1>3 DEF Retry, Purge
  <1>4. CASE GiveUp(k, c)
    <2>1. [status |-> row.status, pin |-> row.pin, until |-> row.until,
           scope |-> row.scope, sync |-> "failed", attempts |-> row.attempts] \in Row
      BY <1>1 DEF Row
    <2>. QED
      BY <1>4, <2>1, <1>2 DEF GiveUp
  <1>5. CASE Expire(k, c)
    <2>1. Pend("expired", row.pin, row.until, row.scope) \in Row
      BY <1>1, PendType
    <2>. QED
      BY <1>5, <2>1, <1>2 DEF Expire
  <1>6. CASE Inventory(k, c)
    <2>1. [stage |-> "comparing", cred |-> c, copy |-> NoRow, next |-> "end",
           tries |-> 0, seen |-> door[c]] \in Job
      BY NoRowType DEF TInv, TypeOK, Job
    <2>2. job' \in [Workers -> Job] /\ Busy'
      BY <1>6, <2>1 DEF Inventory, TInv, TypeOK, Busy
    <2>. QED
      BY <1>6, <2>2 DEF Inventory, TInv, TypeOK, history
  <1>. QED
    BY <1>3, <1>4, <1>5, <1>6 DEF Cron

LEMMA SaveTypes ==
    ASSUME TInv, NEW k \in Workers, Save(k)
    PROVE  TInv'
  <1>. DEFINE j == job[k]
  <1>1. j \in Job /\ j.copy \in Row /\ j.cred \in Credentials /\ j.tries \in 0..Conflicts
        /\ j.stage = "saving"
    BY DEF TInv, TypeOK, Busy, Save, Job
  <1>2. rows' \in [Credentials -> Row]
    BY <1>1 DEF Save, TInv, TypeOK
  <1>3. job' \in [Workers -> Job] /\ Busy'
    <2>1. CASE j.next \in {"push", "second"}
               /\ Continue(k, "calling", j.copy, "end", j.tries)
      BY <1>1, <2>1, ContinueType DEF TInv, Busy
    <2>2. CASE j.next = "mark"
               /\ Continue(k, "saving", Pend(j.copy.status, j.copy.pin, j.copy.until,
                                             j.copy.scope), "second", 0)
      <3>1. Pend(j.copy.status, j.copy.pin, j.copy.until, j.copy.scope) \in Row
        BY <1>1, PendType DEF Row
      <3>. QED
        BY <1>1, <2>2, <3>1, ContinueType
    <2>3. CASE j.next = "fail"
               /\ Continue(k, "saving", Applied(j.copy, "failed"), "end", j.tries)
      BY <1>1, <2>3, AppliedType, ContinueType
    <2>4. CASE j.next = "end" /\ Stop(k)
      BY <2>4, StopType
    <2>. QED
      BY <2>1, <2>2, <2>3, <2>4 DEF Save
  <1>4. older' \in [Credentials -> SUBSET Credentials]
    BY <1>1 DEF Save, Moved, TInv, TypeOK
  <1>5. stale' \subseteq Workers /\ astray' \subseteq Credentials
    BY <1>1 DEF Save, Overtaken, TInv, TypeOK
  <1>. QED
    BY <1>2, <1>3, <1>4, <1>5 DEF Save, TInv, TypeOK

LEMMA StepTypes ==
    ASSUME TInv, NEW k \in Workers, Step(k)
    PROVE  TInv'
  <1>. DEFINE j == job[k]
  <1>1. j \in Job /\ j.copy \in Row /\ j.tries \in 0..Conflicts
        /\ (j.stage # "idle" => j.cred \in Credentials)
        /\ (j.stage = "calling" => j.tries < Conflicts)
    BY DEF TInv, TypeOK, Busy, Job
  <1>2. ASSUME job' \in [Workers -> Job] /\ Busy',
               UNCHANGED <<rows, older, door, today, ops, history>>
        PROVE  TInv'
    BY <1>2 DEF TInv, TypeOK, history
  <1>3. CASE Reschedule(k)
    <2>1. Pend(rows[j.cred].status, rows[j.cred].pin, j.copy.until, rows[j.cred].scope) \in Row
      <3>1. j.cred \in Credentials
        BY <1>1, <1>3 DEF Reschedule
      <3>2. rows[j.cred] \in Row
        BY <3>1 DEF TInv, TypeOK
      <3>. QED
        BY <1>1, <3>2, PendType DEF Row
    <2>2. job' \in [Workers -> Job] /\ Busy'
      BY <1>1, <1>3, <2>1, ContinueType, StopType DEF Reschedule
    <2>. QED
      BY <1>2, <1>3, <2>2 DEF Reschedule
  <1>4. CASE Reconcile(k)
    <2>1. Pend(rows[j.cred].status, rows[j.cred].pin, rows[j.cred].until,
               rows[j.cred].scope) \in Row
      <3>1. j.cred \in Credentials
        BY <1>1, <1>4 DEF Reconcile
      <3>2. rows[j.cred] \in Row
        BY <3>1 DEF TInv, TypeOK
      <3>. QED
        BY <3>2, PendType DEF Row
    <2>2. job' \in [Workers -> Job] /\ Busy'
      BY <1>1, <1>4, <2>1, ContinueType, StopType DEF Reconcile
    <2>. QED
      BY <1>2, <1>4, <2>2 DEF Reconcile
  <1>5. CASE Save(k)
    BY <1>5, SaveTypes
  <1>6. CASE Reject(k)
    <2>1. job' \in [Workers -> Job] /\ Busy'
      BY <1>1, <1>6, AppliedType, ContinueType, StopType DEF Reject
    <2>2. stale' \subseteq Workers /\ UNCHANGED <<rows, older, door, today, ops, astray>>
      BY <1>6 DEF Reject, TInv, TypeOK
    <2>. QED
      BY <2>1, <2>2 DEF TInv, TypeOK
  <1>7. CASE OutOfPins(k)
    <2>1. job' \in [Workers -> Job] /\ Busy'
      BY <1>1, <1>7, AppliedType, ContinueType DEF OutOfPins
    <2>. QED
      BY <1>2, <1>7, <2>1 DEF OutOfPins
  <1>8. ASSUME NEW reached \in SUBSET Doors, NEW answer \in Answers, Call(k, reached, answer)
        PROVE  TInv'
    <2>1. job' \in [Workers -> Job] /\ Busy'
      BY <1>1, <1>8, AppliedType, ContinueType DEF Call
    <2>2. Wanted(j.copy) \in [Doors -> Entry]
      BY <1>1, WantedType
    <2>3. door' \in [Credentials -> [Doors -> Entry]]
      BY <1>1, <1>8, <2>2 DEF Call, TInv, TypeOK
    <2>4. j.cred \in Credentials
      BY <1>1, <1>8 DEF Call
    <2>5. astray' \subseteq Credentials
      BY <1>8, <2>4 DEF Call, TInv, TypeOK
    <2>. QED
      BY <1>8, <2>1, <2>3, <2>5 DEF Call, TInv, TypeOK
  <1>9. ASSUME NEW p \in Pins, Conflict(k, p)
        PROVE  TInv'
    <2>1. [status |-> j.copy.status, pin |-> p, until |-> j.copy.until,
           scope |-> j.copy.scope, sync |-> j.copy.sync,
           attempts |-> j.copy.attempts] \in Row
      BY <1>1 DEF Row
    <2>2. j.tries + 1 \in 0..Conflicts /\ j.stage = "calling"
      BY <1>1, <1>9 DEF Conflict
    <2>3. CASE j.tries + 1 < Conflicts
      <3>1. job' \in [Workers -> Job] /\ Busy'
        BY <1>1, <1>9, <2>1, <2>2, <2>3, ContinueType DEF Conflict
      <3>. QED
        BY <1>2, <1>9, <3>1 DEF Conflict
    <2>4. CASE ~(j.tries + 1 < Conflicts)
      <3>1. job' \in [Workers -> Job] /\ Busy'
        BY <1>1, <1>9, <2>1, <2>2, <2>4, ContinueType DEF Conflict
      <3>. QED
        BY <1>2, <1>9, <3>1 DEF Conflict
    <2>. QED
      BY <2>3, <2>4
  <1>. QED
    BY <1>3, <1>4, <1>5, <1>6, <1>7, <1>8, <1>9 DEF Step

\* What Next lets somebody write in a terminal.
Edits(c, d) ==
    {Absent} \cup {[pin |-> door[c][d].pin, until |-> until] : until \in Windows \cup {0}}

LEMMA NextTypes == TInv /\ [Next]_vars => TInv'
  <1>. SUFFICES ASSUME TInv, [Next]_vars PROVE TInv'
    OBVIOUS
  <1>1. ASSUME NEW k \in Workers, NEW c \in Credentials, Request(k, c) \/ Cron(k, c)
        PROVE  TInv'
    BY <1>1, RequestTypes, CronTypes
  <1>2. ASSUME NEW k \in Workers, Step(k) PROVE TInv'
    BY <1>2, StepTypes
  <1>3. CASE Elapse
    BY <1>3 DEF Elapse, TInv, TypeOK, Busy, history
  <1>4. CASE Crash
    <2>1. astray' \subseteq Credentials
      BY <1>4 DEF Crash, TInv, TypeOK, Busy
    <2>. QED
      BY <1>4, <2>1, IdleType DEF Crash, TInv, TypeOK, Busy, Idle
  <1>5. ASSUME NEW c \in Credentials, NEW d \in Doors, NEW entry \in Edits(c, d),
               Tamper(c, d, entry)
        PROVE  TInv'
    <2>1. entry \in Entry
      BY SizesAssumption DEF TInv, TypeOK, Entry, Edits, Absent
    <2>2. door' \in [Credentials -> [Doors -> Entry]]
      BY <1>5, <2>1 DEF Tamper, TInv, TypeOK
    <2>. QED
      BY <1>5, <2>2 DEF Tamper, TInv, TypeOK, Busy
  <1>6. CASE UNCHANGED vars
    BY <1>6 DEF vars, history, TInv, TypeOK, Busy
  <1>. QED
    BY <1>1, <1>2, <1>3, <1>4, <1>5, <1>6 DEF Next, Edits

\* Every variable keeps its type, whatever overlaps, crashes or is tampered with.
THEOREM TypeCorrect == Spec => []TypeOK
  <1>1. Spec => []TInv
    BY InitTypes, NextTypes, PTL DEF Spec
  <1>. QED
    BY <1>1, PTL DEF TInv

----------------------------------------------------------------------------
(* The terminals obey orders.  An order is the row itself when it is taken: *)
(* the object that has just been saved, or a copy of the row.               *)

Orders == [k \in Workers |-> Order(k)]
Want == [c \in Credentials |-> Wanted(rows[c])]

LEMMA InitMirror == Init => Mirror!Init
  BY DEF Init, Mirror!Init, Mirror!Shut, Shut, Wanted, NoRow, Live, Order, Idle

\* A step of a worker that calls for nothing, before or after, leaves the orders.
LEMMA NoOrder ==
    ASSUME TInv, NEW k \in Workers, UNCHANGED <<rows, door>>,
           job[k].stage # "calling", job'[k].stage # "calling",
           \A l \in Workers \ {k} : job'[l] = job[l]
    PROVE  UNCHANGED <<Want, Orders, door>>
  <1>1. ASSUME NEW l \in Workers PROVE Order(l)' = Order(l)
    BY DEF Order
  <1>. QED
    BY <1>1 DEF Want, Orders

LEMMA SaveMirror ==
    ASSUME TInv, NEW k \in Workers, Save(k)
    PROVE  Mirror!Next
  <1>. DEFINE j == job[k]
  <1>1. j.cred \in Credentials /\ j.stage = "saving" /\ door' = door
        /\ rows' = [rows EXCEPT ![j.cred] = j.copy]
    BY DEF Save, TInv, Busy
  <1>. PICK c \in Credentials : c = j.cred
    BY <1>1
  <1>2. rows'[c] = j.copy /\ \A e \in Credentials \ {c} : rows'[e] = rows[e]
    BY <1>1 DEF TInv, TypeOK
  <1>3. Order(k) = {} /\ \A l \in Workers \ {k} : Order(l)' = Order(l)
    BY <1>1 DEF Save, Continue, Stop, Order, TInv, TypeOK
  <1>4. Order(k)' \in {{}, {[cred |-> c, want |-> Wanted(j.copy)]}}
    BY <1>1 DEF Save, Continue, Stop, Idle, Order, TInv, TypeOK
  <1>. DEFINE now == Orders[k]'
  <1>5. now = Order(k)'
    BY DEF Orders
  <1>6. Orders' = [Orders EXCEPT ![k] = now] /\ Orders[k] = {}
    BY <1>3 DEF Orders
  <1>7. now \in {{}, {Mirror!OrderFor(c, Want'[c])}}
    BY <1>2, <1>4, <1>5 DEF Want, Mirror!OrderFor
  <1>8. \A e \in Credentials \ {c} : Want'[e] = Want[e]
    BY <1>2 DEF Want
  <1>9. Mirror!Want(k, c)
    BY <1>1, <1>6, <1>7, <1>8 DEF Mirror!Want, Want, Orders
  <1>. QED
    BY <1>9 DEF Mirror!Next

LEMMA TakeMirror ==
    ASSUME TInv, NEW k \in Workers, NEW c \in Credentials, Retry(k, c) \/ Purge(k, c)
    PROVE  Mirror!Next
  <1>1. job[k].stage = "idle" /\ Start(k, c, "calling", rows[c], "end")
        /\ UNCHANGED <<rows, door>>
    BY DEF Retry, Purge
  <1>2. Order(k) = {} /\ \A l \in Workers \ {k} : Order(l)' = Order(l)
    BY <1>1 DEF Start, Order, TInv, TypeOK
  <1>3. Order(k)' = {[cred |-> c, want |-> Wanted(rows[c])]}
    BY <1>1 DEF Start, Order, TInv, TypeOK
  <1>4. Orders' = [Orders EXCEPT ![k] = {Mirror!OrderFor(c, Want[c])}] /\ Orders[k] = {}
    BY <1>2, <1>3 DEF Orders, Want, Mirror!OrderFor
  <1>5. Mirror!Take(k, c)
    BY <1>1, <1>4 DEF Mirror!Take, Want, Orders
  <1>. QED
    BY <1>5 DEF Mirror!Next

LEMMA ObeyMirror ==
    ASSUME TInv, NEW k \in Workers, NEW reached \in SUBSET Doors, NEW answer \in Answers,
           Call(k, reached, answer)
    PROVE  Mirror!Next
  <1>. DEFINE j == job[k]
  <1>1. j.cred \in Credentials /\ j.stage = "calling" /\ rows' = rows
    BY DEF Call, TInv, Busy
  <1>. PICK c \in Credentials : c = j.cred
    BY <1>1
  <1>. DEFINE order == [cred |-> c, want |-> Wanted(j.copy)]
  <1>2. Order(k) = {order} /\ \A l \in Workers \ {k} : Order(l)' = Order(l)
    BY <1>1 DEF Call, Continue, Order, TInv, TypeOK
  <1>3. Order(k)' = {}
    BY DEF Call, Continue, Order, TInv, TypeOK
  <1>4. Orders' = [Orders EXCEPT ![k] = {}] /\ Orders[k] = {order}
    BY <1>2, <1>3 DEF Orders
  <1>5. door' = [door EXCEPT ![c] =
          [d \in Doors |-> IF d \in reached THEN order.want[d] ELSE door[c][d]]]
    BY DEF Call
  <1>6. \E o \in Orders[k], r \in SUBSET Doors :
          /\ o.cred = c
          /\ door' = [door EXCEPT ![c] =
               [d \in Doors |-> IF d \in r THEN o.want[d] ELSE door[c][d]]]
    <2>1. order \in Orders[k] /\ order.cred = c
      BY <1>4
    <2>. QED
      BY <1>5, <2>1
  <1>7. Want' = Want
    BY <1>1 DEF Want
  <1>8. Mirror!Obey(k, c)
    BY <1>4, <1>6, <1>7, Zenon DEF Mirror!Obey, Want, Orders
  <1>. QED
    BY <1>8 DEF Mirror!Next

LEMMA ForgetMirror ==
    ASSUME TInv, NEW who \in SUBSET Workers, UNCHANGED <<rows, door>>,
           \A k \in Workers : IF k \in who THEN job'[k].stage # "calling"
                              ELSE job'[k] = job[k]
    PROVE  Mirror!Next
  <1>1. ASSUME NEW k \in Workers
        PROVE  Order(k)' = IF k \in who THEN {} ELSE Order(k)
    BY DEF Order
  <1>2. Orders' = [k \in Workers |-> IF k \in who THEN {} ELSE Orders[k]]
    BY <1>1 DEF Orders
  <1>3. Mirror!Forget(who)
    BY <1>2 DEF Mirror!Forget, Want, Orders
  <1>. QED
    BY <1>3 DEF Mirror!Next

LEMMA EditMirror ==
    ASSUME TInv, NEW c \in Credentials, NEW d \in Doors, NEW entry \in Edits(c, d),
           Tamper(c, d, entry)
    PROVE  Mirror!Next
  <1>1. UNCHANGED <<rows, job>> /\ "tamper" \in Operations
        /\ (entry = Absent \/ entry.pin = door[c][d].pin)
    BY DEF Tamper
  <1>2. door' = [door EXCEPT ![c] = [e \in Doors |-> IF e = d THEN entry ELSE door[c][e]]]
    BY DEF Tamper
  <1>3. door'[c][d] = entry /\ (\A e \in Doors \ {d} : door'[c][e] = door[c][e])
        /\ \A e \in Credentials \ {c} : door'[e] = door[e]
    BY <1>2 DEF TInv, TypeOK
  <1>4. UNCHANGED <<Want, Orders>>
    BY <1>1 DEF Want, Orders, Order
  <1>5. Mirror!Edit(c, d)
    BY <1>1, <1>3, <1>4 DEF Mirror!Edit, Want, Orders
  <1>. QED
    BY <1>5 DEF Mirror!Next

LEMMA StepMirror ==
    ASSUME TInv, [Next]_vars
    PROVE  [Mirror!Next]_<<Want, Orders, door>>
  <1>1. ASSUME NEW k \in Workers, NEW c \in Credentials,
               \/ Request(k, c)
               \/ GiveUp(k, c) \/ Expire(k, c) \/ Inventory(k, c)
        PROVE  UNCHANGED <<Want, Orders, door>>
    <2>1. /\ job[k].stage = "idle" /\ job'[k].stage # "calling"
          /\ UNCHANGED <<rows, door>>
          /\ \A l \in Workers \ {k} : job'[l] = job[l]
      BY <1>1 DEF Request, Takes, Issue, Reactivate, Revoke, Find, ChangeScope,
                  RegeneratePin, GiveUp, Expire, Inventory, Start, TInv, TypeOK
    <2>. QED
      BY <2>1, NoOrder
  <1>2. ASSUME NEW k \in Workers, Reschedule(k) \/ Reconcile(k) \/ Reject(k)
        PROVE  UNCHANGED <<Want, Orders, door>>
    <2>1. /\ job[k].stage # "calling" /\ job'[k].stage # "calling"
          /\ UNCHANGED <<rows, door>>
          /\ \A l \in Workers \ {k} : job'[l] = job[l]
      BY <1>2 DEF Reschedule, Reconcile, Reject, Continue, Stop, Idle, TInv, TypeOK
    <2>. QED
      BY <2>1, NoOrder
  <1>3. ASSUME NEW k \in Workers, OutOfPins(k) \/ \E p \in Pins : Conflict(k, p)
        PROVE  Mirror!Next
    <2>1. /\ job'[k].stage # "calling" /\ UNCHANGED <<rows, door>>
          /\ \A l \in Workers \ {k} : job'[l] = job[l]
      BY <1>3 DEF OutOfPins, Conflict, Continue, TInv, TypeOK
    <2>2. {k} \in SUBSET Workers
      OBVIOUS
    <2>. QED
      BY <2>1, <2>2, ForgetMirror
  <1>4. CASE Crash
    BY <1>4, ForgetMirror DEF Crash, Idle
  <1>5. CASE Elapse \/ UNCHANGED vars
    BY <1>5 DEF Elapse, vars, Want, Orders, Order
  <1>. QED
    BY <1>1, <1>2, <1>3, <1>4, <1>5, SaveMirror, TakeMirror, ObeyMirror, EditMirror
    DEF Next, Step, Cron, Edits

\* Whatever overlaps, fails, crashes or is tampered with, a terminal only comes to
\* hold what an order under way carries, and every order is what the table wanted
\* when it was taken: no PIN reaches a door that was not saved for it before.
THEOREM ImplementsMirror == Spec => MirrorSpec
  <1>1. TInv /\ [Next]_vars => [Mirror!Next]_<<Want, Orders, door>>
    BY StepMirror
  <1>2. Spec => []TInv
    BY InitTypes, NextTypes, PTL DEF Spec
  <1>. QED
    BY <1>1, <1>2, InitMirror, PTL DEF Spec, MirrorSpec, Mirror!Spec, Want, Orders

----------------------------------------------------------------------------
(* The invariant.  A worker that nobody has overtaken has in memory what    *)
(* the row says, but for its own change: a call carries the row, a save     *)
(* keeps revocations and PINs, and one that says synced says it of what the *)
(* terminals took.  Only the first save of a renewed PIN leaves a synced    *)
(* row that is not true, and the second one cannot be refused, since the    *)
(* index keeps the PINs of living rows apart.                               *)

Unsynced(k) ==
    \/ job[k].stage = "calling"
    \/ job[k].stage = "saving" /\ job[k].next \in {"push", "second", "fail"}
    => job[k].copy.sync # "synced"

KeepsRevoked(k) ==
    rows[job[k].cred].status = "revoked" =>
        \/ job[k].copy.status = "revoked"
        \/ /\ job[k].copy = Pend("pending", job[k].copy.pin, job[k].copy.until,
                                 job[k].copy.scope)
           /\ job[k].tries = 0

KeepsPin(k) ==
    Exists(job[k].cred) =>
        \/ job[k].copy.pin = rows[job[k].cred].pin
        \/ job[k].next = "mark" \/ job[k].tries > 0

Settled(k) ==
    job[k].next = "end" /\ job[k].copy.sync = "synced" =>
        /\ Wanted(job[k].copy) = Wanted(rows[job[k].cred])
        /\ job[k].cred \notin astray => door[job[k].cred] = Wanted(job[k].copy)

Second(k) ==
    job[k].next = "second" =>
        /\ job[k].copy.status = rows[job[k].cred].status
        /\ job[k].copy.pin = rows[job[k].cred].pin

Mine(k) ==
    k \notin stale =>
        /\ job[k].stage = "calling" => job[k].copy = rows[job[k].cred]
        /\ job[k].stage = "saving" =>
               KeepsRevoked(k) /\ KeepsPin(k) /\ Settled(k) /\ Second(k)

\* Between the two saves of regeneratePin().
Renewing(k, c) ==
    /\ job[k].stage = "saving" /\ job[k].next = "second" /\ job[k].cred = c
    /\ k \notin stale

Truth(c) ==
    rows[c].sync = "synced" /\ c \notin astray =>
        door[c] = Wanted(rows[c]) \/ \E k \in Workers : Renewing(k, c)

Unique(c) == ~Clash(c, rows[c])

IInv ==
    /\ TInv
    /\ \A k \in Workers : Unsynced(k) /\ Mine(k)
    /\ \A c \in Credentials : Truth(c) /\ Unique(c)

LEMMA InitIInv == Init => IInv
  <1>1. Init => \A k \in Workers : Unsynced(k) /\ Mine(k)
    BY DEF Init, Unsynced, Mine, Idle
  <1>2. Init => \A c \in Credentials : Truth(c) /\ Unique(c)
    BY DEF Init, Truth, Unique, Clash, Live, NoRow
  <1>. QED
    BY <1>1, <1>2, InitTypes DEF IInv

\* What becomes of the invariant when a worker changes only what it has in
\* memory, from a state in which it renews nothing.
LEMMA MemoryStep ==
    ASSUME IInv, TInv', NEW k \in Workers, UNCHANGED <<rows, door, astray>>,
           stale' = stale \/ stale' = stale \ {k},
           \A l \in Workers \ {k} : job'[l] = job[l],
           \A c \in Credentials : ~Renewing(k, c),
           Unsynced(k)', Mine(k)'
    PROVE  IInv'
  <1>1. ASSUME NEW l \in Workers PROVE Unsynced(l)' /\ Mine(l)'
    <2>1. CASE l = k
      BY <2>1
    <2>2. CASE l # k
      <3>1. job'[l] = job[l] /\ (l \notin stale' => l \notin stale)
        BY <2>2
      <3>2. Unsynced(l)'
        BY <3>1 DEF IInv, Unsynced
      <3>3. Mine(l)'
        BY <3>1 DEF IInv, Mine, KeepsRevoked, KeepsPin, Settled, Second, Exists
      <3>. QED
        BY <3>2, <3>3
    <2>. QED
      BY <2>1, <2>2
  <1>2. ASSUME NEW c \in Credentials PROVE Truth(c)'
    <2>1. ASSUME NEW l \in Workers, Renewing(l, c) PROVE Renewing(l, c)'
      BY <2>1 DEF Renewing
    <2>2. Truth(c)
      BY DEF IInv
    <2>. QED
      BY <2>1, <2>2 DEF Truth
  <1>3. \A c \in Credentials : Unique(c)'
    BY DEF IInv, Unique, Clash
  <1>. QED
    BY <1>1, <1>2, <1>3 DEF IInv

LEMMA StartIInv ==
    ASSUME IInv, TInv', NEW k \in Workers, NEW c \in Credentials,
           NEW copy \in Row, NEW stage \in {"found", "saving", "calling"},
           NEW next \in {"push", "mark", "end"},
           job[k].stage = "idle", Start(k, c, stage, copy, next),
           UNCHANGED <<rows, door, history>>,
           stage # "found" /\ next # "mark" => copy.sync # "synced",
           stage = "calling" => copy = rows[c] /\ next = "end",
           stage = "saving" =>
             /\ rows[c].status = "revoked" =>
                    \/ copy.status = "revoked"
                    \/ copy = Pend("pending", copy.pin, copy.until, copy.scope)
             /\ Exists(c) => copy.pin = rows[c].pin \/ next = "mark"
    PROVE  IInv'
  <1>1. job'[k] = [stage |-> stage, cred |-> c, copy |-> copy, next |-> next,
                   tries |-> 0, seen |-> Shut]
    BY DEF Start, IInv, TInv, TypeOK
  <1>2. Unsynced(k)'
    BY <1>1 DEF Unsynced
  <1>3. Mine(k)'
    BY <1>1 DEF Mine, KeepsRevoked, KeepsPin, Settled, Second, Exists
  <1>4. \A e \in Credentials : ~Renewing(k, e)
    BY DEF Renewing
  <1>5. \A l \in Workers \ {k} : job'[l] = job[l]
    BY DEF Start, IInv, TInv, TypeOK
  <1>. QED
    BY <1>2, <1>3, <1>4, <1>5, MemoryStep DEF history

\* The worker goes on to save what it changed in memory.
LEMMA ContinueIInv ==
    ASSUME IInv, TInv', NEW k \in Workers, NEW copy \in Row, NEW tries \in 0..Conflicts,
           NEW next \in {"push", "fail", "end"},
           Continue(k, "saving", copy, next, tries), copy.sync # "synced",
           UNCHANGED <<rows, door, stale, astray>>,
           \A c \in Credentials : ~Renewing(k, c),
           k \notin stale /\ rows[job[k].cred].status = "revoked" => copy.status = "revoked",
           k \notin stale /\ rows[job[k].cred].status # "none" =>
               copy.pin = rows[job[k].cred].pin \/ tries > 0
    PROVE  IInv'
  <1>1. job'[k] = [stage |-> "saving", cred |-> job[k].cred, copy |-> copy,
                   next |-> next, tries |-> tries, seen |-> Shut]
    BY DEF Continue, IInv, TInv, TypeOK
  <1>2. Unsynced(k)'
    BY <1>1 DEF Unsynced
  <1>3. Mine(k)'
    BY <1>1 DEF Mine, KeepsRevoked, KeepsPin, Settled, Second, Exists
  <1>4. \A l \in Workers \ {k} : job'[l] = job[l]
    BY DEF Continue, IInv, TInv, TypeOK
  <1>. QED
    BY <1>2, <1>3, <1>4, MemoryStep

LEMMA StopIInv ==
    ASSUME IInv, TInv', NEW k \in Workers, Stop(k),
           UNCHANGED <<rows, door, astray>>,
           stale' = stale \/ stale' = stale \ {k},
           \A c \in Credentials : ~Renewing(k, c)
    PROVE  IInv'
  <1>1. job'[k].stage = "idle"
    BY DEF Stop, Idle, IInv, TInv, TypeOK
  <1>2. Unsynced(k)' /\ Mine(k)'
    BY <1>1 DEF Unsynced, Mine
  <1>3. \A l \in Workers \ {k} : job'[l] = job[l]
    BY DEF Stop, IInv, TInv, TypeOK
  <1>. QED
    BY <1>2, <1>3, MemoryStep

LEMMA RequestIInv ==
    ASSUME IInv, NEW k \in Workers, NEW c \in Credentials, Request(k, c)
    PROVE  IInv'
  <1>. DEFINE row == rows[c]
  <1>1. TInv'
    BY RequestTypes DEF IInv
  <1>2. row \in Row /\ row.pin \in Pins \cup {NoPin} /\ row.until \in Nat
        /\ row.scope \in SUBSET Doors /\ row.attempts \in 0..MaxAttempts
        /\ row.status \in {"none", "pending", "active", "revoked", "expired"}
        /\ row.sync \in {"pending", "synced", "failed"}
    BY DEF IInv, TInv, TypeOK, Row
  <1>3. ASSUME NEW status \in {"none", "pending", "active", "revoked", "expired"},
               NEW pin \in Pins \cup {NoPin}, NEW until \in Nat, NEW scope \in SUBSET Doors,
               Start(k, c, "saving", Pend(status, pin, until, scope), "push"),
               job[k].stage = "idle", UNCHANGED <<rows, door, history>>,
               row.status = "revoked" => status \in {"revoked", "pending"},
               Exists(c) => pin = row.pin
        PROVE  IInv'
    <2>. DEFINE new == Pend(status, pin, until, scope)
    <2>1. new \in Row /\ new.sync = "pending" /\ new.pin = pin /\ new.status = status
          /\ (status = "pending" => new = Pend("pending", new.pin, new.until, new.scope))
      BY PendType DEF Pend
    <2>2. row.status = "revoked" =>
            new.status = "revoked" \/ new = Pend("pending", new.pin, new.until, new.scope)
      BY <1>3, <2>1
    <2>. HIDE DEF new
    <2>3. Start(k, c, "saving", new, "push")
      BY <1>3 DEF new
    <2>. QED
      BY <1>1, <1>3, <2>1, <2>2, <2>3, StartIInv
  <1>4. ASSUME NEW until \in Windows, NEW scope \in SUBSET Doors \ {{}}, NEW p \in Pins,
               Issue(k, c, p, until, scope)
        PROVE  IInv'
    BY <1>2, <1>3, <1>4 DEF Issue, Takes, Exists
  <1>5. ASSUME NEW until \in Windows, NEW scope \in SUBSET Doors \ {{}},
               Reactivate(k, c, until, scope)
        PROVE  IInv'
    BY <1>2, <1>3, <1>5 DEF Reactivate, Takes
  <1>6. CASE Revoke(k, c)
    BY <1>2, <1>3, <1>6 DEF Revoke, Takes
  <1>7. ASSUME NEW until \in Windows, Find(k, c, until)
        PROVE  IInv'
    <2>1. [NoRow EXCEPT !.until = until] \in Row
      BY NoRowType DEF Row
    <2>. QED
      BY <1>1, <1>7, <2>1, StartIInv DEF Find, Takes
  <1>8. ASSUME NEW scope \in SUBSET Doors \ {{}}, ChangeScope(k, c, scope)
        PROVE  IInv'
    BY <1>2, <1>3, <1>8 DEF ChangeScope, Takes, Live
  <1>9. ASSUME NEW p \in Pins, RegeneratePin(k, c, p)
        PROVE  IInv'
    <2>1. [status |-> row.status, pin |-> p, until |-> row.until,
           scope |-> row.scope, sync |-> row.sync, attempts |-> row.attempts] \in Row
      BY <1>2 DEF Row
    <2>. QED
      BY <1>1, <1>9, <2>1, StartIInv DEF RegeneratePin, Takes, Live
  <1>. QED
    BY <1>4, <1>5, <1>6, <1>7, <1>8, <1>9 DEF Request

LEMMA CronIInv ==
    ASSUME IInv, NEW k \in Workers, NEW c \in Credentials, Cron(k, c)
    PROVE  IInv'
  <1>. DEFINE row == rows[c]
  <1>1. TInv'
    BY CronTypes DEF IInv
  <1>2. row \in Row /\ row.pin \in Pins \cup {NoPin} /\ row.until \in Nat
        /\ row.scope \in SUBSET Doors /\ row.attempts \in 0..MaxAttempts
        /\ row.status \in {"none", "pending", "active", "revoked", "expired"}
    BY DEF IInv, TInv, TypeOK, Row
  <1>3. CASE Retry(k, c) \/ Purge(k, c)
    <2>1. Start(k, c, "calling", row, "end") /\ row.sync # "synced"
          /\ job[k].stage = "idle" /\ UNCHANGED <<rows, door, history>>
      BY <1>3 DEF Retry, InBatch, Purge
    <2>. QED
      BY <1>1, <1>2, <2>1, StartIInv
  <1>4. CASE GiveUp(k, c)
    <2>1. [status |-> row.status, pin |-> row.pin, until |-> row.until,
           scope |-> row.scope, sync |-> "failed", attempts |-> row.attempts] \in Row
      BY <1>2 DEF Row
    <2>. QED
      BY <1>1, <1>4, <2>1, StartIInv DEF GiveUp
  <1>5. CASE Expire(k, c)
    <2>. DEFINE new == Pend("expired", row.pin, row.until, row.scope)
    <2>1. new \in Row /\ new.sync = "pending" /\ new.pin = row.pin
      BY <1>2, PendType DEF Pend
    <2>2. Start(k, c, "saving", new, "end") /\ row.status # "revoked"
          /\ job[k].stage = "idle" /\ UNCHANGED <<rows, door, history>>
      BY <1>5 DEF Expire, Live
    <2>. HIDE DEF new
    <2>. QED
      BY <1>1, <2>1, <2>2, StartIInv
  <1>6. CASE Inventory(k, c)
    <2>1. /\ job'[k].stage = "comparing" /\ job[k].stage = "idle"
          /\ UNCHANGED <<rows, door, stale, astray>>
          /\ \A l \in Workers \ {k} : job'[l] = job[l]
      BY <1>6 DEF Inventory, IInv, TInv, TypeOK, history
    <2>2. Unsynced(k)' /\ Mine(k)' /\ \A e \in Credentials : ~Renewing(k, e)
      BY <2>1 DEF Unsynced, Mine, Renewing
    <2>. QED
      BY <1>1, <2>1, <2>2, MemoryStep
  <1>. QED
    BY <1>3, <1>4, <1>5, <1>6 DEF Cron

\* The index keeps the PINs of the living rows apart.
LEMMA SaveUnique ==
    ASSUME IInv, NEW c \in Credentials, NEW copy \in Row, ~Clash(c, copy),
           rows' = [rows EXCEPT ![c] = copy], NEW e \in Credentials
    PROVE  Unique(e)'
  <1>1. rows'[c] = copy /\ \A f \in Credentials \ {c} : rows'[f] = rows[f]
    BY DEF IInv, TInv, TypeOK
  <1>2. Unique(e)
    BY DEF IInv
  <1>3. CASE e = c
    BY <1>1, <1>3 DEF Unique, Clash
  <1>4. CASE e # c
    <2>1. SUFFICES ASSUME Live(rows[e]), NEW f \in Credentials \ {e}, Live(rows'[f]),
                          rows'[f].pin = rows[e].pin
                   PROVE  FALSE
      BY <1>1, <1>4 DEF Unique, Clash
    <2>2. CASE f = c
      BY <1>1, <1>4, <2>1, <2>2 DEF Clash
    <2>3. CASE f # c
      BY <1>1, <1>2, <2>1, <2>3 DEF Unique, Clash
    <2>. QED
      BY <2>2, <2>3
  <1>. QED
    BY <1>3, <1>4

LEMMA SaveIInv ==
    ASSUME IInv, NEW k \in Workers, Save(k)
    PROVE  IInv'
  <1>. DEFINE j == job[k]
  <1>1. j \in Job /\ j.copy \in Row /\ j.cred \in Credentials /\ j.stage = "saving"
        /\ rows' = [rows EXCEPT ![j.cred] = j.copy] /\ door' = door
        /\ ~Clash(j.cred, j.copy) /\ Unsynced(k) /\ Mine(k) /\ j.tries \in 0..Conflicts
    BY DEF IInv, TInv, TypeOK, Busy, Save, Job
  <1>. PICK c \in Credentials : c = j.cred
    BY <1>1
  <1>2. TInv'
    BY SaveTypes DEF IInv
  <1>3. rows'[c] = j.copy /\ \A e \in Credentials \ {c} : rows'[e] = rows[e]
    BY <1>1 DEF IInv, TInv, TypeOK
  <1>4. /\ k \notin stale'
        /\ astray' = IF k \in stale THEN astray \cup {c} ELSE astray
        /\ \A l \in Workers \ {k} :
             /\ job'[l] = job[l]
             /\ l \notin stale' => l \notin stale
                  /\ (job[l].stage \in {"saving", "calling"} => job[l].cred # c)
             /\ job[l].cred # c /\ l \notin stale => l \notin stale'
    BY DEF Save, Overtaken, Continue, Stop, IInv, TInv, TypeOK
  <1>5. ASSUME NEW l \in Workers \ {k} PROVE Unsynced(l)' /\ Mine(l)'
    <2>1. Unsynced(l) /\ Mine(l) /\ job'[l] = job[l]
      BY <1>4 DEF IInv
    <2>2. Unsynced(l)'
      BY <2>1 DEF Unsynced
    <2>3. ASSUME l \notin stale', job[l].stage \in {"saving", "calling"}
          PROVE  /\ l \notin stale /\ rows'[job[l].cred] = rows[job[l].cred]
                 /\ (job[l].cred \in astray' <=> job[l].cred \in astray)
      <3>1. job[l].cred \in Credentials \ {c}
        BY <1>4, <2>3 DEF IInv, TInv, Busy
      <3>. QED
        BY <1>3, <1>4, <2>3, <3>1
    <2>4. Mine(l)'
      BY <1>1, <2>1, <2>3 DEF Mine, KeepsRevoked, KeepsPin, Settled, Second, Exists
    <2>. QED
      BY <2>2, <2>4
  <1>6. ASSUME NEW e \in Credentials \ {c} PROVE Truth(e)'
    <2>1. ASSUME NEW l \in Workers, Renewing(l, e) PROVE Renewing(l, e)'
      BY <1>4, <2>1 DEF Renewing
    <2>2. Truth(e) /\ rows'[e] = rows[e] /\ door'[e] = door[e] /\ (e \in astray => e \in astray')
      BY <1>1, <1>3, <1>4 DEF IInv
    <2>. QED
      BY <2>1, <2>2 DEF Truth
  <1>7. \A e \in Credentials : Unique(e)'
    BY <1>1, SaveUnique
  <1>8. ASSUME Unsynced(k)', Mine(k)', Truth(c)'
        PROVE  IInv'
    BY <1>2, <1>5, <1>6, <1>7, <1>8 DEF IInv
  <1>9. CASE j.next \in {"push", "second"} /\ Continue(k, "calling", j.copy, "end", j.tries)
    <2>1. job'[k].stage = "calling" /\ job'[k].copy = j.copy /\ job'[k].cred = c
      BY <1>9 DEF Continue, IInv, TInv, TypeOK
    <2>2. j.copy.sync # "synced"
      BY <1>1, <1>9 DEF Unsynced
    <2>3. Unsynced(k)' /\ Mine(k)'
      BY <1>3, <2>1, <2>2 DEF Unsynced, Mine
    <2>4. Truth(c)'
      BY <1>3, <2>2 DEF Truth
    <2>. QED
      BY <1>8, <2>3, <2>4
  <1>10. CASE j.next = "mark"
              /\ Continue(k, "saving", Pend(j.copy.status, j.copy.pin, j.copy.until,
                                            j.copy.scope), "second", 0)
    <2>. PICK new \in Row : new = Pend(j.copy.status, j.copy.pin, j.copy.until, j.copy.scope)
      BY <1>1, PendType DEF Row
    <2>1. job'[k].stage = "saving" /\ job'[k].copy = new /\ job'[k].cred = c
          /\ job'[k].next = "second"
      BY <1>10 DEF Continue, IInv, TInv, TypeOK
    <2>2. new.sync = "pending" /\ new.status = j.copy.status /\ new.pin = j.copy.pin
      BY DEF Pend
    <2>3. Unsynced(k)'
      BY <2>1, <2>2 DEF Unsynced
    <2>4. Mine(k)'
      BY <1>3, <2>1, <2>2 DEF Mine, KeepsRevoked, KeepsPin, Settled, Second, Exists
    <2>5. Renewing(k, c)'
      BY <1>4, <2>1 DEF Renewing
    <2>6. Truth(c)'
      BY <2>5 DEF Truth
    <2>. QED
      BY <1>8, <2>3, <2>4, <2>6
  <1>11. CASE j.next = "fail"
              /\ Continue(k, "saving", Applied(j.copy, "failed"), "end", j.tries)
    <2>. PICK new \in Row : new = Applied(j.copy, "failed")
      BY <1>1, AppliedType
    <2>1. job'[k].stage = "saving" /\ job'[k].copy = new /\ job'[k].cred = c
          /\ job'[k].next = "end"
      BY <1>11 DEF Continue, IInv, TInv, TypeOK
    <2>2. new.sync = "failed" /\ new.status = j.copy.status /\ new.pin = j.copy.pin
      BY DEF Applied
    <2>3. Unsynced(k)'
      BY <2>1, <2>2 DEF Unsynced
    <2>4. Mine(k)'
      BY <1>3, <2>1, <2>2 DEF Mine, KeepsRevoked, KeepsPin, Settled, Second, Exists
    <2>5. Truth(c)'
      BY <1>1, <1>3, <1>11 DEF Unsynced, Truth
    <2>. QED
      BY <1>8, <2>3, <2>4, <2>5
  <1>12. CASE j.next = "end" /\ Stop(k)
    <2>1. job'[k].stage = "idle"
      BY <1>12 DEF Stop, Idle, IInv, TInv, TypeOK
    <2>2. Unsynced(k)' /\ Mine(k)'
      BY <2>1 DEF Unsynced, Mine
    <2>3. Truth(c)'
      <3>1. SUFFICES ASSUME j.copy.sync = "synced", c \notin astray'
                     PROVE  door[c] = Wanted(j.copy)
        BY <1>1, <1>3 DEF Truth
      <3>2. k \notin stale /\ c \notin astray
        BY <1>4, <3>1
      <3>. QED
        BY <1>1, <1>12, <3>1, <3>2 DEF Mine, Settled
    <2>. QED
      BY <1>8, <2>2, <2>3
  <1>. QED
    BY <1>9, <1>10, <1>11, <1>12 DEF Save

LEMMA CallIInv ==
    ASSUME IInv, NEW k \in Workers, NEW reached \in SUBSET Doors,
           NEW answer \in Answers, Call(k, reached, answer)
    PROVE  IInv'
  <1>. DEFINE j == job[k]
  <1>. PICK new : new = Applied(j.copy, answer)
    OBVIOUS
  <1>1. j.copy \in Row /\ j.cred \in Credentials /\ j.stage = "calling" /\ rows' = rows
        /\ stale' = stale /\ Mine(k) /\ j.copy.sync # "synced"
    BY DEF IInv, TInv, TypeOK, Busy, Call, Job, Unsynced
  <1>. PICK c \in Credentials : c = j.cred
    BY <1>1
  <1>2. TInv'
    BY StepTypes DEF IInv, Step
  <1>3. job'[k] = [stage |-> "saving", cred |-> c, copy |-> new, next |-> "end",
                   tries |-> j.tries, seen |-> Shut]
        /\ \A l \in Workers \ {k} : job'[l] = job[l]
    BY DEF Call, Continue, IInv, TInv, TypeOK
  <1>4. door'[c] = [d \in Doors |-> IF d \in reached THEN Wanted(j.copy)[d] ELSE door[c][d]]
        /\ \A e \in Credentials \ {c} : door'[e] = door[e]
    BY DEF Call, IInv, TInv, TypeOK
  <1>5. /\ k \in stale => c \in astray'
        /\ \A e \in Credentials \ {c} : e \in astray' <=> e \in astray
        /\ c \notin astray' => c \notin astray \/ answer = "written"
    BY DEF Call
  <1>6. answer = "written" => door'[c] = Wanted(j.copy)
    <2>1. SUFFICES ASSUME answer = "written" PROVE door'[c] = Wanted(j.copy)
      OBVIOUS
    <2>2. door'[c] = [d \in Doors |-> Wanted(j.copy)[d]]
      BY <1>4, <2>1 DEF Call
    <2>. QED
      BY <2>2 DEF Wanted
  <1>7. door[c] = Wanted(j.copy) => door'[c] = Wanted(j.copy)
    <2>1. SUFFICES ASSUME door[c] = Wanted(j.copy) PROVE door'[c] = Wanted(j.copy)
      OBVIOUS
    <2>2. door'[c] = [d \in Doors |-> Wanted(j.copy)[d]]
      BY <1>4, <2>1
    <2>. QED
      BY <2>2 DEF Wanted
  <1>8. new.sync = "synced" => answer = "written" /\ Wanted(new) = Wanted(j.copy)
    <2>1. SUFFICES ASSUME new.sync = "synced"
                   PROVE  answer = "written" /\ Wanted(new) = Wanted(j.copy)
      OBVIOUS
    <2>2. answer = "written"
      BY <1>1, <2>1 DEF Applied, Answers
    <2>3. Live(new) = Live(j.copy) /\ new.pin = j.copy.pin /\ new.until = j.copy.until
          /\ new.scope = j.copy.scope
      BY <2>2 DEF Applied, Live
    <2>. QED
      BY <2>2, <2>3 DEF Wanted
  <1>9. Unsynced(k)'
    BY <1>3 DEF Unsynced
  <1>10. Mine(k)'
    <2>1. SUFFICES ASSUME k \notin stale
                   PROVE  KeepsRevoked(k)' /\ KeepsPin(k)' /\ Settled(k)' /\ Second(k)'
      BY <1>1, <1>3 DEF Mine
    <2>2. j.copy = rows[c]
      BY <1>1, <2>1 DEF Mine
    <2>3. KeepsRevoked(k)' /\ KeepsPin(k)' /\ Second(k)'
      BY <1>1, <1>3, <2>2 DEF KeepsRevoked, KeepsPin, Second, Exists, Applied
    <2>4. new.sync = "synced" => Wanted(new) = Wanted(rows[c]) /\ door'[c] = Wanted(new)
      BY <1>6, <1>8, <2>2
    <2>5. Settled(k)'
      BY <1>1, <1>3, <2>4 DEF Settled
    <2>. QED
      BY <2>3, <2>5
  <1>11. ASSUME NEW l \in Workers \ {k} PROVE Unsynced(l)' /\ Mine(l)'
    <2>1. Unsynced(l) /\ Mine(l) /\ job'[l] = job[l]
      BY <1>3 DEF IInv
    <2>2. Unsynced(l)'
      BY <2>1 DEF Unsynced
    <2>3. ASSUME l \notin stale, job[l].stage = "saving", job[l].next = "end",
                 job[l].copy.sync = "synced"
          PROVE  Settled(l)'
      <3>1. job[l].cred \in Credentials /\ Settled(l)
        BY <2>1, <2>3 DEF IInv, TInv, Busy, Mine
      <3>2. CASE job[l].cred = c
        <4>1. SUFFICES ASSUME c \notin astray' PROVE door'[c] = Wanted(job[l].copy)
          BY <1>1, <2>1, <3>1, <3>2 DEF Settled
        <4>2. k \notin stale
          BY <1>5, <4>1
        <4>3. j.copy = rows[c]
          BY <1>1, <4>2 DEF Mine
        <4>4. Wanted(job[l].copy) = Wanted(j.copy)
          BY <2>3, <3>1, <3>2, <4>3 DEF Settled
        <4>5. answer = "written" \/ door[c] = Wanted(j.copy)
          BY <1>5, <2>3, <3>1, <3>2, <4>1, <4>4 DEF Settled
        <4>. QED
          BY <1>6, <1>7, <4>4, <4>5
      <3>3. CASE job[l].cred # c
        BY <1>1, <1>4, <1>5, <2>1, <3>1, <3>3 DEF Settled
      <3>. QED
        BY <3>2, <3>3
    <2>4. job[l].stage = "saving" /\ l \notin stale => Settled(l)'
      BY <2>1, <2>3 DEF Settled
    <2>5. Mine(l)'
      BY <1>1, <2>1, <2>4 DEF Mine, KeepsRevoked, KeepsPin, Second, Exists
    <2>. QED
      BY <2>2, <2>5
  <1>12. ASSUME NEW e \in Credentials PROVE Truth(e)'
    <2>1. ASSUME NEW l \in Workers, Renewing(l, e) PROVE Renewing(l, e)'
      BY <1>1, <1>3, <2>1 DEF Renewing
    <2>2. CASE e = c /\ k \notin stale
      <3>1. rows'[e].sync # "synced"
        BY <1>1, <2>2 DEF Mine
      <3>. QED
        BY <3>1 DEF Truth
    <2>3. CASE e = c /\ k \in stale
      BY <1>5, <2>3 DEF Truth
    <2>4. CASE e # c
      <3>1. Truth(e) /\ door'[e] = door[e] /\ (e \in astray <=> e \in astray')
        BY <1>4, <1>5, <2>4 DEF IInv
      <3>. QED
        BY <1>1, <2>1, <3>1 DEF Truth
    <2>. QED
      BY <2>2, <2>3, <2>4
  <1>13. \A e \in Credentials : Unique(e)'
    BY <1>1 DEF IInv, Unique, Clash
  <1>. QED
    BY <1>2, <1>9, <1>10, <1>11, <1>12, <1>13 DEF IInv

LEMMA StepIInv ==
    ASSUME IInv, NEW k \in Workers, Step(k)
    PROVE  IInv'
  <1>. DEFINE j == job[k]
  <1>1. j \in Job /\ j.copy \in Row /\ (j.stage # "idle" => j.cred \in Credentials)
        /\ Unsynced(k) /\ Mine(k) /\ j.tries \in 0..Conflicts
        /\ (j.stage = "calling" => j.tries < Conflicts)
    BY DEF IInv, TInv, TypeOK, Busy, Job
  <1>2. TInv' /\ 0 \in 0..Conflicts
    BY StepTypes DEF IInv
  <1>3. j.stage # "saving" => \A e \in Credentials : ~Renewing(k, e)
    BY DEF Renewing
  <1>4. CASE Reschedule(k)
    <2>. DEFINE row == rows[j.cred]
                new == Pend(row.status, row.pin, j.copy.until, row.scope)
    <2>1. row \in Row
      BY <1>1, <1>4 DEF Reschedule, IInv, TInv, TypeOK
    <2>2. new \in Row /\ new.sync = "pending" /\ new.status = row.status /\ new.pin = row.pin
      BY <1>1, <2>1, PendType DEF Pend, Row
    <2>3. j.stage = "found" /\ Continue(k, "saving", new, "push", 0)
          /\ UNCHANGED <<rows, door, stale, astray>>
      BY <1>4 DEF Reschedule, history
    <2>. HIDE DEF new
    <2>. QED
      BY <1>2, <1>3, <2>2, <2>3, ContinueIInv
  <1>5. CASE Reconcile(k)
    <2>. DEFINE row == rows[j.cred]
                new == Pend(row.status, row.pin, row.until, row.scope)
    <2>1. j.stage = "comparing" /\ UNCHANGED <<rows, door, stale, astray>>
          /\ (Continue(k, "saving", new, "end", 0) \/ Stop(k))
      BY <1>5 DEF Reconcile, history
    <2>2. row \in Row
      BY <1>1, <2>1 DEF IInv, TInv, TypeOK
    <2>3. new \in Row /\ new.sync = "pending" /\ new.status = row.status /\ new.pin = row.pin
      BY <2>2, PendType DEF Pend, Row
    <2>. HIDE DEF new
    <2>. QED
      BY <1>2, <1>3, <2>1, <2>3, ContinueIInv, StopIInv
  <1>6. CASE Save(k)
    BY <1>6, SaveIInv
  <1>7. CASE Reject(k)
    <2>. PICK new \in Row : new = Applied(j.copy, "lost")
      BY <1>1, AppliedType
    <2>1. new.sync = "pending" /\ new.status = j.copy.status /\ new.pin = j.copy.pin
      BY DEF Applied
    <2>2. j.stage = "saving" /\ Clash(j.cred, j.copy) /\ UNCHANGED <<rows, door, astray>>
          /\ j.cred \in Credentials
      BY <1>1, <1>7 DEF Reject
    <2>3. ASSUME NEW e \in Credentials, Renewing(k, e) PROVE FALSE
      <3>1. j.copy.status = rows[e].status /\ j.copy.pin = rows[e].pin /\ e = j.cred
        BY <1>1, <2>3 DEF Renewing, Mine, Second
      <3>2. Unique(e)
        BY DEF IInv
      <3>. QED
        BY <2>2, <3>1, <3>2 DEF Unique, Clash, Live
    <2>4. CASE j.tries > 0 /\ Continue(k, "saving", new, "end", j.tries) /\ UNCHANGED stale
      <3>1. k \notin stale /\ rows[j.cred].status = "revoked" => new.status = "revoked"
        BY <1>1, <2>1, <2>2, <2>4 DEF Mine, KeepsRevoked
      <3>. QED
        BY <1>1, <1>2, <2>1, <2>2, <2>3, <2>4, <3>1, ContinueIInv
    <2>5. CASE Stop(k) /\ stale' = stale \ {k}
      BY <1>2, <2>2, <2>3, <2>5, StopIInv
    <2>. QED
      BY <1>7, <2>4, <2>5 DEF Reject
  <1>8. CASE OutOfPins(k)
    <2>. PICK new \in Row : new = Applied(j.copy, "lost")
      BY <1>1, AppliedType
    <2>1. new.sync = "pending" /\ new.status = j.copy.status /\ new.pin = j.copy.pin
      BY DEF Applied
    <2>2. j.stage = "calling" /\ UNCHANGED <<rows, door, stale, astray>>
          /\ Continue(k, "saving", new, "end", j.tries)
      BY <1>8 DEF OutOfPins, history
    <2>3. k \notin stale => j.copy = rows[j.cred]
      BY <1>1, <2>2 DEF Mine
    <2>. QED
      BY <1>1, <1>2, <1>3, <2>1, <2>2, <2>3, ContinueIInv
  <1>9. ASSUME NEW reached \in SUBSET Doors, NEW answer \in Answers, Call(k, reached, answer)
        PROVE  IInv'
    BY <1>9, CallIInv
  <1>10. ASSUME NEW p \in Pins, Conflict(k, p)
         PROVE  IInv'
    <2>. DEFINE new == [status |-> j.copy.status, pin |-> p, until |-> j.copy.until,
                        scope |-> j.copy.scope, sync |-> j.copy.sync,
                        attempts |-> j.copy.attempts]
    <2>1. new \in Row /\ new.status = j.copy.status /\ new.sync = j.copy.sync
      BY <1>1 DEF Row
    <2>2. j.stage = "calling" /\ UNCHANGED <<rows, door, stale, astray>> /\ Live(j.copy)
          /\ \E next \in {"push", "fail"} : Continue(k, "saving", new, next, j.tries + 1)
      BY <1>10 DEF Conflict, history
    <2>3. new.sync # "synced" /\ new.status # "revoked"
      BY <1>1, <2>1, <2>2 DEF Unsynced, Live
    <2>4. j.tries + 1 \in 0..Conflicts /\ j.tries + 1 > 0
      BY <1>1, <2>2
    <2>5. k \notin stale => rows[j.cred].status # "revoked"
      BY <1>1, <2>2 DEF Mine, Live
    <2>. HIDE DEF new
    <2>. QED
      BY <1>2, <1>3, <2>1, <2>2, <2>3, <2>4, <2>5, ContinueIInv
  <1>. QED
    BY <1>4, <1>5, <1>6, <1>7, <1>8, <1>9, <1>10 DEF Step

\* The steps that belong to no worker: the clock and a hand on a terminal.
LEMMA OutsideIInv ==
    ASSUME IInv, TInv', UNCHANGED <<rows, job, stale>>,
           \A c \in Credentials : c \notin astray' => c \notin astray /\ door'[c] = door[c]
    PROVE  IInv'
  <1>1. ASSUME NEW k \in Workers PROVE Unsynced(k)' /\ Mine(k)'
    <2>1. Unsynced(k) /\ Mine(k)
          /\ (job[k].stage # "idle" => job[k].cred \in Credentials)
      BY DEF IInv, TInv, Busy
    <2>. QED
      BY <2>1 DEF Unsynced, Mine, KeepsRevoked, KeepsPin, Settled, Second, Exists
  <1>2. ASSUME NEW c \in Credentials PROVE Truth(c)'
    <2>1. Truth(c) /\ \A k \in Workers : Renewing(k, c) => Renewing(k, c)'
      BY DEF IInv, Renewing
    <2>. QED
      BY <2>1 DEF Truth
  <1>3. \A c \in Credentials : Unique(c)'
    BY DEF IInv, Unique, Clash
  <1>. QED
    BY <1>1, <1>2, <1>3 DEF IInv

LEMMA NextIInv == IInv /\ [Next]_vars => IInv'
  <1>. SUFFICES ASSUME IInv, [Next]_vars PROVE IInv'
    OBVIOUS
  <1>. TInv'
    BY NextTypes DEF IInv
  <1>1. ASSUME NEW k \in Workers, NEW c \in Credentials, Request(k, c) \/ Cron(k, c)
        PROVE  IInv'
    BY <1>1, RequestIInv, CronIInv
  <1>2. ASSUME NEW k \in Workers, Step(k) PROVE IInv'
    BY <1>2, StepIInv
  <1>3. CASE Elapse \/ UNCHANGED vars
    <2>1. UNCHANGED <<rows, door, job, stale, astray>>
      BY <1>3 DEF Elapse, vars, history
    <2>. QED
      BY <2>1, OutsideIInv
  <1>4. CASE Crash
    <2>1. UNCHANGED <<rows, door>> /\ stale' = {} /\ astray \subseteq astray'
          /\ \A k \in Workers : job'[k].stage = "idle"
      BY <1>4 DEF Crash, Idle
    <2>2. ASSUME NEW k \in Workers, NEW c \in Credentials, Renewing(k, c)
          PROVE  c \in astray'
      BY <1>4, <2>2 DEF Crash, Renewing
    <2>3. ASSUME NEW k \in Workers PROVE Unsynced(k)' /\ Mine(k)'
      BY <2>1 DEF Unsynced, Mine
    <2>4. ASSUME NEW c \in Credentials PROVE Truth(c)'
      <3>1. Truth(c)
        BY DEF IInv
      <3>. QED
        BY <2>1, <2>2, <3>1 DEF Truth
    <2>5. \A c \in Credentials : Unique(c)'
      BY <2>1 DEF IInv, Unique, Clash
    <2>. QED
      BY <2>3, <2>4, <2>5 DEF IInv
  <1>5. ASSUME NEW c \in Credentials, NEW d \in Doors, NEW entry, Tamper(c, d, entry)
        PROVE  IInv'
    <2>1. UNCHANGED <<rows, job, stale>> /\ astray' = astray \cup {c}
          /\ \A e \in Credentials \ {c} : door'[e] = door[e]
      BY <1>5 DEF Tamper, IInv, TInv, TypeOK
    <2>. QED
      BY <2>1, OutsideIInv
  <1>. QED
    BY <1>1, <1>2, <1>3, <1>4, <1>5 DEF Next

LEMMA IInvAlways == Spec => []IInv
  BY InitIInv, NextIInv, PTL DEF Spec

\* However operations overlap, a row at rest that says synced tells what the
\* terminals hold, unless an overtaken worker, a hand on a terminal or a crash
\* inside a renewal has left it in disorder since they last took it.
THEOREM SyncedTruthfully == Spec => []SyncedTellsTheDoor
  <1>1. IInv => SyncedTellsTheDoor
    <2>. SUFFICES ASSUME IInv, NEW c \in Credentials, rows[c].sync = "synced", AtRest(c),
                         c \notin astray
                  PROVE  door[c] = Wanted(rows[c])
      BY DEF SyncedTellsTheDoor
    <2>. QED
      BY DEF IInv, Truth, Renewing, AtRest
  <1>. QED
    BY <1>1, IInvAlways, PTL

----------------------------------------------------------------------------
(* Who undoes a revocation or changes a PIN.                                *)

\* Only a save changes a row, and only the one of its worker.
LEMMA OnlySavesChange ==
    ASSUME TInv, [Next]_vars, NEW c \in Credentials, rows'[c] # rows[c]
    PROVE  \E k \in Workers :
               /\ job[k].stage = "saving" /\ job[k].cred = c
               /\ rows'[c] = job[k].copy
  <1>1. ASSUME NEW k \in Workers, NEW e \in Credentials, Request(k, e) \/ Cron(k, e)
        PROVE  FALSE
    BY <1>1 DEF Request, Issue, Reactivate, Revoke, Find, ChangeScope, RegeneratePin, Cron,
                Retry, GiveUp, Expire, Purge, Inventory
  <1>2. ASSUME NEW k \in Workers, Step(k), ~Save(k)
        PROVE  FALSE
    BY <1>2 DEF Step, Reschedule, Reconcile, Reject, OutOfPins, Call, Conflict
  <1>3. PICK k \in Workers : Save(k)
    BY <1>1, <1>2 DEF Next, Elapse, Crash, Tamper, vars
  <1>. QED
    BY <1>3 DEF Save, TInv, TypeOK

\* With any number of operations under way, a saved revocation is undone only by
\* reactivate() or by a worker that had loaded the row before.
THEOREM RevocationStands == Spec => RevocationUndoneByOvertaken
  <1>1. IInv /\ [Next]_vars =>
          [\A c \in Credentials :
             RevokedOrRestored(c) \/ \E k \in Workers : SavesOver(k, c)]_vars
    <2>. SUFFICES ASSUME IInv, [Next]_vars, NEW c \in Credentials, ~RevokedOrRestored(c)
                  PROVE  \E k \in Workers : SavesOver(k, c)
      OBVIOUS
    <2>1. rows[c].status = "revoked" /\ rows'[c].status # "revoked"
          /\ rows'[c] # Pend("pending", rows'[c].pin, rows'[c].until, rows'[c].scope)
      BY DEF RevokedOrRestored
    <2>2. PICK k \in Workers : job[k].stage = "saving" /\ job[k].cred = c
                               /\ rows'[c] = job[k].copy
      BY <2>1, OnlySavesChange DEF IInv
    <2>3. k \in stale
      BY <2>1, <2>2 DEF IInv, Mine, KeepsRevoked
    <2>. QED
      BY <2>2, <2>3 DEF SavesOver
  <1>. QED
    BY <1>1, IInvAlways, PTL DEF Spec, RevocationUndoneByOvertaken

\* With any number of operations under way, the PIN of an issued row only changes
\* in a renewal, on the way out of a conflict, or back, when a worker saves an
\* object it loaded before the row was changed.
THEOREM RotationOnly == Spec => PinChangesByRotation
  <1>1. IInv /\ [Next]_vars =>
          [\A c \in Credentials :
             Exists(c) /\ rows'[c].pin # rows[c].pin =>
               \E k \in Workers : Rotates(k, c) \/ SavesOver(k, c)]_vars
    <2>. SUFFICES ASSUME IInv, [Next]_vars, NEW c \in Credentials,
                         Exists(c), rows'[c].pin # rows[c].pin
                  PROVE  \E k \in Workers : Rotates(k, c) \/ SavesOver(k, c)
      OBVIOUS
    <2>1. PICK k \in Workers : job[k].stage = "saving" /\ job[k].cred = c
                               /\ rows'[c] = job[k].copy
      BY OnlySavesChange DEF IInv
    <2>2. CASE k \in stale
      BY <2>1, <2>2 DEF SavesOver
    <2>3. CASE k \notin stale
      BY <2>1, <2>3 DEF IInv, Mine, KeepsPin, Rotates
    <2>. QED
      BY <2>2, <2>3
  <1>. QED
    BY <1>1, IInvAlways, PTL DEF Spec, PinChangesByRotation

=============================================================================
