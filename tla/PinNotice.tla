------------------------------ MODULE PinNotice ------------------------------
(***************************************************************************)
(* The message that tells a guest the PIN (access-control/                 *)
(* guest-pin-notice.service.ts) and the two panel operations that send one *)
(* (authorizations.service.ts).                                            *)
(*                                                                         *)
(* A pass every ten minutes takes a batch of credentials that are at the   *)
(* door and whose PIN has no notice, and tells them one by one; nothing    *)
(* keeps it from overlapping the previous pass or the supervisor.  Each    *)
(* notice reads, checks, sends and records in that order, with an await    *)
(* between any two.  The push of a PIN to the door is CredentialSync's:    *)
(* here it happens, or not.                                                *)
(***************************************************************************)
EXTENDS Integers, FiniteSets

CONSTANTS
    Processes,      \* requests and passes under way at the same time
    Stays,          \* channel reservations; direct ones get no notice
    Credentials,    \* rows of access_credential of their guests
    StayOf,         \* the stay of each credential
    Scope,          \* and its scope
    NoStay, NoCredential,   \* nothing chosen yet
    Batch,          \* BATCH_SIZE
    MaxPin,         \* bound of the model: renewals of one PIN
    Operations,     \* what the outside may do, out of AllOperations
    MaxOps          \* bound of the model on those operations

\* renew and resend by the supervisor, a credential revoked, a stay that ends,
\* a send that fails, a statement of Postgres that fails, a restart.
AllOperations == {"renew", "resend", "revoke", "end", "down", "fault", "crash"}

ASSUME StayOfAssumption == StayOf \in [Credentials -> Stays]
ASSUME ScopeAssumption == Scope \in [Credentials -> {"both", "pedestrian", "vehicular"}]
ASSUME BoundsAssumption == Batch \in Nat \ {0} /\ MaxPin \in Nat /\ MaxOps \in Nat
ASSUME NothingAssumption == NoStay \notin Stays /\ NoCredential \notin Credentials

VARIABLES
    cred,           \* rows of access_credential: live, synced, PIN fingerprint
    current,        \* stays that are pending or active
    handled,        \* table guest_pin_notice: PINs with a row "sent"
    cooling,        \* the same: PINs whose last row is "failed" and recent
    reachable,      \* external: stays whose conversation Hostaway finds
    received,       \* external: PINs the guests have been told
    job,            \* what each process works on, and where it waits
    twice,          \* history: PINs told again without being asked to
    excused,        \* history: something lost a record, or two notices overlapped
    ops             \* bound of the model: operations of the outside so far

vars == <<cred, current, handled, cooling, reachable, received, job, twice, excused, ops>>

Pins == 0..MaxPin
Told == Credentials \X Pins

Job == [stage: {"idle", "next", "reading", "picking", "checking", "waiting", "sending",
                "recording", "marking", "pushing"},
        op: {"none", "sweep", "renew", "resend"},
        todo: SUBSET Stays, stay: Stays \cup {NoStay},
        cred: Credentials \cup {NoCredential}, pin: Pins, ok: BOOLEAN]

At(stage, op, todo, s, c, pin, ok) ==
    [stage |-> stage, op |-> op, todo |-> todo, stay |-> s, cred |-> c, pin |-> pin,
     ok |-> ok]
Idle == At("idle", "none", {}, NoStay, NoCredential, 0, FALSE)

LiveOf(s) == {c \in Credentials : StayOf[c] = s /\ cred[c].live}

\* pickGuestCredential(): both, then pedestrian, then vehicular.
Pick(s) ==
    {c \in LiveOf(s) : \/ Scope[c] = "both"
                       \/ Scope[c] = "pedestrian" /\ \A d \in LiveOf(s) : Scope[d] # "both"
                       \/ \A d \in LiveOf(s) : Scope[d] = "vehicular"}

\* pendingStayIds(): whatever pickGuestCredential() would say of the stay.
Pending ==
    {c \in Credentials : /\ cred[c].live /\ cred[c].synced /\ StayOf[c] \in current
                         /\ <<c, cred[c].pin>> \notin handled}

Init ==
    /\ cred = [c \in Credentials |-> [live |-> TRUE, synced |-> TRUE, pin |-> 0]]
    /\ current = Stays
    /\ handled = {} /\ cooling = {}
    /\ reachable \in SUBSET Stays
    /\ received = {}
    /\ job = [p \in Processes |-> Idle]
    /\ twice = {} /\ excused = FALSE
    /\ ops = 0

-----------------------------------------------------------------------------
(* The bookkeeping of a step.                                              *)

Spend(operation) == operation \in Operations /\ ops < MaxOps /\ ops' = ops + 1

Is(p, stage) == job[p].stage = stage
Turns(p, j) == job' = [job EXCEPT ![p] = j]
Goes(p, stage) == Turns(p, [job[p] EXCEPT !.stage = stage])

\* A notice ends, told or not: notify() never throws.  The pass goes on.
Ends(p) == IF job[p].op = "sweep" THEN Goes(p, "next") ELSE Turns(p, Idle)

\* Somebody else is at a notice already: two of them may overlap.
Overlaps(p) == \E q \in Processes \ {p} : job[q].stage # "idle"

Rows == <<cred, current>>
Notices == <<handled, cooling>>
Outside == <<reachable, received, twice>>

-----------------------------------------------------------------------------
(* The pass.                                                               *)

\* sweep(): a query, at most Batch credentials, the least recently updated
\* first.  Which these are is left open.
SweepStart(p) ==
    /\ Is(p, "idle")
    /\ Pending # {}
    /\ \E batch \in SUBSET Pending :
         /\ Cardinality(batch) <= Batch
         /\ Cardinality(batch) = Batch \/ batch = Pending
         /\ Turns(p, At("next", "sweep", {StayOf[c] : c \in batch}, NoStay, NoCredential,
                        0, FALSE))
    /\ excused' = (excused \/ Overlaps(p))
    /\ UNCHANGED <<Rows, Notices, Outside, ops>>

\* The next stay of the batch, if there is one.
NextStay(p) ==
    /\ Is(p, "next")
    /\ \/ /\ job[p].todo = {}
          /\ Turns(p, Idle)
       \/ \E s \in job[p].todo :
            Turns(p, At("reading", "sweep", job[p].todo \ {s}, s, NoCredential, 0, FALSE))
    /\ UNCHANGED <<Rows, Notices, Outside, excused, ops>>

-----------------------------------------------------------------------------
(* One notice: tryNotify() and send().                                     *)

\* The stay has to be pending or active.
Read(p) ==
    /\ Is(p, "reading")
    /\ IF job[p].stay \in current THEN Goes(p, "picking") ELSE Ends(p)
    /\ UNCHANGED <<Rows, Notices, Outside, excused, ops>>

\* The credential, which has to be at the door, and its PIN as of now.  Only a
\* notice that was not asked for by the supervisor is checked.
PickOne(p) ==
    /\ Is(p, "picking")
    /\ LET picked == {c \in Pick(job[p].stay) : cred[c].synced}
       IN \/ /\ picked = {}
             /\ Ends(p)
          \/ \E c \in picked :
               Turns(p, At(IF job[p].op = "resend" THEN "sending" ELSE "checking", job[p].op,
                           job[p].todo, job[p].stay, c, cred[c].pin, FALSE))
    /\ UNCHANGED <<Rows, Notices, Outside, excused, ops>>

\* Mutant: a notice is looked up by its credential and not by its PIN.
CheckByCredential(p) ==
    /\ Is(p, "checking")
    /\ IF \E x \in handled : x[1] = job[p].cred THEN Ends(p) ELSE Goes(p, "waiting")
    /\ UNCHANGED <<Rows, Notices, Outside, excused, ops>>

\* Mutant: no look at what was sent already.
CheckNothing(p) ==
    /\ Is(p, "checking")
    /\ Goes(p, "waiting")
    /\ UNCHANGED <<Rows, Notices, Outside, excused, ops>>

\* alreadyHandled()
Check(p) ==
    /\ Is(p, "checking")
    /\ IF <<job[p].cred, job[p].pin>> \in handled THEN Ends(p) ELSE Goes(p, "waiting")
    /\ UNCHANGED <<Rows, Notices, Outside, excused, ops>>

\* recentlyFailed()
CheckCooldown(p) ==
    /\ Is(p, "waiting")
    /\ IF <<job[p].cred, job[p].pin>> \in cooling THEN Ends(p) ELSE Goes(p, "sending")
    /\ UNCHANGED <<Rows, Notices, Outside, excused, ops>>

Sent(p, ok) ==
    Turns(p, At("recording", job[p].op, job[p].todo, job[p].stay, job[p].cred, job[p].pin, ok))

\* The guest gets the PIN that was read, whatever it is now.
Deliver(p) ==
    LET x == <<job[p].cred, job[p].pin>> IN
    /\ received' = received \cup {x}
    /\ twice' = IF x \in received /\ job[p].op # "resend" THEN twice \cup {x} ELSE twice

\* Hostaway finds the conversation and takes the message.
Send(p) ==
    /\ Is(p, "sending") /\ job[p].stay \in reachable
    /\ Deliver(p)
    /\ Sent(p, TRUE)
    /\ UNCHANGED <<Rows, Notices, reachable, excused, ops>>

\* The reservation has no conversation.
SendNowhere(p) ==
    /\ Is(p, "sending") /\ job[p].stay \notin reachable
    /\ Sent(p, FALSE)
    /\ UNCHANGED <<Rows, Notices, Outside, excused, ops>>

\* The call fails: the message was not taken, or only the answer was lost.
SendFails(p) ==
    /\ Is(p, "sending") /\ Spend("down")
    /\ \/ UNCHANGED <<received, twice, excused>>
       \/ job[p].stay \in reachable /\ Deliver(p) /\ excused' = TRUE
    /\ Sent(p, FALSE)
    /\ UNCHANGED <<Rows, Notices, reachable>>

\* Mutant: the notice is recorded for the PIN of now.
RecordCurrent(p) ==
    /\ Is(p, "recording")
    /\ LET x == <<job[p].cred, cred[job[p].cred].pin>> IN
       IF job[p].ok
       THEN handled' = handled \cup {x} /\ cooling' = cooling \ {x}
       ELSE cooling' = cooling \cup {x} /\ UNCHANGED handled
    /\ Ends(p)
    /\ UNCHANGED <<Rows, Outside, excused, ops>>

\* The attempt is recorded for the PIN that was sent.
Record(p) ==
    /\ Is(p, "recording")
    /\ LET x == <<job[p].cred, job[p].pin>> IN
       IF job[p].ok
       THEN handled' = handled \cup {x} /\ cooling' = cooling \ {x}
       ELSE cooling' = cooling \cup {x} /\ UNCHANGED handled
    /\ Ends(p)
    /\ UNCHANGED <<Rows, Outside, excused, ops>>

\* Any statement of the notice fails: notify() says so and returns.
Fault(p) ==
    /\ job[p].stage \in {"reading", "picking", "checking", "waiting", "recording"}
    /\ Spend("fault")
    /\ Ends(p)
    /\ excused' = (excused \/ Is(p, "recording"))
    /\ UNCHANGED <<Rows, Notices, Outside>>

-----------------------------------------------------------------------------
(* The supervisor.                                                         *)

\* regenerate(): CredentialService.regeneratePin() saves the new PIN first ...
Renew(p, s) ==
    /\ Is(p, "idle") /\ Spend("renew")
    /\ \E c \in Pick(s) :
         /\ cred[c].pin < MaxPin
         /\ cred' = [cred EXCEPT ![c].pin = @ + 1]
         /\ Turns(p, At("marking", "renew", {}, s, c, 0, FALSE))
    /\ excused' = (excused \/ Overlaps(p))
    /\ UNCHANGED <<current, Notices, Outside>>

\* ... and marks it as not at the door in a second statement.
Unsync(p) ==
    /\ Is(p, "marking")
    /\ cred' = [cred EXCEPT ![job[p].cred].synced = FALSE]
    /\ Goes(p, "pushing")
    /\ UNCHANGED <<current, Notices, Outside, excused, ops>>

\* It pushes the PIN to the door, which may take it or not; then the notice.
Push(p) ==
    /\ Is(p, "pushing")
    /\ \E ok \in BOOLEAN :
         cred' = [cred EXCEPT ![job[p].cred].synced = ok]
    /\ Goes(p, "reading")
    /\ UNCHANGED <<current, Notices, Outside, excused, ops>>

\* resendPinNotice()
Resend(p, s) ==
    /\ Is(p, "idle") /\ Spend("resend")
    /\ LiveOf(s) # {}
    /\ Turns(p, At("reading", "resend", {}, s, NoCredential, 0, FALSE))
    /\ excused' = (excused \/ Overlaps(p))
    /\ UNCHANGED <<Rows, Notices, Outside>>

-----------------------------------------------------------------------------
(* The outside.                                                            *)

\* CredentialSync: a push that failed is repeated.
Sync(c) ==
    /\ cred[c].live /\ ~cred[c].synced
    /\ \A p \in Processes : job[p].stage = "pushing" => job[p].cred # c
    /\ cred' = [cred EXCEPT ![c].synced = TRUE]
    /\ UNCHANGED <<current, Notices, Outside, job, excused, ops>>

Revoke(c) ==
    /\ cred[c].live /\ Spend("revoke")
    /\ cred' = [cred EXCEPT ![c].live = FALSE]
    /\ UNCHANGED <<current, Notices, Outside, job, excused>>

EndStay(s) ==
    /\ s \in current /\ Spend("end")
    /\ current' = current \ {s}
    /\ UNCHANGED <<cred, Notices, Outside, job, excused>>

\* The conversation of a reservation appears in Hostaway.
Appear(s) ==
    /\ s \notin reachable
    /\ reachable' = reachable \cup {s}
    /\ UNCHANGED <<Rows, Notices, received, twice, job, excused, ops>>

\* GUEST_PIN_NOTICE_RETRY_COOLDOWN_MINUTES have passed.
CoolDown(x) ==
    /\ x \in cooling
    /\ cooling' = cooling \ {x}
    /\ UNCHANGED <<Rows, handled, Outside, job, excused, ops>>

\* Notices under way are lost, what they have sent with them.
Crash ==
    /\ Spend("crash")
    /\ job' = [p \in Processes |-> Idle]
    /\ excused' = (excused \/ \E p \in Processes : Is(p, "recording"))
    /\ UNCHANGED <<Rows, Notices, Outside>>

-----------------------------------------------------------------------------
Proceed(p) ==
    \/ NextStay(p) \/ Read(p) \/ PickOne(p) \/ Check(p) \/ CheckCooldown(p)
    \/ Send(p) \/ SendNowhere(p) \/ Record(p) \/ Unsync(p) \/ Push(p)

Next ==
    \/ \E p \in Processes :
         \/ SweepStart(p) \/ Proceed(p) \/ SendFails(p) \/ Fault(p)
         \/ \E s \in Stays : Renew(p, s) \/ Resend(p, s)
    \/ \E c \in Credentials : Sync(c) \/ Revoke(c)
    \/ \E s \in Stays : EndStay(s) \/ Appear(s)
    \/ \E x \in Told : CoolDown(x)
    \/ Crash

Spec == Init /\ [][Next]_vars

\* A notice under way ends, the pass runs every ten minutes whatever else does,
\* and the clock runs.  Neither the push nor the conversation is promised.
FairSpec ==
    /\ Spec
    /\ \A p \in Processes : WF_vars(Proceed(p))
    /\ SF_vars(\E p \in Processes : SweepStart(p))
    /\ \A x \in Told : WF_vars(CoolDown(x))

-----------------------------------------------------------------------------
(* Properties.                                                             *)

\* Types, and that a notice past its checks has a stay and a credential.
TypeOK ==
    /\ cred \in [Credentials -> [live: BOOLEAN, synced: BOOLEAN, pin: Pins]]
    /\ current \subseteq Stays /\ reachable \subseteq Stays
    /\ handled \subseteq Told /\ cooling \subseteq Told
    /\ received \subseteq Told /\ twice \subseteq Told
    /\ job \in [Processes -> Job]
    /\ excused \in BOOLEAN
    /\ ops \in 0..MaxOps
    /\ \A p \in Processes :
         /\ job[p].stage \notin {"idle", "next"} => job[p].stay \in Stays
         /\ job[p].stage \in {"checking", "waiting", "sending", "recording", "marking", "pushing"}
              => job[p].cred \in Credentials

\* A notice recorded as sent was sent, with that very PIN: a PIN renewed while
\* its notice was being sent still has a notice to come, in spite of crashes,
\* failures and overlapping passes.
RecordedWasTold == handled \subseteq received

\* A guest is not told the same PIN twice unless the supervisor asks for it:
\* pass after pass, with its failures and its cooldowns.  The exceptions are what
\* the code cannot tell: a lost answer, a record that was lost in a crash or
\* failed, and two notices at the same time.
ToldOnce == ~excused => twice = {}

\* The guest is told the PIN in force, in the end: of the credential that counts,
\* if it stays at the door, the conversation is there, and fewer than a batch
\* of other credentials wait for theirs.
PinInForceIsTold ==
    \A c \in Credentials :
      <>[](/\ cred[c].live /\ cred[c].synced
           /\ Pick(StayOf[c]) = {c}
           /\ StayOf[c] \in current \cap reachable
           /\ Cardinality(Pending \ {c}) < Batch)
        => <>[](<<c, cred[c].pin>> \in received)
=============================================================================
