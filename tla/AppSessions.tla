----------------------------- MODULE AppSessions -----------------------------
(***************************************************************************)
(* The sessions of the app that the backend keeps alive and can close      *)
(* (app-sessions/app-sessions.service.ts and its callers in auth and       *)
(* password-recovery), for one user with several devices.                  *)
(*                                                                         *)
(* A session lives in three places: openMAINT, which issues it and drops   *)
(* it when idle; the table app_session; and the memory of the only         *)
(* instance of the backend, filled from the table once.  All decisions are *)
(* taken in memory.  Logins, uses, logouts and password changes interleave *)
(* at every await with the two cron jobs, which keep sessions alive and    *)
(* purge those past their time.  Calls to openMAINT and statements of      *)
(* Postgres fail, and the process dies and starts again, maybe with        *)
(* another key.                                                            *)
(***************************************************************************)
EXTENDS Integers

CONSTANTS
    Processes,      \* requests and cron jobs served at the same time
    Sessions,       \* identifiers openMAINT may issue to the user
    Remembered,     \* those asked for with "Recordarme"
    NoSession,      \* a password change without a session: a recovery
    Operations,     \* what the outside may do, out of AllOperations
    MaxOps          \* bound of the model on those operations

\* A restart, a restart with another APP_SESSION_KEY, openMAINT not answering
\* one call, a statement of Postgres that fails.
AllOperations == {"crash", "rotate", "down", "fault"}

ASSUME RememberedAssumption == Remembered \subseteq Sessions
ASSUME NoSessionAssumption == NoSession \notin Sessions
ASSUME MaxOpsAssumption == MaxOps \in Nat

VARIABLES
    openmaint,      \* external: the session, not issued, open or closed
    client,         \* external: what the device holds
    rows,           \* table app_session
    cache,          \* memory: this.cache
    load,           \* memory: this.loaded and this.loading
    snapshot,       \* the answer of the query under way, when load = "reading"
    readable,       \* sessions encrypted with the key of this process
    job,            \* what each process works on, and where it waits
    unclosed,       \* history: openMAINT did not answer, or the id was unreadable
    ended,          \* history: sessions a completed password change was to end
    erased,         \* history: sessions out of memory and table, with no load or login under way
    ops             \* bound of the model: operations of the outside so far

vars == <<openmaint, client, rows, cache, load, snapshot, readable, job,
          unclosed, ended, erased, ops>>

\* expiresAt, against the clock.
Entry == {"none", "fresh", "expired"}

\* registered: register() went well; bare: it failed and the login went on;
\* left: the device has signed out.
Client == {"none", "bare", "registered", "left"}

\* sess is the session of the request, and the one to keep for a change; todo
\* has still to be asked of openMAINT and found is to be forgotten; owed are
\* the sessions a password change has to end.
Job == [stage: {"idle", "waiting", "storing", "caching", "saving", "closing",
                "pinging", "deleting"},
        op: {"none", "login", "touch", "logout", "change", "keep", "purge"},
        sess: Sessions \cup {NoSession},
        todo: SUBSET Sessions, found: SUBSET Sessions, owed: SUBSET Sessions]

At(stage, op, s, todo, found, owed) ==
    [stage |-> stage, op |-> op, sess |-> s, todo |-> todo, found |-> found,
     owed |-> owed]
Idle == At("idle", "none", NoSession, {}, {}, {})

Registered == {s \in Sessions : client[s] = "registered"}

\* The process starts with the sessions an earlier one registered.
Init ==
    \E old \in SUBSET Sessions :
      /\ openmaint = [s \in Sessions |-> IF s \in old THEN "open" ELSE "none"]
      /\ client = [s \in Sessions |-> IF s \in old THEN "registered" ELSE "none"]
      /\ rows = [s \in Sessions |-> IF s \in old THEN "fresh" ELSE "none"]
      /\ cache = [s \in Sessions |-> "none"]
      /\ load = "boot"
      /\ snapshot = [s \in Sessions |-> "none"]
      /\ readable = old
      /\ job = [p \in Processes |-> Idle]
      /\ unclosed = {} /\ ended = {} /\ erased = {}
      /\ ops = 0

-----------------------------------------------------------------------------
(* The bookkeeping of a step.                                              *)

Spend(operation) == operation \in Operations /\ ops < MaxOps /\ ops' = ops + 1

\* Nest serves nothing before onModuleInit() has settled.
Free(p) == load # "boot" /\ job[p].stage = "idle"
Is(p, stage) == job[p].stage = stage
Goes(p, j) == job' = [job EXCEPT ![p] = j]

Without(table, gone) == [s \in Sessions |-> IF s \in gone THEN "none" ELSE table[s]]

History == <<unclosed, ended, erased>>
Memory == <<cache, load, snapshot>>
Outside == <<openmaint, client>>

-----------------------------------------------------------------------------
(* Loading.                                                                *)

\* onModuleInit(): nobody else writes the table meanwhile.
Boot ==
    /\ load = "boot"
    /\ load' = "on" /\ cache' = rows
    /\ UNCHANGED <<Outside, rows, snapshot, readable, job, History, ops>>

\* The load at start fails: the next caller tries again.
BootFails ==
    /\ load = "boot" /\ Spend("fault")
    /\ load' = "off"
    /\ UNCHANGED <<Outside, rows, cache, snapshot, readable, job, History>>

\* ensureLoaded(): the query runs for the first of those that wait for it.
LoadRead ==
    /\ load = "off"
    /\ \E p \in Processes : Is(p, "waiting")
    /\ load' = "reading" /\ snapshot' = rows
    /\ UNCHANGED <<Outside, rows, cache, readable, job, History, ops>>

\* What was registered meanwhile is newer.
LoadApply ==
    /\ load = "reading"
    /\ load' = "on"
    /\ cache' = [s \in Sessions |-> IF cache[s] = "none" THEN snapshot[s] ELSE cache[s]]
    /\ snapshot' = [s \in Sessions |-> "none"]
    /\ UNCHANGED <<Outside, rows, readable, job, History, ops>>

\* The one promise fails for all who wait for it.
LoadFails ==
    /\ load \in {"off", "reading"} /\ Spend("fault")
    /\ \E p \in Processes : Is(p, "waiting")
    /\ load' = "off"
    /\ snapshot' = [s \in Sessions |-> "none"]
    /\ job' = [p \in Processes |-> IF Is(p, "waiting") THEN Idle ELSE job[p]]
    /\ UNCHANGED <<Outside, rows, cache, readable, History>>

-----------------------------------------------------------------------------
(* Requests.                                                               *)

\* AuthService.login(): openMAINT has issued the session.
Login(p, s) ==
    /\ Free(p)
    /\ openmaint[s] = "none"
    /\ openmaint' = [openmaint EXCEPT ![s] = "open"]
    /\ readable' = readable \cup {s}
    /\ Goes(p, At("storing", "login", s, {}, {}, {}))
    /\ UNCHANGED <<client, rows, Memory, History, ops>>

\* register(): the upsert.
Store(p) ==
    /\ Is(p, "storing")
    /\ rows' = [rows EXCEPT ![job[p].sess] = "fresh"]
    /\ Goes(p, [job[p] EXCEPT !.stage = "caching"])
    /\ UNCHANGED <<Outside, Memory, readable, History, ops>>

\* The login goes on without it; the row may be there if only the answer was lost.
StoreFails(p) ==
    /\ Is(p, "storing") /\ Spend("fault")
    /\ \E left \in {"none", "fresh"} : rows' = [rows EXCEPT ![job[p].sess] = left]
    /\ client' = [client EXCEPT ![job[p].sess] = "bare"]
    /\ Goes(p, Idle)
    /\ UNCHANGED <<openmaint, Memory, readable, History>>

\* register(): the entry in memory, and the answer to the device.
Cache(p) ==
    /\ Is(p, "caching")
    /\ cache' = [cache EXCEPT ![job[p].sess] = "fresh"]
    /\ client' = [client EXCEPT ![job[p].sess] = "registered"]
    /\ Goes(p, Idle)
    /\ UNCHANGED <<openmaint, rows, load, snapshot, readable, History, ops>>

\* AuthService.checkSession(): openMAINT knows the session.
TouchStart(p, s) ==
    /\ Free(p)
    /\ client[s] \in {"bare", "registered"} /\ openmaint[s] = "open"
    /\ Goes(p, At("waiting", "touch", s, {}, {}, {}))
    /\ UNCHANGED <<Outside, rows, Memory, readable, History, ops>>

\* touch(): in memory every time, in the table once a day, which is certain
\* for a row that is past its time.
Touch(p) ==
    /\ Is(p, "waiting") /\ load = "on" /\ job[p].op = "touch"
    /\ LET s == job[p].sess IN
       IF cache[s] = "none"
       THEN Goes(p, Idle) /\ UNCHANGED cache
       ELSE /\ cache' = [cache EXCEPT ![s] = "fresh"]
            /\ \/ Goes(p, [job[p] EXCEPT !.stage = "saving"])
               \/ rows[s] # "expired" /\ Goes(p, Idle)
    /\ UNCHANGED <<Outside, rows, load, snapshot, readable, History, ops>>

\* Mutant: the use is saved with an upsert.
SaveTouchUpsert(p) ==
    /\ Is(p, "saving")
    /\ rows' = [rows EXCEPT ![job[p].sess] = "fresh"]
    /\ Goes(p, Idle)
    /\ UNCHANGED <<Outside, Memory, readable, History, ops>>

\* An update: no row comes back.
SaveTouch(p) ==
    /\ Is(p, "saving")
    /\ rows' = [rows EXCEPT ![job[p].sess] = IF @ = "none" THEN "none" ELSE "fresh"]
    /\ Goes(p, Idle)
    /\ UNCHANGED <<Outside, Memory, readable, History, ops>>

SaveTouchFails(p) ==
    /\ Is(p, "saving") /\ Spend("fault")
    /\ Goes(p, Idle)
    /\ UNCHANGED <<Outside, rows, Memory, readable, History>>

\* close(): the id comes from the device, and nothing is loaded first.
Logout(p, s) ==
    /\ Free(p)
    /\ client[s] \in {"bare", "registered"}
    /\ client' = [client EXCEPT ![s] = "left"]
    /\ Goes(p, At("closing", "logout", s, {s}, {s}, {}))
    /\ UNCHANGED <<openmaint, rows, Memory, readable, History, ops>>

\* changePassword() or resetPassword() once openMAINT has the new password.
ChangeStart(p, keep) ==
    /\ Free(p)
    /\ keep = NoSession \/ keep \in Registered
    /\ Goes(p, At("waiting", "change", keep, {}, {}, {}))
    /\ UNCHANGED <<Outside, rows, Memory, readable, History, ops>>

\* closeAllForUser(): the sessions in memory now, but for the one kept.
Change(p) ==
    /\ Is(p, "waiting") /\ load = "on" /\ job[p].op = "change"
    /\ LET keep == job[p].sess
           others == {s \in Sessions : cache[s] # "none" /\ s # keep}
           owed == Registered \ {keep}
       IN IF others = {}
          THEN Goes(p, Idle) /\ ended' = ended \cup owed
          ELSE /\ Goes(p, At("closing", "change", keep, others, others, owed))
               /\ UNCHANGED ended
    /\ UNCHANGED <<Outside, rows, Memory, readable, unclosed, erased, ops>>

-----------------------------------------------------------------------------
(* The cron jobs.  Neither overlaps itself: keepAlive() has the flag       *)
(* running, and purgeExpired() runs once a day.                            *)

CronStart(p, op) ==
    /\ Free(p)
    /\ op \in {"keep", "purge"}
    /\ \A q \in Processes : job[q].op # op
    /\ Goes(p, At("waiting", op, NoSession, {}, {}, {}))
    /\ UNCHANGED <<Outside, rows, Memory, readable, History, ops>>

\* keepAlive(): the remembered sessions that are not past their time.
Keep(p) ==
    /\ Is(p, "waiting") /\ load = "on" /\ job[p].op = "keep"
    /\ LET due == {s \in Remembered : cache[s] = "fresh"}
       IN Goes(p, IF due = {} THEN Idle ELSE At("pinging", "keep", NoSession, due, {}, {}))
    /\ UNCHANGED <<Outside, rows, Memory, readable, History, ops>>

\* One call of keepAlive(): a session unknown to openMAINT, or that does not
\* decrypt, is to be forgotten.
Ping(p, s) ==
    /\ Is(p, "pinging") /\ s \in job[p].todo
    /\ LET gone == openmaint[s] = "closed" \/ s \notin readable
       IN Goes(p, At("pinging", "keep", NoSession, job[p].todo \ {s},
                     IF gone THEN job[p].found \cup {s} ELSE job[p].found, {}))
    /\ unclosed' = IF s \in readable THEN unclosed ELSE unclosed \cup {s}
    /\ UNCHANGED <<Outside, rows, Memory, readable, ended, erased, ops>>

\* Mutant: any failed call means that the session is gone.
PingDownIsGone(p, s) ==
    /\ Is(p, "pinging") /\ s \in job[p].todo /\ s \in readable /\ Spend("down")
    /\ Goes(p, At("pinging", "keep", NoSession, job[p].todo \ {s},
                  job[p].found \cup {s}, {}))
    /\ UNCHANGED <<Outside, rows, Memory, readable, History>>

\* openMAINT does not answer: left for the next pass.
PingDown(p, s) ==
    /\ Is(p, "pinging") /\ s \in job[p].todo /\ s \in readable /\ Spend("down")
    /\ Goes(p, At("pinging", "keep", NoSession, job[p].todo \ {s}, job[p].found, {}))
    /\ UNCHANGED <<Outside, rows, Memory, readable, History>>

\* Mutant: the purge leaves the remembered sessions to keepAlive().
PurgeTransient(p) ==
    /\ Is(p, "waiting") /\ load = "on" /\ job[p].op = "purge"
    /\ LET expired == {s \in Sessions \ Remembered : cache[s] = "expired"}
       IN Goes(p, IF expired = {} THEN Idle
                  ELSE At("closing", "purge", NoSession, expired, expired, {}))
    /\ UNCHANGED <<Outside, rows, Memory, readable, History, ops>>

\* purgeExpired(): those past their time.
Purge(p) ==
    /\ Is(p, "waiting") /\ load = "on" /\ job[p].op = "purge"
    /\ LET expired == {s \in Sessions : cache[s] = "expired"}
       IN Goes(p, IF expired = {} THEN Idle
                  ELSE At("closing", "purge", NoSession, expired, expired, {}))
    /\ UNCHANGED <<Outside, rows, Memory, readable, History, ops>>

-----------------------------------------------------------------------------
(* discard() and forget(), shared by them all.                             *)

\* closeInOpenmaint(): a session closed already is no error.  Only a logout
\* has the id in clear; the others decrypt it, and pass over it if they cannot.
Close(p, s) ==
    /\ Is(p, "closing") /\ s \in job[p].todo
    /\ IF s \in readable \/ job[p].op = "logout"
       THEN openmaint' = [openmaint EXCEPT ![s] = "closed"] /\ UNCHANGED unclosed
       ELSE unclosed' = unclosed \cup {s} /\ UNCHANGED openmaint
    /\ Goes(p, [job[p] EXCEPT !.todo = @ \ {s}])
    /\ UNCHANGED <<client, rows, Memory, readable, ended, erased, ops>>

\* Mutant: a call that is not answered ends the closing of the rest.
CloseDownStops(p, s) ==
    /\ Is(p, "closing") /\ s \in job[p].todo
    /\ s \in readable \/ job[p].op = "logout"
    /\ Spend("down")
    /\ unclosed' = unclosed \cup {s}
    /\ Goes(p, [job[p] EXCEPT !.todo = {}])
    /\ UNCHANGED <<Outside, rows, Memory, readable, ended, erased>>

\* openMAINT does not answer: the session is forgotten all the same.
CloseDown(p, s) ==
    /\ Is(p, "closing") /\ s \in job[p].todo
    /\ s \in readable \/ job[p].op = "logout"
    /\ Spend("down")
    /\ unclosed' = unclosed \cup {s}
    /\ Goes(p, [job[p] EXCEPT !.todo = @ \ {s}])
    /\ UNCHANGED <<Outside, rows, Memory, readable, ended, erased>>

\* forget(), once the last call has answered: out of memory first.
Forget(p) ==
    /\ job[p].stage \in {"closing", "pinging"} /\ job[p].todo = {}
    /\ cache' = Without(cache, job[p].found)
    /\ Goes(p, IF job[p].found = {} THEN Idle ELSE [job[p] EXCEPT !.stage = "deleting"])
    /\ UNCHANGED <<Outside, rows, load, snapshot, readable, History, ops>>

\* Then out of the table, in one statement.
Delete(p) ==
    /\ Is(p, "deleting")
    /\ rows' = Without(rows, job[p].found)
    /\ ended' = ended \cup job[p].owed
    /\ erased' = erased \cup
         {s \in job[p].found : load = "on" /\ cache[s] = "none" /\ client[s] # "none"}
    /\ Goes(p, Idle)
    /\ UNCHANGED <<Outside, Memory, readable, unclosed, ops>>

\* The row stays, and memory has lost it: only a restart brings it back.
DeleteFails(p) ==
    /\ Is(p, "deleting") /\ Spend("fault")
    /\ Goes(p, Idle)
    /\ UNCHANGED <<Outside, rows, Memory, readable, History>>

-----------------------------------------------------------------------------
(* The outside.                                                            *)

\* An hour without use, a restart of openMAINT, or another client closed it.
Drop(s) ==
    /\ openmaint[s] = "open"
    /\ openmaint' = [openmaint EXCEPT ![s] = "closed"]
    /\ UNCHANGED <<client, rows, Memory, readable, job, History, ops>>

\* Time passes: the row is never later than the entry, whose every use counts.
ExpireRow(s) ==
    /\ rows[s] = "fresh" \/ snapshot[s] = "fresh"
    /\ rows' = [rows EXCEPT ![s] = IF @ = "fresh" THEN "expired" ELSE @]
    /\ snapshot' = [snapshot EXCEPT ![s] = IF @ = "fresh" THEN "expired" ELSE @]
    /\ UNCHANGED <<Outside, cache, load, readable, job, History, ops>>

ExpireEntry(s) ==
    /\ cache[s] = "fresh" /\ rows[s] # "fresh"
    /\ cache' = [cache EXCEPT ![s] = "expired"]
    /\ UNCHANGED <<Outside, rows, load, snapshot, readable, job, History, ops>>

\* Memory and the work under way are lost; a device whose login was cut holds
\* nothing.  With another key no stored session decrypts.
Restart(operation, still) ==
    /\ Spend(operation)
    /\ load' = "boot"
    /\ cache' = [s \in Sessions |-> "none"]
    /\ snapshot' = [s \in Sessions |-> "none"]
    /\ readable' = still
    /\ job' = [p \in Processes |-> Idle]
    /\ UNCHANGED <<Outside, rows, History>>

Crash == Restart("crash", readable)
Rotate == Restart("rotate", {})

-----------------------------------------------------------------------------
(* The parts of a process that end without anything new from outside.      *)
Proceed(p) ==
    \/ Store(p) \/ Cache(p) \/ Touch(p) \/ SaveTouch(p) \/ Change(p)
    \/ Keep(p) \/ Purge(p) \/ Forget(p) \/ Delete(p)
    \/ \E s \in Sessions : Ping(p, s) \/ Close(p, s)

Fails(p) ==
    \/ StoreFails(p) \/ SaveTouchFails(p) \/ DeleteFails(p)
    \/ \E s \in Sessions : PingDown(p, s) \/ CloseDown(p, s)

Request(p) ==
    \/ \E s \in Sessions : Login(p, s) \/ TouchStart(p, s) \/ Logout(p, s)
    \/ \E keep \in Sessions \cup {NoSession} : ChangeStart(p, keep)

Loading == Boot \/ LoadRead \/ LoadApply

Environment ==
    \/ BootFails \/ LoadFails \/ Crash \/ Rotate
    \/ \E s \in Sessions : Drop(s) \/ ExpireRow(s) \/ ExpireEntry(s)

Next ==
    \/ Loading
    \/ \E p \in Processes : Proceed(p) \/ Fails(p) \/ Request(p)
    \/ \E p \in Processes, op \in {"keep", "purge"} : CronStart(p, op)
    \/ Environment

Spec == Init /\ [][Next]_vars

\* A started call ends, a query answers, the clock runs, and the cron jobs fire
\* whatever the requests do.  Nothing of the outside is fair but the clock.
FairSpec ==
    /\ Spec
    /\ WF_vars(Loading)
    /\ \A p \in Processes : WF_vars(Proceed(p))
    /\ \A op \in {"keep", "purge"} :
         SF_vars(\E p \in Processes : CronStart(p, op))
    /\ \A s \in Sessions : WF_vars(ExpireRow(s)) /\ WF_vars(ExpireEntry(s))

-----------------------------------------------------------------------------
(* Properties.                                                             *)

\* Types, and what a process may hold at each stage: the table, which is billed by
\* the time it is awake, is never asked to delete nothing.
TypeOK ==
    /\ openmaint \in [Sessions -> {"none", "open", "closed"}]
    /\ client \in [Sessions -> Client]
    /\ rows \in [Sessions -> Entry]
    /\ cache \in [Sessions -> Entry]
    /\ load \in {"boot", "off", "reading", "on"}
    /\ snapshot \in [Sessions -> Entry]
    /\ readable \subseteq Sessions
    /\ job \in [Processes -> Job]
    /\ unclosed \subseteq Sessions /\ ended \subseteq Sessions /\ erased \subseteq Sessions
    /\ ops \in 0..MaxOps
    /\ \A p \in Processes :
         job[p].stage \in {"storing", "caching", "saving"} \/ job[p].op = "touch"
           => job[p].sess \in Sessions
    /\ \A p \in Processes : Is(p, "deleting") => job[p].found # {}

\* A device stays signed in: a registered session that openMAINT has open, and
\* that nobody tried to close, is in the table, where the next restart finds
\* it, and in memory, where keepAlive() and closeAllForUser() look, whatever
\* failed and whoever crashed.
OpenIsKept ==
    \A s \in Sessions :
      client[s] = "registered" /\ openmaint[s] = "open" /\ s \notin unclosed
        => rows[s] # "none" /\ (load = "on" => cache[s] # "none")

\* A password change that ended well reached every device: each session that
\* was registered when closeAllForUser() looked, but the one kept, is closed in
\* openMAINT, unless the call for that very session failed or its id could not be
\* read: a failure with one device leaves no other behind (closeAllForUser()).
ChangeReachesEveryDevice ==
    \A s \in ended : openmaint[s] = "closed" \/ s \in unclosed

\* What the backend forgot stays forgotten: neither a use that is being saved nor
\* a restart brings it back, so nothing keeps alive a session that openMAINT did
\* not manage to close.  (A logout or a login during a load is not covered: the
\* load, or the login, may put the session in memory again.)
ErasedStaysOut ==
    \A s \in erased : cache[s] = "none" /\ rows[s] = "none"

\* A session that is closed in openMAINT leaves the memory of the backend for
\* good: a remembered one by the next keepAlive(), the others by purgeExpired(),
\* in spite of restarts and failures.
ClosedIsForgotten ==
    \A s \in Sessions : <>[](openmaint[s] = "closed" => cache[s] = "none")
=============================================================================
