------------------------------ MODULE Sessions ------------------------------
(***************************************************************************)
(* One user's play sessions and everyone who writes them: the bot process  *)
(* (presence handlers and the startup pass, serialised by the in-process   *)
(* user lock), the REST requests of that user, the account-deletion        *)
(* endpoints and the nightly Celery tasks.                                 *)
(*                                                                         *)
(* A step is what one database statement makes visible. A request is its   *)
(* reads (Begin) and then its conditional write and commit (Commit): the   *)
(* write takes the row lock, re-checks its WHERE clause against the        *)
(* committed row and holds the lock to the commit, so it is one step. A    *)
(* request refused while reading changes nothing and is not a step.        *)
(***************************************************************************)
EXTENDS SessionRows, Sequences

CONSTANTS
    Reqs,           \* slots for REST requests in flight
    Unknown,        \* nothing is known of what the bot has processed
    ApiOps,         \* the endpoints this instance exercises
    Faults,         \* what may go wrong around the bot in this instance
    DeletionGrace,  \* account_deletion_grace_days
    QueueMax,       \* bound: presence handlers waiting for the user lock
    Horizon,        \* bound: last instant at which users do something
    MaxTime         \* bound: last instant of the clock

ASSUME InstanceAssumption ==
    /\ Unknown \notin Names \cup {Idle, Absent}
    /\ ApiOps \subseteq {"create", "patch", "delete", "hard", "restore", "schedule"}
    /\ Faults \subseteq {"redeliver", "duplicate", "gap", "restart", "dbfail"}
    /\ DeletionGrace \in Nat
    /\ QueueMax \in Nat /\ Horizon \in Nat /\ MaxTime \in Nat

VARIABLES
    rows,      \* game_sessions: primary key -> row, NoRow where there is none
    now,       \* the clock
    account,   \* the users row: "active", "scheduled" (purge_at set), "gone"
    purgeAt,   \* users.purge_at
    activity,  \* what the gateway's member cache says the user does
    inbox,     \* handlers waiting for the user lock, first come first served
    scan,      \* the startup pass: "todo", "listed", "done"
    bot,       \* the handler that holds the user lock
    synced,    \* history: the activity last processed to the end, or Unknown
    req        \* REST requests between their reads and their write

botVars == <<activity, inbox, scan, bot, synced>>
userVars == <<account, purgeAt>>
vars == <<rows, now, userVars, botVars, req>>

Observed == Names \cup {Idle, Absent}

Job == [kind: {"presence", "scan"}, before: Names \cup {Idle}, after: Observed]
NoJob == [kind |-> "presence", before |-> Idle, after |-> Idle]

\* user: the User instance in the handler's identity map.
\* row:  the open row to end, or the stitch candidate to reopen.
\* ending, game: what reconcile_user decided.
Bot == [pc: {"idle", "user", "open", "close", "stitch", "resume", "start"},
        job: Job, user: {"active", "scheduled", "gone"},
        row: Ids \cup {NoId}, ending: {"", "COMPLETED", "ERROR"},
        game: Games \cup {NoGame}]
IdleBot == [pc |-> "idle", job |-> NoJob, user |-> "active", row |-> NoId,
            ending |-> "", game |-> NoGame]

\* What a request holds on to from its reads: trashed and leaving are the
\* deleted_at and status tests of the loaded row.
Req == [op: {"", "create", "patch", "delete", "hard", "restore"},
        id: Ids \cup {NoId}, game: Games \cup {NoGame}, start: Time, end: Time,
        trashed: BOOLEAN, leaving: BOOLEAN]
NoReq == [op |-> "", id |-> NoId, game |-> NoGame, start |-> NoTime,
          end |-> NoTime, trashed |-> FALSE, leaving |-> FALSE]

TypeOK ==
    /\ rows \in [Ids -> Row]
    /\ now \in Nat
    /\ account \in {"active", "scheduled", "gone"}
    /\ purgeAt \in Time
    /\ activity \in Observed
    /\ inbox \in Seq(Job)
    /\ scan \in {"todo", "listed", "done"}
    /\ bot \in Bot
    /\ synced \in Observed \cup {Unknown}
    /\ req \in [Reqs -> Req]

Init ==
    /\ rows = [i \in Ids |-> NoRow]
    /\ now = 0
    /\ account = "active" /\ purgeAt = NoTime
    /\ activity = Idle
    /\ inbox = <<>>
    /\ scan = IF "restart" \in Faults THEN "todo" ELSE "done"
    /\ bot = IdleBot
    /\ synced = Unknown
    /\ req = [q \in Reqs |-> NoReq]

-----------------------------------------------------------------------------
(* Bounds                                                                  *)

\* Keys no row carries and nothing in flight refers to. A sequence never
\* repeats a key; a key nobody remembers stands for a new one.
Fresh == {i \in Ids : /\ ~Exists(rows[i])
                      /\ bot.row # i
                      /\ \A q \in Reqs : req[q].id # i}

\* How many rows the work in flight may still insert.
Starts(job) == job.kind = "scan" \/ job.after \in Names
Pending == Cardinality({k \in DOMAIN inbox : Starts(inbox[k])})
             + (IF bot.pc # "idle" /\ Starts(bot.job) THEN 1 ELSE 0)
             + Cardinality({q \in Reqs : req[q].op = "create"})

\* Work that may insert up to n rows is taken in only while keys are left for it.
Room(n) == Cardinality(Fresh) >= Pending + n

\* Users act up to the Horizon; one instant later what is in flight settles, and
\* the clock runs on for the nightly tasks.
Accepting == now =< Horizon
Settled == bot.pc = "idle" /\ inbox = <<>> /\ \A q \in Reqs : req[q].op = ""

Tick ==
    /\ now < MaxTime
    /\ now =< Horizon \/ Settled
    /\ now' = now + 1
    /\ UNCHANGED <<rows, userVars, botVars, req>>

-----------------------------------------------------------------------------
(* The gateway and the bot process (external: discord.py's cache and events)*)

Presence(before, after) == [kind |-> "presence", before |-> before, after |-> after]
NewGame(a) == IF a \in Names THEN 1 ELSE 0

\* The cached member starts, stops or switches games: on_presence_update.
ActivityChange ==
    /\ Accepting /\ activity # Absent /\ Len(inbox) < QueueMax
    /\ \E a \in (Names \cup {Idle}) \ {activity} :
        /\ Room(NewGame(a))
        /\ activity' = a
        /\ inbox' = Append(inbox, Presence(activity, a))
    /\ UNCHANGED <<rows, now, userVars, scan, bot, synced, req>>

\* A member the bot sees in two guilds: the gateway sends the update for each.
DuplicatedChange ==
    /\ "duplicate" \in Faults
    /\ Accepting /\ activity # Absent /\ Len(inbox) + 1 < QueueMax
    /\ \E a \in (Names \cup {Idle}) \ {activity} :
        /\ Room(2 * NewGame(a))
        /\ activity' = a
        /\ inbox' = Append(Append(inbox, Presence(activity, a)), Presence(activity, a))
    /\ UNCHANGED <<rows, now, userVars, scan, bot, synced, req>>

\* A game start delivered again with an empty `before`.
Redelivery ==
    /\ "redeliver" \in Faults
    /\ Accepting /\ activity \in Names /\ Len(inbox) < QueueMax
    /\ Room(1)
    /\ inbox' = Append(inbox, Presence(Idle, activity))
    /\ UNCHANGED <<rows, now, userVars, activity, scan, bot, synced, req>>

\* The cache changes and no handler runs: a new gateway session refills it
\* from GUILD_CREATE, or the member joins or leaves the last shared guild.
SilentChange ==
    /\ "gap" \in Faults
    /\ Accepting
    /\ activity' \in Observed \ {activity}
    /\ UNCHANGED <<rows, now, userVars, inbox, scan, bot, synced, req>>

\* The process dies and starts again. Handlers in flight are gone, what they
\* committed stays, and the new cache holds whatever the user does by then.
Restart ==
    /\ "restart" \in Faults
    /\ Accepting
    /\ activity' \in Observed
    /\ inbox' = <<>>
    /\ scan' = "todo"
    /\ bot' = IdleBot
    /\ synced' = Unknown
    /\ UNCHANGED <<rows, now, userVars, req>>

\* on_ready runs the startup pass, which lists the open BOT rows and then
\* queues for the lock of each owner.
StartupScan ==
    /\ scan = "todo"
    /\ IF \E i \in Ids : Open(rows[i]) /\ rows[i].source = "BOT"
       THEN /\ Room(1)
            /\ inbox' = Append(inbox, [kind |-> "scan", before |-> Idle, after |-> Idle])
            /\ scan' = "listed"
       ELSE /\ scan' = "done"
            /\ UNCHANGED inbox
    /\ UNCHANGED <<rows, now, userVars, activity, bot, synced, req>>

-----------------------------------------------------------------------------
(* A handler under the user lock                                           *)

\* The handler returns and releases the lock.
Finish ==
    /\ bot' = IdleBot
    /\ synced' = bot.job.after
    /\ scan' = IF bot.job.kind = "scan" THEN "done" ELSE scan

\* The handler raises: its transaction rolls back, the event is lost, and a
\* startup pass that raised runs again at the next on_ready.
Raise ==
    /\ bot' = IdleBot
    /\ synced' = Unknown
    /\ scan' = IF bot.job.kind = "scan" THEN "todo" ELSE scan

\* user_session_lock, then the gate of on_presence_update. The startup pass
\* has no gate and reads the member cache only now.
BotTake ==
    /\ bot.pc = "idle" /\ inbox # <<>>
    /\ inbox' = Tail(inbox)
    /\ LET job == Head(inbox) IN
        \/ /\ job.kind = "scan"
           /\ bot' = [IdleBot EXCEPT !.pc = "user", !.job = [job EXCEPT !.after = activity]]
           /\ UNCHANGED synced
        \/ /\ job.kind = "presence" /\ account = "active"
           /\ bot' = [IdleBot EXCEPT !.pc = "user", !.job = job]
           /\ UNCHANGED synced
        \/ /\ job.kind = "presence" /\ account # "active"
           /\ synced' = Unknown
           /\ UNCHANGED bot
    /\ UNCHANGED <<rows, now, userVars, activity, scan, req>>

\* reconcile_user loads the user; the instance serves every later db.get.
BotLoadUser ==
    /\ bot.pc = "user"
    /\ bot' = [bot EXCEPT !.pc = "open", !.user = account]
    /\ UNCHANGED <<rows, now, userVars, activity, inbox, scan, synced, req>>

\* reconcile_user's decision, for an open row of game `open` (NoGame: none).
Ending(open) ==
    IF bot.user # "active" THEN (IF open = NoGame THEN "" ELSE "ERROR")
    ELSE IF bot.job.kind = "scan" THEN StartupEnding(open, bot.job.after)
    ELSE LiveEnding(open, bot.job.before, bot.job.after)

Starting(open) ==
    IF bot.user # "active" THEN NoGame
    ELSE IF bot.job.kind = "scan" THEN StartupStart(open, bot.job.after)
    ELSE LiveStart(open, bot.job.before, bot.job.after)

\* After the close: start_or_resume_session, start_session, or nothing.
StartPc(game) ==
    IF game = NoGame THEN "idle"
    ELSE IF bot.job.kind = "presence" THEN "stitch" ELSE "start"

Proceed(b) == IF b.pc = "idle" THEN Finish ELSE bot' = b /\ UNCHANGED <<scan, synced>>

\* get_ongoing_session, and what follows from its row.
BotLoadOpen ==
    /\ bot.pc = "open"
    /\ \/ /\ \A i \in Ids : ~Open(rows[i])
          /\ Proceed([bot EXCEPT !.pc = StartPc(Starting(NoGame)),
                                 !.game = Starting(NoGame)])
       \/ \E i \in Ids :
          /\ Open(rows[i])
          /\ Proceed([bot EXCEPT
                !.pc = IF Ending(rows[i].game) # "" THEN "close"
                       ELSE StartPc(Starting(rows[i].game)),
                !.row = i,
                !.ending = Ending(rows[i].game),
                !.game = Starting(rows[i].game)])
    /\ UNCHANGED <<rows, now, userVars, activity, inbox, req>>

\* complete_session or error_session: claim the live ONGOING row and commit.
\* No row to claim is fine, no row to refresh is not.
BotClose ==
    /\ bot.pc = "close"
    /\ LET r == rows[bot.row]
           onward == Proceed([bot EXCEPT !.pc = StartPc(bot.game), !.row = NoId,
                                         !.ending = ""])
       IN \/ /\ Open(r)
             /\ rows' = [rows EXCEPT ![bot.row] =
                            IF bot.ending = "COMPLETED" THEN Completed(r, now) ELSE Errored(r)]
             /\ onward
          \/ /\ ~Open(r) /\ Exists(r)
             /\ UNCHANGED rows
             /\ onward
          \/ /\ ~Exists(r)
             /\ UNCHANGED rows
             /\ Raise
    /\ UNCHANGED <<now, userVars, activity, inbox, req>>

\* find_stitch_candidate.
BotStitch ==
    /\ bot.pc = "stitch"
    /\ LET cands == StitchCandidates(rows, bot.game, now) IN
        \/ cands = {} /\ bot' = [bot EXCEPT !.pc = "start"]
        \/ \E i \in cands : bot' = [bot EXCEPT !.pc = "resume", !.row = i]
    /\ UNCHANGED <<rows, now, userVars, activity, inbox, scan, synced, req>>

\* Seeded fault: the claim does not repeat source = BOT.
BotResumeAnySource ==
    /\ bot.pc = "resume"
    /\ LET r == rows[bot.row] IN
        IF r.status = "COMPLETED" /\ ~Trashed(r)
        THEN /\ rows' = [rows EXCEPT ![bot.row] = Resumed(r)]
             /\ Finish
        ELSE /\ bot' = [bot EXCEPT !.pc = "start", !.row = NoId]
             /\ UNCHANGED <<rows, scan, synced>>
    /\ UNCHANGED <<now, userVars, activity, inbox, req>>

\* The savepoint of start_or_resume_session. The WHERE clause repeats neither
\* the window nor is_flicker.
BotResume ==
    /\ bot.pc = "resume"
    /\ LET r == rows[bot.row]
           claimed == r.status = "COMPLETED" /\ r.source = "BOT" /\ ~Trashed(r)
           startFresh == /\ bot' = [bot EXCEPT !.pc = "start", !.row = NoId]
                         /\ UNCHANGED <<rows, scan, synced>>
       IN \/ ~claimed /\ startFresh
          \/ /\ claimed /\ ~OpenFree(rows, bot.row, Resumed(r))
             /\ UNCHANGED rows
             /\ Raise
          \/ /\ claimed /\ OpenFree(rows, bot.row, Resumed(r))
             /\ ~RangeFree(rows, bot.row, Resumed(r))
             /\ startFresh
          \/ /\ claimed /\ OpenFree(rows, bot.row, Resumed(r))
             /\ RangeFree(rows, bot.row, Resumed(r))
             /\ rows' = [rows EXCEPT ![bot.row] = Resumed(r)]
             /\ Finish
    /\ UNCHANGED <<now, userVars, activity, inbox, req>>

\* start_session. The purge_at test reads the instance reconcile_user loaded.
\* The unique index is checked before the exclusion constraint.
BotStart ==
    /\ bot.pc = "start"
    /\ LET r == NewOpenRow(bot.game, now)
           open == {j \in Ids : Open(rows[j])}
       IN \/ /\ bot.user # "active"
             /\ UNCHANGED rows
             /\ Finish
          \/ /\ bot.user = "active" /\ account = "gone"   \* foreign key
             /\ UNCHANGED rows
             /\ Raise
          \/ /\ bot.user = "active" /\ account # "gone" /\ open # {}
             /\ UNCHANGED rows
             /\ IF \E j \in open : rows[j].game = bot.game THEN Finish ELSE Raise
          \/ /\ bot.user = "active" /\ account # "gone" /\ open = {}
             /\ \E i \in Fresh :
                IF RangeFree(rows, i, r)
                THEN rows' = [rows EXCEPT ![i] = r] ELSE UNCHANGED rows
             /\ Finish
    /\ UNCHANGED <<now, userVars, activity, inbox, req>>

\* The database is unavailable to the handler.
BotFail ==
    /\ "dbfail" \in Faults
    /\ bot.pc # "idle"
    /\ Raise
    /\ UNCHANGED <<rows, now, userVars, activity, inbox, req>>

BotStep == BotLoadUser \/ BotLoadOpen \/ BotClose \/ BotStitch \/ BotResume \/ BotStart

-----------------------------------------------------------------------------
(* REST requests of the user                                               *)

\* get_current_user lets the request in: a live token, no deletion scheduled.
Begins(q, op) ==
    /\ op \in ApiOps
    /\ Accepting /\ account = "active"
    /\ req[q].op = ""

Ends(q) == req' = [req EXCEPT ![q] = NoReq]

\* Seeded fault: no constraints in the database, only the SELECT before.
StoreUnconstrained(i, r) == rows' = [rows EXCEPT ![i] = r]

\* A stored row that breaks no constraint, or the IntegrityError answer.
Store(i, r) ==
    IF OpenFree(rows, i, r) /\ RangeFree(rows, i, r)
    THEN rows' = [rows EXCEPT ![i] = r] ELSE UNCHANGED rows

InputTimes == 0..(MaxTime + FutureGrace)

\* create_session: bounds and the overlap SELECT.
CreateBegin(q) ==
    /\ Begins(q, "create") /\ Room(1)
    /\ \E g \in Games, s, e \in InputTimes :
        /\ WithinBounds(s, e, now, TRUE)
        /\ ~Overlaps(rows, s, e, NoId)
        /\ req' = [req EXCEPT ![q] =
                [NoReq EXCEPT !.op = "create", !.game = g, !.start = s, !.end = e]]
    /\ UNCHANGED <<rows, now, userVars, botVars>>

CreateCommit(q) ==
    /\ req[q].op = "create"
    /\ \/ account = "gone" /\ UNCHANGED rows   \* foreign key
       \/ /\ account # "gone"
          /\ \E i \in Fresh : Store(i, ManualRow(req[q].game, req[q].start, req[q].end))
    /\ Ends(q)
    /\ UNCHANGED <<now, userVars, botVars>>

\* patch_session, to the overlap SELECT, which a trashed row skips.
PatchBegin(q) ==
    /\ Begins(q, "patch")
    /\ \E i \in Ids, e \in InputTimes :
        /\ Exists(rows[i]) /\ ~rows[i].flicker
        /\ rows[i].status # "ONGOING"
        /\ WithinBounds(rows[i].start, e, now, FALSE)
        /\ Trashed(rows[i]) \/ ~Overlaps(rows, rows[i].start, e, i)
        /\ req' = [req EXCEPT ![q] =
                [NoReq EXCEPT !.op = "patch", !.id = i, !.end = e,
                              !.trashed = Trashed(rows[i]),
                              !.leaving = rows[i].status = "ERROR"]]
    /\ UNCHANGED <<rows, now, userVars, botVars>>

\* The conditional UPDATE: 409 or 404 when it matches nothing.
PatchCommit(q) ==
    /\ req[q].op = "patch"
    /\ LET r == rows[req[q].id]
           matched == r.status \in {"COMPLETED", "ERROR"} /\ Trashed(r) = req[q].trashed
       IN IF matched THEN Store(req[q].id, Repaired(r, req[q].end, req[q].leaving))
                     ELSE UNCHANGED rows
    /\ Ends(q)
    /\ UNCHANGED <<now, userVars, botVars>>

\* delete_session without ?hard=true.
DeleteBegin(q) ==
    /\ Begins(q, "delete")
    /\ \E i \in Ids :
        /\ Exists(rows[i]) /\ ~rows[i].flicker
        /\ ~Trashed(rows[i]) /\ rows[i].status # "ONGOING"
        /\ req' = [req EXCEPT ![q] = [NoReq EXCEPT !.op = "delete", !.id = i]]
    /\ UNCHANGED <<rows, now, userVars, botVars>>

\* Seeded fault: the UPDATE does not repeat the status test.
DeleteCommitAnyStatus(q) ==
    /\ req[q].op = "delete"
    /\ rows' = IF Exists(rows[req[q].id])
               THEN [rows EXCEPT ![req[q].id].trashed = now] ELSE rows
    /\ Ends(q)
    /\ UNCHANGED <<now, userVars, botVars>>

DeleteCommit(q) ==
    /\ req[q].op = "delete"
    /\ LET r == rows[req[q].id]
           matched == r.status \in {"COMPLETED", "ERROR"} /\ ~Trashed(r) /\ ~r.flicker
       IN rows' = IF matched THEN [rows EXCEPT ![req[q].id].trashed = now] ELSE rows
    /\ Ends(q)
    /\ UNCHANGED <<now, userVars, botVars>>

\* delete_session with ?hard=true: deleted_at is tested on the loaded row,
\* and the DELETE that follows names nothing but the primary key.
HardBegin(q) ==
    /\ Begins(q, "hard")
    /\ \E i \in Ids :
        /\ Exists(rows[i]) /\ ~rows[i].flicker /\ Trashed(rows[i])
        /\ req' = [req EXCEPT ![q] = [NoReq EXCEPT !.op = "hard", !.id = i]]
    /\ UNCHANGED <<rows, now, userVars, botVars>>

HardCommit(q) ==
    /\ req[q].op = "hard"
    /\ rows' = [rows EXCEPT ![req[q].id] = NoRow]
    /\ Ends(q)
    /\ UNCHANGED <<now, userVars, botVars>>

\* restore_session: only a COMPLETED row is checked for overlap.
RestoreBegin(q) ==
    /\ Begins(q, "restore")
    /\ \E i \in Ids :
        /\ Exists(rows[i]) /\ Trashed(rows[i])
        /\ rows[i].status = "COMPLETED" /\ rows[i].end # NoTime =>
                ~Overlaps(rows, rows[i].start, rows[i].end, i)
        /\ req' = [req EXCEPT ![q] = [NoReq EXCEPT !.op = "restore", !.id = i]]
    /\ UNCHANGED <<rows, now, userVars, botVars>>

\* Seeded fault: what leaves the trash is taken to be finished.
RestoreCommitCompleted(q) ==
    /\ req[q].op = "restore"
    /\ LET r == rows[req[q].id] IN
        IF Exists(r)
        THEN Store(req[q].id, [r EXCEPT !.trashed = NoTime, !.status = "COMPLETED"])
        ELSE UNCHANGED rows
    /\ Ends(q)
    /\ UNCHANGED <<now, userVars, botVars>>

\* UPDATE ... SET deleted_at = NULL by primary key.
RestoreCommit(q) ==
    /\ req[q].op = "restore"
    /\ LET r == rows[req[q].id] IN
        IF Exists(r) THEN Store(req[q].id, [r EXCEPT !.trashed = NoTime])
                     ELSE UNCHANGED rows
    /\ Ends(q)
    /\ UNCHANGED <<now, userVars, botVars>>

Commit(q) == \/ CreateCommit(q) \/ PatchCommit(q) \/ DeleteCommit(q)
             \/ HardCommit(q) \/ RestoreCommit(q)

-----------------------------------------------------------------------------
(* Account deletion and the nightly tasks                                  *)

\* schedule_deletion: one transaction under the lock of the users row.
ScheduleDeletion ==
    /\ "schedule" \in ApiOps
    /\ Accepting /\ account = "active"
    /\ account' = "scheduled"
    /\ purgeAt' = now + DeletionGrace
    /\ rows' = [i \in Ids |-> IF Open(rows[i]) THEN Errored(rows[i]) ELSE rows[i]]
    /\ UNCHANGED <<now, botVars, req>>

CancelDeletion ==
    /\ Accepting /\ account = "scheduled"
    /\ account' = "active"
    /\ purgeAt' = NoTime
    /\ UNCHANGED <<rows, now, botVars, req>>

\* purge_deleted_accounts; the foreign key cascades to the sessions.
PurgeAccount ==
    /\ account = "scheduled" /\ purgeAt =< now
    /\ account' = "gone"
    /\ purgeAt' = NoTime
    /\ rows' = [i \in Ids |-> NoRow]
    /\ UNCHANGED <<now, botVars, req>>

\* register_user: the same Discord id signs up again.
Register ==
    /\ Accepting /\ account = "gone"
    /\ account' = "active"
    /\ UNCHANGED <<rows, now, purgeAt, botVars, req>>

\* One DELETE statement over the rows it selects, if there are any.
Sweep(selected) ==
    /\ selected # {}
    /\ rows' = [i \in Ids |-> IF i \in selected THEN NoRow ELSE rows[i]]
    /\ UNCHANGED <<now, userVars, botVars, req>>

\* Seeded fault: the sweeper compares with the wrong end of the retention.
HardDeleteSweepBackwards ==
    Sweep({i \in Ids : Trashed(rows[i]) /\ rows[i].trashed < TrashRetention - now})

HardDeleteSweep ==
    Sweep({i \in Ids : Trashed(rows[i]) /\ rows[i].trashed < now - TrashRetention})

\* Seeded fault: the purge does not wait for the margin.
FlickerPurgeAtOnce ==
    Sweep({i \in Ids : /\ rows[i].flicker /\ rows[i].status = "COMPLETED"
                       /\ rows[i].end =< now})

\* Seeded fault: the purge takes every old session the bot closed.
FlickerPurgeAnyLength ==
    Sweep({i \in Ids : /\ rows[i].source = "BOT" /\ rows[i].status = "COMPLETED"
                       /\ rows[i].end < now - GcMargin})

\* Seeded fault: the purge looks at visible sessions, as every other query does.
FlickerPurgeVisible ==
    Sweep({i \in Ids : /\ ~rows[i].flicker /\ rows[i].status = "COMPLETED"
                       /\ rows[i].end < now - GcMargin})

FlickerPurge ==
    Sweep({i \in Ids : /\ rows[i].flicker /\ rows[i].status = "COMPLETED"
                       /\ rows[i].end < now - GcMargin})

-----------------------------------------------------------------------------
Environment == \/ ActivityChange \/ DuplicatedChange \/ Redelivery \/ SilentChange
               \/ Restart \/ ScheduleDeletion \/ CancelDeletion \/ Register
               \/ \E q \in Reqs : \/ CreateBegin(q) \/ PatchBegin(q) \/ DeleteBegin(q)
                                  \/ HardBegin(q) \/ RestoreBegin(q)

Next == \/ Environment
        \/ StartupScan \/ BotTake \/ BotStep \/ BotFail
        \/ \E q \in Reqs : Commit(q)
        \/ HardDeleteSweep \/ FlickerPurge \/ PurgeAccount
        \/ Tick

Spec == Init /\ [][Next]_vars

\* The bot's event loop runs every ready handler, a request that has begun is
\* answered, the clock advances however busy the users are, and the worker runs
\* the nightly tasks. Users, the gateway, restarts and failures owe nothing.
Fairness ==
    /\ WF_vars(BotTake) /\ WF_vars(BotStep)
    /\ \A q \in Reqs : WF_vars(Commit(q))
    /\ WF_vars(HardDeleteSweep) /\ WF_vars(FlickerPurge) /\ WF_vars(PurgeAccount)
    /\ WF_vars(Tick)

FairSpec == Spec /\ Fairness

-----------------------------------------------------------------------------
(* Safety                                                                  *)

\* Whoever wrote a row and in whatever order, its columns agree (RowOK): an open
\* row is a live BOT row begun in the past, a row has an end iff it is COMPLETED,
\* the flickers are exactly the short sessions the bot closed, a session the
\* user edited keeps within the cap and the grace, and only what has ended is
\* ever in the trash.
RowsOK == \A i \in Ids : RowOK(rows[i], now)

\* The user's timeline is a line: no two live, non-flicker ONGOING or COMPLETED
\* rows overlap, and at most one row is open. The writes that are not guarded
\* by an IntegrityError handler (closing, trashing, scheduling a deletion) rely
\* on it never being raised there.
OneTimeline == OneLine(rows)

\* What the user lock is for (session_lock.py): once a handler has dealt with
\* the open row, no other row opens until it has started its own, so the unique
\* index never rejects the bot and no handler dies of an IntegrityError.
StartFindsNoOpenRow ==
    bot.pc \in {"stitch", "resume", "start"} => \A i \in Ids : ~Open(rows[i])

\* After the bot has processed an observation to its end, the open row, if
\* there is one, is a session of the game that was observed, whatever it found
\* in the table and whoever interfered. "Only the bot owns those rows."
OpenRowIsSynced ==
    synced # Unknown =>
        \A i \in Ids : Open(rows[i]) => rows[i].game = AliasOf(synced)

\* A user is asked to repair a session only after something went wrong around
\* the bot: while it hears every change once and no deletion was scheduled, no
\* row ends as ERROR, also when starts are delivered again with an empty
\* `before` and while the user edits, trashes and restores sessions.
NoSpuriousError == \A i \in Ids : rows[i].status # "ERROR"

\* The bot never touches a session once the user has edited or logged it, even
\* when the edit lands between its SELECT of a candidate and its claim.
BotKeepsManualRows ==
    [][bot' # bot => \A i \in Ids : rows[i].source = "MANUAL" => rows'[i] = rows[i]]_vars

\* The nightly purge never takes a row a dropout could still be stitched to
\* (config.py, _gc_margin_exceeds_stitch_window), and the trash sweeper never
\* takes a row that is not in the trash.
NightlyTasksSpare(i) ==
    \/ \E g \in Games : Stitchable(rows[i], g, now)
    \/ Exists(rows[i]) /\ ~rows[i].flicker /\ ~Trashed(rows[i])
NightlyTasksAreSafe ==
    [][HardDeleteSweep \/ FlickerPurge =>
        \A i \in Ids : NightlyTasksSpare(i) => rows'[i] = rows[i]]_vars

\* The bot gives up on starting a session only because the user has claimed
\* this instant: a live MANUAL session covers it or lies ahead of it within
\* the future grace. A BOT session never stands in the way of another.
SkippedOnlyForManual ==
    [][bot.pc = "start" /\ account # "gone" /\ bot'.pc = "idle" /\ synced' # Unknown =>
        \/ \E i \in Ids : Open(rows'[i])
        \/ \E i \in Ids : /\ Timeline(rows[i]) /\ rows[i].source = "MANUAL"
                          /\ rows[i].end > now]_vars

-----------------------------------------------------------------------------
(* Liveness                                                                *)

\* No event is lost on the way through the lock: a user who settles on a game
\* has an open session of it in the end. (Instances without requests: a manual
\* session may cover the start, and the bot does not come back to it.)
SettlesOnPlayedGame ==
    \A g \in Names :
        <>[](activity = g /\ account = "active") =>
        <>[](\E i \in Ids : Open(rows[i]) /\ rows[i].game = GameOf[g])

\* A trashed session leaves the trash: restored, or removed by a sweep.
TrashIsEmptied ==
    \A i \in Ids : Trashed(rows[i]) ~> ~Trashed(rows[i])

\* A flicker is reopened or removed; it does not stay hidden in the table.
FlickersGo == \A i \in Ids : rows[i].flicker ~> ~rows[i].flicker

-----------------------------------------------------------------------------
(* What the documentation says and the code does not keep                  *)

\* patch_session: "The restart sentence is system-owned. It describes an
\* unknown end, so it goes away in the same assignment that supplies one."
NoteDescribesError == \A i \in Ids : rows[i].note = "error" => rows[i].status = "ERROR"

\* delete_session: "With ?hard=true, permanently removes a session that is
\* already trashed."
HardDeletesTrashOnly ==
    [][\A q \in Reqs : HardCommit(q) /\ Exists(rows[req[q].id]) =>
            Trashed(rows[req[q].id])]_vars

\* docs/bot.md: "Accounts scheduled for deletion never get a new `ONGOING`
\* session."
NoNewSessionWhileScheduled ==
    [][account = "scheduled" /\ account' = "scheduled" =>
        \A i \in Ids : Open(rows'[i]) => Open(rows[i])]_vars
=============================================================================
