----------------------------- MODULE Visibility ------------------------------
(* Which users the bot can see (src/app/bot/membership.py,                    *)
(* src/app/core/bot_membership.py, src/app/bot/main.py).  The bot keeps a     *)
(* cache of the members of its guilds, told of changes by gateway events; it  *)
(* publishes a snapshot in Redis from which the API answers.  Handlers are    *)
(* asyncio tasks: each writer of the snapshot queues for one lock, in order,  *)
(* and on_member_join asks the database before it does.  Discord and the      *)
(* gateway are the environment; bound on it: MaxChanges.                      *)
EXTENDS Integers, Sequences, FiniteSets

CONSTANTS Users, Guilds,
          FirstMembers, \* the members of each guild before the bot first starts
          Margin,       \* SCAN_COVERAGE_MARGIN_SECONDS, which also bounds the
                        \* time from a row's created_at to its commit
          MaxTime,      \* bound on the clock
          MaxChanges,   \* bound on changes and faults
          MaxTasks      \* bound on the tasks that wait

ASSUME VisibilityAssumption ==
    /\ FirstMembers \in [Guilds -> SUBSET Users]
    /\ Margin \in Nat /\ MaxTime \in Nat \ {0} /\ MaxChanges \in Nat /\ MaxTasks \in Nat

VARIABLES
    member,     \* Discord: the members of each guild
    inGuild,    \* Discord: the guilds the bot is in
    cache,      \* bot: the members it knows of
    whole,      \* bot: guilds that are available and chunked
    unchunked,  \* bot: guilds that are available, and whose chunking failed
    conn,       \* "up", "gap" (the process runs without the gateway) or "down"
    accounts,   \* users: created_at, and whether the row is committed
    snapshot,   \* Redis: the set, its two stamps and flags, and the heartbeat
    checks,     \* joins whose handler waits for the database
    queue,      \* tasks that wait for the lock; the first one has it
    scan,       \* locals of the rebuild that has the lock
    clock,
    changes,
    unheard,    \* history: users whose membership changed without an event, or
                \* whose event was lost, since the last complete scan that no
                \* removal of theirs is waiting to undo
    doubted     \* history: those the snapshot in Redis does not cover

visVars == <<member, inGuild, cache, whole, unchunked, conn, accounts, snapshot,
             checks, queue, scan, clock, changes, unheard, doubted>>

Never == 0
Times == 1..MaxTime
Task == [kind : {"rebuild"}] \cup [kind : {"add"}, user : Users]
        \cup [kind : {"remove"}, user : Users, guild : Guilds]
Rebuild == [kind |-> "rebuild"]
NoScan == [pc |-> "none", at |-> Never, ids |-> {}, complete |-> FALSE]

TypeOK ==
    /\ member \in [Guilds -> SUBSET Users] /\ cache \in [Guilds -> SUBSET Users]
    /\ inGuild \in SUBSET Guilds /\ whole \in SUBSET inGuild
    /\ unchunked \in SUBSET (inGuild \ whole)
    /\ conn \in {"up", "gap", "down"}
    /\ accounts \in [Users -> [created : {Never} \cup Times, committed : BOOLEAN]]
    /\ snapshot \in [visible : SUBSET Users, complete : BOOLEAN, beat : BOOLEAN,
                     syncedAt : {Never} \cup Times, startedAt : {Never} \cup Times]
    /\ checks \in SUBSET (Users \X Guilds) /\ queue \in Seq(Task)
    /\ scan \in [pc : {"none", "locked", "queried", "scanned"}, at : {Never} \cup Times,
                 ids : SUBSET Users, complete : BOOLEAN]
    /\ scan.pc # "none" => queue # <<>> /\ Head(queue) = Rebuild
    /\ clock \in Times /\ changes \in 0..MaxChanges
    /\ unheard \in SUBSET Users /\ doubted \in SUBSET Users

Init ==
    /\ member = FirstMembers /\ cache = [g \in Guilds |-> {}]
    /\ inGuild = Guilds /\ whole = {} /\ unchunked = {}
    /\ conn = "down"
    /\ accounts = [u \in Users |-> [created |-> Never, committed |-> FALSE]]
    /\ snapshot = [visible |-> {}, complete |-> FALSE, beat |-> FALSE,
                   syncedAt |-> Never, startedAt |-> Never]
    /\ checks = {} /\ queue = <<>> /\ scan = NoScan
    /\ clock = 1 /\ changes = 0
    /\ unheard = {} /\ doubted = {}

Change == changes < MaxChanges /\ changes' = changes + 1
Room == Len(queue) < MaxTasks
Enqueue(task) == Room /\ queue' = Append(queue, task)
Missed(us) == unheard' = unheard \cup us /\ doubted' = doubted \cup us

-----------------------------------------------------------------------------
(* What the API answers.                                                      *)

\* is_visible.
Sees(guilds, u) == \E g \in guilds : u \in cache[g]

Trusted == snapshot.beat /\ Never \notin {snapshot.startedAt, snapshot.syncedAt}
           /\ snapshot.syncedAt >= snapshot.startedAt

AnswerWithoutMargin(u) ==
    IF ~Trusted THEN "null"
    ELSE IF u \in snapshot.visible THEN "true"
    ELSE IF snapshot.complete /\ accounts[u].created <= snapshot.syncedAt THEN "false"
    ELSE "null"

\* get_bot_visibility: "null" unless the snapshot is this process's, and false
\* only from a complete scan that covered the account.
Answer(u) ==
    IF ~Trusted THEN "null"
    ELSE IF u \in snapshot.visible THEN "true"
    ELSE IF snapshot.complete /\ accounts[u].created < snapshot.syncedAt - Margin THEN "false"
    ELSE "null"

-----------------------------------------------------------------------------
(* Accounts.                                                                  *)

Register(u) ==
    /\ accounts[u].created = Never
    /\ accounts' = [accounts EXCEPT ![u].created = clock]
    /\ UNCHANGED <<member, inGuild, cache, whole, unchunked, conn, snapshot, checks, queue,
                   scan, clock, changes, unheard, doubted>>

\* The row is committed: by the API, or by /register or /login, whose handler
\* then calls refresh_user.
Commit(u, command) ==
    /\ accounts[u].created # Never /\ ~accounts[u].committed
    /\ accounts' = [accounts EXCEPT ![u].committed = TRUE]
    /\ IF command /\ conn = "up" /\ Sees(inGuild, u)
       THEN Enqueue([kind |-> "add", user |-> u]) ELSE UNCHANGED queue
    /\ UNCHANGED <<member, inGuild, cache, whole, unchunked, conn, snapshot, checks,
                   scan, clock, changes, unheard, doubted>>

-----------------------------------------------------------------------------
(* Discord, and the events the bot hears of it.  The library updates its      *)
(* cache before it starts the handler.  A guild that could not be chunked     *)
(* tells of its changes too, but a member leaving is news only of a member    *)
(* the cache has.                                                             *)

Heard(g) == conn = "up" /\ g \in whole \cup unchunked

MemberJoins(g, u) ==
    /\ Change
    /\ u \notin member[g]
    /\ member' = [member EXCEPT ![g] = @ \cup {u}]
    /\ IF Heard(g)
       THEN /\ cache' = [cache EXCEPT ![g] = @ \cup {u}]
            /\ checks' = checks \cup {<<u, g>>}
            /\ UNCHANGED <<unheard, doubted>>
       ELSE Missed({u} \cap {v \in Users : g \in inGuild}) /\ UNCHANGED <<cache, checks>>
    /\ UNCHANGED <<inGuild, whole, unchunked, conn, accounts, snapshot, queue, scan, clock>>

MemberLeaves(g, u) ==
    /\ Change
    /\ u \in member[g]
    /\ member' = [member EXCEPT ![g] = @ \ {u}]
    /\ IF Heard(g) /\ (g \in whole \/ u \in cache[g])
       THEN /\ cache' = [cache EXCEPT ![g] = @ \ {u}]
            /\ Enqueue([kind |-> "remove", user |-> u, guild |-> g])
            /\ UNCHANGED <<unheard, doubted>>
       ELSE Missed({u} \cap {v \in Users : g \in inGuild}) /\ UNCHANGED <<cache, queue>>
    /\ UNCHANGED <<inGuild, whole, unchunked, conn, accounts, snapshot, checks, scan, clock>>

\* What the cache holds of a guild as it becomes available.
Loaded(g, chunked) == IF chunked THEN member[g] ELSE {}

\* on_guild_join: the guild is chunked, or chunking fails; then a rebuild.
BotJoins(g, chunked) ==
    /\ Change
    /\ conn = "up" /\ g \notin inGuild
    /\ inGuild' = inGuild \cup {g}
    /\ whole' = IF chunked THEN whole \cup {g} ELSE whole
    /\ unchunked' = IF chunked THEN unchunked ELSE unchunked \cup {g}
    /\ cache' = [cache EXCEPT ![g] = Loaded(g, chunked)]
    /\ Enqueue(Rebuild)
    /\ Missed(member[g])
    /\ UNCHANGED <<member, conn, accounts, snapshot, checks, scan, clock>>

\* on_guild_remove.
BotLeaves(g) ==
    /\ Change
    /\ conn = "up" /\ g \in inGuild
    /\ inGuild' = inGuild \ {g} /\ whole' = whole \ {g} /\ unchunked' = unchunked \ {g}
    /\ cache' = [cache EXCEPT ![g] = {}]
    /\ Enqueue(Rebuild)
    /\ UNCHANGED <<member, conn, accounts, snapshot, checks, scan, clock, unheard, doubted>>

\* A guild becomes unavailable.
Outage(g) ==
    /\ Change
    /\ conn = "up" /\ g \in whole \cup unchunked
    /\ whole' = whole \ {g} /\ unchunked' = unchunked \ {g}
    /\ UNCHANGED <<member, inGuild, cache, conn, accounts, snapshot, checks, queue,
                   scan, clock, unheard, doubted>>

\* It is available again, and the library chunks it, or fails to.  No handler
\* of the bot runs, and nobody chunks a guild whose chunking failed.
GuildBack(g, chunked) ==
    /\ conn = "up" /\ g \in inGuild \ (whole \cup unchunked)
    /\ IF chunked THEN whole' = whole \cup {g} /\ UNCHANGED <<unchunked, changes>>
                  ELSE unchunked' = unchunked \cup {g} /\ Change /\ UNCHANGED whole
    /\ cache' = [cache EXCEPT ![g] = Loaded(g, chunked)]
    /\ UNCHANGED <<member, inGuild, conn, accounts, snapshot, checks, queue,
                   scan, clock, unheard, doubted>>

-----------------------------------------------------------------------------
(* The bot process.                                                           *)

\* on_ready of a new process or of a reconnect: the available guilds have been
\* chunked, but for those where that failed; bot:started_at is written, or the
\* write fails and is logged, and a rebuild is begun.  The stamps are whole
\* seconds: a snapshot of the same second is still answered from, with the
\* doubts it had.
Ready(available, failed, stamped) ==
    /\ conn # "up"
    /\ IF stamped /\ failed = {} THEN UNCHANGED changes ELSE Change
    /\ conn' = "up"
    /\ whole' = (inGuild \cap available) \ failed
    /\ unchunked' = inGuild \cap available \cap failed
    /\ cache' = [g \in Guilds |-> Loaded(g, g \in whole')]
    /\ snapshot' = [snapshot EXCEPT !.beat = TRUE,
                                    !.startedAt = IF stamped THEN clock ELSE @]
    /\ queue' = Append(queue, Rebuild)
    /\ doubted' = IF stamped /\ snapshot.syncedAt < clock THEN {} ELSE doubted
    /\ UNCHANGED <<member, inGuild, accounts, checks, scan, clock, unheard>>

\* The gateway is lost; the process, its tasks and its heartbeat go on.
Gap ==
    /\ Change
    /\ conn = "up" /\ conn' = "gap"
    /\ UNCHANGED <<member, inGuild, cache, whole, unchunked, accounts, snapshot, checks, queue, scan,
                   clock, unheard, doubted>>

Crash ==
    /\ Change
    /\ conn # "down" /\ conn' = "down"
    /\ checks' = {} /\ queue' = <<>> /\ scan' = NoScan
    /\ Missed({u \in Users : \E g \in Guilds : <<u, g>> \in checks}
              \cup {u \in Users : [kind |-> "add", user |-> u] \in {queue[k] : k \in DOMAIN queue}})
    /\ UNCHANGED <<member, inGuild, cache, whole, unchunked, accounts, snapshot, clock>>

\* The key bot:heartbeat of a process that is gone runs out.
HeartbeatExpires ==
    /\ conn = "down" /\ snapshot.beat
    /\ snapshot' = [snapshot EXCEPT !.beat = FALSE]
    /\ UNCHANGED <<member, inGuild, cache, whole, unchunked, conn, accounts, checks, queue,
                   scan, clock, changes, unheard, doubted>>

RemovalWaits(u) == \E k \in DOMAIN queue : queue[k].kind = "remove" /\ queue[k].user = u

\* on_member_join has its answer from the database, or fails.  A join of a
\* user who is not registered is dropped, though a removal may still wait.
JoinCheck(u, g) ==
    /\ <<u, g>> \in checks
    /\ checks' = checks \ {<<u, g>>}
    /\ IF accounts[u].committed
       THEN Enqueue([kind |-> "add", user |-> u]) /\ UNCHANGED <<unheard, doubted>>
       ELSE Missed({v \in {u} : RemovalWaits(v)}) /\ UNCHANGED queue
    /\ UNCHANGED <<member, inGuild, cache, whole, unchunked, conn, accounts, snapshot, scan,
                   clock, changes>>

JoinFails(u, g) ==
    /\ Change
    /\ <<u, g>> \in checks
    /\ checks' = checks \ {<<u, g>>}
    /\ Missed({u})
    /\ UNCHANGED <<member, inGuild, cache, whole, unchunked, conn, accounts, snapshot, queue,
                   scan, clock>>

HasLock(kind) == queue # <<>> /\ Head(queue).kind = kind

AddVisible ==
    /\ HasLock("add")
    /\ snapshot' = [snapshot EXCEPT !.visible = @ \cup {Head(queue).user}]
    /\ queue' = Tail(queue)
    /\ UNCHANGED <<member, inGuild, cache, whole, unchunked, conn, accounts, checks, scan,
                   clock, changes, unheard, doubted>>

\* on_member_remove: only when no other guild has the user, and every other
\* guild's cache can tell.
RemoveVisible ==
    LET u == Head(queue).user
        others == inGuild \ {Head(queue).guild} IN
    /\ HasLock("remove")
    /\ snapshot' = IF others \subseteq whole /\ ~Sees(others, u)
                   THEN [snapshot EXCEPT !.visible = @ \ {u}] ELSE snapshot
    /\ queue' = Tail(queue)
    /\ UNCHANGED <<member, inGuild, cache, whole, unchunked, conn, accounts, checks, scan,
                   clock, changes, unheard, doubted>>

TaskFailsMidScan ==
    /\ Change
    /\ queue # <<>>
    /\ IF HasLock("add") THEN Missed({Head(queue).user}) ELSE UNCHANGED <<unheard, doubted>>
    /\ queue' = Tail(queue)
    /\ UNCHANGED <<member, inGuild, cache, whole, unchunked, conn, accounts, snapshot, checks, clock, scan>>

\* Any handler fails at Redis or the database; it is logged.
TaskFails ==
    /\ Change
    /\ queue # <<>>
    /\ IF HasLock("add") THEN Missed({Head(queue).user}) ELSE UNCHANGED <<unheard, doubted>>
    /\ queue' = Tail(queue) /\ scan' = NoScan
    /\ UNCHANGED <<member, inGuild, cache, whole, unchunked, conn, accounts, snapshot, checks, clock>>

\* _membership_rebuild_loop.
Periodic ==
    /\ conn = "up" /\ \A k \in DOMAIN queue : queue[k] # Rebuild
    /\ Enqueue(Rebuild)
    /\ UNCHANGED <<member, inGuild, cache, whole, unchunked, conn, accounts, snapshot, checks,
                   scan, clock, changes, unheard, doubted>>

\* rebuild_snapshot: the instant, the registered users, the cache, the write.
RebuildLock ==
    /\ HasLock("rebuild") /\ scan.pc = "none"
    /\ scan' = [NoScan EXCEPT !.pc = "locked", !.at = clock]
    /\ UNCHANGED <<member, inGuild, cache, whole, unchunked, conn, accounts, snapshot, checks,
                   queue, clock, changes, unheard, doubted>>

RebuildQuery ==
    /\ scan.pc = "locked"
    /\ scan' = [scan EXCEPT !.pc = "queried", !.ids = {u \in Users : accounts[u].committed}]
    /\ UNCHANGED <<member, inGuild, cache, whole, unchunked, conn, accounts, snapshot, checks,
                   queue, clock, changes, unheard, doubted>>

KeptAlways(complete) == snapshot.visible

\* A cache that cannot prove absence keeps who was visible before.
Kept(complete) == IF complete THEN {} ELSE snapshot.visible

RebuildScan ==
    LET complete == inGuild # {} /\ inGuild \subseteq whole IN
    /\ scan.pc = "queried"
    /\ scan' = [scan EXCEPT !.pc = "scanned", !.complete = complete,
                            !.ids = {u \in @ : Sees(inGuild, u) \/ u \in Kept(complete)}]
    /\ unheard' = IF complete /\ conn = "up" THEN {u \in unheard : RemovalWaits(u)}
                  ELSE unheard
    /\ UNCHANGED <<member, inGuild, cache, whole, unchunked, conn, accounts, snapshot, checks,
                   queue, clock, changes, doubted>>

RebuildWrite ==
    /\ scan.pc = "scanned"
    /\ snapshot' = [snapshot EXCEPT !.visible = scan.ids, !.complete = scan.complete,
                                    !.syncedAt = scan.at]
    /\ doubted' = IF scan.complete THEN unheard ELSE doubted
    /\ queue' = Tail(queue) /\ scan' = NoScan
    /\ UNCHANGED <<member, inGuild, cache, whole, unchunked, conn, accounts, checks, clock,
                   changes, unheard>>

\* Time passes; a row is committed within the margin of its created_at.
Tick ==
    /\ clock < MaxTime /\ clock' = clock + 1
    /\ \A u \in Users : accounts[u].created # Never /\ ~accounts[u].committed
                          => clock' <= accounts[u].created + Margin
    /\ UNCHANGED <<member, inGuild, cache, whole, unchunked, conn, accounts, snapshot, checks,
                   queue, scan, changes, unheard, doubted>>

Tasks == \/ \E u \in Users, g \in Guilds : JoinCheck(u, g)
         \/ AddVisible \/ RemoveVisible
         \/ RebuildLock \/ RebuildQuery \/ RebuildScan \/ RebuildWrite

Reconnect == \E available \in SUBSET Guilds : Ready(available, {}, TRUE)
Returns == \E g \in Guilds : GuildBack(g, TRUE)

Discord ==
    \/ \E g \in Guilds, u \in Users : MemberJoins(g, u) \/ MemberLeaves(g, u)
    \/ \E g \in Guilds : BotLeaves(g) \/ Outage(g)
    \/ \E g \in Guilds, chunked \in BOOLEAN : BotJoins(g, chunked)

Faults ==
    \/ \E available \in SUBSET Guilds, stamped \in BOOLEAN :
          \E failed \in SUBSET available : Ready(available, failed, stamped)
    \/ \E g \in Guilds : GuildBack(g, FALSE)
    \/ Gap \/ Crash \/ TaskFails
    \/ \E u \in Users, g \in Guilds : JoinFails(u, g)

Next ==
    \/ \E u \in Users : Register(u) \/ \E command \in BOOLEAN : Commit(u, command)
    \/ Discord \/ Faults \/ Reconnect \/ Returns
    \/ Tasks \/ Periodic \/ HeartbeatExpires \/ Tick

\* The event loop runs its tasks and the five-minute loop, a heartbeat that is
\* not renewed expires, time passes, and Discord brings back the gateway and
\* every guild that is unavailable.  One that could not be chunked is left out:
\* rebuild_snapshot only reads the cache.
Fairness ==
    /\ WF_visVars(Tasks) /\ WF_visVars(Periodic) /\ WF_visVars(HeartbeatExpires)
    /\ WF_visVars(Tick) /\ WF_visVars(Reconnect) /\ WF_visVars(Returns)
    /\ \A u \in Users : WF_visVars(Commit(u, FALSE))

Spec == Init /\ [][Next]_visVars /\ Fairness

-----------------------------------------------------------------------------
(* Properties. *)

InSomeGuild(u) == \E g \in inGuild : u \in member[g]
JoinPending(u) == \/ \E g \in Guilds : <<u, g>> \in checks
                  \/ \E k \in DOMAIN queue : queue[k] = [kind |-> "add", user |-> u]

(* "False only when the snapshot proves absence": the API says the bot cannot *)
(* see a registered user only if the user is in none of its guilds, unless    *)
(* the change has not reached the bot or is still being handled.  A restart   *)
(* or reconnect that wrote started_at in a later second than the last scan    *)
(* leaves no such doubt, whatever changed meanwhile; accounts younger than    *)
(* the scan are covered by the margin.                                        *)
FalseIsProved ==
    \A u \in Users :
        accounts[u].committed /\ Answer(u) = "false" /\ u \notin doubted /\ ~JoinPending(u)
            => ~InSomeGuild(u)

(* However handlers raced and failed (a member added after being removed, a   *)
(* lost event, a partial snapshot), once Discord stops changing no "false"    *)
(* that is wrong stays; nor does a "true", unless a guild stays unchunked or  *)
(* no guild is left, for then no rebuild may drop a user: the five-minute     *)
(* rebuild repairs the rest.                                                  *)
AnswersSettle ==
    /\ <>[](\A u \in Users :
               accounts[u].committed /\ Answer(u) = "false" => ~InSomeGuild(u))
    /\ <>[](unchunked = {} /\ inGuild # {}) =>
          <>[](\A u \in Users :
                 accounts[u].committed /\ Answer(u) = "true" => InSomeGuild(u))
=============================================================================
