------------------------------ MODULE Accounts -------------------------------
(* Accounts: login, tokens, devices, scheduled deletion and its audit trail,  *)
(* the nightly purge and the reset of the demo account                        *)
(* (src/app/api/v1/endpoints/auth.py, profile.py, notifications.py,           *)
(* src/app/services/account_deletion.py, src/app/bot/commands.py,             *)
(* src/app/tasks/cleanup.py).  A request is a record of one process: it reads *)
(* the account when it is authenticated and writes in a later step, as the    *)
(* ORM does with expire_on_commit=False and a row that is locked but not      *)
(* refreshed.  Days stand for every lifetime of a day or more.                *)
EXTENDS LinkCodes, Sequences

CONSTANTS Ips, Devices, NoIp,
          Demo, Admins,        \* DEMO_DISCORD_ID, users.is_admin
          LoggedIn,            \* the users holding a token at the start, in order
          GraceDays, TokenDays, StaleDays,
          DemoMaxTokens, IpFailLimit, GlobalFailLimit, DemoRateLimit,
          MaxDay, MaxCalls,    \* bounds of the model
          Mixes                \* the sets of requests that are let meet

ASSUME AccountAssumption ==
    /\ IsFiniteSet(Procs) /\ Procs # {}
    /\ Demo \in Users /\ Admins \subseteq Users
    /\ LoggedIn \in Seq(Users) /\ LoggedIn # <<>>
    \* The demo account starts within its cap.
    /\ Cardinality({k \in DOMAIN LoggedIn : LoggedIn[k] = Demo}) <= DemoMaxTokens
    /\ GraceDays \in Nat \ {0} /\ TokenDays \in Nat /\ StaleDays \in Nat
    /\ {DemoMaxTokens, IpFailLimit, GlobalFailLimit, DemoRateLimit} \subseteq Nat
    /\ MaxDay \in Nat \ {0} /\ MaxCalls \in Nat

VARIABLES
    users,     \* users: the row's stamps and flags
    tokens,    \* user_auth_tokens, by id: the order they were minted in
    devices,   \* user_devices, by fcm_token
    trail,     \* account_deletion_events of each user, in insertion order
    hits,      \* Redis counters with a window (_incr_window)
    now,       \* the day
    req,       \* the request each process serves
    minted,    \* the sequence behind user_auth_tokens.id
    history,   \* credit: codes stored for a user less codes redeemed for it;
               \* untrimmed: demo logins without their trim, since the last trim
    calls,     \* requests and runs begun, at most MaxCalls
    mix        \* the kinds of request this behaviour is made of

accountVars == <<users, tokens, devices, trail, hits, now, req, minted,
                 history, calls, mix, linkVars>>

Never == 0
Days == 1..MaxDay
TokenIds == 1..(Len(LoggedIn) + MaxCalls)
IpKey(ip) == <<"ip", ip>>
DemoKey(ip) == <<"demo", ip>>
VoiceKey(u) == <<"voice", u>>
GlobalKey == <<"global">>
Windows == {IpKey(ip) : ip \in Ips} \cup {DemoKey(ip) : ip \in Ips}
           \cup {VoiceKey(u) : u \in Users} \cup {GlobalKey}

Account == [exists : BOOLEAN, report : BOOLEAN, purgeAt : {Never} \cup 1..(MaxDay + GraceDays)]
Token == [user : Users \cup {NoUser}, active : {Never} \cup Days]
Event == [event : {"requested", "cancelled", "purged"}, purgeAt : {Never} \cup 1..(MaxDay + GraceDays)]
AllowPending == {"schedule", "cancel"}
Operations == AllowPending \cup {"register", "unregister", "settings", "transcribe"}
RequestPcs == {"idle", "issue", "discard", "linking", "redeem", "redeeming", "discord",
               "mint", "cap", "reset", "whisper", "bill"} \cup Operations
Request == [pc : RequestPcs, user : Users \cup {NoUser}, saw : {Never} \cup 1..(MaxDay + GraceDays),
            existed : BOOLEAN, ip : Ips \cup {NoIp}]

NewUser == [exists |-> TRUE, report |-> TRUE, purgeAt |-> Never]
Gone == [exists |-> FALSE, report |-> FALSE, purgeAt |-> Never]
NoToken == [user |-> NoUser, active |-> Never]
NoDevice == NoToken
Idle == [pc |-> "idle", user |-> NoUser, saw |-> Never, existed |-> FALSE, ip |-> NoIp]

AccountTypeOK ==
    /\ LinkTypeOK
    /\ users \in [Users -> Account]
    /\ tokens \in [TokenIds -> Token]
    /\ devices \in [Devices -> Token]
    /\ \A u \in Users : \A k \in DOMAIN trail[u] : trail[u][k] \in Event
    /\ hits \in [Windows -> 0..MaxCalls]
    /\ now \in Days
    /\ req \in [Procs -> Request]
    /\ minted \in {0} \cup TokenIds
    /\ history \in [credit : [Users -> Int], untrimmed : 0..MaxCalls]
    /\ calls \in 0..MaxCalls
    /\ mix \in Mixes

AccountInit ==
    /\ LinkInit
    /\ users = [u \in Users |-> IF u \in {LoggedIn[k] : k \in DOMAIN LoggedIn} \cup {Demo}
                                THEN NewUser ELSE Gone]
    /\ tokens = [i \in TokenIds |-> IF i \in DOMAIN LoggedIn
                                    THEN [user |-> LoggedIn[i], active |-> 1] ELSE NoToken]
    /\ devices = [d \in Devices |-> [user |-> LoggedIn[1], active |-> 1]]
    /\ trail = [u \in Users |-> <<>>]
    /\ hits = [w \in Windows |-> 0]
    /\ now = 1
    /\ req = [p \in Procs |-> Idle]
    /\ minted = Len(LoggedIn)
    /\ history = [credit |-> [u \in Users |-> 0], untrimmed |-> 0]
    /\ calls = 0
    /\ mix \in Mixes

-----------------------------------------------------------------------------
(* Tables. *)

Without(rows, lost) == [k \in DOMAIN rows |-> IF rows[k].user \in lost THEN NoToken ELSE rows[k]]
Owned(rows, u) == {k \in DOMAIN rows : rows[k].user = u}

Record(u, what, purgeAt) ==
    trail' = [trail EXCEPT ![u] = Append(@, [event |-> what, purgeAt |-> purgeAt])]

\* Begins one of the MaxCalls requests.
Spend(kind) ==
    /\ calls < MaxCalls /\ calls' = calls + 1
    /\ kind \in mix /\ UNCHANGED mix
At(p, pc) == req[p].pc = pc
Done(p) == req' = [req EXCEPT ![p] = Idle]
Goto(p, pc) == req' = [req EXCEPT ![p].pc = pc]
HitTwice(w) == hits' = [hits EXCEPT ![w] = @ + 2]
Hit(w) == hits' = [hits EXCEPT ![w] = @ + 1]

-----------------------------------------------------------------------------
(* Requests under a bearer token (get_current_user, and                       *)
(* get_current_user_allow_pending for the deletion endpoints).                *)

Expired(i) == tokens[i].active + TokenDays < now

\* The token's lifetime slides, and the account is read once: what the
\* request sees of purge_at is what it was here.
Authenticate(p, i, op) ==
    LET u == tokens[i].user IN
    /\ req[p] = Idle /\ Spend(op)
    /\ u # NoUser
    /\ IF Expired(i)
       THEN /\ tokens' = [tokens EXCEPT ![i] = NoToken]
            /\ UNCHANGED req
       ELSE /\ tokens' = [tokens EXCEPT ![i].active = now]
            /\ req' = IF \/ users[u].purgeAt # Never /\ op \notin AllowPending
                         \/ op = "schedule" /\ u \in Admins
                      THEN req
                      ELSE [req EXCEPT ![p] = [Idle EXCEPT !.pc = op, !.user = u,
                                                          !.saw = users[u].purgeAt]]
    /\ UNCHANGED <<users, devices, trail, hits, now, minted, history, linkVars>>

\* schedule_deletion: the row is locked, but the check is on the instance the
\* request already holds.
ScheduleDeletion(p) ==
    LET u == req[p].user IN
    /\ At(p, "schedule")
    /\ IF users[u].exists /\ req[p].saw = Never
       THEN /\ users' = [users EXCEPT ![u].purgeAt = now + GraceDays]
            /\ Record(u, "requested", now + GraceDays)
            /\ tokens' = Without(tokens, {u})
            /\ devices' = Without(devices, {u})
            /\ Goto(p, "discard")
       ELSE Done(p) /\ UNCHANGED <<users, tokens, devices, trail>>
    /\ UNCHANGED <<hits, now, minted, history, calls, mix, linkVars>>

CancelDeletion(p) ==
    LET u == req[p].user IN
    /\ At(p, "cancel")
    /\ IF users[u].exists /\ req[p].saw # Never
       THEN /\ users' = [users EXCEPT ![u].purgeAt = Never]
            /\ Record(u, "cancelled", Never)
       ELSE UNCHANGED <<users, trail>>
    /\ Done(p)
    /\ UNCHANGED <<tokens, devices, hits, now, minted, history, calls, mix, linkVars>>

\* ON CONFLICT (fcm_token): the device moves to the account that registers it.
\* The foreign key refuses it for an account that is gone.
RegisterDevice(p, d) ==
    LET u == req[p].user IN
    /\ At(p, "register")
    /\ devices' = IF users[u].exists
                  THEN [devices EXCEPT ![d] = [user |-> u, active |-> now]] ELSE devices
    /\ Done(p)
    /\ UNCHANGED <<users, tokens, trail, hits, now, minted, history, calls, mix, linkVars>>

UnregisterDevice(p, d) ==
    /\ At(p, "unregister")
    /\ devices' = IF devices[d].user = req[p].user
                  THEN [devices EXCEPT ![d] = NoDevice] ELSE devices
    /\ Done(p)
    /\ UNCHANGED <<users, tokens, trail, hits, now, minted, history, calls, mix, linkVars>>

\* weekly_report_enabled and push_enabled, kept as one flag.
UpdateSettings(p) ==
    LET u == req[p].user IN
    /\ At(p, "settings")
    /\ users' = IF users[u].exists THEN [users EXCEPT ![u].report = ~@] ELSE users
    /\ Done(p)
    /\ UNCHANGED <<tokens, devices, trail, hits, now, minted, history, calls, mix, linkVars>>

AppLogout(i) ==
    /\ Spend("logout")
    /\ tokens[i] # NoToken
    /\ tokens' = [tokens EXCEPT ![i] = NoToken]
    /\ UNCHANGED <<users, devices, trail, hits, now, req, minted, history, linkVars>>

-----------------------------------------------------------------------------
(* Slash commands and login.                                                  *)

\* /login and the upsert of its user.
BotLogin(p, u) ==
    /\ req[p] = Idle /\ Spend("bot_login") /\ u # Demo
    /\ users' = IF users[u].exists THEN users ELSE [users EXCEPT ![u] = NewUser]
    /\ req' = [req EXCEPT ![p] = [Idle EXCEPT !.pc = "issue", !.user = u]]
    /\ UNCHANGED <<tokens, devices, trail, hits, now, minted, history, linkVars>>

BotIssue(p) ==
    /\ At(p, "issue")
    /\ IssueRead(p, req[p].user)
    /\ Goto(p, "linking")
    /\ UNCHANGED <<users, tokens, devices, trail, hits, now, minted, history, calls, mix>>

\* /logout on Discord: every token of the user, then the pending code.
BotLogout(p, u) ==
    /\ req[p] = Idle /\ Spend("bot_logout") /\ users[u].exists
    /\ tokens' = Without(tokens, {u})
    /\ req' = [req EXCEPT ![p] = [Idle EXCEPT !.pc = "discard", !.user = u]]
    /\ UNCHANGED <<users, devices, trail, hits, now, minted, history, linkVars>>

Discard(p) ==
    /\ At(p, "discard")
    /\ DiscardTake(p, req[p].user)
    /\ Goto(p, "linking")
    /\ UNCHANGED <<users, tokens, devices, trail, hits, now, minted, history, calls, mix>>

\* Redis is down: the deletion or logout that is committed stands.
DiscardSkipped(p) ==
    /\ At(p, "discard")
    /\ Done(p)
    /\ UNCHANGED <<users, tokens, devices, trail, hits, now, minted, history, calls, mix, linkVars>>

\* A step of a link code call; a stored code is a login its user may make.
LinkWork(p) ==
    /\ LinkStep(p)
    /\ history' = IF link[p].pc = "store" /\ link'[p].pc = "index"
                  THEN [history EXCEPT !.credit[link[p].user] = @ + 1] ELSE history
    /\ UNCHANGED <<users, tokens, devices, trail, hits, now, req, minted, calls, mix>>

LinkDone(p) ==
    /\ At(p, "linking")
    /\ Return(p)
    /\ Done(p)
    /\ UNCHANGED <<users, tokens, devices, trail, hits, now, minted, history, calls, mix>>

LockedOutLate(ip) == hits[IpKey(ip)] > IpFailLimit \/ hits[GlobalKey] > GlobalFailLimit
LockedOut(ip) == hits[IpKey(ip)] >= IpFailLimit \/ hits[GlobalKey] >= GlobalFailLimit

\* /link after check_lockout: the code is guessed, or one that was issued.
LinkLogin(p, ip) ==
    /\ req[p] = Idle /\ Spend("link")
    /\ ~LockedOut(ip)
    /\ req' = [req EXCEPT ![p] = [Idle EXCEPT !.pc = "redeem", !.ip = ip]]
    /\ UNCHANGED <<users, tokens, devices, trail, hits, now, minted, history, linkVars>>

LinkRedeem(p, c) ==
    /\ At(p, "redeem")
    /\ c # DemoCode
    /\ RedeemTake(p, c)
    /\ Goto(p, "redeeming")
    /\ history' = IF codes[c] = NoUser THEN history
                  ELSE [history EXCEPT !.credit[codes[c]] = @ - 1]
    /\ UNCHANGED <<users, tokens, devices, trail, hits, now, minted, calls, mix>>

\* record_failure of a code that was refused, as far as Redis can be reached.
LinkRefused(p) ==
    LET counted == [hits EXCEPT ![IpKey(req[p].ip)] = @ + 1] IN
    /\ At(p, "redeeming") /\ link[p].pc = "refused"
    /\ Return(p)
    /\ hits' \in {hits, counted, [counted EXCEPT ![GlobalKey] = @ + 1]}
    /\ Done(p)
    /\ UNCHANGED <<users, tokens, devices, trail, now, minted, history, calls, mix>>

\* The redemption's user, when it is still registered; 503 when the call was lost.
LinkAccepted(p) ==
    /\ At(p, "redeeming") /\ link[p].pc \in {"redeemed", "failed"}
    /\ Return(p)
    /\ IF link[p].pc = "redeemed" /\ users[link[p].user].exists
       THEN req' = [req EXCEPT ![p].pc = "mint", ![p].user = link[p].user]
       ELSE Done(p)
    /\ UNCHANGED <<users, tokens, devices, trail, hits, now, minted, history, calls, mix>>

\* The reviewer code: no lockout and no redemption, its own counter, which is
\* skipped when Redis is down.
DemoLogin(p, ip) ==
    /\ req[p] = Idle /\ Spend("demo")
    /\ users[Demo].exists
    /\ \/ /\ UNCHANGED hits
          /\ req' = [req EXCEPT ![p] = [Idle EXCEPT !.pc = "mint", !.user = Demo]]
       \/ /\ Hit(DemoKey(ip))
          /\ req' = IF hits[DemoKey(ip)] + 1 > DemoRateLimit THEN req
                    ELSE [req EXCEPT ![p] = [Idle EXCEPT !.pc = "mint", !.user = Demo]]
    /\ UNCHANGED <<users, tokens, devices, trail, now, minted, history, linkVars>>

\* The account is looked up after Discord's token, identity and guilds are
\* fetched, and written with its token in one commit.
DiscordLogin(p, u) ==
    /\ req[p] = Idle /\ Spend("discord") /\ u # Demo
    /\ req' = [req EXCEPT ![p] = [Idle EXCEPT !.pc = "discord", !.user = u,
                                              !.existed = users[u].exists]]
    /\ UNCHANGED <<users, tokens, devices, trail, hits, now, minted, history, linkVars>>

Add(u) == /\ minted' = minted + 1
          /\ tokens' = [tokens EXCEPT ![minted'] = [user |-> u, active |-> now]]

\* The name-only login of a development install: the demo account's tokens are
\* not trimmed here.
DevLogin(u) ==
    /\ Spend("dev") /\ users[u].exists
    /\ Add(u)
    /\ history' = IF u = Demo THEN [history EXCEPT !.untrimmed = @ + 1] ELSE history
    /\ UNCHANGED <<users, devices, trail, hits, now, req, linkVars>>

\* 409 when the row was inserted or purged since it was read.
DiscordCommit(p) ==
    LET u == req[p].user IN
    /\ At(p, "discord")
    /\ IF users[u].exists = req[p].existed
       THEN /\ users' = IF users[u].exists THEN users ELSE [users EXCEPT ![u] = NewUser]
            /\ Add(u)
       ELSE UNCHANGED <<users, tokens, minted>>
    /\ Done(p)
    /\ UNCHANGED <<devices, trail, hits, now, history, calls, mix, linkVars>>

\* _issue_token commits; the demo account's surplus is deleted by a second
\* transaction, which a crash may leave out.
IssueToken(p) ==
    LET u == req[p].user IN
    /\ At(p, "mint")
    /\ IF users[u].exists
       THEN Add(u) /\ (IF u = Demo THEN Goto(p, "cap") ELSE Done(p))
       ELSE Done(p) /\ UNCHANGED <<tokens, minted>>
    /\ UNCHANGED <<users, devices, trail, hits, now, history, calls, mix, linkVars>>

NewestAndOne(ids, n) == {i \in ids : Cardinality({j \in ids : j > i}) <= n}
Newest(ids, n) == {i \in ids : Cardinality({j \in ids : j > i}) < n}

CapDemoTokens(p) ==
    /\ At(p, "cap")
    /\ LET mine == Owned(tokens, Demo) IN
       tokens' = [i \in TokenIds |-> IF i \in mine \ Newest(mine, DemoMaxTokens)
                                     THEN NoToken ELSE tokens[i]]
    /\ history' = [history EXCEPT !.untrimmed = 0]
    /\ Done(p)
    /\ UNCHANGED <<users, devices, trail, hits, now, minted, calls, mix, linkVars>>

-----------------------------------------------------------------------------
(* Nightly tasks, and time.                                                   *)

DueAnyDay(u) == users[u].exists /\ users[u].purgeAt # Never /\ u # Demo
Due(u) == users[u].exists /\ users[u].purgeAt # Never /\ users[u].purgeAt <= now /\ u # Demo

\* One DELETE of every due account, its tokens and devices by cascade.
PurgeAccounts ==
    LET due == {u \in Users : Due(u)} IN
    /\ due # {}
    /\ users' = [u \in Users |-> IF u \in due THEN Gone ELSE users[u]]
    /\ tokens' = Without(tokens, due)
    /\ devices' = Without(devices, due)
    /\ trail' = [u \in Users |-> IF u \in due
                   THEN Append(trail[u], [event |-> "purged", purgeAt |-> users[u].purgeAt])
                   ELSE trail[u]]
    /\ UNCHANGED <<hits, now, req, minted, history, calls, mix, linkVars>>

SweepDevices ==
    /\ devices' = [d \in Devices |-> IF devices[d].active + StaleDays < now
                                     THEN NoDevice ELSE devices[d]]
    /\ devices' # devices
    /\ UNCHANGED <<users, tokens, trail, hits, now, req, minted, history, calls, mix, linkVars>>

\* reset_demo_account reads the account without a lock and commits later.
DemoRead(p) ==
    /\ req[p] = Idle /\ Spend("reset")
    /\ req' = [req EXCEPT ![p] = [Idle EXCEPT !.pc = "reset", !.user = Demo,
                                              !.saw = users[Demo].purgeAt]]
    /\ UNCHANGED <<users, tokens, devices, trail, hits, now, minted, history, linkVars>>

\* An attribute that was already None is not written; a device registered
\* after the DELETE of the devices stays.
DemoCommit(p) ==
    /\ At(p, "reset")
    /\ \E late \in SUBSET Owned(devices, Demo) :
           devices' = [d \in Devices |-> IF d \in late THEN devices[d]
                                         ELSE Without(devices, {Demo})[d]]
    /\ users' = [users EXCEPT ![Demo].report = TRUE,
                              ![Demo].purgeAt = IF req[p].saw # Never THEN Never ELSE @]
    /\ IF req[p].saw # Never THEN Record(Demo, "cancelled", Never) ELSE UNCHANGED trail
    /\ Done(p)
    /\ UNCHANGED <<tokens, hits, now, minted, history, calls, mix, linkVars>>

\* The process serving a request dies, or the reset is rolled back.
RequestLost(p) ==
    /\ req[p] # Idle /\ link[p] = NoCall
    /\ Done(p)
    /\ history' = IF At(p, "cap") THEN [history EXCEPT !.untrimmed = @ + 1] ELSE history
    /\ UNCHANGED <<users, tokens, devices, trail, hits, now, minted, calls, mix, linkVars>>

WindowEnds(w) ==
    /\ hits[w] # 0
    /\ hits' = [hits EXCEPT ![w] = 0]
    /\ UNCHANGED <<users, tokens, devices, trail, now, req, minted, history, calls, mix, linkVars>>

KeyExpires ==
    /\ LinkExpiry
    /\ UNCHANGED <<users, tokens, devices, trail, hits, now, req, minted, history, calls, mix>>

\* A day passes; a window or a code may end before it.
Tick ==
    /\ now < MaxDay
    /\ now' = now + 1
    /\ UNCHANGED <<users, tokens, devices, trail, hits, req, minted, history, calls, mix, linkVars>>

AccountRequest(p) ==
    \/ \E i \in TokenIds, op \in Operations : Authenticate(p, i, op)
    \/ \E u \in Users : BotLogin(p, u) \/ BotLogout(p, u) \/ DiscordLogin(p, u)
                     \/ DevLogin(u)
    \/ \E ip \in Ips : LinkLogin(p, ip) \/ DemoLogin(p, ip)
    \/ DemoRead(p)

\* What a request that has begun does next.
AccountWork(p) ==
    \/ ScheduleDeletion(p) \/ CancelDeletion(p) \/ UpdateSettings(p)
    \/ \E d \in Devices : RegisterDevice(p, d) \/ UnregisterDevice(p, d)
    \/ BotIssue(p) \/ Discard(p) \/ DiscardSkipped(p) \/ LinkWork(p) \/ LinkDone(p)
    \/ \E c \in Codes : LinkRedeem(p, c)
    \/ LinkRefused(p) \/ LinkAccepted(p)
    \/ DiscordCommit(p) \/ IssueToken(p) \/ CapDemoTokens(p)

Environment ==
    \/ \E i \in TokenIds : AppLogout(i)
    \/ SweepDevices
    \/ \E w \in Windows : WindowEnds(w)
    \/ KeyExpires

-----------------------------------------------------------------------------
(* Properties. *)

LastEvent(u) == IF trail[u] = <<>> THEN "none" ELSE trail[u][Len(trail[u])].event

(* The account and the audit trail tell the same story under every            *)
(* interleaving of requests, reset and purge: an account is scheduled exactly *)
(* when the last event recorded for it is a request, with the purge date that *)
(* event carries; and a purge follows a request in the trail, with the date   *)
(* the last request set and not before that date (record_deletion_event       *)
(* beside every write of purge_at).                                           *)
TrailMatchesAccount ==
    \A u \in Users :
        /\ users[u].purgeAt # Never <=> LastEvent(u) = "requested"
        /\ LastEvent(u) = "requested" => users[u].purgeAt = trail[u][Len(trail[u])].purgeAt
        /\ \A k \in DOMAIN trail[u] : trail[u][k].event = "purged" =>
              /\ trail[u][k].purgeAt <= now
              /\ k > 1 /\ trail[u][k - 1] = [event |-> "requested",
                                             purgeAt |-> trail[u][k].purgeAt]

(* What schedule_deletion says of concurrent duplicates: the row lock keeps   *)
(* them from "each inserting a `requested` audit row", so a request is        *)
(* recorded once for each time the account is scheduled.                      *)
OneRequestedEvent ==
    \A u \in Users : \A k \in DOMAIN trail[u] \ {1} :
        ~(trail[u][k].event = "requested" /\ trail[u][k-1].event = "requested")

(* A code logs in once: the codes that are live for a user, each stored by a  *)
(* /login of that user, never outnumber those stored and not yet redeemed     *)
(* (the single-use code of redeem_code's GETDEL, under collisions and crashes *)
(* between the two keys).                                                     *)
CodesAreCredited ==
    \A u \in Users : Cardinality(CodesOf(u)) <= history.credit[u]

(* The lockout lets through at most the requests already past check_lockout   *)
(* when the limit is reached.                                                 *)
GuessesBounded ==
    \A ip \in Ips : hits[IpKey(ip)] <= IpFailLimit + Cardinality(Procs) - 1

(* The reviewer code holds at most DEMO_MAX_TOKENS tokens, plus one for every *)
(* login since the last trim that was made by name or died before its own.    *)
DemoTokensCapped ==
    (\A p \in Procs : ~At(p, "cap")) =>
        Cardinality(Owned(tokens, Demo)) <= DemoMaxTokens + history.untrimmed
=============================================================================
