------------------------------- MODULE Catalog -------------------------------
(* The game catalog: process names bound to games by the bot, games created,  *)
(* linked and merged by requests, enrichment by the worker, and the answers   *)
(* of users about unrecognised games (src/app/tasks/enrichment.py,            *)
(* src/app/services/game_aliases.py, game_review.py, game_matching.py,        *)
(* src/app/api/v1/endpoints/games.py, preferences.py, admin/games.py,         *)
(* admin/catalog.py, src/app/bot/session_manager.py).  An action is one       *)
(* transaction, at its commit; a request that writes what it computed from an *)
(* earlier read is split at that read.  Rows have slots, in the order of      *)
(* their ids, and a slot is not used twice.                                   *)
EXTENDS Integers, Sequences, FiniteSets

CONSTANTS Users,               \* without the demo account, whose answers a reset reseeds
          Names, Procs, Workers,
          IgdbIds, SteamIds, NoId,
          TitleOf,             \* what either database calls the game of an id
          Uploaded, NoCover,   \* an administrator's cover, and none
          MaxGames,            \* bound: rows ever created
          MaxRetries,          \* max_retries of enrich_game
          Seed,                \* the catalog at the start: rows and the names bound to them
          Mixes                \* bound: operations that are let meet, and how many of them

Ids == IgdbIds \cup SteamIds
Games == 1..MaxGames
None == 0

Statuses == {"PENDING", "ENRICHED", "NEEDS_REVIEW"}
Titles == Names \cup {TitleOf[i] : i \in Ids}
Row == [status : Statuses, ext : Ids \cup {NoId}, title : Titles,
        cover : Ids \cup {Uploaded, NoCover}, custom : BOOLEAN]

\* The columns of a row tell of one database entry and one cover.
Agrees(row) ==
    /\ row.status = "ENRICHED" <=> row.ext # NoId
    /\ row.ext # NoId => row.title = TitleOf[row.ext]
    /\ row.custom <=> row.cover = Uploaded

ASSUME CatalogAssumption ==
    /\ IgdbIds \cap SteamIds = {} /\ NoId \notin Ids
    /\ {"miss", "again", "drop"} \cap Ids = {}
    /\ {Uploaded, NoCover} \cap Ids = {} /\ Uploaded # NoCover
    /\ Ids \subseteq DOMAIN TitleOf
    /\ {MaxGames, MaxRetries} \subseteq Nat
    /\ \A m \in Mixes : m.calls \in Nat
    /\ Seed \in Seq([row : Row, names : SUBSET Names]) /\ Len(Seed) <= MaxGames
    /\ \A g \in DOMAIN Seed : Agrees(Seed[g].row)

VARIABLES
    games,       \* games: identity, enrichment status and cover
    alias,       \* game_aliases: the game a process name is bound to
    prefs,       \* user_game_preferences.is_accepted, or no row
    played,      \* the game of the sessions a user has from a process name
    queue,       \* enrich_game messages waiting in the broker
    job,         \* what each worker writes next
    req,         \* the bot event or request each process is in
    merge,       \* the merge being made (bound: one at a time)
    overlapped,  \* history: rows written from a read that was no longer true
    created,     \* the sequence behind games.id
    calls, mix

catalogVars == <<games, created, alias, prefs, played, queue, job, req, merge,
                 overlapped, calls, mix>>

Stub(title, status) ==
    [status |-> status, ext |-> NoId, title |-> title, cover |-> NoCover, custom |-> FALSE]
NoRow == Stub("absent", "absent")

Answers == {"absent", "null", "inbox", "accepted"}
Message == [game : Games, tries : 0..MaxRetries]
Findings == Ids \cup {"miss"}

Waiting == [pc |-> "idle", user |-> None, name |-> None, game |-> None, saw |-> NoRow]
NoMerge == [source |-> None, target |-> None, sawSource |-> NoRow, sawTarget |-> NoRow,
            names |-> {}, users |-> {}]
NoJob == [game |-> None, found |-> "miss"]

Exists(g) == g # None /\ games[g] # NoRow

TypeOK ==
    /\ games \in [Games -> Row \cup {NoRow}]
    /\ alias \in [Names -> {None} \cup Games]
    /\ prefs \in [Users -> [Games -> Answers]]
    /\ played \in [Users -> [Names -> {None} \cup Games]]
    /\ queue \in SUBSET Message
    /\ job \in [Workers -> [game : {None} \cup Games, found : Findings]]
    /\ req \in [Procs -> [pc : {"idle", "start", "prefer", "link"}, user : Users \cup {None},
                          name : Names \cup {None}, game : {None} \cup Games,
                          saw : Row \cup {NoRow}]]
    /\ merge \in [source : {None} \cup Games, target : {None} \cup Games,
                  sawSource : Row \cup {NoRow}, sawTarget : Row \cup {NoRow},
                  names : SUBSET Names, users : SUBSET Users]
    /\ overlapped \in SUBSET Games
    /\ created \in 0..MaxGames /\ mix \in Mixes /\ calls \in 0..mix.calls

Init ==
    /\ games = [g \in Games |-> IF g \in DOMAIN Seed THEN Seed[g].row ELSE NoRow]
    /\ alias = [n \in Names |-> IF \E g \in DOMAIN Seed : n \in Seed[g].names
                                THEN CHOOSE g \in DOMAIN Seed : n \in Seed[g].names ELSE None]
    /\ prefs = [u \in Users |-> [g \in Games |-> "absent"]]
    /\ played = [u \in Users |-> [n \in Names |-> None]]
    /\ queue = {}
    /\ job = [w \in Workers |-> NoJob]
    /\ req = [p \in Procs |-> Waiting]
    /\ merge = NoMerge
    /\ overlapped = {}
    /\ created = Len(Seed) /\ calls = 0
    /\ mix \in Mixes

\* Begins one of the operations of the mix.
Spend(kind) ==
    /\ calls < mix.calls /\ calls' = calls + 1
    /\ kind \in mix.ops /\ UNCHANGED mix

Insert(row) ==
    /\ created < MaxGames /\ created' = created + 1
    /\ games' = [games EXCEPT ![created'] = row]

Ends(p) == req' = [req EXCEPT ![p] = Waiting]
Taken(i, g) == \E h \in Games \ {g} : games[h].ext = i

-----------------------------------------------------------------------------
(* What is written to a row and to its answers.                               *)

\* The ORM sends the columns whose value differs from the one it loaded.
Sent(value, saw, new) == IF new # saw THEN new ELSE value
Update(row, saw, new) ==
    [status |-> Sent(row.status, saw.status, new.status),
     ext |-> Sent(row.ext, saw.ext, new.ext),
     title |-> Sent(row.title, saw.title, new.title),
     cover |-> Sent(row.cover, saw.cover, new.cover),
     custom |-> Sent(row.custom, saw.custom, new.custom)]

\* apply_igdb_metadata and _apply_steam: a custom cover stays.
AppliedOverCustom(row, i, replace, cover) ==
    [status |-> "ENRICHED",
     ext |-> IF replace THEN i ELSE row.ext,
     title |-> IF replace THEN TitleOf[i] ELSE row.title,
     cover |-> cover,
     custom |-> row.custom]
Applied(row, i, replace, cover) ==
    [status |-> "ENRICHED",
     ext |-> IF replace THEN i ELSE row.ext,
     title |-> IF replace THEN TitleOf[i] ELSE row.title,
     cover |-> IF row.custom THEN row.cover ELSE cover,
     custom |-> row.custom]

\* What merge_game copies to a target that has no id.
CopiedWithoutId(target, source) ==
    [source EXCEPT !.cover = IF target.custom THEN target.cover ELSE @,
                   !.custom = target.custom \/ @,
                   !.ext = target.ext]
CopiedTo(target, source) ==
    [source EXCEPT !.cover = IF target.custom THEN target.cover ELSE @,
                   !.custom = target.custom \/ @]

Owners(g) == {u \in Users : \E n \in Names : played[u][n] = g}

\* mark_needs_review_inbox and ensure_inbox_for_user: never over an answer.
InboxedOverAnswers(answers, g, us) ==
    [u \in Users |-> IF u \in us THEN [answers[u] EXCEPT ![g] = "inbox"] ELSE answers[u]]
Inboxed(answers, g, us) ==
    [u \in Users |-> IF u \in us /\ answers[u][g] = "absent"
                      THEN [answers[u] EXCEPT ![g] = "inbox"] ELSE answers[u]]

\* clear_review_on_enriched.
Cleared(answers, g) ==
    [u \in Users |-> IF answers[u][g] = "absent" THEN answers[u]
                      ELSE [answers[u] EXCEPT ![g] = "null"]]

\* sync_review_preferences of a row that becomes ENRICHED.
Reviewed(answers, g, previous) ==
    IF previous = "NEEDS_REVIEW" THEN Cleared(answers, g) ELSE answers

-----------------------------------------------------------------------------
(* The bot: a session starts on the game its process name is bound to.        *)

\* get_or_create_game looks the name up, and the status the session start
\* goes by is the one loaded here.
BotResolve(p, u, n) ==
    /\ req[p] = Waiting /\ Spend("bot")
    /\ req' = [req EXCEPT ![p] =
                 [pc |-> "start", user |-> u, name |-> n, game |-> alias[n],
                  saw |-> IF alias[n] = None THEN NoRow ELSE games[alias[n]]]]
    /\ UNCHANGED <<games, created, alias, prefs, played, queue, job, merge, overlapped>>

\* start_or_resume_session on g and its commit; a PENDING game is queued after
\* it, unless the broker refuses or the process dies first.
StartOn(u, n, g, status, resumed) ==
    /\ resumed => u \in Owners(g)
    /\ played' = IF resumed THEN played ELSE [played EXCEPT ![u][n] = g]
    /\ prefs' = IF status = "NEEDS_REVIEW" /\ ~resumed THEN Inboxed(prefs, g, {u}) ELSE prefs
    /\ \/ UNCHANGED queue
       \/ status = "PENDING" /\ queue' = queue \cup {[game |-> g, tries |-> 0]}

\* The game of the start: the one looked up, or the owner of the name when
\* add_alias finds that another transaction has bound it meanwhile.
BoundAsRead(p) == req[p].game
Bound(p) == IF req[p].game # None THEN req[p].game ELSE alias[req[p].name]

BotCommit(p) ==
    LET u == req[p].user
        n == req[p].name
        g == Bound(p) IN
    /\ req[p].pc = "start"
    /\ \/ /\ Exists(g)
          /\ \E resumed \in BOOLEAN :
               StartOn(u, n, g, IF req[p].game = None THEN games[g].status ELSE req[p].saw.status,
                       resumed)
          /\ UNCHANGED <<games, created, alias>>
       \/ /\ g = None
          /\ Insert(Stub(n, "PENDING"))
          /\ alias' = [alias EXCEPT ![n] = created']
          /\ StartOn(u, n, created', "PENDING", FALSE)
    /\ Ends(p)
    /\ UNCHANGED <<job, merge, overlapped, calls, mix>>

\* The start is skipped, the game it was to refer to is gone, or a request is
\* refused or dies: its transaction, a new stub included, is rolled back.
Rollback(p) ==
    /\ req[p] # Waiting
    /\ Ends(p)
    /\ UNCHANGED <<games, created, alias, prefs, played, queue, job, merge, overlapped, calls, mix>>

-----------------------------------------------------------------------------
(* Requests of users.                                                         *)

\* POST /games by IGDB id: inserted unless the id is there, however it came to
\* be; the query becomes an alias unless the name is taken.
CreateGame(i, n, cover) ==
    /\ Spend("create")
    /\ cover \in {i, NoCover}
    /\ IF Taken(i, None)
       THEN UNCHANGED <<games, created, alias>>
       ELSE /\ Insert(Applied(Stub(TitleOf[i], "PENDING"), i, TRUE, cover))
            /\ alias' = IF n # None /\ alias[n] = None
                        THEN [alias EXCEPT ![n] = created'] ELSE alias
    /\ UNCHANGED <<prefs, played, queue, job, req, merge, overlapped>>

\* POST /games by name: a stub for review, and no alias.
CreateStub(title) ==
    /\ Spend("create")
    /\ Insert(Stub(title, "NEEDS_REVIEW"))
    /\ UNCHANGED <<alias, prefs, played, queue, job, req, merge, overlapped>>

\* PUT /preferences reads the status it judges is_accepted by.
PreferRead(p, u, g) ==
    /\ req[p] = Waiting /\ Spend("prefer")
    /\ Exists(g)
    /\ req' = [req EXCEPT ![p] = [Waiting EXCEPT !.pc = "prefer", !.user = u,
                                                 !.game = g, !.saw = games[g]]]
    /\ UNCHANGED <<games, created, alias, prefs, played, queue, job, merge, overlapped>>

\* Sets an answer, withdraws it, or leaves it out and sets the other columns.
PreferCommit(p, answer) ==
    LET u == req[p].user
        g == req[p].game IN
    /\ req[p].pc = "prefer" /\ Exists(g)
    /\ answer \in {"inbox", "accepted"} => req[p].saw.status = "NEEDS_REVIEW"
    /\ prefs' = [prefs EXCEPT ![u][g] = IF answer # "absent" THEN answer
                                        ELSE IF @ = "absent" THEN "null" ELSE @]
    /\ Ends(p)
    /\ UNCHANGED <<games, created, alias, played, queue, job, merge, overlapped, calls, mix>>

Forget(u, g) ==
    /\ Spend("prefer")
    /\ prefs[u][g] # "absent"
    /\ prefs' = [prefs EXCEPT ![u][g] = "absent"]
    /\ UNCHANGED <<games, created, alias, played, queue, job, req, merge, overlapped>>

-----------------------------------------------------------------------------
(* Requests of administrators.                                                *)

AttachAlias(g, n) ==
    /\ Spend("alias")
    /\ Exists(g) /\ alias[n] = None
    /\ alias' = [alias EXCEPT ![n] = g]
    /\ UNCHANGED <<games, created, prefs, played, queue, job, req, merge, overlapped>>

UploadCover(g) ==
    /\ Spend("cover")
    /\ Exists(g)
    /\ games' = [games EXCEPT ![g].cover = Uploaded, ![g].custom = TRUE]
    /\ UNCHANGED <<created, alias, prefs, played, queue, job, req, merge, overlapped>>

Requeue(g) ==
    /\ Spend("requeue")
    /\ Exists(g)
    /\ queue' = queue \cup {[game |-> g, tries |-> 0]}
    /\ UNCHANGED <<games, created, alias, prefs, played, job, req, merge, overlapped>>

\* backfill_metadata: the ENRICHED rows without genres, or all of them, as far
\* as the run gets.
Backfill(some) ==
    /\ Spend("requeue")
    /\ some # {} /\ \A g \in some : games[g].status = "ENRICHED"
    /\ queue' = queue \cup {[game |-> g, tries |-> 0] : g \in some}
    /\ UNCHANGED <<games, created, alias, prefs, played, job, req, merge, overlapped>>

\* igdb-link loads the row, fetches the id's metadata, and writes.
LinkRead(p, g) ==
    /\ req[p] = Waiting /\ Spend("link")
    /\ Exists(g)
    /\ req' = [req EXCEPT ![p] = [Waiting EXCEPT !.pc = "link", !.game = g, !.saw = games[g]]]
    /\ UNCHANGED <<games, created, alias, prefs, played, queue, job, merge, overlapped>>

LinkCommit(p, i, cover) ==
    LET g == req[p].game
        saw == req[p].saw
        new == Update(games[g], saw, Applied(saw, i, TRUE, cover)) IN
    /\ req[p].pc = "link" /\ Exists(g)
    /\ cover \in {i, NoCover}
    /\ ~Taken(new.ext, g)
    /\ games' = [games EXCEPT ![g] = new]
    /\ prefs' = Reviewed(prefs, g, saw.status)
    /\ overlapped' = IF games[g] = saw THEN overlapped ELSE overlapped \cup {g}
    /\ Ends(p)
    /\ UNCHANGED <<created, alias, played, queue, job, merge, calls, mix>>

\* merge_game loads both rows; names and users are the rows that refer to the
\* source by then.
MergeRead(s, t) ==
    /\ merge = NoMerge /\ Spend("merge")
    /\ Exists(s) /\ Exists(t) /\ s # t
    /\ NoId \in {games[s].ext, games[t].ext}
    /\ merge' = [source |-> s, target |-> t, sawSource |-> games[s], sawTarget |-> games[t],
                 names |-> {n \in Names : alias[n] = s},
                 users |-> {u \in Users : prefs[u][s] # "absent"}]
    /\ UNCHANGED <<games, created, alias, prefs, played, queue, job, req, overlapped>>

Copies == merge.sawTarget.ext = NoId /\ merge.sawSource.ext # NoId

\* Everything that refers to the source goes to the target, and the source is
\* deleted.  An alias or answer added to the source after the statements that
\* move them is deleted with it (late); a session added there, or an alias or
\* answer the ORM finds when it deletes the source, makes the merge fail.
MergeCommit(lateNames, lateUsers) ==
    LET s == merge.source
        t == merge.target
        new == Update(games[t], merge.sawTarget, CopiedTo(merge.sawTarget, merge.sawSource))
        moved == [u \in Users |->
                    [prefs[u] EXCEPT ![s] = "absent",
                       ![t] = IF @ = "absent" /\ u \notin lateUsers THEN prefs[u][s] ELSE @]] IN
    /\ merge # NoMerge
    /\ lateNames \subseteq {n \in Names : alias[n] = s /\ \A u \in Users : played[u][n] # s}
                            \ merge.names
    /\ lateUsers \subseteq {u \in Users : prefs[u][s] # "absent"} \ merge.users
    /\ Copies => \A g \in Games \ {s, t} : games[g].ext # new.ext
    /\ games' = [games EXCEPT ![s] = NoRow, ![t] = IF Copies THEN new ELSE @]
    /\ alias' = [n \in Names |-> IF n \in lateNames THEN None
                                 ELSE IF alias[n] = s THEN t ELSE alias[n]]
    /\ played' = [u \in Users |-> [n \in Names |->
                    IF played[u][n] = s THEN t ELSE played[u][n]]]
    /\ prefs' = IF Copies THEN Reviewed(moved, t, merge.sawTarget.status) ELSE moved
    /\ overlapped' = IF /\ games[s] = merge.sawSource /\ games[t] = merge.sawTarget
                        /\ s \notin overlapped
                     THEN overlapped ELSE overlapped \cup {s, t}
    /\ merge' = NoMerge
    /\ UNCHANGED <<created, queue, job, req, calls, mix>>

MergeFails ==
    /\ merge # NoMerge
    /\ merge' = NoMerge
    /\ UNCHANGED <<games, created, alias, prefs, played, queue, job, req, overlapped, calls, mix>>

-----------------------------------------------------------------------------
(* The enrichment worker.  A message is acknowledged when it is taken, so a   *)
(* worker that dies drops it.                                                 *)

NoAnswer == {"unexpected", "retry", "unanswered"}
IgdbAnswers == IgdbIds \cup NoAnswer \cup {"miss", "tie"}
SteamAnswers == SteamIds \cup NoAnswer \cup {"miss"}

\* What comes of an attempt: a finding to write, "again" or "drop".  Steam is
\* asked unless IGDB found the game or found it twice.
OutcomeOneRetryMore(igdb, steam, tries) ==
    CASE igdb \in IgdbIds -> igdb
      [] igdb = "retry" /\ tries <= MaxRetries -> "again"
      [] OTHER -> IF steam \in SteamIds THEN steam ELSE "drop"
Outcome(igdb, steam, tries) ==
    CASE igdb \in IgdbIds -> igdb
      [] igdb = "tie" -> "miss"
      [] igdb = "unexpected" -> "drop"
      [] igdb = "retry" /\ tries < MaxRetries -> "again"
      [] OTHER ->
           CASE steam \in SteamIds -> steam
             [] steam = "retry" /\ tries < MaxRetries -> "again"
             [] steam = "miss" /\ igdb = "miss" -> "miss"
             [] OTHER -> "drop"

Outcomes(tries) == {Outcome(igdb, steam, tries) : igdb \in IgdbAnswers, steam \in SteamAnswers}

EnrichLookup(w, m, outcome) ==
    /\ job[w] = NoJob /\ m \in queue
    /\ IF ~Exists(m.game) \/ outcome = "drop"
       THEN queue' = queue \ {m} /\ UNCHANGED job
       ELSE IF outcome = "again"
       THEN /\ queue' = (queue \ {m}) \cup {[game |-> m.game, tries |-> m.tries + 1]}
            /\ UNCHANGED job
       ELSE /\ queue' = queue \ {m}
            /\ job' = [job EXCEPT ![w] = [game |-> m.game, found |-> outcome]]
    /\ UNCHANGED <<games, created, alias, prefs, played, req, merge, overlapped, calls, mix>>

\* _write_enrichment, on the row as it is when it is locked: an identity it has
\* is kept, one that another row has taken leaves it as it was, and a miss
\* never demotes it.
Replaces(g, i) == i # "miss" /\ games[g].ext = NoId
WritesNothingUntaken(g, i) == ~Exists(g) \/ (Replaces(g, i) /\ Taken(i, g))
WritesNothing(g, i) ==
    \/ ~Exists(g)
    \/ Replaces(g, i) /\ Taken(i, g)
    \/ i = "miss" /\ games[g].status = "ENRICHED"

EnrichWrite(w, cover) ==
    LET g == job[w].game
        i == job[w].found
        row == games[g] IN
    /\ job[w] # NoJob
    /\ cover \in CASE i \in IgdbIds -> {i, row.cover} [] i \in SteamIds -> {i}
                   [] OTHER -> {row.cover}
    /\ IF WritesNothing(g, i)
       THEN UNCHANGED <<games, prefs>>
       ELSE IF i = "miss"
       THEN /\ games' = [games EXCEPT ![g].status = "NEEDS_REVIEW"]
            /\ prefs' = Inboxed(prefs, g, Owners(g))
       ELSE /\ games' = [games EXCEPT ![g] = Applied(row, i, Replaces(g, i), cover)]
            /\ prefs' = Reviewed(prefs, g, row.status)
    /\ job' = [job EXCEPT ![w] = NoJob]
    /\ UNCHANGED <<created, alias, played, queue, req, merge, overlapped, calls, mix>>

EnrichLost(w) ==
    /\ job[w] # NoJob
    /\ job' = [job EXCEPT ![w] = NoJob]
    /\ UNCHANGED <<games, created, alias, prefs, played, queue, req, merge, overlapped, calls, mix>>

-----------------------------------------------------------------------------
Bot(p) == (\E u \in Users, n \in Names : BotResolve(p, u, n)) \/ BotCommit(p)

\* Requests that read, and write later.
Request(p) ==
    \/ \E u \in Users, g \in Games : PreferRead(p, u, g)
    \/ \E a \in Answers : PreferCommit(p, a)
    \/ \E g \in Games : LinkRead(p, g)
    \/ \E i \in IgdbIds, c \in IgdbIds \cup {NoCover} : LinkCommit(p, i, c)

UserRequest ==
    \/ \E u \in Users, g \in Games : Forget(u, g)
    \/ \E i \in IgdbIds, n \in Names \cup {None}, c \in IgdbIds \cup {NoCover} :
          CreateGame(i, n, c)
    \/ \E n \in Names : CreateStub(n)

AdminRequest ==
    \/ \E g \in Games : UploadCover(g) \/ Requeue(g)
    \/ \E g \in Games, n \in Names : AttachAlias(g, n)
    \/ \E some \in SUBSET Games : Backfill(some)

Merge ==
    \/ \E s, t \in Games : MergeRead(s, t)
    \/ \E ns \in SUBSET Names, us \in SUBSET Users : MergeCommit(ns, us)
    \/ MergeFails

Enrich(w) ==
    \/ \E m \in queue : \E outcome \in Outcomes(m.tries) : EnrichLookup(w, m, outcome)
    \/ \E c \in Ids \cup {NoCover, Uploaded} : EnrichWrite(w, c)
    \/ EnrichLost(w)

Next ==
    \/ \E p \in Procs : Bot(p) \/ Request(p) \/ Rollback(p)
    \/ UserRequest \/ AdminRequest \/ Merge
    \/ \E w \in Workers : Enrich(w)

Spec == Init /\ [][Next]_catalogVars

-----------------------------------------------------------------------------
(* Properties. *)

(* Status, id and name of a game tell of one database entry: it is ENRICHED   *)
(* exactly when it has an external id, under the name that database gives it, *)
(* and a cover marked custom is the uploaded one.  Enrichment minutes old,    *)
(* links, merges and uploads may meet in any order; only igdb-link and merge, *)
(* which write columns of a row they did not lock, can tear a row they        *)
(* overlapped with another write of it.                                       *)
IdentityAgrees ==
    \A g \in Games : Exists(g) /\ g \notin overlapped => Agrees(games[g])

(* An external id leaves the catalog only with an administrator's link of its *)
(* game to another id, or with a merge whose copy of the row is from before   *)
(* the id came to it: it survives every other merge of its game, enrichment   *)
(* of any age and every refused write.                                        *)
IdsKept ==
    [][\A g \in Games :
         games[g].ext # NoId /\ (\A h \in Games : games'[h].ext # games[g].ext) =>
           \/ \E p \in Procs : req[p].pc = "link" /\ req[p].game = g /\ req'[p] = Waiting
           \/ /\ merge # NoMerge /\ merge' = NoMerge
              /\ \/ g = merge.source /\ games[g].ext # merge.sawSource.ext
                 \/ g = merge.target /\ games[g].ext # merge.sawTarget.ext]_catalogVars

(* A game once recognised stays recognised as long as it is there, though     *)
(* enrichment of it may miss later and stale requests write its status.       *)
NeverDemoted ==
    [][\A g \in Games : games[g].status = "ENRICHED" =>
         games'[g].status \in {"ENRICHED", "absent"}]_catalogVars

(* The sessions the bot recorded under a process name are on the game the     *)
(* name is bound to, whatever two users starting it at once, a merge or an    *)
(* alias attached in between do: playtime is never split over two rows.       *)
SessionsFollowAlias ==
    \A u \in Users, n \in Names : played[u][n] # None => alias[n] = played[u][n]

\* The user's own request about the game: an answer, or the answer withdrawn.
Answered(u, g) ==
    \/ Forget(u, g)
    \/ \E p \in Procs : req[p].pc = "prefer" /\ req[p].user = u /\ req[p].game = g
                         /\ req'[p] = Waiting

\* The game is merged away and the answer goes with it to the target: unless
\* the user has a row there, which wins, or the target is recognised by that.
\* An answer given after the merge looked for them may be lost.
MergedAway(u, g) ==
    /\ merge # NoMerge /\ g = merge.source /\ games'[g] = NoRow
    /\ \/ prefs'[u][merge.target] = "accepted"
       \/ prefs[u][merge.target] # "absent" \/ u \notin merge.users
       \/ games'[merge.target].status = "ENRICHED"

(* "never overwrite an existing preference": a game a user has accepted does  *)
(* not return to the inbox, nor lose its row, because enrichment misses again *)
(* or another session starts.  The answer ends with the user's own request    *)
(* about the game, with the game recognised, or with the game merged away.    *)
ReviewAnswersKept ==
    [][\A u \in Users, g \in Games :
         prefs[u][g] = "accepted" =>
           \/ prefs'[u][g] = "accepted"
           \/ games'[g].status = "ENRICHED"
           \/ Answered(u, g) \/ MergedAway(u, g)]_catalogVars
=============================================================================
