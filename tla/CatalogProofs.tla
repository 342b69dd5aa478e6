--------------------------- MODULE CatalogProofs ----------------------------
(* The properties of Catalog for any number of games, names, users, requests  *)
(* and workers: the names, the status, the identity, the ids and the answers. *)
EXTENDS Catalog, SequenceTheorems, TLAPS

-----------------------------------------------------------------------------
(* The inductive invariant. *)

RowType == [status : Statuses \cup {"absent"}, ext : Ids \cup {NoId},
            title : Titles \cup {"absent"},
            cover : Ids \cup {Uploaded, NoCover}, custom : BOOLEAN]
RequestType == [pc : {"idle", "start", "prefer", "link"}, user : Users \cup {None},
                name : Names \cup {None}, game : {None} \cup Games, saw : RowType]
MergeType == [source : {None} \cup Games, target : {None} \cup Games,
              sawSource : RowType, sawTarget : RowType,
              names : SUBSET Names, users : SUBSET Users]

RowsTyped ==
    /\ created \in 0..MaxGames
    /\ games \in [Games -> RowType]
    /\ \A g \in Games : g > created => games[g] = NoRow
    /\ \A g \in Games : games[g] # NoRow => games[g].status # "absent"

JobsTyped ==
    /\ job \in [Workers -> [game : {None} \cup Games, found : Findings]]
    /\ queue \in SUBSET Message

\* A request knows of no row that is yet to be created.
RequestsTyped ==
    /\ req \in [Procs -> RequestType]
    /\ \A p \in Procs : req[p].game \in 0..created
    /\ \A p \in Procs : req[p].pc = "start" => req[p].user \in Users /\ req[p].name \in Names

NamesTyped ==
    /\ alias \in [Names -> {None} \cup Games]
    /\ \A n \in Names : alias[n] <= created
    /\ played \in [Users -> [Names -> {None} \cup Games]]

\* The rows of a merge stay until it commits: nothing else deletes a game.
MergeOK ==
    /\ merge \in MergeType
    /\ merge # NoMerge => /\ Exists(merge.source) /\ Exists(merge.target)
                          /\ merge.source # merge.target
                          /\ merge.source \in Games /\ merge.target \in Games
                          /\ NoId \in {merge.sawSource.ext, merge.sawTarget.ext}

\* A name is rebound only when its game is merged away, so a bot event that
\* still finds the game it looked up finds the name bound to it.
LookupHolds ==
    \A p \in Procs : req[p].pc = "start" /\ Exists(req[p].game) =>
                        alias[req[p].name] = req[p].game

\* An id comes with ENRICHED, in the rows and in what a request read of them,
\* and what a request read as ENRICHED is so for as long as the row is there.
Recognised(row) == row.ext # NoId => row.status = "ENRICHED"
Stays(g, saw) ==
    /\ Recognised(saw)
    /\ saw.status = "ENRICHED" /\ Exists(g) => games[g].status = "ENRICHED"
StatusOK ==
    /\ \A g \in Games : Recognised(games[g])
    /\ \A p \in Procs : req[p].pc = "link" => Stays(req[p].game, req[p].saw)
    /\ merge # NoMerge => /\ Stays(merge.source, merge.sawSource)
                          /\ Stays(merge.target, merge.sawTarget)

IInv == /\ RowsTyped /\ JobsTyped /\ RequestsTyped /\ NamesTyped /\ MergeOK
        /\ LookupHolds /\ SessionsFollowAlias /\ StatusOK

-----------------------------------------------------------------------------
(* Rows. *)

LEMMA RowTypes ==
  /\ NoRow \in RowType
  /\ \A title \in Titles, status \in Statuses : Stub(title, status) \in RowType
  BY DEF NoRow, Stub, RowType, Statuses

LEMMA AppliedType ==
  ASSUME NEW row \in RowType, NEW i \in Ids, NEW replace \in BOOLEAN,
         NEW cover \in Ids \cup {Uploaded, NoCover}
  PROVE  /\ Applied(row, i, replace, cover) \in RowType
         /\ Applied(row, i, replace, cover).status = "ENRICHED"
  <1>1. TitleOf[i] \in Titles
    BY DEF Titles
  <1> QED BY <1>1 DEF Applied, RowType, Statuses

LEMMA UpdateType ==
  ASSUME NEW row \in RowType, NEW saw \in RowType, NEW new \in RowType
  PROVE  Update(row, saw, new) \in RowType
  BY DEF Update, Sent, RowType

LEMMA CopiedType ==
  ASSUME NEW target \in RowType, NEW source \in RowType
  PROVE  /\ CopiedTo(target, source) \in RowType
         /\ CopiedTo(target, source).status = source.status
         /\ CopiedTo(target, source).ext = source.ext
  BY DEF CopiedTo, RowType

(* What every step but a merge does to the rows: none is lost, none comes     *)
(* back, and what is recognised stays so.                                     *)
RowsGrow ==
    /\ RowsTyped' /\ created' \in Nat /\ created <= created'
    /\ \A g \in Games : Exists(g) => Exists(g)'
    /\ \A g \in Games : Exists(g)' => Exists(g) \/ g > created
    /\ \A g \in Games : Recognised(games'[g])
    /\ \A g \in Games : games[g].status = "ENRICHED" => games'[g].status = "ENRICHED"

LEMMA SameRows ==
  ASSUME RowsTyped, StatusOK, UNCHANGED <<games, created>>
  PROVE  RowsGrow
  BY DEF RowsGrow, RowsTyped, StatusOK, Exists, Games

LEMMA OneRowWritten ==
  ASSUME RowsTyped, StatusOK, CatalogAssumption, NEW g \in Games, NEW row \in RowType,
         games' = [games EXCEPT ![g] = row], created' = created,
         Exists(g), row.status # "absent", Recognised(row),
         games[g].status = "ENRICHED" => row.status = "ENRICHED"
  PROVE  RowsGrow
  <1>1. /\ games' \in [Games -> RowType] /\ games'[g] = row
        /\ \A h \in Games : h # g => games'[h] = games[h]
    BY DEF RowsTyped
  <1>2. row # NoRow
    BY DEF NoRow, Stub
  <1>3. RowsTyped'
    BY <1>1, <1>2 DEF RowsTyped, Exists
  <1>4. \A h \in Games : Exists(h)' <=> Exists(h)
    BY <1>1, <1>2 DEF Exists
  <1>5. created \in Nat
    BY DEF RowsTyped
  <1> QED BY <1>1, <1>3, <1>4, <1>5 DEF RowsGrow, StatusOK

LEMMA OneRowInserted ==
  ASSUME RowsTyped, StatusOK, CatalogAssumption, NEW row \in RowType, Insert(row),
         row.status # "absent", Recognised(row)
  PROVE  /\ RowsGrow /\ created' \in Games /\ created' = created + 1
         /\ games'[created'] = row /\ row # NoRow
         /\ games[created'] = NoRow
  <1>0. created \in Nat /\ created' = created + 1 /\ created' \in Games
    BY DEF RowsTyped, Insert, CatalogAssumption, Games
  <1>1. /\ games' \in [Games -> RowType] /\ games'[created'] = row
        /\ \A h \in Games : h # created' => games'[h] = games[h]
    BY <1>0 DEF RowsTyped, Insert
  <1>2. row # NoRow
    BY DEF NoRow, Stub
  <1>3. RowsTyped'
    <2>1. created' \in 0..MaxGames
      BY <1>0 DEF Games
    <2>2. \A h \in Games : h > created' => h # created' /\ h > created
      BY <1>0 DEF Games
    <2>3. \A h \in Games : games'[h] # NoRow => games'[h].status # "absent"
      BY <1>1 DEF RowsTyped
    <2>4. \A h \in Games : h > created' => games'[h] = NoRow
      BY <1>1, <2>2 DEF RowsTyped
    <2> QED BY <1>1, <2>1, <2>3, <2>4 DEF RowsTyped
  <1>4. games[created'] = NoRow
    BY <1>0 DEF RowsTyped
  <1>5. \A h \in Games : Exists(h) => Exists(h)'
    BY <1>1, <1>2 DEF Exists
  <1>6. \A h \in Games : Exists(h)' => Exists(h) \/ h > created
    BY <1>0, <1>1 DEF Exists
  <1>7. NoRow.status = "absent"
    BY DEF NoRow, Stub
  <1>8. \A h \in Games : /\ Recognised(games'[h])
                         /\ games[h].status = "ENRICHED" => games'[h].status = "ENRICHED"
    BY <1>1, <1>4, <1>7 DEF StatusOK
  <1> QED BY <1>0, <1>1, <1>3, <1>4, <1>5, <1>2, <1>6, <1>8 DEF RowsGrow

(* The ORM writes what it changed over the row as it is: a link leaves the    *)
(* row ENRICHED whatever was written since it was read.                       *)
LEMMA LinkRows ==
  ASSUME IInv, CatalogAssumption, NEW p \in Procs, NEW i \in IgdbIds,
         NEW cover \in IgdbIds \cup {NoCover}, LinkCommit(p, i, cover)
  PROVE  RowsGrow
  <1> DEFINE g == req[p].game
             saw == req[p].saw
             new == Applied(saw, i, TRUE, cover)
             row == Update(games[g], saw, new)
  <1>0. req[p] \in RequestType /\ games \in [Games -> RowType] /\ RowsTyped /\ StatusOK
    BY DEF IInv, RequestsTyped, RowsTyped
  <1>1. /\ g \in Games /\ Exists(g) /\ saw \in RowType /\ req[p].pc = "link"
        /\ games' = [games EXCEPT ![g] = row] /\ created' = created
    BY <1>0 DEF LinkCommit, Exists, RequestType
  <1>2. new \in RowType /\ new.status = "ENRICHED"
    BY <1>1, AppliedType DEF Ids
  <1>3. row \in RowType
    BY <1>0, <1>1, <1>2, UpdateType
  <1>4. saw.status = "ENRICHED" => games[g].status = "ENRICHED"
    BY <1>0, <1>1 DEF StatusOK, Stays
  <1>5. row.status = "ENRICHED"
    BY <1>2, <1>4 DEF Update, Sent
  <1>6. Recognised(row) /\ row.status # "absent"
    BY <1>5 DEF Recognised
  <1> HIDE DEF g, row
  <1> QED BY <1>0, <1>1, <1>3, <1>5, <1>6, OneRowWritten

(* Enrichment writes the row as it is when it is locked.                      *)
LEMMA EnrichRows ==
  ASSUME IInv, CatalogAssumption, NEW w \in Workers, NEW cover, EnrichWrite(w, cover)
  PROVE  RowsGrow
  <1> DEFINE g == job[w].game
             i == job[w].found
             row == games[g]
  <1>0. RowsTyped /\ StatusOK /\ games \in [Games -> RowType] /\ created' = created
    BY DEF IInv, RowsTyped, EnrichWrite
  <1>1. CASE WritesNothing(g, i)
    BY <1>0, <1>1, SameRows DEF EnrichWrite
  <1>2. CASE ~WritesNothing(g, i)
    <2>1. g \in Games /\ Exists(g) /\ row \in RowType /\ i \in Ids \cup {"miss"}
      BY <1>0, <1>2 DEF WritesNothing, Exists, IInv, JobsTyped, Findings
    <2>2. CASE i = "miss"
      <3>1. row.status # "ENRICHED" /\ Recognised(row)
        BY <1>0, <1>2, <2>1, <2>2 DEF WritesNothing, StatusOK
      <3>2. PICK new \in RowType : new = [row EXCEPT !.status = "NEEDS_REVIEW"]
        BY <2>1 DEF RowType, Statuses
      <3>3. new.status = "NEEDS_REVIEW" /\ new.ext = row.ext
        BY <2>1, <3>2 DEF RowType
      <3>4. Recognised(new)
        BY <3>1, <3>3 DEF Recognised
      <3>5. games' = [games EXCEPT ![g] = new]
        BY <1>0, <1>2, <2>1, <2>2, <3>2 DEF EnrichWrite, RowType
      <3> HIDE DEF g
      <3> QED BY <1>0, <2>1, <3>1, <3>3, <3>4, <3>5, OneRowWritten
    <2>3. CASE i # "miss"
      <3>1. Replaces(g, i) \in BOOLEAN
        BY DEF Replaces
      <3>2. cover \in Ids \cup {Uploaded, NoCover}
        BY <2>1, <2>3 DEF EnrichWrite, RowType, Ids
      <3>3. PICK new \in RowType : /\ new = Applied(row, i, Replaces(g, i), cover)
                                  /\ new.status = "ENRICHED"
        BY <2>1, <2>3, <3>1, <3>2, AppliedType
      <3>4. games' = [games EXCEPT ![g] = new]
        BY <1>2, <2>3, <3>3 DEF EnrichWrite
      <3>5. Recognised(new)
        BY <3>3 DEF Recognised
      <3> HIDE DEF g
      <3> QED BY <1>0, <2>1, <3>3, <3>4, <3>5, OneRowWritten
    <2> QED BY <2>2, <2>3
  <1> QED BY <1>1, <1>2

(* A game created by hand, by name or by the bot.                             *)
LEMMA CreatedRows ==
  ASSUME IInv, CatalogAssumption,
         \/ \E i \in IgdbIds, n \in Names \cup {None}, c \in IgdbIds \cup {NoCover} :
               CreateGame(i, n, c)
         \/ \E n \in Names : CreateStub(n)
  PROVE  RowsGrow
  <1>0. RowsTyped /\ StatusOK
    BY DEF IInv
  <1>1. ASSUME NEW i \in IgdbIds, NEW n \in Names \cup {None},
               NEW c \in IgdbIds \cup {NoCover}, CreateGame(i, n, c)
        PROVE  RowsGrow
    <2>1. CASE Taken(i, None)
      BY <1>0, <1>1, <2>1, SameRows DEF CreateGame
    <2>2. CASE ~Taken(i, None)
      <3>1. TitleOf[i] \in Titles
        BY DEF Titles, Ids
      <3>2. PICK row \in RowType : /\ row = Applied(Stub(TitleOf[i], "PENDING"), i, TRUE, c)
                                  /\ row.status = "ENRICHED"
        <4>1. Stub(TitleOf[i], "PENDING") \in RowType
          BY <3>1, RowTypes DEF Statuses
        <4> QED BY <4>1, AppliedType DEF Ids
      <3>3. Insert(row)
        BY <1>1, <2>2, <3>2 DEF CreateGame
      <3> QED BY <1>0, <3>2, <3>3, OneRowInserted DEF Recognised
    <2> QED BY <2>1, <2>2
  <1>2. ASSUME NEW n \in Names, CreateStub(n)
        PROVE  RowsGrow
    <2>1. PICK row \in RowType : row = Stub(n, "NEEDS_REVIEW")
      BY RowTypes DEF Titles, Statuses
    <2>2. row.status # "absent" /\ Recognised(row)
      BY <2>1 DEF Stub, Recognised
    <2> QED BY <1>0, <1>2, <2>1, <2>2, OneRowInserted DEF CreateStub
  <1> QED BY <1>1, <1>2

LEMMA CoverRows ==
  ASSUME IInv, CatalogAssumption, NEW g \in Games, UploadCover(g)
  PROVE  RowsGrow
  <1>0. RowsTyped /\ StatusOK /\ games[g] \in RowType /\ Exists(g)
    BY DEF IInv, RowsTyped, UploadCover
  <1>1. PICK row \in RowType : row = [games[g] EXCEPT !.cover = Uploaded, !.custom = TRUE]
    BY <1>0 DEF RowType
  <1>2. row.status = games[g].status /\ row.ext = games[g].ext
    BY <1>0, <1>1 DEF RowType
  <1>3. games' = [games EXCEPT ![g] = row] /\ created' = created
    BY <1>0, <1>1 DEF UploadCover, RowsTyped, RowType
  <1>4. row.status # "absent" /\ Recognised(row)
    BY <1>0, <1>2 DEF RowsTyped, StatusOK, Recognised, Exists
  <1> QED BY <1>0, <1>2, <1>3, <1>4, OneRowWritten

(* The bot inserts a stub when nobody has bound the name.                     *)
LEMMA BotRows ==
  ASSUME IInv, CatalogAssumption, NEW p \in Procs, BotCommit(p)
  PROVE  RowsGrow
  <1>0. RowsTyped /\ StatusOK
    BY DEF IInv
  <1>1. CASE UNCHANGED <<games, created>>
    BY <1>0, <1>1, SameRows
  <1>2. CASE Insert(Stub(req[p].name, "PENDING"))
    <2>1. req[p].name \in Titles
      BY DEF IInv, RequestsTyped, BotCommit, Titles
    <2>2. PICK row \in RowType : row = Stub(req[p].name, "PENDING")
      BY <2>1, RowTypes DEF Statuses
    <2>3. row.status # "absent" /\ Recognised(row)
      BY <2>2 DEF Stub, Recognised
    <2> QED BY <1>0, <1>2, <2>2, <2>3, OneRowInserted
  <1> QED BY <1>1, <1>2 DEF BotCommit
\* The steps other than the commit of a merge.
Others ==
    \/ \E p \in Procs : Bot(p) \/ Request(p) \/ Rollback(p)
    \/ UserRequest \/ AdminRequest
    \/ \E s, t \in Games : MergeRead(s, t)
    \/ MergeFails
    \/ \E w \in Workers : Enrich(w)
    \/ UNCHANGED catalogVars

LEMMA OthersGrow ==
  ASSUME IInv, CatalogAssumption, Others
  PROVE  RowsGrow
  <1>0. UNCHANGED <<games, created>> => RowsGrow
    BY SameRows DEF IInv
  <1>1. ASSUME NEW p \in Procs, Bot(p) PROVE RowsGrow
    <2>1. ASSUME NEW u \in Users, NEW n \in Names, BotResolve(p, u, n) PROVE RowsGrow
      BY <1>0, <2>1 DEF BotResolve
    <2> QED BY <1>1, <2>1, BotRows DEF Bot
  <1>2. ASSUME NEW p \in Procs, Request(p) PROVE RowsGrow
    <2>1. ASSUME NEW i \in IgdbIds, NEW c \in IgdbIds \cup {NoCover}, LinkCommit(p, i, c)
          PROVE  RowsGrow
      BY <2>1, LinkRows
    <2>2. CASE \/ \E u \in Users, g \in Games : PreferRead(p, u, g)
               \/ \E a \in Answers : PreferCommit(p, a)
               \/ \E g \in Games : LinkRead(p, g)
      BY <1>0, <2>2 DEF PreferRead, PreferCommit, LinkRead
    <2> QED BY <1>2, <2>1, <2>2 DEF Request
  <1>3. CASE UserRequest
    <2>1. ASSUME NEW u \in Users, NEW g \in Games, Forget(u, g) PROVE RowsGrow
      BY <1>0, <2>1 DEF Forget
    <2> QED BY <1>3, <2>1, CreatedRows DEF UserRequest
  <1>4. CASE AdminRequest
    <2>1. CASE \/ \E g \in Games : Requeue(g)
               \/ \E g \in Games, n \in Names : AttachAlias(g, n)
               \/ \E some \in SUBSET Games : Backfill(some)
      BY <1>0, <2>1 DEF Requeue, AttachAlias, Backfill
    <2> QED BY <1>4, <2>1, CoverRows DEF AdminRequest
  <1>5. ASSUME NEW w \in Workers, Enrich(w) PROVE RowsGrow
    <2>1. ASSUME NEW m, NEW o, EnrichLookup(w, m, o) PROVE RowsGrow
      BY <1>0, <2>1 DEF EnrichLookup
    <2>2. CASE EnrichLost(w)
      BY <1>0, <2>2 DEF EnrichLost
    <2> QED BY <1>5, <2>1, <2>2, EnrichRows DEF Enrich
  <1>6. CASE \/ \E p \in Procs : Rollback(p)
             \/ \E s, t \in Games : MergeRead(s, t)
             \/ MergeFails \/ UNCHANGED catalogVars
    BY <1>0, <1>6 DEF Rollback, MergeRead, MergeFails, catalogVars
  <1> QED BY <1>1, <1>2, <1>3, <1>4, <1>5, <1>6 DEF Others

-----------------------------------------------------------------------------
(* Names and sessions. *)

\* What every step but a merge does to the names: only an unbound one is bound.
NamesGrow ==
    /\ NamesTyped' /\ SessionsFollowAlias'
    /\ \A n \in Names : alias[n] # None => alias'[n] = alias[n]

LEMMA SameNames ==
  ASSUME IInv, RowsGrow, UNCHANGED <<alias, played>>
  PROVE  NamesGrow
  BY DEF IInv, RowsGrow, RowsTyped, NamesTyped, NamesGrow, SessionsFollowAlias, Games, None

\* A name is bound, and with it perhaps the first session of one user.
LEMMA OneNameBound ==
  ASSUME IInv, RowsGrow, NEW n \in Names, NEW g \in Games, g <= created', alias[n] = None,
         alias' = [alias EXCEPT ![n] = g],
         \/ played' = played
         \/ \E u \in Users : played' = [played EXCEPT ![u][n] = g]
  PROVE  NamesGrow
  <1>0. /\ alias \in [Names -> {None} \cup Games]
        /\ played \in [Users -> [Names -> {None} \cup Games]]
        /\ \A m \in Names : alias[m] <= created
        /\ created \in Nat /\ created' \in Nat /\ created <= created'
    BY DEF IInv, NamesTyped, RowsTyped, RowsGrow
  <1>1. /\ alias' \in [Names -> {None} \cup Games] /\ alias'[n] = g
        /\ \A m \in Names : m # n => alias'[m] = alias[m]
    BY <1>0
  <1>2. \A m \in Names : alias[m] \in Nat
    BY <1>0 DEF None, Games
  <1>3. \A m \in Names : alias'[m] <= created'
    BY <1>0, <1>1, <1>2
  <1>4. /\ played' \in [Users -> [Names -> {None} \cup Games]]
        /\ \A u \in Users, m \in Names : \/ played'[u][m] = played[u][m]
                                         \/ m = n /\ played'[u][m] = g
    <2>1. CASE played' = played
      BY <1>0, <2>1
    <2>2. ASSUME NEW u \in Users, played' = [played EXCEPT ![u][n] = g]
          PROVE  /\ played' \in [Users -> [Names -> {None} \cup Games]]
                 /\ \A v \in Users, m \in Names : \/ played'[v][m] = played[v][m]
                                                  \/ m = n /\ played'[v][m] = g
      BY <1>0, <2>2
    <2> QED BY <2>1, <2>2
  <1>5. SessionsFollowAlias'
    BY <1>1, <1>4 DEF IInv, SessionsFollowAlias
  <1> QED BY <1>1, <1>3, <1>4, <1>5 DEF NamesGrow, NamesTyped

(* The session goes to the game its name is bound to: what the event looked   *)
(* up when it is still there, or what add_alias finds.                        *)
LEMMA BotNames ==
  ASSUME IInv, CatalogAssumption, NEW p \in Procs, BotCommit(p)
  PROVE  NamesGrow
  <1> DEFINE u == req[p].user
             n == req[p].name
             g == Bound(p)
  <1>0. /\ u \in Users /\ n \in Names /\ req[p].game \in {None} \cup Games
        /\ alias \in [Names -> {None} \cup Games]
        /\ played \in [Users -> [Names -> {None} \cup Games]]
        /\ RowsGrow
    BY BotRows DEF BotCommit, IInv, RequestsTyped, RequestType, NamesTyped
  <1>1. CASE Exists(g) /\ UNCHANGED <<games, created, alias>>
                      /\ \E resumed \in BOOLEAN : \E status : StartOn(u, n, g, status, resumed)
    <2>1. g \in Games /\ alias[n] = g
      BY <1>0, <1>1 DEF Bound, Exists, IInv, LookupHolds, BotCommit
    <2>2. played' = played \/ played' = [played EXCEPT ![u][n] = g]
      BY <1>1 DEF StartOn
    <2>3. CASE played' = played
      BY <1>0, <1>1, <2>3, SameNames
    <2>4. CASE played' = [played EXCEPT ![u][n] = g]
      <3>1. /\ played' \in [Users -> [Names -> {None} \cup Games]]
            /\ \A v \in Users, m \in Names : \/ played'[v][m] = played[v][m]
                                             \/ m = n /\ played'[v][m] = g
        BY <1>0, <2>1, <2>4
      <3>2. SessionsFollowAlias'
        BY <1>1, <2>1, <3>1 DEF IInv, SessionsFollowAlias
      <3>3. NamesTyped'
        BY <1>1, <3>1 DEF IInv, NamesTyped
      <3> QED BY <1>1, <3>2, <3>3 DEF NamesGrow
    <2> QED BY <2>2, <2>3, <2>4
  <1>2. CASE /\ g = None /\ created' \in Games
             /\ alias' = [alias EXCEPT ![n] = created']
             /\ StartOn(u, n, created', "PENDING", FALSE)
    <2>1. alias[n] = None
      BY <1>2 DEF Bound
    <2>2. played' = [played EXCEPT ![u][n] = created']
      BY <1>2 DEF StartOn
    <2>3. created' <= created'
      BY <1>2 DEF Games
    <2> HIDE DEF u, n, g
    <2> QED BY <1>0, <1>2, <2>1, <2>2, <2>3, OneNameBound
  <1>3. Insert(Stub(n, "PENDING")) => created' \in Games
    BY DEF Insert, IInv, RowsTyped, Games, CatalogAssumption
  <1> QED BY <1>1, <1>2, <1>3 DEF BotCommit
LEMMA OthersBind ==
  ASSUME IInv, CatalogAssumption, Others
  PROVE  NamesGrow
  <1>0. RowsGrow /\ (UNCHANGED <<alias, played>> => NamesGrow)
    BY OthersGrow, SameNames
  <1>1. ASSUME NEW p \in Procs, Bot(p) PROVE NamesGrow
    <2>1. ASSUME NEW u \in Users, NEW n \in Names, BotResolve(p, u, n) PROVE NamesGrow
      BY <1>0, <2>1 DEF BotResolve
    <2> QED BY <1>1, <2>1, BotNames DEF Bot
  <1>2. ASSUME NEW p \in Procs, Request(p) \/ Rollback(p) PROVE NamesGrow
    BY <1>0, <1>2 DEF Request, PreferRead, PreferCommit, LinkRead, LinkCommit, Rollback
  <1>3. CASE UserRequest
    <2>1. ASSUME NEW i \in IgdbIds, NEW n \in Names \cup {None}, NEW c, CreateGame(i, n, c)
          PROVE  NamesGrow
      <3>1. CASE UNCHANGED alias
        BY <1>0, <2>1, <3>1 DEF CreateGame
      <3>2. CASE /\ n # None /\ alias[n] = None /\ alias' = [alias EXCEPT ![n] = created']
                 /\ created < MaxGames /\ created' = created + 1
        <4>1. created' \in Games /\ created' <= created'
          BY <3>2 DEF IInv, RowsTyped, CatalogAssumption, Games
        <4>2. n \in Names /\ played' = played
          BY <2>1, <3>2 DEF CreateGame
        <4> QED BY <1>0, <3>2, <4>1, <4>2, OneNameBound
      <3> QED BY <2>1, <3>1, <3>2 DEF CreateGame, Insert
    <2>2. CASE (\E u \in Users, g \in Games : Forget(u, g)) \/ \E n \in Names : CreateStub(n)
      BY <1>0, <2>2 DEF Forget, CreateStub
    <2> QED BY <1>3, <2>1, <2>2 DEF UserRequest
  <1>4. CASE AdminRequest
    <2>1. ASSUME NEW g \in Games, NEW n \in Names, AttachAlias(g, n) PROVE NamesGrow
      <3>1. g <= created'
        BY <2>1 DEF AttachAlias, Exists, IInv, RowsTyped, Games
      <3> QED BY <1>0, <2>1, <3>1, OneNameBound DEF AttachAlias
    <2>2. CASE \/ \E g \in Games : UploadCover(g) \/ Requeue(g)
               \/ \E some \in SUBSET Games : Backfill(some)
      BY <1>0, <2>2 DEF UploadCover, Requeue, Backfill
    <2> QED BY <1>4, <2>1, <2>2 DEF AdminRequest
  <1>5. CASE \/ \E s, t \in Games : MergeRead(s, t)
             \/ MergeFails \/ \E w \in Workers : Enrich(w)
             \/ UNCHANGED catalogVars
    BY <1>0, <1>5 DEF MergeRead, MergeFails, Enrich, EnrichLookup, EnrichWrite, EnrichLost,
                catalogVars
  <1> QED BY <1>1, <1>2, <1>3, <1>4, <1>5 DEF Others

-----------------------------------------------------------------------------
(* What requests and merges remember. *)

\* A process begins with what is there to be read, or is as it was.
Reads(p) ==
    \E r \in RequestType :
        /\ req' = [req EXCEPT ![p] = r]
        /\ r.game \in 0..created
        /\ r.pc = "start" => /\ r.user \in Users /\ r.name \in Names
                            /\ r.game = alias[r.name]
        /\ r.pc = "link" => r.game \in Games /\ Exists(r.game) /\ r.saw = games[r.game]
        /\ r.saw = NoRow \/ \E g \in Games : r.saw = games[g]

LEMMA OthersRead ==
  ASSUME IInv, CatalogAssumption, Others
  PROVE  UNCHANGED req \/ \E p \in Procs : Reads(p)
  <1>0. /\ req \in [Procs -> RequestType] /\ created \in Nat /\ games \in [Games -> RowType]
        /\ alias \in [Names -> {None} \cup Games] /\ \A n \in Names : alias[n] <= created
        /\ \A n \in Names : alias[n] \in 0..created
    BY DEF IInv, RequestsTyped, RowsTyped, NamesTyped, Games, None
  <1>1. \A g \in Games : Exists(g) => g \in 0..created
    BY <1>0 DEF IInv, RowsTyped, Exists, Games
  <1>2. ASSUME NEW p \in Procs, Ends(p) PROVE Reads(p)
    <2>1. /\ Waiting \in RequestType /\ Waiting.game \in 0..created /\ Waiting.pc = "idle"
          /\ Waiting.saw = NoRow
      BY <1>0, RowTypes DEF Waiting, RequestType, None
    <2> QED BY <1>2, <2>1 DEF Ends, Reads
  <1>3. ASSUME NEW p \in Procs, NEW u \in Users, NEW n \in Names, BotResolve(p, u, n)
        PROVE  Reads(p)
    <2>1. alias[n] \in {None} \cup Games /\ (IF alias[n] = None THEN NoRow ELSE games[alias[n]]) \in RowType
      BY <1>0, RowTypes
    <2>2. PICK r \in RequestType :
              r = [pc |-> "start", user |-> u, name |-> n, game |-> alias[n],
                   saw |-> IF alias[n] = None THEN NoRow ELSE games[alias[n]]]
      BY <2>1 DEF RequestType
    <2>3. req' = [req EXCEPT ![p] = r]
      BY <1>3, <2>2 DEF BotResolve
    <2> QED BY <1>0, <2>2, <2>3 DEF Reads
  <1>4. ASSUME NEW p \in Procs, NEW g \in Games, Exists(g),
               NEW pc \in {"prefer", "link"}, NEW u \in Users \cup {None},
               req' = [req EXCEPT ![p] = [Waiting EXCEPT !.pc = pc, !.user = u,
                                                         !.game = g, !.saw = games[g]]]
        PROVE  Reads(p)
    <2>1. PICK r \in RequestType : r = [Waiting EXCEPT !.pc = pc, !.user = u,
                                                     !.game = g, !.saw = games[g]]
      BY <1>0 DEF Waiting, RequestType
    <2>2. r.pc = pc /\ r.game = g /\ r.saw = games[g]
      BY <2>1 DEF Waiting
    <2> QED BY <1>1, <1>4, <2>1, <2>2 DEF Reads
  <1>5. ASSUME NEW p \in Procs, NEW u \in Users, NEW g \in Games, PreferRead(p, u, g)
        PROVE  Reads(p)
    BY <1>4, <1>5 DEF PreferRead
  <1>6. ASSUME NEW p \in Procs, NEW g \in Games, LinkRead(p, g) PROVE Reads(p)
    <2>1. PICK r \in RequestType : r = [Waiting EXCEPT !.pc = "link", !.game = g, !.saw = games[g]]
      BY <1>0 DEF Waiting, RequestType
    <2>2. r.pc = "link" /\ r.game = g /\ r.saw = games[g]
      BY <2>1 DEF Waiting
    <2> QED BY <1>1, <1>6, <2>1, <2>2 DEF Reads, LinkRead
  <1>7. ASSUME NEW p \in Procs,
               \/ BotCommit(p) \/ Rollback(p)
               \/ \E a \in Answers : PreferCommit(p, a)
               \/ \E i \in IgdbIds, c \in IgdbIds \cup {NoCover} : LinkCommit(p, i, c)
        PROVE  Reads(p)
    BY <1>2, <1>7 DEF BotCommit, Rollback, PreferCommit, LinkCommit
  <1>8. CASE \/ UserRequest \/ AdminRequest \/ MergeFails
             \/ \E s, t \in Games : MergeRead(s, t)
             \/ \E w \in Workers : Enrich(w)
             \/ UNCHANGED catalogVars
    BY <1>8 DEF UserRequest, Forget, CreateGame, CreateStub, AdminRequest, UploadCover, Requeue,
           AttachAlias, Backfill, MergeFails, MergeRead, Enrich, EnrichLookup, EnrichWrite,
           EnrichLost, catalogVars
  <1> QED BY <1>3, <1>5, <1>6, <1>7, <1>8 DEF Others, Bot, Request

LEMMA OthersRemember ==
  ASSUME IInv, CatalogAssumption, Others
  PROVE  /\ RequestsTyped' /\ LookupHolds'
         /\ \A p \in Procs : req'[p].pc = "link" => Stays(req[p].game, req[p].saw)'
  <1>0. RowsGrow /\ NamesGrow
    BY OthersGrow, OthersBind
  <1>1. /\ req \in [Procs -> RequestType] /\ created \in Nat /\ created' \in Nat
        /\ created <= created' /\ games \in [Games -> RowType]
        /\ \A p \in Procs : req[p].game \in 0..created
    BY <1>0 DEF IInv, RequestsTyped, RowsTyped, RowsGrow
  <1>2. \A p \in Procs : req[p].game \in Games \/ req[p].game = None
    BY <1>1 DEF RequestType
  <1> DEFINE Kept(r) == /\ r \in RequestType /\ r.game \in 0..created
                        /\ r.pc = "start" => r.user \in Users /\ r.name \in Names
                        /\ r.pc = "start" /\ Exists(r.game) => alias[r.name] = r.game
                        /\ r.pc = "link" => Stays(r.game, r.saw)
  <1>3. \A p \in Procs : Kept(req[p])
    BY <1>1 DEF IInv, RequestsTyped, LookupHolds, StatusOK
  <1>4. req' \in [Procs -> RequestType] /\ \A p \in Procs : Kept(req'[p])
    <2>1. CASE UNCHANGED req
      BY <1>1, <1>3, <2>1
    <2>2. ASSUME NEW p \in Procs, Reads(p)
          PROVE  req' \in [Procs -> RequestType] /\ \A q \in Procs : Kept(req'[q])
      <3>1. PICK r \in RequestType :
                /\ req' = [req EXCEPT ![p] = r]
                /\ r.game \in 0..created
                /\ r.pc = "start" => /\ r.user \in Users /\ r.name \in Names
                                    /\ r.game = alias[r.name]
                /\ r.pc = "link" => r.game \in Games /\ r.saw = games[r.game]
        BY <2>2 DEF Reads
      <3>2. Kept(r)
        BY <3>1 DEF Stays, IInv, StatusOK
      <3> HIDE DEF Kept
      <3> QED BY <1>1, <1>3, <3>1, <3>2
    <2> HIDE DEF Kept
    <2> QED BY <2>1, <2>2, OthersRead
  <1>5. RequestsTyped'
    BY <1>1, <1>4 DEF RequestsTyped
  <1>6. \A g \in 0..created : Exists(g)' => Exists(g) /\ g \in Games
    BY <1>0, <1>1 DEF RowsGrow, IInv, RowsTyped, Exists, Games, None
  <1>7. LookupHolds'
    <2> SUFFICES ASSUME NEW p \in Procs, req'[p].pc = "start", Exists(req[p].game)'
                 PROVE  alias'[req'[p].name] = req'[p].game
      BY DEF LookupHolds
    <2>1. Exists(req'[p].game) /\ alias[req'[p].name] = req'[p].game /\ req'[p].name \in Names
      BY <1>4, <1>6 DEF Exists
    <2> QED BY <1>0, <2>1 DEF NamesGrow, Exists
  <1>8. \A p \in Procs : req'[p].pc = "link" => Stays(req[p].game, req[p].saw)'
    BY <1>0, <1>4, <1>6 DEF Stays, RowsGrow, Exists
  <1> QED BY <1>5, <1>7, <1>8

(* The rows a merge is made of stay where they are while it waits.            *)
LEMMA OthersMerge ==
  ASSUME IInv, CatalogAssumption, Others
  PROVE  /\ MergeOK'
         /\ merge' # NoMerge => /\ Stays(merge.source, merge.sawSource)'
                                /\ Stays(merge.target, merge.sawTarget)'
  <1>0. RowsGrow /\ games \in [Games -> RowType] /\ MergeOK /\ StatusOK
    BY OthersGrow DEF IInv, RowsTyped
  <1>1. \A g \in Games : /\ Exists(g) => g # None /\ games'[g] # NoRow
                         /\ games[g].status = "ENRICHED" => games'[g].status = "ENRICHED"
    BY <1>0 DEF RowsGrow, Exists
  <1>2. CASE merge' = merge
    BY <1>0, <1>1, <1>2 DEF MergeOK, StatusOK, Stays, Exists
  <1>3. CASE merge' = NoMerge
    <2>1. NoMerge \in MergeType
      BY RowTypes DEF NoMerge, MergeType
    <2> QED BY <1>3, <2>1 DEF MergeOK
  <1>4. ASSUME NEW s \in Games, NEW t \in Games, MergeRead(s, t)
        PROVE  /\ MergeOK'
               /\ merge' # NoMerge => /\ Stays(merge.source, merge.sawSource)'
                                      /\ Stays(merge.target, merge.sawTarget)'
    <2>1. /\ merge' = [source |-> s, target |-> t, sawSource |-> games[s],
                       sawTarget |-> games[t],
                       names |-> {n \in Names : alias[n] = s},
                       users |-> {u \in Users : prefs[u][s] # "absent"}]
          /\ Exists(s) /\ Exists(t) /\ s # t /\ games' = games
          /\ NoId \in {games[s].ext, games[t].ext}
      BY <1>4 DEF MergeRead
    <2>2. /\ merge'.source = s /\ merge'.target = t
          /\ merge'.sawSource = games[s] /\ merge'.sawTarget = games[t]
      BY <2>1
    <2>3. merge' \in MergeType
      BY <1>0, <2>1 DEF MergeType
    <2> QED BY <1>0, <2>1, <2>2, <2>3 DEF MergeOK, Stays, StatusOK, Exists
  <1>5. merge' = merge \/ merge' = NoMerge \/ \E s, t \in Games : MergeRead(s, t)
    BY DEF Others, Bot, BotResolve, BotCommit, Request, PreferRead, PreferCommit, LinkRead,
           LinkCommit, Rollback, UserRequest, Forget, CreateGame, CreateStub, AdminRequest,
           UploadCover, Requeue, AttachAlias, Backfill, MergeFails, Enrich, EnrichLookup,
           EnrichWrite, EnrichLost, catalogVars
  <1> QED BY <1>2, <1>3, <1>4, <1>5

LEMMA OutcomeType ==
  ASSUME CatalogAssumption, NEW tries, NEW o \in Outcomes(tries)
  PROVE  /\ o \in Findings \cup {"again", "drop"}
         /\ o = "again" => tries < MaxRetries
  <1>1. PICK igdb \in IgdbAnswers, steam \in SteamAnswers : o = Outcome(igdb, steam, tries)
    BY DEF Outcomes
  <1>2. "again" \notin IgdbIds /\ "again" \notin SteamIds
    BY DEF CatalogAssumption, Ids
  <1> QED BY <1>1, <1>2 DEF Outcome, Findings, Ids

LEMMA OthersQueue ==
  ASSUME IInv, CatalogAssumption, Others
  PROVE  JobsTyped'
  <1>0. /\ job \in [Workers -> [game : {None} \cup Games, found : Findings]]
        /\ queue \in SUBSET Message
        /\ MaxRetries \in Nat /\ \A g \in Games : [game |-> g, tries |-> 0] \in Message
    BY DEF IInv, JobsTyped, CatalogAssumption, Message
  <1>1. ASSUME UNCHANGED job, NEW gs \in SUBSET Games,
               queue' = queue \cup {[game |-> g, tries |-> 0] : g \in gs}
        PROVE  JobsTyped'
    BY <1>0, <1>1 DEF JobsTyped
  <1>2. CASE UNCHANGED <<job, queue>>
    BY <1>0, <1>2 DEF JobsTyped
  <1>3. ASSUME UNCHANGED job, NEW g \in Games, queue' = queue \cup {[game |-> g, tries |-> 0]}
        PROVE  JobsTyped'
    BY <1>0, <1>3 DEF JobsTyped
  <1>4. ASSUME NEW p \in Procs, BotCommit(p) PROVE JobsTyped'
    <2>1. created < MaxGames /\ created' = created + 1 => created' \in Games
      BY DEF IInv, RowsTyped, CatalogAssumption, Games
    <2>2. Exists(Bound(p)) => Bound(p) \in Games
      BY <1>4 DEF Bound, Exists, BotCommit, IInv, RequestsTyped, RequestType, NamesTyped
    <2>3. \E g \in Games : \/ UNCHANGED queue
                           \/ queue' = queue \cup {[game |-> g, tries |-> 0]}
      BY <1>4, <2>1, <2>2 DEF BotCommit, StartOn, Insert
    <2>4. UNCHANGED job
      BY <1>4 DEF BotCommit
    <2> QED BY <1>2, <1>3, <2>3, <2>4
  <1>5. CASE AdminRequest
    <2>1. ASSUME NEW g \in Games, Requeue(g) PROVE JobsTyped'
      BY <1>3, <2>1 DEF Requeue
    <2>2. ASSUME NEW some \in SUBSET Games, Backfill(some) PROVE JobsTyped'
      BY <1>1, <2>2 DEF Backfill
    <2>3. CASE \/ \E g \in Games : UploadCover(g)
               \/ \E g \in Games, n \in Names : AttachAlias(g, n)
      BY <1>2, <2>3 DEF UploadCover, AttachAlias
    <2> QED BY <1>5, <2>1, <2>2, <2>3 DEF AdminRequest
  <1>6. ASSUME NEW w \in Workers, Enrich(w) PROVE JobsTyped'
    <2>1. ASSUME NEW m \in queue, NEW o \in Outcomes(m.tries), EnrichLookup(w, m, o)
          PROVE  JobsTyped'
      <3>1. m.game \in Games /\ m.tries \in 0..MaxRetries /\ m \in Message
        BY <1>0 DEF Message
      <3>2. PICK again : again = [game |-> m.game, tries |-> m.tries + 1]
        OBVIOUS
      <3>4. o \in Findings \cup {"again", "drop"} /\ (o = "again" => m.tries < MaxRetries)
        BY OutcomeType
      <3>6. o = "again" => again \in Message
        BY <1>0, <3>1, <3>2, <3>4 DEF Message
      <3>3. /\ \/ queue' = queue \ {m}
               \/ queue' = (queue \ {m}) \cup {again} /\ o = "again"
            /\ \/ UNCHANGED job
               \/ /\ job' = [job EXCEPT ![w] = [game |-> m.game, found |-> o]]
                  /\ o # "again" /\ o # "drop"
        BY <2>1, <3>2 DEF EnrichLookup
      <3> QED BY <1>0, <3>1, <3>3, <3>4, <3>6 DEF JobsTyped
    <2>2. ASSUME NEW c, EnrichWrite(w, c) \/ EnrichLost(w) PROVE JobsTyped'
      <3>1. NoJob \in [game : {None} \cup Games, found : Findings]
        BY DEF NoJob, Findings
      <3>2. job' = [job EXCEPT ![w] = NoJob] /\ queue' = queue
        BY <2>2 DEF EnrichWrite, EnrichLost
      <3> QED BY <1>0, <3>1, <3>2 DEF JobsTyped
    <2> QED BY <1>6, <2>1, <2>2 DEF Enrich
  <1>7. CASE \/ \E p \in Procs : (\E u \in Users, n \in Names : BotResolve(p, u, n))
                                 \/ Request(p) \/ Rollback(p)
             \/ UserRequest \/ MergeFails \/ UNCHANGED catalogVars
             \/ \E s, t \in Games : MergeRead(s, t)
    BY <1>2, <1>7 DEF BotResolve, Request, PreferRead, PreferCommit, LinkRead, LinkCommit,
           Rollback, UserRequest, Forget, CreateGame, CreateStub, MergeRead, MergeFails,
           catalogVars
  <1> QED BY <1>4, <1>5, <1>6, <1>7 DEF Others, Bot

-----------------------------------------------------------------------------
(* The commit of a merge. *)

(* The source goes and everything that referred to it refers to the target;   *)
(* an id copied to the target brings ENRICHED with it.                        *)
LEMMA MergeMoves ==
  ASSUME IInv, CatalogAssumption, NEW ns, NEW us, MergeCommit(ns, us)
  PROVE  /\ IInv'
         /\ \A g \in Games : games[g].status = "ENRICHED" =>
                               games'[g].status \in {"ENRICHED", "absent"}
  <1> DEFINE s == merge.source
             t == merge.target
             copied == CopiedTo(merge.sawTarget, merge.sawSource)
             new == Update(games[t], merge.sawTarget, copied)
             row == IF Copies THEN new ELSE games[t]
  <1>0. /\ s \in Games /\ t \in Games /\ s # t /\ Exists(s) /\ Exists(t)
        /\ merge.sawSource \in RowType /\ merge.sawTarget \in RowType
        /\ Stays(s, merge.sawSource) /\ Stays(t, merge.sawTarget)
        /\ RowsTyped /\ games \in [Games -> RowType] /\ created' = created
        /\ \A g \in Games : Recognised(games[g])
    BY DEF IInv, MergeOK, StatusOK, MergeCommit, RowsTyped, MergeType
  <1>1. /\ row \in RowType /\ row.status # "absent" /\ Recognised(row)
        /\ games[t].status = "ENRICHED" => row.status = "ENRICHED"
    <2>1. CASE Copies
      <3>1. copied \in RowType /\ copied.status = "ENRICHED"
        BY <1>0, <2>1, CopiedType DEF Copies, Stays, Recognised
      <3>2. new \in RowType
        BY <1>0, <3>1, UpdateType
      <3>3. merge.sawTarget.status = "ENRICHED" => games[t].status = "ENRICHED"
        BY <1>0 DEF Stays
      <3> HIDE DEF copied
      <3>4. new.status = "ENRICHED"
        BY <3>1, <3>3 DEF Update, Sent
      <3> HIDE DEF new
      <3> QED BY <2>1, <3>2, <3>4 DEF Recognised
    <2>2. CASE ~Copies
      BY <1>0, <2>2 DEF RowsTyped, Exists
    <2> QED BY <2>1, <2>2
  <1>2. games' = [games EXCEPT ![s] = NoRow, ![t] = IF Copies THEN new ELSE @]
    BY DEF MergeCommit
  <1>3. /\ alias' = [n \in Names |-> IF n \in ns THEN None
                                     ELSE IF alias[n] = s THEN t ELSE alias[n]]
        /\ played' = [u \in Users |-> [n \in Names |->
                        IF played[u][n] = s THEN t ELSE played[u][n]]]
        /\ \A n \in ns : alias[n] = s /\ \A u \in Users : played[u][n] # s
        /\ merge' = NoMerge /\ UNCHANGED <<queue, job, req>>
    BY DEF MergeCommit
  <1> HIDE DEF new, copied, s, t
  <1>4. /\ games' \in [Games -> RowType] /\ games'[s] = NoRow /\ games'[t] = row
        /\ \A g \in Games : g # s /\ g # t => games'[g] = games[g]
    BY <1>0, <1>1, <1>2, RowTypes
  <1> HIDE DEF row
  <1>5. NoRow.status = "absent" /\ NoRow.ext = NoId /\ row # NoRow
    BY <1>1 DEF NoRow, Stub
  <1>6. \A g \in Games : g # None /\ games'[g] # NoRow <=> Exists(g) /\ g # s
    BY <1>0, <1>4, <1>5 DEF Exists
  <1>7. \A g \in Games : /\ Recognised(games'[g])
                         /\ games[g].status = "ENRICHED" => \/ g = s
                                                            \/ games'[g].status = "ENRICHED"
    BY <1>0, <1>1, <1>4, <1>5 DEF Recognised
  <1>8. RowsTyped'
    <2>1. \A g \in Games : g > created => games'[g] = NoRow
      BY <1>0, <1>4 DEF RowsTyped, Exists
    <2>2. \A g \in Games : games'[g] # NoRow => games'[g].status # "absent"
      BY <1>0, <1>1, <1>4 DEF RowsTyped
    <2> QED BY <1>0, <1>4, <2>1, <2>2 DEF RowsTyped
  <1>9. NamesTyped'
    <2>1. t <= created
      BY <1>0 DEF RowsTyped, Exists, Games
    <2>2. /\ alias \in [Names -> {None} \cup Games] /\ \A n \in Names : alias[n] <= created
          /\ played \in [Users -> [Names -> {None} \cup Games]] /\ None <= created
      BY DEF IInv, NamesTyped, RowsTyped, None
    <2> QED BY <1>0, <1>3, <2>1, <2>2 DEF NamesTyped
  <1>10. SessionsFollowAlias'
    <2> SUFFICES ASSUME NEW u \in Users, NEW n \in Names, played'[u][n] # None
                 PROVE  alias'[n] = played'[u][n]
      BY DEF SessionsFollowAlias
    <2>1. s # None
      BY <1>0 DEF Exists
    <2>2. played[u][n] # None /\ alias[n] = played[u][n]
      BY <1>3, <2>1 DEF IInv, SessionsFollowAlias
    <2> QED BY <1>3, <2>2
  <1>11. RequestsTyped' /\ JobsTyped'
    BY <1>0, <1>3 DEF IInv, RequestsTyped, JobsTyped
  <1>12. \A p \in Procs : req[p].game \in Games \/ req[p].game = None
    BY DEF IInv, RequestsTyped, RequestType
  <1>13. LookupHolds'
    <2> SUFFICES ASSUME NEW p \in Procs, req'[p].pc = "start", Exists(req[p].game)'
                 PROVE  alias'[req'[p].name] = req'[p].game
      BY DEF LookupHolds
    <2>1. req' = req /\ req[p].pc = "start" /\ req[p].name \in Names
      BY <1>3 DEF IInv, RequestsTyped
    <2>2. Exists(req[p].game) /\ req[p].game # s
      BY <1>6, <1>12, <2>1 DEF Exists
    <2>3. alias[req[p].name] = req[p].game
      BY <2>1, <2>2 DEF IInv, LookupHolds
    <2> QED BY <1>3, <2>1, <2>2, <2>3
  <1>14. StatusOK'
    <2>1. ASSUME NEW p \in Procs, req[p].pc = "link"
          PROVE  Stays(req[p].game, req[p].saw)'
      <3>1. Stays(req[p].game, req[p].saw)
        BY <2>1 DEF IInv, StatusOK
      <3> QED BY <1>3, <1>6, <1>7, <1>12, <3>1 DEF Stays, Exists
    <2> QED BY <1>3, <1>7, <2>1 DEF StatusOK
  <1>15. MergeOK'
    <2>1. NoMerge \in MergeType
      BY RowTypes DEF NoMerge, MergeType
    <2> QED BY <1>3, <2>1 DEF MergeOK
  <1> QED BY <1>4, <1>5, <1>7, <1>8, <1>9, <1>10, <1>11, <1>13, <1>14, <1>15 DEF IInv

-----------------------------------------------------------------------------
(* Identities. *)

LEMMA OneRowAgrees ==
  ASSUME IInv, IdentityAgrees, overlapped \subseteq overlapped', NEW g \in Games, NEW row,
         games' = [games EXCEPT ![g] = row],
         g \in overlapped' \/ Agrees(row)
  PROVE  IdentityAgrees'
  <1>1. /\ games' \in [Games -> RowType \cup {row}] /\ games'[g] = row
        /\ \A h \in Games : h # g => games'[h] = games[h]
    BY DEF IInv, RowsTyped
  <1> QED BY <1>1 DEF IdentityAgrees, Exists

LEMMA AppliedAgrees ==
  ASSUME CatalogAssumption, NEW row \in RowType, NEW i \in Ids, NEW replace \in BOOLEAN,
         NEW cover \in Ids \cup {NoCover, row.cover},
         row.custom <=> row.cover = Uploaded,
         replace \/ (row.ext # NoId /\ row.title = TitleOf[row.ext])
  PROVE  Agrees(Applied(row, i, replace, cover))
  <1>1. i # NoId /\ Uploaded \notin Ids /\ Uploaded # NoCover /\ row.custom \in BOOLEAN
    BY DEF CatalogAssumption, RowType
  <1> QED BY <1>1 DEF Applied, Agrees

LEMMA StubAgrees ==
  ASSUME CatalogAssumption, NEW title, NEW status, status # "ENRICHED"
  PROVE  Agrees(Stub(title, status))
  BY DEF Stub, Agrees, CatalogAssumption

(* A step that writes one row leaves it telling of one entry, unless it was   *)
(* written over since it was read.                                            *)
LEMMA OthersAgree ==
  ASSUME IInv, IdentityAgrees, CatalogAssumption, Others
  PROVE  IdentityAgrees'
  <1>0. /\ games \in [Games -> RowType]
        /\ \A g \in Games : Exists(g) /\ g \notin overlapped => Agrees(games[g])
    BY DEF IInv, RowsTyped, IdentityAgrees
  <1>1. UNCHANGED <<games, overlapped>> => IdentityAgrees'
    BY DEF IdentityAgrees, Exists
  <1>2. ASSUME NEW row, Insert(row), overlapped' = overlapped, Agrees(row)
        PROVE  IdentityAgrees'
    <2>1. created' \in Games
      BY <1>2 DEF Insert, IInv, RowsTyped, CatalogAssumption, Games
    <2> QED BY <1>2, <2>1, OneRowAgrees DEF Insert
  <1>3. ASSUME NEW p \in Procs, Bot(p) \/ Rollback(p) PROVE IdentityAgrees'
    <2>1. ASSUME BotCommit(p) PROVE IdentityAgrees'
      <3>1. \/ UNCHANGED <<games, overlapped>>
            \/ Insert(Stub(req[p].name, "PENDING")) /\ overlapped' = overlapped
        BY <2>1 DEF BotCommit
      <3> QED BY <1>1, <1>2, <3>1, StubAgrees
    <2> QED BY <1>1, <1>3, <2>1 DEF Bot, BotResolve, Rollback
  <1>4. ASSUME NEW p \in Procs, Request(p) PROVE IdentityAgrees'
    <2>1. ASSUME NEW i \in IgdbIds, NEW c \in IgdbIds \cup {NoCover}, LinkCommit(p, i, c)
          PROVE  IdentityAgrees'
      <3> DEFINE g == req[p].game
                 saw == req[p].saw
                 new == Applied(saw, i, TRUE, c)
                 row == Update(games[g], saw, new)
      <3>1. /\ g \in Games /\ Exists(g) /\ saw \in RowType
            /\ games' = [games EXCEPT ![g] = row]
            /\ overlapped' = IF games[g] = saw THEN overlapped ELSE overlapped \cup {g}
        BY <2>1 DEF LinkCommit, Exists, IInv, RequestsTyped, RequestType
      <3>2. CASE games[g] = saw /\ g \notin overlapped
        <4>1. Agrees(saw)
          BY <1>0, <3>1, <3>2
        <4>2. Agrees(new)
          <5>1. i \in Ids /\ c \in Ids \cup {NoCover, saw.cover} /\ TRUE \in BOOLEAN
            BY DEF Ids
          <5>2. saw.custom <=> saw.cover = Uploaded
            BY <4>1 DEF Agrees
          <5> QED BY <3>1, <5>1, <5>2, AppliedAgrees
        <4>3. Agrees(row)
          <5>1. /\ row.status = new.status /\ row.ext = new.ext /\ row.title = new.title
                /\ row.cover = new.cover /\ row.custom = new.custom
            BY <3>2 DEF Update, Sent
          <5> HIDE DEF row, new
          <5> QED BY <4>2, <5>1 DEF Agrees
        <4> HIDE DEF row, g
        <4> QED BY <3>1, <3>2, <4>3, OneRowAgrees
      <3>3. CASE games[g] # saw \/ g \in overlapped
        <4>1. g \in overlapped' /\ overlapped \subseteq overlapped'
          BY <3>1, <3>3
        <4> HIDE DEF row, g
        <4> QED BY <3>1, <4>1, OneRowAgrees
      <3> QED BY <3>2, <3>3
    <2> QED BY <1>1, <1>4, <2>1 DEF Request, PreferRead, PreferCommit, LinkRead
  <1>5. CASE UserRequest
    <2>1. ASSUME NEW i \in IgdbIds, NEW n \in Names \cup {None},
                 NEW c \in IgdbIds \cup {NoCover}, CreateGame(i, n, c)
          PROVE  IdentityAgrees'
      <3>1. \/ UNCHANGED <<games, overlapped>>
            \/ /\ Insert(Applied(Stub(TitleOf[i], "PENDING"), i, TRUE, c))
               /\ overlapped' = overlapped
        BY <2>1 DEF CreateGame
      <3>2. TitleOf[i] \in Titles
        BY DEF Titles, Ids
      <3>3. PICK stub \in RowType : stub = Stub(TitleOf[i], "PENDING")
        BY <3>2, RowTypes DEF Statuses
      <3>4. stub.custom <=> stub.cover = Uploaded
        BY <3>3 DEF Stub, CatalogAssumption
      <3>6. i \in Ids /\ c \in Ids \cup {NoCover, stub.cover} /\ TRUE \in BOOLEAN
        BY DEF Ids
      <3>5. Agrees(Applied(stub, i, TRUE, c))
        BY <3>4, <3>6, AppliedAgrees
      <3> QED BY <1>1, <1>2, <3>1, <3>3, <3>5
    <2>2. ASSUME NEW n \in Names, CreateStub(n) PROVE IdentityAgrees'
      BY <1>2, <2>2, StubAgrees DEF CreateStub
    <2>3. ASSUME NEW u \in Users, NEW g \in Games, Forget(u, g) PROVE IdentityAgrees'
      BY <1>1, <2>3 DEF Forget
    <2> QED BY <1>5, <2>1, <2>2, <2>3 DEF UserRequest
  <1>6. CASE AdminRequest
    <2>1. ASSUME NEW g \in Games, UploadCover(g) PROVE IdentityAgrees'
      <3>1. /\ games' = [games EXCEPT ![g] = [games[g] EXCEPT !.cover = Uploaded, !.custom = TRUE]]
            /\ Exists(g) /\ games[g] \in RowType /\ overlapped' = overlapped
        BY <1>0, <2>1 DEF UploadCover, RowType
      <3>2. PICK row : row = [games[g] EXCEPT !.cover = Uploaded, !.custom = TRUE]
        OBVIOUS
      <3>3. g \in overlapped \/ Agrees(row)
        BY <1>0, <3>1, <3>2 DEF Agrees, RowType
      <3> QED BY <3>1, <3>2, <3>3, OneRowAgrees
    <2>2. CASE \/ \E g \in Games : Requeue(g)
               \/ \E g \in Games, n \in Names : AttachAlias(g, n)
               \/ \E some \in SUBSET Games : Backfill(some)
      BY <1>1, <2>2 DEF Requeue, AttachAlias, Backfill
    <2> QED BY <1>6, <2>1, <2>2 DEF AdminRequest
  <1>7. ASSUME NEW w \in Workers, Enrich(w) PROVE IdentityAgrees'
    <2>1. ASSUME NEW c, EnrichWrite(w, c) PROVE IdentityAgrees'
      <3> DEFINE g == job[w].game
                 i == job[w].found
      <3>1. CASE WritesNothing(g, i)
        BY <1>1, <2>1, <3>1 DEF EnrichWrite
      <3>2. CASE ~WritesNothing(g, i)
        <4>1. /\ g \in Games /\ Exists(g) /\ games[g] \in RowType /\ i \in Ids \cup {"miss"}
              /\ overlapped' = overlapped
          BY <1>0, <2>1, <3>2 DEF EnrichWrite, WritesNothing, Exists, IInv, JobsTyped, Findings
        <4>2. CASE i = "miss"
          <5>1. /\ games' = [games EXCEPT ![g] = [games[g] EXCEPT !.status = "NEEDS_REVIEW"]]
                /\ games[g].status # "ENRICHED"
            BY <1>0, <2>1, <3>2, <4>1, <4>2 DEF EnrichWrite, WritesNothing, RowType
          <5>2. PICK row : row = [games[g] EXCEPT !.status = "NEEDS_REVIEW"]
            OBVIOUS
          <5>3. g \in overlapped \/ Agrees(row)
            BY <1>0, <4>1, <5>1, <5>2 DEF Agrees, RowType
          <5> HIDE DEF g
          <5> QED BY <4>1, <5>1, <5>2, <5>3, OneRowAgrees
        <4>3. CASE i # "miss"
          <5>1. /\ games' = [games EXCEPT ![g] = Applied(games[g], i, Replaces(g, i), c)]
                /\ c \in Ids \cup {NoCover, games[g].cover}
                /\ Replaces(g, i) \in BOOLEAN /\ (Replaces(g, i) <=> games[g].ext = NoId)
            BY <2>1, <3>2, <4>1, <4>3 DEF EnrichWrite, Ids, Replaces
          <5>2. g \in overlapped \/ Agrees(Applied(games[g], i, Replaces(g, i), c))
            <6> SUFFICES ASSUME Agrees(games[g])
                         PROVE  Agrees(Applied(games[g], i, Replaces(g, i), c))
              BY <1>0, <4>1
            <6>1. /\ games[g].custom <=> games[g].cover = Uploaded
                  /\ games[g].ext # NoId => games[g].title = TitleOf[games[g].ext]
              BY DEF Agrees
            <6>2. i \in Ids
              BY <4>1, <4>3
            <6>3. \/ Replaces(g, i)
                  \/ games[g].ext # NoId /\ games[g].title = TitleOf[games[g].ext]
              BY <5>1, <6>1
            <6> QED BY <4>1, <5>1, <6>1, <6>2, <6>3, AppliedAgrees
          <5>3. PICK row : row = Applied(games[g], i, Replaces(g, i), c)
            OBVIOUS
          <5> HIDE DEF g
          <5> QED BY <4>1, <5>1, <5>2, <5>3, OneRowAgrees
        <4> QED BY <4>2, <4>3
      <3> QED BY <3>1, <3>2
    <2>2. ASSUME NEW m, NEW o, EnrichLookup(w, m, o) PROVE IdentityAgrees'
      BY <1>1, <2>2 DEF EnrichLookup
    <2> QED BY <1>1, <1>7, <2>1, <2>2 DEF Enrich, EnrichLost
  <1>8. CASE \/ \E s, t \in Games : MergeRead(s, t)
             \/ MergeFails \/ UNCHANGED catalogVars
    BY <1>1, <1>8 DEF MergeRead, MergeFails, catalogVars
  <1> QED BY <1>3, <1>4, <1>5, <1>6, <1>7, <1>8 DEF Others

(* A merge that read both rows as they still are copies an identity whole,    *)
(* and an id it does not copy was the target's.                               *)
LEMMA MergeAgrees ==
  ASSUME IInv, IdentityAgrees, CatalogAssumption, NEW ns, NEW us, MergeCommit(ns, us)
  PROVE  IdentityAgrees'
  <1> DEFINE s == merge.source
             t == merge.target
             copied == CopiedTo(merge.sawTarget, merge.sawSource)
             new == Update(games[t], merge.sawTarget, copied)
             row == IF Copies THEN new ELSE games[t]
             asRead == /\ games[s] = merge.sawSource /\ games[t] = merge.sawTarget
                       /\ s \notin overlapped
  <1>0. /\ s \in Games /\ t \in Games /\ s # t /\ Exists(s) /\ Exists(t)
        /\ games[s] \in RowType /\ games[t] \in RowType
        /\ NoId \in {merge.sawSource.ext, merge.sawTarget.ext}
        /\ games \in [Games -> RowType]
    BY DEF IInv, MergeOK, MergeCommit, RowsTyped
  <1>1. /\ games' = [games EXCEPT ![s] = NoRow, ![t] = IF Copies THEN new ELSE @]
        /\ overlapped' = IF asRead THEN overlapped ELSE overlapped \cup {s, t}
    BY DEF MergeCommit
  <1>2. /\ games'[s] = NoRow /\ games'[t] = row
        /\ \A g \in Games : g # s /\ g # t => games'[g] = games[g]
    BY <1>0, <1>1
  <1>3. ASSUME asRead, Copies
        PROVE  /\ new.ext = games[s].ext
               /\ t \notin overlapped => Agrees(new)
    <2>1. copied = CopiedTo(games[t], games[s])
      BY <1>3
    <2>2. /\ copied.status = games[s].status /\ copied.ext = games[s].ext
          /\ copied.title = games[s].title
          /\ copied.cover = IF games[t].custom THEN games[t].cover ELSE games[s].cover
          /\ copied.custom = (games[t].custom \/ games[s].custom)
      BY <1>0, <2>1 DEF CopiedTo, RowType
    <2> HIDE DEF copied
    <2>3. /\ new.status = copied.status /\ new.ext = copied.ext /\ new.title = copied.title
          /\ new.cover = copied.cover /\ new.custom = copied.custom
      BY <1>3 DEF Update, Sent
    <2>4. Agrees(games[s]) /\ (t \notin overlapped => Agrees(games[t]))
      BY <1>0, <1>3 DEF IdentityAgrees
    <2>5. games[s].custom \in BOOLEAN /\ games[t].custom \in BOOLEAN
      BY <1>0 DEF RowType
    <2> HIDE DEF new
    <2> QED BY <2>2, <2>3, <2>4, <2>5 DEF Agrees
  <1>4. SUFFICES ASSUME NEW g \in Games, games'[g] # NoRow, g \notin overlapped'
                 PROVE  Agrees(games'[g])
    BY DEF IdentityAgrees, Exists
  <1>5. g # s
    BY <1>2, <1>4
  <1>6. CASE g = t
    <2>1. asRead /\ t \notin overlapped
      BY <1>1, <1>4, <1>6
    <2>2. Agrees(games[t])
      BY <1>0, <2>1 DEF IdentityAgrees
    <2> HIDE DEF new, asRead
    <2> QED BY <1>2, <1>3, <1>6, <2>1, <2>2
  <1>7. CASE g # t
    <2>1. games'[g] = games[g] /\ g \notin overlapped
      BY <1>1, <1>2, <1>4, <1>5, <1>7
    <2>2. g # None
      BY <1>0, <1>4, <2>1 DEF IInv, RowsTyped, Exists, Games, None
    <2> QED BY <1>4, <2>1, <2>2 DEF IdentityAgrees, Exists
  <1> QED BY <1>6, <1>7

\* A merge whose copies of the two rows have their ids keeps both.
OverlappedId(g) ==
    /\ merge # NoMerge /\ merge' = NoMerge
    /\ \/ g = merge.source /\ games[g].ext # merge.sawSource.ext
       \/ g = merge.target /\ games[g].ext # merge.sawTarget.ext

LEMMA MergeKeepsId ==
  ASSUME IInv, NEW ns, NEW us, MergeCommit(ns, us)
  PROVE  \A g \in Games : games[g].ext # NoId =>
             (\E h \in Games : games'[h].ext = games[g].ext) \/ OverlappedId(g)
  <1> DEFINE s == merge.source
             t == merge.target
             copied == CopiedTo(merge.sawTarget, merge.sawSource)
             new == Update(games[t], merge.sawTarget, copied)
  <1>0. /\ s \in Games /\ t \in Games /\ s # t /\ games \in [Games -> RowType]
        /\ NoId \in {merge.sawSource.ext, merge.sawTarget.ext}
        /\ merge.sawSource \in RowType /\ merge.sawTarget \in RowType
        /\ merge # NoMerge /\ merge' = NoMerge
    BY DEF IInv, MergeOK, MergeCommit, RowsTyped, MergeType
  <1>1. games' = [games EXCEPT ![s] = NoRow, ![t] = IF Copies THEN new ELSE @]
    BY DEF MergeCommit
  <1>2. copied.ext = merge.sawSource.ext
    BY <1>0 DEF CopiedTo, RowType
  <1>3. Copies => new.ext = merge.sawSource.ext
    BY <1>2 DEF Copies, Update, Sent
  <1> HIDE DEF new, copied
  <1>4. SUFFICES ASSUME NEW g \in Games, games[g].ext # NoId, ~OverlappedId(g)
                 PROVE  \E h \in Games : games'[h].ext = games[g].ext
    OBVIOUS
  <1>5. CASE g = s
    <2>1. games[s].ext = merge.sawSource.ext
      BY <1>0, <1>4, <1>5 DEF OverlappedId
    <2>2. Copies
      BY <1>0, <1>4, <1>5, <2>1 DEF Copies
    <2> QED BY <1>0, <1>1, <1>3, <1>5, <2>1, <2>2
  <1>6. CASE g = t
    <2>1. games[t].ext = merge.sawTarget.ext
      BY <1>0, <1>4, <1>6 DEF OverlappedId
    <2>2. ~Copies
      BY <1>4, <1>6, <2>1 DEF Copies
    <2> QED BY <1>0, <1>1, <1>6, <2>2
  <1>7. CASE g # s /\ g # t
    BY <1>0, <1>1, <1>7
  <1> QED BY <1>5, <1>6, <1>7

\* A link gives the row another id; no other write changes one.
Relinked(g) == \E p \in Procs : req[p].pc = "link" /\ req[p].game = g /\ req'[p] = Waiting

LEMMA OthersKeepIds ==
  ASSUME IInv, CatalogAssumption, Others
  PROVE  \A g \in Games : games[g].ext # NoId => games'[g].ext = games[g].ext \/ Relinked(g)
  <1>0. games \in [Games -> RowType] /\ req \in [Procs -> RequestType]
    BY DEF IInv, RowsTyped, RequestsTyped
  <1> DEFINE Keep == \A g \in Games : games[g].ext # NoId =>
                        games'[g].ext = games[g].ext \/ Relinked(g)
  <1>1. games' = games => Keep
    OBVIOUS
  <1>2. ASSUME NEW g \in Games, NEW row, games' = [games EXCEPT ![g] = row],
               games[g].ext # NoId => row.ext = games[g].ext
        PROVE  Keep
    BY <1>0, <1>2
  <1>3. ASSUME NEW row, Insert(row) PROVE Keep
    <2>1. created' \in Games /\ created' > created /\ games' = [games EXCEPT ![created'] = row]
      BY <1>3 DEF Insert, IInv, RowsTyped, CatalogAssumption, Games
    <2>2. games[created'].ext = NoId
      BY <2>1 DEF IInv, RowsTyped, NoRow, Stub
    <2> QED BY <1>2, <2>1, <2>2
  <1>4. ASSUME NEW p \in Procs, NEW i, NEW c, LinkCommit(p, i, c) PROVE Keep
    <2>1. PICK row : games' = [games EXCEPT ![req[p].game] = row]
      BY <1>4 DEF LinkCommit
    <2>2. req'[p] = Waiting /\ req[p].pc = "link"
      BY <1>0, <1>4 DEF LinkCommit, Ends
    <2>3. \A g \in Games : games'[g] = games[g] \/ Relinked(g)
      BY <1>0, <2>1, <2>2 DEF Relinked
    <2> QED BY <2>3
  <1>5. ASSUME NEW w \in Workers, NEW c, EnrichWrite(w, c) PROVE Keep
    <2> DEFINE g == job[w].game
               i == job[w].found
    <2>1. CASE WritesNothing(g, i)
      BY <1>1, <1>5, <2>1 DEF EnrichWrite
    <2>2. CASE ~WritesNothing(g, i)
      <3>1. g \in Games /\ games[g] \in RowType
        BY <1>0, <2>2 DEF WritesNothing, Exists, IInv, JobsTyped
      <3>2. PICK row : /\ games' = [games EXCEPT ![g] = row]
                      /\ \/ row = [games[g] EXCEPT !.status = "NEEDS_REVIEW"]
                         \/ i # "miss" /\ row = Applied(games[g], i, Replaces(g, i), c)
        <4>1. CASE i = "miss"
          BY <1>0, <1>5, <2>2, <3>1, <4>1 DEF EnrichWrite, RowType
        <4>2. CASE i # "miss"
          BY <1>5, <2>2, <4>2 DEF EnrichWrite
        <4> QED BY <4>1, <4>2
      <3>3. games[g].ext # NoId => row.ext = games[g].ext
        BY <3>1, <3>2 DEF Applied, Replaces, RowType
      <3> HIDE DEF g
      <3> QED BY <1>2, <3>1, <3>2, <3>3
    <2> QED BY <2>1, <2>2
  <1>6. ASSUME NEW g \in Games, UploadCover(g) PROVE Keep
    <2>1. PICK row : row = [games[g] EXCEPT !.cover = Uploaded, !.custom = TRUE]
      OBVIOUS
    <2>2. games' = [games EXCEPT ![g] = row] /\ row.ext = games[g].ext
      BY <1>0, <1>6, <2>1 DEF UploadCover, RowType
    <2> QED BY <1>2, <2>2
  <1>7. CASE \/ \E p \in Procs : Bot(p) \/ Rollback(p) \/ Request(p)
             \/ UserRequest \/ AdminRequest \/ \E w \in Workers : Enrich(w)
             \/ \E s, t \in Games : MergeRead(s, t)
             \/ MergeFails \/ UNCHANGED catalogVars
    <2>1. \/ games' = games \/ \E row : Insert(row)
          \/ \E p \in Procs : \E i, c : LinkCommit(p, i, c)
          \/ \E w \in Workers : \E c : EnrichWrite(w, c)
          \/ \E g \in Games : UploadCover(g)
      BY <1>7 DEF Bot, BotResolve, BotCommit, Rollback, Request, PreferRead, PreferCommit,
             LinkRead, UserRequest, Forget, CreateGame, CreateStub, AdminRequest, Requeue,
             AttachAlias, Backfill, Enrich, EnrichLookup, EnrichLost, MergeRead, MergeFails,
             catalogVars
    <2>2. Keep
      <3> HIDE DEF Keep
      <3> QED BY <1>1, <1>3, <1>4, <1>5, <1>6, <2>1
    <2> QED BY <2>2
  <1> QED BY <1>7 DEF Others

-----------------------------------------------------------------------------
(* Answers. *)

AnswersTyped == prefs \in [Users -> [Games -> Answers]]

AnswerStays ==
    /\ AnswersTyped'
    /\ \A u \in Users, g \in Games :
         prefs[u][g] = "accepted" =>
           \/ prefs'[u][g] = "accepted"
           \/ games'[g].status = "ENRICHED"
           \/ Answered(u, g) \/ MergedAway(u, g)

LEMMA InboxedKeeps ==
  ASSUME NEW answers \in [Users -> [Games -> Answers]], NEW g \in Games, NEW us
  PROVE  /\ Inboxed(answers, g, us) \in [Users -> [Games -> Answers]]
         /\ \A u \in Users, h \in Games :
              answers[u][h] = "accepted" => Inboxed(answers, g, us)[u][h] = "accepted"
  BY DEF Inboxed, Answers

\* Answers are cleared only about a game that is recognised by that step.
LEMMA ReviewedKeeps ==
  ASSUME NEW answers \in [Users -> [Games -> Answers]], NEW g \in Games, NEW previous
  PROVE  /\ Reviewed(answers, g, previous) \in [Users -> [Games -> Answers]]
         /\ \A u \in Users, h \in Games :
              h # g => Reviewed(answers, g, previous)[u][h] = answers[u][h]
  <1>1. /\ Cleared(answers, g) \in [Users -> [Games -> Answers]]
        /\ \A u \in Users, h \in Games : h # g => Cleared(answers, g)[u][h] = answers[u][h]
    BY DEF Cleared, Answers
  <1> QED BY <1>1 DEF Reviewed

LEMMA StartKeeps ==
  ASSUME AnswersTyped, NEW u, NEW n, NEW g \in Games, NEW status, NEW resumed,
         StartOn(u, n, g, status, resumed)
  PROVE  AnswerStays
  <1>1. prefs' = prefs \/ prefs' = Inboxed(prefs, g, {u})
    BY DEF StartOn
  <1>2. CASE prefs' = prefs
    BY <1>2 DEF AnswerStays, AnswersTyped
  <1>3. CASE prefs' = Inboxed(prefs, g, {u})
    BY <1>3, InboxedKeeps DEF AnswerStays, AnswersTyped
  <1> QED BY <1>1, <1>2, <1>3

LEMMA OthersKeepAnswers ==
  ASSUME IInv, AnswersTyped, CatalogAssumption, Others
  PROVE  AnswerStays
  <1>0. prefs \in [Users -> [Games -> Answers]] /\ games \in [Games -> RowType]
        /\ req \in [Procs -> RequestType]
    BY DEF AnswersTyped, IInv, RowsTyped, RequestsTyped
  <1>1. UNCHANGED prefs => AnswerStays
    BY DEF AnswerStays, AnswersTyped
  <1>2. ASSUME NEW p \in Procs, BotCommit(p) PROVE AnswerStays
    <2>1. Exists(Bound(p)) => Bound(p) \in Games
      BY <1>2 DEF Bound, Exists, BotCommit, IInv, RequestsTyped, RequestType, NamesTyped
    <2>2. created < MaxGames /\ created' = created + 1 => created' \in Games
      BY DEF IInv, RowsTyped, CatalogAssumption, Games
    <2>3. \E g \in Games : \E status, resumed :
            StartOn(req[p].user, req[p].name, g, status, resumed)
      BY <1>2, <2>1, <2>2 DEF BotCommit, Insert
    <2> QED BY <2>3, StartKeeps
  <1>3. ASSUME NEW p \in Procs, NEW a \in Answers, PreferCommit(p, a) PROVE AnswerStays
    <2> DEFINE u == req[p].user
               g == req[p].game
               answer == IF a # "absent" THEN a
                         ELSE IF prefs[u][g] = "absent" THEN "null" ELSE prefs[u][g]
    <2>1. /\ prefs' = [prefs EXCEPT ![u][g] = answer] /\ req'[p] = Waiting
          /\ req[p].pc = "prefer"
      BY <1>0, <1>3 DEF PreferCommit, Ends
    <2>2. u \in Users /\ g \in Games => answer \in Answers
      BY <1>0 DEF Answers
    <2> HIDE DEF answer
    <2>3. /\ prefs' \in [Users -> [Games -> Answers]]
          /\ \A v \in Users, h \in Games : prefs'[v][h] = prefs[v][h] \/ (v = u /\ h = g)
      BY <1>0, <2>1, <2>2
    <2>4. \A v \in Users, h \in Games : v = u /\ h = g => Answered(v, h)
      BY <2>1 DEF Answered
    <2> QED BY <2>3, <2>4 DEF AnswerStays, AnswersTyped
  <1>4. ASSUME NEW p \in Procs, NEW i \in IgdbIds, NEW c \in IgdbIds \cup {NoCover},
               LinkCommit(p, i, c)
        PROVE  AnswerStays
    <2> DEFINE g == req[p].game
               saw == req[p].saw
    <2>1. /\ g \in Games /\ Exists(g) /\ saw \in RowType
          /\ games' = [games EXCEPT ![g] = Update(games[g], saw, Applied(saw, i, TRUE, c))]
          /\ prefs' = Reviewed(prefs, g, saw.status)
          /\ saw.status = "ENRICHED" => games[g].status = "ENRICHED"
      BY <1>0, <1>4 DEF LinkCommit, Exists, RequestType, IInv, StatusOK, Stays
    <2>2. Applied(saw, i, TRUE, c).status = "ENRICHED"
      BY DEF Applied
    <2>3. Update(games[g], saw, Applied(saw, i, TRUE, c)).status = "ENRICHED"
      BY <2>1, <2>2 DEF Update, Sent
    <2>4. games'[g].status = "ENRICHED"
      BY <1>0, <2>1, <2>3
    <2>5. /\ prefs' \in [Users -> [Games -> Answers]]
          /\ \A u \in Users, h \in Games : h # g => prefs'[u][h] = prefs[u][h]
      <3> HIDE DEF g, saw
      <3> QED BY <1>0, <2>1, ReviewedKeeps
    <2> HIDE DEF g, saw
    <2> QED BY <2>4, <2>5 DEF AnswerStays, AnswersTyped
  <1>5. ASSUME NEW u \in Users, NEW g \in Games, Forget(u, g) PROVE AnswerStays
    <2>1. prefs' = [prefs EXCEPT ![u][g] = "absent"]
      BY <1>5 DEF Forget
    <2>2. /\ prefs' \in [Users -> [Games -> Answers]]
          /\ \A v \in Users, h \in Games : prefs'[v][h] = prefs[v][h] \/ (v = u /\ h = g)
      BY <1>0, <2>1 DEF Answers
    <2>3. Answered(u, g)
      BY <1>5 DEF Answered
    <2> QED BY <2>2, <2>3 DEF AnswerStays, AnswersTyped
  <1>6. ASSUME NEW w \in Workers, NEW c, EnrichWrite(w, c) PROVE AnswerStays
    <2> DEFINE g == job[w].game
               i == job[w].found
    <2>1. CASE WritesNothing(g, i)
      BY <1>1, <1>6, <2>1 DEF EnrichWrite
    <2>2. CASE ~WritesNothing(g, i)
      <3>1. g \in Games
        BY <2>2 DEF WritesNothing, Exists, IInv, JobsTyped
      <3>2. CASE prefs' = Inboxed(prefs, g, Owners(g))
        BY <1>0, <3>1, <3>2, InboxedKeeps DEF AnswerStays, AnswersTyped
      <3>3. CASE /\ games' = [games EXCEPT ![g] = Applied(games[g], i, Replaces(g, i), c)]
                 /\ prefs' = Reviewed(prefs, g, games[g].status)
        <4>1. games'[g].status = "ENRICHED"
          BY <1>0, <3>1, <3>3 DEF Applied
        <4> HIDE DEF g, i
        <4> QED BY <1>0, <3>1, <3>3, <4>1, ReviewedKeeps DEF AnswerStays, AnswersTyped
      <3> QED BY <1>6, <2>2, <3>2, <3>3 DEF EnrichWrite
    <2> QED BY <2>1, <2>2
  <1>7. \/ UNCHANGED prefs
        \/ \E p \in Procs : \/ BotCommit(p) \/ \E a \in Answers : PreferCommit(p, a)
                            \/ \E i \in IgdbIds, c \in IgdbIds \cup {NoCover} : LinkCommit(p, i, c)
        \/ \E u \in Users, g \in Games : Forget(u, g)
        \/ \E w \in Workers : \E c : EnrichWrite(w, c)
    BY DEF Others, Bot, BotResolve, Rollback, Request, PreferRead,
           LinkRead, UserRequest, CreateGame, CreateStub, AdminRequest, UploadCover, Requeue,
           AttachAlias, Backfill, Enrich, EnrichLookup, EnrichLost, MergeRead, MergeFails,
           catalogVars
  <1> QED BY <1>1, <1>2, <1>3, <1>4, <1>5, <1>6, <1>7

LEMMA MergeKeepsAnswers ==
  ASSUME IInv, AnswersTyped, CatalogAssumption, NEW ns, NEW us, MergeCommit(ns, us)
  PROVE  AnswerStays
  <1> DEFINE s == merge.source
             t == merge.target
             new == Update(games[t], merge.sawTarget, CopiedTo(merge.sawTarget, merge.sawSource))
             moved == [u \in Users |->
                         [prefs[u] EXCEPT ![s] = "absent",
                            ![t] = IF @ = "absent" /\ u \notin us THEN prefs[u][s] ELSE @]]
  <1>0. /\ s \in Games /\ t \in Games /\ s # t
        /\ merge.sawSource \in RowType /\ merge.sawTarget \in RowType
        /\ Stays(s, merge.sawSource) /\ Stays(t, merge.sawTarget) /\ Exists(t)
        /\ games \in [Games -> RowType] /\ prefs \in [Users -> [Games -> Answers]]
    BY DEF IInv, MergeOK, StatusOK, MergeCommit, RowsTyped, MergeType, AnswersTyped
  <1>1. /\ prefs' = IF Copies THEN Reviewed(moved, t, merge.sawTarget.status) ELSE moved
        /\ games' = [games EXCEPT ![s] = NoRow, ![t] = IF Copies THEN new ELSE @]
    BY DEF MergeCommit
  <1>2. /\ moved \in [Users -> [Games -> Answers]]
        /\ \A u \in Users, g \in Games :
             prefs[u][g] = "accepted" => moved[u][g] = "accepted" \/ g = s
        /\ \A u \in Users : prefs[u][t] = "absent" /\ u \notin us => moved[u][t] = prefs[u][s]
    BY <1>0 DEF Answers
  <1>e. us \cap merge.users = {} /\ merge # NoMerge /\ games'[s] = NoRow
    BY <1>0, <1>1 DEF MergeCommit
  <1>f. ASSUME NEW u \in Users, prefs[u][s] = "accepted",
               \/ games'[t].status = "ENRICHED"
               \/ prefs'[u][t] = moved[u][t]
        PROVE  MergedAway(u, s)
    <2>1. \/ prefs[u][t] # "absent" \/ u \notin merge.users
          \/ games'[t].status = "ENRICHED" \/ prefs'[u][t] = "accepted"
      <3> HIDE DEF moved, s, t
      <3> QED BY <1>2, <1>e, <1>f
    <2> QED BY <1>e, <2>1 DEF MergedAway
  <1>3. CASE Copies
    <2>1. CopiedTo(merge.sawTarget, merge.sawSource).status = "ENRICHED"
      BY <1>0, <1>3, CopiedType DEF Copies, Stays, Recognised
    <2>2. new.status = "ENRICHED"
      BY <1>0, <2>1 DEF Update, Sent, Stays
    <2> HIDE DEF new, moved, s, t
    <2>3. games'[t].status = "ENRICHED"
      BY <1>0, <1>1, <1>3, <2>2
    <2>4. /\ prefs' \in [Users -> [Games -> Answers]]
          /\ \A u \in Users, g \in Games : g # t => prefs'[u][g] = moved[u][g]
      BY <1>0, <1>1, <1>2, <1>3, ReviewedKeeps
    <2> QED BY <1>2, <1>f, <2>3, <2>4 DEF AnswerStays, AnswersTyped
  <1>4. CASE ~Copies
    <2>1. prefs' = moved
      BY <1>1, <1>4
    <2> HIDE DEF new, moved, s, t
    <2> QED BY <1>2, <1>f, <2>1 DEF AnswerStays, AnswersTyped
  <1> QED BY <1>3, <1>4

-----------------------------------------------------------------------------
(* Types. *)

\* A row that is there is whole, and so is every copy of one that is still to
\* be written back.
WholeOK ==
    /\ games \in [Games -> Row \cup {NoRow}]
    /\ \A p \in Procs : req[p].saw \in Row \cup {NoRow} /\ (req[p].pc = "link" => req[p].saw \in Row)
    /\ {merge.sawSource, merge.sawTarget} \subseteq Row \cup {NoRow}
    /\ merge # NoMerge => {merge.sawSource, merge.sawTarget} \subseteq Row

CountsOK ==
    /\ overlapped \in SUBSET Games
    /\ mix \in Mixes /\ calls \in 0..mix.calls

LEMMA WholeRows ==
  /\ NoRow \notin Row
  /\ \A title \in Titles, status \in Statuses : Stub(title, status) \in Row
  /\ \A row \in Row, saw \in Row, new \in Row :
         Update(row, saw, new) \in Row /\ CopiedTo(row, new) \in Row
  /\ \A i \in Ids, row \in Row, replace \in BOOLEAN, cover \in Ids \cup {Uploaded, NoCover} :
         Applied(row, i, replace, cover) \in Row
  <1>1. NoRow \notin Row
    BY DEF NoRow, Stub, Row, Statuses
  <1>2. \A title \in Titles, status \in Statuses : Stub(title, status) \in Row
    BY DEF Stub, Row
  <1>3. \A row \in Row, saw \in Row, new \in Row : Update(row, saw, new) \in Row
    BY DEF Update, Sent, Row
  <1>4. \A row \in Row, new \in Row : CopiedTo(row, new) \in Row
    BY DEF CopiedTo, Row
  <1>5. ASSUME NEW i \in Ids, NEW row \in Row, NEW replace \in BOOLEAN,
               NEW cover \in Ids \cup {Uploaded, NoCover}
        PROVE  Applied(row, i, replace, cover) \in Row
    <2>1. TitleOf[i] \in Titles
      BY DEF Titles
    <2> QED BY <2>1 DEF Applied, Row, Statuses
  <1> QED BY <1>1, <1>2, <1>3, <1>4, <1>5

\* A step writes one row, and writes it whole.
WritesOne == \E g \in Games, row \in Row : games' = [games EXCEPT ![g] = row]

LEMMA OthersWriteOne ==
  ASSUME IInv, WholeOK, CatalogAssumption, Others
  PROVE  UNCHANGED games \/ WritesOne
  <1>0. /\ games \in [Games -> Row \cup {NoRow}] /\ created \in 0..MaxGames /\ MaxGames \in Nat
        /\ \A g \in Games : Exists(g) => games[g] \in Row
    BY DEF WholeOK, IInv, RowsTyped, CatalogAssumption, Exists
  <1>a. ASSUME NEW row \in Row, Insert(row) PROVE WritesOne
    <2>1. created' \in Games
      BY <1>0, <1>a DEF Insert, Games
    <2> QED BY <1>a, <2>1 DEF Insert, WritesOne
  <1>1. ASSUME NEW p \in Procs, BotCommit(p) PROVE UNCHANGED games \/ WritesOne
    <2>1. Stub(req[p].name, "PENDING") \in Row
      <3>1. req[p].name \in Titles /\ "PENDING" \in Statuses
        BY <1>1 DEF IInv, RequestsTyped, BotCommit, Titles, Statuses
      <3> QED BY <3>1, WholeRows
    <2> QED BY <1>1, <1>a, <2>1 DEF BotCommit
  <1>2. ASSUME NEW p \in Procs, NEW i \in IgdbIds, NEW c \in IgdbIds \cup {NoCover},
               LinkCommit(p, i, c)
        PROVE  WritesOne
    <2> DEFINE g == req[p].game
               saw == req[p].saw
    <2>1. g \in Games /\ games[g] \in Row /\ saw \in Row
      BY <1>0, <1>2 DEF LinkCommit, Exists, IInv, RequestsTyped, RequestType, WholeOK
    <2>2. i \in Ids /\ TRUE \in BOOLEAN /\ c \in Ids \cup {Uploaded, NoCover}
      BY DEF Ids
    <2>3. Update(games[g], saw, Applied(saw, i, TRUE, c)) \in Row
      BY <2>1, <2>2, WholeRows
    <2>4. games' = [games EXCEPT ![g] = Update(games[g], saw, Applied(saw, i, TRUE, c))]
      BY <1>2 DEF LinkCommit
    <2> HIDE DEF g, saw
    <2> QED BY <2>1, <2>3, <2>4 DEF WritesOne
  <1>3. ASSUME NEW w \in Workers, NEW c, EnrichWrite(w, c) PROVE UNCHANGED games \/ WritesOne
    <2> DEFINE g == job[w].game
               i == job[w].found
    <2>1. CASE WritesNothing(g, i)
      BY <1>3, <2>1 DEF EnrichWrite
    <2>2. CASE ~WritesNothing(g, i)
      <3>1. g \in Games /\ games[g] \in Row /\ i \in Ids \cup {"miss"}
        BY <1>0, <2>2 DEF WritesNothing, Exists, IInv, JobsTyped, Findings
      <3>2. CASE i = "miss"
        <4>1. PICK row \in Row : row = [games[g] EXCEPT !.status = "NEEDS_REVIEW"]
          BY <3>1 DEF Row, Statuses
        <4>2. games' = [games EXCEPT ![g] = row]
          BY <1>0, <1>3, <2>2, <3>1, <3>2, <4>1 DEF EnrichWrite, Row
        <4> QED BY <3>1, <4>2 DEF WritesOne
      <3>3. CASE i # "miss"
        <4>1. i \in Ids /\ Replaces(g, i) \in BOOLEAN /\ c \in Ids \cup {Uploaded, NoCover}
          BY <1>3, <3>1, <3>3 DEF EnrichWrite, Row, Ids, Replaces
        <4>2. PICK row \in Row : row = Applied(games[g], i, Replaces(g, i), c)
          BY <3>1, <4>1, WholeRows
        <4>3. games' = [games EXCEPT ![g] = row]
          BY <1>3, <2>2, <3>3, <4>2 DEF EnrichWrite
        <4> QED BY <3>1, <4>3 DEF WritesOne
      <3> QED BY <3>2, <3>3
    <2> QED BY <2>1, <2>2
  <1>4. ASSUME NEW i \in IgdbIds, NEW n \in Names \cup {None}, NEW c \in IgdbIds \cup {NoCover},
               CreateGame(i, n, c)
        PROVE  UNCHANGED games \/ WritesOne
    <2>1. TitleOf[i] \in Titles /\ "PENDING" \in Statuses /\ TRUE \in BOOLEAN
          /\ i \in Ids /\ c \in Ids \cup {Uploaded, NoCover}
      BY DEF Titles, Ids, Statuses
    <2>2. Applied(Stub(TitleOf[i], "PENDING"), i, TRUE, c) \in Row
      BY <2>1, WholeRows
    <2> QED BY <1>4, <1>a, <2>2 DEF CreateGame
  <1>5. ASSUME NEW n \in Names, CreateStub(n) PROVE WritesOne
    <2>1. n \in Titles /\ "NEEDS_REVIEW" \in Statuses
      BY DEF Titles, Statuses
    <2> QED BY <1>5, <1>a, <2>1, WholeRows DEF CreateStub
  <1>6. ASSUME NEW g \in Games, UploadCover(g) PROVE WritesOne
    <2>1. games[g] \in Row
      BY <1>0, <1>6 DEF UploadCover
    <2>2. PICK row \in Row : row = [games[g] EXCEPT !.cover = Uploaded, !.custom = TRUE]
      BY <2>1 DEF Row
    <2>3. games' = [games EXCEPT ![g] = row]
      BY <1>0, <1>6, <2>1, <2>2 DEF UploadCover, Row
    <2> QED BY <2>3 DEF WritesOne
  <1>7. \/ UNCHANGED games
        \/ \E p \in Procs : \/ BotCommit(p)
                            \/ \E i \in IgdbIds, c \in IgdbIds \cup {NoCover} : LinkCommit(p, i, c)
        \/ \E i \in IgdbIds, n \in Names \cup {None}, c \in IgdbIds \cup {NoCover} :
              CreateGame(i, n, c)
        \/ \E n \in Names : CreateStub(n)
        \/ \E g \in Games : UploadCover(g)
        \/ \E w \in Workers : \E c : EnrichWrite(w, c)
    BY DEF Others, Bot, BotResolve, Rollback, Request, PreferRead, PreferCommit,
           LinkRead, UserRequest, Forget, AdminRequest, Requeue,
           AttachAlias, Backfill, Enrich, EnrichLookup, EnrichLost, MergeRead, MergeFails,
           catalogVars
  <1> QED BY <1>1, <1>2, <1>3, <1>4, <1>5, <1>6, <1>7

LEMMA OthersWhole ==
  ASSUME IInv, WholeOK, CatalogAssumption, Others
  PROVE  WholeOK'
  <1>0. /\ games \in [Games -> Row \cup {NoRow}] /\ req \in [Procs -> RequestType]
        /\ \A g \in Games : Exists(g) => games[g] \in Row
    BY DEF WholeOK, Exists, IInv, RequestsTyped
  <1>1. games' \in [Games -> Row \cup {NoRow}]
    BY <1>0, OthersWriteOne DEF WritesOne
  <1>2. \A p \in Procs : req'[p].saw \in Row \cup {NoRow} /\ (req'[p].pc = "link" => req'[p].saw \in Row)
    <2>1. CASE UNCHANGED req
      BY <2>1 DEF WholeOK
    <2>2. ASSUME NEW p \in Procs, Reads(p)
          PROVE  \A q \in Procs : /\ req'[q].saw \in Row \cup {NoRow}
                                  /\ req'[q].pc = "link" => req'[q].saw \in Row
      <3>1. PICK r \in RequestType :
                /\ req' = [req EXCEPT ![p] = r]
                /\ r.pc = "link" => r.game \in Games /\ Exists(r.game) /\ r.saw = games[r.game]
                /\ r.saw = NoRow \/ \E g \in Games : r.saw = games[g]
        BY <2>2 DEF Reads
      <3>2. r.saw \in Row \cup {NoRow} /\ (r.pc = "link" => r.saw \in Row)
        BY <1>0, <3>1
      <3> QED BY <1>0, <3>1, <3>2 DEF WholeOK
    <2> QED BY <2>1, <2>2, OthersRead
  <1>3. /\ {merge'.sawSource, merge'.sawTarget} \subseteq Row \cup {NoRow}
        /\ merge' # NoMerge => {merge'.sawSource, merge'.sawTarget} \subseteq Row
    <2>1. CASE merge' = merge
      BY <2>1 DEF WholeOK
    <2>2. CASE merge' = NoMerge
      BY <2>2 DEF NoMerge
    <2>3. ASSUME NEW s \in Games, NEW t \in Games, MergeRead(s, t)
          PROVE  {merge'.sawSource, merge'.sawTarget} \subseteq Row
      BY <1>0, <2>3 DEF MergeRead
    <2>4. merge' = merge \/ merge' = NoMerge \/ \E s, t \in Games : MergeRead(s, t)
      BY DEF Others, Bot, BotResolve, BotCommit, Request, PreferRead, PreferCommit, LinkRead,
             LinkCommit, Rollback, UserRequest, Forget, CreateGame, CreateStub, AdminRequest,
             UploadCover, Requeue, AttachAlias, Backfill, MergeFails, Enrich, EnrichLookup,
             EnrichWrite, EnrichLost, catalogVars
    <2> QED BY <2>1, <2>2, <2>3, <2>4
  <1> QED BY <1>1, <1>2, <1>3 DEF WholeOK

LEMMA MergeWhole ==
  ASSUME IInv, WholeOK, CatalogAssumption, NEW ns, NEW us, MergeCommit(ns, us)
  PROVE  WholeOK'
  <1> DEFINE s == merge.source
             t == merge.target
             new == Update(games[t], merge.sawTarget, CopiedTo(merge.sawTarget, merge.sawSource))
  <1>0. /\ games \in [Games -> Row \cup {NoRow}] /\ s \in Games /\ t \in Games
        /\ games[t] \in Row /\ {merge.sawSource, merge.sawTarget} \subseteq Row
    BY DEF WholeOK, MergeCommit, IInv, MergeOK, Exists
  <1>1. new \in Row
    BY <1>0, WholeRows
  <1>2. /\ games' = [games EXCEPT ![s] = NoRow, ![t] = IF Copies THEN new ELSE @]
        /\ merge' = NoMerge /\ req' = req
    BY DEF MergeCommit
  <1> HIDE DEF s, t, new
  <1>3. games' \in [Games -> Row \cup {NoRow}]
    BY <1>0, <1>1, <1>2
  <1> QED BY <1>2, <1>3 DEF WholeOK, NoMerge

LEMMA StepCases ==
  ASSUME [Next]_catalogVars
  PROVE  Others \/ \E ns \in SUBSET Names, us \in SUBSET Users : MergeCommit(ns, us)
  BY DEF Next, Merge, Others

LEMMA CountsKept ==
  ASSUME IInv, CountsOK, CatalogAssumption, [Next]_catalogVars
  PROVE  CountsOK'
  <1>1. mix.calls \in Nat /\ calls \in 0..mix.calls /\ mix \in Mixes
    BY DEF CountsOK, CatalogAssumption
  <1>2. ASSUME NEW ns, NEW us, MergeCommit(ns, us) PROVE CountsOK'
    <2>1. merge.source \in Games /\ merge.target \in Games
      BY <1>2 DEF MergeCommit, IInv, MergeOK
    <2> QED BY <1>2, <2>1 DEF MergeCommit, CountsOK
  <1>3. ASSUME Others PROVE CountsOK'
    <2>1. mix' = mix /\ (calls' = calls \/ (calls < mix.calls /\ calls' = calls + 1))
      BY <1>3 DEF Others, Bot, BotResolve, BotCommit, Request, PreferRead, PreferCommit, LinkRead,
             LinkCommit, Rollback, UserRequest, Forget, CreateGame, CreateStub, AdminRequest,
             UploadCover, Requeue, AttachAlias, Backfill, MergeRead, MergeFails, Enrich,
             EnrichLookup, EnrichWrite, EnrichLost, Spend, catalogVars
    <2>2. ASSUME NEW p \in Procs, NEW i, NEW c, LinkCommit(p, i, c)
          PROVE  overlapped' \in SUBSET Games
      <3>1. req[p].game \in Games
        BY <2>2 DEF LinkCommit, Exists, IInv, RequestsTyped, RequestType
      <3> QED BY <2>2, <3>1 DEF LinkCommit, CountsOK
    <2>3. overlapped' = overlapped \/ \E p \in Procs : \E i, c : LinkCommit(p, i, c)
      BY <1>3 DEF Others, Bot, BotResolve, BotCommit, Request, PreferRead, PreferCommit, LinkRead,
             Rollback, UserRequest, Forget, CreateGame, CreateStub, AdminRequest,
             UploadCover, Requeue, AttachAlias, Backfill, MergeRead, MergeFails, Enrich,
             EnrichLookup, EnrichWrite, EnrichLost, catalogVars
    <2> QED BY <1>1, <2>1, <2>2, <2>3 DEF CountsOK
  <1> QED BY <1>2, <1>3, StepCases

-----------------------------------------------------------------------------
(* Theorems. *)

LEMMA CatalogBegins ==
  ASSUME Init, CatalogAssumption
  PROVE  IInv
  <1>0. /\ Seed \in Seq([row : Row, names : SUBSET Names]) /\ Len(Seed) <= MaxGames
        /\ DOMAIN Seed = 1..Len(Seed) /\ Len(Seed) \in Nat /\ created = Len(Seed)
        /\ MaxGames \in Nat
    BY DEF CatalogAssumption, Init
  <1>1. \A g \in DOMAIN Seed : /\ g \in Games /\ g <= created
                               /\ Seed[g].row \in Row /\ Recognised(Seed[g].row)
    <2> SUFFICES ASSUME NEW g \in DOMAIN Seed
                 PROVE  /\ g \in Games /\ g <= created
                        /\ Seed[g].row \in Row /\ Recognised(Seed[g].row)
      OBVIOUS
    <2>1. Seed[g] \in [row : Row, names : SUBSET Names]
      BY <1>0, ElementOfSeq
    <2>2. g \in Games /\ g <= created
      BY <1>0 DEF Games
    <2> QED BY <2>1, <2>2 DEF CatalogAssumption, Recognised, Agrees
  <1>2. /\ \A r \in Row : r \in RowType /\ r.status # "absent"
        /\ NoRow.status = "absent" /\ NoRow.ext = NoId
    BY DEF Row, RowType, Statuses, NoRow, Stub
  <1>3. games = [g \in Games |-> IF g \in DOMAIN Seed THEN Seed[g].row ELSE NoRow]
    BY DEF Init
  <1>4. RowsTyped
    <2>1. \A g \in Games : g > created => g \notin DOMAIN Seed
      BY <1>0 DEF Games
    <2>2. created \in 0..MaxGames
      BY <1>0
    <2>3. \A g \in Games : g > created => games[g] = NoRow
      BY <1>3, <2>1
    <2>4. ASSUME NEW g \in Games
          PROVE  games[g] \in RowType /\ (games[g] # NoRow => games[g].status # "absent")
      <3>1. CASE g \in DOMAIN Seed
        <4>1. games[g] = Seed[g].row /\ Seed[g].row \in Row
          BY <1>1, <1>3, <2>4, <3>1
        <4> QED BY <1>2, <4>1
      <3>2. CASE g \notin DOMAIN Seed
        <4>1. games[g] = NoRow
          BY <1>3, <2>4, <3>2
        <4> QED BY <4>1, RowTypes
      <3> QED BY <3>1, <3>2
    <2>5. games \in [Games -> RowType]
      BY <1>3, <2>4
    <2> QED BY <2>2, <2>3, <2>4, <2>5 DEF RowsTyped
  <1>5. /\ alias \in [Names -> {None} \cup Games] /\ \A n \in Names : alias[n] <= created
    BY <1>0, <1>1 DEF Init, None
  <1>6. Waiting \in RequestType /\ NoJob \in [game : {None} \cup Games, found : Findings]
        /\ NoMerge \in MergeType
    BY RowTypes DEF Waiting, RequestType, NoJob, Findings, NoMerge, MergeType
  <1>7. /\ req = [p \in Procs |-> Waiting] /\ merge = NoMerge
        /\ job = [w \in Workers |-> NoJob] /\ queue = {}
        /\ played = [u \in Users |-> [n \in Names |-> None]]
    BY DEF Init
  <1>8. JobsTyped /\ RequestsTyped /\ LookupHolds /\ MergeOK
    BY <1>0, <1>6, <1>7 DEF JobsTyped, RequestsTyped, LookupHolds, MergeOK, Waiting, None
  <1>9. NamesTyped /\ SessionsFollowAlias
    BY <1>5, <1>7 DEF NamesTyped, SessionsFollowAlias
  <1>10. StatusOK
    BY <1>1, <1>2, <1>3, <1>7 DEF StatusOK, Recognised, Waiting
  <1> QED BY <1>4, <1>8, <1>9, <1>10 DEF IInv

LEMMA OthersKeep ==
  ASSUME IInv, CatalogAssumption, Others
  PROVE  /\ IInv'
         /\ \A g \in Games : games[g].status = "ENRICHED" => games'[g].status = "ENRICHED"
  <1>1. RowsGrow /\ NamesGrow
    BY OthersGrow, OthersBind
  <1>2. StatusOK'
    BY <1>1, OthersRemember, OthersMerge DEF StatusOK, RowsGrow
  <1> QED BY <1>1, <1>2, OthersRemember, OthersMerge, OthersQueue DEF IInv, RowsGrow, NamesGrow

(* The rows, the names and what requests, merges and workers remember of them *)
(* stay consistent in the sense of IInv, whatever meets.                      *)
THEOREM CatalogInvariant == Spec => []IInv
  <1>1. Init => IInv
    BY CatalogBegins, CatalogAssumption
  <1>2. IInv /\ [Next]_catalogVars => IInv'
    BY StepCases, OthersKeep, MergeMoves, CatalogAssumption
  <1> QED BY <1>1, <1>2, PTL DEF Spec

(* The sessions of a process name are all on the game the name is bound to    *)
(* (add_alias, resolve_alias, merge_game).                                    *)
THEOREM NamesFollowed == Spec => []SessionsFollowAlias
  <1>1. IInv => SessionsFollowAlias
    BY DEF IInv
  <1> QED BY <1>1, CatalogInvariant, PTL

(* A recognised game stays so while it is there (_write_enrichment, igdb-link,*)
(* merge_game), for any number of enrichments, links and merges that overlap. *)
THEOREM RecognisedStays == Spec => NeverDemoted
  <1>1. IInv /\ [Next]_catalogVars =>
          [\A g \in Games : games[g].status = "ENRICHED" =>
             games'[g].status \in {"ENRICHED", "absent"}]_catalogVars
    BY StepCases, OthersKeep, MergeMoves, CatalogAssumption
  <1> QED BY <1>1, CatalogInvariant, PTL DEF Spec, NeverDemoted

(* A row that no unlocked write tore tells of one database entry and one      *)
(* cover: what apply_igdb_metadata, _apply_steam and merge_game write comes   *)
(* whole from one place.                                                      *)
THEOREM IdentitiesAgree == Spec => []IdentityAgrees
  <1>1. Init => IdentityAgrees
    BY CatalogAssumption DEF Init, IdentityAgrees, Exists, CatalogAssumption
  <1>2. IInv /\ IdentityAgrees /\ [Next]_catalogVars => IdentityAgrees'
    BY StepCases, OthersAgree, MergeAgrees, CatalogAssumption
  <1> QED BY <1>1, <1>2, CatalogInvariant, PTL DEF Spec

(* No step takes an external id out of the catalog, but for a link of its    *)
(* game to another (igdb_link_game) and for a merge that read the row before  *)
(* the id came to it (merge_game, which locks neither row).                   *)
THEOREM IdsSurvive == Spec => IdsKept
  <1>1. IInv /\ [Next]_catalogVars =>
          [\A g \in Games :
             games[g].ext # NoId /\ (\A h \in Games : games'[h].ext # games[g].ext) =>
               \/ \E p \in Procs : req[p].pc = "link" /\ req[p].game = g
                                   /\ req'[p] = Waiting
               \/ /\ merge # NoMerge /\ merge' = NoMerge
                  /\ \/ g = merge.source /\ games[g].ext # merge.sawSource.ext
                     \/ g = merge.target /\ games[g].ext # merge.sawTarget.ext]_catalogVars
    BY StepCases, OthersKeepIds, MergeKeepsId, CatalogAssumption DEF Relinked, OverlappedId
  <1> QED BY <1>1, CatalogInvariant, PTL DEF Spec, IdsKept

(* The answer of a user who accepted a game ends with the user's own request  *)
(* about it, with the game recognised, or with the game merged away, where it *)
(* goes to the target unless a row of the user's there wins                   *)
(* (mark_needs_review_inbox, ensure_inbox_for_user, clear_review_on_enriched, *)
(* merge_game).                                                               *)
THEOREM AnswersSurvive == Spec => ReviewAnswersKept
  <1>1. Init => AnswersTyped
    BY DEF Init, AnswersTyped, Answers
  <1>2. IInv /\ AnswersTyped /\ [Next]_catalogVars => AnswerStays
    BY StepCases, OthersKeepAnswers, MergeKeepsAnswers, CatalogAssumption
  <1>3. IInv /\ AnswersTyped /\ [Next]_catalogVars => AnswersTyped'
    BY <1>2 DEF AnswerStays
  <1>4. IInv /\ AnswersTyped /\ [Next]_catalogVars =>
          [\A u \in Users, g \in Games :
             prefs[u][g] = "accepted" =>
               \/ prefs'[u][g] = "accepted"
               \/ games'[g].status = "ENRICHED"
               \/ Answered(u, g) \/ MergedAway(u, g)]_catalogVars
    BY <1>2 DEF AnswerStays
  <1> QED BY <1>1, <1>3, <1>4, CatalogInvariant, PTL DEF Spec, ReviewAnswersKept

(* Every row, and every copy of one that a request or a merge is to write     *)
(* back, has the columns of a game; messages are retried within their bound.  *)
THEOREM CatalogTyped == Spec => []TypeOK
  <1>1. Init => WholeOK /\ CountsOK /\ AnswersTyped
    <2> SUFFICES ASSUME Init PROVE WholeOK /\ CountsOK /\ AnswersTyped
      OBVIOUS
    <2>1. \A g \in DOMAIN Seed : Seed[g].row \in Row
      <3>1. /\ Seed \in Seq([row : Row, names : SUBSET Names])
            /\ DOMAIN Seed = 1..Len(Seed)
        BY CatalogAssumption DEF CatalogAssumption
      <3>2. \A g \in DOMAIN Seed : Seed[g] \in [row : Row, names : SUBSET Names]
        BY <3>1, ElementOfSeq
      <3> QED BY <3>2
    <2>2. games \in [Games -> Row \cup {NoRow}]
      BY <2>1 DEF Init
    <2>3. \A p \in Procs : req[p].saw = NoRow /\ req[p].pc = "idle"
      BY DEF Init, Waiting
    <2>4. merge = NoMerge /\ NoMerge.sawSource = NoRow /\ NoMerge.sawTarget = NoRow
      BY DEF Init, NoMerge
    <2>5. WholeOK
      BY <2>2, <2>3, <2>4 DEF WholeOK
    <2>6. CountsOK /\ AnswersTyped
      BY CatalogAssumption DEF Init, CountsOK, AnswersTyped, Answers, CatalogAssumption
    <2> QED BY <2>5, <2>6
  <1>2. IInv /\ WholeOK /\ CountsOK /\ AnswersTyped /\ [Next]_catalogVars =>
          WholeOK' /\ CountsOK' /\ AnswersTyped'
    BY StepCases, OthersWhole, MergeWhole, CountsKept, OthersKeepAnswers, MergeKeepsAnswers,
       CatalogAssumption DEF AnswerStays
  <1>3. IInv /\ WholeOK /\ CountsOK /\ AnswersTyped => TypeOK
    <2> SUFFICES ASSUME IInv, WholeOK, CountsOK, AnswersTyped PROVE TypeOK
      OBVIOUS
    <2>1. /\ req \in [Procs -> RequestType] /\ merge \in MergeType
          /\ \A p \in Procs : req[p].saw \in Row \cup {NoRow}
          /\ {merge.sawSource, merge.sawTarget} \subseteq Row \cup {NoRow}
      BY DEF IInv, RequestsTyped, MergeOK, WholeOK
    <2>2. req \in [Procs -> [pc : {"idle", "start", "prefer", "link"}, user : Users \cup {None},
                            name : Names \cup {None}, game : {None} \cup Games,
                            saw : Row \cup {NoRow}]]
      BY <2>1 DEF RequestType
    <2>3. merge \in [source : {None} \cup Games, target : {None} \cup Games,
                     sawSource : Row \cup {NoRow}, sawTarget : Row \cup {NoRow},
                     names : SUBSET Names, users : SUBSET Users]
      BY <2>1 DEF MergeType
    <2> QED BY <2>2, <2>3 DEF TypeOK, IInv, WholeOK, CountsOK, AnswersTyped, RowsTyped, JobsTyped,
                               NamesTyped
  <1> QED BY <1>1, <1>2, <1>3, CatalogInvariant, PTL DEF Spec
=============================================================================
