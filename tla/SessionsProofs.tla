--------------------------- MODULE SessionsProofs ---------------------------
(* The safety of Sessions, for every instance of its constants.            *)
EXTENDS Sessions, SequenceTheorems, FiniteSetTheorems, TLAPS

-----------------------------------------------------------------------------
(* What the operators over session rows preserve, for every setting           *)

USE DEF NoTime

-----------------------------------------------------------------------------
(* What is stored is a row                                                 *)

\* The columns that hold instants hold integers.
LEMMA RowTimes ==
    ASSUME NEW r \in Row
    PROVE  r.start \in Int /\ r.end \in Int /\ r.trashed \in Int
<1>1. r.start \in Time /\ r.end \in Time /\ r.trashed \in Time
  BY DEF Row
<1>2. \A t \in Time : t \in Int
  BY DEF Time
<1> QED BY <1>1, <1>2

\* The absence of a row is well formed and good at any instant.
LEMMA NoRowGood ==
    ASSUME NEW at \in Nat
    PROVE  NoRow \in Row /\ RowOK(NoRow, at) /\ ~Open(NoRow) /\ ~Timeline(NoRow)
                /\ ~Exists(NoRow)
BY NamesAssumption DEF NoRow, Row, Time, RowOK, Exists, Open, Timeline, Trashed

\* start_session inserts a good open row.
LEMMA NewOpenRowGood ==
    ASSUME NEW at \in Nat, NEW game \in Games
    PROVE  /\ NewOpenRow(game, at) \in Row
           /\ RowOK(NewOpenRow(game, at), at)
           /\ NewOpenRow(game, at).game = game
<1> DEFINE s == NewOpenRow(game, at)
<1>1. s \in Row
  BY DEF NewOpenRow, NoRow, Row, Time
<1>2. /\ s.game = game /\ s.start = at /\ s.end = NoTime /\ s.status = "ONGOING"
         /\ s.source = "BOT" /\ ~s.flicker /\ s.trashed = NoTime
  BY DEF NewOpenRow, NoRow, Row
<1> HIDE DEF s
<1>3. RowOK(s, at)
  BY <1>1, <1>2 DEF RowOK, Exists, Open, Timeline, Trashed
<1> QED BY <1>1, <1>2, <1>3 DEF s

\* complete_session makes a good row of a good open row.
LEMMA CompletedGood ==
    ASSUME NEW at \in Nat, NEW r \in Row, RowOK(r, at), Open(r)
    PROVE  Completed(r, at) \in Row /\ RowOK(Completed(r, at), at)
                /\ ~Open(Completed(r, at))
<1> DEFINE s == Completed(r, at)
<1>1. s \in Row
  BY DEF Completed, Row, Time
<1>2. /\ s.game = r.game /\ s.start = r.start /\ s.end = at /\ s.status = "COMPLETED"
         /\ s.source = r.source /\ s.trashed = r.trashed
         /\ (s.flicker <=> r.source = "BOT" /\ IsShortFlicker(at - r.start))
  BY DEF Completed, Row
<1> HIDE DEF s
<1>3. RowOK(s, at) /\ ~Open(s)
  BY <1>1, <1>2 DEF RowOK, Exists, Open, Timeline, Trashed, IsShortFlicker, WithinBounds
<1> QED BY <1>1, <1>2, <1>3 DEF s

\* So does error_session, and the UPDATE of schedule_deletion.
LEMMA ErroredGood ==
    ASSUME NEW at \in Nat, NEW r \in Row, RowOK(r, at), Open(r)
    PROVE  Errored(r) \in Row /\ RowOK(Errored(r), at)
                /\ ~Open(Errored(r)) /\ ~Timeline(Errored(r))
<1> DEFINE s == Errored(r)
<1>1. s \in Row
  BY DEF Errored, Row, Time
<1>2. /\ s.game = r.game /\ s.start = r.start /\ s.end = r.end /\ s.status = "ERROR"
         /\ s.source = r.source /\ s.trashed = r.trashed /\ (s.flicker <=> r.flicker)
         /\ s.note = "error"
  BY DEF Errored, Row
<1> HIDE DEF s
<1>3. RowOK(s, at) /\ ~Open(s) /\ ~Timeline(s)
  BY <1>1, <1>2 DEF RowOK, Exists, Open, Timeline, Trashed, IsShortFlicker, WithinBounds
<1> QED BY <1>1, <1>2, <1>3 DEF s

\* What start_or_resume_session may claim is good when it is reopened.
LEMMA ResumedGood ==
    ASSUME NEW at \in Nat, NEW r \in Row, RowOK(r, at),
           r.status = "COMPLETED", r.source = "BOT", ~Trashed(r)
    PROVE  Resumed(r) \in Row /\ RowOK(Resumed(r), at)
                /\ Resumed(r).game = r.game /\ Resumed(r).start = r.start
<1> DEFINE s == Resumed(r)
<1>1. s \in Row
  BY DEF Resumed, Row, Time
<1>2. /\ s.game = r.game /\ s.start = r.start /\ s.end = NoTime /\ s.status = "ONGOING"
         /\ s.source = r.source /\ s.trashed = r.trashed /\ ~s.flicker
  BY DEF Resumed, Row
<1> HIDE DEF s
<1>3. r.start \in Int /\ r.end \in Int
  BY RowTimes
<1>4. r.start =< at
  <2>1. r.start =< r.end /\ r.end =< at
    BY DEF RowOK
  <2> QED BY <1>3, <2>1
<1>5. RowOK(s, at)
  BY <1>1, <1>2, <1>4 DEF RowOK, Exists, Trashed, IsShortFlicker, WithinBounds
<1> QED BY <1>1, <1>2, <1>5 DEF s

\* create_session inserts a good row if the bounds still hold.
LEMMA ManualRowGood ==
    ASSUME NEW at \in Nat, NEW game \in Games, NEW start \in Nat, NEW end \in Nat,
           WithinBounds(start, end, at, FALSE)
    PROVE  ManualRow(game, start, end) \in Row /\ RowOK(ManualRow(game, start, end), at)
                /\ ~Open(ManualRow(game, start, end))
<1> DEFINE s == ManualRow(game, start, end)
<1>1. s \in Row
  BY DEF ManualRow, NoRow, Row, Time
<1>2. /\ s.game = game /\ s.start = start /\ s.end = end /\ s.status = "COMPLETED"
         /\ s.source = "MANUAL" /\ s.trashed = NoTime /\ ~s.flicker
  BY DEF ManualRow, NoRow, Row
<1> HIDE DEF s
<1>3. RowOK(s, at) /\ ~Open(s)
  BY <1>1, <1>2 DEF RowOK, Exists, Open, Timeline, Trashed, IsShortFlicker, WithinBounds
<1> QED BY <1>1, <1>2, <1>3 DEF s

\* patch_session turns an ended row into a good row of the user's.
LEMMA RepairedGood ==
    ASSUME NEW at \in Nat, NEW r \in Row, RowOK(r, at), NEW end \in Nat,
           NEW leaving \in BOOLEAN, r.status \in {"COMPLETED", "ERROR"}, ~r.flicker,
           WithinBounds(r.start, end, at, FALSE)
    PROVE  Repaired(r, end, leaving) \in Row /\ RowOK(Repaired(r, end, leaving), at)
                /\ ~Open(Repaired(r, end, leaving))
<1> DEFINE s == Repaired(r, end, leaving)
<1>1. s \in Row
  BY DEF Repaired, Row, Time
<1>2. /\ s.game = r.game /\ s.start = r.start /\ s.end = end /\ s.status = "COMPLETED"
         /\ s.source = "MANUAL" /\ s.trashed = r.trashed /\ (s.flicker <=> r.flicker)
  BY DEF Repaired, Row
<1> HIDE DEF s
<1>3. RowOK(s, at) /\ ~Open(s)
  BY <1>1, <1>2 DEF RowOK, Exists, Open, Timeline, Trashed, IsShortFlicker, WithinBounds
<1> QED BY <1>1, <1>2, <1>3 DEF s

\* delete_session trashes a good ended row that is not hidden.
LEMMA TrashedGood ==
    ASSUME NEW at \in Nat, NEW r \in Row, RowOK(r, at),
           r.status \in {"COMPLETED", "ERROR"}, ~r.flicker
    PROVE  /\ [r EXCEPT !.trashed = at] \in Row
           /\ RowOK([r EXCEPT !.trashed = at], at)
           /\ ~Open([r EXCEPT !.trashed = at])
           /\ ~Timeline([r EXCEPT !.trashed = at])
<1> DEFINE s == [r EXCEPT !.trashed = at]
<1>1. s \in Row
  BY DEF Row, Time
<1>2. /\ s.game = r.game /\ s.start = r.start /\ s.end = r.end /\ s.status = r.status
         /\ s.source = r.source /\ s.trashed = at /\ (s.flicker <=> r.flicker)
         /\ s.note = r.note
  BY DEF Row
<1> HIDE DEF s
<1>3. RowOK(s, at) /\ ~Open(s) /\ ~Timeline(s)
  BY <1>1, <1>2 DEF RowOK, Exists, Open, Timeline, Trashed, IsShortFlicker, WithinBounds
<1> QED BY <1>1, <1>2, <1>3 DEF s

\* restore_session takes a good row out of the trash, and never an open one.
LEMMA RestoredGood ==
    ASSUME NEW at \in Nat, NEW r \in Row, RowOK(r, at)
    PROVE  /\ [r EXCEPT !.trashed = NoTime] \in Row
           /\ RowOK([r EXCEPT !.trashed = NoTime], at)
           /\ Open([r EXCEPT !.trashed = NoTime]) => Open(r)
<1> DEFINE s == [r EXCEPT !.trashed = NoTime]
<1>1. s \in Row
  BY DEF Row, Time
<1>2. /\ s.game = r.game /\ s.start = r.start /\ s.end = r.end /\ s.status = r.status
         /\ s.source = r.source /\ s.trashed = NoTime /\ (s.flicker <=> r.flicker)
         /\ s.note = r.note
  BY DEF Row
<1> HIDE DEF s
<1>3. RowOK(s, at) /\ (Open(s) => Open(r))
  BY <1>1, <1>2 DEF RowOK, Exists, Open, Timeline, Trashed, IsShortFlicker, WithinBounds
<1> QED BY <1>1, <1>2, <1>3 DEF s

\* The clock does not spoil a row.
LEMMA GoodLater ==
    ASSUME NEW at \in Nat, NEW later \in Nat, at =< later, NEW r \in Row, RowOK(r, at)
    PROVE  RowOK(r, later)
<1>1. r.start \in Int /\ r.end \in Int /\ r.trashed \in Int
  BY RowTimes
<1>2. WithinBounds(r.start, r.end, at, FALSE) => WithinBounds(r.start, r.end, later, FALSE)
  <2>1. FutureGrace \in Int
    BY SettingsAssumption
  <2>2. \A e \in Int : e =< at + FutureGrace => e =< later + FutureGrace
    BY <2>1
  <2> QED BY <1>1, <2>2 DEF WithinBounds
<1>3. \A t \in Int : t =< at => t =< later
  OBVIOUS
<1> QED BY <1>1, <1>2, <1>3 DEF RowOK, Trashed

\* Nor the bounds of a session that were checked before.
LEMMA BoundsLater ==
    ASSUME NEW at \in Nat, NEW later \in Nat, at =< later,
           NEW start \in Time, NEW end \in Time, NEW isCreate \in BOOLEAN,
           WithinBounds(start, end, at, isCreate)
    PROVE  WithinBounds(start, end, later, FALSE)
BY SettingsAssumption DEF WithinBounds, Time

-----------------------------------------------------------------------------
(* The constraints                                                         *)

\* The overlap of two ranges is symmetric.
LEMMA MeetSymmetric ==
    ASSUME NEW s1 \in Time, NEW e1 \in Time, NEW s2 \in Time, NEW e2 \in Time
    PROVE  RangesMeet(s1, e1, s2, e2) <=> RangesMeet(s2, e2, s1, e1)
BY DEF RangesMeet

\* A row both constraints accept can be stored.
LEMMA StoreKeepsLine ==
    ASSUME NEW table \in [Ids -> Row], OneLine(table), NEW i \in Ids, NEW r \in Row,
           RangeFree(table, i, r), OpenFree(table, i, r)
    PROVE  OneLine([table EXCEPT ![i] = r])
<1> DEFINE new == [table EXCEPT ![i] = r]
<1>1. \A j \in Ids : new[j] = IF j = i THEN r ELSE table[j]
  OBVIOUS
<1>2. ASSUME NEW j \in Ids PROVE OpenFree(new, j, new[j])
  BY <1>1 DEF OneLine, OpenFree
<1>3. ASSUME NEW j \in Ids, NEW k \in Ids \ {j}, Timeline(new[j]), Timeline(new[k])
      PROVE  ~RangesMeet(new[k].start, new[k].end, new[j].start, new[j].end)
  <2>1. new[j] \in Row /\ new[k] \in Row
    BY <1>1
  <2>2. new[j].start \in Time /\ new[j].end \in Time /\ new[k].start \in Time
           /\ new[k].end \in Time
    BY <2>1 DEF Row
  <2>3. CASE j = i
    BY <1>1, <1>3, <2>3 DEF RangeFree, Overlaps
  <2>4. CASE k = i
    <3>1. ~RangesMeet(new[j].start, new[j].end, new[k].start, new[k].end)
      BY <1>1, <1>3, <2>4 DEF RangeFree, Overlaps
    <3> QED BY <3>1, <2>2, MeetSymmetric
  <2>5. CASE j # i /\ k # i
    BY <1>1, <1>3, <2>5 DEF OneLine, RangeFree, Overlaps
  <2> QED BY <2>3, <2>4, <2>5
<1>4. ASSUME NEW j \in Ids PROVE RangeFree(new, j, new[j])
  BY <1>3 DEF RangeFree, Overlaps
<1> QED BY <1>2, <1>4 DEF OneLine

\* A row that covers no more of the timeline than the one it replaces.
Covers(r, s) ==
    /\ Open(s) => Open(r)
    /\ Timeline(s) => /\ Timeline(r) /\ s.start = r.start
                      /\ r.end = NoTime \/ s.end = r.end

\* Writes that only give up parts of the timeline need no check: this is why
\* closing, trashing and sweeping cannot raise an IntegrityError.
LEMMA ShrinkKeepsLine ==
    ASSUME NEW table \in [Ids -> Row], OneLine(table), NEW new \in [Ids -> Row],
           \A i \in Ids : Covers(table[i], new[i])
    PROVE  OneLine(new)
<1>1. ASSUME NEW j \in Ids PROVE OpenFree(new, j, new[j])
  BY DEF OneLine, OpenFree, Covers
<1>2. ASSUME NEW j \in Ids, NEW k \in Ids \ {j}, Timeline(new[j]), Timeline(new[k])
      PROVE  ~RangesMeet(new[k].start, new[k].end, new[j].start, new[j].end)
  <2>1. ~RangesMeet(table[k].start, table[k].end, table[j].start, table[j].end)
    BY <1>2 DEF OneLine, RangeFree, Overlaps, Covers
  <2> QED BY <1>2, <2>1 DEF RangesMeet, Covers
<1>3. ASSUME NEW j \in Ids PROVE RangeFree(new, j, new[j])
  BY <1>2 DEF RangeFree, Overlaps
<1> QED BY <1>1, <1>3 DEF OneLine

\* Unchanged, absent, completed and errored rows cover no more than before.
LEMMA CoversCases ==
    ASSUME NEW at \in Nat, NEW r \in Row, RowOK(r, at)
    PROVE  /\ Covers(r, r)
           /\ \A s : ~Open(s) /\ ~Timeline(s) => Covers(r, s)
           /\ Open(r) => Covers(r, Completed(r, at))
BY DEF Covers, Completed, Open, Timeline, Trashed, RowOK, Row

-----------------------------------------------------------------------------
(* What an observation means                                               *)

\* An activity string has a game or none.
LEMMA AliasType == \A name : AliasOf(name) \in Games \cup {NoGame}
BY NamesAssumption DEF AliasOf

\* A live observation that leaves the open row alone leaves it because it is
\* the game that was observed, and starts nothing beside it.
LEMMA LiveLeaves ==
    ASSUME NEW open \in Games, NEW before, NEW after, LiveEnding(open, before, after) = ""
    PROVE  LiveStart(open, before, after) = NoGame /\ open = AliasOf(after)
BY NamesAssumption DEF LiveEnding, LiveStart, Continues

\* So does the startup pass.
LEMMA StartupLeaves ==
    ASSUME NEW open \in Games, NEW after, StartupEnding(open, after) = ""
    PROVE  StartupStart(open, after) = NoGame /\ open = AliasOf(after)
BY NamesAssumption DEF StartupEnding, StartupStart

\* Whatever starts is the game that was observed.
LEMMA StartsWhatIsPlayed ==
    ASSUME NEW open \in Games \cup {NoGame}, NEW before, NEW after
    PROVE  /\ LiveStart(open, before, after) \in {NoGame, AliasOf(after)}
           /\ StartupStart(open, after) \in {NoGame, AliasOf(after)}
           /\ LiveEnding(open, before, after) \in {"", "COMPLETED", "ERROR"}
           /\ StartupEnding(open, after) \in {"", "COMPLETED", "ERROR"}
BY DEF LiveStart, StartupStart, LiveEnding, StartupEnding

HIDE DEF NoTime

-----------------------------------------------------------------------------
(* The inductive invariant                                                 *)

\* What the handler decided is still right when it gets to do it. Nobody else
\* opens a row, so the row it is about to end is the only one open, and the row
\* it may reopen is of the game it is about to start.
HandlerOK ==
    /\ bot.pc \in {"user", "open"} => bot.game = NoGame
    /\ bot.pc \in {"stitch", "resume", "start"} => bot.game # NoGame
    /\ bot.game # NoGame => bot.game = AliasOf(bot.job.after) /\ bot.user = "active"
    /\ bot.pc = "close" =>
            bot.row \in Ids /\ \A i \in Ids : Open(rows[i]) => i = bot.row
    /\ bot.pc = "resume" =>
            bot.row \in Ids /\ (Exists(rows[bot.row]) => rows[bot.row].game = bot.game)

\* What a request validated still holds when it writes: the bounds only widen
\* with the clock, a start is never edited, and a session that was long enough
\* to be seen stays so if the bot reopens and closes it in between.
PatchOK(r, end) ==
    Exists(r) =>
        /\ WithinBounds(r.start, end, now, FALSE)
        /\ ~r.flicker
        /\ r.status = "ONGOING" => ~IsShortFlicker(now - r.start)

RequestOK(a) ==
    /\ a.op \in {"patch", "delete", "hard", "restore"} => a.id \in Ids
    /\ a.op = "create" =>
            /\ a.game \in Games /\ a.start \in Nat /\ a.end \in Nat
            /\ WithinBounds(a.start, a.end, now, FALSE)
    /\ a.op = "patch" => a.end \in Nat /\ PatchOK(rows[a.id], a.end)

RequestsOK == \A q \in Reqs : RequestOK(req[q])

Safe == RowsOK /\ OneTimeline /\ StartFindsNoOpenRow /\ OpenRowIsSynced

IInv == TypeOK /\ Safe /\ HandlerOK /\ RequestsOK

-----------------------------------------------------------------------------
(* Writes by somebody other than the bot                                   *)

\* s is what became of row r, for whoever still holds its key.
Keeps(r, s) ==
    Exists(s) =>
        /\ Exists(r) /\ s.game = r.game /\ s.start = r.start
        /\ s.flicker => r.flicker
        /\ s.status = "ONGOING" => r.status = "ONGOING"

\* Good rows replace good rows, none opens, and a key in use keeps its meaning.
OthersWrite ==
    /\ rows' \in [Ids -> Row]
    /\ \A i \in Ids : RowOK(rows'[i], now)
    /\ OneLine(rows')
    /\ \A i \in Ids : Open(rows'[i]) => Open(rows[i])
    /\ \A i \in Ids \ Fresh : Keeps(rows[i], rows'[i])

\* Nothing written is a special case.
LEMMA NoWrite ==
    ASSUME TypeOK, Safe, UNCHANGED rows
    PROVE  OthersWrite
BY DEF TypeOK, Safe, RowsOK, OneTimeline, OthersWrite, Keeps

\* A statement over many rows that only shrinks what they cover.
LEMMA ShrinkingWrite ==
    ASSUME TypeOK, Safe, rows' \in [Ids -> Row],
           \A i \in Ids : /\ RowOK(rows'[i], now)
                          /\ Covers(rows[i], rows'[i])
                          /\ Keeps(rows[i], rows'[i])
    PROVE  OthersWrite
<1>1. OneLine(rows')
  BY ShrinkKeepsLine DEF TypeOK, Safe, OneTimeline
<1>2. \A i \in Ids : Open(rows'[i]) => Open(rows[i])
  BY DEF Covers
<1> QED BY <1>1, <1>2 DEF OthersWrite

\* One row that leaves the timeline.
LEMMA LeavingWrite ==
    ASSUME TypeOK, Safe, NEW i \in Ids, NEW r \in Row, RowOK(r, now),
           ~Open(r), ~Timeline(r), Keeps(rows[i], r), rows' = [rows EXCEPT ![i] = r]
    PROVE  OthersWrite
<1>1. rows' \in [Ids -> Row] /\ \A j \in Ids : rows'[j] = IF j = i THEN r ELSE rows[j]
  BY DEF TypeOK
<1>2. ASSUME NEW j \in Ids
      PROVE  RowOK(rows'[j], now) /\ Covers(rows[j], rows'[j]) /\ Keeps(rows[j], rows'[j])
  <2>1. CASE j = i
    BY <1>1, <2>1 DEF Covers
  <2>2. CASE j # i
    BY <1>1, <2>2 DEF Covers, Keeps, Safe, RowsOK
  <2> QED BY <2>1, <2>2
<1> QED BY <1>1, <1>2, ShrinkingWrite

\* One row, subject to the constraints.
LEMMA StoreWrite ==
    ASSUME TypeOK, Safe, NEW i \in Ids, NEW r \in Row, RowOK(r, now),
           Open(r) => Open(rows[i]), i \in Fresh \/ Keeps(rows[i], r), Store(i, r)
    PROVE  OthersWrite
<1>1. CASE UNCHANGED rows
  BY <1>1, NoWrite
<1>2. CASE OpenFree(rows, i, r) /\ RangeFree(rows, i, r) /\ rows' = [rows EXCEPT ![i] = r]
  <2>1. rows' \in [Ids -> Row] /\ \A j \in Ids : rows'[j] = IF j = i THEN r ELSE rows[j]
    BY <1>2 DEF TypeOK
  <2>2. OneLine(rows')
    BY <1>2, StoreKeepsLine DEF TypeOK, Safe, OneTimeline
  <2>3. \A j \in Ids : RowOK(rows'[j], now)
    BY <2>1 DEF Safe, RowsOK
  <2>4. \A j \in Ids : Open(rows'[j]) => Open(rows[j])
    BY <2>1
  <2>5. \A j \in Ids \ Fresh : Keeps(rows[j], rows'[j])
    BY <2>1 DEF Keeps
  <2> QED BY <2>1, <2>2, <2>3, <2>4, <2>5 DEF OthersWrite
<1> QED BY <1>1, <1>2 DEF Store

\* What others write does not invalidate what the handler and the remaining
\* requests hold on to.
LEMMA OthersKeepSafe ==
    ASSUME IInv, OthersWrite, UNCHANGED <<now, bot, synced>>
    PROVE  Safe' /\ HandlerOK'
<1>1. \A i \in Ids : Exists(rows[i]) => i \notin Fresh
  BY DEF Fresh
<1>2. \A i \in Ids : Open(rows'[i]) => rows'[i].game = rows[i].game /\ Open(rows[i])
  BY <1>1 DEF OthersWrite, Keeps, Open, Exists
<1>3. RowsOK' /\ OneTimeline'
  BY DEF OthersWrite, RowsOK, OneTimeline
<1>4. StartFindsNoOpenRow'
  BY <1>2 DEF IInv, Safe, StartFindsNoOpenRow
<1>5. OpenRowIsSynced'
  BY <1>2 DEF IInv, Safe, OpenRowIsSynced
<1>6. bot.pc = "resume" =>
        (Exists(rows'[bot.row]) => rows'[bot.row].game = bot.game)
  BY DEF IInv, HandlerOK, OthersWrite, Keeps, Fresh
<1>7. HandlerOK'
  BY <1>2, <1>6 DEF IInv, HandlerOK
<1> QED BY <1>3, <1>4, <1>5, <1>7 DEF Safe

\* A request that goes on keeps what it validated through the writes of others.
LEMMA OthersKeepRequests ==
    ASSUME IInv, OthersWrite, UNCHANGED now, NEW q \in Reqs, req'[q] = req[q]
    PROVE  RequestOK(req[q])'
<1>1. RequestOK(req[q])
  BY DEF IInv, RequestsOK
<1>2. CASE req[q].op # "patch"
  BY <1>1, <1>2 DEF RequestOK
<1>3. CASE req[q].op = "patch"
  <2>1. req[q].id \in Ids \ Fresh
    BY <1>1, <1>3 DEF RequestOK, Fresh
  <2>2. Keeps(rows[req[q].id], rows'[req[q].id])
    BY <2>1 DEF OthersWrite
  <2>3. PatchOK(rows[req[q].id], req[q].end)'
    BY <1>1, <1>3, <2>2 DEF RequestOK, PatchOK, Keeps
  <2> QED BY <1>1, <1>3, <2>3 DEF RequestOK
<1> QED BY <1>2, <1>3

-----------------------------------------------------------------------------
(* Requests                                                                *)

\* An answered request holds on to nothing.
LEMMA AnsweredOK == RequestOK(NoReq) /\ RequestOK(NoReq)' /\ NoReq \in Req
BY DEF RequestOK, NoReq, Req, Time

\* The write of a request and its answer.
LEMMA CommitStep ==
    ASSUME IInv, NEW q \in Reqs, OthersWrite, Ends(q), UNCHANGED <<now, userVars, botVars>>
    PROVE  IInv'
<1>1. req' \in [Reqs -> Req] /\ \A p \in Reqs : req'[p] = IF p = q THEN NoReq ELSE req[p]
  BY AnsweredOK DEF IInv, TypeOK, Ends
<1>2. ASSUME NEW p \in Reqs PROVE RequestOK(req[p])'
  <2>1. CASE p = q
    BY <1>1, <2>1, AnsweredOK DEF RequestOK, NoReq
  <2>2. CASE p # q
    <3>1. req'[p] = req[p]
      BY <1>1, <2>2
    <3> QED BY <3>1, OthersKeepRequests DEF botVars
  <2> QED BY <2>1, <2>2
<1>3. Safe' /\ HandlerOK'
  BY OthersKeepSafe DEF botVars
<1>4. TypeOK'
  BY <1>1 DEF IInv, TypeOK, OthersWrite, userVars, botVars
<1> QED BY <1>2, <1>3, <1>4 DEF IInv, RequestsOK

\* The reads of a request.
LEMMA BeginStep ==
    ASSUME IInv, NEW q \in Reqs, NEW a \in Req, RequestOK(a),
           req' = [req EXCEPT ![q] = a], UNCHANGED <<rows, now, userVars, botVars>>
    PROVE  IInv'
<1>1. req' \in [Reqs -> Req] /\ \A p \in Reqs : req'[p] = IF p = q THEN a ELSE req[p]
  BY DEF IInv, TypeOK
<1>2. \A p \in Reqs : RequestOK(req[p])'
  BY <1>1 DEF IInv, RequestsOK, RequestOK, PatchOK
<1>3. TypeOK'
  BY <1>1 DEF IInv, TypeOK, userVars, botVars
<1>4. Safe' /\ HandlerOK'
  BY DEF IInv, Safe, HandlerOK, RowsOK, OneTimeline, StartFindsNoOpenRow,
         OpenRowIsSynced, botVars
<1> QED BY <1>2, <1>3, <1>4 DEF IInv, RequestsOK

\* The instants requests are made of are natural numbers.
LEMMA InputTimesNat == InputTimes \subseteq Nat
BY SettingsAssumption, InstanceAssumption DEF InputTimes

\* create_session has validated bounds that still hold when it inserts.
LEMMA CreateBeginStep == ASSUME IInv, NEW q \in Reqs, CreateBegin(q) PROVE IInv'
<1>1. PICK g \in Games, s \in InputTimes, e \in InputTimes :
        /\ WithinBounds(s, e, now, TRUE)
        /\ req' = [req EXCEPT ![q] =
                [NoReq EXCEPT !.op = "create", !.game = g, !.start = s, !.end = e]]
  BY DEF CreateBegin
<1> DEFINE a == [NoReq EXCEPT !.op = "create", !.game = g, !.start = s, !.end = e]
<1>2. s \in Nat /\ e \in Nat /\ now \in Nat
  BY InputTimesNat DEF IInv, TypeOK
<1>3. a \in Req /\ a.op = "create" /\ a.game = g /\ a.start = s /\ a.end = e
  BY <1>2 DEF NoReq, Req, Time
<1>4. WithinBounds(s, e, now, FALSE)
  BY <1>1 DEF WithinBounds
<1> HIDE DEF a
<1>5. RequestOK(a)
  BY <1>2, <1>3, <1>4 DEF RequestOK
<1> QED BY <1>1, <1>3, <1>5, BeginStep DEF CreateBegin, a

\* create_session stores a good row that is never open, or nothing.
LEMMA CreateCommitStep == ASSUME IInv, NEW q \in Reqs, CreateCommit(q) PROVE IInv'
<1> DEFINE r == ManualRow(req[q].game, req[q].start, req[q].end)
<1>1. RequestOK(req[q]) /\ now \in Nat /\ req[q].op = "create"
  BY DEF IInv, TypeOK, RequestsOK, CreateCommit
<1>2. r \in Row /\ RowOK(r, now) /\ ~Open(r)
  BY <1>1, ManualRowGood DEF RequestOK
<1> HIDE DEF r
<1>3. CASE UNCHANGED rows
  BY <1>3, NoWrite, CommitStep DEF CreateCommit, IInv
<1>4. ASSUME NEW i \in Fresh, Store(i, r) PROVE OthersWrite
  <2>1. i \in Ids
    BY DEF Fresh
  <2> QED BY <1>2, <1>4, <2>1, StoreWrite DEF IInv
<1> QED BY <1>3, <1>4, CommitStep DEF CreateCommit, r

\* patch_session has validated an end for a row that is not hidden and has ended.
LEMMA PatchBeginStep == ASSUME IInv, NEW q \in Reqs, PatchBegin(q) PROVE IInv'
<1>1. PICK i \in Ids, e \in InputTimes :
        /\ Exists(rows[i]) /\ ~rows[i].flicker
        /\ rows[i].status # "ONGOING"
        /\ WithinBounds(rows[i].start, e, now, FALSE)
        /\ req' = [req EXCEPT ![q] =
                [NoReq EXCEPT !.op = "patch", !.id = i, !.end = e,
                              !.trashed = Trashed(rows[i]),
                              !.leaving = rows[i].status = "ERROR"]]
  BY DEF PatchBegin
<1> DEFINE a == [NoReq EXCEPT !.op = "patch", !.id = i, !.end = e,
                              !.trashed = Trashed(rows[i]),
                              !.leaving = rows[i].status = "ERROR"]
<1>2. e \in Nat
  BY InputTimesNat
<1>3. a \in Req /\ a.op = "patch" /\ a.id = i /\ a.end = e
  BY <1>2 DEF NoReq, Req, Time, Trashed
<1> HIDE DEF a
<1>4. RequestOK(a)
  BY <1>1, <1>2, <1>3 DEF RequestOK, PatchOK
<1> QED BY <1>1, <1>3, <1>4, BeginStep DEF PatchBegin, a

\* patch_session repairs the row it validated, whatever happened to it since, or writes nothing.
LEMMA PatchCommitStep == ASSUME IInv, NEW q \in Reqs, PatchCommit(q) PROVE IInv'
<1> DEFINE i == req[q].id
           r == rows[i]
           s == Repaired(r, req[q].end, req[q].leaving)
<1>1. RequestOK(req[q]) /\ now \in Nat /\ req[q].op = "patch" /\ req[q] \in Req
  BY DEF IInv, TypeOK, RequestsOK, PatchCommit
<1>2. i \in Ids /\ r \in Row /\ RowOK(r, now) /\ req[q].end \in Nat
        /\ req[q].leaving \in BOOLEAN
  BY <1>1 DEF RequestOK, IInv, TypeOK, Safe, RowsOK, Req
<1>3. CASE UNCHANGED rows
  BY <1>3, NoWrite, CommitStep DEF PatchCommit, IInv
<1>4. ASSUME r.status \in {"COMPLETED", "ERROR"}, Store(i, s) PROVE OthersWrite
  <2>1. WithinBounds(r.start, req[q].end, now, FALSE) /\ ~r.flicker
    BY <1>1, <1>4 DEF RequestOK, PatchOK, Exists
  <2>2. s \in Row /\ RowOK(s, now) /\ ~Open(s)
    BY <1>1, <1>2, <1>4, <2>1, RepairedGood
  <2>3. Keeps(r, s)
    BY <1>2, <1>4 DEF Repaired, Keeps, Exists, Row
  <2> HIDE DEF s, i
  <2> QED BY <1>2, <1>4, <2>2, <2>3, StoreWrite DEF IInv
<1> QED BY <1>3, <1>4, CommitStep DEF PatchCommit

\* delete_session remembers only a key.
LEMMA DeleteBeginStep == ASSUME IInv, NEW q \in Reqs, DeleteBegin(q) PROVE IInv'
<1>1. PICK i \in Ids : req' = [req EXCEPT ![q] = [NoReq EXCEPT !.op = "delete", !.id = i]]
  BY DEF DeleteBegin
<1> DEFINE a == [NoReq EXCEPT !.op = "delete", !.id = i]
<1>2. a \in Req /\ a.op = "delete" /\ a.id = i
  BY DEF NoReq, Req, Time
<1> HIDE DEF a
<1> QED BY <1>1, <1>2, BeginStep DEF DeleteBegin, RequestOK, a

\* delete_session trashes what has ended and is not hidden.
LEMMA DeleteCommitStep == ASSUME IInv, NEW q \in Reqs, DeleteCommit(q) PROVE IInv'
<1> DEFINE i == req[q].id
           r == rows[i]
           s == [r EXCEPT !.trashed = now]
<1>1. RequestOK(req[q]) /\ now \in Nat /\ req[q].op = "delete"
  BY DEF IInv, TypeOK, RequestsOK, DeleteCommit
<1>2. i \in Ids /\ r \in Row /\ RowOK(r, now)
  BY <1>1 DEF RequestOK, IInv, TypeOK, Safe, RowsOK
<1>3. CASE UNCHANGED rows
  BY <1>3, NoWrite, CommitStep DEF DeleteCommit, IInv
<1>4. ASSUME r.status \in {"COMPLETED", "ERROR"}, ~r.flicker,
             rows' = [rows EXCEPT ![i] = s]
      PROVE  OthersWrite
  <2>1. s \in Row /\ RowOK(s, now) /\ ~Open(s) /\ ~Timeline(s)
    BY <1>1, <1>2, <1>4, TrashedGood
  <2>2. Keeps(r, s)
    BY <1>2 DEF Keeps, Exists, Row
  <2> HIDE DEF s, i
  <2> QED BY <1>2, <1>4, <2>1, <2>2, LeavingWrite DEF IInv
<1>5. [rows EXCEPT ![i].trashed = now] = [rows EXCEPT ![i] = s]
  OBVIOUS
<1> QED BY <1>3, <1>4, <1>5, CommitStep DEF DeleteCommit

\* So does delete_session with ?hard=true.
LEMMA HardBeginStep == ASSUME IInv, NEW q \in Reqs, HardBegin(q) PROVE IInv'
<1>1. PICK i \in Ids : req' = [req EXCEPT ![q] = [NoReq EXCEPT !.op = "hard", !.id = i]]
  BY DEF HardBegin
<1> DEFINE a == [NoReq EXCEPT !.op = "hard", !.id = i]
<1>2. a \in Req /\ a.op = "hard" /\ a.id = i
  BY DEF NoReq, Req, Time
<1> HIDE DEF a
<1> QED BY <1>1, <1>2, BeginStep DEF HardBegin, RequestOK, a

\* The DELETE by primary key removes one row, whatever it has become.
LEMMA HardCommitStep == ASSUME IInv, NEW q \in Reqs, HardCommit(q) PROVE IInv'
<1>1. RequestOK(req[q]) /\ now \in Nat /\ req[q].op = "hard"
  BY DEF IInv, TypeOK, RequestsOK, HardCommit
<1>2. req[q].id \in Ids
  BY <1>1 DEF RequestOK
<1>3. OthersWrite
  BY <1>1, <1>2, NoRowGood, LeavingWrite DEF HardCommit, IInv, Keeps
<1> QED BY <1>3, CommitStep DEF HardCommit

\* restore_session remembers only a key.
LEMMA RestoreBeginStep == ASSUME IInv, NEW q \in Reqs, RestoreBegin(q) PROVE IInv'
<1>1. PICK i \in Ids : req' = [req EXCEPT ![q] = [NoReq EXCEPT !.op = "restore", !.id = i]]
  BY DEF RestoreBegin
<1> DEFINE a == [NoReq EXCEPT !.op = "restore", !.id = i]
<1>2. a \in Req /\ a.op = "restore" /\ a.id = i
  BY DEF NoReq, Req, Time
<1> HIDE DEF a
<1> QED BY <1>1, <1>2, BeginStep DEF RestoreBegin, RequestOK, a

\* restore_session opens nothing: no ONGOING row is ever in the trash.
LEMMA RestoreCommitStep == ASSUME IInv, NEW q \in Reqs, RestoreCommit(q) PROVE IInv'
<1> DEFINE i == req[q].id
           r == rows[i]
           s == [r EXCEPT !.trashed = NoTime]
<1>1. RequestOK(req[q]) /\ now \in Nat /\ req[q].op = "restore"
  BY DEF IInv, TypeOK, RequestsOK, RestoreCommit
<1>2. i \in Ids /\ r \in Row /\ RowOK(r, now)
  BY <1>1 DEF RequestOK, IInv, TypeOK, Safe, RowsOK
<1>3. CASE UNCHANGED rows
  BY <1>3, NoWrite, CommitStep DEF RestoreCommit, IInv
<1>4. ASSUME Exists(r), Store(i, s) PROVE OthersWrite
  <2>1. s \in Row /\ RowOK(s, now) /\ (Open(s) => Open(r))
    BY <1>1, <1>2, RestoredGood
  <2>2. Keeps(r, s)
    BY <1>2, <1>4 DEF Keeps, Exists, Row
  <2> HIDE DEF s, i
  <2> QED BY <1>2, <1>4, <2>1, <2>2, StoreWrite DEF IInv
<1> QED BY <1>3, <1>4, CommitStep DEF RestoreCommit

-----------------------------------------------------------------------------
(* The gateway, account deletion, the nightly tasks and the clock          *)

\* Nothing but the types can change when rows, clock, handler and requests stay.
LEMMA QuietStep ==
    ASSUME IInv, UNCHANGED <<rows, now, bot, synced, req>>, TypeOK'
    PROVE  IInv'
BY DEF IInv, Safe, HandlerOK, RowsOK, OneTimeline, StartFindsNoOpenRow, OpenRowIsSynced,
       RequestsOK, RequestOK, PatchOK

\* What is queued and the idle handler are well formed.
LEMMA JobTypes ==
    /\ \A b \in Names \cup {Idle}, a \in Observed : Presence(b, a) \in Job
    /\ [kind |-> "scan", before |-> Idle, after |-> Idle] \in Job
    /\ NoJob \in Job
    /\ IdleBot \in Bot /\ IdleBot.pc = "idle" /\ IdleBot.game = NoGame
BY DEF Presence, Job, Observed, NoJob, IdleBot, Bot

\* The gateway touches the cache and the queue only.
LEMMA GatewayStep ==
    ASSUME IInv, ActivityChange \/ DuplicatedChange \/ Redelivery \/ SilentChange \/ StartupScan
    PROVE  IInv'
<1>1. activity # Absent => activity \in Names \cup {Idle}
  BY DEF IInv, TypeOK, Observed
<1>2. \A a \in Observed : activity # Absent => Presence(activity, a) \in Job
  BY <1>1, JobTypes
<1>3. Idle \in Observed /\ Names \subseteq Observed
  BY DEF Observed
<1>4. \A j \in Job : Append(inbox, j) \in Seq(Job)
  BY DEF IInv, TypeOK
<1>5. \A j \in Job : Append(Append(inbox, j), j) \in Seq(Job)
  BY <1>4
<1>6. CASE ActivityChange
  BY <1>2, <1>3, <1>4, <1>6, QuietStep DEF ActivityChange, IInv, TypeOK, userVars
<1>7. CASE DuplicatedChange
  BY <1>2, <1>3, <1>5, <1>7, QuietStep DEF DuplicatedChange, IInv, TypeOK, userVars
<1>8. CASE Redelivery
  <2>1. Presence(Idle, activity) \in Job
    BY <1>8, JobTypes DEF Redelivery, Observed
  <2> QED BY <1>4, <1>8, <2>1, QuietStep DEF Redelivery, IInv, TypeOK, userVars
<1>9. CASE SilentChange
  BY <1>9, QuietStep DEF SilentChange, IInv, TypeOK, userVars
<1>10. CASE StartupScan
  BY <1>4, <1>10, JobTypes, QuietStep DEF StartupScan, IInv, TypeOK, userVars
<1> QED BY <1>6, <1>7, <1>8, <1>9, <1>10

\* A new process knows nothing and keeps what was committed.
LEMMA RestartStep == ASSUME IInv, Restart PROVE IInv'
<1>1. TypeOK'
  <2>1. <<>> \in Seq(Job)
    OBVIOUS
  <2> QED BY <2>1, JobTypes DEF Restart, IInv, TypeOK, userVars
<1>2. HandlerOK' /\ StartFindsNoOpenRow' /\ OpenRowIsSynced'
  BY JobTypes DEF Restart, HandlerOK, StartFindsNoOpenRow, OpenRowIsSynced
<1>3. RowsOK' /\ OneTimeline' /\ RequestsOK'
  BY DEF Restart, IInv, Safe, RowsOK, OneTimeline, RequestsOK, RequestOK, PatchOK
<1> QED BY <1>1, <1>2, <1>3 DEF IInv, Safe

\* A write outside the bot and outside any request.
LEMMA BackgroundStep ==
    ASSUME IInv, OthersWrite, UNCHANGED <<now, botVars, req>>,
           account' \in {"active", "scheduled", "gone"}, purgeAt' \in Time
    PROVE  IInv'
<1>1. TypeOK'
  BY DEF IInv, TypeOK, OthersWrite, botVars
<1>2. Safe' /\ HandlerOK'
  BY OthersKeepSafe DEF botVars
<1>3. RequestsOK'
  BY OthersKeepRequests DEF RequestsOK
<1> QED BY <1>1, <1>2, <1>3 DEF IInv

\* schedule_deletion and the purge close or remove rows; the others write none.
LEMMA AccountStep ==
    ASSUME IInv, ScheduleDeletion \/ CancelDeletion \/ PurgeAccount \/ Register
    PROVE  IInv'
<1>1. now \in Nat /\ purgeAt \in Time /\ NoTime \in Time
  BY DEF IInv, TypeOK, Time
<1>2. CASE ScheduleDeletion
  <2>1. now + DeletionGrace \in Time
    BY <1>1, InstanceAssumption DEF Time
  <2>2. ASSUME NEW i \in Ids
        PROVE  /\ rows'[i] \in Row /\ RowOK(rows'[i], now)
               /\ Covers(rows[i], rows'[i]) /\ Keeps(rows[i], rows'[i])
    <3>1. rows[i] \in Row /\ RowOK(rows[i], now)
      BY DEF IInv, TypeOK, Safe, RowsOK
    <3>2. CASE Open(rows[i])
      <4>1. rows'[i] = Errored(rows[i])
        BY <1>2, <3>2 DEF ScheduleDeletion
      <4>2. Keeps(rows[i], Errored(rows[i]))
        BY <3>1, <3>2 DEF Keeps, Errored, Exists, Open, Row
      <4> QED BY <1>1, <3>1, <3>2, <4>1, <4>2, ErroredGood DEF Covers
    <3>3. CASE ~Open(rows[i])
      <4>1. rows'[i] = rows[i]
        BY <1>2, <3>3 DEF ScheduleDeletion
      <4> QED BY <3>1, <4>1 DEF Covers, Keeps
    <3> QED BY <3>2, <3>3
  <2>3. rows' \in [Ids -> Row]
    BY <1>2, <2>2 DEF ScheduleDeletion
  <2>4. OthersWrite
    BY <2>2, <2>3, ShrinkingWrite DEF IInv
  <2> QED BY <1>2, <2>1, <2>4, BackgroundStep DEF ScheduleDeletion
<1>3. CASE CancelDeletion
  BY <1>1, <1>3, NoWrite, BackgroundStep DEF CancelDeletion, IInv
<1>4. CASE PurgeAccount
  <2>1. rows' \in [Ids -> Row]
    BY <1>1, <1>4, NoRowGood DEF PurgeAccount
  <2>2. \A i \in Ids : rows'[i] = NoRow
    BY <1>4 DEF PurgeAccount
  <2>3. OthersWrite
    BY <1>1, <2>1, <2>2, NoRowGood, ShrinkingWrite DEF IInv, Covers, Keeps
  <2> QED BY <1>1, <1>4, <2>3, BackgroundStep DEF PurgeAccount
<1>5. CASE Register
  BY <1>1, <1>5, NoWrite, BackgroundStep DEF Register, IInv
<1> QED BY <1>2, <1>3, <1>4, <1>5

\* A sweep only removes rows.
LEMMA SweepStep == ASSUME IInv, NEW selected, Sweep(selected) PROVE IInv'
<1>1. now \in Nat
  BY DEF IInv, TypeOK
<1>2. rows' \in [Ids -> Row]
  BY <1>1, NoRowGood DEF Sweep, IInv, TypeOK
<1>3. \A i \in Ids : rows'[i] = NoRow \/ rows'[i] = rows[i]
  BY DEF Sweep
<1>4. OthersWrite
  BY <1>1, <1>2, <1>3, NoRowGood, ShrinkingWrite DEF IInv, Safe, RowsOK, Covers, Keeps
<1> QED BY <1>4, BackgroundStep DEF Sweep, userVars, IInv, TypeOK

\* Time passing spoils neither a row nor what a request has validated.
LEMMA TickStep == ASSUME IInv, Tick PROVE IInv'
<1>1. now \in Nat /\ now' \in Nat /\ now =< now'
  BY DEF IInv, TypeOK, Tick
<1>2. RowsOK'
  BY <1>1, GoodLater DEF IInv, TypeOK, Safe, RowsOK, Tick
<1>3. TypeOK' /\ HandlerOK' /\ OneTimeline' /\ StartFindsNoOpenRow' /\ OpenRowIsSynced'
  BY <1>1 DEF Tick, IInv, TypeOK, Safe, HandlerOK, OneTimeline, StartFindsNoOpenRow,
              OpenRowIsSynced, userVars, botVars
<1>4. ASSUME NEW q \in Reqs PROVE RequestOK(req[q])'
  <2>1. RequestOK(req[q]) /\ req' = req /\ rows' = rows /\ req[q] \in Req
    BY DEF IInv, TypeOK, RequestsOK, Tick
  <2>2. req[q].start \in Time /\ req[q].end \in Time
    BY <2>1 DEF Req
  <2>3. req[q].op = "create" => WithinBounds(req[q].start, req[q].end, now', FALSE)
    BY <1>1, <2>1, <2>2, BoundsLater DEF RequestOK
  <2>4. ASSUME req[q].op = "patch" PROVE PatchOK(rows[req[q].id], req[q].end)'
    <3> DEFINE r == rows[req[q].id]
    <3>1. r \in Row /\ PatchOK(r, req[q].end)
      BY <2>1, <2>4 DEF RequestOK, IInv, TypeOK
    <3>2. r.start \in Time /\ r.start \in Int
      BY <3>1, RowTimes DEF Row
    <3>3. WithinBounds(r.start, req[q].end, now, FALSE)
            => WithinBounds(r.start, req[q].end, now', FALSE)
      BY <1>1, <2>2, <3>2, BoundsLater
    <3>4. ~IsShortFlicker(now - r.start) => ~IsShortFlicker(now' - r.start)
      BY <1>1, <3>2, SettingsAssumption DEF IsShortFlicker
    <3> QED BY <2>1, <3>1, <3>3, <3>4 DEF PatchOK
  <2> QED BY <2>1, <2>3, <2>4 DEF RequestOK
<1> QED BY <1>2, <1>3, <1>4 DEF IInv, Safe, RequestsOK

-----------------------------------------------------------------------------
(* The handler under the user lock                                         *)

\* Neither ending nor reopening a row makes a validated edit of it invalid: an
\* ended row is hidden only if it was short when the edit was validated.
LEMMA PatchAfterBot ==
    ASSUME now \in Nat, NEW r \in Row, RowOK(r, now), NEW e, PatchOK(r, e)
    PROVE  /\ Open(r) => PatchOK(Completed(r, now), e) /\ PatchOK(Errored(r), e)
           /\ r.status = "COMPLETED" /\ r.source = "BOT" => PatchOK(Resumed(r), e)
<1>1. r.start \in Int /\ r.end \in Int
  BY RowTimes
<1>2. ASSUME Open(r) PROVE PatchOK(Completed(r, now), e)
  <2>1. /\ Completed(r, now).start = r.start /\ Completed(r, now).status = "COMPLETED"
        /\ Completed(r, now).flicker
             <=> r.source = "BOT" /\ IsShortFlicker(now - r.start)
    BY DEF Completed, Row
  <2>2. WithinBounds(r.start, e, now, FALSE) /\ ~IsShortFlicker(now - r.start)
    BY <1>2 DEF PatchOK, Open, Exists
  <2> QED BY <2>1, <2>2 DEF PatchOK
<1>3. ASSUME Open(r) PROVE PatchOK(Errored(r), e)
  <2>1. /\ Errored(r).start = r.start /\ Errored(r).status = "ERROR"
        /\ Errored(r).flicker <=> r.flicker
    BY DEF Errored, Row
  <2> QED BY <1>3, <2>1 DEF PatchOK, Open, Exists
<1>4. ASSUME r.status = "COMPLETED", r.source = "BOT" PROVE PatchOK(Resumed(r), e)
  <2>1. Resumed(r).start = r.start /\ ~Resumed(r).flicker
    BY DEF Resumed, Row
  <2>2. WithinBounds(r.start, e, now, FALSE) /\ ~r.flicker
    BY <1>4 DEF PatchOK, Exists
  <2>3. r.end =< now /\ ~IsShortFlicker(r.end - r.start)
    BY <1>4, <2>2 DEF RowOK
  <2>4. ~IsShortFlicker(now - r.start)
    BY <1>1, <2>3, SettingsAssumption DEF IsShortFlicker
  <2> QED BY <2>1, <2>2, <2>4 DEF PatchOK
<1> QED BY <1>2, <1>3, <1>4

\* The requests in flight survive a write of the bot.
LEMMA BotKeepsRequests ==
    ASSUME IInv, UNCHANGED <<now, req>>,
           \A i \in Ids \ Fresh : \A e : PatchOK(rows[i], e) => PatchOK(rows'[i], e)
    PROVE  RequestsOK'
<1>1. ASSUME NEW q \in Reqs PROVE RequestOK(req[q])'
  <2>1. RequestOK(req[q])
    BY DEF IInv, RequestsOK
  <2>2. CASE req[q].op # "patch"
    BY <2>1, <2>2 DEF RequestOK
  <2>3. CASE req[q].op = "patch"
    <3>1. req[q].id \in Ids \ Fresh
      BY <2>1, <2>3 DEF RequestOK, Fresh
    <3>2. PatchOK(rows'[req[q].id], req[q].end)
      BY <2>1, <2>3, <3>1 DEF RequestOK
    <3>3. PatchOK(rows[req[q].id], req[q].end)'
      BY <3>2 DEF PatchOK
    <3> QED BY <2>1, <2>3, <3>3 DEF RequestOK
  <2> QED BY <2>2, <2>3
<1> QED BY <1>1 DEF RequestsOK

\* The handler is done, and what is open is what it has seen.
LEMMA FinishOK ==
    ASSUME IInv, Finish,
           \A i \in Ids : Open(rows'[i]) => rows'[i].game = AliasOf(bot.job.after)
    PROVE  /\ HandlerOK' /\ StartFindsNoOpenRow' /\ OpenRowIsSynced'
           /\ bot' \in Bot /\ synced' \in Observed \cup {Unknown}
           /\ scan' \in {"todo", "listed", "done"}
<1>1. bot.job.after \in Observed
  BY DEF IInv, TypeOK, Bot, Job
<1>2. bot' \in Bot /\ bot'.pc = "idle" /\ bot'.game = NoGame
  BY JobTypes DEF Finish
<1>3. synced' \in Observed \cup {Unknown} /\ scan' \in {"todo", "listed", "done"}
  BY <1>1 DEF Finish, IInv, TypeOK
<1>4. HandlerOK' /\ StartFindsNoOpenRow'
  BY <1>2 DEF HandlerOK, StartFindsNoOpenRow
<1>5. OpenRowIsSynced'
  BY DEF Finish, OpenRowIsSynced
<1> QED BY <1>2, <1>3, <1>4, <1>5

\* The handler dies, and nothing is known.
LEMMA RaiseOK ==
    ASSUME IInv, Raise
    PROVE  /\ HandlerOK' /\ StartFindsNoOpenRow' /\ OpenRowIsSynced'
           /\ bot' \in Bot /\ synced' \in Observed \cup {Unknown}
           /\ scan' \in {"todo", "listed", "done"}
<1>1. bot' \in Bot /\ bot'.pc = "idle" /\ bot'.game = NoGame
  BY JobTypes DEF Raise
<1>2. HandlerOK' /\ StartFindsNoOpenRow'
  BY <1>1 DEF HandlerOK, StartFindsNoOpenRow
<1>3. OpenRowIsSynced' /\ scan' \in {"todo", "listed", "done"}
  BY DEF Raise, OpenRowIsSynced, IInv, TypeOK
<1> QED BY <1>1, <1>2, <1>3 DEF Raise

\* A step of the handler that writes no row.
LEMMA ReadStep ==
    ASSUME IInv, UNCHANGED <<rows, now, userVars, activity, req>>,
           inbox' \in Seq(Job), scan' \in {"todo", "listed", "done"}, bot' \in Bot,
           synced' \in Observed \cup {Unknown},
           HandlerOK', StartFindsNoOpenRow', OpenRowIsSynced'
    PROVE  IInv'
<1>1. TypeOK'
  BY DEF IInv, TypeOK, userVars
<1>2. RowsOK' /\ OneTimeline' /\ RequestsOK'
  BY DEF IInv, Safe, RowsOK, OneTimeline, RequestsOK, RequestOK, PatchOK
<1> QED BY <1>1, <1>2 DEF IInv, Safe

\* Taking the lock decides nothing yet.
LEMMA BotTakeStep == ASSUME IInv, BotTake PROVE IInv'
<1> DEFINE job == Head(inbox)
<1>1. inbox # <<>> /\ inbox \in Seq(Job) /\ activity \in Observed
  BY DEF BotTake, IInv, TypeOK
<1>2. job \in Job /\ inbox' \in Seq(Job)
  BY <1>1, HeadTailProperties DEF BotTake
<1> HIDE DEF job
<1>3. CASE /\ bot' = [IdleBot EXCEPT !.pc = "user", !.job = [job EXCEPT !.after = activity]]
           /\ UNCHANGED synced
  <2>1. bot' \in Bot /\ bot'.pc = "user" /\ bot'.game = NoGame
    BY <1>1, <1>2, <1>3 DEF IdleBot, NoJob, Bot, Job
  <2>2. HandlerOK' /\ StartFindsNoOpenRow' /\ OpenRowIsSynced'
    BY <1>3, <2>1 DEF BotTake, HandlerOK, StartFindsNoOpenRow, OpenRowIsSynced, IInv, Safe
  <2> QED BY <1>2, <1>3, <2>1, <2>2, ReadStep DEF BotTake, IInv, TypeOK
<1>4. CASE bot' = [IdleBot EXCEPT !.pc = "user", !.job = job] /\ UNCHANGED synced
  <2>1. bot' \in Bot /\ bot'.pc = "user" /\ bot'.game = NoGame
    BY <1>1, <1>2, <1>4 DEF IdleBot, NoJob, Bot, Job
  <2>2. HandlerOK' /\ StartFindsNoOpenRow' /\ OpenRowIsSynced'
    BY <1>4, <2>1 DEF BotTake, HandlerOK, StartFindsNoOpenRow, OpenRowIsSynced, IInv, Safe
  <2> QED BY <1>2, <1>4, <2>1, <2>2, ReadStep DEF BotTake, IInv, TypeOK
<1>5. CASE synced' = Unknown /\ UNCHANGED bot
  <2>1. HandlerOK' /\ StartFindsNoOpenRow' /\ OpenRowIsSynced'
    BY <1>5 DEF BotTake, HandlerOK, StartFindsNoOpenRow, OpenRowIsSynced, IInv, Safe
  <2> QED BY <1>2, <1>5, <2>1, ReadStep DEF BotTake, IInv, TypeOK
<1> QED BY <1>3, <1>4, <1>5 DEF BotTake, job

\* reconcile_user's load of the user decides nothing yet.
LEMMA BotLoadUserStep == ASSUME IInv, BotLoadUser PROVE IInv'
<1>1. bot' \in Bot /\ bot'.pc = "open" /\ bot'.game = NoGame
  BY DEF BotLoadUser, IInv, TypeOK, HandlerOK, Bot
<1>2. HandlerOK' /\ StartFindsNoOpenRow' /\ OpenRowIsSynced'
  BY <1>1 DEF BotLoadUser, HandlerOK, StartFindsNoOpenRow, OpenRowIsSynced, IInv, Safe
<1> QED BY <1>1, <1>2, ReadStep DEF BotLoadUser, IInv, TypeOK

\* A failing database ends the handler.
LEMMA BotFailStep == ASSUME IInv, BotFail PROVE IInv'
BY RaiseOK, ReadStep DEF BotFail, IInv, TypeOK

\* find_stitch_candidate hands on a row of the game to start.
LEMMA BotStitchStep == ASSUME IInv, BotStitch PROVE IInv'
<1>1. bot.pc = "stitch" /\ bot.game # NoGame /\ bot.user = "active"
        /\ bot.game = AliasOf(bot.job.after)
  BY DEF BotStitch, IInv, HandlerOK
<1>2. CASE bot' = [bot EXCEPT !.pc = "start"]
  <2>1. /\ bot' \in Bot /\ bot'.pc = "start" /\ bot'.game = bot.game
        /\ bot'.job = bot.job /\ bot'.user = bot.user
    BY <1>2 DEF IInv, TypeOK, Bot
  <2>2. HandlerOK' /\ StartFindsNoOpenRow' /\ OpenRowIsSynced'
    BY <1>1, <2>1 DEF BotStitch, HandlerOK, StartFindsNoOpenRow, OpenRowIsSynced, IInv, Safe
  <2> QED BY <2>1, <2>2, ReadStep DEF BotStitch, IInv, TypeOK
<1>3. ASSUME NEW i \in StitchCandidates(rows, bot.game, now),
             bot' = [bot EXCEPT !.pc = "resume", !.row = i]
      PROVE  IInv'
  <2>1. i \in Ids /\ rows[i].game = bot.game
    BY DEF StitchCandidates, Stitchable
  <2>2. /\ bot' \in Bot /\ bot'.pc = "resume" /\ bot'.game = bot.game
        /\ bot'.job = bot.job /\ bot'.user = bot.user /\ bot'.row = i
    BY <1>3, <2>1 DEF IInv, TypeOK, Bot
  <2>3. HandlerOK' /\ StartFindsNoOpenRow' /\ OpenRowIsSynced'
    BY <1>1, <2>1, <2>2
       DEF BotStitch, HandlerOK, StartFindsNoOpenRow, OpenRowIsSynced, IInv, Safe
  <2> QED BY <2>2, <2>3, ReadStep DEF BotStitch, IInv, TypeOK
<1> QED BY <1>2, <1>3 DEF BotStitch

\* The decision of reconcile_user: it starts what it has seen or nothing, for
\* an active user only, and a row it leaves is the game it has seen.
LEMMA Decision ==
    ASSUME NEW open \in Games \cup {NoGame}
    PROVE  /\ Starting(open) \in Games \cup {NoGame}
           /\ Starting(open) # NoGame =>
                bot.user = "active" /\ Starting(open) = AliasOf(bot.job.after)
           /\ Ending(open) \in {"", "COMPLETED", "ERROR"}
           /\ Ending(open) = "" /\ open # NoGame =>
                Starting(open) = NoGame /\ open = AliasOf(bot.job.after)
<1>1. Starting(open) \in {NoGame, AliasOf(bot.job.after)}
  BY StartsWhatIsPlayed DEF Starting
<1>2. Ending(open) \in {"", "COMPLETED", "ERROR"}
  BY StartsWhatIsPlayed DEF Ending
<1>3. Starting(open) # NoGame => bot.user = "active"
  BY DEF Starting
<1>4. ASSUME Ending(open) = "", open # NoGame
      PROVE  Starting(open) = NoGame /\ open = AliasOf(bot.job.after)
  <2>1. bot.user = "active" /\ open \in Games
    BY <1>4 DEF Ending
  <2>2. CASE bot.job.kind = "scan"
    BY <1>4, <2>1, <2>2, StartupLeaves DEF Ending, Starting
  <2>3. CASE bot.job.kind # "scan"
    BY <1>4, <2>1, <2>3, LiveLeaves DEF Ending, Starting
  <2> QED BY <2>2, <2>3
<1> QED BY <1>1, <1>2, <1>3, <1>4, AliasType

\* Where a start goes next.
LEMMA StartPcCases ==
    ASSUME NEW game
    PROVE  /\ game = NoGame => StartPc(game) = "idle"
           /\ game # NoGame => StartPc(game) \in {"stitch", "start"}
BY DEF StartPc

\* Going on with b, or finishing, with no open row left behind.
LEMMA ProceedOK ==
    ASSUME IInv, NEW b \in Bot, b.job = bot.job, b.user = bot.user,
           b.pc = StartPc(b.game), Proceed(b),
           b.game # NoGame => b.game = AliasOf(b.job.after) /\ b.user = "active",
           \A i \in Ids : ~Open(rows'[i])
    PROVE  /\ HandlerOK' /\ StartFindsNoOpenRow' /\ OpenRowIsSynced'
           /\ bot' \in Bot /\ synced' \in Observed \cup {Unknown}
           /\ scan' \in {"todo", "listed", "done"}
<1>1. CASE b.pc = "idle"
  BY <1>1, FinishOK DEF Proceed
<1>2. CASE b.pc # "idle"
  <2>1. b.game # NoGame /\ b.pc \in {"stitch", "start"}
    BY <1>2, StartPcCases
  <2>2. bot' = b /\ scan' = scan /\ synced' = synced
    BY <1>2 DEF Proceed
  <2>3. HandlerOK' /\ StartFindsNoOpenRow' /\ OpenRowIsSynced'
    BY <2>1, <2>2 DEF HandlerOK, StartFindsNoOpenRow, OpenRowIsSynced
  <2> QED BY <2>2, <2>3 DEF IInv, TypeOK
<1> QED BY <1>1, <1>2

\* The unique index, as the invariant states it.
LEMMA OnlyOneOpen ==
    ASSUME IInv, NEW i \in Ids, NEW j \in Ids, Open(rows[i]), Open(rows[j])
    PROVE  i = j
BY DEF IInv, Safe, OneTimeline, OneLine, OpenFree

\* get_ongoing_session finds the only open row, and the decision follows.
LEMMA BotLoadOpenStep == ASSUME IInv, BotLoadOpen PROVE IInv'
<1>1. bot \in Bot /\ bot.pc = "open"
  BY DEF BotLoadOpen, IInv, TypeOK
<1>2. ASSUME \A i \in Ids : ~Open(rows[i]),
             Proceed([bot EXCEPT !.pc = StartPc(Starting(NoGame)),
                                 !.game = Starting(NoGame)])
      PROVE  IInv'
  <2> DEFINE b == [bot EXCEPT !.pc = StartPc(Starting(NoGame)), !.game = Starting(NoGame)]
  <2>1. /\ b \in Bot /\ b.job = bot.job /\ b.user = bot.user
        /\ b.game = Starting(NoGame) /\ b.pc = StartPc(b.game)
    BY <1>1, Decision, StartPcCases DEF Bot
  <2>2. \A i \in Ids : ~Open(rows'[i])
    BY <1>2 DEF BotLoadOpen
  <2>3. b.game # NoGame => b.game = AliasOf(b.job.after) /\ b.user = "active"
    BY <2>1, Decision
  <2> HIDE DEF b
  <2>4. /\ HandlerOK' /\ StartFindsNoOpenRow' /\ OpenRowIsSynced'
        /\ bot' \in Bot /\ synced' \in Observed \cup {Unknown}
        /\ scan' \in {"todo", "listed", "done"}
    BY <1>2, <2>1, <2>2, <2>3, ProceedOK DEF b
  <2> QED BY <2>4, ReadStep DEF BotLoadOpen, IInv, TypeOK
<1>3. ASSUME NEW i \in Ids, Open(rows[i]),
             Proceed([bot EXCEPT
                !.pc = IF Ending(rows[i].game) # "" THEN "close"
                       ELSE StartPc(Starting(rows[i].game)),
                !.row = i,
                !.ending = Ending(rows[i].game),
                !.game = Starting(rows[i].game)])
      PROVE  IInv'
  <2> DEFINE g == rows[i].game
             b == [bot EXCEPT
                !.pc = IF Ending(g) # "" THEN "close" ELSE StartPc(Starting(g)),
                !.row = i, !.ending = Ending(g), !.game = Starting(g)]
  <2>1. g \in Games /\ g # NoGame
    BY <1>3, NamesAssumption DEF IInv, Safe, RowsOK, RowOK, Exists, Open
  <2>2. \A j \in Ids : Open(rows'[j]) => j = i
    BY <1>3, OnlyOneOpen DEF BotLoadOpen
  <2> HIDE DEF g
  <2>3. CASE Ending(g) # ""
    <3>1. /\ b \in Bot /\ b.pc = "close" /\ b.row = i /\ b.job = bot.job
          /\ b.game = Starting(g) /\ b.user = bot.user
      BY <1>1, <2>1, <2>3, Decision DEF Bot
    <3> HIDE DEF b
    <3>2. bot' = b /\ scan' = scan /\ synced' = synced
      BY <1>3, <3>1 DEF Proceed, b, g
    <3>3. HandlerOK'
      BY <2>1, <2>2, <3>1, <3>2, Decision DEF HandlerOK
    <3>4. StartFindsNoOpenRow' /\ OpenRowIsSynced'
      BY <3>1, <3>2
         DEF BotLoadOpen, StartFindsNoOpenRow, OpenRowIsSynced, IInv, Safe
    <3> QED BY <3>1, <3>2, <3>3, <3>4, ReadStep DEF BotLoadOpen, IInv, TypeOK
  <2>4. CASE Ending(g) = ""
    <3>1. Starting(g) = NoGame /\ g = AliasOf(bot.job.after)
      BY <2>1, <2>4, Decision
    <3>2. b.pc = "idle"
      BY <1>1, <2>4, <3>1, StartPcCases DEF Bot
    <3>3. Finish
      BY <1>3, <3>2 DEF Proceed, g
    <3>4. \A j \in Ids : Open(rows'[j]) => rows'[j].game = AliasOf(bot.job.after)
      BY <2>2, <3>1 DEF BotLoadOpen, g
    <3> QED BY <3>3, <3>4, FinishOK, ReadStep DEF BotLoadOpen, IInv, TypeOK
  <2> QED BY <2>3, <2>4
<1> QED BY <1>2, <1>3 DEF BotLoadOpen

\* A step of the handler that writes row i, and nothing but row i.
LEMMA WriteStep ==
    ASSUME IInv, UNCHANGED <<now, userVars, activity, inbox, req>>,
           NEW i \in Ids, NEW r \in Row, RowOK(r, now), rows' = [rows EXCEPT ![i] = r],
           OneLine(rows'), i \in Fresh \/ \A e : PatchOK(rows[i], e) => PatchOK(r, e),
           scan' \in {"todo", "listed", "done"}, bot' \in Bot,
           synced' \in Observed \cup {Unknown},
           HandlerOK', StartFindsNoOpenRow', OpenRowIsSynced'
    PROVE  IInv'
<1>1. rows' \in [Ids -> Row] /\ \A j \in Ids : rows'[j] = IF j = i THEN r ELSE rows[j]
  BY DEF IInv, TypeOK
<1>2. TypeOK'
  BY <1>1 DEF IInv, TypeOK, userVars
<1>3. RowsOK' /\ OneTimeline'
  BY <1>1 DEF IInv, Safe, RowsOK, OneTimeline
<1>4. \A j \in Ids \ Fresh : \A e : PatchOK(rows[j], e) => PatchOK(rows'[j], e)
  BY <1>1
<1>5. RequestsOK'
  BY <1>4, BotKeepsRequests
<1> QED BY <1>2, <1>3, <1>5 DEF IInv, Safe

\* The claim ends the only open row; without a claim nothing is open either.
LEMMA BotCloseStep == ASSUME IInv, BotClose PROVE IInv'
<1> DEFINE i == bot.row
           r == rows[i]
           b == [bot EXCEPT !.pc = StartPc(bot.game), !.row = NoId, !.ending = ""]
<1>1. /\ i \in Ids /\ r \in Row /\ RowOK(r, now) /\ now \in Nat
      /\ \A j \in Ids : Open(rows[j]) => j = i
  BY DEF BotClose, IInv, HandlerOK, TypeOK, Safe, RowsOK
<1>2. /\ b \in Bot /\ b.job = bot.job /\ b.user = bot.user /\ b.game = bot.game
      /\ b.pc = StartPc(b.game)
      /\ b.game # NoGame => b.game = AliasOf(b.job.after) /\ b.user = "active"
  BY StartPcCases DEF IInv, TypeOK, HandlerOK, Bot
<1> HIDE DEF b
<1>3. ASSUME NEW s \in {Completed(r, now), Errored(r)}, Open(r),
             rows' = [rows EXCEPT ![i] = s], Proceed(b)
      PROVE  IInv'
  <2>1. /\ s \in Row /\ RowOK(s, now) /\ ~Open(s) /\ Covers(r, s)
        /\ \A e : PatchOK(r, e) => PatchOK(s, e)
    BY <1>1, <1>3, CompletedGood, ErroredGood, CoversCases, PatchAfterBot
  <2> HIDE DEF i
  <2>2. rows' \in [Ids -> Row] /\ \A j \in Ids : rows'[j] = IF j = i THEN s ELSE rows[j]
    BY <1>1, <1>3, <2>1 DEF IInv, TypeOK
  <2>3. \A j \in Ids : ~Open(rows'[j])
    BY <1>1, <2>1, <2>2
  <2>4. OneLine(rows')
    BY <2>1, <2>2, ShrinkKeepsLine DEF IInv, TypeOK, Safe, OneTimeline, Covers
  <2>5. /\ HandlerOK' /\ StartFindsNoOpenRow' /\ OpenRowIsSynced'
        /\ bot' \in Bot /\ synced' \in Observed \cup {Unknown}
        /\ scan' \in {"todo", "listed", "done"}
    BY <1>2, <1>3, <2>3, ProceedOK
  <2> QED BY <1>1, <1>3, <2>1, <2>4, <2>5, WriteStep DEF BotClose
<1>4. ASSUME ~Open(r), UNCHANGED rows, Proceed(b)
      PROVE  IInv'
  <2>1. \A j \in Ids : ~Open(rows'[j])
    BY <1>1, <1>4
  <2> HIDE DEF i
  <2>2. /\ HandlerOK' /\ StartFindsNoOpenRow' /\ OpenRowIsSynced'
        /\ bot' \in Bot /\ synced' \in Observed \cup {Unknown}
        /\ scan' \in {"todo", "listed", "done"}
    BY <1>2, <1>4, <2>1, ProceedOK
  <2> QED BY <1>4, <2>2, ReadStep DEF BotClose, IInv, TypeOK
<1>5. ASSUME UNCHANGED rows, Raise
      PROVE  IInv'
  BY <1>5, RaiseOK, ReadStep DEF BotClose, IInv, TypeOK
<1> QED BY <1>3, <1>4, <1>5 DEF BotClose, b

\* The reopened row is of the observed game, and no other is open.
LEMMA BotResumeStep == ASSUME IInv, BotResume PROVE IInv'
<1> DEFINE i == bot.row
           r == rows[i]
           claimed == r.status = "COMPLETED" /\ r.source = "BOT" /\ ~Trashed(r)
<1>1. /\ i \in Ids /\ r \in Row /\ RowOK(r, now) /\ now \in Nat
      /\ Exists(r) => r.game = AliasOf(bot.job.after)
      /\ bot.game # NoGame /\ bot.user = "active"
      /\ \A j \in Ids : ~Open(rows[j])
  BY DEF BotResume, IInv, HandlerOK, TypeOK, Safe, RowsOK, StartFindsNoOpenRow
<1>2. ASSUME bot' = [bot EXCEPT !.pc = "start", !.row = NoId],
             UNCHANGED <<rows, scan, synced>>
      PROVE  IInv'
  <2>1. /\ bot' \in Bot /\ bot'.pc = "start" /\ bot'.game = bot.game
        /\ bot'.job = bot.job /\ bot'.user = bot.user
    BY <1>2 DEF IInv, TypeOK, Bot
  <2>2. HandlerOK' /\ StartFindsNoOpenRow' /\ OpenRowIsSynced'
    BY <1>1, <1>2, <2>1 DEF IInv, Safe, HandlerOK, StartFindsNoOpenRow, OpenRowIsSynced
  <2> QED BY <1>2, <2>1, <2>2, ReadStep DEF BotResume, IInv, TypeOK
<1>3. ASSUME UNCHANGED rows, Raise
      PROVE  IInv'
  BY <1>3, RaiseOK, ReadStep DEF BotResume, IInv, TypeOK
<1>4. ASSUME claimed, OpenFree(rows, i, Resumed(r)), RangeFree(rows, i, Resumed(r)),
             rows' = [rows EXCEPT ![i] = Resumed(r)], Finish
      PROVE  IInv'
  <2> DEFINE s == Resumed(r)
  <2>1. /\ s \in Row /\ RowOK(s, now) /\ s.game = r.game
        /\ \A e : PatchOK(r, e) => PatchOK(s, e)
    BY <1>1, <1>4, ResumedGood, PatchAfterBot
  <2>2. s.game = AliasOf(bot.job.after)
    BY <1>1, <1>4, <2>1 DEF Exists
  <2> HIDE DEF s, i
  <2>3. rows' \in [Ids -> Row] /\ \A j \in Ids : rows'[j] = IF j = i THEN s ELSE rows[j]
    BY <1>1, <1>4, <2>1 DEF IInv, TypeOK, s
  <2>4. OneLine(rows')
    BY <1>1, <1>4, <2>1, StoreKeepsLine DEF IInv, TypeOK, Safe, OneTimeline, s
  <2>5. \A j \in Ids : Open(rows'[j]) => rows'[j].game = AliasOf(bot.job.after)
    BY <1>1, <2>2, <2>3
  <2>6. rows' = [rows EXCEPT ![i] = s]
    BY <1>4 DEF s
  <2> QED BY <1>1, <1>4, <2>1, <2>4, <2>5, <2>6, FinishOK, WriteStep DEF BotResume
<1> QED BY <1>2, <1>3, <1>4 DEF BotResume

\* A new row is of the observed game, and no other is open.
LEMMA BotStartStep == ASSUME IInv, BotStart PROVE IInv'
<1> DEFINE r == NewOpenRow(bot.game, now)
<1>1. /\ bot.game \in Games /\ bot.game = AliasOf(bot.job.after) /\ now \in Nat
      /\ \A j \in Ids : ~Open(rows[j])
  BY DEF BotStart, IInv, HandlerOK, TypeOK, Bot, Safe, StartFindsNoOpenRow
<1>2. r \in Row /\ RowOK(r, now) /\ r.game = bot.game
  BY <1>1, NewOpenRowGood
<1> HIDE DEF r
<1>3. ASSUME UNCHANGED rows, Raise
      PROVE  IInv'
  BY <1>3, RaiseOK, ReadStep DEF BotStart, IInv, TypeOK
<1>4. ASSUME UNCHANGED rows, Finish
      PROVE  IInv'
  BY <1>1, <1>4, FinishOK, ReadStep DEF BotStart, IInv, TypeOK
<1>5. ASSUME NEW i \in Fresh, RangeFree(rows, i, r), rows' = [rows EXCEPT ![i] = r], Finish
      PROVE  IInv'
  <2>1. i \in Ids
    BY DEF Fresh
  <2>2. OpenFree(rows, i, r)
    BY <1>1 DEF OpenFree
  <2>3. OneLine(rows')
    BY <1>2, <1>5, <2>1, <2>2, StoreKeepsLine DEF IInv, TypeOK, Safe, OneTimeline
  <2>4. \A j \in Ids : rows'[j] = IF j = i THEN r ELSE rows[j]
    BY <1>5 DEF IInv, TypeOK
  <2>5. \A j \in Ids : Open(rows'[j]) => rows'[j].game = AliasOf(bot.job.after)
    BY <1>1, <1>2, <2>4
  <2> QED BY <1>2, <1>5, <2>1, <2>3, <2>5, FinishOK, WriteStep DEF BotStart
<1> QED BY <1>3, <1>4, <1>5 DEF BotStart, r

-----------------------------------------------------------------------------
(* The theorems                                                            *)

\* The invariant holds at the start.
LEMMA InitEstablishes == Init => IInv
<1> SUFFICES ASSUME Init PROVE IInv
  OBVIOUS
<1>1. now \in Nat /\ rows \in [Ids -> Row] /\ \A i \in Ids : rows[i] = NoRow
  BY NoRowGood DEF Init
<1>2. TypeOK
  <2>1. <<>> \in Seq(Job)
    OBVIOUS
  <2> QED BY <1>1, <2>1, JobTypes, AnsweredOK DEF Init, TypeOK, Time, Observed
<1>3. RowsOK /\ StartFindsNoOpenRow /\ OpenRowIsSynced
  BY <1>1, NoRowGood DEF Init, RowsOK, StartFindsNoOpenRow, OpenRowIsSynced
<1>4. OneTimeline
  BY <1>1, NoRowGood DEF OneTimeline, OneLine, RangeFree, OpenFree
<1>5. HandlerOK
  BY JobTypes DEF Init, HandlerOK
<1>6. RequestsOK
  BY AnsweredOK DEF Init, RequestsOK
<1> QED BY <1>2, <1>3, <1>4, <1>5, <1>6 DEF IInv, Safe

\* Every step keeps the invariant.
LEMMA NextPreserves == IInv /\ [Next]_vars => IInv'
<1> SUFFICES ASSUME IInv, [Next]_vars PROVE IInv'
  OBVIOUS
<1>1. CASE ActivityChange \/ DuplicatedChange \/ Redelivery \/ SilentChange \/ StartupScan
  BY <1>1, GatewayStep
<1>2. CASE Restart
  BY <1>2, RestartStep
<1>3. CASE ScheduleDeletion \/ CancelDeletion \/ PurgeAccount \/ Register
  BY <1>3, AccountStep
<1>4. ASSUME NEW q \in Reqs, \/ CreateBegin(q) \/ PatchBegin(q) \/ DeleteBegin(q)
                             \/ HardBegin(q) \/ RestoreBegin(q)
      PROVE  IInv'
  BY <1>4, CreateBeginStep, PatchBeginStep, DeleteBeginStep, HardBeginStep, RestoreBeginStep
<1>5. ASSUME NEW q \in Reqs, Commit(q) PROVE IInv'
  BY <1>5, CreateCommitStep, PatchCommitStep, DeleteCommitStep, HardCommitStep,
     RestoreCommitStep DEF Commit
<1>6. CASE BotTake \/ BotFail
  BY <1>6, BotTakeStep, BotFailStep
<1>7. CASE BotStep
  BY <1>7, BotLoadUserStep, BotLoadOpenStep, BotCloseStep, BotStitchStep, BotResumeStep,
     BotStartStep DEF BotStep
<1>8. CASE HardDeleteSweep \/ FlickerPurge
  BY <1>8, SweepStep DEF HardDeleteSweep, FlickerPurge
<1>9. CASE Tick
  BY <1>9, TickStep
<1>10. CASE UNCHANGED vars
  BY <1>10, QuietStep DEF vars, userVars, botVars, IInv, TypeOK
<1> QED BY <1>1, <1>2, <1>3, <1>4, <1>5, <1>6, <1>7, <1>8, <1>9, <1>10 DEF Next, Environment

\* The strengthening holds in every reachable state of every instance.
THEOREM Inductive == Spec => []IInv
BY InitEstablishes, NextPreserves, PTL DEF Spec

\* Every variable keeps its type.
THEOREM TypeCorrect == Spec => []TypeOK
<1>1. IInv => TypeOK
  BY DEF IInv
<1> QED BY <1>1, Inductive, PTL

\* However handlers, requests and nightly tasks interleave, the columns of every
\* stored row agree.
THEOREM RowsAreGood == Spec => []RowsOK
<1>1. IInv => RowsOK
  BY DEF IInv, Safe
<1> QED BY <1>1, Inductive, PTL

\* The timeline is a line: at most one open row, and no overlap.
THEOREM TimelineIsALine == Spec => []OneTimeline
<1>1. IInv => OneTimeline
  BY DEF IInv, Safe
<1> QED BY <1>1, Inductive, PTL

\* The user lock is enough: a handler never meets a row somebody else opened.
THEOREM LockSerialisesStarts == Spec => []StartFindsNoOpenRow
<1>1. IInv => StartFindsNoOpenRow
  BY DEF IInv, Safe
<1> QED BY <1>1, Inductive, PTL

\* What is open after an observation has been processed is what was observed.
THEOREM OpenRowFollowsPresence == Spec => []OpenRowIsSynced
<1>1. IInv => OpenRowIsSynced
  BY DEF IInv, Safe
<1> QED BY <1>1, Inductive, PTL

-----------------------------------------------------------------------------
(* What a step never does                                                  *)

\* What a sweep selects can be neither reopened nor seen.
LEMMA SweepsSpare ==
    ASSUME IInv, HardDeleteSweep \/ FlickerPurge, NEW i \in Ids, NightlyTasksSpare(i)
    PROVE  rows'[i] = rows[i]
<1>1. now \in Nat /\ rows[i].end \in Int
  BY RowTimes DEF IInv, TypeOK
<1>2. \A g : Stitchable(rows[i], g, now) => ~(rows[i].end < now - GcMargin) /\ ~Trashed(rows[i])
  BY <1>1, SettingsAssumption DEF Stitchable
<1>3. CASE HardDeleteSweep
  BY <1>2, <1>3 DEF HardDeleteSweep, Sweep, NightlyTasksSpare
<1>4. CASE FlickerPurge
  BY <1>2, <1>4 DEF FlickerPurge, Sweep, NightlyTasksSpare
<1> QED BY <1>3, <1>4

\* Because the margin of the purge exceeds the stitch window, the nightly tasks
\* never remove a row that could still be reopened or is in sight of the user.
THEOREM NightlyTasksSpareLiveRows == Spec => NightlyTasksAreSafe
<1>1. IInv /\ [Next]_vars =>
        [HardDeleteSweep \/ FlickerPurge =>
            \A i \in Ids : NightlyTasksSpare(i) => rows'[i] = rows[i]]_vars
  BY SweepsSpare
<1> QED BY <1>1, Inductive, PTL DEF Spec, NightlyTasksAreSafe

\* Only the bot's own steps and a restart move the handler.
LEMMA WhoMovesTheHandler ==
    ASSUME Next, bot' # bot
    PROVE  Restart \/ BotTake \/ BotStep \/ BotFail
<1>1. ASSUME NEW q \in Reqs, \/ CreateBegin(q) \/ PatchBegin(q) \/ DeleteBegin(q)
                             \/ HardBegin(q) \/ RestoreBegin(q)
      PROVE  bot' = bot
  BY <1>1 DEF CreateBegin, PatchBegin, DeleteBegin, HardBegin, RestoreBegin, botVars
<1>2. ASSUME NEW q \in Reqs, Commit(q) PROVE bot' = bot
  BY <1>2 DEF Commit, CreateCommit, PatchCommit, DeleteCommit, HardCommit, RestoreCommit,
              botVars
<1>3. ASSUME ActivityChange \/ DuplicatedChange \/ Redelivery \/ SilentChange \/ StartupScan
      PROVE  bot' = bot
  BY <1>3 DEF ActivityChange, DuplicatedChange, Redelivery, SilentChange, StartupScan
<1>4. ASSUME \/ ScheduleDeletion \/ CancelDeletion \/ PurgeAccount \/ Register
             \/ HardDeleteSweep \/ FlickerPurge \/ Tick
      PROVE  bot' = bot
  BY <1>4 DEF ScheduleDeletion, CancelDeletion, PurgeAccount, Register, HardDeleteSweep,
              FlickerPurge, Sweep, Tick, botVars
<1> QED BY <1>1, <1>2, <1>3, <1>4 DEF Next, Environment

\* Every claim of the bot asks for a row that is open or of the bot.
LEMMA BotSparesManual ==
    ASSUME IInv, Next, bot' # bot, NEW i \in Ids, rows[i].source = "MANUAL"
    PROVE  rows'[i] = rows[i]
<1>1. rows \in [Ids -> Row] /\ RowOK(rows[i], now)
  BY DEF IInv, TypeOK, Safe, RowsOK
<1>2. rows[i].status = "COMPLETED" /\ ~Open(rows[i]) /\ i \notin Fresh
  BY <1>1 DEF RowOK, Open, Fresh, Exists
<1>3. CASE Restart \/ BotTake \/ BotFail \/ BotLoadUser \/ BotLoadOpen \/ BotStitch
  BY <1>3 DEF Restart, BotTake, BotFail, BotLoadUser, BotLoadOpen, BotStitch
<1>4. CASE BotClose
  BY <1>1, <1>2, <1>4 DEF BotClose
<1>5. CASE BotResume
  BY <1>1, <1>5 DEF BotResume
<1>6. CASE BotStart
  BY <1>1, <1>2, <1>6 DEF BotStart
<1> QED BY <1>3, <1>4, <1>5, <1>6, WhoMovesTheHandler DEF BotStep

\* The bot never writes a row the user has logged or edited.
THEOREM BotLeavesManualRowsAlone == Spec => BotKeepsManualRows
<1>1. IInv /\ [Next]_vars =>
        [bot' # bot => \A i \in Ids : rows[i].source = "MANUAL" => rows'[i] = rows[i]]_vars
  BY BotSparesManual
<1> QED BY <1>1, Inductive, PTL DEF Spec, BotKeepsManualRows

\* Something stands in the way of a row that would open now.
LEMMA WhatBlocksAStart ==
    ASSUME IInv, NEW i \in Ids, ~RangeFree(rows, i, NewOpenRow(bot.game, now)),
           \A j \in Ids : ~Open(rows[j])
    PROVE  \E j \in Ids : /\ Timeline(rows[j]) /\ rows[j].source = "MANUAL"
                          /\ rows[j].end > now
<1>1. NewOpenRow(bot.game, now).start = now /\ NewOpenRow(bot.game, now).end = NoTime
  BY DEF NewOpenRow, NoRow
<1>2. PICK j \in Ids : Timeline(rows[j]) /\ (rows[j].end = NoTime \/ now < rows[j].end)
  BY <1>1 DEF RangeFree, Overlaps, RangesMeet
<1>3. RowOK(rows[j], now) /\ rows[j] \in Row /\ rows[j].end \in Int /\ now \in Nat
  BY RowTimes DEF IInv, TypeOK, Safe, RowsOK
<1>4. rows[j].status = "COMPLETED"
  BY <1>2 DEF Timeline, Open
<1>5. now < rows[j].end
  BY <1>2, <1>3, <1>4 DEF RowOK
<1>6. rows[j].source # "BOT"
  <2>1. rows[j].source = "BOT" => rows[j].end =< now
    BY <1>3, <1>4 DEF RowOK
  <2> QED BY <1>3, <1>5, <2>1
<1>7. rows[j].source = "MANUAL"
  BY <1>3, <1>4, <1>6 DEF RowOK, Exists, Row
<1> QED BY <1>2, <1>3, <1>5, <1>7

\* A start that neither failed nor raised opened a row or was blocked.
LEMMA StartsOrIsBlocked ==
    ASSUME IInv, Next, bot.pc = "start", account # "gone", bot'.pc = "idle",
           synced' # Unknown
    PROVE  \/ \E i \in Ids : Open(rows'[i])
           \/ \E i \in Ids : /\ Timeline(rows[i]) /\ rows[i].source = "MANUAL"
                             /\ rows[i].end > now
<1>1. BotStart
  <2>1. bot' # bot /\ ~Restart /\ ~BotFail
    BY DEF Restart, BotFail, Raise
  <2> QED BY <2>1, WhoMovesTheHandler
             DEF BotStep, BotTake, BotLoadUser, BotLoadOpen, BotClose, BotStitch, BotResume
<1>2. bot.user = "active" /\ \A j \in Ids : ~Open(rows[j])
  BY DEF IInv, HandlerOK, Safe, StartFindsNoOpenRow
<1>3. PICK i \in Fresh :
        IF RangeFree(rows, i, NewOpenRow(bot.game, now))
        THEN rows' = [rows EXCEPT ![i] = NewOpenRow(bot.game, now)] ELSE UNCHANGED rows
  BY <1>1, <1>2 DEF BotStart, Raise
<1>4. i \in Ids /\ Open(NewOpenRow(bot.game, now))
  BY DEF Fresh, NewOpenRow, NoRow, Open, Trashed
<1>5. CASE RangeFree(rows, i, NewOpenRow(bot.game, now))
  BY <1>3, <1>4, <1>5 DEF IInv, TypeOK
<1>6. CASE ~RangeFree(rows, i, NewOpenRow(bot.game, now))
  BY <1>2, <1>4, <1>6, WhatBlocksAStart
<1> QED BY <1>5, <1>6

\* A session is not started only where a manual session is in the way.
THEOREM OnlyManualBlocksAStart == Spec => SkippedOnlyForManual
<1>1. IInv /\ [Next]_vars =>
        [bot.pc = "start" /\ account # "gone" /\ bot'.pc = "idle" /\ synced' # Unknown =>
            \/ \E i \in Ids : Open(rows'[i])
            \/ \E i \in Ids : /\ Timeline(rows[i]) /\ rows[i].source = "MANUAL"
                              /\ rows[i].end > now]_vars
  BY StartsOrIsBlocked
<1> QED BY <1>1, Inductive, PTL DEF Spec, SkippedOnlyForManual

-----------------------------------------------------------------------------
(* Without faults                                                          *)

\* Nothing goes wrong around the bot and no deletion is scheduled; starts may
\* be delivered again, and the user may log, edit, trash, restore and remove.
Undisturbed == Faults \subseteq {"redeliver"} /\ "schedule" \notin ApiOps

\* The event is what a user did who was seen doing c: the next change, or a
\* start that was delivered before. Nothing is asked when c is not known.
Tells(c, job) ==
    /\ job.kind = "presence" /\ job.after \in Names \cup {Idle}
    /\ c # Unknown => job.before = c \/ (job.before = Idle /\ job.after = c)

\* What the handlers will have processed when the lock is next free, and when
\* the queue is empty.
Reached == IF bot.pc = "idle" THEN synced ELSE bot.job.after
Said == IF inbox = <<>> THEN Reached ELSE inbox[Len(inbox)].after

\* The events tell the user's story without a break, from what was processed
\* last to what the user does now.
StoryOK ==
    /\ bot.pc # "idle" => Tells(synced, bot.job)
    /\ \A k \in 1..Len(inbox) :
            Tells(IF k = 1 THEN Reached ELSE inbox[k - 1].after, inbox[k])
    /\ Said \in {Unknown, activity}

\* Nobody was turned away, no row is to end as ERROR or has, and a row is open
\* only when it is known what was processed last.
CalmOK ==
    /\ account = "active" /\ scan = "done" /\ bot.user = "active"
    /\ bot.pc = "close" => bot.ending = "COMPLETED"
    /\ synced = Unknown => \A i \in Ids : ~Open(rows[i])
    /\ NoSpuriousError

QuietInv == StoryOK /\ CalmOK

\* One more event at the end of the story.
LEMMA StoryGrows ==
    ASSUME TypeOK, StoryOK, UNCHANGED <<bot, synced>>, NEW job \in Job,
           inbox' = Append(inbox, job), Tells(Said, job), activity' = job.after
    PROVE  StoryOK'
<1>1. /\ inbox \in Seq(Job) /\ inbox' \in Seq(Job) /\ Len(inbox) \in Nat
      /\ Len(inbox') = Len(inbox) + 1 /\ inbox'[Len(inbox) + 1] = job
      /\ \A k \in 1..Len(inbox) : inbox'[k] = inbox[k]
      /\ inbox = <<>> <=> Len(inbox) = 0
  BY DEF TypeOK
<1>2. Reached' = Reached
  BY DEF Reached
<1>3. ASSUME NEW k \in 1..Len(inbox')
      PROVE  Tells(IF k = 1 THEN Reached' ELSE inbox'[k - 1].after, inbox'[k])
  <2>1. CASE k \in 1..Len(inbox)
    <3>1. inbox'[k] = inbox[k] /\ (k # 1 => inbox'[k - 1] = inbox[k - 1])
      BY <1>1, <2>1
    <3> QED BY <1>2, <2>1, <3>1 DEF StoryOK
  <2>2. CASE k = Len(inbox) + 1
    <3>1. CASE Len(inbox) = 0
      BY <1>1, <1>2, <2>2, <3>1 DEF Said
    <3>2. CASE Len(inbox) # 0
      <4>1. k # 1 /\ inbox'[k - 1] = inbox[Len(inbox)]
        BY <1>1, <2>2, <3>2
      <4> QED BY <1>1, <2>2, <3>2, <4>1 DEF Said
    <3> QED BY <3>1, <3>2
  <2> QED BY <1>1, <2>1, <2>2
<1>4. Said' = activity'
  <2>1. inbox' # <<>>
    BY <1>1
  <2> QED BY <1>1, <2>1 DEF Said
<1> QED BY <1>2, <1>3, <1>4 DEF StoryOK, Tells

\* The handler works on, is done, or dies.
LEMMA StoryGoesOn ==
    ASSUME StoryOK, UNCHANGED <<inbox, activity>>, Reached' \in {Reached, Unknown},
           bot'.pc # "idle" => Tells(synced', bot'.job)
    PROVE  StoryOK'
<1>1. ASSUME NEW k \in 1..Len(inbox)
      PROVE  Tells(IF k = 1 THEN Reached' ELSE inbox[k - 1].after, inbox[k])
  BY <1>1 DEF StoryOK, Tells
<1>2. Said' \in {Unknown, activity}
  BY DEF Said, StoryOK
<1> QED BY <1>1, <1>2 DEF StoryOK, Tells

\* The gateway tells what happens, once or once more.
LEMMA GatewayIsCalm ==
    ASSUME Undisturbed, TypeOK, QuietInv, ActivityChange \/ Redelivery
    PROVE  QuietInv'
<1>1. PICK job \in Job : /\ inbox' = Append(inbox, job) /\ activity' = job.after
                         /\ Tells(Said, job)
  <2>1. CASE ActivityChange
    <3>1. PICK a \in Names \cup {Idle} :
            activity' = a /\ inbox' = Append(inbox, Presence(activity, a))
      BY <2>1 DEF ActivityChange
    <3>2. Presence(activity, a) \in Job
      BY <2>1, JobTypes DEF ActivityChange, TypeOK, Observed
    <3>3. Tells(Said, Presence(activity, a)) /\ Presence(activity, a).after = a
      BY DEF QuietInv, StoryOK, Tells, Presence
    <3> QED BY <3>1, <3>2, <3>3
  <2>2. CASE Redelivery
    <3>1. Presence(Idle, activity) \in Job
      BY <2>2, JobTypes DEF Redelivery, Observed
    <3>2. Tells(Said, Presence(Idle, activity)) /\ Presence(Idle, activity).after = activity
      BY <2>2 DEF QuietInv, StoryOK, Tells, Presence, Redelivery
    <3> QED BY <2>2, <3>1, <3>2 DEF Redelivery
  <2> QED BY <2>1, <2>2
<1>2. UNCHANGED <<rows, account, scan, bot, synced>>
  BY DEF ActivityChange, Redelivery, userVars
<1>3. StoryOK'
  BY <1>1, <1>2, StoryGrows DEF QuietInv
<1> QED BY <1>2, <1>3 DEF QuietInv, CalmOK, NoSpuriousError

\* What a write makes of the status, and of deleted_at.
LEMMA StatusWritten ==
    /\ \A r \in Row : \A at, e, l :
            /\ Repaired(r, e, l).status = "COMPLETED"
            /\ Completed(r, at).status = "COMPLETED"
            /\ Resumed(r).status = "ONGOING"
            /\ [r EXCEPT !.trashed = at].status = r.status
            /\ [r EXCEPT !.trashed = at].trashed = at
    /\ \A g, a, e : ManualRow(g, a, e).status = "COMPLETED"
<1>1. ASSUME NEW r \in Row, NEW at, NEW e, NEW l
      PROVE  /\ Repaired(r, e, l).status = "COMPLETED"
             /\ Completed(r, at).status = "COMPLETED"
             /\ Resumed(r).status = "ONGOING"
             /\ [r EXCEPT !.trashed = at].status = r.status
             /\ [r EXCEPT !.trashed = at].trashed = at
  <2>1. Repaired(r, e, l).status = "COMPLETED"
    BY DEF Repaired, Row
  <2>2. [r EXCEPT !.trashed = at].status = r.status
    BY DEF Row
  <2>3. [r EXCEPT !.trashed = at].trashed = at
    BY DEF Row
  <2>4. Completed(r, at).status = "COMPLETED"
    BY DEF Completed, Row
  <2>5. Resumed(r).status = "ONGOING"
    BY DEF Resumed, Row
  <2> QED BY <2>1, <2>2, <2>3, <2>4, <2>5
<1>2. \A g, a, e : ManualRow(g, a, e).status = "COMPLETED"
  BY DEF ManualRow, NoRow
<1> QED BY <1>1, <1>2

\* Nobody but the bot opens a row or ends one as ERROR.
LEMMA OthersAreCalm ==
    ASSUME IInv, QuietInv,
           \/ \E q \in Reqs : Commit(q)
           \/ HardDeleteSweep \/ FlickerPurge
    PROVE  QuietInv'
<1>1. UNCHANGED <<account, activity, inbox, scan, bot, synced>>
  BY DEF Commit, CreateCommit, PatchCommit, DeleteCommit, HardCommit, RestoreCommit,
         HardDeleteSweep, FlickerPurge, Sweep, userVars, botVars
<1>2. rows \in [Ids -> Row] /\ now \in Nat /\ \A i \in Ids : RowOK(rows[i], now)
  BY DEF IInv, TypeOK, Safe, RowsOK
<1>a. ASSUME NEW i, NEW r, rows' = rows \/ rows' = [rows EXCEPT ![i] = r],
             i \in Ids => /\ Open(r) => Open(rows[i])
                          /\ r.status = "ERROR" => rows[i].status = "ERROR"
      PROVE  \A j \in Ids : /\ Open(rows'[j]) => Open(rows[j])
                            /\ rows'[j].status = "ERROR" => rows[j].status = "ERROR"
  BY <1>a, <1>2
<1>3. ASSUME NEW q \in Reqs, Commit(q)
      PROVE  \A j \in Ids : /\ Open(rows'[j]) => Open(rows[j])
                            /\ rows'[j].status = "ERROR" => rows[j].status = "ERROR"
  <2> DEFINE i == req[q].id
  <2>1. CASE CreateCommit(q)
    <3> DEFINE r == ManualRow(req[q].game, req[q].start, req[q].end)
    <3>1. r.status = "COMPLETED" /\ ~Open(r)
      BY StatusWritten DEF Open
    <3>2. \E k : rows' = rows \/ rows' = [rows EXCEPT ![k] = r]
      BY <2>1 DEF CreateCommit, Store
    <3> HIDE DEF r
    <3> QED BY <1>a, <3>1, <3>2
  <2>2. CASE PatchCommit(q)
    <3> DEFINE r == Repaired(rows[i], req[q].end, req[q].leaving)
    <3>1. i \in Ids => r.status = "COMPLETED" /\ ~Open(r)
      BY <1>2, StatusWritten DEF Open
    <3>2. rows' = rows \/ rows' = [rows EXCEPT ![i] = r]
      BY <2>2 DEF PatchCommit, Store
    <3> HIDE DEF r, i
    <3> QED BY <1>a, <3>1, <3>2
  <2>3. CASE DeleteCommit(q)
    <3> DEFINE r == [rows[i] EXCEPT !.trashed = now]
    <3>1. i \in Ids => r.status = rows[i].status /\ ~Open(r)
      BY <1>2, StatusWritten DEF Open, Trashed, NoTime
    <3>2. rows' = rows \/ rows' = [rows EXCEPT ![i] = r]
      BY <2>3 DEF DeleteCommit
    <3> HIDE DEF r, i
    <3> QED BY <1>a, <3>1, <3>2
  <2>4. CASE HardCommit(q)
    <3>1. NoRow.status # "ERROR" /\ ~Open(NoRow)
      BY DEF NoRow, Open
    <3> QED BY <1>a, <2>4, <3>1 DEF HardCommit
  <2>5. CASE RestoreCommit(q)
    <3> DEFINE r == [rows[i] EXCEPT !.trashed = NoTime]
    <3>1. i \in Ids => r.status = rows[i].status /\ (Open(r) => Open(rows[i]))
      BY <1>2, StatusWritten, RestoredGood
    <3>2. rows' = rows \/ rows' = [rows EXCEPT ![i] = r]
      BY <2>5 DEF RestoreCommit, Store
    <3> HIDE DEF r, i
    <3> QED BY <1>a, <3>1, <3>2
  <2> QED BY <1>3, <2>1, <2>2, <2>3, <2>4, <2>5 DEF Commit
<1>4. ASSUME NEW selected, Sweep(selected)
      PROVE  \A j \in Ids : /\ Open(rows'[j]) => Open(rows[j])
                            /\ rows'[j].status = "ERROR" => rows[j].status = "ERROR"
  BY <1>4 DEF Sweep, NoRow, Open
<1>5. \A j \in Ids : /\ Open(rows'[j]) => Open(rows[j])
                     /\ rows'[j].status = "ERROR" => rows[j].status = "ERROR"
  BY <1>3, <1>4 DEF HardDeleteSweep, FlickerPurge
<1>6. Reached' = Reached
  BY <1>1 DEF Reached
<1>7. StoryOK'
  BY <1>1, <1>6, StoryGoesOn DEF QuietInv, StoryOK
<1> QED BY <1>1, <1>5, <1>7 DEF QuietInv, CalmOK, NoSpuriousError

\* A handler takes the next event of the story.
LEMMA TakingIsCalm == ASSUME TypeOK, QuietInv, BotTake PROVE QuietInv'
<1> DEFINE job == inbox[1]
<1>1. /\ inbox \in Seq(Job) /\ Len(inbox) \in Nat \ {0} /\ Head(inbox) = job
      /\ inbox' \in Seq(Job) /\ Len(inbox') = Len(inbox) - 1
      /\ \A k \in 1..Len(inbox') : inbox'[k] = inbox[k + 1]
      /\ inbox' = <<>> <=> Len(inbox') = 0
  <2>1. inbox \in Seq(Job) /\ inbox # <<>> /\ inbox' = Tail(inbox)
    BY DEF BotTake, TypeOK
  <2>2. /\ Head(inbox) = job /\ Tail(inbox) \in Seq(Job) /\ Len(inbox) \in Nat \ {0}
        /\ Len(Tail(inbox)) = Len(inbox) - 1
        /\ \A k \in 1..Len(Tail(inbox)) : Tail(inbox)[k] = inbox[k + 1]
    BY <2>1
  <2>3. Tail(inbox) = <<>> <=> Len(Tail(inbox)) = 0
    BY <2>2
  <2> QED BY <2>1, <2>2, <2>3
<1>2. bot.pc = "idle" /\ Reached = synced
  BY DEF BotTake, Reached
<1>3. Tells(synced, job)
  BY <1>1, <1>2 DEF QuietInv, StoryOK
<1>4. bot' = [IdleBot EXCEPT !.pc = "user", !.job = job] /\ UNCHANGED synced
  BY <1>1, <1>3 DEF BotTake, Tells, QuietInv, CalmOK
<1> HIDE DEF job
<1>5. bot'.pc = "user" /\ bot'.job = job /\ bot'.user = "active"
  BY <1>4 DEF IdleBot
<1>6. Reached' = job.after
  BY <1>5 DEF Reached
<1>7. ASSUME NEW k \in 1..Len(inbox')
      PROVE  Tells(IF k = 1 THEN Reached' ELSE inbox'[k - 1].after, inbox'[k])
  <2>1. k + 1 \in 1..Len(inbox) /\ k + 1 # 1 /\ k + 1 - 1 = k
    BY <1>1
  <2>2. Tells(inbox[k].after, inbox[k + 1])
    BY <2>1 DEF QuietInv, StoryOK
  <2>3. inbox'[k] = inbox[k + 1] /\ (k # 1 => inbox'[k - 1] = inbox[k])
    BY <1>1
  <2> QED BY <1>6, <2>2, <2>3 DEF job
<1>8. Said' = Said
  <2>1. inbox # <<>>
    BY <1>1
  <2>2. CASE Len(inbox') = 0
    <3>1. inbox' = <<>> /\ Len(inbox) = 1
      BY <1>1, <2>2
    <3> QED BY <1>6, <2>1, <3>1 DEF Said, job
  <2>3. CASE Len(inbox') # 0
    BY <1>1, <2>1, <2>3 DEF Said
  <2> QED BY <2>2, <2>3
<1>9. StoryOK'
  BY <1>3, <1>4, <1>5, <1>7, <1>8 DEF QuietInv, StoryOK, BotTake, Tells
<1> QED BY <1>4, <1>5, <1>9 DEF BotTake, userVars, QuietInv, CalmOK, NoSpuriousError

\* A handler returns, or dies and leaves nothing open.
LEMMA EndingIsCalm ==
    ASSUME TypeOK, QuietInv, bot.pc # "idle", UNCHANGED <<inbox, activity, account>>,
           Finish \/ (Raise /\ \A i \in Ids : ~Open(rows'[i])),
           \A i \in Ids : rows'[i].status # "ERROR"
    PROVE  QuietInv'
<1>1. bot'.pc = "idle" /\ bot'.user = "active"
  <2>1. IdleBot.user = "active"
    BY DEF IdleBot
  <2> QED BY <2>1, JobTypes DEF Finish, Raise
<1>2. bot.job.kind = "presence" /\ bot.job.after \in Observed /\ bot.job.after # Unknown
  BY InstanceAssumption DEF QuietInv, StoryOK, Tells, Observed
<1>3. scan' = scan
  BY <1>2 DEF Finish, Raise
<1>4. Reached' \in {Reached, Unknown}
  BY <1>1 DEF Reached, Finish, Raise
<1>5. StoryOK'
  BY <1>1, <1>4, StoryGoesOn DEF QuietInv
<1>6. synced' = Unknown => \A i \in Ids : ~Open(rows'[i])
  BY <1>2 DEF Finish
<1> QED BY <1>1, <1>3, <1>5, <1>6 DEF QuietInv, CalmOK, NoSpuriousError

\* A handler works on, and opens nothing yet.
LEMMA WorkingIsCalm ==
    ASSUME TypeOK, QuietInv, bot.pc # "idle", UNCHANGED <<inbox, activity, account, scan, synced>>,
           bot'.pc # "idle", bot'.job = bot.job, bot'.user = "active",
           bot'.pc = "close" => bot'.ending = "COMPLETED",
           \A i \in Ids : rows'[i].status # "ERROR" /\ (Open(rows'[i]) => Open(rows[i]))
    PROVE  QuietInv'
<1>1. Reached' = Reached
  BY DEF Reached
<1>2. StoryOK'
  BY <1>1, StoryGoesOn DEF QuietInv, StoryOK
<1> QED BY <1>2 DEF QuietInv, CalmOK, NoSpuriousError

\* The open row is the game of what was seen last, so an event that follows
\* on that either leaves it or completes it.
LEMMA NothingToBlame ==
    ASSUME IInv, QuietInv, bot.pc # "idle", NEW i \in Ids, Open(rows[i])
    PROVE  Ending(rows[i].game) \in {"", "COMPLETED"}
<1>1. synced # Unknown /\ rows[i].game = AliasOf(synced)
  BY DEF QuietInv, CalmOK, IInv, Safe, OpenRowIsSynced
<1>2. /\ bot.job.kind = "presence" /\ bot.user = "active"
      /\ bot.job.before = synced \/ (bot.job.before = Idle /\ bot.job.after = synced)
  BY <1>1 DEF QuietInv, StoryOK, CalmOK, Tells
<1>3. Ending(rows[i].game) = LiveEnding(rows[i].game, bot.job.before, bot.job.after)
  BY <1>2 DEF Ending
<1> QED BY <1>1, <1>2, <1>3 DEF LiveEnding, Continues

\* The handler's steps.
LEMMA HandlingIsCalm == ASSUME IInv, QuietInv, BotStep PROVE QuietInv'
<1>1. /\ TypeOK /\ bot.user = "active" /\ account = "active"
      /\ \A i \in Ids : rows[i].status # "ERROR"
      /\ rows \in [Ids -> Row] /\ bot \in Bot
  BY DEF IInv, TypeOK, QuietInv, CalmOK, NoSpuriousError
<1>2. bot.pc # "idle" /\ UNCHANGED <<inbox, activity, account>>
  BY DEF BotStep, BotLoadUser, BotLoadOpen, BotClose, BotStitch, BotResume, BotStart, userVars
<1>a. ASSUME NEW b \in Bot, Proceed(b), b.job = bot.job, b.user = bot.user,
             b.pc = "close" => b.ending = "COMPLETED",
             \A i \in Ids : rows'[i].status # "ERROR" /\ (Open(rows'[i]) => Open(rows[i]))
      PROVE  QuietInv'
  BY <1>1, <1>2, <1>a, EndingIsCalm, WorkingIsCalm DEF Proceed
<1>3. CASE BotLoadUser
  <2>1. bot'.pc = "open" /\ bot'.job = bot.job /\ bot'.user = "active"
    BY <1>1, <1>3 DEF BotLoadUser, Bot
  <2> QED BY <1>1, <1>2, <1>3, <2>1, WorkingIsCalm DEF BotLoadUser
<1>4. CASE BotLoadOpen
  <2>0. rows' = rows
    BY <1>4 DEF BotLoadOpen
  <2>1. CASE Proceed([bot EXCEPT !.pc = StartPc(Starting(NoGame)), !.game = Starting(NoGame)])
    <3> DEFINE b == [bot EXCEPT !.pc = StartPc(Starting(NoGame)), !.game = Starting(NoGame)]
    <3>1. b \in Bot /\ b.job = bot.job /\ b.user = bot.user /\ b.pc # "close"
      BY <1>1, Decision, StartPcCases DEF Bot
    <3> HIDE DEF b
    <3> QED BY <1>1, <1>a, <2>0, <2>1, <3>1 DEF b
  <2>2. ASSUME NEW i \in Ids, Open(rows[i]),
               Proceed([bot EXCEPT
                !.pc = IF Ending(rows[i].game) # "" THEN "close"
                       ELSE StartPc(Starting(rows[i].game)),
                !.row = i,
                !.ending = Ending(rows[i].game),
                !.game = Starting(rows[i].game)])
        PROVE  QuietInv'
    <3> DEFINE g == rows[i].game
               b == [bot EXCEPT !.pc = IF Ending(g) # "" THEN "close" ELSE StartPc(Starting(g)),
                                !.row = i, !.ending = Ending(g), !.game = Starting(g)]
    <3>1. g \in Games \cup {NoGame} /\ Ending(g) \in {"", "COMPLETED"}
      BY <1>1, <1>2, <2>2, NothingToBlame DEF Row
    <3> HIDE DEF g
    <3>2. /\ b \in Bot /\ b.job = bot.job /\ b.user = bot.user
          /\ b.pc = "close" => b.ending = "COMPLETED"
      BY <1>1, <3>1, Decision, StartPcCases DEF Bot
    <3> HIDE DEF b
    <3> QED BY <1>1, <1>a, <2>0, <2>2, <3>2 DEF b, g
  <2> QED BY <1>4, <2>1, <2>2 DEF BotLoadOpen
<1>5. CASE BotClose
  <2> DEFINE b == [bot EXCEPT !.pc = StartPc(bot.game), !.row = NoId, !.ending = ""]
             r == rows[bot.row]
  <2>1. b \in Bot /\ b.job = bot.job /\ b.user = bot.user /\ b.pc # "close"
    BY <1>1, StartPcCases DEF Bot
  <2>2. /\ bot.row \in Ids /\ bot.ending = "COMPLETED"
        /\ \A i \in Ids : Open(rows[i]) => i = bot.row
    BY <1>5 DEF BotClose, IInv, HandlerOK, QuietInv, CalmOK
  <2>3. ASSUME rows' = [rows EXCEPT ![bot.row] = Completed(r, now)], Proceed(b)
        PROVE  QuietInv'
    <3>1. Completed(r, now).status = "COMPLETED" /\ ~Open(Completed(r, now))
      BY <1>1, <2>2, StatusWritten DEF Open
    <3>2. \A i \in Ids : rows'[i].status # "ERROR" /\ (Open(rows'[i]) => Open(rows[i]))
      BY <1>1, <2>2, <2>3, <3>1
    <3> QED BY <1>a, <2>1, <2>3, <3>2
  <2>4. ASSUME UNCHANGED rows, Proceed(b) PROVE QuietInv'
    BY <1>1, <1>a, <2>1, <2>4
  <2>5. ASSUME ~Exists(r), UNCHANGED rows, Raise PROVE QuietInv'
    <3>1. \A i \in Ids : ~Open(rows'[i])
      BY <2>2, <2>5 DEF Exists, Open
    <3> QED BY <1>1, <1>2, <2>5, <3>1, EndingIsCalm
  <2> HIDE DEF b, r
  <2>6. \/ rows' = [rows EXCEPT ![bot.row] = Completed(r, now)] /\ Proceed(b)
        \/ UNCHANGED rows /\ Proceed(b)
        \/ ~Exists(r) /\ UNCHANGED rows /\ Raise
    BY <1>5, <2>2 DEF BotClose, b, r
  <2> QED BY <2>3, <2>4, <2>5, <2>6
<1>6. CASE BotStitch
  <2>1. bot'.pc \in {"start", "resume"} /\ bot'.job = bot.job /\ bot'.user = bot.user
    BY <1>1, <1>6 DEF BotStitch, Bot
  <2> QED BY <1>1, <1>2, <1>6, <2>1, WorkingIsCalm DEF BotStitch
<1>7. CASE BotResume \/ BotStart
  <2>1. \A i \in Ids : ~Open(rows[i])
    BY <1>7 DEF BotResume, BotStart, IInv, Safe, StartFindsNoOpenRow
  <2>2. ASSUME UNCHANGED rows, Raise \/ Finish PROVE QuietInv'
    BY <1>1, <1>2, <2>1, <2>2, EndingIsCalm
  <2>3. ASSUME bot' = [bot EXCEPT !.pc = "start", !.row = NoId], UNCHANGED <<rows, scan, synced>>
        PROVE  QuietInv'
    <3>1. bot'.pc = "start" /\ bot'.job = bot.job /\ bot'.user = bot.user
      BY <1>1, <2>3 DEF Bot
    <3> QED BY <1>1, <1>2, <2>3, <3>1, WorkingIsCalm
  <2>4. ASSUME NEW i, NEW r, rows' = [rows EXCEPT ![i] = r], i \in Ids => r.status # "ERROR", Finish
        PROVE  QuietInv'
    <3>1. \A j \in Ids : rows'[j].status # "ERROR"
      BY <1>1, <2>4
    <3> QED BY <1>1, <1>2, <2>4, <3>1, EndingIsCalm
  <2>5. CASE BotResume
    <3>1. bot.row \in Ids => Resumed(rows[bot.row]).status = "ONGOING"
      BY <1>1, StatusWritten
    <3> QED BY <2>2, <2>3, <2>4, <2>5, <3>1 DEF BotResume
  <2>6. CASE BotStart
    <3>1. NewOpenRow(bot.game, now).status = "ONGOING"
      BY DEF NewOpenRow, NoRow
    <3> QED BY <2>2, <2>4, <2>6, <3>1 DEF BotStart
  <2> QED BY <1>7, <2>5, <2>6
<1> QED BY <1>3, <1>4, <1>5, <1>6, <1>7 DEF BotStep

\* The rest cannot happen, or touches nothing of this.
LEMMA QuietPreserved ==
    ASSUME Undisturbed, IInv, QuietInv, [Next]_vars
    PROVE  QuietInv'
<1>1. /\ account = "active" /\ scan = "done"
      /\ \A f \in {"duplicate", "gap", "restart", "dbfail"} : f \notin Faults
      /\ "schedule" \notin ApiOps
  BY DEF QuietInv, CalmOK, Undisturbed
<1>2. ~DuplicatedChange /\ ~SilentChange /\ ~Restart /\ ~BotFail /\ ~StartupScan
        /\ ~ScheduleDeletion /\ ~CancelDeletion /\ ~PurgeAccount /\ ~Register
  BY <1>1 DEF DuplicatedChange, SilentChange, Restart, BotFail, StartupScan,
              ScheduleDeletion, CancelDeletion, PurgeAccount, Register
<1>a. ASSUME UNCHANGED <<rows, userVars, botVars>> PROVE QuietInv'
  <2>1. Reached' = Reached
    BY <1>a DEF Reached, botVars
  <2>2. StoryOK'
    BY <1>a, <2>1, StoryGoesOn DEF QuietInv, StoryOK, botVars
  <2> QED BY <1>a, <2>2 DEF QuietInv, CalmOK, NoSpuriousError, userVars, botVars
<1>3. ASSUME NEW q \in Reqs, \/ CreateBegin(q) \/ PatchBegin(q) \/ DeleteBegin(q)
                             \/ HardBegin(q) \/ RestoreBegin(q)
      PROVE  QuietInv'
  BY <1>a, <1>3 DEF CreateBegin, PatchBegin, DeleteBegin, HardBegin, RestoreBegin
<1>4. CASE Tick \/ UNCHANGED vars
  BY <1>a, <1>4 DEF Tick, vars
<1>5. CASE ActivityChange \/ Redelivery
  BY <1>5, GatewayIsCalm DEF IInv
<1>6. CASE BotTake
  BY <1>6, TakingIsCalm DEF IInv
<1>7. CASE BotStep
  BY <1>7, HandlingIsCalm
<1>8. CASE (\E q \in Reqs : Commit(q)) \/ HardDeleteSweep \/ FlickerPurge
  BY <1>8, OthersAreCalm
<1> QED BY <1>2, <1>3, <1>4, <1>5, <1>6, <1>7, <1>8 DEF Next, Environment

\* A user is never asked to repair a session when nothing went wrong around the
\* bot: whatever the user logs, edits, trashes, restores and removes meanwhile,
\* and however often a start is delivered again (reconcile_user's branch for an
\* open row that is neither game of the event).
THEOREM NothingEndsAsError ==
    ASSUME Undisturbed PROVE Spec => []NoSpuriousError
<1>1. Init => QuietInv
  <2> SUFFICES ASSUME Init PROVE QuietInv
    OBVIOUS
  <2>1. bot.pc = "idle" /\ bot.user = "active"
    BY DEF Init, IdleBot
  <2>2. "restart" \notin Faults /\ inbox = <<>> /\ Len(inbox) = 0
    BY DEF Init, Undisturbed
  <2>3. StoryOK
    BY <2>1, <2>2 DEF Init, StoryOK, Said, Reached
  <2>4. \A i \in Ids : ~Open(rows[i]) /\ rows[i].status # "ERROR"
    BY DEF Init, NoRow, Open
  <2> QED BY <2>1, <2>2, <2>3, <2>4 DEF Init, QuietInv, CalmOK, NoSpuriousError
<1>2. IInv /\ QuietInv /\ [Next]_vars => QuietInv'
  BY QuietPreserved
<1>3. QuietInv => NoSpuriousError
  BY DEF QuietInv, CalmOK
<1> QED BY <1>1, <1>2, <1>3, Inductive, PTL DEF Spec
=============================================================================
