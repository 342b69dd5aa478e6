---------------------------- MODULE LedgerProofs ----------------------------
(* Sessions implements SessionLedger for every instance in which no          *)
(* ?hard=true races a restore: each write lands on a row whose life allows   *)
(* it, whatever happened to the row since it was read.                       *)
EXTENDS SessionsRefinement, SessionsProofs

Life == [i \in Ids |-> LifeOf(rows[i])]

\* What is written to the table is a step in the life of a row, or of many.
LedgerStep == Ledger!LedgerNext \/ UNCHANGED Life

\* A key without a row tells nothing: start_session and create_session insert
\* under such a key. The ledger alone keeps this.
Blank == \A i \in Ids : Life[i].status = "NONE" => Life[i] = Ledger!Nothing

\* Requests are of the endpoints of the instance, and what ?hard=true is about to
\* remove by its key is still in the trash.
OpsAllowed == \A q \in Reqs : req[q].op = "" \/ req[q].op \in ApiOps
InTrash(r) == Exists(r) => Trashed(r)
HardMeetsTrash == \A q \in Reqs : req[q].op = "hard" => InTrash(rows[req[q].id])

\* Nothing is taken out of the trash behind the back of a ?hard=true request.
NoRestoreRace ==
    \/ "hard" \notin ApiOps
    \/ "restore" \notin ApiOps
    \/ \A p, q \in Reqs : p = q

-----------------------------------------------------------------------------
(* Lives                                                                     *)

\* The columns of a row that its life is made of.
LEMMA LifeColumns ==
    ASSUME NEW r \in Row
    PROVE  /\ LifeOf(r) \in Ledger!Lives
           /\ LifeOf(r).status = r.status /\ LifeOf(r).source = r.source
           /\ LifeOf(r).trashed = Trashed(r) /\ LifeOf(r).hidden = r.flicker
BY DEF LifeOf, Ledger!Lives, Row, Trashed

\* Lives with the same columns are the same.
LEMMA SameLife ==
    ASSUME NEW x \in Ledger!Lives, NEW y \in Ledger!Lives, x.status = y.status,
           x.source = y.source, x.trashed = y.trashed, x.hidden = y.hidden
    PROVE  x = y
BY DEF Ledger!Lives

\* What the ledger shows of a key.
LEMMA LifeOfKey ==
    ASSUME TypeOK, NEW i \in Ids
    PROVE  rows[i] \in Row /\ Life[i] = LifeOf(rows[i])
BY DEF Life, TypeOK

\* How a row that replaces another under the same key changes its life: the four
\* groups of columns the writers of the code touch.
LEMMA StatusAndHiding ==
    ASSUME NEW r \in Row, NEW s \in Row, s.source = r.source, s.trashed = r.trashed
    PROVE  LifeOf(s) = [LifeOf(r) EXCEPT !.status = s.status, !.hidden = s.flicker]
<1> DEFINE x == LifeOf(r)
           y == [x EXCEPT !.status = s.status, !.hidden = s.flicker]
<1>1. /\ x \in Ledger!Lives /\ x.source = r.source /\ x.trashed = Trashed(r)
      /\ s.status \in {"NONE", "ONGOING", "COMPLETED", "ERROR"} /\ s.flicker \in BOOLEAN
      /\ Trashed(s) = Trashed(r)
  BY LifeColumns DEF Row, Trashed
<1> HIDE DEF x
<1>2. /\ y \in Ledger!Lives /\ y.status = s.status /\ y.source = x.source
      /\ y.trashed = x.trashed /\ y.hidden = s.flicker
  BY <1>1 DEF Ledger!Lives
<1> HIDE DEF y
<1>3. LifeOf(s) = y
  BY <1>1, <1>2, LifeColumns, SameLife
<1> QED BY <1>3 DEF x, y

LEMMA StatusAndSource ==
    ASSUME NEW r \in Row, NEW s \in Row, s.trashed = r.trashed, s.flicker = r.flicker
    PROVE  LifeOf(s) = [LifeOf(r) EXCEPT !.status = s.status, !.source = s.source]
<1> DEFINE x == LifeOf(r)
           y == [x EXCEPT !.status = s.status, !.source = s.source]
<1>1. /\ x \in Ledger!Lives /\ x.hidden = r.flicker /\ x.trashed = Trashed(r)
      /\ s.status \in {"NONE", "ONGOING", "COMPLETED", "ERROR"}
      /\ s.source \in {"NONE", "BOT", "MANUAL"} /\ Trashed(s) = Trashed(r)
  BY LifeColumns DEF Row, Trashed
<1> HIDE DEF x
<1>2. /\ y \in Ledger!Lives /\ y.status = s.status /\ y.source = s.source
      /\ y.trashed = x.trashed /\ y.hidden = x.hidden
  BY <1>1 DEF Ledger!Lives
<1> HIDE DEF y
<1>3. LifeOf(s) = y
  BY <1>1, <1>2, LifeColumns, SameLife
<1> QED BY <1>3 DEF x, y

LEMMA StatusAlone ==
    ASSUME NEW r \in Row, NEW s \in Row, s.source = r.source, s.trashed = r.trashed,
           s.flicker = r.flicker
    PROVE  LifeOf(s) = [LifeOf(r) EXCEPT !.status = s.status]
BY DEF LifeOf, Trashed

LEMMA TrashAlone ==
    ASSUME NEW r \in Row, NEW s \in Row, s.status = r.status, s.source = r.source,
           s.flicker = r.flicker
    PROVE  LifeOf(s) = [LifeOf(r) EXCEPT !.trashed = Trashed(s)]
BY DEF LifeOf

\* A key without a row.
LEMMA NoRowLife == NoRow \in Row /\ LifeOf(NoRow) = Ledger!Nothing
BY NoRowGood DEF LifeOf, NoRow, Trashed, Row, Time, Ledger!Nothing

\* A row that is inserted is neither trashed nor hidden.
LEMMA InsertedLife ==
    ASSUME NEW s \in Row, s.trashed = NoTime, s.flicker = FALSE
    PROVE  LifeOf(s) = [Ledger!Nothing EXCEPT !.status = s.status, !.source = s.source]
<1>1. NoRow.trashed = NoTime /\ NoRow.flicker = FALSE
  BY DEF NoRow
<1> QED BY <1>1, NoRowLife, StatusAndSource

\* One row is written.
LEMMA OneLife ==
    ASSUME TypeOK, NEW i \in Ids, NEW r \in Row, rows' = [rows EXCEPT ![i] = r]
    PROVE  Life' = [Life EXCEPT ![i] = LifeOf(r)]
BY DEF Life, TypeOK

\* Nothing is written, or a row that lives on as before.
LEMMA NoLife ==
    ASSUME UNCHANGED rows
    PROVE  LedgerStep
BY DEF LedgerStep, Life

\* When no session of the user is open, none is in the ledger.
LEMMA OpenLives ==
    ASSUME IInv, \A i \in Ids : ~Open(rows[i])
    PROVE  Ledger!NobodyOpen
<1>1. ASSUME NEW i \in Ids, Life[i].status = "ONGOING" PROVE FALSE
  <2>1. rows[i].status = "ONGOING" /\ RowOK(rows[i], now)
    BY <1>1, LifeOfKey, LifeColumns DEF IInv, Safe, RowsOK
  <2> QED BY <2>1 DEF RowOK, Open
<1> QED BY <1>1 DEF Ledger!NobodyOpen, Life

\* A statement that removes rows removes their lives.
LEMMA RemovedLives ==
    ASSUME TypeOK, NEW gone \in SUBSET Ids,
           rows' = [i \in Ids |-> IF i \in gone THEN NoRow ELSE rows[i]],
           \/ \A i \in gone : Trashed(rows[i])
           \/ \A i \in gone : rows[i].flicker
           \/ gone = Ids
    PROVE  LedgerStep
<1>1. Life' = [i \in Ids |-> IF i \in gone THEN Ledger!Nothing ELSE Life[i]]
  BY NoRowLife DEF Life
<1>2. \A i \in gone : Life[i].trashed = Trashed(rows[i]) /\ Life[i].hidden = rows[i].flicker
  BY LifeOfKey, LifeColumns
<1>3. Ledger!Remove(gone)
  BY <1>1, <1>2 DEF Ledger!Remove, Life
<1> QED BY <1>3 DEF LedgerStep, Ledger!LedgerNext

-----------------------------------------------------------------------------
(* The bot                                                                   *)

\* complete_session claims a live ONGOING row.
LEMMA CompleteLives ==
    ASSUME IInv, NEW i \in Ids, Open(rows[i]),
           rows' = [rows EXCEPT ![i] = Completed(rows[i], now)]
    PROVE  LedgerStep
<1> DEFINE r == rows[i]
           s == Completed(r, now)
<1>1. r \in Row /\ s \in Row /\ TypeOK /\ r.status = "ONGOING"
  BY CompletedGood DEF IInv, TypeOK, Safe, RowsOK, Open
<1>2. /\ s.status = "COMPLETED" /\ s.source = r.source /\ s.trashed = r.trashed
      /\ s.flicker \in BOOLEAN
  BY <1>1 DEF Completed, Row
<1>3. Life' = [Life EXCEPT ![i] = LifeOf(s)]
  BY <1>1, OneLife
<1> HIDE DEF s
<1>4. LifeOf(s) = [LifeOf(r) EXCEPT !.status = "COMPLETED", !.hidden = s.flicker]
  <2>1. LifeOf(s) = [LifeOf(r) EXCEPT !.status = s.status, !.hidden = s.flicker]
    BY <1>1, <1>2, StatusAndHiding
  <2> QED BY <1>2, <2>1
<1>5. Life[i] = LifeOf(r) /\ Life[i].status = "ONGOING"
  BY <1>1, LifeOfKey, LifeColumns
<1>6. Ledger!Close(i)
  BY <1>2, <1>3, <1>4, <1>5 DEF Ledger!Close, Life
<1> QED BY <1>6 DEF LedgerStep, Ledger!LedgerNext

\* error_session claims one; so does the UPDATE of schedule_deletion.
LEMMA ErrorLives ==
    ASSUME IInv, NEW i \in Ids, Open(rows[i]), rows' = [rows EXCEPT ![i] = Errored(rows[i])]
    PROVE  LedgerStep
<1> DEFINE r == rows[i]
           s == Errored(r)
<1>1. r \in Row /\ s \in Row /\ TypeOK /\ r.status = "ONGOING"
  BY ErroredGood DEF IInv, TypeOK, Safe, RowsOK, Open
<1>2. /\ s.status = "ERROR" /\ s.source = r.source /\ s.trashed = r.trashed
      /\ s.flicker = r.flicker
  BY <1>1 DEF Errored, Row
<1>3. Life' = [Life EXCEPT ![i] = LifeOf(s)]
  BY <1>1, OneLife
<1> HIDE DEF s
<1>4. LifeOf(s) = [LifeOf(r) EXCEPT !.status = "ERROR"]
  BY <1>1, <1>2, StatusAlone
<1>5. Life[i] = LifeOf(r) /\ Life[i].status = "ONGOING"
  BY <1>1, LifeOfKey, LifeColumns
<1>6. Ledger!Break(i)
  BY <1>3, <1>4, <1>5 DEF Ledger!Break, Life
<1> QED BY <1>6 DEF LedgerStep, Ledger!LedgerNext

\* The row the handler ends is the one it found open, or it writes nothing.
LEMMA CloseLives == ASSUME IInv, BotClose PROVE LedgerStep
<1>1. bot.row \in Ids
  BY DEF BotClose, IInv, HandlerOK
<1> QED BY <1>1, NoLife, CompleteLives, ErrorLives DEF BotClose

\* The claim of start_or_resume_session repeats what a life must be to go on.
LEMMA ResumeLives == ASSUME IInv, BotResume PROVE LedgerStep
<1> DEFINE i == bot.row
           r == rows[i]
           s == Resumed(r)
<1>1. CASE UNCHANGED rows
  BY <1>1, NoLife
<1>2. ASSUME r.status = "COMPLETED", r.source = "BOT", ~Trashed(r),
             rows' = [rows EXCEPT ![i] = s]
      PROVE  LedgerStep
  <2>1. /\ i \in Ids /\ TypeOK /\ r \in Row /\ RowOK(r, now) /\ now \in Nat
        /\ \A j \in Ids : ~Open(rows[j])
    BY DEF BotResume, IInv, HandlerOK, TypeOK, Safe, RowsOK, StartFindsNoOpenRow
  <2>2. /\ s \in Row /\ s.status = "ONGOING" /\ s.source = r.source
        /\ s.trashed = r.trashed /\ s.flicker = FALSE
    BY <1>2, <2>1, ResumedGood DEF Resumed, Row
  <2>3. Life' = [Life EXCEPT ![i] = LifeOf(s)]
    BY <1>2, <2>1, <2>2, OneLife
  <2> HIDE DEF s
  <2>4. LifeOf(s) = [LifeOf(r) EXCEPT !.status = "ONGOING", !.hidden = FALSE]
    BY <2>1, <2>2, StatusAndHiding
  <2>5. /\ Life[i] = LifeOf(r) /\ Life[i].status = "COMPLETED" /\ Life[i].source = "BOT"
        /\ Life[i].trashed = FALSE
    BY <1>2, <2>1, LifeOfKey, LifeColumns
  <2>6. Ledger!NobodyOpen
    BY <2>1, OpenLives
  <2> HIDE DEF i
  <2>7. Ledger!Resume(i)
    BY <2>3, <2>4, <2>5, <2>6 DEF Ledger!Resume, Life
  <2> QED BY <2>1, <2>7 DEF LedgerStep, Ledger!LedgerNext
<1> QED BY <1>1, <1>2 DEF BotResume

\* start_session inserts under a key without a row.
LEMMA StartLives == ASSUME IInv, Blank, BotStart PROVE LedgerStep
<1> DEFINE s == NewOpenRow(bot.game, now)
<1>1. CASE UNCHANGED rows
  BY <1>1, NoLife
<1>2. ASSUME NEW i \in Fresh, rows' = [rows EXCEPT ![i] = s]
      PROVE  LedgerStep
  <2>1. /\ bot.game \in Games /\ now \in Nat /\ i \in Ids /\ TypeOK
        /\ rows[i].status = "NONE" /\ \A j \in Ids : ~Open(rows[j])
    BY DEF BotStart, IInv, HandlerOK, TypeOK, Bot, Safe, StartFindsNoOpenRow, Fresh, Exists
  <2>2. s \in Row /\ s.status = "ONGOING" /\ s.source = "BOT" /\ s.flicker = FALSE
           /\ s.trashed = NoTime
    BY <2>1, NewOpenRowGood DEF NewOpenRow, NoRow
  <2>3. Life' = [Life EXCEPT ![i] = LifeOf(s)]
    BY <1>2, <2>1, <2>2, OneLife
  <2> HIDE DEF s
  <2>4. LifeOf(s) = [Ledger!Nothing EXCEPT !.status = "ONGOING", !.source = "BOT"]
    <3>1. LifeOf(s) = [Ledger!Nothing EXCEPT !.status = s.status, !.source = s.source]
      BY <2>2, InsertedLife
    <3> QED BY <2>2, <3>1
  <2>5. Life[i] = Ledger!Nothing
    BY <2>1, LifeOfKey, LifeColumns DEF Blank
  <2>6. Ledger!NobodyOpen
    BY <2>1, OpenLives
  <2>7. Ledger!Open(i)
    BY <2>3, <2>4, <2>5, <2>6 DEF Ledger!Open, Life
  <2> QED BY <2>1, <2>7 DEF LedgerStep, Ledger!LedgerNext
<1> QED BY <1>1, <1>2 DEF BotStart
-----------------------------------------------------------------------------
(* Requests                                                                  *)

\* create_session inserts under a key without a row, or is refused.
LEMMA CreateLives == ASSUME IInv, Blank, NEW q \in Reqs, CreateCommit(q) PROVE LedgerStep
<1> DEFINE s == ManualRow(req[q].game, req[q].start, req[q].end)
<1>1. CASE UNCHANGED rows
  BY <1>1, NoLife
<1>2. ASSUME NEW i \in Fresh, rows' = [rows EXCEPT ![i] = s]
      PROVE  LedgerStep
  <2>1. /\ RequestOK(req[q]) /\ req[q].op = "create" /\ now \in Nat /\ i \in Ids /\ TypeOK
        /\ rows[i].status = "NONE"
    BY DEF CreateCommit, IInv, RequestsOK, TypeOK, Fresh, Exists
  <2>2. s \in Row /\ s.status = "COMPLETED" /\ s.source = "MANUAL" /\ s.flicker = FALSE
           /\ s.trashed = NoTime
    BY <2>1, ManualRowGood DEF RequestOK, ManualRow, NoRow
  <2>3. Life' = [Life EXCEPT ![i] = LifeOf(s)]
    BY <1>2, <2>1, <2>2, OneLife
  <2> HIDE DEF s
  <2>4. LifeOf(s) = [Ledger!Nothing EXCEPT !.status = "COMPLETED", !.source = "MANUAL"]
    <3>1. LifeOf(s) = [Ledger!Nothing EXCEPT !.status = s.status, !.source = s.source]
      BY <2>2, InsertedLife
    <3> QED BY <2>2, <3>1
  <2>5. Life[i] = Ledger!Nothing
    BY <2>1, LifeOfKey, LifeColumns DEF Blank
  <2>6. Ledger!Log(i)
    BY <2>3, <2>4, <2>5 DEF Ledger!Log, Life
  <2> QED BY <2>1, <2>6 DEF LedgerStep, Ledger!LedgerNext
<1> QED BY <1>1, <1>2 DEF CreateCommit, Store

\* patch_session's UPDATE lands on a row that has ended and is in sight, for what
\* was in sight when it was loaded cannot have been hidden since (PatchOK).
LEMMA PatchLives == ASSUME IInv, NEW q \in Reqs, PatchCommit(q) PROVE LedgerStep
<1> DEFINE i == req[q].id
           r == rows[i]
           s == Repaired(r, req[q].end, req[q].leaving)
<1>1. CASE UNCHANGED rows
  BY <1>1, NoLife
<1>2. ASSUME r.status \in {"COMPLETED", "ERROR"}, rows' = [rows EXCEPT ![i] = s]
      PROVE  LedgerStep
  <2>1. /\ RequestOK(req[q]) /\ req[q].op = "patch" /\ now \in Nat /\ TypeOK
        /\ req[q] \in Req
    BY DEF PatchCommit, IInv, RequestsOK, TypeOK
  <2>2. /\ i \in Ids /\ req[q].end \in Nat /\ req[q].leaving \in BOOLEAN /\ r \in Row
        /\ RowOK(r, now) /\ ~r.flicker /\ WithinBounds(r.start, req[q].end, now, FALSE)
    BY <1>2, <2>1 DEF RequestOK, PatchOK, Exists, Req, IInv, TypeOK, Safe, RowsOK
  <2>3. /\ s \in Row /\ s.status = "COMPLETED" /\ s.source = "MANUAL"
        /\ s.trashed = r.trashed /\ s.flicker = r.flicker
    <3>1. s \in Row
      BY <1>2, <2>1, <2>2, RepairedGood
    <3> QED BY <2>2, <3>1 DEF Repaired, Row
  <2>4. Life' = [Life EXCEPT ![i] = LifeOf(s)]
    BY <1>2, <2>1, <2>2, <2>3, OneLife
  <2> HIDE DEF s, i
  <2>5. LifeOf(s) = [LifeOf(r) EXCEPT !.status = "COMPLETED", !.source = "MANUAL"]
    <3>1. LifeOf(s) = [LifeOf(r) EXCEPT !.status = s.status, !.source = s.source]
      BY <2>2, <2>3, StatusAndSource
    <3> QED BY <2>3, <3>1
  <2>6. Life[i] = LifeOf(r) /\ Life[i].status \in {"COMPLETED", "ERROR"} /\ ~Life[i].hidden
    BY <1>2, <2>1, <2>2, LifeOfKey, LifeColumns
  <2>7. Ledger!Repair(i)
    BY <2>4, <2>5, <2>6 DEF Ledger!Repair, Ledger!Ended, Life
  <2> QED BY <2>2, <2>7 DEF LedgerStep, Ledger!LedgerNext
<1> QED BY <1>1, <1>2 DEF PatchCommit, Store

\* delete_session's UPDATE repeats everything a life must be to be trashed.
LEMMA DeleteLives == ASSUME IInv, NEW q \in Reqs, DeleteCommit(q) PROVE LedgerStep
<1> DEFINE i == req[q].id
           r == rows[i]
           s == [r EXCEPT !.trashed = now]
<1>1. CASE UNCHANGED rows
  BY <1>1, NoLife
<1>2. ASSUME r.status \in {"COMPLETED", "ERROR"}, ~Trashed(r), ~r.flicker,
             rows' = [rows EXCEPT ![i].trashed = now]
      PROVE  LedgerStep
  <2>1. /\ i \in Ids /\ now \in Nat /\ TypeOK /\ r \in Row
    BY DEF DeleteCommit, IInv, RequestsOK, RequestOK, TypeOK
  <2>2. /\ s \in Row /\ s.status = r.status /\ s.source = r.source
        /\ s.flicker = r.flicker /\ Trashed(s) = TRUE
    <3>1. s \in Row /\ s.status = r.status /\ s.source = r.source
      BY <2>1 DEF Row, Time
    <3>2. s.flicker = r.flicker
      BY <2>1 DEF Row
    <3>3. s.trashed = now
      BY <2>1 DEF Row
    <3>4. now # NoTime
      BY <2>1 DEF NoTime
    <3> QED BY <3>1, <3>2, <3>3, <3>4 DEF Trashed
  <2>3. rows' = [rows EXCEPT ![i] = s]
    BY <1>2
  <2> HIDE DEF s, i
  <2>4. Life' = [Life EXCEPT ![i] = LifeOf(s)]
    BY <2>1, <2>2, <2>3, OneLife
  <2>5. LifeOf(s) = [LifeOf(r) EXCEPT !.trashed = TRUE]
    <3>1. LifeOf(s) = [LifeOf(r) EXCEPT !.trashed = Trashed(s)]
      BY <2>1, <2>2, TrashAlone
    <3> QED BY <2>2, <3>1
  <2>6. /\ Life[i] = LifeOf(r) /\ Life[i].status \in {"COMPLETED", "ERROR"}
        /\ ~Life[i].hidden /\ ~Life[i].trashed
    BY <1>2, <2>1, LifeOfKey, LifeColumns
  <2>7. Ledger!Trash(i)
    BY <2>4, <2>5, <2>6 DEF Ledger!Trash, Ledger!Ended, Life
  <2> QED BY <2>1, <2>7 DEF LedgerStep, Ledger!LedgerNext
<1> QED BY <1>1, <1>2 DEF DeleteCommit

\* restore_session writes by primary key: what it meets is in the trash, or the
\* write changes nothing.
LEMMA RestoreLives == ASSUME IInv, NEW q \in Reqs, RestoreCommit(q) PROVE LedgerStep
<1> DEFINE i == req[q].id
           r == rows[i]
           s == [r EXCEPT !.trashed = NoTime]
<1>1. CASE UNCHANGED rows
  BY <1>1, NoLife
<1>2. ASSUME rows' = [rows EXCEPT ![i] = s]
      PROVE  LedgerStep
  <2>1. /\ i \in Ids /\ TypeOK /\ r \in Row
    BY DEF RestoreCommit, IInv, RequestsOK, RequestOK, TypeOK
  <2>2. /\ s \in Row /\ s.status = r.status /\ s.source = r.source
        /\ s.flicker = r.flicker /\ Trashed(s) = FALSE
    BY <2>1 DEF Row, Time, Trashed
  <2>3. Life' = [Life EXCEPT ![i] = LifeOf(s)]
    BY <1>2, <2>1, <2>2, OneLife
  <2>4. CASE ~Trashed(r)
    <3>1. s = r
      BY <2>1, <2>4 DEF Row, Trashed
    <3>2. rows' = rows
      BY <1>2, <2>1, <3>1 DEF TypeOK
    <3> QED BY <3>2, NoLife
  <2>5. CASE Trashed(r)
    <3> HIDE DEF s, i
    <3>1. LifeOf(s) = [LifeOf(r) EXCEPT !.trashed = FALSE]
      <4>1. LifeOf(s) = [LifeOf(r) EXCEPT !.trashed = Trashed(s)]
        BY <2>1, <2>2, TrashAlone
      <4> QED BY <2>2, <4>1
    <3>2. Life[i] = LifeOf(r) /\ Life[i].trashed
      BY <2>1, <2>5, LifeOfKey, LifeColumns
    <3>3. Ledger!Restore(i)
      BY <2>3, <3>1, <3>2 DEF Ledger!Restore, Life
    <3> QED BY <2>1, <3>3 DEF LedgerStep, Ledger!LedgerNext
  <2> QED BY <2>4, <2>5
<1> QED BY <1>1, <1>2 DEF RestoreCommit, Store

\* ?hard=true removes what is still in the trash.
LEMMA HardLives ==
    ASSUME IInv, Blank, HardMeetsTrash, NEW q \in Reqs, HardCommit(q)
    PROVE  LedgerStep
<1> DEFINE i == req[q].id
<1>1. i \in Ids /\ TypeOK /\ rows' = [rows EXCEPT ![i] = NoRow] /\ InTrash(rows[i])
  BY DEF HardCommit, HardMeetsTrash, IInv, RequestsOK, RequestOK
<1> HIDE DEF i
<1>2. CASE Exists(rows[i])
  <2>1. rows' = [j \in Ids |-> IF j \in {i} THEN NoRow ELSE rows[j]]
    BY <1>1 DEF TypeOK
  <2>2. \A j \in {i} : Trashed(rows[j])
    BY <1>1, <1>2 DEF InTrash
  <2> QED BY <1>1, <2>1, <2>2, RemovedLives
<1>3. CASE ~Exists(rows[i])
  <2>1. Life[i] = Ledger!Nothing
    BY <1>1, <1>3, LifeOfKey, LifeColumns DEF Blank, Exists
  <2>2. Life' = [Life EXCEPT ![i] = Ledger!Nothing]
    BY <1>1, OneLife, NoRowLife
  <2>3. Life' = Life
    BY <1>1, <2>1, <2>2 DEF Life
  <2> QED BY <2>3 DEF LedgerStep
<1> QED BY <1>2, <1>3

-----------------------------------------------------------------------------
(* Account deletion and the nightly tasks                                    *)

\* schedule_deletion ends the open session, of which there is at most one.
LEMMA ScheduleLives == ASSUME IInv, ScheduleDeletion PROVE LedgerStep
<1>1. TypeOK /\ rows' = [i \in Ids |-> IF Open(rows[i]) THEN Errored(rows[i]) ELSE rows[i]]
  BY DEF ScheduleDeletion, IInv
<1>2. CASE \A i \in Ids : ~Open(rows[i])
  <2>1. rows' = rows
    BY <1>1, <1>2 DEF TypeOK
  <2> QED BY <2>1, NoLife
<1>3. ASSUME NEW i \in Ids, Open(rows[i]) PROVE LedgerStep
  <2>1. \A j \in Ids : Open(rows[j]) => j = i
    BY <1>3 DEF IInv, Safe, OneTimeline, OneLine, OpenFree
  <2>2. rows' = [rows EXCEPT ![i] = Errored(rows[i])]
    BY <1>1, <1>3, <2>1 DEF TypeOK
  <2> QED BY <1>3, <2>2, ErrorLives
<1> QED BY <1>2, <1>3

\* The sweeps and the account purge.
LEMMA NightLives ==
    ASSUME IInv, HardDeleteSweep \/ FlickerPurge \/ PurgeAccount
    PROVE  LedgerStep
<1>1. CASE HardDeleteSweep
  <2> DEFINE gone == {i \in Ids : Trashed(rows[i]) /\ rows[i].trashed < now - TrashRetention}
  <2>1. gone \in SUBSET Ids /\ \A i \in gone : Trashed(rows[i])
    OBVIOUS
  <2>2. rows' = [i \in Ids |-> IF i \in gone THEN NoRow ELSE rows[i]]
    BY <1>1 DEF HardDeleteSweep, Sweep
  <2> QED BY <2>1, <2>2, RemovedLives DEF IInv
<1>2. CASE FlickerPurge
  <2> DEFINE gone == {i \in Ids : /\ rows[i].flicker /\ rows[i].status = "COMPLETED"
                                  /\ rows[i].end < now - GcMargin}
  <2>1. gone \in SUBSET Ids /\ \A i \in gone : rows[i].flicker
    OBVIOUS
  <2>2. rows' = [i \in Ids |-> IF i \in gone THEN NoRow ELSE rows[i]]
    BY <1>2 DEF FlickerPurge, Sweep
  <2> QED BY <2>1, <2>2, RemovedLives DEF IInv
<1>3. CASE PurgeAccount
  <2>1. rows' = [i \in Ids |-> IF i \in Ids THEN NoRow ELSE rows[i]]
    BY <1>3 DEF PurgeAccount
  <2> QED BY <2>1, RemovedLives DEF IInv
<1> QED BY <1>1, <1>2, <1>3

-----------------------------------------------------------------------------
(* The theorem                                                               *)

\* Everything else leaves the table alone.
LEMMA StepLives ==
    ASSUME IInv, Blank, HardMeetsTrash, [Next]_vars
    PROVE  LedgerStep
<1>1. CASE \/ ActivityChange \/ DuplicatedChange \/ Redelivery \/ SilentChange \/ Restart
           \/ CancelDeletion \/ Register \/ StartupScan \/ BotTake \/ BotLoadUser
           \/ BotLoadOpen \/ BotStitch \/ BotFail \/ Tick \/ UNCHANGED vars
  <2>1. UNCHANGED rows
    BY <1>1 DEF ActivityChange, DuplicatedChange, Redelivery, SilentChange, Restart,
       CancelDeletion, Register, StartupScan, BotTake, BotLoadUser, BotLoadOpen, BotStitch,
       BotFail, Tick, vars
  <2> QED BY <2>1, NoLife
<1>2. ASSUME NEW q \in Reqs, \/ CreateBegin(q) \/ PatchBegin(q) \/ DeleteBegin(q)
                             \/ HardBegin(q) \/ RestoreBegin(q)
      PROVE  LedgerStep
  <2>1. UNCHANGED rows
    BY <1>2 DEF CreateBegin, PatchBegin, DeleteBegin, HardBegin, RestoreBegin
  <2> QED BY <2>1, NoLife
<1>3. ASSUME NEW q \in Reqs, Commit(q) PROVE LedgerStep
  BY <1>3, CreateLives, PatchLives, DeleteLives, HardLives, RestoreLives DEF Commit
<1>4. CASE BotClose \/ BotResume \/ BotStart
  BY <1>4, CloseLives, ResumeLives, StartLives
<1>5. CASE ScheduleDeletion \/ HardDeleteSweep \/ FlickerPurge \/ PurgeAccount
  BY <1>5, ScheduleLives, NightLives
<1> QED BY <1>1, <1>2, <1>3, <1>4, <1>5 DEF Next, Environment, BotStep

\* A step of the ledger never leaves traces under a key without a session.
LEMMA LedgerKeepsBlank == ASSUME Blank, LedgerStep PROVE Blank'
<1>1. CASE UNCHANGED Life
  BY <1>1 DEF Blank
<1>2. ASSUME NEW k \in Ids, NEW x, x.status # "NONE", Life' = [Life EXCEPT ![k] = x]
      PROVE  Blank'
  BY <1>2 DEF Blank, Life
<1>3. ASSUME NEW k \in Ids, Ledger!Open(k) \/ Ledger!Log(k) PROVE Blank'
  <2>1. PICK x : x.status # "NONE" /\ Life' = [Life EXCEPT ![k] = x]
    BY <1>3 DEF Ledger!Open, Ledger!Log, Ledger!Nothing, Life
  <2> QED BY <1>2, <2>1
<1>4. ASSUME NEW k \in Ids, \/ Ledger!Close(k) \/ Ledger!Break(k) \/ Ledger!Resume(k)
                            \/ Ledger!Repair(k)
      PROVE  Blank'
  <2>1. PICK x : x.status # "NONE" /\ Life' = [Life EXCEPT ![k] = x]
    BY <1>4 DEF Ledger!Close, Ledger!Break, Ledger!Resume, Ledger!Repair, Life, LifeOf
  <2> QED BY <1>2, <2>1
<1>5. ASSUME NEW k \in Ids, Ledger!Trash(k) \/ Ledger!Restore(k) PROVE Blank'
  <2>1. Life[k].status # "NONE"
    BY <1>5 DEF Ledger!Trash, Ledger!Restore, Ledger!Ended, Ledger!Nothing, Blank, Life
  <2>2. PICK x : x.status = Life[k].status /\ Life' = [Life EXCEPT ![k] = x]
    BY <1>5 DEF Ledger!Trash, Ledger!Restore, Life, LifeOf
  <2> QED BY <1>2, <2>1, <2>2
<1>6. ASSUME NEW gone \in SUBSET Ids, Ledger!Remove(gone) PROVE Blank'
  BY <1>6 DEF Blank, Life, Ledger!Remove
<1> QED BY <1>1, <1>3, <1>4, <1>5, <1>6 DEF LedgerStep, Ledger!LedgerNext

\* A request goes on, is answered, or is let in for an endpoint of the instance;
\* ?hard=true is let in for what is in the trash.
Moves(q) ==
    \/ req'[q] = req[q]
    \/ req'[q] = NoReq
    \/ /\ req'[q].op \in ApiOps /\ UNCHANGED rows
       /\ req'[q].op = "hard" => InTrash(rows[req'[q].id])

\* The step of one request.
LEMMA OneMoves ==
    ASSUME TypeOK, NEW q \in Reqs, NEW a, req' = [req EXCEPT ![q] = a],
           a.op \in ApiOps, UNCHANGED rows, a.op = "hard" => InTrash(rows[a.id])
    PROVE  \A p \in Reqs : Moves(p)
BY DEF TypeOK, Moves

LEMMA AllMove ==
    ASSUME TypeOK, [Next]_vars
    PROVE  \A q \in Reqs : Moves(q)
<1>1. ASSUME NEW q \in Reqs, CreateBegin(q) PROVE \A p \in Reqs : Moves(p)
  <2>1. PICK a : a.op = "create" /\ req' = [req EXCEPT ![q] = a]
    BY <1>1 DEF CreateBegin, NoReq
  <2>2. "create" \in ApiOps /\ UNCHANGED rows
    BY <1>1 DEF CreateBegin, Begins
  <2> QED BY <2>1, <2>2, OneMoves
<1>2. ASSUME NEW q \in Reqs, PatchBegin(q) PROVE \A p \in Reqs : Moves(p)
  <2>1. PICK a : a.op = "patch" /\ req' = [req EXCEPT ![q] = a]
    BY <1>2 DEF PatchBegin, NoReq
  <2>2. "patch" \in ApiOps /\ UNCHANGED rows
    BY <1>2 DEF PatchBegin, Begins
  <2> QED BY <2>1, <2>2, OneMoves
<1>3. ASSUME NEW q \in Reqs, DeleteBegin(q) PROVE \A p \in Reqs : Moves(p)
  <2>1. PICK a : a.op = "delete" /\ req' = [req EXCEPT ![q] = a]
    BY <1>3 DEF DeleteBegin, NoReq
  <2>2. "delete" \in ApiOps /\ UNCHANGED rows
    BY <1>3 DEF DeleteBegin, Begins
  <2> QED BY <2>1, <2>2, OneMoves
<1>4. ASSUME NEW q \in Reqs, HardBegin(q) PROVE \A p \in Reqs : Moves(p)
  <2>1. PICK i \in Ids : /\ Trashed(rows[i])
                         /\ req' = [req EXCEPT ![q] = [NoReq EXCEPT !.op = "hard", !.id = i]]
    BY <1>4 DEF HardBegin
  <2>2. PICK a : a.op = "hard" /\ a.id = i /\ req' = [req EXCEPT ![q] = a]
    BY <2>1 DEF NoReq
  <2>3. "hard" \in ApiOps /\ UNCHANGED rows
    BY <1>4 DEF HardBegin, Begins
  <2>4. a.op = "hard" => InTrash(rows[a.id])
    BY <2>1, <2>2 DEF InTrash
  <2> QED BY <2>2, <2>3, <2>4, OneMoves
<1>5. ASSUME NEW q \in Reqs, RestoreBegin(q) PROVE \A p \in Reqs : Moves(p)
  <2>1. PICK a : a.op = "restore" /\ req' = [req EXCEPT ![q] = a]
    BY <1>5 DEF RestoreBegin, NoReq
  <2>2. "restore" \in ApiOps /\ UNCHANGED rows
    BY <1>5 DEF RestoreBegin, Begins
  <2> QED BY <2>1, <2>2, OneMoves
<1>6. ASSUME NEW q \in Reqs, Commit(q) PROVE \A p \in Reqs : Moves(p)
  BY <1>6 DEF Commit, CreateCommit, PatchCommit, DeleteCommit, HardCommit, RestoreCommit,
     Ends, TypeOK, Moves
<1>7. CASE \/ ActivityChange \/ DuplicatedChange \/ Redelivery \/ SilentChange \/ Restart
           \/ ScheduleDeletion \/ CancelDeletion \/ Register \/ StartupScan \/ BotTake
           \/ BotStep \/ BotFail \/ HardDeleteSweep \/ FlickerPurge \/ PurgeAccount \/ Tick
           \/ UNCHANGED vars
  <2>1. UNCHANGED req
    BY <1>7 DEF ActivityChange, DuplicatedChange, Redelivery, SilentChange, Restart,
       ScheduleDeletion, CancelDeletion, Register, StartupScan, BotTake, BotStep, BotLoadUser,
       BotLoadOpen, BotClose, BotStitch, BotResume, BotStart, BotFail, HardDeleteSweep,
       FlickerPurge, Sweep, PurgeAccount, Tick, vars
  <2> QED BY <2>1 DEF Moves
<1> QED BY <1>1, <1>2, <1>3, <1>4, <1>5, <1>6, <1>7 DEF Next, Environment

\* Only the endpoints of the instance are used.
LEMMA KeepsOpsAllowed == ASSUME TypeOK, OpsAllowed, [Next]_vars PROVE OpsAllowed'
<1>1. ASSUME NEW q \in Reqs PROVE req'[q].op = "" \/ req'[q].op \in ApiOps
  <2>1. Moves(q) /\ (req[q].op = "" \/ req[q].op \in ApiOps)
    BY AllMove DEF OpsAllowed
  <2>2. req'[q] = req[q] \/ req'[q] = NoReq \/ req'[q].op \in ApiOps
    BY <2>1 DEF Moves
  <2>3. NoReq.op = ""
    BY DEF NoReq
  <2> QED BY <2>1, <2>2, <2>3
<1> QED BY <1>1 DEF OpsAllowed

\* One row is written, and not taken out of the trash.
LEMMA TrashedStays ==
    ASSUME TypeOK, NEW k \in Ids, NEW r, NEW i \in Ids, InTrash(rows[i]),
           rows' = [rows EXCEPT ![k] = r], k = i => InTrash(r)
    PROVE  InTrash(rows'[i])
BY DEF TypeOK

\* Nobody but restore_session takes a row out of the trash.
LEMMA TrashKept ==
    ASSUME IInv, [Next]_vars, \A q \in Reqs : ~RestoreCommit(q),
           NEW i \in Ids, i \notin Fresh, InTrash(rows[i])
    PROVE  InTrash(rows'[i])
<1>1. TypeOK /\ rows[i] \in Row /\ ~Open(rows[i])
  <2>1. TypeOK /\ rows[i] \in Row
    BY DEF IInv, TypeOK
  <2> QED BY <2>1 DEF InTrash, Open, Exists
<1>2. CASE UNCHANGED rows
  BY <1>2
<1>3. ASSUME rows'[i] \in {rows[i], NoRow} PROVE InTrash(rows'[i])
  BY <1>3, NoRowGood DEF InTrash, NoRow, Exists
<1>4. CASE BotClose \/ BotResume
  <2>1. bot.row \in Ids
    BY <1>4 DEF BotClose, BotResume, IInv, HandlerOK
  <2>2. CASE bot.row = i
    BY <1>1, <1>2, <1>4, <2>2 DEF BotClose, BotResume, InTrash, Exists
  <2>3. CASE bot.row # i
    BY <1>1, <1>4, <2>1, <2>3 DEF BotClose, BotResume, TypeOK
  <2> QED BY <2>2, <2>3
<1>5. CASE BotStart
  BY <1>1, <1>5 DEF BotStart, TypeOK
<1>6. ASSUME NEW q \in Reqs, CreateCommit(q) PROVE InTrash(rows'[i])
  BY <1>1, <1>6 DEF CreateCommit, Store, TypeOK
<1>7. ASSUME NEW q \in Reqs, PatchCommit(q) PROVE InTrash(rows'[i])
  <2> DEFINE s == Repaired(rows[req[q].id], req[q].end, req[q].leaving)
  <2>1. CASE UNCHANGED rows
    BY <2>1
  <2>2. ASSUME rows[req[q].id].status \in {"COMPLETED", "ERROR"},
               rows' = [rows EXCEPT ![req[q].id] = s]
        PROVE  InTrash(rows'[i])
    <3>1. req[q].id \in Ids
      BY <1>7 DEF PatchCommit, IInv, RequestsOK, RequestOK
    <3>2. s.trashed = rows[req[q].id].trashed
      BY <1>1, <3>1 DEF Repaired, TypeOK, Row
    <3>3. req[q].id = i => InTrash(s)
      BY <2>2, <3>2 DEF InTrash, Exists, Trashed
    <3> HIDE DEF s
    <3> QED BY <1>1, <2>2, <3>1, <3>3, TrashedStays
  <2> QED BY <1>7, <2>1, <2>2 DEF PatchCommit, Store
<1>8. ASSUME NEW q \in Reqs, DeleteCommit(q) PROVE InTrash(rows'[i])
  <2> DEFINE s == [rows[req[q].id] EXCEPT !.trashed = now]
  <2>1. CASE UNCHANGED rows
    BY <2>1
  <2>2. ASSUME rows' = [rows EXCEPT ![req[q].id] = s]
        PROVE  InTrash(rows'[i])
    <3>1. req[q].id \in Ids /\ now \in Nat
      BY <1>8 DEF DeleteCommit, IInv, RequestsOK, RequestOK, TypeOK
    <3>2. s.trashed = now
      BY <1>1, <3>1 DEF TypeOK, Row
    <3>3. now # NoTime
      BY <3>1 DEF NoTime
    <3>4. InTrash(s)
      BY <3>2, <3>3 DEF InTrash, Trashed
    <3> HIDE DEF s
    <3> QED BY <1>1, <2>2, <3>1, <3>4, TrashedStays
  <2> QED BY <1>8, <2>1, <2>2 DEF DeleteCommit
<1>9. ASSUME NEW q \in Reqs, HardCommit(q) PROVE InTrash(rows'[i])
  <2>1. req[q].id \in Ids /\ InTrash(NoRow)
    BY <1>9, NoRowGood DEF HardCommit, IInv, RequestsOK, RequestOK, InTrash, NoRow, Exists
  <2> QED BY <1>1, <1>9, <2>1, TrashedStays DEF HardCommit
<1>10. CASE ScheduleDeletion \/ HardDeleteSweep \/ FlickerPurge \/ PurgeAccount
  <2>1. CASE ScheduleDeletion
    <3>1. rows'[i] = rows[i]
      BY <1>1, <2>1 DEF ScheduleDeletion
    <3> QED BY <3>1
  <2>2. CASE HardDeleteSweep \/ FlickerPurge \/ PurgeAccount
    <3>1. rows'[i] \in {rows[i], NoRow}
      BY <2>2 DEF HardDeleteSweep, FlickerPurge, Sweep, PurgeAccount
    <3> QED BY <1>3, <3>1
  <2> QED BY <1>10, <2>1, <2>2
<1>11. CASE \/ ActivityChange \/ DuplicatedChange \/ Redelivery \/ SilentChange \/ Restart
            \/ CancelDeletion \/ Register \/ StartupScan \/ BotTake \/ BotLoadUser
            \/ BotLoadOpen \/ BotStitch \/ BotFail \/ Tick \/ UNCHANGED vars
  BY <1>2, <1>11 DEF ActivityChange, DuplicatedChange, Redelivery, SilentChange, Restart,
     CancelDeletion, Register, StartupScan, BotTake, BotLoadUser, BotLoadOpen, BotStitch,
     BotFail, Tick, vars
<1>12. ASSUME NEW q \in Reqs, \/ CreateBegin(q) \/ PatchBegin(q) \/ DeleteBegin(q)
                             \/ HardBegin(q) \/ RestoreBegin(q)
       PROVE  InTrash(rows'[i])
  BY <1>2, <1>12 DEF CreateBegin, PatchBegin, DeleteBegin, HardBegin, RestoreBegin
<1>13. ASSUME NEW q \in Reqs, Commit(q) PROVE InTrash(rows'[i])
  BY <1>6, <1>7, <1>8, <1>9, <1>13 DEF Commit
<1> QED BY <1>4, <1>5, <1>10, <1>11, <1>12, <1>13 DEF Next, Environment, BotStep

\* While nobody restores, what ?hard=true was let in for stays in the trash.
LEMMA KeepsHardMeetsTrash ==
    ASSUME NoRestoreRace, IInv, OpsAllowed, HardMeetsTrash, [Next]_vars
    PROVE  HardMeetsTrash'
<1>1. SUFFICES ASSUME NEW q \in Reqs, req'[q].op = "hard" PROVE InTrash(rows'[req'[q].id])
  BY DEF HardMeetsTrash, InTrash, Exists, Trashed
<1>2. CASE req'[q] = req[q]
  <2>1. req[q].id \in Ids \ Fresh /\ "hard" \in ApiOps
    BY <1>1, <1>2 DEF IInv, RequestsOK, RequestOK, Fresh, OpsAllowed
  <2>2. ASSUME NEW p \in Reqs PROVE ~RestoreCommit(p)
    BY <1>1, <1>2, <2>1 DEF RestoreCommit, OpsAllowed, NoRestoreRace
  <2> QED BY <1>1, <1>2, <2>1, <2>2, TrashKept DEF HardMeetsTrash
<1>3. CASE req'[q] # req[q]
  <2>1. UNCHANGED rows /\ InTrash(rows[req'[q].id])
    <3>1. Moves(q)
      BY AllMove DEF IInv
    <3>2. NoReq.op # "hard"
      BY DEF NoReq
    <3> QED BY <1>1, <1>3, <3>1, <3>2 DEF Moves
  <2> QED BY <2>1
<1> QED BY <1>2, <1>3

\* At the start there is no row and no request.
LEMMA InitLives == Init => Ledger!LedgerInit /\ Blank /\ OpsAllowed /\ HardMeetsTrash
<1> SUFFICES ASSUME Init PROVE Ledger!LedgerInit /\ Blank /\ OpsAllowed /\ HardMeetsTrash
  OBVIOUS
<1>1. Life = [i \in Ids |-> Ledger!Nothing]
  BY NoRowLife DEF Init, Life
<1>2. Ledger!LedgerInit /\ Blank
  BY <1>1 DEF Ledger!LedgerInit, Blank, Life
<1>3. OpsAllowed /\ HardMeetsTrash
  BY DEF Init, OpsAllowed, HardMeetsTrash, NoReq
<1> QED BY <1>2, <1>3

\* Whatever handlers, requests and tasks remember of rows that changed since
\* they were read, every write is a step in the life of a session
\* (endpoints/sessions.py, session_manager.py, cleanup.py, account_deletion.py). The
\* one way to break the promise is ?hard=true against a restore of the same row
\* (HardDeletesTrashOnly), which the hypothesis leaves out.
THEOREM WritesAreLives ==
    ASSUME NoRestoreRace
    PROVE  Spec => ImplementsLedger
<1>1. IInv /\ Blank /\ OpsAllowed /\ HardMeetsTrash /\ [Next]_vars =>
        [Ledger!LedgerNext]_Life /\ Blank' /\ OpsAllowed' /\ HardMeetsTrash'
  BY StepLives, LedgerKeepsBlank, KeepsOpsAllowed, KeepsHardMeetsTrash DEF LedgerStep, IInv
<1>2. IInv /\ Blank /\ OpsAllowed /\ HardMeetsTrash /\ [Next]_vars =>
        [Ledger!LedgerNext]_([i \in Ids |-> LifeOf(rows[i])])
  BY <1>1 DEF Life
<1> QED BY <1>1, <1>2, Inductive, InitLives, PTL DEF Spec, ImplementsLedger, Ledger!LedgerSpec
=============================================================================
