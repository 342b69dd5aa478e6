---------------------------- MODULE SessionRows ----------------------------
(***************************************************************************)
(* The rows of game_sessions that belong to one user, the constraints the  *)
(* database puts on them, and the pure decisions taken over them: overlap, *)
(* manual bounds, flicker suppression, stitch candidates and what an       *)
(* observed activity means for the open row.                               *)
(*                                                                         *)
(* Every query, lock and constraint of the session code is keyed by        *)
(* user_id, so one user's rows are the whole story.                        *)
(***************************************************************************)
EXTENDS Integers, FiniteSets

CONSTANTS
    Ids,            \* primary keys, reused only once nothing refers to them
    NoId,
    Games,          \* games.id
    NoGame,
    Names,          \* Discord activity strings
    Idle,           \* a cached member who plays nothing
    Absent,         \* a user in none of the bot's guilds
    GameOf,         \* the game each activity string is an alias of
    ShortFlicker,   \* session_short_flicker_seconds
    StitchWindow,   \* session_stitch_window_seconds
    GcMargin,       \* session_flicker_gc_margin_seconds
    TrashRetention, \* trash_retention_days
    FutureGrace,    \* session_future_grace_minutes
    MaxDuration,    \* session_max_duration_hours
    Lookback        \* session_max_lookback_days

ASSUME NamesAssumption ==
    /\ NoId \notin Ids
    /\ NoGame \notin Games
    /\ GameOf \in [Names -> Games]
    /\ Idle \notin Names /\ Absent \notin Names /\ Idle # Absent

\* Settings refuses to boot unless the last conjunct and the manual bounds hold.
ASSUME SettingsAssumption ==
    /\ ShortFlicker \in Nat \ {0}
    /\ StitchWindow \in Nat
    /\ GcMargin \in Nat
    /\ TrashRetention \in Nat
    /\ FutureGrace \in Nat \ {0}
    /\ MaxDuration \in Nat \ {0}
    /\ Lookback \in Nat \ {0}
    /\ GcMargin > StitchWindow

NoTime == -1
Time == Nat \cup {NoTime}

Row == [game: Games \cup {NoGame}, start: Time, end: Time,
        status: {"NONE", "ONGOING", "COMPLETED", "ERROR"},
        source: {"NONE", "BOT", "MANUAL"},
        flicker: BOOLEAN,      \* is_flicker
        trashed: Time,         \* deleted_at
        note: {"", "error"}]   \* notes: NULL, or one of the ERROR sentences

\* A primary key no row carries.
NoRow == [game |-> NoGame, start |-> NoTime, end |-> NoTime, status |-> "NONE",
          source |-> "NONE", flicker |-> FALSE, trashed |-> NoTime, note |-> ""]

Exists(r) == r.status # "NONE"
Trashed(r) == r.trashed # NoTime

\* The rows the partial unique index covers, and the bot's "live ONGOING".
Open(r) == r.status = "ONGOING" /\ ~Trashed(r)

\* The rows the exclusion constraint and the overlap SELECT cover.
Timeline(r) == r.status \in {"ONGOING", "COMPLETED"} /\ ~Trashed(r) /\ ~r.flicker

\* Seeded fault: closed ranges, so that sessions which touch conflict.
ClosedRangesMeet(s1, e1, s2, e2) ==
    /\ e2 = NoTime \/ s1 =< e2
    /\ e1 = NoTime \/ s2 =< e1

\* The half-open ranges [s1, e1) and [s2, e2) meet; NoTime stands for infinity.
RangesMeet(s1, e1, s2, e2) ==
    /\ e2 = NoTime \/ s1 < e2
    /\ e1 = NoTime \/ s2 < e1

\* _check_overlap: a row on the timeline, other than `except`, meets the range.
Overlaps(table, start, end, except) ==
    \E i \in Ids \ {except} :
        Timeline(table[i]) /\ RangesMeet(table[i].start, table[i].end, start, end)

\* excl_game_sessions_no_overlap lets row r be stored under i.
RangeFree(table, i, r) ==
    Timeline(r) => ~Overlaps(table, r.start, r.end, i)

\* uq_game_sessions_user_ongoing lets row r be stored under i.
OpenFree(table, i, r) ==
    Open(r) => \A j \in Ids \ {i} : ~Open(table[j])

-----------------------------------------------------------------------------
(* Manual bounds, flickers and stitching                                   *)

\* validate_manual_session_bounds does not raise.
WithinBounds(start, end, now, isCreate) ==
    /\ start < end
    /\ isCreate => start >= now - Lookback
    /\ end - start =< MaxDuration
    /\ isCreate => start =< now + FutureGrace
    /\ end =< now + FutureGrace

IsShortFlicker(duration) == duration < ShortFlicker

\* The rows find_stitch_candidate's WHERE clause selects. Flickers included.
Stitchable(r, game, now) ==
    /\ r.game = game
    /\ r.source = "BOT"
    /\ r.status = "COMPLETED"
    /\ ~Trashed(r)
    /\ r.end > now - StitchWindow

\* ORDER BY end_time DESC LIMIT 1. Equal ends leave the choice open.
StitchCandidates(table, game, now) ==
    {i \in Ids : /\ Stitchable(table[i], game, now)
                 /\ \A j \in Ids : Stitchable(table[j], game, now) =>
                                        table[j].end =< table[i].end}

-----------------------------------------------------------------------------
(* What an observed activity means for the open row                        *)

\* resolve_alias. No activity has no game; a string nobody has seen before
\* gets a stub, a game no row can refer to yet.
AliasOf(name) == IF name \in Names THEN GameOf[name] ELSE NoGame

\* Seeded fault: `before` is not looked at.
ContinuesWhateverCame(open, before, after) ==
    before = Idle \/ AliasOf(before) = AliasOf(after)

\* Seeded fault: no exception for a start delivered with an empty `before`.
ContinuesSameAliasOnly(open, before, after) ==
    open = AliasOf(after) /\ AliasOf(before) = AliasOf(after)

\* _open_row_continues, for an open row of game `open`.
Continues(open, before, after) ==
    /\ open = AliasOf(after)
    /\ before = Idle \/ AliasOf(before) = AliasOf(after)

\* Seeded fault: a row that matches neither side is left open.
LiveEndingLeavesStrangers(open, before, after) ==
    IF open # NoGame /\ open = AliasOf(before) THEN "COMPLETED" ELSE ""

\* Seeded fault: nothing starts in the step that closes a row.
LiveStartOnlyFromNothing(open, before, after) ==
    IF open # NoGame THEN NoGame ELSE AliasOf(after)

\* Seeded fault: the session is filed under the activity string.
LiveStartUnresolved(open, before, after) ==
    IF (open # NoGame /\ Continues(open, before, after)) \/ after = Idle
    THEN NoGame ELSE after

\* How _live ends an open row of game `open` ("" leaves it), and the game it
\* starts next.
LiveEnding(open, before, after) ==
    IF open = NoGame \/ Continues(open, before, after) THEN ""
    ELSE IF open = AliasOf(before) THEN "COMPLETED" ELSE "ERROR"

LiveStart(open, before, after) ==
    IF open # NoGame /\ Continues(open, before, after) THEN NoGame ELSE AliasOf(after)

\* The same for _startup, which never completes a row and never runs without one.
StartupEnding(open, after) ==
    IF open = NoGame \/ open = AliasOf(after) THEN "" ELSE "ERROR"

StartupStart(open, after) ==
    IF open = NoGame \/ open = AliasOf(after) THEN NoGame ELSE AliasOf(after)

-----------------------------------------------------------------------------
(* What each writer stores                                                 *)

\* start_session.
NewOpenRow(game, at) ==
    [NoRow EXCEPT !.game = game, !.start = at, !.status = "ONGOING", !.source = "BOT"]

\* complete_session.
Completed(r, at) ==
    [r EXCEPT !.status = "COMPLETED", !.end = at,
              !.flicker = r.source = "BOT" /\ IsShortFlicker(at - r.start)]

\* error_session, and the UPDATE of schedule_deletion.
Errored(r) == [r EXCEPT !.status = "ERROR", !.note = "error"]

\* Seeded fault: the end of the reopened row is not cleared.
ResumedWithItsEnd(r) == [r EXCEPT !.status = "ONGOING", !.flicker = FALSE]

\* start_or_resume_session.
Resumed(r) == [r EXCEPT !.status = "ONGOING", !.end = NoTime, !.flicker = FALSE]

\* create_session.
ManualRow(game, start, end) ==
    [NoRow EXCEPT !.game = game, !.start = start, !.end = end,
                  !.status = "COMPLETED", !.source = "MANUAL"]

\* Seeded fault: the edited session stays a BOT session.
RepairedKeepingSource(r, end, leaving) ==
    [r EXCEPT !.end = end, !.status = "COMPLETED",
              !.note = IF leaving THEN "" ELSE r.note]

\* patch_session; leaving: the row it loaded was an ERROR.
Repaired(r, end, leaving) ==
    [r EXCEPT !.end = end, !.status = "COMPLETED", !.source = "MANUAL",
              !.note = IF leaving THEN "" ELSE r.note]

-----------------------------------------------------------------------------
(* What a good table looks like                                            *)

\* The columns of row r agree with each other at instant `at`.
RowOK(r, at) ==
    /\ Exists(r) => r.game \in Games /\ r.start # NoTime /\ r.source # "NONE"
    /\ r.status = "ONGOING" =>
            r.source = "BOT" /\ ~Trashed(r) /\ ~r.flicker /\ r.start =< at
    /\ r.status = "COMPLETED" <=> r.end # NoTime
    /\ r.status = "COMPLETED" /\ r.source = "BOT" =>
            /\ r.start =< r.end /\ r.end =< at
            /\ r.flicker <=> IsShortFlicker(r.end - r.start)
    /\ r.flicker => r.status = "COMPLETED" /\ r.source = "BOT" /\ ~Trashed(r)
    /\ r.source = "MANUAL" =>
            r.status = "COMPLETED" /\ WithinBounds(r.start, r.end, at, FALSE)
    /\ Trashed(r) => r.trashed =< at
    /\ r.status = "ERROR" => r.source = "BOT" /\ r.note = "error"

\* The constraints hold for the rows that are stored.
OneLine(table) ==
    \A i \in Ids : RangeFree(table, i, table[i]) /\ OpenFree(table, i, table[i])
=============================================================================
