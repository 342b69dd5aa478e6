---------------------------- MODULE Statistics -------------------------------
(* What the API shows of one user's sessions: statistics                      *)
(* (src/app/services/stats.py, src/app/api/v1/endpoints/stats.py), library    *)
(* tabs (src/app/services/library_visibility.py) and game cards               *)
(* (src/app/api/v1/endpoints/games.py).  The state is what these queries      *)
(* read, and changes as the bot, the API and enrichment change it (over-      *)
(* approximated here; the modules Sessions and Catalog have the writers).     *)
(* Instants, durations, hours and days are counted in one unit; local time is *)
(* UTC plus the offset of the user's zone, which no instance changes during a *)
(* session (the code accepts a skew across a change of daylight saving).      *)
EXTENDS Integers, Sequences, FiniteSets, FiniteSetsExt, Functions

CONSTANTS Games, Tags, TagsOf, YearOf,  \* YearOf[g] is 0 with no release date
          Limit,                    \* of companies
          Offsets,                  \* offsets of the zones users choose
          Hour, HoursPerDay, DaysPerWeek, MonthStarts,  \* the calendar
          ShortWindow, MediumWindow,   \* 30 and 120 in _granularity_for_days
          Windows,                     \* values of the parameter days
          FutureGrace, Lookback,       \* session_future_grace_minutes, session_max_lookback_days
          HistoryDays,                 \* days before which a past of any play days exists
          MaxTime, Durations, MaxSessions, MaxChanges  \* bounds

ASSUME StatisticsAssumption ==
    /\ TagsOf \in [Games -> SUBSET Tags] /\ IsFiniteSet(Tags)
    /\ YearOf \in [Games -> Nat] /\ Limit \in Nat \ {0}
    /\ Offsets \subseteq Nat /\ 0 \in Offsets /\ Windows \subseteq Nat /\ Durations \subseteq Nat \ {0}
    /\ {Hour, HoursPerDay, DaysPerWeek} \subseteq Nat \ {0}
    /\ 0 \in MonthStarts /\ MonthStarts \subseteq Nat
    /\ {ShortWindow, MediumWindow, FutureGrace, Lookback, HistoryDays} \subseteq Nat
    /\ {MaxTime, MaxSessions, MaxChanges} \subseteq Nat

VARIABLES sessions,   \* the user's rows
          pref,       \* user_game_preferences: a row, or none
          review,     \* games with enrichment_status NEEDS_REVIEW
          aliased,    \* games with an alias
          tz,         \* offset of users.timezone
          now,
          changes     \* bounded by MaxChanges

statVars == <<sessions, pref, review, aliased, tz, now, changes>>

Day == Hour * HoursPerDay
Start == HistoryDays * Day + Day - Hour  \* the last hour of the day after the past

\* The clock starts before all a query or a user looks back to, and the
\* calendar goes on after it ends.
ASSUME CalendarAssumption ==
    /\ Start <= MaxTime /\ Lookback <= Start /\ \A days \in Windows : days * Day <= Start
    /\ \A zone \in Offsets : \E m \in MonthStarts : m * Day > MaxTime + zone

Null == "null"
NoPref == [ignored |-> Null, accepted |-> Null]
Prefs == [ignored : {"true", "false"}, accepted : {Null, "true", "false"}]

Init ==
    /\ \E g \in Games, dates \in SUBSET (0..HistoryDays - 1) :
           sessions = {[start |-> d * Day + (d % Day), duration |-> 1, game |-> g,
                        status |-> "COMPLETED", hidden |-> "no"] : d \in dates}
    /\ pref = [g \in Games |-> NoPref]
    /\ review \in SUBSET Games /\ aliased = {}
    /\ tz = 0 /\ now = Start /\ changes = 0

-----------------------------------------------------------------------------
(* What the queries share.  A comparison with NULL is not true: a game with   *)
(* no preference row has Null in both columns of the outer join.              *)

\* visible_session.
Shown == {s \in sessions : s.hidden = "no"}

\* library_visible_filter, review_inbox_filter, ignored_only_filter,
\* library_excluded_filter.
NotTrue(v) == v \in {Null, "false"}
VisibleWithRow(g) == pref[g].ignored = "false" /\ (g \notin review \/ pref[g].accepted = "true")
LibraryVisible(g) == NotTrue(pref[g].ignored) /\ (g \notin review \/ pref[g].accepted = "true")
ReviewInbox(g) == NotTrue(pref[g].ignored) /\ NotTrue(pref[g].accepted)
IgnoredOnly(g) == pref[g].ignored = "true"
LibraryExcluded(g) == pref[g].ignored = "true" \/ (g \in review /\ NotTrue(pref[g].accepted))

\* coalesce(duration_seconds, now - start_time).
Elapsed(s) == IF s.status = "ONGOING" THEN now - s.start ELSE s.duration
Seconds(rows) == SumFunction([s \in rows |-> Elapsed(s)])

\* _window_filters; 0 is all-time.
InWindow(s, days) == days = 0 \/ s.start >= now - days * Day

Played == {s \in Shown : s.status # "ERROR" /\ LibraryVisible(s.game)}
Completed == {s \in Played : s.status = "COMPLETED"}
Of(rows, g) == {s \in rows : s.game = g}

-----------------------------------------------------------------------------
(* Totals. *)

\* _playtime_expr, _last_played_expr: a card of the library.
Playtime(s) == IF s.status \in {"COMPLETED", "ONGOING"} THEN Elapsed(s) ELSE 0
CardSeconds(g) == SumFunction([s \in Of(Shown, g) |-> Playtime(s)])

\* list_games: the tab the parameters choose.
Tab(ignored, inLibrary, status) ==
    LET listed == {g \in Games : Of(Shown, g) # {} /\ (status = "NEEDS_REVIEW" => g \in review)} IN
    IF ignored = "true" THEN {g \in listed : IgnoredOnly(g)}
    ELSE IF inLibrary = "false" THEN {g \in listed : LibraryExcluded(g)}
    ELSE IF status = "NEEDS_REVIEW" THEN {g \in listed : ReviewInbox(g)}
    ELSE {g \in listed : LibraryVisible(g)}

\* game_stats_for_user; no row is a 404.
GameStats(g) ==
    LET rows == {s \in Of(Shown, g) : s.status # "ERROR"} IN
    [count |-> Cardinality(rows), seconds |-> Seconds(rows)]

\* suggest_games: games the typeahead may show the user.
Suggested == {g \in Games : \/ g \notin review \/ g \in aliased \/ pref[g] # NoPref
                            \/ \E s \in Of(sessions, g) : s.hidden # "deleted"}

\* summary_for_user.
Summary(days) ==
    LET inside == {s \in Completed : InWindow(s, days)}
        before == {s \in Completed : days # 0 /\ InWindow(s, 2 * days) /\ ~InWindow(s, days)}
        first(g) == Min({s.start : s \in Of(Played, g)}) IN
    [perGame |-> [g \in {s.game : s \in inside} |-> Seconds(Of(inside, g))],
     total |-> Seconds(inside),
     previous |-> Seconds(before),
     longest |-> IF inside = {} THEN 0 ELSE Max({s.duration : s \in inside}),
     newGames |-> {g \in {s.game : s \in Played} : days = 0 \/ first(g) >= now - days * Day}]

\* get_dashboard: one query over the longer window, narrowed in Python.
Dashboard(shorter, longer) ==
    LET rows == {s \in Completed : InWindow(s, longer)}
        midnight == ((now + tz) \div Day) * Day - tz IN
    [longer |-> Seconds(rows),
     shorter |-> Seconds({s \in rows : s.start >= now - shorter * Day}),
     today |-> Seconds({s \in rows : s.start >= midnight}),
     active |-> {s \in Played : s.status = "ONGOING"}]

\* _jsonb_breakdown, for genres and themes: every session counts for each tag.
Breakdown(days) ==
    LET tagged(t) == {s \in Played : t \in TagsOf[s.game] /\ InWindow(s, days)} IN
    [t \in {u \in Tags : tagged(u) # {}} |-> Seconds(tagged(t))]

\* ORDER BY, and sorted: the members by their rank, equal ones in some order.
Ranked(S, rank) ==
    CHOOSE seq \in [1..Cardinality(S) -> S] :
        \A j, k \in 1..Cardinality(S) : j < k => seq[j] # seq[k] /\ rank[seq[j]] <= rank[seq[k]]

\* companies_for_user: the first ones, with a count of games.
Companies ==
    LET totals == Breakdown(0)
        ranked == Ranked(DOMAIN totals, [t \in DOMAIN totals |-> -totals[t]]) IN
    [k \in 1..Min({Limit, Len(ranked)}) |->
        [name |-> ranked[k], seconds |-> totals[ranked[k]],
         games |-> Cardinality({s.game : s \in {p \in Played : ranked[k] \in TagsOf[p.game]}})]]

\* release_years_for_user.
ReleaseYears ==
    LET dated == {s \in Played : YearOf[s.game] # 0}
        decade(s) == (YearOf[s.game] \div 10) * 10 IN
    [d \in {decade(s) : s \in dated} |-> Seconds({s \in dated : decade(s) = d})]

-----------------------------------------------------------------------------
(* A session over hours and days. *)

\* The loop of both splits: up to the next boundary, or to the end.  The pieces
\* differ in their starts.
Pieces(from, seconds, unit) ==
    LET walk[remaining \in 0..seconds] ==
            LET cur == from + seconds - remaining
                chunk == Min({remaining, unit - (cur % unit)}) IN
            IF remaining = 0 THEN {}
            ELSE {[at |-> cur, seconds |-> chunk]} \cup walk[remaining - chunk]
    IN walk[seconds]

WholeUnits(from, seconds, unit) ==
    LET walk[remaining \in 0..seconds] ==
            LET chunk == Min({remaining, unit}) IN
            IF remaining = 0 THEN {}
            ELSE {[at |-> from + seconds - remaining, seconds |-> chunk]} \cup walk[remaining - chunk]
    IN walk[seconds]

CellOf(t) == <<(t \div Day) % DaysPerWeek, (t % Day) \div Hour>>
CellsByWholeHours(from, seconds) == WholeUnits(from, seconds, Hour)
AcrossCells(from, seconds) == Pieces(from, seconds, Hour)
AllOnStartDay(from, seconds) == {[at |-> from, seconds |-> seconds]}
AcrossDays(from, seconds) == Pieces(from, seconds, Day)

\* Sums the pieces of the sessions for which place(at) is the given one.
Placed(rows, split(_, _), place(_), where) ==
    LET seconds(s) == SumFunction([p \in split(s.start + tz, Elapsed(s)) |->
                                       IF place(p.at) = where THEN p.seconds ELSE 0]) IN
    SumFunction([s \in rows |-> seconds(s)])

\* heatmap_for_user.
Heatmap(days) ==
    LET rows == {s \in Played : InWindow(s, days)} IN
    [cell \in (0..DaysPerWeek - 1) \X (0..HoursPerDay - 1) |-> Placed(rows, AcrossCells, CellOf, cell)]

-----------------------------------------------------------------------------
(* Streaks. *)

DateOf(t) == t \div Day

\* _compute_streaks: one step of the loop over the sorted dates.
LongerAcrossGaps(acc, gap) ==
    LET run == IF gap >= 1 THEN acc.run + 1 ELSE 1 IN [run |-> run, longest |-> Max({acc.longest, run})]
Longer(acc, gap) ==
    LET run == IF gap = 1 THEN acc.run + 1 ELSE 1 IN [run |-> run, longest |-> Max({acc.longest, run})]

LongestRun(dates) ==
    LET sorted == Ranked(dates, [d \in dates |-> d])
        loop[k \in 1..Cardinality(dates)] ==
            IF k = 1 THEN [run |-> 1, longest |-> 1] ELSE Longer(loop[k - 1], sorted[k] - sorted[k - 1])
    IN loop[Cardinality(dates)].longest

RunBack(dates, anchor) ==
    LET back[d \in -1..anchor] == IF d \in dates THEN 1 + back[d - 1] ELSE 0 IN back[anchor]

ComputeStreaks(dates, today) ==
    IF dates = {} THEN [current |-> 0, longest |-> 0]
    ELSE [longest |-> LongestRun(dates),
          current |-> IF today \in dates THEN RunBack(dates, today)
                      ELSE IF today - 1 \in dates THEN RunBack(dates, today - 1) ELSE 0]

\* streak_for_user.
Streak == ComputeStreaks({DateOf(s.start + tz) : s \in Played}, DateOf(now + tz))

-----------------------------------------------------------------------------
(* The trend chart. *)

Granularity(days) == IF days = 0 THEN "month" ELSE IF days <= ShortWindow THEN "day"
                     ELSE IF days <= MediumWindow THEN "week" ELSE "month"

BucketStart(d, size) == CASE size = "day" -> d
                          [] size = "week" -> d - (d % DaysPerWeek)
                          [] size = "month" -> Max({m \in MonthStarts : m <= d})
NextBucket(b, size) == CASE size = "day" -> b + 1
                         [] size = "week" -> b + DaysPerWeek
                         [] size = "month" -> Min({m \in MonthStarts : m > b})

\* trend_for_user: which sessions count, and the seconds of each bucket from the
\* first to the last, zero-filled.
TrendRows(days, first) == {s \in Completed : days = 0 \/ s.start + tz >= first * Day}

Trend(days) ==
    LET size == Granularity(days)
        bucketOf(t) == BucketStart(DateOf(t), size)
        last == bucketOf(now + tz)
        lower == IF days = 0 THEN 0 ELSE bucketOf(now - days * Day + tz)
        rows == TrendRows(days, lower)
        filled == UNION {{bucketOf(p.at) : p \in AcrossDays(s.start + tz, s.duration)} : s \in rows}
        first == IF days # 0 THEN lower ELSE IF filled = {} THEN last ELSE Min(filled)
        from[b \in Nat] == IF b > last THEN <<>> ELSE <<b>> \o from[NextBucket(b, size)]
        starts == from[first] IN
    [rows |-> rows, size |-> size, first |-> first, last |-> last,
     buckets |-> [k \in DOMAIN starts |->
                    [start |-> starts[k], seconds |-> Placed(rows, AcrossDays, bucketOf, starts[k])]]]

-----------------------------------------------------------------------------
(* What changes the rows. *)

Change == changes < MaxChanges /\ changes' = changes + 1

Room == Cardinality({s \in sessions : s.start + s.duration >= HistoryDays * Day}) < MaxSessions

Free(start, end) == \A s \in sessions : s.hidden = "deleted" \/ s.status = "ERROR"
                        \/ s.start + Elapsed(s) <= start \/ (s.status # "ONGOING" /\ end <= s.start)

\* The bot opens a session; it is completed, ends as a flicker, or is marked
\* ERROR without a duration.
Play(g) ==
    /\ Room
    /\ \A s \in sessions : s.status # "ONGOING" /\ s.start # now
    /\ Free(now, MaxTime + FutureGrace)
    /\ sessions' = sessions \cup
           {[start |-> now, duration |-> 0, game |-> g, status |-> "ONGOING", hidden |-> "no"]}
    /\ UNCHANGED <<pref, review, aliased, tz, now, changes>>

Close(s, status, hidden) ==
    /\ s.status = "ONGOING"
    /\ sessions' = (sessions \ {s}) \cup
           {[s EXCEPT !.status = status, !.hidden = hidden,
                      !.duration = IF status = "COMPLETED" THEN now - s.start ELSE 0]}
    /\ UNCHANGED <<pref, review, aliased, tz, now, changes>>

\* create_session, within the bounds and the exclusion constraint.
LogManual(g, end, seconds) ==
    /\ Room
    /\ end <= now + FutureGrace /\ end - seconds >= now - Lookback
    /\ \A s \in sessions : s.start # end - seconds
    /\ Free(end - seconds, end)
    /\ sessions' = sessions \cup {[start |-> end - seconds, duration |-> seconds, game |-> g,
                                   status |-> "COMPLETED", hidden |-> "no"]}
    /\ UNCHANGED <<pref, review, aliased, tz, now, changes>>

Discard(s) ==
    /\ Change
    /\ s.status # "ONGOING" /\ s.hidden = "no"
    /\ sessions' = (sessions \ {s}) \cup {[s EXCEPT !.hidden = "deleted"]}
    /\ UNCHANGED <<pref, review, aliased, tz, now>>

\* upsert_preference: is_accepted only of a game in review; and its removal.
Prefer(g, p) ==
    /\ Change
    /\ p.accepted \in {Null, pref[g].accepted} \/ g \in review
    /\ pref' = [pref EXCEPT ![g] = p]
    /\ UNCHANGED <<sessions, review, aliased, tz, now>>

\* Enrichment identifies a game, or a requeued game is not found.
Enrich(g) ==
    /\ Change
    /\ review' = IF g \in review THEN review \ {g} ELSE review \cup {g}
    /\ aliased' \in {aliased, aliased \cup {g}}
    /\ UNCHANGED <<sessions, pref, tz, now>>

\* update_settings.
MoveTo(zone) ==
    /\ Change
    /\ zone # tz /\ tz' = zone
    /\ UNCHANGED <<sessions, pref, review, aliased, now>>

Tick == /\ now < MaxTime /\ now' = now + 1
        /\ UNCHANGED <<sessions, pref, review, aliased, tz, changes>>

Next ==
    \/ \E g \in Games : \/ Play(g) \/ Enrich(g)
                        \/ \E end \in Start..now + FutureGrace, d \in Durations : LogManual(g, end, d)
                        \/ \E p \in Prefs \cup {NoPref} : Prefer(g, p)
    \/ \E s \in sessions : \/ \E h \in {"no", "flicker"} : Close(s, "COMPLETED", h)
                           \/ Close(s, "ERROR", "no")
                           \/ Discard(s)
    \/ \E zone \in Offsets : MoveTo(zone)
    \/ Tick

Spec == Init /\ [][Next]_statVars

-----------------------------------------------------------------------------
(* Properties.  The reference definitions count single units of time. *)

\* The units of the sessions for which place(unit) is the given one.
UnitsAt(rows, place(_), where) ==
    Cardinality(UNION {{<<s, k>> : k \in {j \in 0..Elapsed(s) - 1 : place(s.start + tz + j) = where}} :
                       s \in rows})

(* "The total is always exact — every second is allocated": each cell of the  *)
(* heatmap holds exactly the seconds played in that hour of that weekday, of  *)
(* open sessions too, whatever boundaries a session crosses and wherever in   *)
(* the hour it starts.                                                        *)
HeatmapExact ==
    \A days \in Windows :
        LET rows == {s \in Played : InWindow(s, days)}
            map == Heatmap(days) IN
        \A cell \in DOMAIN map : map[cell] = UnitsAt(rows, CellOf, cell)

(* The chart is contiguous and chronological, its buckets hold exactly the    *)
(* seconds played in that day, week or month, and every session that the      *)
(* summary of the same window counts is in it: only seconds after the last    *)
(* bucket, of a session logged ahead of the clock, can be missing.            *)
TrendAccounts ==
    \A days \in Windows :
        LET T == Trend(days)
            bucketOf(t) == BucketStart(DateOf(t), T.size)
            starts == {T.buckets[k].start : k \in DOMAIN T.buckets} IN
        /\ starts = {b \in T.first..T.last : BucketStart(b, T.size) = b}
        /\ \A j, k \in DOMAIN T.buckets : j < k => T.buckets[j].start < T.buckets[k].start
        /\ \A k \in DOMAIN T.buckets :
               T.buckets[k].seconds = UnitsAt(T.rows, bucketOf, T.buckets[k].start)
        /\ {s \in Completed : InWindow(s, days)} \subseteq T.rows
        /\ \A s \in T.rows : \A k \in 0..s.duration - 1 :
               s.start + k < now => bucketOf(s.start + tz + k) \in starts

(* The streaks are what they say: the longest run of consecutive local dates  *)
(* played on, and the run that ends today, or yesterday when today has none.  *)
StreaksAreRuns ==
    LET dates == {DateOf(s.start + tz) : s \in Played}
        today == DateOf(now + tz)
        run(d, n) == d - n + 1..d \subseteq dates
        longest(ends) == Max({0} \cup {n \in 1..Cardinality(dates) : \E d \in ends : run(d, n)}) IN
    /\ Streak.longest = longest(dates)
    /\ Streak.current = IF today \in dates THEN longest({today}) ELSE longest({today - 1})
    /\ Streak.current <= Streak.longest

(* Independent queries tell one story.  A game the user has a session of is   *)
(* in exactly one of the library, the inbox and the ignored games, whether a  *)
(* preference row exists or not, "out of library" is the rest, and it can be  *)
(* found by the typeahead; the card, the game's own page, the summary, the    *)
(* dashboard and the breakdowns add up to each other.                         *)
ViewsAgree ==
    LET library == Tab(Null, Null, Null)
        inbox == Tab(Null, Null, "NEEDS_REVIEW")
        ignored == Tab("true", Null, Null)
        played == {s.game : s \in Shown} IN
    /\ library \cup inbox \cup ignored = played
    /\ library \cap inbox = {} /\ library \cap ignored = {} /\ inbox \cap ignored = {}
    /\ Tab(Null, "false", Null) = inbox \cup ignored
    /\ played \subseteq Suggested
    /\ \A g \in played : CardSeconds(g) = GameStats(g).seconds
    /\ \A g \in library :
           CardSeconds(g) = Seconds({s \in Of(Shown, g) : s.status = "ONGOING"})
                            + (IF g \in DOMAIN Summary(0).perGame THEN Summary(0).perGame[g] ELSE 0)
    /\ \A t \in Tags : LET tagged == {g \in library : t \in TagsOf[g]} IN
           SumFunction([g \in tagged |-> CardSeconds(g)])
               = IF t \in DOMAIN Breakdown(0) THEN Breakdown(0)[t] ELSE 0
    /\ \A k \in DOMAIN Companies, t \in DOMAIN Breakdown(0) :
           \/ t \in {Companies[j].name : j \in DOMAIN Companies}
           \/ Breakdown(0)[t] <= Companies[k].seconds
    /\ SumFunction(ReleaseYears)
           = SumFunction([g \in {h \in library : YearOf[h] # 0} |-> CardSeconds(g)])
    /\ \A a, b \in Windows \ {0} : a < b =>
           /\ Dashboard(a, b).longer = Summary(b).total
           /\ Dashboard(a, b).shorter = Summary(a).total
           /\ b = 2 * a => Summary(a).total + Summary(a).previous = Summary(b).total
           /\ Summary(a).newGames \subseteq Summary(b).newGames
=============================================================================
