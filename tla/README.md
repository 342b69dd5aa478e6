# GameTrace backend: a verification project

GameTrace records what a Discord user plays. A bot watches presence updates and
opens, closes and reopens *play sessions*; a REST API lets the user log, repair,
trash and restore sessions; nightly Celery tasks empty the trash, remove
flickers and purge accounts. Around the sessions stand the accounts and their
logins, the game catalog that administrators, users, the bot and an enrichment
worker all write, a snapshot in Redis of whom the bot can see, a weekly push,
quotas and the statistics. PostgreSQL and Redis are shared by three kinds of
process. Nothing but row locks, a few database constraints and one in-process
lock keeps them apart, and that is what this project is about.

Paths below are relative to the repository (`src/`). `PROJECT.json` maps every
definition to the lines it stands for.

## 1. Inventory

| component | state | operations | shared with | what makes it correct |
|---|---|---|---|---|
| **session tracking** (`app/bot/main.py`, `reconcile.py`, `session_manager.py`, `self_healing.py`, `session_lock.py`, `flicker_policy.py`) | open row, user lock, handlers waiting for it, "startup pass done" flag | `on_presence_update`, `run_self_healing`, `reconcile_user`, `complete_session`, `error_session`, `start_session`, `start_or_resume_session` | rows with API and tasks, users with account deletion | one open row; the open row is the observed game; an interrupted game is reopened, not split; the user's rows are left alone |
| **session rows** (`app/models/session.py`, `services/session_bounds.py`, `session_overlap.py`) | `game_sessions`, a partial unique index, an exclusion constraint | bounds check, overlap query | all writers | the timeline is a line; columns agree |
| **sessions REST API** (`app/api/v1/endpoints/sessions.py`) | none between requests; reads kept between SELECT and UPDATE | create, patch, delete, hard delete, restore | rows | a write never lands on a row it was not validated for |
| **account deletion** (`services/account_deletion.py`, `endpoints/profile.py`) | `users.purge_at`, `user_auth_tokens`, `account_deletion_events` | schedule, cancel, purge | bot gate, auth gate, tasks | deletion ends access and the open session; audit says what happened; purge happens once and only when due |
| **nightly tasks** (`tasks/cleanup.py`, `core/celery_app.py`) | none | trash sweep, flicker purge, account purge, device sweep, demo reset | rows, users, devices | nothing is removed that can still be used |
| **catalog** (`services/game_aliases.py`, `game_review.py`, `tasks/enrichment.py`, `endpoints/games.py`, `admin/`) | games, aliases, merges, review inbox | stub, enrich, merge, link, review | sessions refer to games | an alias has one owner; a merge loses no session; an admin's decision is not overwritten |
| **link codes** (`services/link_codes.py`) | Redis: code -> user, user -> code, failure counters | issue, redeem, discard, lockout | bot command and API | one live code per user, redeemed once |
| **authentication** (`endpoints/auth.py`) | tokens with sliding expiry | redeem, refresh, revoke, demo cap | account deletion | no token outlives a deletion or a logout |
| **bot visibility** (`bot/membership.py`, `core/bot_membership.py`, `bot_heartbeat.py`) | Redis snapshot of members, its owner and time | rebuild, join, leave, read | API tells the user whether the bot sees him | never says "absent" of a visible member |
| **weekly report, push** (`tasks/weekly_report.py`, `services/fcm.py`) | deduplication key per user and week | claim, send, release | Celery retries | at most one report per week, failure retried |
| **quotas** (`core/rate_limit.py`, `services/voice_quota.py`) | counters in Redis and PostgreSQL | hit, check, record | API requests | the cap, and no window that never ends |
| **statistics** (`services/stats.py`) | none | aggregation, splitting over local days | reads rows | the parts of a split add up |
| **demo account** (`services/demo.py`) | snapshot tables | nightly reset | rows, users | all or nothing |
| **library tabs and cards** (`services/library_visibility.py`, `endpoints/games.py`, `endpoints/stats.py`) | preferences | filters over an outer join | reads rows, preferences, games | the tabs partition the games; cards, totals and breakdowns add up |
| game matching, voice transcription, preferences, reports and moderation, demo snapshot, configuration | – | – | – | modelled where they touch the state of the others; the rest is text, I/O or single-statement writes |
| slash commands, panel, replies, migrations, logging | – | – | – | presentation, DDL; not modelled |

How they interact: Discord events enter the bot's event loop and wait in order
for the user's `asyncio.Lock`; a handler's reads and each of its commits are
separate database transactions, so requests and tasks run between them. Requests
read, validate, then write with a condition in the WHERE clause (most of them) or
by primary key (two of them). `schedule_deletion` takes the lock of the users
row. Constraint violations come back as `IntegrityError` and are answered in some
places and unhandled in others.

The hard behaviours are listed under `hazards` in `PROJECT.json`, each at its
line: reads made stale by another writer before the write, two commits of one
handler, repeated and duplicated events, crashes between commits, half-open
boundaries, and nightly tasks that must not take what is still in use.

## 2. Modules

Five independent systems, each a set of modules:

| module | what it is |
|---|---|
| `SessionRows` | the row, the two constraints, and every pure decision: bounds, overlap, flickers, stitch candidates, `_live` and `_startup`, and what each writer stores |
| `Sessions` | the state machine of one user's sessions: bot, gateway, requests, account, tasks, clock |
| `SessionLedger` | the abstract specification: the life of a row |
| `SessionsRefinement` | `Sessions` implements `SessionLedger` under `LifeOf` |
| `LinkCodes` | login codes, one Redis command at a time; a specification of its own (`LinkSpec`) |
| `Accounts` | extends `LinkCodes`: logins, tokens, devices, deletion and its audit trail, lockouts, nightly account tasks |
| `WeeklyReport`, `Voice` | extend `Accounts`: the push, and the paid transcription under its quotas |
| `Service` | composes the four: every step of one of them, beside what it does to the others (a purge and the demo reset erase voice usage, a day ends a quota) |
| `Catalog` | games, names, preferences, enrichment, merges |
| `Visibility` | the snapshot of the users the bot sees, with Discord, the gateway and the process's faults |
| `Statistics` | every figure of the statistics, tabs and cards, as operators over a user's changing rows |
| `MCSessions`, `MCService`, `MCCatalog`, `MCVisibility`, `MCStatistics` | instances for TLC |
| `SessionsProofs`, `LedgerProofs`, `LinkCodesProofs`, `ServiceProofs`, `QuotaProofs`, `CatalogProofs`, `VisibilityProofs`, `StatisticsProofs` | the theorems |

The systems share tables, but at places where one only reads what another
guarantees: `Sessions` reads a fixed alias table (`Catalog` shows that names and
sessions stay together), and `Service` sees sessions only through the cascade of
a purge, which `Sessions` has as well.

### How `Sessions` corresponds to the code

One user is modelled: every query, lock and constraint of the session code is
keyed by `user_id`, and no session write of one user reads another's rows.

| state | code |
|---|---|
| `rows` | `game_sessions` of the user; a key without a row is `NoRow` |
| `account`, `purgeAt` | the `users` row: absent, `purge_at` NULL or set |
| `activity` | discord.py's member cache (external) |
| `inbox` | handlers waiting for `user_session_lock`; `asyncio.Lock` is first come, first served |
| `bot` | locals of the handler that holds the lock: its event, the `User` instance in its identity map, the row it read, the decision it took |
| `scan` | the startup pass: to be run, waiting for the lock, done |
| `req` | each request's locals between its reads and its write |
| `synced` | history only: the activity last processed to the end |

- **A step is what one statement makes visible.** A handler is `BotTake`,
  `BotLoadUser`, `BotLoadOpen`, then `BotClose`, `BotStitch`, `BotResume`,
  `BotStart` as `reconcile_user` decides. A conditional UPDATE holds the row lock
  to its commit and re-checks its WHERE clause, so update and commit are one step;
  the SELECTs before it are earlier steps. The bot's INSERT takes a key-share lock
  on the users row, which serialises it with `schedule_deletion`'s FOR UPDATE.
- **`start_session` reads `db.get(User)`**, which returns the instance that
  `reconcile_user` put in the identity map: the model tests `bot.user`, not
  `account`; a users row that is gone shows only as the foreign key.
- **Constraints**: the unique index is checked before the exclusion constraint
  (its index is older). A violation is an outcome of the step: `Raise` in the
  bot, an answer without a write in the API (`Store`).
- **A request that is refused while reading is not a step**: it changes nothing.
- **Ties**: equal `end_time`s leave `find_stitch_candidate`'s choice open.
- **Duplicates**: a member seen in two guilds produces each update twice.
  **Reconnects** refill the cache without events (`SilentChange`).
  **Restarts** lose the queue and the handler, not the commits, and run the
  startup pass.
- **Names and games**: `GameOf` is a fixed alias table; a string nobody has seen
  gets a stub, which behaves as a game no row refers to. Merges are not in this
  module. The 12 h rule of `_close_open` chooses the wording of a note only.
- **Ids** are reused only when no row, handler or request refers to them
  (`Fresh`); a sequence never repeats a value, and a forgotten key stands for a
  new one.

### How the account side corresponds to the code

| state | code |
|---|---|
| `codes`, `pending` | the Redis keys `link:code:<digest>` and `link:user:<id>` |
| `link` | the call of `issue_code`, `redeem_code` or `discard_pending_code` each process is in, between two Redis round trips |
| `users`, `tokens`, `devices`, `trail` | `users`, `user_auth_tokens`, `user_devices`, `account_deletion_events` |
| `hits` | counters of `_incr_window`: failures per address and overall, demo logins, hourly voice attempts |
| `req` | the request of each process: its step, its user, and what it read of the account (`saw`, `existed`) |
| `job`, `dedup` | a weekly run of a worker and the `weekly_report:<week>:<id>` keys |
| `usage` | `voice_usage` rows of the day |
| `disturbed`, `history`, `outcome`, `paid`, `unlogged` | history only |

- **A request reads the account once and writes later.** The sessionmaker has
  `expire_on_commit=False`, and the locking SELECT of `account_deletion.py` hands
  back the instance the auth dependency loaded: `Authenticate` stores what it saw
  of `purge_at`, `ScheduleDeletion` and `CancelDeletion` decide by that. The
  Discord login reads the row before its requests to Discord and inserts after
  them. An attribute that did not change is not written (`DemoCommit`).
- **The two keys of a code are written by different commands**, so calls of one
  user interleave between them, and a call can be lost at any of them
  (`CallLost`); `disturbed` remembers whose calls overlapped or were lost.
- **Redis fails open** in the hourly voice quota, the lockout and the demo login's
  counter: each has a disjunct without the hit.
- **A weekly run** lists the users, then per user takes the key, counts devices,
  sends and commits; devices are registered, moved and deleted in between, a send
  is answered per device, and the worker may raise or die at each point. Redis may
  fail at the SET before or after it was executed, and the DEL of `_release_dedup`
  may fail and leave the key (`Release`). A key runs out after `DedupDays`
  (`DEDUP_KEY_TTL_SECONDS`), within the week of the model, but not under a run that is at
  work on its user: none takes six days for one.
- **Days** stand for the grace period, the token lifetime and the device
  staleness; windows and codes may end at any instant.

### How `Catalog` corresponds to the code

An action is one transaction, at its commit; an operation that writes what it
computed from an earlier read is two actions (`PreferRead`/`PreferCommit`,
`LinkRead`/`LinkCommit`, `MergeRead`/`MergeCommit`, `EnrichLookup`/`EnrichWrite`,
`BotResolve`/`BotCommit`).

| state | code |
|---|---|
| `games` | `games`: status, external id, name, cover and `cover_is_custom`; slots in the order of ids, never used twice |
| `alias`, `prefs` | `game_aliases`, `user_game_preferences.is_accepted` |
| `played` | the game of a user's sessions from a process name |
| `queue`, `job` | `enrich_game` messages in the broker, and what each worker writes next |
| `req`, `merge` | locals of a bot event or request, and of the merge under way |
| `overlapped` | history: rows written from a read that was no longer true |

- **Only changed columns are sent**: `Update(row, saw, new)` writes a column when
  the new value differs from the one the ORM loaded. A write over a stale read
  therefore mixes two versions of a row. `MCCatalog` gives a process name and a
  title the same value so that such equal writes happen.
- **`EnrichWrite` re-reads under a row lock** and keeps an id, a custom cover and
  a recognised status; `igdb-link` and `merge` lock nothing.
- **What an upstream search answers is an input**: found, tie, miss, unexpected,
  to be retried, unanswered; `Outcome` decides what the worker does with the
  pair of answers and the tries left.
- **Stubs**: two handlers that see one new name both insert; the unique alias lets
  one win and the other uses its game (`BotCommit`).
- **A merge** loads both games with their aliases and preferences, and commits
  later: what was attached since is `lateNames` and `lateUsers`.
- **The demo account** is not among `Users`: its nightly reset deletes and reseeds its
  preferences, so nothing is promised of its answers.

### How `Visibility` corresponds to the code

| state | code |
|---|---|
| `member`, `inGuild` | Discord (external) |
| `cache`, `whole`, `unchunked` | discord.py's member cache, the guilds that are available and chunked, and those that are available and whose chunking failed |
| `conn` | the gateway: up, lost with the process alive, or process down |
| `snapshot` | Redis: the visible set, `membership_synced_at`, `membership_complete`, `bot:started_at`, the heartbeat |
| `checks`, `queue`, `scan` | joins waiting for the database, tasks waiting for `_lock` (first come, first served), locals of `rebuild_snapshot` |
| `unheard`, `doubted` | history: users whose change produced no event the bot handled, since the last complete scan and as far as Redis knows |

A guild is chunked when the bot joins it, when it becomes available and when the gateway
(re)connects, and every time that may fail. Nobody tries again: `_membership_rebuild_loop`
calls `rebuild_snapshot`, which only reads the cache. An unchunked guild tells of its
changes, but its cache starts empty, so a member who leaves it is news only if he joined
since. It stays unchunked until an outage, a reconnect or the bot's leaving; that
late answers of Discord to a chunk request may still fill the cache is left out.

`Answer` is `get_bot_visibility`, which reads its keys in one transaction. One statement
about the world is a guard: a row is committed within `Margin` of its `created_at`
(`Tick`; the code's own margin, `SCAN_COVERAGE_MARGIN_SECONDS`). Stamps are whole seconds
and compared with `<` (`core/bot_membership.py:68`), so a process that starts in the second
of the last scan still answers from that scan; `Ready` then leaves the doubts it had.
A removal may wait for the lock as long as it likes, also while its user comes back:
`RemovalWaits` is why a scan does not settle such a user.

### How `Statistics` corresponds to the code

There is one operator per query or pure function: `Heatmap`, `Trend`, `Streak`, `Summary`,
`Dashboard`, `Breakdown`, `Companies`, `ReleaseYears`, `Tab`, `CardSeconds`,
`GameStats`, `Suggested`. The filters keep SQL's three-valued logic: a game without a
preference row has `Null` in both columns. The calendar is small and the offset
of the user's zone an integer; a session does not live through a change of
daylight saving, which the code treats as an accepted skew. The rows change by an
over-approximation of the writers of the other modules. Loops are recursive functions:
`Pieces` is the `while` of both splits, `Longer` one step of the loop of
`_compute_streaks`. `Ranked` is an `ORDER BY`: rows of equal rank come in some order, as no
property tells their names apart.

## 3. Runs

| run | question | instance |
|---|---|---|
| `sessions_presence` | does the bot stay consistent under every fault around it? | two games, two queued events, all of repeated, duplicated, lost events, restarts, database failures, deletion scheduled and cancelled; no requests |
| `sessions_races` | do requests, the bot and the tasks get along? | two requests in flight of any kind of the five, one game, gateway gaps |
| `sessions_liveness` | does the bot converge, are trash and flickers removed? | three rows, two names of one game and another game, one delete or restore at a time |
| `sessions_ledger` | is every write a legal step in the life of a row? | one request of any kind at a time, restarts, deletion |
| `service` | do logins, codes, deletion, push and quotas get along? | three users (an ordinary one, the demo account, an administrator not yet logged in), three codes, two requests and two report runs at a time |
| `catalog` | do the writers of the catalog get along? | three rows (a recognised game, a stub, a free slot), two users, names, requests and workers, two IGDB ids and a Steam id |
| `visibility` | does the API deny visibility only with proof, and converge? | one user, a member of the first of two guilds, two changes or faults (failed chunking among them), two waiting tasks |
| `statistics` | are the figures what they say, and do they agree? | two games, histories of three days, one new session, two offsets |
| `sessions_note`, `sessions_hard_delete`, `sessions_scheduled`, `service_audit` | four statements of the documentation the code does not keep | the smallest instance that shows each |

Bounds of the sessions runs: two rows (three for liveness) are enough for a conflict between any two
writers, since all constraints relate pairs of rows; keys return as rows leave.
The unit of time is the short-flicker limit: at 1, a session of length 0 is a
flicker and one of length 1 is not; the stitch window is 1 and the purge margin
2, the least the settings validator accepts. `Horizon` 1 lets users act at the
instants 0 and 1, so that starts, ends and manual ranges meet in every order
(`FutureGrace` 1 adds instants ahead of the clock); the clock then runs to
`MaxTime` with the nightly tasks, far enough for every retention to pass.
`QueueMax` bounds waiting handlers. `Room` takes in work only while keys are left
for what it may insert; it is the one guard the code does not have, and it
restricts what enters, never what is under way. Symmetry (row keys, request
slots) is used for safety runs only.

Bounds of the other runs:

- `MaxCalls` (service) and `calls` (catalog) count operations begun; `Mixes` says which
  kinds a behaviour is made of. A race needs two or three operations of kinds that
  touch the same rows, so each mix gathers kinds that do: three calls (four for
  the merge that meets two session starts and an alias). Mixes cover every kind.
- service: limits of 1 and 2 are reached and passed within three calls; two
  days let a grace period, a token, a device and a deduplication key run out.
  `MaxCollisionRetries` is 2, so that a collision is retried and a second one gives up.
- catalog: three slots hold a target, a source and a row that appears
  meanwhile; `MaxRetries` 1 has a first and a last try; one merge at a time.
- visibility: `Margin` 1 and `MaxTime` 3 leave room for a scan that covers an account
  older than the margin, and for a second process after an earlier scan. Two changes are
  a guild that cannot be chunked and a member who leaves the other one. With one guild the tests of the other
  guilds in `on_member_remove` would be void; with two they are not.
- statistics: a day of two hours of two units, a week of two days, months of
  three and two days: sessions of 4 and 6 units cross hours and days, windows 0 to
  3 take each granularity of the trend, and a manual session can lie ahead of the
  clock.

No run checks for deadlock: every instance ends at its bounds (`MaxTime`, `MaxCalls`,
`MaxChanges`), and users owe nothing.

Every property is kept honest by a mutant: a definition with a plausible bug
(`...AnySource`, `...AtOnce`, `ClosedRangesMeet`, `RedeemTakeByGet`, `BoundAsRead`, ...)
stands before the real one, and substituting it must break the property.

### Properties

Sessions:

- `RowsOK`: the columns of every row agree whoever wrote it (end iff COMPLETED,
  flickers are exactly the short sessions the bot closed, manual sessions keep
  the cap and the grace, only what ended is ever in the trash).
- `OneTimeline`: no overlap, one open row. The bot's close, the sweeps and
  `schedule_deletion` rely on never meeting an `IntegrityError`.
- `StartFindsNoOpenRow`: what the user lock is for.
- `OpenRowIsSynced`: what is open is what was observed, whoever interfered.
- `BotKeepsManualRows`, `NightlyTasksAreSafe`, `SkippedOnlyForManual`: what a
  step may never do.
- `NoSpuriousError`, `SettlesOnPlayedGame`, `TrashIsEmptied`, `FlickersGo`: with
  requests limited to deletes and restores and no faults but repeated starts (section 5
  proves the first for all requests).
  With a manual session in the way, a lost event or a gap these do not hold, and
  the code's documentation does not claim them.
- `ImplementsLedger`: refinement.

Account side:

- `TrailMatchesAccount`: an account is scheduled exactly when its last audit event is a
  request, with the same purge date, and a purge follows a request in the trail, with
  the date the last request set and not before it, whichever of request, cancel, reset
  and purge meet.
- `LiveCodeIsIndexed`: a live code of a user whose calls did not overlap or break is
  the one the reverse key names, so `/logout`, the next `/login` and a deletion
  find it. For overlapping calls it is false, as the hazards at
  `link_codes.py:69`, `:85` and `:98` say; `CodesAreCredited` is what holds for all: a
  stored code logs in once.
- `GuessesBounded`, `SpendBounded`: a limit that is checked before it is counted is
  passed by at most the requests under way.
- `DemoTokensCapped`: the demo account's tokens, minted in one transaction and trimmed
  in another.
- `WeeklyReportOnce`: a second push needs a send that raised after a delivery, or a key
  that ran out; and a key nobody is at work on stands for a push, unless the run that
  left it died, found no device or could not give it back because Redis failed.

Catalog:

- `IdentityAgrees`, `NeverDemoted`: what the columns of a row say together and what is
  never undone, by writers that are minutes behind. The first exempts the rows in
  `overlapped`.
- `IdsKept`: an external id leaves the catalog only with an administrator's link of its
  game, or with a merge whose copy of the row is from before the id came to it
  (section 4). It exempts no row.
- `SessionsFollowAlias`: playtime of a name is on one game.
- `ReviewAnswersKept`: an accepted game stays accepted, and its row stays, until the
  user's own request about it, its recognition or a merge of it. The answer goes to the
  target of the merge unless the user has a row there, answered after the merge
  had looked, or the target is recognised by the merge.

Visibility and statistics:

- `FalseIsProved`: "the bot cannot see you" only when that is so, or the change
  did not reach the bot or is still being handled; `AnswersSettle`: whatever went wrong, every
  wrong "false" goes for good; so does every wrong "true", provided that from some time on the
  bot is in a guild and none of its guilds is unchunked (section 4).
- `HeatmapExact`, `TrendAccounts`, `StreaksAreRuns`: against reference definitions that
  count single units of time; `ViewsAgree`: independent queries add up to each
  other.

### Fairness

`FairSpec` of `Sessions` is weakly fair to the bot's steps (the event loop runs ready
handlers), to each request's write, to the three nightly tasks (beat schedule)
and to the clock. Users, the gateway, restarts and failures are under no
obligation. After the `Horizon` the clock waits for what is in flight, which is
the statement that a handler takes less time than a unit.

`Visibility` is weakly fair to its tasks (the event loop), the five-minute loop
(`_membership_rebuild_loop`), the expiry of a heartbeat nobody renews (Redis), the
clock, the commit of a row, and to Discord bringing back the gateway and
unavailable guilds, without which no answer can become right. A guild whose chunking
failed gets no such promise: no code and no event brings it back. Faults and
membership changes are under no obligation, and bounded.

## 4. What the checks found

1. **A repaired session keeps the restart sentence** (`NoteDescribesError`).
   `patch_session` decides whether to clear `notes` from the status it loaded, but
   its UPDATE matches COMPLETED and ERROR rows alike. A COMPLETED row that is
   reopened and errored in between ends COMPLETED with the sentence.
2. **Hard delete removes a live session** (`HardDeletesTrashOnly`).
   `?hard=true` tests `deleted_at` on the loaded row and deletes by primary key;
   a restore in between is not noticed. This is why `sessions_ledger` allows one
   request at a time, and it is the only way to leave the ledger: see section 5.
3. **A session opens on an account scheduled for deletion**
   (`NoNewSessionWhileScheduled`): `start_session` sees the `purge_at`
   that `reconcile_user` loaded, and the reopening UPDATE looks at no user.
4. **Two requested events for one deletion** (`OneRequestedEvent`): the docstring of
   `schedule_deletion` says the row lock keeps concurrent duplicates from each
   inserting one. The duplicate waits for the lock and then reads the instance
   it already has, whose `purge_at` is still empty.

Met while modelling, and without a run of their own:

- `igdb-link` puts IGDB's cover over one uploaded while it was fetching, and leaves
  it marked CUSTOM (`admin/catalog.py:229`, `game_matching.py:120`); `docs/api.md:333`
  says a custom cover is not overwritten. In the model, `LinkCommit` decides by the
  row it saw and sends the changed columns only.
- A merge can move a user's review answer to a recognised game, and drops the accepted
  answer of a user who has a row for the target (`admin/games.py:141`,
  `docs/schema.md:147`). `MergedAway` says which answers.
- `merge_game` decides from the rows it loaded whether there is an id to copy or a
  conflict (`admin/games.py:60`). An enrichment that commits before the DELETE gives the
  source an id that is deleted with it, although `docs/schema.md:150` says the survivor
  takes it. `IdsKept` excuses that merge and no other.
- The deduplication key of the weekly push lives six days (`weekly_report.py:34`). Set on
  Monday at 09:00 it is gone on Sunday of the same ISO week, so a task invoked again on
  that day pushes a second time, where the docstring promises one push per week
  (`weekly_report.py:1`). `DedupExpires` and the `lapsed` pushes of `WeeklyReportOnce`.
- A guild whose `chunk()` failed is never chunked again (`membership.py:135`). While
  the bot has one, `on_member_remove` returns early for members of all other guilds
  and every rebuild is partial and keeps who was visible, so a user who left stays visible
  as long as the connection lasts. The comment on the loop says it "repairs any missed
  member event" (`bot/main.py:121`). A bot that has left its last guild keeps everybody
  visible in the same way. `AnswersSettle` excuses both.
- `igdb-link` and `merge` write over rows they did not lock; a row can end with the id
  of one game and the title of another. `overlapped` marks exactly those rows,
  and `IdentityAgrees` excepts them.
- A session inserted between the merge's UPDATE of the sessions and its DELETE of the
  source makes the merge fail on the foreign key, which `docs/schema.md:257` says
  is never violated (`MergeFails`). An alias attached to the source in that time
  goes with it by cascade.
- `restore_session` of a row swept since its read ends in a 500 (`sessions.py:480`).
- A manual session ahead of the clock that crosses local midnight is in the
  trend's total only after midnight (`stats.py:556`); `TrendAccounts` says so.

## 5. Proofs

Checked by TLAPS for every value of the constants that satisfies the assumptions
of the modules:

- `NamesAssumption`, `SettingsAssumption` (the validators of `core/config.py`) and
  `InstanceAssumption`: any number of rows, games, names, requests in flight and
  queued handlers, any clock;
- `LinkAssumption`, `AccountAssumption`, `VoiceAssumption`: finitely many codes and
  processes, any users, devices, addresses, limits and mixes, any bound on calls
  and days. Somebody is logged in at the start (the devices are his), and the
  demo account starts with no more tokens than its cap, as the reset leaves it;
- `ReportAssumption`: any lifetime of the deduplication key of at least a day;
- `CatalogAssumption`: any catalog whose rows agree at the start, any ids, users,
  requests and workers; the words for a search without a result are not ids;
- `VisibilityAssumption`: any users, guilds, first members, margin, and any bounds on the
  clock, the changes and the waiting tasks;
- `StatisticsAssumption`, `CalendarAssumption`: any games, tags, calendar, zones, windows
  and limits.

### Sessions

`IInv = TypeOK /\ Safe /\ HandlerOK /\ RequestsOK`, where `Safe` is the four
invariants of section 3. They are not inductive alone, for two reasons, and the
two other conjuncts are the reasons in words:

- `HandlerOK`: a handler acts on what it read. The row it is about to end is the
  only open row, the row it may reopen is of the game it starts, and it starts
  only what it observed for a user it saw active. True because *nobody else opens
  a row* (`OthersWrite`: requests, tasks and deletion only close, trash, restore
  ended rows, insert ended rows and remove).
- `RequestsOK`: a request acts on what it validated. Bounds only widen with the
  clock; the start of a row never changes; and a session that was long enough to
  be visible cannot become a flicker when the bot reopens and closes it
  (`PatchAfterBot`), which is what makes `patch_session` safe although its UPDATE
  does not repeat the `is_flicker` test.

The argument: the first part of `SessionsProofs` shows for each writer that it makes a good row of
a good row (`CompletedGood`, `RepairedGood`, ...), that a row both constraints accept
keeps the line (`StoreKeepsLine`), and that a write which only gives up part of
the timeline needs no check (`ShrinkKeepsLine`). The second part reduces every
step outside the bot to `OthersWrite` and every step of the bot to `ReadStep` or
`WriteStep`, one lemma per action, and `NextPreserves` collects them. From
`Inductive` follow `TypeCorrect`, `RowsAreGood`, `TimelineIsALine`,
`LockSerialisesStarts`, `OpenRowFollowsPresence`, and with one step more the action
properties `NightlyTasksSpareLiveRows` (this is where `GcMargin > StitchWindow` is
used), `BotLeavesManualRowsAlone` and `OnlyManualBlocksAStart`.

`NothingEndsAsError` has a hypothesis, `Undisturbed`: of the faults at most repeated starts, and no
deletion is scheduled (all other requests are allowed, hard deletes included). A handler
ends a row as ERROR when its game is neither side of the event, so the invariant is about
the queue: `StoryOK` says that each event begins where the one before it ended, or is a
repeated start, that the first one begins at what was processed last, and that the last
one ends at what the user does now. `CalmOK` adds that a row is open only while it is known
what was processed last: a handler can still raise, when a hard delete meets a restored and
reopened session, and then nothing is open. A duplicated switch between two games breaks the
story: its second copy finds the session of the new game, which is not the game before.

**The refinement** (`LedgerProofs`): `WritesAreLives` is `Sessions => SessionLedger`, one
lemma per writing action, under the hypothesis `NoRestoreRace`: the instance has no hard
deletes, or no restores, or at most one request at a time. That hypothesis is
finding 2 turned round: a hard delete that races a restore is the only
interleaving of the whole system that breaks the life of a row. With it,
`HardMeetsTrash` (what a hard delete is about to remove is in the trash) is
invariant, together with `Blank`, which says that a key without a row tells nothing.

### Account side

- `LinkCodesProofs`: `LinkInv` says which call of an undisturbed user knows the one code
  that can be live: `IssueRead` makes the call its holder, the store moves it to
  the new code, and the index hands it to the reverse key.
- `ServiceProofs`: every step of the whole service is a step of `LinkCodes` or
  leaves it alone (`ServiceImplementsLinkCodes`), so `LiveCodesFound` follows from the
  small module, for the users none of whose calls overlapped or was cut short.
  `TrailsMatch` needs what each pending request saw of the account (`StoriesOK`), and that
  a purge is recorded right after the request it carries out; `CodesCredited` counts the
  codes of a user (`CreditOK`).
- `QuotaProofs`, the limits: both are checked before what they limit. The invariant
  counts a request twice, as one past the check and later in the counter, and
  bounds the sum by the limit and N - 1 other requests: the last to pass found the
  counter below it.
- `QuotaProofs`, the demo cap: `DemoTokensCapped` speaks of the moments without a
  pending trim, so the invariant `DemoOK` counts the tokens against the cap, the logins
  whose trim failed *and* the logins about to trim. A trim keeps the newest of the
  tokens it finds; that those are at most the cap, whatever the set, is proved
  from a least element of a set of tokens that has too many (`NewestFew`).
- `QuotaProofs`, the types: a counter bounded by `MaxCalls` is not so by its own steps, since a
  request hits one several steps after it began. `CountersOK` bounds each counter
  together with the number of requests that may still add to it (`MayHit`, `MayMint`,
  `MayPay`, ...): a step that counts leaves those places, a step that enters
  them has just spent a call.
- `ServiceProofs`, the push: who holds a user's key. A key that is set belongs to the one
  worker at work on that user, to a push that was delivered and has not lapsed, or
  to a run that had nothing to send to, died or lost Redis. Two workers are never at work
  on one user, since a key does not run out under the one who holds it.

### Catalog

`CatalogProofs`: rows appear in the order of their ids and only a merge removes one; a
name is rebound only when its game is merged away, so the game a bot event has looked
up, if it is still there, is the one its name is bound to (`LookupHolds`); and what
a request read as recognised stays so, which makes every status it writes later
right (`StatusOK`). From this `IdentitiesAgree`, `RecognisedStays`, `NamesFollowed` and
`AnswersSurvive`. `IdsSurvive` rests on the merge: when its copies still carry the ids of
the rows, either the two ids agree or the survivor takes the one there is
(`MergeKeepsId`). The merge is the long case:
three rows, the late names and the late users at once. `CatalogTyped` adds that every copy of
a row which a request, a worker or the merge is still to write back is a row.

### Visibility

A "false" is an answer from a scan that may be old, given by another process than
the one that knows what happened since. The invariant of `VisibilityProofs` follows
the knowledge on its way: the cache is exact for guilds that are available and chunked,
but for what went `unheard`, and nothing is claimed of the others (`CacheOK`); a waiting removal whose user is back is followed by an addition,
a check or a doubt (`RemovalsOK`, which needs the order of the queue); what the rebuild
has read is about everybody it will answer for (`ScanOK`, where the margin is used:
an account created before the margin is committed, hence among the ids read); and
the snapshot proves what it claims (`SnapshotOK`), with the doubts it does not cover
(`DoubtOK`). `FalseMeansAbsent` follows. That a removal which outlives its user's return
had to be part of the invariant was found by trying to prove it: an earlier version of
the model excluded the case.

### Statistics

The four invariants relate figures computed from one state, so the only thing to be
inductive is what the state is (`StatisticsTyped`: finitely many rows, an open one
started by now, no row before the epoch). The rest is what the loops and sums of
`stats.py` return for any rows, which is induction over data. The induction theorems
of the library take the property as an operator, which the provers cannot
instantiate, so `StatisticsProofs` first has the induction it needs with the
property as the *set* of what has it: `NatInd` (numbers), `FinInd` (finite sets, one
member at a time) and `Recursion` (a function defined from its values of
lower rank exists and obeys its equation). On these rest the lemmas about sums,
`SumAdd`, `SumOfParts` and `SumByGroup`: a sum does not depend on the order of its
members, and is the sum of the sums of its groups.

- `ViewsTellOneStory`: a query that groups or filters sums a part of the rows, and the
  parts are the whole. That the companies listed are the largest needs that a
  sorted enumeration of a finite set exists (`OrderExists`).
- `StreaksCountRuns`: the invariant of the loop over the sorted dates is that `run` is the
  run which ends at the current date and `longest` the longest so far (`LongestRunIs`);
  between two neighbours of the sorted dates there is no other date. `RunBackIs` is the
  loop back from today.
- `HeatmapAllocatesAll` and `TrendIsComplete` share `PiecesSplit`: by induction on the
  seconds that remain, each second of a session is in exactly one piece and no piece
  crosses a boundary. A cell is a function of the hour (`CellOfHour`) and a bucket of the
  day, so a piece is in one of each, and the sum over pieces counts seconds
  (`RowsAgree`).
- `TrendIsComplete`, the axis: the start of a bucket is the greatest start up to its dates
  (`Buckets`), the next bucket is the least start after it (`NextStart`), so
  the loop from the first to the last lists every start once and in order
  (`StartsListed`).

The assumptions: `StatisticsAssumption` (positive lengths of hours, days and weeks; zero is
the start of a month) and `CalendarAssumption`: the clock starts late enough that no window
or manual session reaches before the epoch, and a month starts after the last instant, as
one always does. Offsets of zones are not negative: the unit and the epoch can be chosen
so, since only differences matter. The lengths of months are arbitrary.

### Only model-checked

Liveness (`SettlesOnPlayedGame`, `TrashIsEmptied`, `FlickersGo`, `AnswersSettle`), which is
out of the prover's reach, as is ENABLED; and the four runs that show a violation.
Every invariant and every action property that a passing run checks is a theorem.
Two of them are theorems with a hypothesis that the run of the property satisfies:
`Undisturbed` and `NoRestoreRace`, above.

## 6. Not modelled, and the plan

Not modelled:

- **Text**: replies, panel and embeds, the parsing of a transcript, audio sniffing,
  string similarity and confidence of a match, sanitising of names, resolution of
  companies and genres.
- **Single-statement writes of rows nothing else reads**: reports and their triage,
  admin notes; `admin_overview`, which only counts.
- **Read-only endpoints** that list what other components write.
- **Plumbing**: logging, tracing, the IGDB token cache, client addresses behind proxies,
  configuration beyond the validated settings.
- **Migrations**: DDL, but for the overlap repair of 0022, which is data.
- **The capture script of the demo account**: an operator runs it by hand.

Next, in this order:

1. The overlap repair of migration 0022 as an operator, against `OneTimeline`.
2. `Sessions` composed with `Catalog`: an alias table that changes while a handler
   holds the game it resolved, and a merge that moves open sessions.
3. `IdentityAgrees` sharpened for the rows in `overlapped`: which columns of which writer
   such a row can mix.
