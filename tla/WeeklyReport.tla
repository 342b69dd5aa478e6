---------------------------- MODULE WeeklyReport -----------------------------
(* The weekly push (src/app/tasks/weekly_report.py, src/app/services/fcm.py)  *)
(* beside the requests that move and delete the devices it sends to.  A run   *)
(* is one worker, and the task may be invoked again on any day.  The horizon  *)
(* of the model lies in one ISO week, so a user has one dedup key; its time   *)
(* to live is shorter than the week, and runs out within the horizon.         *)
EXTENDS Accounts

CONSTANTS Workers,
          DedupDays     \* DEDUP_KEY_TTL_SECONDS, in days

ASSUME ReportAssumption == DedupDays \in Nat \ {0}

VARIABLES
    job,       \* the run each worker is in
    dedup,     \* the day weekly_report:<week>:<id> was set, for each user
    outcome    \* history of each user: pushes sent to it, how many of them
               \* raised afterwards, how many outlived their key, and whether
               \* the key it has was left by a run that pushed nothing to it

reportVars == <<job, dedup, outcome>>

Job == [pc : {"idle", "users", "count", "send", "commit"},
        todo : SUBSET Users, user : Users \cup {NoUser}, counted : BOOLEAN,
        live : SUBSET Devices, dead : SUBSET Devices]
NoJob == [pc |-> "idle", todo |-> {}, user |-> NoUser, counted |-> FALSE,
          live |-> {}, dead |-> {}]

ReportTypeOK ==
    /\ job \in [Workers -> Job]
    /\ dedup \in [Users -> {Never} \cup Days]
    /\ outcome \in [Users -> [pushed : Nat, raised : Nat, lapsed : Nat, excused : BOOLEAN]]

ReportInit ==
    /\ job = [w \in Workers |-> NoJob]
    /\ dedup = [u \in Users |-> Never]
    /\ outcome = [u \in Users |-> [pushed |-> 0, raised |-> 0, lapsed |-> 0,
                                   excused |-> FALSE]]

-----------------------------------------------------------------------------
ReportStart(w) ==
    LET listed == {u \in Users : users[u].report /\ users[u].purgeAt = Never} IN
    /\ job[w] = NoJob /\ Spend("report")
    /\ listed # {}
    /\ job' = [job EXCEPT ![w].pc = "users", ![w].todo = listed]
    /\ UNCHANGED <<users, tokens, devices, trail, hits, now, req, minted, history,
                   linkVars, dedup, outcome>>

\* The run goes on with the users it has left.
NextUser(w) == job' = [job EXCEPT ![w] = [NoJob EXCEPT !.todo = job[w].todo \ {job[w].user},
                      !.pc = IF job[w].todo \ {job[w].user} = {} THEN "idle" ELSE "users"]]

KeySet(u) == dedup[u] # Never
SetKey(u, excused) ==
    /\ dedup' = [dedup EXCEPT ![u] = now]
    /\ outcome' = [outcome EXCEPT ![u].excused = excused]

\* _release_dedup, which logs a failing DEL and leaves the key.
Release(u, o) ==
    \/ /\ dedup' = [dedup EXCEPT ![u] = Never]
       /\ outcome' = [outcome EXCEPT ![u] = o]
    \/ /\ UNCHANGED dedup
       /\ outcome' = [outcome EXCEPT ![u] = [o EXCEPT !.excused = TRUE]]

ReportAcquireAlways(w, u) ==
    /\ job[w].pc = "users" /\ u \in job[w].todo
    /\ SetKey(u, FALSE)
    /\ job' = [job EXCEPT ![w].pc = "count", ![w].user = u]
    /\ UNCHANGED accountVars

\* SET NX; a user is skipped whose key is set, or for whom Redis raises,
\* before it has set the key or after.
ReportAcquire(w, u) ==
    /\ job[w].pc = "users" /\ u \in job[w].todo
    /\ \/ /\ ~KeySet(u) /\ SetKey(u, FALSE)
          /\ job' = [job EXCEPT ![w].pc = "count", ![w].user = u]
       \/ /\ \/ ~KeySet(u) /\ SetKey(u, TRUE)
             \/ UNCHANGED <<dedup, outcome>>
          /\ job' = [job EXCEPT ![w].todo = @ \ {u},
                       ![w].pc = IF job[w].todo = {u} THEN "idle" ELSE "users"]
    /\ UNCHANGED accountVars

ReportCount(w) ==
    LET u == job[w].user IN
    /\ job[w].pc = "count"
    /\ IF users[u].exists
       THEN /\ job' = [job EXCEPT ![w].pc = "send",
                                  ![w].counted = Owned(devices, u) # {}]
            /\ UNCHANGED <<dedup, outcome>>
       ELSE NextUser(w) /\ Release(u, outcome[u])
    /\ UNCHANGED accountVars

\* Nothing was delivered to u: the key is given back if devices were counted.
Undelivered(u, counted) ==
    IF counted THEN Release(u, outcome[u])
    ELSE UNCHANGED dedup /\ outcome' = [outcome EXCEPT ![u].excused = TRUE]

\* send_to_user: the devices are read, and each is answered delivered, dead
\* or with a transient error.
ReportSend(w) ==
    LET u == job[w].user
        rows == Owned(devices, u) IN
    /\ job[w].pc = "send"
    /\ IF rows = {}
       THEN NextUser(w) /\ Undelivered(u, job[w].counted)
       ELSE \E live \in SUBSET rows : \E dead \in SUBSET (rows \ live) :
            /\ job' = [job EXCEPT ![w].pc = "commit", ![w].live = live, ![w].dead = dead]
            /\ outcome' = [outcome EXCEPT ![u].pushed = IF live = {} THEN @ ELSE @ + 1]
            /\ UNCHANGED dedup
    /\ UNCHANGED accountVars

\* Dead tokens go whoever holds them now; a device that was delivered to but
\* is deleted since makes the UPDATE of its last_active raise.
ReportCommit(w) ==
    LET u == job[w].user
        stale == {d \in job[w].live : devices[d] = NoDevice} IN
    /\ job[w].pc = "commit" /\ stale = {}
    /\ devices' = [d \in Devices |->
                     CASE d \in job[w].dead -> NoDevice
                       [] d \in job[w].live -> [devices[d] EXCEPT !.active = now]
                       [] OTHER -> devices[d]]
    /\ IF job[w].live = {} THEN Undelivered(u, job[w].counted)
       ELSE UNCHANGED <<dedup, outcome>>
    /\ NextUser(w)
    /\ UNCHANGED <<users, tokens, trail, hits, now, req, minted, history, calls, mix, linkVars>>

\* Anything raised between the key and the commit: rolled back, key released.
ReportRaises(w) ==
    LET u == job[w].user IN
    /\ job[w].pc \in {"count", "send", "commit"}
    /\ Release(u, IF job[w].live = {} THEN outcome[u]
                  ELSE [outcome[u] EXCEPT !.raised = @ + 1])
    /\ NextUser(w)
    /\ UNCHANGED accountVars

\* The worker dies.
ReportLost(w) ==
    /\ job[w] # NoJob
    /\ job' = [job EXCEPT ![w] = NoJob]
    /\ outcome' = IF job[w].pc = "users" THEN outcome
                  ELSE [outcome EXCEPT ![job[w].user].excused = TRUE]
    /\ UNCHANGED <<accountVars, dedup>>

\* The key runs out.  No run is six days with one user.
DedupExpires(u) ==
    /\ KeySet(u) /\ dedup[u] + DedupDays <= now
    /\ \A w \in Workers : job[w].user # u
    /\ dedup' = [dedup EXCEPT ![u] = Never]
    /\ outcome' = [outcome EXCEPT ![u].lapsed = outcome[u].pushed - outcome[u].raised]
    /\ UNCHANGED <<accountVars, job>>

ReportWork(w) ==
    \/ \E u \in Users : ReportAcquire(w, u)
    \/ ReportCount(w) \/ ReportSend(w) \/ ReportCommit(w)
    \/ ReportRaises(w) \/ ReportLost(w)

-----------------------------------------------------------------------------
\* The pushes of a user that neither raised nor outlived their key.
Standing(o) == o.pushed - o.raised - o.lapsed

(* However runs overlap, die or lose Redis, and whatever is registered,       *)
(* deleted or purged meanwhile: a second push needs a send that raised after  *)
(* devices had accepted it, or a key that ran out; and a key nobody is at     *)
(* work on stands for a push, unless the run that left it died, could not     *)
(* give it back or found no device, so that a user whose devices all refused  *)
(* is retried.                                                                *)
WeeklyReportOnce ==
    \A u \in Users :
        /\ Standing(outcome[u]) <= 1
        /\ KeySet(u) /\ (\A w \in Workers : job[w].user # u)
             => Standing(outcome[u]) = 1 \/ outcome[u].excused
=============================================================================
