--------------------------- MODULE SessionLedger ---------------------------
(***************************************************************************)
(* What the service promises about one user's sessions, without clocks,    *)
(* locks, queues or requests: the life of each row.  A session is open, or *)
(* closed, or broken (ERROR); a closed or broken one can be repaired,      *)
(* trashed and restored; nothing leaves the table except from the trash,   *)
(* out of hiding (a flicker), or with the whole account.                   *)
(***************************************************************************)
CONSTANT Ids

VARIABLE life

Lives == [status: {"NONE", "ONGOING", "COMPLETED", "ERROR"},
          source: {"NONE", "BOT", "MANUAL"}, trashed: BOOLEAN, hidden: BOOLEAN]

Nothing == [status |-> "NONE", source |-> "NONE", trashed |-> FALSE, hidden |-> FALSE]

LedgerTypeOK == life \in [Ids -> Lives]

LedgerInit == life = [i \in Ids |-> Nothing]

NobodyOpen == \A i \in Ids : life[i].status # "ONGOING"
Ended(i) == life[i].status \in {"COMPLETED", "ERROR"}

\* The bot opens a session: start_session.
Open(i) ==
    /\ life[i] = Nothing /\ NobodyOpen
    /\ life' = [life EXCEPT ![i] = [Nothing EXCEPT !.status = "ONGOING", !.source = "BOT"]]

\* The user logs one: create_session.
Log(i) ==
    /\ life[i] = Nothing
    /\ life' = [life EXCEPT ![i] = [Nothing EXCEPT !.status = "COMPLETED",
                                                   !.source = "MANUAL"]]

\* complete_session, which hides what was too short.
Close(i) ==
    /\ life[i].status = "ONGOING"
    /\ \E short \in BOOLEAN :
        life' = [life EXCEPT ![i].status = "COMPLETED", ![i].hidden = short]

\* error_session, and the one UPDATE of schedule_deletion.
Break(i) ==
    /\ life[i].status = "ONGOING"
    /\ life' = [life EXCEPT ![i].status = "ERROR"]

\* start_or_resume_session reopens what the bot itself closed.
Resume(i) ==
    /\ life[i].status = "COMPLETED" /\ life[i].source = "BOT" /\ ~life[i].trashed
    /\ NobodyOpen
    /\ life' = [life EXCEPT ![i].status = "ONGOING", ![i].hidden = FALSE]

\* patch_session: from then on the session is the user's.
Repair(i) ==
    /\ Ended(i) /\ ~life[i].hidden
    /\ life' = [life EXCEPT ![i].status = "COMPLETED", ![i].source = "MANUAL"]

Trash(i) ==
    /\ Ended(i) /\ ~life[i].hidden /\ ~life[i].trashed
    /\ life' = [life EXCEPT ![i].trashed = TRUE]

Restore(i) ==
    /\ life[i].trashed
    /\ life' = [life EXCEPT ![i].trashed = FALSE]

\* ?hard=true, the sweeper, the flicker purge and the account purge.
Remove(gone) ==
    /\ \/ \A i \in gone : life[i].trashed
       \/ \A i \in gone : life[i].hidden
       \/ gone = Ids
    /\ life' = [i \in Ids |-> IF i \in gone THEN Nothing ELSE life[i]]

LedgerNext ==
    \/ \E i \in Ids : \/ Open(i) \/ Log(i) \/ Close(i) \/ Break(i) \/ Resume(i)
                      \/ Repair(i) \/ Trash(i) \/ Restore(i)
    \/ \E gone \in SUBSET Ids : Remove(gone)

LedgerSpec == LedgerInit /\ [][LedgerNext]_life
=============================================================================
