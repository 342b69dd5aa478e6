------------------------------- MODULE Service -------------------------------
(* The account side of the backend as one system: the API and bot requests of *)
(* Accounts, the codes of LinkCodes, the runs of WeeklyReport and the voice   *)
(* requests of Voice over the same accounts, devices and counters.            *)
EXTENDS WeeklyReport, Voice

serviceVars == <<accountVars, reportVars, voiceVars>>

Init == AccountInit /\ ReportInit /\ VoiceInit

\* A new day ends the daily window of every voice_usage row.
NewDay ==
    /\ Tick
    /\ usage' = [u \in Users |-> 0]
    /\ paid' = usage' /\ unlogged' = usage'
    /\ UNCHANGED reportVars

Purge ==
    /\ PurgeAccounts
    /\ LET due == {u \in Users : Due(u)} IN
       /\ VoiceErased(due)
       /\ paid' = Cleared(paid, due) /\ unlogged' = Cleared(unlogged, due)
    /\ UNCHANGED reportVars

DemoReset(p) ==
    /\ DemoCommit(p)
    /\ VoiceErased({Demo})
    /\ UNCHANGED <<paid, unlogged, reportVars>>

Lost(p) == RequestLost(p) /\ VoiceLost(p) /\ UNCHANGED reportVars

Requests(p) == AccountRequest(p) /\ UNCHANGED <<reportVars, voiceVars>>
Work(p) ==
    \/ AccountWork(p) /\ UNCHANGED <<reportVars, voiceVars>>
    \/ DemoReset(p)
    \/ VoiceWork(p) /\ UNCHANGED reportVars
Outside ==
    /\ \/ Environment /\ UNCHANGED reportVars
       \/ \E u \in Users : DedupExpires(u)
    /\ UNCHANGED voiceVars
Report(w) == (ReportStart(w) \/ ReportWork(w)) /\ UNCHANGED voiceVars

Next ==
    \/ \E p \in Procs : Requests(p) \/ Work(p) \/ Lost(p)
    \/ \E w \in Workers : Report(w)
    \/ Outside \/ Purge \/ NewDay

Spec == Init /\ [][Next]_serviceVars

TypeOK == AccountTypeOK /\ ReportTypeOK /\ VoiceTypeOK
=============================================================================
