-------------------------------- MODULE Voice --------------------------------
(* The paid transcription (src/app/api/v1/endpoints/voice.py) under its two   *)
(* quotas (src/app/services/voice_quota.py, src/app/core/rate_limit.py): an   *)
(* hourly counter of attempts in Redis, which fails open, and a daily count   *)
(* of voice_usage rows, written best-effort after the call is paid for.       *)
EXTENDS Accounts

CONSTANTS HourlyLimit, DailyLimit

ASSUME VoiceAssumption == {HourlyLimit, DailyLimit} \subseteq Nat

VARIABLES
    usage,     \* voice_usage rows of each user within the daily window
    paid,      \* history: transcriptions paid for in that window since the
               \* account was created
    unlogged   \* history: those whose row could not be written

voiceVars == <<usage, paid, unlogged>>

VoiceTypeOK == {usage, paid, unlogged} \subseteq [Users -> 0..(MaxCalls)]

VoiceInit ==
    /\ usage = [u \in Users |-> 0]
    /\ paid = usage
    /\ unlogged = usage

VoiceQuotaOneMore(p) ==
    LET u == req[p].user
        used == hits[VoiceKey(u)] + 1 IN
    /\ At(p, "transcribe")
    /\ \/ usage[u] > DailyLimit /\ Done(p) /\ UNCHANGED hits
       \/ /\ usage[u] <= DailyLimit
          /\ Hit(VoiceKey(u))
          /\ IF used > HourlyLimit THEN Done(p) ELSE Goto(p, "whisper")
       \/ usage[u] <= DailyLimit /\ Goto(p, "whisper") /\ UNCHANGED hits
    /\ UNCHANGED <<users, tokens, devices, trail, now, minted, history, calls, mix,
                   linkVars, voiceVars>>

\* check_voice_quota, after an upload that looks like audio.  The daily count
\* is read before the call is made; a day that is used up costs no hourly unit.
VoiceQuota(p) ==
    LET u == req[p].user
        used == hits[VoiceKey(u)] + 1 IN
    /\ At(p, "transcribe")
    /\ \/ usage[u] >= DailyLimit /\ Done(p) /\ UNCHANGED hits
       \/ /\ usage[u] < DailyLimit
          /\ Hit(VoiceKey(u))
          /\ IF used > HourlyLimit THEN Done(p) ELSE Goto(p, "whisper")
       \/ usage[u] < DailyLimit /\ Goto(p, "whisper") /\ UNCHANGED hits
    /\ UNCHANGED <<users, tokens, devices, trail, now, minted, history, calls, mix,
                   linkVars, voiceVars>>

\* Whisper answers, and bills, or the request ends 502.
Whisper(p) ==
    LET u == req[p].user IN
    /\ At(p, "whisper")
    /\ \/ Done(p) /\ UNCHANGED paid
       \/ Goto(p, "bill") /\ paid' = [paid EXCEPT ![u] = @ + 1]
    /\ UNCHANGED <<users, tokens, devices, trail, hits, now, minted, history, calls, mix,
                   linkVars, usage, unlogged>>

\* The row goes in before the parse, whatever the parse does; an insert that
\* fails, or whose account is gone, is logged and forgotten.
Bill(p) ==
    LET u == req[p].user IN
    /\ At(p, "bill")
    /\ \/ /\ users[u].exists
          /\ usage' = [usage EXCEPT ![u] = @ + 1]
          /\ UNCHANGED unlogged
       \/ unlogged' = [unlogged EXCEPT ![u] = @ + 1] /\ UNCHANGED usage
    /\ Done(p)
    /\ UNCHANGED <<users, tokens, devices, trail, hits, now, minted, history, calls, mix,
                   linkVars, paid>>

\* The request dies with its bill unwritten.
VoiceLost(p) ==
    IF At(p, "bill")
    THEN unlogged' = [unlogged EXCEPT ![req[p].user] = @ + 1] /\ UNCHANGED <<usage, paid>>
    ELSE UNCHANGED voiceVars

\* voice_usage rows go with their account, and with the nightly reset.
Cleared(count, gone) == [u \in Users |-> IF u \in gone THEN 0 ELSE count[u]]
VoiceErased(gone) == usage' = Cleared(usage, gone)

VoiceWork(p) == VoiceQuota(p) \/ Whisper(p) \/ Bill(p)

-----------------------------------------------------------------------------
(* "The daily cap bounds the bill", though it is read before the call it      *)
(* bounds and the hourly counter fails open: in one window an account is      *)
(* billed the cap, one call more for each request that was past the check,    *)
(* and the calls whose row was lost.  The demo account is exempt: its rows    *)
(* are deleted by the nightly reset.                                          *)
SpendBounded ==
    \A u \in Users \ {Demo} :
        paid[u] <= DailyLimit + (Cardinality(Procs) - 1) + unlogged[u]
=============================================================================
