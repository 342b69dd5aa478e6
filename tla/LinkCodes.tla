------------------------------ MODULE LinkCodes ------------------------------
(* One-time login codes (src/app/services/link_codes.py).  Redis holds two    *)
(* keys per live code, link:code:<digest> -> user and the reverse             *)
(* link:user:<id> -> code key, and no command touches both.  Each operation   *)
(* is a call of one process, one action per Redis round trip, so calls of     *)
(* several processes interleave between the two keys.  Digests are the codes  *)
(* themselves; both keys live CODE_TTL_SECONDS.                               *)
EXTENDS Integers, FiniteSets

CONSTANTS Users, Codes, Procs,
          NoUser, NoCode,
          DemoCode,               \* settings.demo_link_code, never issued
          MaxCollisionRetries     \* _MAX_COLLISION_RETRIES

ASSUME LinkAssumption ==
    /\ NoUser \notin Users
    /\ NoCode \notin Codes /\ IsFiniteSet(Codes)
    /\ MaxCollisionRetries \in Nat \ {0}

VARIABLES
    codes,       \* link:code:<digest>: the user a live code logs in
    pending,     \* link:user:<id>: the code the user was last given
    link,        \* the call each process is in
    disturbed    \* users two of whose calls overlapped, or one was cut short

linkVars == <<codes, pending, link, disturbed>>

CallPcs == {"store", "index", "drop", "clear"}
ResultPcs == {"issued", "redeemed", "refused", "discarded", "failed"}

Call == [pc : {"idle"} \cup CallPcs \cup ResultPcs,
         user : Users \cup {NoUser},
         code : Codes \cup {NoCode},   \* the code stored, taken or to be cleared
         tries : Nat]

CallAt(pc, u, c) == [pc |-> pc, user |-> u, code |-> c, tries |-> 0]
NoCall == CallAt("idle", NoUser, NoCode)

LinkTypeOK ==
    /\ codes \in [Codes -> Users \cup {NoUser}]
    /\ pending \in [Users -> Codes \cup {NoCode}]
    /\ link \in [Procs -> Call]
    /\ disturbed \in SUBSET Users

InFlight(p) == link[p].pc \in CallPcs
Busy(u) == \E p \in Procs : InFlight(p) /\ link[p].user = u
CodesOf(u) == {c \in Codes : codes[c] = u}

\* A second call for u while one is in flight.
Overlap(u) == disturbed' = IF Busy(u) THEN disturbed \cup {u} ELSE disturbed

LinkInit ==
    /\ codes = [c \in Codes |-> NoUser]
    /\ pending = [u \in Users |-> NoCode]
    /\ link = [p \in Procs |-> NoCall]
    /\ disturbed = {}

-----------------------------------------------------------------------------
(* issue_code: GET the reverse key, then until a free code is found           *)
(* MULTI DEL old; SET new NX; EXEC, then SET the reverse key.                 *)

IssueRead(p, u) ==
    /\ link[p].pc = "idle"
    /\ link' = [link EXCEPT ![p] = CallAt("store", u, pending[u])]
    /\ Overlap(u)
    /\ UNCHANGED <<codes, pending>>

WithOld(p) == codes

\* The keys after the pipeline's DEL of the code the user had.
WithoutOld(p) ==
    [c \in Codes |-> IF c = link[p].code THEN NoUser ELSE codes[c]]

\* A try that stored nothing; the last one raises RuntimeError.
Retry(p) ==
    link' = [link EXCEPT ![p].tries = @ + 1,
                         ![p].pc = IF link[p].tries + 1 = MaxCollisionRetries
                                   THEN "failed" ELSE @]

IssueStore(p, c) ==
    /\ link[p].pc = "store"
    /\ \/ /\ c = DemoCode
          /\ Retry(p)
          /\ UNCHANGED codes
       \/ /\ c # DemoCode /\ WithoutOld(p)[c] # NoUser
          /\ Retry(p)
          /\ codes' = WithoutOld(p)
       \/ /\ c # DemoCode /\ WithoutOld(p)[c] = NoUser
          /\ codes' = [WithoutOld(p) EXCEPT ![c] = link[p].user]
          /\ link' = [link EXCEPT ![p].pc = "index", ![p].code = c]
    /\ UNCHANGED <<pending, disturbed>>

IssueIndex(p) ==
    /\ link[p].pc = "index"
    /\ pending' = [pending EXCEPT ![link[p].user] = link[p].code]
    /\ link' = [link EXCEPT ![p].pc = "issued"]
    /\ UNCHANGED <<codes, disturbed>>

-----------------------------------------------------------------------------
(* redeem_code: GETDEL the code key, then DEL the user's reverse key,         *)
(* whatever it points to by then.                                             *)

RedeemTakeByGet(p, c) ==
    /\ link[p].pc = "idle"
    /\ link' = [link EXCEPT ![p] = IF codes[c] = NoUser THEN CallAt("refused", NoUser, NoCode)
                                  ELSE CallAt("drop", codes[c], c)]
    /\ disturbed' = IF codes[c] # NoUser /\ Busy(codes[c]) THEN disturbed \cup {codes[c]}
                    ELSE disturbed
    /\ UNCHANGED <<codes, pending>>

RedeemTake(p, c) ==
    /\ link[p].pc = "idle"
    /\ IF codes[c] = NoUser
       THEN /\ link' = [link EXCEPT ![p] = CallAt("refused", NoUser, NoCode)]
            /\ UNCHANGED <<codes, disturbed>>
       ELSE /\ codes' = [codes EXCEPT ![c] = NoUser]
            /\ link' = [link EXCEPT ![p] = CallAt("drop", codes[c], c)]
            /\ Overlap(codes[c])
    /\ UNCHANGED pending

RedeemDrop(p) ==
    /\ link[p].pc = "drop"
    /\ pending' = [pending EXCEPT ![link[p].user] = NoCode]
    /\ link' = [link EXCEPT ![p].pc = "redeemed"]
    /\ UNCHANGED <<codes, disturbed>>

-----------------------------------------------------------------------------
(* discard_pending_code: GETDEL the reverse key, then DEL the code key.       *)

DiscardTake(p, u) ==
    /\ link[p].pc = "idle"
    /\ pending' = [pending EXCEPT ![u] = NoCode]
    /\ link' = [link EXCEPT ![p] =
                  CallAt(IF pending[u] = NoCode THEN "discarded" ELSE "clear", u, pending[u])]
    /\ Overlap(u)
    /\ UNCHANGED codes

DiscardClear(p) ==
    /\ link[p].pc = "clear"
    /\ codes' = [codes EXCEPT ![link[p].code] = NoUser]
    /\ link' = [link EXCEPT ![p].pc = "discarded"]
    /\ UNCHANGED <<pending, disturbed>>

-----------------------------------------------------------------------------
\* The caller has the result.
Return(p) ==
    /\ link[p].pc \in ResultPcs
    /\ link' = [link EXCEPT ![p] = NoCall]
    /\ UNCHANGED <<codes, pending, disturbed>>

\* Redis cannot be reached for the next command, or the process dies.
CallLost(p) ==
    /\ InFlight(p)
    /\ link' = [link EXCEPT ![p].pc = "failed"]
    /\ disturbed' = disturbed \cup {link[p].user}
    /\ UNCHANGED <<codes, pending>>

CodeExpires(c) ==
    /\ codes[c] # NoUser
    /\ codes' = [codes EXCEPT ![c] = NoUser]
    /\ UNCHANGED <<pending, link, disturbed>>

\* The reverse key is written after its code with the same lifetime, so it
\* never expires while that code still logs the user in, unless the same code
\* has just been stored anew and its own reverse key is yet to be written.
IndexExpires(u) ==
    /\ pending[u] # NoCode
    /\ \/ codes[pending[u]] # u
       \/ \E p \in Procs : link[p].pc = "index" /\ link[p].user = u
    /\ pending' = [pending EXCEPT ![u] = NoCode]
    /\ UNCHANGED <<codes, link, disturbed>>

\* Steps no caller takes part in.
LinkStep(p) == \/ \E c \in Codes : IssueStore(p, c)
               \/ IssueIndex(p)
               \/ RedeemDrop(p)
               \/ DiscardClear(p)
               \/ CallLost(p)

LinkExpiry == \/ \E c \in Codes : CodeExpires(c)
              \/ \E u \in Users : IndexExpires(u)

LinkNext ==
    \/ \E p \in Procs :
        \/ \E u \in Users : IssueRead(p, u) \/ DiscardTake(p, u)
        \/ \E c \in Codes : RedeemTake(p, c)
        \/ LinkStep(p)
        \/ Return(p)
    \/ LinkExpiry

LinkSpec == LinkInit /\ [][LinkNext]_linkVars

-----------------------------------------------------------------------------
(* A user whose calls never overlapped and were never cut short has at most   *)
(* one live code between calls, the one the reverse key points to: the next   *)
(* /login, /logout or deletion finds it.  Overlapping calls break this: two   *)
(* issue_code calls reading one reverse key, or a redeem_code deleting the    *)
(* reverse key of a newer code, leave a live code nothing points to           *)
(* (link_codes.py:69, :98, and :85 for a call cut short).                     *)
LiveCodeIsIndexed ==
    \A u \in Users \ disturbed : ~Busy(u) => CodesOf(u) \subseteq {pending[u]}
=============================================================================
