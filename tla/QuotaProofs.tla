----------------------------- MODULE QuotaProofs -----------------------------
(* The limits of the service that are checked apart from what they limit: the *)
(* lockout of /link and the daily cap of the transcription before it, the cap *)
(* of the demo account's tokens after; and the types of every variable, as    *)
(* the counters are the ones a shape does not bound.  A request is counted    *)
(* twice, as one between its check and its effect and, later, by the counter  *)
(* it increments; each invariant says what the two counts add up to.          *)
EXTENDS ServiceProofs, WellFoundedInduction

N == Cardinality(Procs)

Guesses == {"redeem", "redeeming"}
Guessing(ip) == {p \in Procs : req[p].pc \in Guesses /\ req[p].ip = ip}

Voicing == {"whisper", "bill"}
Spending(u) == {p \in Procs : req[p].pc \in Voicing /\ req[p].user = u}
Billing(u) == {p \in Procs : req[p].pc = "bill" /\ req[p].user = u}

\* A limit of zero lets nobody pass; with any other, the last to pass found
\* the counter below it.
GuessesOK ==
    /\ hits \in [Windows -> Nat]
    /\ \A ip \in Ips :
        /\ Guessing(ip) # {} => IpFailLimit # 0
        /\ hits[IpKey(ip)] + Cardinality(Guessing(ip)) <= IpFailLimit + N - 1

SpendOK ==
    /\ usage \in [Users -> Nat] /\ paid \in [Users -> Nat] /\ unlogged \in [Users -> Nat]
    /\ \A u \in Users \ {Demo} :
        /\ Spending(u) # {} => DailyLimit # 0
        /\ usage[u] + Cardinality(Spending(u)) <= DailyLimit + N - 1
        /\ paid[u] <= usage[u] + unlogged[u] + Cardinality(Billing(u))

-----------------------------------------------------------------------------
(* Sets of requests. *)

LEMMA Counted ==
  ASSUME NEW S, S \subseteq Procs
  PROVE  /\ IsFiniteSet(S) /\ Cardinality(S) \in Nat /\ N \in Nat \ {0}
         /\ Cardinality(S) <= N
         /\ S # Procs => Cardinality(S) <= N - 1
         /\ S = {} => Cardinality(S) = 0
  <1>0. IsFiniteSet(Procs) /\ Procs # {}
    BY AccountAssumption
  <1>1. IsFiniteSet(S) /\ Cardinality(S) <= N /\ Cardinality(S) \in Nat
    BY <1>0, FS_Subset, FS_CardinalityType DEF N
  <1>2. N \in Nat /\ N # 0
    BY <1>0, FS_CardinalityType, FS_EmptySet DEF N
  <1>3. S # Procs => Cardinality(S) # N
    BY <1>0, FS_Subset DEF N
  <1>4. S = {} => Cardinality(S) = 0
    BY FS_EmptySet
  <1> QED BY <1>1, <1>2, <1>3, <1>4

LEMMA Fewer ==
  ASSUME NEW S, NEW T, S \subseteq Procs, T \subseteq S
  PROVE  Cardinality(T) <= Cardinality(S) /\ Cardinality(T) \in Nat /\ Cardinality(S) \in Nat
  <1>1. IsFiniteSet(S) /\ Cardinality(S) \in Nat
    BY Counted
  <1> QED BY <1>1, FS_Subset, FS_CardinalityType

LEMMA OneLess ==
  ASSUME NEW S, NEW p \in S, S \subseteq Procs
  PROVE  Cardinality(S \ {p}) = Cardinality(S) - 1 /\ Cardinality(S) \in Nat
  BY Counted, FS_RemoveElement

LEMMA OneMore ==
  ASSUME NEW S, NEW p \in Procs, S \subseteq Procs, p \notin S
  PROVE  Cardinality(S \cup {p}) = Cardinality(S) + 1 /\ Cardinality(S) \in Nat
  BY Counted, FS_AddElement

\* No request comes to one of the places, and those that are there stay
\* what they are or leave.
NoneEnters(pcs) ==
    \A p \in Procs : req'[p].pc \in pcs =>
        /\ req[p].pc \in pcs
        /\ req'[p].ip = req[p].ip /\ req'[p].user = req[p].user

\* Nobody comes or goes.
NoneMoves(pcs) ==
    \A p \in Procs : req'[p].pc \in pcs \/ req[p].pc \in pcs =>
        req'[p].pc = req[p].pc /\ req'[p].user = req[p].user

(* A request that is replaced by one that is elsewhere.                       *)
LEMMA Elsewhere ==
  ASSUME RequestsOK, NEW p \in Procs, NEW r, req' = [req EXCEPT ![p] = r],
         NEW pcs, r.pc \notin pcs
  PROVE  NoneEnters(pcs) /\ (req[p].pc \notin pcs => NoneMoves(pcs))
  <1>1. \A q \in Procs : req'[q] = IF q = p THEN r ELSE req[q]
    BY DEF RequestsOK
  <1> QED BY <1>1 DEF NoneEnters, NoneMoves

LEMMA IdleElsewhere == Idle.pc \notin Guesses /\ Idle.pc \notin Voicing
  BY DEF Idle, Guesses, Voicing

(* A request that has moved on to a place.                                    *)
LEMMA Goes ==
  ASSUME RequestsOK, NEW p \in Procs, NEW pc, Goto(p, pc)
  PROVE  /\ \A q \in Procs : q # p => req'[q] = req[q]
         /\ req'[p].pc = pc /\ req'[p].ip = req[p].ip /\ req'[p].user = req[p].user
  <1>1. req \in [Procs -> Request]
    BY DEF RequestsOK
  <1> QED BY <1>1 DEF Goto, Request

LEMMA GoesElsewhere ==
  ASSUME RequestsOK, NEW p \in Procs, NEW pc, Goto(p, pc), NEW pcs, pc \notin pcs
  PROVE  NoneEnters(pcs) /\ (req[p].pc \notin pcs => NoneMoves(pcs))
  BY Goes DEF NoneEnters, NoneMoves

LEMMA Ends ==
  ASSUME RequestsOK, NEW p \in Procs, Done(p)
  PROVE  /\ NoneEnters(Guesses) /\ NoneEnters(Voicing)
         /\ req[p].pc \notin Voicing => NoneMoves(Voicing)
         /\ \A q \in Procs : q # p => req'[q] = req[q]
         /\ req'[p].pc \notin Voicing /\ req'[p].pc \notin Guesses
  <1>1. req' = [req EXCEPT ![p] = Idle]
    BY DEF Done
  <1>2. \A q \in Procs : req'[q] = IF q = p THEN Idle ELSE req[q]
    BY <1>1 DEF RequestsOK
  <1> QED BY <1>1, <1>2, Elsewhere, IdleElsewhere

LEMMA Stays == UNCHANGED req => /\ NoneEnters(Guesses) /\ NoneEnters(Voicing)
                                /\ NoneMoves(Voicing)
  BY DEF NoneEnters, NoneMoves

-----------------------------------------------------------------------------
(* Who passes a check. *)

LEMMA RequestsEnter ==
  ASSUME RequestsOK, NEW p \in Procs, Requests(p)
  PROVE  /\ NoneMoves(Voicing)
         /\ NoneEnters(Guesses) \/ \E ip \in Ips : LinkLogin(p, ip)
  <1> DEFINE Goal == /\ NoneMoves(Voicing)
                     /\ NoneEnters(Guesses) \/ \E ip \in Ips : LinkLogin(p, ip)
  <1>a. ASSUME NEW r, req' = [req EXCEPT ![p] = r], req[p] = Idle,
               r.pc \notin Guesses, r.pc \notin Voicing
        PROVE  Goal
    BY <1>a, Elsewhere, IdleElsewhere
  <1>1. ASSUME NEW i \in TokenIds, NEW op \in Operations, Authenticate(p, i, op) PROVE Goal
    <2>1. op \notin Guesses /\ op \notin Voicing
      BY DEF Operations, AllowPending, Guesses, Voicing
    <2> DEFINE r == [Idle EXCEPT !.pc = op, !.user = tokens[i].user,
                                 !.saw = users[tokens[i].user].purgeAt]
    <2>2. r.pc = op
      BY DEF Idle
    <2>3. UNCHANGED req \/ req' = [req EXCEPT ![p] = r]
      BY <1>1 DEF Authenticate
    <2>4. req[p] = Idle
      BY <1>1 DEF Authenticate
    <2> HIDE DEF r
    <2> QED BY <1>a, <2>1, <2>2, <2>3, <2>4, Stays
  <1>2. ASSUME NEW u \in Users, BotLogin(p, u) \/ BotLogout(p, u) PROVE Goal
    <2>1. PICK r : /\ r \in {[Idle EXCEPT !.pc = "issue", !.user = u],
                             [Idle EXCEPT !.pc = "discard", !.user = u]}
                   /\ req' = [req EXCEPT ![p] = r] /\ req[p] = Idle
      BY <1>2 DEF BotLogin, BotLogout
    <2>2. r.pc \notin Guesses /\ r.pc \notin Voicing
      BY <2>1 DEF Idle, Guesses, Voicing
    <2> QED BY <1>a, <2>1, <2>2
  <1>3. ASSUME NEW u \in Users, DiscordLogin(p, u) PROVE Goal
    <2>1. PICK r : /\ r = [Idle EXCEPT !.pc = "discord", !.user = u, !.existed = users[u].exists]
                   /\ req' = [req EXCEPT ![p] = r] /\ req[p] = Idle
      BY <1>3 DEF DiscordLogin
    <2>2. r.pc \notin Guesses /\ r.pc \notin Voicing
      BY <2>1 DEF Idle, Guesses, Voicing
    <2> QED BY <1>a, <2>1, <2>2
  <1>4. ASSUME NEW u \in Users, DevLogin(u) PROVE Goal
    BY <1>4, Stays DEF DevLogin
  <1>5. ASSUME NEW ip \in Ips, LinkLogin(p, ip) PROVE Goal
    <2>1. PICK r : /\ r = [Idle EXCEPT !.pc = "redeem", !.ip = ip]
                   /\ req' = [req EXCEPT ![p] = r] /\ req[p] = Idle
      BY <1>5 DEF LinkLogin
    <2>2. r.pc \notin Voicing
      BY <2>1 DEF Idle, Voicing
    <2> QED BY <1>5, <2>1, <2>2, Elsewhere, IdleElsewhere
  <1>6. ASSUME NEW ip \in Ips, DemoLogin(p, ip) PROVE Goal
    <2> DEFINE r == [Idle EXCEPT !.pc = "mint", !.user = Demo]
    <2>1. UNCHANGED req \/ req' = [req EXCEPT ![p] = r]
      BY <1>6 DEF DemoLogin
    <2>2. r.pc \notin Guesses /\ r.pc \notin Voicing
      BY DEF Idle, Guesses, Voicing
    <2>3. req[p] = Idle
      BY <1>6 DEF DemoLogin
    <2> HIDE DEF r
    <2> QED BY <1>a, <2>1, <2>2, <2>3, Stays
  <1>7. CASE DemoRead(p)
    <2>1. PICK r : /\ r = [Idle EXCEPT !.pc = "reset", !.user = Demo, !.saw = users[Demo].purgeAt]
                   /\ req' = [req EXCEPT ![p] = r] /\ req[p] = Idle
      BY <1>7 DEF DemoRead
    <2>2. r.pc \notin Guesses /\ r.pc \notin Voicing
      BY <2>1 DEF Idle, Guesses, Voicing
    <2> QED BY <1>a, <2>1, <2>2
  <1> QED BY <1>1, <1>2, <1>3, <1>4, <1>5, <1>6, <1>7 DEF Requests, AccountRequest

LEMMA WorkEnters ==
  ASSUME RequestsOK, NEW p \in Procs, Work(p)
  PROVE  NoneEnters(Guesses) /\ (NoneMoves(Voicing) \/ VoiceWork(p))
  <1> DEFINE Goal == NoneEnters(Guesses) /\ (NoneMoves(Voicing) \/ VoiceWork(p))
  <1>a. Done(p) /\ req[p].pc \notin Voicing => Goal
    BY Ends
  <1>b. ASSUME NEW pc, Goto(p, pc), pc \notin Guesses, pc \notin Voicing, req[p].pc \notin Voicing
        PROVE  Goal
    BY <1>b, GoesElsewhere
  <1>1. CASE ScheduleDeletion(p)
    <2>1. req[p].pc \notin Voicing /\ "discard" \notin Guesses /\ "discard" \notin Voicing
      BY <1>1 DEF ScheduleDeletion, At, Voicing, Guesses
    <2> QED BY <1>1, <1>a, <1>b, <2>1 DEF ScheduleDeletion
  <1>2. CASE \/ CancelDeletion(p) \/ UpdateSettings(p) \/ DiscardSkipped(p)
             \/ \E d \in Devices : RegisterDevice(p, d) \/ UnregisterDevice(p, d)
             \/ DemoCommit(p) \/ LinkDone(p) \/ LinkRefused(p) \/ DiscordCommit(p)
             \/ CapDemoTokens(p)
    <2>1. Done(p)
      BY <1>2 DEF CancelDeletion, UpdateSettings, DiscardSkipped, RegisterDevice,
                  UnregisterDevice, DemoCommit, LinkDone, LinkRefused, DiscordCommit, CapDemoTokens
    <2>2. req[p].pc \notin Voicing
      BY <1>2 DEF CancelDeletion, UpdateSettings, DiscardSkipped, RegisterDevice,
                  UnregisterDevice, DemoCommit, LinkDone, LinkRefused, DiscordCommit,
                  CapDemoTokens, At, Voicing
    <2> QED BY <1>a, <2>1, <2>2
  <1>3. CASE BotIssue(p) \/ Discard(p)
    <2>1. Goto(p, "linking") /\ req[p].pc \notin Voicing
      BY <1>3 DEF BotIssue, Discard, At, Voicing
    <2>2. "linking" \notin Guesses /\ "linking" \notin Voicing
      BY DEF Guesses, Voicing
    <2> QED BY <1>b, <2>1, <2>2
  <1>4. CASE LinkWork(p)
    BY <1>4, Stays DEF LinkWork
  <1>5. ASSUME NEW c \in Codes, LinkRedeem(p, c) PROVE Goal
    <2>1. Goto(p, "redeeming") /\ req[p].pc = "redeem"
      BY <1>5 DEF LinkRedeem, At
    <2>2. NoneEnters(Guesses)
      BY <2>1, Goes DEF NoneEnters, Guesses
    <2>3. "redeeming" \notin Voicing /\ req[p].pc \notin Voicing
      BY <2>1 DEF Voicing
    <2> QED BY <2>1, <2>2, <2>3, GoesElsewhere
  <1>6. CASE LinkAccepted(p)
    <2>1. req[p].pc \notin Voicing
      BY <1>6 DEF LinkAccepted, At, Voicing
    <2>2. CASE link[p].pc = "redeemed" /\ users[link[p].user].exists
      <3>1. \A q \in Procs : q # p => req'[q] = req[q]
        BY <1>6, <2>2 DEF LinkAccepted, RequestsOK
      <3>2. req'[p].pc = "mint"
        BY <1>6, <2>2 DEF LinkAccepted, RequestsOK, Request
      <3> QED BY <2>1, <3>1, <3>2 DEF NoneEnters, NoneMoves, Guesses, Voicing
    <2>3. CASE ~(link[p].pc = "redeemed" /\ users[link[p].user].exists)
      BY <1>6, <1>a, <2>1, <2>3 DEF LinkAccepted
    <2> QED BY <2>2, <2>3
  <1>7. CASE IssueToken(p)
    <2>1. Done(p) \/ Goto(p, "cap")
      BY <1>7 DEF IssueToken
    <2>2. req[p].pc \notin Voicing /\ "cap" \notin Guesses /\ "cap" \notin Voicing
      BY <1>7 DEF IssueToken, At, Voicing, Guesses
    <2> QED BY <1>a, <1>b, <2>1, <2>2
  <1>8. CASE VoiceWork(p)
    <2>1. Done(p) \/ Goto(p, "whisper") \/ Goto(p, "bill")
      BY <1>8 DEF VoiceWork, VoiceQuota, Whisper, Bill
    <2>2. "whisper" \notin Guesses /\ "bill" \notin Guesses
      BY DEF Guesses
    <2>3. NoneEnters(Guesses)
      BY <2>1, <2>2, Ends, GoesElsewhere
    <2> QED BY <1>8, <2>3
  <1> QED BY <1>1, <1>2, <1>3, <1>4, <1>5, <1>6, <1>7, <1>8 DEF Work, AccountWork, DemoReset

-----------------------------------------------------------------------------
(* The lockout of /link. *)

LEMMA KeysApart ==
  /\ \A ip \in Ips : /\ IpKey(ip) \in Windows /\ IpKey(ip) # GlobalKey
                     /\ \A other : IpKey(ip) = IpKey(other) => ip = other
                     /\ \A other : IpKey(ip) # DemoKey(other) /\ IpKey(ip) # VoiceKey(other)
  <1> SUFFICES ASSUME NEW ip \in Ips
               PROVE  /\ IpKey(ip) \in Windows /\ IpKey(ip) # GlobalKey
                      /\ \A other : IpKey(ip) = IpKey(other) => ip = other
                      /\ \A other : IpKey(ip) # DemoKey(other) /\ IpKey(ip) # VoiceKey(other)
    OBVIOUS
  <1>1. IpKey(ip) \in Windows
    BY DEF Windows
  <1>2. IpKey(ip) # GlobalKey
    <2>1. Len(<<"ip", ip>>) = 2 /\ Len(<<"global">>) = 1
      OBVIOUS
    <2> QED BY <2>1 DEF IpKey, GlobalKey
  <1>3. ASSUME NEW other, IpKey(ip) = IpKey(other) PROVE ip = other
    BY <1>3 DEF IpKey
  <1>4. ASSUME NEW other PROVE IpKey(ip) # DemoKey(other) /\ IpKey(ip) # VoiceKey(other)
    <2>1. <<"ip", ip>>[1] = "ip" /\ <<"demo", other>>[1] = "demo" /\ <<"voice", other>>[1] = "voice"
      OBVIOUS
    <2> QED BY <2>1 DEF IpKey, DemoKey, VoiceKey
  <1> QED BY <1>1, <1>2, <1>3, <1>4

LEMMA LimitsNat == IpFailLimit \in Nat /\ HourlyLimit \in Nat /\ DailyLimit \in Nat
  BY AccountAssumption, VoiceAssumption

(* Nobody new passes, and no counter of failures grows.                       *)
LEMMA GuessesKept ==
  ASSUME GuessesOK, NoneEnters(Guesses), hits' \in [Windows -> Nat],
         \A ip \in Ips : hits'[IpKey(ip)] \in {0, hits[IpKey(ip)]}
  PROVE  GuessesOK'
  <1> SUFFICES ASSUME NEW ip \in Ips
               PROVE  /\ Guessing(ip)' # {} => IpFailLimit # 0
                      /\ hits'[IpKey(ip)] + Cardinality(Guessing(ip)') <= IpFailLimit + N - 1
    BY DEF GuessesOK, N
  <1>1. Guessing(ip) \subseteq Procs /\ Guessing(ip)' \subseteq Guessing(ip)
    BY DEF Guessing, NoneEnters
  <1>2. /\ Cardinality(Guessing(ip)') <= Cardinality(Guessing(ip))
        /\ Cardinality(Guessing(ip)') \in Nat /\ Cardinality(Guessing(ip)) \in Nat
    BY <1>1, Fewer
  <1>3. /\ hits[IpKey(ip)] \in Nat /\ hits'[IpKey(ip)] \in {0, hits[IpKey(ip)]}
        /\ Guessing(ip) # {} => IpFailLimit # 0
        /\ hits[IpKey(ip)] + Cardinality(Guessing(ip)) <= IpFailLimit + N - 1
    BY KeysApart DEF GuessesOK
  <1>4. N \in Nat \ {0} /\ IpFailLimit \in Nat
    BY Counted, LimitsNat
  <1>5. hits'[IpKey(ip)] <= hits[IpKey(ip)] /\ hits'[IpKey(ip)] \in Nat
    BY <1>3
  <1> QED BY <1>1, <1>2, <1>3, <1>4, <1>5

(* check_lockout lets a guess through only below the limit.                   *)
LEMMA LoginPasses ==
  ASSUME GuessesOK, RequestsOK, NEW p \in Procs, NEW from \in Ips, LinkLogin(p, from)
  PROVE  GuessesOK'
  <1>0. /\ hits' = hits /\ req[p] = Idle
        /\ req' = [req EXCEPT ![p] = [Idle EXCEPT !.pc = "redeem", !.ip = from]]
        /\ ~LockedOut(from)
    BY DEF LinkLogin
  <1>1. /\ req'[p].ip = from
        /\ \A q \in Procs : q # p => req'[q] = req[q]
    BY <1>0 DEF RequestsOK, Idle
  <1>2. req[p].pc \notin Guesses
    BY <1>0, IdleElsewhere
  <1>3. N \in Nat \ {0} /\ IpFailLimit \in Nat
    BY Counted, LimitsNat
  <1> SUFFICES ASSUME NEW ip \in Ips
               PROVE  /\ Guessing(ip)' # {} => IpFailLimit # 0
                      /\ hits[IpKey(ip)] + Cardinality(Guessing(ip)') <= IpFailLimit + N - 1
    BY <1>0 DEF GuessesOK, N
  <1>4. /\ hits[IpKey(ip)] \in Nat
        /\ Guessing(ip) # {} => IpFailLimit # 0
        /\ hits[IpKey(ip)] + Cardinality(Guessing(ip)) <= IpFailLimit + N - 1
    BY KeysApart DEF GuessesOK
  <1>5. Guessing(ip) \subseteq Procs /\ p \notin Guessing(ip)
    BY <1>2 DEF Guessing
  <1>6. CASE ip # from
    <2>1. Guessing(ip)' = Guessing(ip)
      BY <1>1, <1>2, <1>6 DEF Guessing
    <2> QED BY <1>4, <2>1
  <1>7. CASE ip = from
    <2>1. ~(hits[IpKey(ip)] >= IpFailLimit)
      BY <1>0, <1>7 DEF LockedOut
    <2>2. Guessing(ip)' \subseteq Procs
      BY DEF Guessing
    <2>3. Cardinality(Guessing(ip)') \in Nat /\ Cardinality(Guessing(ip)') <= N
      BY <2>2, Counted
    <2> QED BY <1>3, <1>4, <2>1, <2>3
  <1> QED BY <1>6, <1>7

(* A refusal is counted as the request that met it leaves.                    *)
LEMMA RefusalCounts ==
  ASSUME GuessesOK, RequestsOK, NEW p \in Procs, LinkRefused(p)
  PROVE  GuessesOK'
  <1> DEFINE at == req[p].ip
             counted == [hits EXCEPT ![IpKey(at)] = @ + 1]
             both == [counted EXCEPT ![GlobalKey] = @ + 1]
  <1>0. /\ hits' \in {hits, counted, both}
        /\ Done(p) /\ req[p].pc \in Guesses
    BY DEF LinkRefused, At, Guesses
  <1>1. NoneEnters(Guesses) /\ req'[p].pc \notin Guesses
    BY <1>0, Ends
  <1>2. hits \in [Windows -> Nat] /\ GlobalKey \in Windows
    BY DEF GuessesOK, Windows
  <1>3. hits' \in [Windows -> Nat]
    BY <1>0, <1>2
  <1>4. ASSUME NEW ip \in Ips
        PROVE  \/ hits'[IpKey(ip)] = hits[IpKey(ip)]
               \/ ip = at /\ hits'[IpKey(ip)] = hits[IpKey(ip)] + 1
    <2>1. /\ IpKey(ip) \in Windows /\ IpKey(ip) # GlobalKey
          /\ IpKey(ip) = IpKey(at) => ip = at
      BY KeysApart
    <2>2. counted \in [Windows -> Nat]
      <3> HIDE DEF at
      <3>1. \A v \in Windows : hits[v] \in Nat /\ hits[v] + 1 \in Nat
        BY <1>2
      <3> QED BY <1>2, <3>1
    <2>3. both[IpKey(ip)] = counted[IpKey(ip)]
      BY <2>1, <2>2
    <2>4. counted[IpKey(ip)] = IF IpKey(ip) = IpKey(at) THEN hits[IpKey(ip)] + 1
                               ELSE hits[IpKey(ip)]
      <3> HIDE DEF at
      <3> QED BY <1>2, <2>1
    <2> HIDE DEF at, counted, both
    <2> QED BY <1>0, <2>1, <2>3, <2>4
  <1> SUFFICES ASSUME NEW ip \in Ips
               PROVE  /\ Guessing(ip)' # {} => IpFailLimit # 0
                      /\ hits'[IpKey(ip)] + Cardinality(Guessing(ip)') <= IpFailLimit + N - 1
    BY <1>3 DEF GuessesOK, N
  <1>5. Guessing(ip) \subseteq Procs /\ Guessing(ip)' \subseteq Guessing(ip)
    BY <1>1 DEF Guessing, NoneEnters
  <1>6. /\ hits[IpKey(ip)] \in Nat
        /\ Guessing(ip) # {} => IpFailLimit # 0
        /\ hits[IpKey(ip)] + Cardinality(Guessing(ip)) <= IpFailLimit + N - 1
    BY KeysApart DEF GuessesOK
  <1>7. N \in Nat \ {0} /\ IpFailLimit \in Nat
    BY Counted, LimitsNat
  <1>8. CASE ip # at
    <2>1. hits'[IpKey(ip)] = hits[IpKey(ip)]
      BY <1>4, <1>8
    <2> QED BY <1>5, <1>6, <1>7, <2>1, Fewer
  <1>9. CASE ip = at
    <2>1. p \in Guessing(ip) /\ p \notin Guessing(ip)'
      BY <1>0, <1>1, <1>9 DEF Guessing
    <2>2. /\ Guessing(ip)' \subseteq Guessing(ip) \ {p}
          /\ Guessing(ip) \ {p} \subseteq Procs
      BY <1>5, <2>1
    <2>3. Cardinality(Guessing(ip)') <= Cardinality(Guessing(ip) \ {p})
      BY <2>2, Fewer
    <2>a. Cardinality(Guessing(ip) \ {p}) = Cardinality(Guessing(ip)) - 1
      BY <1>5, <2>1, OneLess
    <2>4. Cardinality(Guessing(ip)') \in Nat /\ Cardinality(Guessing(ip)) \in Nat
      BY <1>5, Fewer
    <2>5. hits'[IpKey(ip)] \in Nat /\ hits'[IpKey(ip)] <= hits[IpKey(ip)] + 1
      BY <1>4, <1>6
    <2> QED BY <1>5, <1>6, <1>7, <2>3, <2>a, <2>4, <2>5
  <1> QED BY <1>8, <1>9

(* Counters other than those of /link.                                        *)
LEMMA OtherHits ==
  ASSUME GuessesOK, NEW w, Hit(w), \A ip \in Ips : IpKey(ip) # w
  PROVE  hits' \in [Windows -> Nat] /\ \A ip \in Ips : hits'[IpKey(ip)] = hits[IpKey(ip)]
  <1>1. hits \in [Windows -> Nat] /\ hits' = [hits EXCEPT ![w] = @ + 1]
    BY DEF GuessesOK, Hit
  <1>2. \A ip \in Ips : IpKey(ip) \in Windows
    BY KeysApart
  <1>3. hits' \in [Windows -> Nat]
    <2>1. \A v \in Windows : hits[v] \in Nat /\ hits[v] + 1 \in Nat
      BY <1>1
    <2> QED BY <1>1, <2>1
  <1>4. ASSUME NEW ip \in Ips PROVE hits'[IpKey(ip)] = hits[IpKey(ip)]
    BY <1>1, <1>2
  <1> QED BY <1>3, <1>4

LEMMA GuessesInv ==
  ASSUME IInv, GuessesOK, [Next]_serviceVars
  PROVE  GuessesOK'
  <1>0. RequestsOK /\ hits \in [Windows -> Nat]
    BY DEF IInv, GuessesOK
  <1>a. NoneEnters(Guesses) /\ hits' = hits => GuessesOK'
    BY <1>0, GuessesKept
  <1>b. ASSUME NEW w, hits' = hits \/ Hit(w), NoneEnters(Guesses), \A ip \in Ips : IpKey(ip) # w
        PROVE  GuessesOK'
    BY <1>a, <1>b, OtherHits, GuessesKept
  <1>1. CASE UNCHANGED serviceVars
    BY <1>1, <1>a, Stays DEF serviceVars, accountVars
  <1>2. ASSUME NEW p \in Procs, Requests(p) PROVE GuessesOK'
    <2>1. CASE \E ip \in Ips : LinkLogin(p, ip)
      BY <1>0, <2>1, LoginPasses
    <2>2. CASE NoneEnters(Guesses)
      <3>1. ASSUME NEW ip \in Ips, DemoLogin(p, ip) PROVE GuessesOK'
        BY <1>b, <2>2, <3>1, KeysApart DEF DemoLogin
      <3>2. CASE ~\E ip \in Ips : DemoLogin(p, ip)
        <4>1. hits' = hits
          BY <1>2, <3>2 DEF Requests, AccountRequest, Authenticate, BotLogin, BotLogout,
                            DiscordLogin, DevLogin, LinkLogin, DemoRead
        <4> QED BY <1>a, <2>2, <4>1
      <3> QED BY <3>1, <3>2
    <2> QED BY <1>0, <1>2, <2>1, <2>2, RequestsEnter
  <1>3. ASSUME NEW p \in Procs, Work(p) PROVE GuessesOK'
    <2>0. NoneEnters(Guesses)
      BY <1>0, <1>3, WorkEnters
    <2>1. CASE LinkRefused(p)
      BY <1>0, <2>1, RefusalCounts
    <2>2. CASE VoiceWork(p)
      <3>1. hits' = hits \/ Hit(VoiceKey(req[p].user))
        BY <2>2 DEF VoiceWork, VoiceQuota, Whisper, Bill
      <3>2. \A ip \in Ips : IpKey(ip) # VoiceKey(req[p].user)
        BY KeysApart
      <3> QED BY <1>b, <2>0, <3>1, <3>2
    <2>3. CASE ~LinkRefused(p) /\ ~VoiceWork(p)
      <3>1. hits' = hits
        BY <1>3, <2>3 DEF Work, AccountWork, DemoReset, ScheduleDeletion, CancelDeletion,
             UpdateSettings, RegisterDevice, UnregisterDevice, BotIssue, Discard, DiscardSkipped,
             LinkWork, LinkDone, LinkRedeem, LinkAccepted, DiscordCommit, IssueToken,
             CapDemoTokens, DemoCommit
      <3> QED BY <1>a, <2>0, <3>1
    <2> QED BY <2>1, <2>2, <2>3
  <1>4. ASSUME NEW p \in Procs, Lost(p) PROVE GuessesOK'
    BY <1>0, <1>4, <1>a, Ends DEF Lost, RequestLost
  <1>5. ASSUME NEW w \in Workers, Report(w) PROVE GuessesOK'
    <2>1. req' = req
      BY <1>5, ReportFrame
    <2>2. hits' = hits
      BY <1>5 DEF Report, ReportStart, ReportWork, ReportAcquire, ReportCount, ReportSend,
                  ReportCommit, ReportRaises, ReportLost, accountVars
    <2> QED BY <1>a, <2>1, <2>2, Stays
  <1>6. CASE Outside
    <2>1. NoneEnters(Guesses)
      BY <1>6, Stays DEF Outside, Environment, AppLogout, SweepDevices, WindowEnds, KeyExpires,
                         DedupExpires, accountVars
    <2>2. ASSUME NEW w \in Windows, WindowEnds(w) PROVE GuessesOK'
      <3>1. hits' = [hits EXCEPT ![w] = 0]
        BY <2>2 DEF WindowEnds
      <3>2. \A ip \in Ips : IpKey(ip) \in Windows
        BY KeysApart
      <3>3. hits' \in [Windows -> Nat] /\ \A ip \in Ips : hits'[IpKey(ip)] \in {0, hits[IpKey(ip)]}
        BY <1>0, <3>1, <3>2
      <3> QED BY <2>1, <3>3, GuessesKept
    <2>3. CASE ~\E w \in Windows : WindowEnds(w)
      <3>1. hits' = hits
        BY <1>6, <2>3 DEF Outside, Environment, AppLogout, SweepDevices, KeyExpires,
                          DedupExpires, accountVars
      <3> QED BY <1>a, <2>1, <3>1
    <2> QED BY <2>2, <2>3
  <1>7. CASE Purge \/ NewDay
    BY <1>7, <1>a, Stays DEF Purge, PurgeAccounts, NewDay, Tick
  <1> QED BY <1>1, <1>2, <1>3, <1>4, <1>5, <1>6, <1>7 DEF Next

(* Whatever guesses are in flight when the limit is reached, and however      *)
(* requests, lost calls and ending windows interleave, no address is counted  *)
(* past the limit by more than the requests that had passed check_lockout     *)
(* (src/app/services/link_codes.py).                                          *)
THEOREM GuessesStayBounded == Spec => []GuessesBounded
  <1>1. Init => GuessesOK
    <2> SUFFICES ASSUME Init PROVE GuessesOK
      OBVIOUS
    <2>1. hits = [w \in Windows |-> 0] /\ \A p \in Procs : req[p] = Idle
      BY DEF Init, AccountInit
    <2>2. \A ip \in Ips : Guessing(ip) = {} /\ hits[IpKey(ip)] = 0
      BY <2>1, IdleElsewhere, KeysApart DEF Guessing
    <2>3. N \in Nat \ {0} /\ IpFailLimit \in Nat /\ Cardinality({}) = 0
      BY Counted, LimitsNat, FS_EmptySet
    <2>4. hits \in [Windows -> Nat]
      BY <2>1
    <2>5. ASSUME NEW ip \in Ips
          PROVE  /\ Guessing(ip) # {} => IpFailLimit # 0
                 /\ hits[IpKey(ip)] + Cardinality(Guessing(ip)) <= IpFailLimit + N - 1
      <3>1. Guessing(ip) = {} /\ hits[IpKey(ip)] = 0 /\ Cardinality(Guessing(ip)) = 0
        BY <2>2, <2>3
      <3> QED BY <2>3, <3>1
    <2> QED BY <2>4, <2>5 DEF GuessesOK
  <1>2. GuessesOK => GuessesBounded
    <2> SUFFICES ASSUME GuessesOK, NEW ip \in Ips
                 PROVE  hits[IpKey(ip)] <= IpFailLimit + Cardinality(Procs) - 1
      BY DEF GuessesBounded
    <2>1. /\ hits[IpKey(ip)] \in Nat
          /\ hits[IpKey(ip)] + Cardinality(Guessing(ip)) <= IpFailLimit + N - 1
      BY KeysApart DEF GuessesOK
    <2>2. Guessing(ip) \subseteq Procs
      BY DEF Guessing
    <2>3. Cardinality(Guessing(ip)) \in Nat /\ N \in Nat /\ IpFailLimit \in Nat
      BY <2>2, Counted, LimitsNat
    <2> QED BY <2>1, <2>3 DEF N
  <1> QED BY <1>1, <1>2, GuessesInv, ServiceInvariant, PTL DEF Spec

-----------------------------------------------------------------------------
(* The daily cap of the transcription. *)

\* What SpendOK says of one account, of its numbers and sets.
Within(used, billed, lost, spending, billing) ==
    /\ spending # {} => DailyLimit # 0
    /\ used + Cardinality(spending) <= DailyLimit + N - 1
    /\ billed <= used + lost + Cardinality(billing)

VoiceTyped == usage \in [Users -> Nat] /\ paid \in [Users -> Nat] /\ unlogged \in [Users -> Nat]

LEMMA SpendIsWithin ==
  SpendOK <=> /\ VoiceTyped
              /\ \A u \in Users \ {Demo} :
                    Within(usage[u], paid[u], unlogged[u], Spending(u), Billing(u))
  BY DEF SpendOK, Within, VoiceTyped

LEMMA SetsOfRequests ==
  ASSUME NEW u
  PROVE  /\ Spending(u) \subseteq Procs /\ Billing(u) \subseteq Procs
         /\ Spending(u)' \subseteq Procs /\ Billing(u)' \subseteq Procs
         /\ Billing(u) \subseteq Spending(u)
  BY DEF Spending, Billing, Voicing

LEMMA SetsKept == NoneMoves(Voicing) => \A u : Spending(u)' = Spending(u) /\ Billing(u)' = Billing(u)
  BY DEF NoneMoves, Voicing, Spending, Billing

(* Nobody moves and nothing is counted.                                       *)
LEMMA SpendKept ==
  ASSUME SpendOK, NoneMoves(Voicing), UNCHANGED <<usage, paid, unlogged>>
  PROVE  SpendOK'
  <1>1. \A u : Spending(u)' = Spending(u) /\ Billing(u)' = Billing(u)
    BY SetsKept
  <1> QED BY <1>1 DEF SpendOK, N

(* What was counted is forgotten for some accounts.                           *)
LEMMA SpendForgotten ==
  ASSUME SpendOK, NEW gone \in SUBSET Users, NoneMoves(Voicing),
         usage' = Cleared(usage, gone), paid' = Cleared(paid, gone),
         unlogged' = Cleared(unlogged, gone)
  PROVE  SpendOK'
  <1>1. \A u : Spending(u)' = Spending(u) /\ Billing(u)' = Billing(u)
    BY SetsKept
  <1>2. VoiceTyped'
    BY DEF SpendOK, VoiceTyped, Cleared
  <1>3. ASSUME NEW u \in Users \ {Demo}
        PROVE  Within(usage'[u], paid'[u], unlogged'[u], Spending(u), Billing(u))
    <2>1. Within(usage[u], paid[u], unlogged[u], Spending(u), Billing(u))
      BY SpendIsWithin
    <2>2. CASE u \notin gone
      BY <2>1, <2>2 DEF Cleared
    <2>3. CASE u \in gone
      <3>1. usage'[u] = 0 /\ paid'[u] = 0 /\ unlogged'[u] = 0
        BY <2>3 DEF Cleared
      <3>2. /\ Cardinality(Spending(u)) \in Nat /\ Cardinality(Billing(u)) \in Nat
            /\ Cardinality(Spending(u)) <= N /\ N \in Nat \ {0} /\ DailyLimit \in Nat
            /\ Spending(u) = {} => Cardinality(Spending(u)) = 0
        BY SetsOfRequests, Counted, LimitsNat
      <3> QED BY <2>1, <3>1, <3>2 DEF Within
    <2> QED BY <2>2, <2>3
  <1>4. \A u \in Users \ {Demo} :
            Within(usage'[u], paid'[u], unlogged'[u], Spending(u)', Billing(u)')
    BY <1>1, <1>3
  <1> QED BY <1>2, <1>4 DEF SpendOK, Within, VoiceTyped, N

(* One request moves: the sets of the users it is not for are what they were. *)
LEMMA OtherUsers ==
  ASSUME NEW p \in Procs, \A q \in Procs : q # p => req'[q] = req[q],
         req'[p].user = req[p].user \/ req'[p].pc \notin Voicing,
         NEW u, u # req[p].user
  PROVE  Spending(u)' = Spending(u) /\ Billing(u)' = Billing(u)
  BY DEF Spending, Billing, Voicing

(* The check is passed below the cap, by a request that was not counted yet.  *)
LEMMA QuotaPasses ==
  ASSUME SpendOK, RequestsOK, NEW p \in Procs, VoiceQuota(p)
  PROVE  SpendOK'
  <1>0. req[p].pc = "transcribe" /\ req[p].pc \notin Voicing /\ UNCHANGED <<usage, paid, unlogged>>
    BY DEF VoiceQuota, At, Voicing, voiceVars
  <1>1. CASE Done(p)
    BY <1>0, <1>1, Ends, SpendKept
  <1>2. CASE Goto(p, "whisper") /\ usage[req[p].user] < DailyLimit
    <2>1. ASSUME NEW u \in Users \ {Demo}
          PROVE  Within(usage[u], paid[u], unlogged[u], Spending(u)', Billing(u)')
      <3>1. Within(usage[u], paid[u], unlogged[u], Spending(u), Billing(u))
        BY SpendIsWithin
      <3>2. CASE u # req[p].user
        BY <1>2, <3>1, <3>2, Goes, OtherUsers
      <3>3. CASE u = req[p].user
        <4>1. Billing(u)' = Billing(u)
          BY <1>0, <1>2, Goes DEF Billing, Voicing
        <4>2. /\ Cardinality(Spending(u)') \in Nat /\ Cardinality(Spending(u)') <= N
              /\ N \in Nat \ {0} /\ DailyLimit \in Nat
          BY SetsOfRequests, Counted, LimitsNat
        <4>3. usage[u] \in Nat /\ usage[u] < DailyLimit
          BY <1>2, <3>3 DEF SpendOK
        <4> QED BY <3>1, <4>1, <4>2, <4>3 DEF Within
      <3> QED BY <3>2, <3>3
    <2> QED BY <1>0, <2>1 DEF SpendOK, Within, N
  <1> QED BY <1>1, <1>2 DEF VoiceQuota

(* A call that is answered waits for its row; one that is not has ended.      *)
LEMMA WhisperPays ==
  ASSUME SpendOK, RequestsOK, NEW p \in Procs, Whisper(p)
  PROVE  SpendOK'
  <1> DEFINE o == req[p].user
  <1>0. req[p].pc = "whisper" /\ o \in Users
    BY DEF Whisper, At, RequestsOK, NoUserYet
  <1>1. /\ \A q \in Procs : q # p => req'[q] = req[q]
        /\ \/ req'[p].pc \notin Voicing /\ paid' = paid
           \/ /\ req'[p].pc = "bill" /\ req'[p].user = o
              /\ paid' = [paid EXCEPT ![o] = @ + 1]
    BY Ends, Goes DEF Whisper
  <1>2. usage' = usage /\ unlogged' = unlogged
    BY DEF Whisper
  <1>3. VoiceTyped'
    BY <1>0, <1>1, <1>2 DEF SpendOK, VoiceTyped
  <1>4. ASSUME NEW u \in Users \ {Demo}
        PROVE  Within(usage[u], paid'[u], unlogged[u], Spending(u)', Billing(u)')
    <2>1. Within(usage[u], paid[u], unlogged[u], Spending(u), Billing(u))
      BY SpendIsWithin
    <2>2. CASE u # o
      <3>1. Spending(u)' = Spending(u) /\ Billing(u)' = Billing(u)
        BY <1>1, <2>2, OtherUsers
      <3>2. paid'[u] = paid[u]
        BY <1>1, <2>2 DEF SpendOK
      <3> QED BY <2>1, <3>1, <3>2
    <2>3. CASE u = o
      <3>0. /\ usage[u] \in Nat /\ paid[u] \in Nat /\ unlogged[u] \in Nat
            /\ Cardinality(Spending(u)) \in Nat /\ Cardinality(Billing(u)) \in Nat
            /\ N \in Nat \ {0} /\ DailyLimit \in Nat
        BY SetsOfRequests, Counted, LimitsNat DEF SpendOK
      <3>1. p \notin Billing(u)
        BY <1>0 DEF Billing
      <3>2. Spending(u)' \subseteq Spending(u)
        BY <1>0, <1>1, <2>3 DEF Spending, Voicing
      <3>3. Cardinality(Spending(u)') <= Cardinality(Spending(u)) /\ Cardinality(Spending(u)') \in Nat
        BY <3>2, SetsOfRequests, Fewer
      <3>4. CASE req'[p].pc \notin Voicing /\ paid' = paid
        <4>1. Billing(u)' = Billing(u)
          BY <1>0, <1>1, <3>4 DEF Billing, Voicing
        <4> QED BY <2>1, <3>0, <3>2, <3>3, <3>4, <4>1 DEF Within
      <3>5. CASE /\ req'[p].pc = "bill" /\ req'[p].user = o
                 /\ paid' = [paid EXCEPT ![o] = @ + 1]
        <4>1. Billing(u)' = Billing(u) \cup {p}
          BY <1>0, <1>1, <2>3, <3>5 DEF Billing
        <4>2. Cardinality(Billing(u)') = Cardinality(Billing(u)) + 1
          BY <3>1, <4>1, SetsOfRequests, OneMore
        <4>3. paid'[u] = paid[u] + 1
          BY <1>0, <2>3, <3>5 DEF SpendOK
        <4> QED BY <2>1, <3>0, <3>2, <3>3, <4>2, <4>3 DEF Within
      <3> QED BY <1>1, <3>4, <3>5
    <2> QED BY <2>2, <2>3
  <1> QED BY <1>2, <1>3, <1>4 DEF SpendOK, Within, VoiceTyped, N

(* A bill is written, or its loss is counted, as the request ends.            *)
LEMMA BillLeaves ==
  ASSUME SpendOK, RequestsOK, NEW p \in Procs, Done(p), req[p].pc = "bill", paid' = paid,
         \/ usage' = [usage EXCEPT ![req[p].user] = @ + 1] /\ unlogged' = unlogged
         \/ unlogged' = [unlogged EXCEPT ![req[p].user] = @ + 1] /\ usage' = usage
  PROVE  SpendOK'
  <1> DEFINE o == req[p].user
  <1>0. o \in Users
    BY DEF RequestsOK, NoUserYet
  <1>1. (\A q \in Procs : q # p => req'[q] = req[q]) /\ req'[p].pc \notin Voicing
    BY Ends
  <1>2. VoiceTyped'
    BY <1>0 DEF SpendOK, VoiceTyped
  <1>3. ASSUME NEW u \in Users \ {Demo}
        PROVE  Within(usage'[u], paid[u], unlogged'[u], Spending(u)', Billing(u)')
    <2>1. Within(usage[u], paid[u], unlogged[u], Spending(u), Billing(u))
      BY SpendIsWithin
    <2>2. CASE u # o
      <3>1. Spending(u)' = Spending(u) /\ Billing(u)' = Billing(u)
        BY <1>1, <2>2, OtherUsers
      <3>2. usage'[u] = usage[u] /\ unlogged'[u] = unlogged[u]
        BY <2>2 DEF SpendOK
      <3> QED BY <2>1, <3>1, <3>2
    <2>3. CASE u = o
      <3>0. /\ usage[u] \in Nat /\ paid[u] \in Nat /\ unlogged[u] \in Nat
            /\ Cardinality(Spending(u)) \in Nat /\ Cardinality(Billing(u)) \in Nat
            /\ N \in Nat \ {0} /\ DailyLimit \in Nat
        BY SetsOfRequests, Counted, LimitsNat DEF SpendOK
      <3>1. p \in Spending(u) /\ p \in Billing(u)
        BY <2>3 DEF Spending, Billing, Voicing
      <3>2. Spending(u)' = Spending(u) \ {p} /\ Billing(u)' = Billing(u) \ {p}
        BY <1>1, <2>3 DEF Spending, Billing, Voicing
      <3>3. /\ Cardinality(Spending(u)') = Cardinality(Spending(u)) - 1
            /\ Cardinality(Billing(u)') = Cardinality(Billing(u)) - 1
        BY <3>1, <3>2, SetsOfRequests, OneLess
      <3>4. \/ usage'[u] = usage[u] + 1 /\ unlogged'[u] = unlogged[u]
            \/ usage'[u] = usage[u] /\ unlogged'[u] = unlogged[u] + 1
        BY <1>0, <2>3 DEF SpendOK
      <3>5. DailyLimit # 0
        BY <2>1, <3>1 DEF Within
      <3> QED BY <2>1, <3>0, <3>3, <3>4, <3>5 DEF Within
    <2> QED BY <2>2, <2>3
  <1> QED BY <1>2, <1>3 DEF SpendOK, Within, VoiceTyped, N

(* A request that is lost was not past the check, was not billed, or leaves a *)
(* bill behind.                                                               *)
LEMMA LossCounts ==
  ASSUME SpendOK, RequestsOK, NEW p \in Procs, Lost(p)
  PROVE  SpendOK'
  <1>0. Done(p) /\ VoiceLost(p)
    BY DEF Lost, RequestLost
  <1>1. CASE req[p].pc = "bill"
    BY <1>0, <1>1, BillLeaves DEF VoiceLost, At
  <1>2. CASE req[p].pc # "bill"
    <2>0. UNCHANGED <<usage, paid, unlogged>>
      BY <1>0, <1>2 DEF VoiceLost, At, voiceVars
    <2>1. (\A q \in Procs : q # p => req'[q] = req[q]) /\ req'[p].pc \notin Voicing
      BY <1>0, Ends
    <2>2. ASSUME NEW u \in Users \ {Demo}
          PROVE  Within(usage[u], paid[u], unlogged[u], Spending(u)', Billing(u)')
      <3>1. Within(usage[u], paid[u], unlogged[u], Spending(u), Billing(u))
        BY SpendIsWithin
      <3>2. Spending(u)' \subseteq Spending(u) /\ Billing(u)' = Billing(u)
        BY <1>2, <2>1 DEF Spending, Billing, Voicing
      <3>3. /\ Cardinality(Spending(u)') <= Cardinality(Spending(u))
            /\ Cardinality(Spending(u)') \in Nat /\ Cardinality(Spending(u)) \in Nat
        BY <3>2, SetsOfRequests, Fewer
      <3>4. usage[u] \in Nat /\ N \in Nat \ {0} /\ DailyLimit \in Nat
        BY SetsOfRequests, Counted, LimitsNat DEF SpendOK
      <3> QED BY <3>1, <3>2, <3>3, <3>4 DEF Within
    <2> QED BY <2>0, <2>2 DEF SpendOK, Within, N
  <1> QED BY <1>1, <1>2

LEMMA SpendInv ==
  ASSUME IInv, SpendOK, [Next]_serviceVars
  PROVE  SpendOK'
  <1>0. RequestsOK
    BY DEF IInv
  <1>1. CASE UNCHANGED serviceVars
    BY <1>1, SpendKept, Stays DEF serviceVars, accountVars, voiceVars
  <1>2. ASSUME NEW p \in Procs, Requests(p) PROVE SpendOK'
    BY <1>0, <1>2, RequestsEnter, SpendKept DEF Requests, voiceVars
  <1>3. ASSUME NEW p \in Procs, Work(p) PROVE SpendOK'
    <2>1. CASE VoiceQuota(p) \/ Whisper(p)
      BY <1>0, <2>1, QuotaPasses, WhisperPays
    <2>2. CASE Bill(p)
      BY <1>0, <2>2, BillLeaves DEF Bill, At
    <2>3. CASE DemoReset(p)
      <3>1. NoneMoves(Voicing)
        <4>1. Done(p) /\ req[p].pc \notin Voicing
          BY <2>3 DEF DemoReset, DemoCommit, At, Voicing
        <4> QED BY <1>0, <4>1, Ends
      <3>2. \A u : Spending(u)' = Spending(u) /\ Billing(u)' = Billing(u)
        BY <3>1, SetsKept
      <3>3. /\ usage' = Cleared(usage, {Demo}) /\ paid' = paid /\ unlogged' = unlogged
        BY <2>3 DEF DemoReset, VoiceErased
      <3>4. VoiceTyped' /\ \A u \in Users \ {Demo} : usage'[u] = usage[u]
        BY <3>3 DEF SpendOK, VoiceTyped, Cleared
      <3> QED BY <3>2, <3>3, <3>4 DEF SpendOK, VoiceTyped, N
    <2>4. CASE AccountWork(p) /\ UNCHANGED <<reportVars, voiceVars>>
      <3>1. ~VoiceWork(p) \/ VoiceWork(p)
        OBVIOUS
      <3> QED BY <1>0, <1>3, <2>1, <2>2, <2>4, WorkEnters, SpendKept DEF voiceVars, VoiceWork
    <2> QED BY <1>3, <2>1, <2>2, <2>3, <2>4 DEF Work, VoiceWork
  <1>4. ASSUME NEW p \in Procs, Lost(p) PROVE SpendOK'
    BY <1>0, <1>4, LossCounts
  <1>5. ASSUME NEW w \in Workers, Report(w) PROVE SpendOK'
    BY <1>5, ReportFrame, Stays, SpendKept DEF voiceVars
  <1>6. CASE Outside
    BY <1>6, Stays, SpendKept
       DEF Outside, Environment, AppLogout, SweepDevices, WindowEnds, KeyExpires,
           DedupExpires, accountVars, voiceVars
  <1>7. CASE Purge
    <2>1. NoneMoves(Voicing)
      BY <1>7, Stays DEF Purge, PurgeAccounts
    <2>2. {u \in Users : Due(u)} \in SUBSET Users
      OBVIOUS
    <2> QED BY <1>7, <2>1, <2>2, SpendForgotten DEF Purge, VoiceErased
  <1>8. CASE NewDay
    <2>1. NoneMoves(Voicing)
      BY <1>8, Stays DEF NewDay, Tick
    <2>2. /\ usage' = Cleared(usage, Users) /\ paid' = Cleared(paid, Users)
          /\ unlogged' = Cleared(unlogged, Users)
      BY <1>8 DEF NewDay, Cleared
    <2> QED BY <2>1, <2>2, SpendForgotten
  <1> QED BY <1>1, <1>2, <1>3, <1>4, <1>5, <1>6, <1>7, <1>8 DEF Next

(* The daily cap bounds what an account is billed although it is read before  *)
(* the call (check_voice_quota in src/app/services/voice_quota.py): in a      *)
(* window it is passed at most by the requests that can be in flight, and by  *)
(* the calls whose row was lost.                                              *)
THEOREM SpendStaysBounded == Spec => []SpendBounded
  <1>1. Init => SpendOK
    <2> SUFFICES ASSUME Init PROVE SpendOK
      OBVIOUS
    <2>1. /\ usage = [u \in Users |-> 0] /\ paid = usage /\ unlogged = usage
          /\ \A p \in Procs : req[p] = Idle
      BY DEF Init, AccountInit, VoiceInit
    <2>2. \A u : Spending(u) = {} /\ Billing(u) = {}
      BY <2>1 DEF Spending, Billing, Idle, Voicing
    <2>3. N \in Nat \ {0} /\ DailyLimit \in Nat /\ Cardinality({}) = 0
      BY Counted, LimitsNat, FS_EmptySet
    <2>4. ASSUME NEW u \in Users PROVE Within(0, 0, 0, Spending(u), Billing(u))
      BY <2>2, <2>3 DEF Within
    <2> QED BY <2>1, <2>4 DEF SpendOK, Within
  <1>2. SpendOK => SpendBounded
    <2> SUFFICES ASSUME SpendOK, NEW u \in Users \ {Demo}
                 PROVE  paid[u] <= DailyLimit + (Cardinality(Procs) - 1) + unlogged[u]
      BY DEF SpendBounded
    <2>1. /\ usage[u] + Cardinality(Spending(u)) <= DailyLimit + N - 1
          /\ paid[u] <= usage[u] + unlogged[u] + Cardinality(Billing(u))
          /\ usage[u] \in Nat /\ paid[u] \in Nat /\ unlogged[u] \in Nat
      BY DEF SpendOK
    <2>2. /\ Cardinality(Billing(u)) <= Cardinality(Spending(u))
          /\ Cardinality(Billing(u)) \in Nat /\ Cardinality(Spending(u)) \in Nat
      BY SetsOfRequests, Fewer
    <2>3. N \in Nat /\ DailyLimit \in Nat
      BY SetsOfRequests, Counted, LimitsNat
    <2> QED BY <2>1, <2>2, <2>3 DEF N
  <1> QED BY <1>1, <1>2, SpendInv, ServiceInvariant, PTL DEF Spec

-----------------------------------------------------------------------------
(* The cap of the demo account's tokens. *)

(* At most n members of a set have fewer than n above them.                   *)
LEMMA NewestFew ==
  ASSUME NEW S \in SUBSET Nat, IsFiniteSet(S), NEW n \in Nat
  PROVE  /\ IsFiniteSet(Newest(S, n))
         /\ Cardinality(Newest(S, n)) \in Nat /\ Cardinality(Newest(S, n)) <= n
  <1> DEFINE T == Newest(S, n)
  <1>1. T \subseteq S
    BY DEF Newest
  <1>2. IsFiniteSet(T) /\ Cardinality(T) \in Nat
    BY <1>1, FS_Subset, FS_CardinalityType
  <1>3. CASE T = {}
    BY <1>2, <1>3, FS_EmptySet
  <1>4. CASE T # {}
    <2>1. PICK m \in T : \A i \in T : ~(<<i, m>> \in OpToRel(<, Nat))
      BY <1>1, <1>4, WFMin, NatLessThanWellFounded
    <2>2. m \in Nat /\ T \subseteq Nat /\ \A i \in T : ~(i < m)
      BY <1>1, <2>1 DEF OpToRel
    <2> DEFINE above == {j \in S : j > m}
    <2>3. Cardinality(above) < n
      BY DEF Newest
    <2> HIDE DEF T
    <2>4. T \subseteq above \cup {m} /\ above \subseteq S /\ m \notin above
      BY <1>1, <2>2
    <2> HIDE DEF above
    <2>5. /\ IsFiniteSet(above \cup {m})
          /\ Cardinality(above \cup {m}) = Cardinality(above) + 1
          /\ Cardinality(above) \in Nat
      BY <2>4, FS_AddElement, FS_Subset, FS_CardinalityType
    <2>6. Cardinality(T) <= Cardinality(above \cup {m})
      BY <2>4, <2>5, FS_Subset
    <2> QED BY <1>2, <2>3, <2>5, <2>6 DEF T
  <1> QED BY <1>3, <1>4


DemoTokens == Owned(tokens, Demo)
Trimming == {p \in Procs : At(p, "cap")}

\* Every token beyond the cap is of a login whose trim is still to come, or
\* did not.  A login through Discord is not the demo account's.
DemoOK ==
    /\ \A p \in Procs : At(p, "discord") => req[p].user # Demo
    /\ Cardinality(DemoTokens) <= DemoMaxTokens + history.untrimmed + Cardinality(Trimming)

LEMMA OwnedFinite ==
  ASSUME NEW rows, DOMAIN rows = TokenIds, NEW u
  PROVE  /\ Owned(rows, u) \subseteq TokenIds /\ Owned(rows, u) \subseteq Nat
         /\ IsFiniteSet(Owned(rows, u)) /\ Cardinality(Owned(rows, u)) \in Nat
  <1>1. Owned(rows, u) \subseteq TokenIds
    BY DEF Owned
  <1>2. Len(LoggedIn) + MaxCalls \in Int
    BY AccountAssumption
  <1>3. IsFiniteSet(TokenIds) /\ TokenIds \subseteq Nat
    BY <1>2, FS_Interval DEF TokenIds
  <1> QED BY <1>1, <1>3, FS_Subset, FS_CardinalityType

LEMMA DemoFinite ==
  /\ RequestsOK => /\ DemoTokens \subseteq TokenIds /\ DemoTokens \subseteq Nat
                   /\ IsFiniteSet(DemoTokens) /\ Cardinality(DemoTokens) \in Nat
  /\ RequestsOK' => IsFiniteSet(DemoTokens') /\ Cardinality(DemoTokens') \in Nat
  BY OwnedFinite DEF RequestsOK, DemoTokens

(* What a step may do to the tokens without giving the demo account one.      *)
LEMMA DemoLess ==
  ASSUME RequestsOK,
         \/ UNCHANGED tokens
         \/ \E lost : tokens' = Without(tokens, lost)
         \/ \E i \in TokenIds : tokens' = [tokens EXCEPT ![i] = NoToken]
         \/ \E i \in TokenIds : tokens' = [tokens EXCEPT ![i].active = now]
         \/ \E u \in Users \ {Demo} : Add(u)
  PROVE  DemoTokens' \subseteq DemoTokens
  <1>0. /\ tokens \in [TokenIds -> Token] /\ NoToken.user # Demo
        /\ \A i \in TokenIds : [tokens[i] EXCEPT !.active = now].user = tokens[i].user
    BY LinkAssumption, AccountAssumption DEF RequestsOK, NoToken, Token
  <1>1. ASSUME NEW lost, tokens' = Without(tokens, lost) PROVE DemoTokens' \subseteq DemoTokens
    BY <1>0, <1>1 DEF Without, DemoTokens, Owned
  <1>2. ASSUME NEW i \in TokenIds, NEW row, tokens' = [tokens EXCEPT ![i] = row],
               row.user = tokens[i].user \/ row.user # Demo
        PROVE  DemoTokens' \subseteq DemoTokens
    BY <1>0, <1>2 DEF DemoTokens, Owned
  <1>3. ASSUME NEW i \in TokenIds, tokens' = [tokens EXCEPT ![i].active = now]
        PROVE  DemoTokens' \subseteq DemoTokens
    <2>1. tokens' = [tokens EXCEPT ![i] = [tokens[i] EXCEPT !.active = now]]
      BY <1>3
    <2> QED BY <1>0, <1>2, <2>1
  <1>4. ASSUME NEW u \in Users \ {Demo}, Add(u) PROVE DemoTokens' \subseteq DemoTokens
    BY <1>0, <1>4 DEF Add, DemoTokens, Owned
  <1>5. UNCHANGED tokens => DemoTokens' \subseteq DemoTokens
    BY DEF DemoTokens, Owned
  <1> QED BY <1>0, <1>1, <1>2, <1>3, <1>4, <1>5

LEMMA DemoMore ==
  ASSUME RequestsOK, RequestsOK', Add(Demo)
  PROVE  Cardinality(DemoTokens') <= Cardinality(DemoTokens) + 1
  <1>0. /\ IsFiniteSet(DemoTokens) /\ Cardinality(DemoTokens) \in Nat
        /\ Cardinality(DemoTokens') \in Nat
    BY DemoFinite
  <1>1. DemoTokens' \subseteq DemoTokens \cup {minted'}
    BY DEF Add, DemoTokens, Owned, RequestsOK
  <1>2. /\ IsFiniteSet(DemoTokens \cup {minted'})
        /\ Cardinality(DemoTokens \cup {minted'}) =
              IF minted' \in DemoTokens THEN Cardinality(DemoTokens) ELSE Cardinality(DemoTokens) + 1
    BY <1>0, FS_AddElement
  <1>3. Cardinality(DemoTokens') <= Cardinality(DemoTokens \cup {minted'})
    BY <1>1, <1>2, FS_Subset
  <1> QED BY <1>0, <1>2, <1>3

(* Nobody comes to the trim or leaves it, and no token is given.              *)
LEMMA CapKept ==
  ASSUME RequestsOK, DemoOK, CreditOK, history'.untrimmed = history.untrimmed,
         DemoTokens' \subseteq DemoTokens, NoneMoves({"cap"}), NoneEnters({"discord"})
  PROVE  DemoOK'
  <1>1. Trimming' = Trimming
    BY DEF Trimming, NoneMoves, At
  <1>2. Cardinality(DemoTokens') <= Cardinality(DemoTokens) /\ Cardinality(DemoTokens') \in Nat
    BY DemoFinite, FS_Subset, FS_CardinalityType
  <1>3. /\ history.untrimmed \in Nat /\ DemoMaxTokens \in Nat
        /\ Cardinality(Trimming) \in Nat /\ Cardinality(DemoTokens) \in Nat
    BY AccountAssumption, Counted, DemoFinite DEF CreditOK, Credit, Trimming
  <1>4. \A p \in Procs : At(p, "discord")' => req'[p].user # Demo
    BY DEF DemoOK, NoneEnters, At
  <1>5. Cardinality(DemoTokens) <= DemoMaxTokens + history.untrimmed + Cardinality(Trimming)
    BY DEF DemoOK
  <1>6. Cardinality(DemoTokens') <= DemoMaxTokens + history'.untrimmed + Cardinality(Trimming')
    BY <1>1, <1>2, <1>3, <1>5
  <1> QED BY <1>4, <1>6 DEF DemoOK

(* A request that is elsewhere before and after.                              *)
LEMMA NotAtTheTrim ==
  ASSUME RequestsOK, NEW p \in Procs, req[p].pc # "cap",
         \/ UNCHANGED req \/ Done(p)
         \/ \E pc : Goto(p, pc) /\ pc \notin {"cap", "discord"}
  PROVE  NoneMoves({"cap"}) /\ NoneEnters({"discord"})
  <1>1. CASE UNCHANGED req
    BY <1>1 DEF NoneMoves, NoneEnters
  <1>2. CASE Done(p)
    <2>1. Idle.pc \notin {"cap"} /\ Idle.pc \notin {"discord"}
      BY DEF Idle
    <2> QED BY <1>2, <2>1, Elsewhere DEF Done
  <1>3. ASSUME NEW pc, Goto(p, pc), pc \notin {"cap", "discord"}
        PROVE  NoneMoves({"cap"}) /\ NoneEnters({"discord"})
    BY <1>3, GoesElsewhere
  <1> QED BY <1>1, <1>2, <1>3

(* A request begins elsewhere, and for another account through Discord.       *)
LEMMA RequestCap ==
  ASSUME IInv, IInv', DemoOK, CreditOK, NEW p \in Procs, Requests(p)
  PROVE  DemoOK'
  <1>0. RequestsOK /\ RequestsOK'
    BY DEF IInv
  <1>a. ASSUME NEW r, req[p] = Idle, req' = [req EXCEPT ![p] = r], r.pc \notin {"cap", "discord"},
               DemoTokens' \subseteq DemoTokens, history' = history
        PROVE  DemoOK'
    <2>1. req[p].pc = "idle"
      BY <1>a DEF Idle
    <2>2. NoneMoves({"cap"}) /\ NoneEnters({"discord"})
      BY <1>0, <1>a, <2>1, Elsewhere
    <2> QED BY <1>0, <1>a, <2>2, CapKept
  <1>b. ASSUME UNCHANGED req, DemoTokens' \subseteq DemoTokens, history' = history
        PROVE  DemoOK'
    BY <1>0, <1>b, CapKept DEF NoneMoves, NoneEnters
  <1>1. ASSUME NEW i \in TokenIds, NEW op \in Operations, Authenticate(p, i, op)
        PROVE  DemoOK'
    <2>1. DemoTokens' \subseteq DemoTokens
      BY <1>0, <1>1, DemoLess DEF Authenticate
    <2>2. op \notin {"cap", "discord"}
      BY DEF Operations, AllowPending
    <2> DEFINE r == [Idle EXCEPT !.pc = op, !.user = tokens[i].user,
                                 !.saw = users[tokens[i].user].purgeAt]
    <2>3. /\ r.pc = op /\ req[p] = Idle /\ history' = history
          /\ UNCHANGED req \/ req' = [req EXCEPT ![p] = r]
      BY <1>1 DEF Authenticate, Idle
    <2> HIDE DEF r
    <2> QED BY <1>a, <1>b, <2>1, <2>2, <2>3
  <1>2. ASSUME NEW u \in Users, BotLogin(p, u) \/ BotLogout(p, u) PROVE DemoOK'
    <2>1. PICK r : /\ r \in {[Idle EXCEPT !.pc = "issue", !.user = u],
                             [Idle EXCEPT !.pc = "discard", !.user = u]}
                   /\ req' = [req EXCEPT ![p] = r] /\ req[p] = Idle
      BY <1>2 DEF BotLogin, BotLogout
    <2>2. DemoTokens' \subseteq DemoTokens /\ history' = history
      BY <1>0, <1>2, DemoLess DEF BotLogin, BotLogout
    <2>3. r.pc \notin {"cap", "discord"}
      BY <2>1 DEF Idle
    <2> QED BY <1>a, <2>1, <2>2, <2>3
  <1>3. ASSUME NEW u \in Users, DiscordLogin(p, u) PROVE DemoOK'
    <2>1. /\ req[p] = Idle /\ u # Demo /\ UNCHANGED <<tokens, history>>
          /\ req' = [req EXCEPT ![p] = [Idle EXCEPT !.pc = "discord", !.user = u,
                                                    !.existed = users[u].exists]]
      BY <1>3 DEF DiscordLogin
    <2>2. /\ req'[p].pc = "discord" /\ req'[p].user # Demo /\ req[p].pc = "idle"
          /\ \A q \in Procs : q # p => req'[q] = req[q]
      BY <1>0, <2>1 DEF RequestsOK, Idle
    <2>3. Trimming' = Trimming /\ DemoTokens' = DemoTokens
      BY <2>1, <2>2 DEF Trimming, DemoTokens, At
    <2> QED BY <2>1, <2>2, <2>3 DEF DemoOK, At
  <1>4. ASSUME NEW u \in Users, DevLogin(u) PROVE DemoOK'
    <2>1. CASE u # Demo
      BY <1>0, <1>4, <1>b, <2>1, DemoLess DEF DevLogin
    <2>2. CASE u = Demo
      <3>1. Trimming' = Trimming /\ \A q \in Procs : req'[q] = req[q]
        BY <1>4 DEF DevLogin, Trimming, At
      <3>2. history'.untrimmed = history.untrimmed + 1 /\ history.untrimmed \in Nat
        BY <1>4, <2>2 DEF DevLogin, CreditOK, Credit
      <3>3. Cardinality(DemoTokens') <= Cardinality(DemoTokens) + 1
        BY <1>0, <1>4, <2>2, DemoMore DEF DevLogin
      <3>4. /\ Cardinality(DemoTokens') \in Nat /\ Cardinality(DemoTokens) \in Nat
            /\ Cardinality(Trimming) \in Nat /\ DemoMaxTokens \in Nat
        BY <1>0, DemoFinite, Counted, AccountAssumption DEF Trimming
      <3> QED BY <3>1, <3>2, <3>3, <3>4 DEF DemoOK, At
    <2> QED BY <2>1, <2>2
  <1>5. ASSUME NEW ip \in Ips, LinkLogin(p, ip) PROVE DemoOK'
    <2>1. PICK r : /\ r = [Idle EXCEPT !.pc = "redeem", !.ip = ip]
                   /\ req' = [req EXCEPT ![p] = r] /\ req[p] = Idle
      BY <1>5 DEF LinkLogin
    <2>2. r.pc \notin {"cap", "discord"} /\ DemoTokens' \subseteq DemoTokens /\ history' = history
      BY <1>0, <1>5, <2>1, DemoLess DEF LinkLogin, Idle
    <2> QED BY <1>a, <2>1, <2>2
  <1>6. ASSUME NEW ip \in Ips, DemoLogin(p, ip) PROVE DemoOK'
    <2> DEFINE r == [Idle EXCEPT !.pc = "mint", !.user = Demo]
    <2>1. /\ UNCHANGED req \/ req' = [req EXCEPT ![p] = r]
          /\ req[p] = Idle /\ history' = history
      BY <1>6 DEF DemoLogin
    <2>2. r.pc \notin {"cap", "discord"} /\ DemoTokens' \subseteq DemoTokens
      BY <1>0, <1>6, DemoLess DEF DemoLogin, Idle
    <2> HIDE DEF r
    <2> QED BY <1>a, <1>b, <2>1, <2>2
  <1>7. CASE DemoRead(p)
    <2>1. PICK r : /\ r = [Idle EXCEPT !.pc = "reset", !.user = Demo, !.saw = users[Demo].purgeAt]
                   /\ req' = [req EXCEPT ![p] = r] /\ req[p] = Idle
      BY <1>7 DEF DemoRead
    <2>2. r.pc \notin {"cap", "discord"} /\ DemoTokens' \subseteq DemoTokens /\ history' = history
      BY <1>0, <1>7, <2>1, DemoLess DEF DemoRead, Idle
    <2> QED BY <1>a, <2>1, <2>2
  <1> QED BY <1>1, <1>2, <1>3, <1>4, <1>5, <1>6, <1>7 DEF Requests, AccountRequest

(* A login of the demo account goes on to its trim.                           *)
LEMMA IssueCap ==
  ASSUME IInv, IInv', DemoOK, CreditOK, NEW p \in Procs, IssueToken(p)
  PROVE  DemoOK'
  <1>0. RequestsOK /\ RequestsOK' /\ req[p].user \in Users /\ history' = history
    BY DEF IInv, IssueToken, RequestsOK, At, NoUserYet
  <1>1. CASE Goto(p, "cap") /\ Add(Demo) /\ req[p].pc = "mint"
    <2>1. /\ \A q \in Procs : q # p => req'[q] = req[q]
          /\ req'[p].pc = "cap"
      BY <1>0, <1>1, Goes
    <2>2. Trimming' = Trimming \cup {p} /\ p \notin Trimming /\ Trimming \subseteq Procs
      BY <1>1, <2>1 DEF Trimming, At
    <2>3. Cardinality(Trimming') = Cardinality(Trimming) + 1 /\ Cardinality(Trimming) \in Nat
      BY <2>2, OneMore
    <2>4. Cardinality(DemoTokens') <= Cardinality(DemoTokens) + 1
      BY <1>0, <1>1, DemoMore
    <2>5. /\ Cardinality(DemoTokens') \in Nat /\ Cardinality(DemoTokens) \in Nat
          /\ DemoMaxTokens \in Nat /\ history.untrimmed \in Nat
      BY <1>0, DemoFinite, AccountAssumption DEF CreditOK, Credit
    <2>6. \A q \in Procs : At(q, "discord")' => req'[q].user # Demo
      BY <2>1 DEF DemoOK, At
    <2>7. Cardinality(DemoTokens) <= DemoMaxTokens + history.untrimmed + Cardinality(Trimming)
      BY DEF DemoOK
    <2> QED BY <1>0, <2>3, <2>4, <2>5, <2>6, <2>7 DEF DemoOK
  <1>2. CASE Done(p) /\ DemoTokens' \subseteq DemoTokens /\ req[p].pc # "cap"
    BY <1>0, <1>2, NotAtTheTrim, CapKept
  <1>3. req[p].pc = "mint"
    BY DEF IssueToken, At
  <1>4. CASE users[req[p].user].exists /\ req[p].user = Demo
    BY <1>1, <1>3, <1>4 DEF IssueToken
  <1>5. CASE ~(users[req[p].user].exists /\ req[p].user = Demo)
    <2>1. Done(p)
      BY <1>5 DEF IssueToken
    <2>2. UNCHANGED tokens \/ \E u \in Users \ {Demo} : Add(u)
      BY <1>0, <1>5 DEF IssueToken
    <2> QED BY <1>0, <1>2, <1>3, <2>1, <2>2, DemoLess
  <1> QED BY <1>4, <1>5

(* The trim leaves the newest ones, whoever else is on the way to it; a       *)
(* request that dies before it is one login more without a trim.              *)
LEMMA TrimCap ==
  ASSUME IInv, IInv', DemoOK, CreditOK, NEW p \in Procs, CapDemoTokens(p) \/ Lost(p)
  PROVE  DemoOK'
  <1>0. RequestsOK /\ RequestsOK' /\ Done(p)
    BY DEF IInv, CapDemoTokens, Lost, RequestLost
  <1>1. /\ \A q \in Procs : q # p => req'[q] = req[q]
        /\ req'[p].pc = "idle"
    BY <1>0 DEF Done, RequestsOK, Idle
  <1>2. \A q \in Procs : At(q, "discord")' => req'[q].user # Demo
    BY <1>1 DEF DemoOK, At
  <1>3. /\ Trimming' \subseteq Procs /\ Trimming \subseteq Procs
        /\ At(p, "cap") => p \in Trimming /\ Trimming' = Trimming \ {p}
        /\ ~At(p, "cap") => Trimming' = Trimming
    BY <1>1 DEF Trimming, At
  <1>4. /\ Cardinality(Trimming') \in Nat /\ Cardinality(Trimming) \in Nat
        /\ At(p, "cap") => Cardinality(Trimming') = Cardinality(Trimming) - 1
        /\ ~At(p, "cap") => Cardinality(Trimming') = Cardinality(Trimming)
    BY <1>3, Counted, OneLess
  <1>5. /\ Cardinality(DemoTokens') \in Nat /\ Cardinality(DemoTokens) \in Nat
        /\ DemoMaxTokens \in Nat /\ history.untrimmed \in Nat
        /\ Cardinality(DemoTokens) <= DemoMaxTokens + history.untrimmed + Cardinality(Trimming)
    BY <1>0, DemoFinite, AccountAssumption DEF CreditOK, Credit, DemoOK
  <1>6. CASE CapDemoTokens(p)
    <2>1. DemoTokens' \subseteq Newest(DemoTokens, DemoMaxTokens)
      <3>1. DemoTokens \subseteq TokenIds /\ Demo # NoUser
        BY <1>0, DemoFinite, LinkAssumption, AccountAssumption
      <3>2. tokens' = [i \in TokenIds |-> IF i \in DemoTokens \ Newest(DemoTokens, DemoMaxTokens)
                                          THEN NoToken ELSE tokens[i]]
        BY <1>6 DEF CapDemoTokens, DemoTokens
      <3>3. \A i \in DemoTokens' : i \in TokenIds /\ tokens'[i].user = Demo
        BY <3>2 DEF DemoTokens, Owned
      <3>4. \A i \in DemoTokens' : tokens'[i] # NoToken
        BY <3>1, <3>3 DEF NoToken
      <3>5. \A i \in DemoTokens' : /\ tokens'[i] = tokens[i]
                                   /\ i \notin DemoTokens \ Newest(DemoTokens, DemoMaxTokens)
        BY <3>2, <3>3, <3>4
      <3>6. \A i \in DemoTokens' : i \in DemoTokens
        BY <1>0, <3>3, <3>5 DEF DemoTokens, Owned, RequestsOK
      <3> QED BY <3>5, <3>6
    <2> DEFINE few == Newest(DemoTokens, DemoMaxTokens)
    <2>2. Cardinality(DemoTokens') <= DemoMaxTokens
      <3>1. IsFiniteSet(few) /\ Cardinality(few) \in Nat /\ Cardinality(few) <= DemoMaxTokens
        BY <1>0, <1>5, DemoFinite, NewestFew
      <3> HIDE DEF few
      <3>2. Cardinality(DemoTokens') <= Cardinality(few)
        BY <2>1, <3>1, FS_Subset DEF few
      <3> QED BY <1>5, <3>1, <3>2
    <2>3. history'.untrimmed = 0
      BY <1>6 DEF CapDemoTokens, CreditOK, Credit
    <2> QED BY <1>2, <1>4, <1>5, <2>2, <2>3 DEF DemoOK
  <1>7. CASE Lost(p)
    <2>1. history'.untrimmed = IF At(p, "cap") THEN history.untrimmed + 1 ELSE history.untrimmed
      BY <1>7 DEF Lost, RequestLost, CreditOK, Credit
    <2>2. DemoTokens' = DemoTokens
      BY <1>7 DEF Lost, RequestLost, DemoTokens
    <2> QED BY <1>2, <1>4, <1>5, <2>1, <2>2 DEF DemoOK
  <1> QED BY <1>6, <1>7

LEMMA WorkCap ==
  ASSUME IInv, IInv', DemoOK, CreditOK, NEW p \in Procs, Work(p)
  PROVE  DemoOK'
  <1>0. RequestsOK /\ RequestsOK'
    BY DEF IInv
  <1>a. ASSUME req[p].pc # "cap", DemoTokens' \subseteq DemoTokens, history' = history,
               \/ UNCHANGED req \/ Done(p)
               \/ \E pc : Goto(p, pc) /\ pc \notin {"cap", "discord"}
        PROVE  DemoOK'
    BY <1>0, <1>a, NotAtTheTrim, CapKept
  <1>1. CASE IssueToken(p)
    BY <1>1, IssueCap
  <1>2. CASE CapDemoTokens(p)
    BY <1>2, TrimCap
  <1>3. CASE ScheduleDeletion(p)
    <2>1. DemoTokens' \subseteq DemoTokens
      BY <1>0, <1>3, DemoLess DEF ScheduleDeletion
    <2> QED BY <1>3, <1>a, <2>1 DEF ScheduleDeletion, At
  <1>4. CASE DiscordCommit(p)
    <2>1. req[p].user \in Users \ {Demo}
      BY <1>0, <1>4 DEF DiscordCommit, DemoOK, RequestsOK, At, NoUserYet
    <2>2. DemoTokens' \subseteq DemoTokens
      BY <1>0, <1>4, <2>1, DemoLess DEF DiscordCommit
    <2> QED BY <1>4, <1>a, <2>2 DEF DiscordCommit, At
  <1>5. CASE \/ CancelDeletion(p) \/ UpdateSettings(p) \/ DiscardSkipped(p)
             \/ \E d \in Devices : RegisterDevice(p, d) \/ UnregisterDevice(p, d)
             \/ DemoCommit(p) \/ LinkDone(p) \/ LinkRefused(p)
    <2>1. Done(p) /\ req[p].pc # "cap" /\ history' = history /\ tokens' = tokens
      BY <1>5 DEF CancelDeletion, UpdateSettings, DiscardSkipped, RegisterDevice,
                  UnregisterDevice, DemoCommit, LinkDone, LinkRefused, At
    <2> QED BY <1>0, <1>a, <2>1, DemoLess
  <1>6. CASE BotIssue(p) \/ Discard(p) \/ \E c \in Codes : LinkRedeem(p, c)
    <2>1. /\ req[p].pc # "cap" /\ tokens' = tokens /\ history'.untrimmed = history.untrimmed
          /\ Goto(p, "linking") \/ Goto(p, "redeeming")
      BY <1>6 DEF BotIssue, Discard, LinkRedeem, At, CreditOK, Credit
    <2> QED BY <1>0, <2>1, DemoLess, NotAtTheTrim, CapKept
  <1>7. CASE LinkWork(p)
    <2>1. UNCHANGED <<req, tokens>> /\ history'.untrimmed = history.untrimmed
      BY <1>7 DEF LinkWork, CreditOK, Credit
    <2> QED BY <1>0, <2>1, DemoLess, CapKept DEF NoneMoves, NoneEnters
  <1>8. CASE LinkAccepted(p)
    <2>1. req[p].pc = "redeeming" /\ UNCHANGED <<tokens, history>>
      BY <1>8 DEF LinkAccepted, At
    <2>2. CASE Done(p)
      BY <1>0, <1>a, <2>1, <2>2, DemoLess
    <2>3. CASE ~Done(p)
      <3>1. /\ \A q \in Procs : q # p => req'[q] = req[q]
            /\ req'[p].pc = "mint"
        BY <1>0, <1>8, <2>3 DEF LinkAccepted, RequestsOK, Request
      <3>2. NoneMoves({"cap"}) /\ NoneEnters({"discord"})
        BY <2>1, <3>1 DEF NoneMoves, NoneEnters
      <3> QED BY <1>0, <2>1, <3>2, DemoLess, CapKept
    <2> QED BY <2>2, <2>3
  <1>9. CASE VoiceWork(p)
    <2>1. /\ req[p].pc # "cap" /\ tokens' = tokens /\ history' = history
          /\ Done(p) \/ Goto(p, "whisper") \/ Goto(p, "bill")
      BY <1>9 DEF VoiceWork, VoiceQuota, Whisper, Bill, At
    <2> QED BY <1>0, <1>a, <2>1, DemoLess
  <1> QED BY <1>1, <1>2, <1>3, <1>4, <1>5, <1>6, <1>7, <1>8, <1>9
          DEF Work, AccountWork, DemoReset

LEMMA DemoInv ==
  ASSUME IInv, IInv', DemoOK, CreditOK, [Next]_serviceVars
  PROVE  DemoOK'
  <1>0. RequestsOK
    BY DEF IInv
  <1>a. ASSUME UNCHANGED <<req, history>>, DemoTokens' \subseteq DemoTokens
        PROVE  DemoOK'
    BY <1>0, <1>a, CapKept DEF NoneMoves, NoneEnters
  <1>1. CASE UNCHANGED serviceVars
    BY <1>0, <1>1, <1>a, DemoLess DEF serviceVars, accountVars
  <1>2. ASSUME NEW p \in Procs, Requests(p) \/ Work(p) \/ Lost(p) PROVE DemoOK'
    BY <1>2, RequestCap, WorkCap, TrimCap
  <1>3. ASSUME NEW w \in Workers, Report(w) PROVE DemoOK'
    <2>1. history' = history
      BY <1>3 DEF Report, ReportStart, ReportWork, ReportAcquire, ReportCount, ReportSend,
                  ReportCommit, ReportRaises, ReportLost, accountVars
    <2> QED BY <1>0, <1>3, <1>a, <2>1, ReportFrame, DemoLess
  <1>4. CASE Outside
    <2>1. UNCHANGED <<req, history>>
      BY <1>4 DEF Outside, Environment, AppLogout, SweepDevices, WindowEnds, KeyExpires,
                  DedupExpires, accountVars
    <2>2. UNCHANGED tokens \/ \E i \in TokenIds : tokens' = [tokens EXCEPT ![i] = NoToken]
      BY <1>4 DEF Outside, Environment, AppLogout, SweepDevices, WindowEnds, KeyExpires,
                  DedupExpires, accountVars
    <2> QED BY <1>0, <1>a, <2>1, <2>2, DemoLess
  <1>5. CASE Purge \/ NewDay
    <2>1. UNCHANGED <<req, history>>
      BY <1>5 DEF Purge, PurgeAccounts, NewDay, Tick
    <2>2. UNCHANGED tokens \/ \E lost : tokens' = Without(tokens, lost)
      BY <1>5 DEF Purge, PurgeAccounts, NewDay, Tick
    <2> QED BY <1>0, <1>a, <2>1, <2>2, DemoLess
  <1> QED BY <1>1, <1>2, <1>3, <1>4, <1>5 DEF Next

(* The reviewer code's tokens stay within their cap, but for the logins whose *)
(* trim is missing, although the trim is a transaction of its own and others  *)
(* log in between a token and its trim (_issue_token and the demo branch of   *)
(* link_account in src/app/api/v1/endpoints/auth.py).                         *)
THEOREM DemoTokensStayCapped == Spec => []DemoTokensCapped
  <1>1. Init => DemoOK
    <2> SUFFICES ASSUME Init PROVE DemoOK
      OBVIOUS
    <2>0. RequestsOK
      BY InitInv DEF IInv
    <2>1. /\ \A p \in Procs : req[p].pc = "idle"
          /\ history.untrimmed = 0
      BY DEF Init, AccountInit, Idle
    <2>2. Trimming = {} /\ Cardinality(Trimming) = 0
      BY <2>1, FS_EmptySet DEF Trimming, At
    <2>3. DemoTokens = {k \in DOMAIN LoggedIn : LoggedIn[k] = Demo}
      <3>1. tokens = [i \in TokenIds |-> IF i \in DOMAIN LoggedIn
                                         THEN [user |-> LoggedIn[i], active |-> 1] ELSE NoToken]
        BY DEF Init, AccountInit
      <3>2. DOMAIN LoggedIn \subseteq TokenIds /\ Demo # NoUser
        BY AccountAssumption, LinkAssumption DEF TokenIds
      <3> QED BY <3>1, <3>2 DEF DemoTokens, Owned, NoToken
    <2>4. Cardinality(DemoTokens) <= DemoMaxTokens /\ DemoMaxTokens \in Nat
      BY <2>3, AccountAssumption
    <2> QED BY <2>0, <2>1, <2>2, <2>4, DemoFinite DEF DemoOK, At
  <1>2. IInv /\ IInv' /\ CreditOK /\ DemoOK /\ [Next]_serviceVars => DemoOK'
    BY DemoInv
  <1>3. CreditOK /\ DemoOK => DemoTokensCapped
    <2> SUFFICES ASSUME CreditOK, DemoOK, \A p \in Procs : ~At(p, "cap")
                 PROVE  Cardinality(DemoTokens) <= DemoMaxTokens + history.untrimmed
      BY DEF DemoTokensCapped, DemoTokens
    <2>1. Trimming = {}
      BY DEF Trimming
    <2>2. Cardinality(Trimming) = 0
      BY <2>1, FS_EmptySet
    <2>3. history.untrimmed \in Nat /\ DemoMaxTokens \in Nat
      BY AccountAssumption DEF CreditOK, Credit
    <2> QED BY <2>2, <2>3 DEF DemoOK
  <1> QED BY <1>1, <1>2, <1>3, ServiceInvariant, CreditAlways, PTL DEF Spec

-----------------------------------------------------------------------------
(* Types.  The counters stay within the requests begun: a request adds to     *)
(* each of them once, in the step in which it leaves the places from which it *)
(* still may.                                                                 *)

MayHit == Guesses \cup {"transcribe"}
MayMint == Guesses \cup {"mint", "discord"}
MayLeave == Guesses \cup {"mint", "cap"}
MayPay == {"transcribe", "whisper"}
MayBill == MayPay \cup {"bill"}

Inside(pcs) == {p \in Procs : req[p].pc \in pcs}
Has(pc, pcs) == IF pc \in pcs THEN 1 ELSE 0

CountersTyped ==
    /\ hits \in [Windows -> Nat] /\ minted \in Nat /\ history \in Credit
    /\ usage \in [Users -> Nat] /\ paid \in [Users -> Nat] /\ unlogged \in [Users -> Nat]

Covered(counter, pcs, begun) == counter + Cardinality(Inside(pcs)) <= begun

CountersOK ==
    /\ CountersTyped
    /\ calls \in 0..MaxCalls /\ mix \in Mixes
    /\ \A w \in Windows : Covered(hits[w], MayHit, calls)
    /\ Covered(minted, MayMint, Len(LoggedIn) + calls)
    /\ Covered(history.untrimmed, MayLeave, calls)
    /\ \A u \in Users : /\ Covered(paid[u], MayPay, calls)
                        /\ Covered(usage[u], MayBill, calls)
                        /\ Covered(unlogged[u], MayBill, calls)

\* The step takes the request of a process to a place.
Turns(p, pc) == \A q \in Procs : req'[q].pc = IF q = p THEN pc ELSE req[q].pc

\* What is added to a counter is paid for: by a call, or by a request that
\* leaves the places from which it may.
Paid(p, pc, pcs, before, after) ==
    after + Has(pc, pcs) <= before + Has(req[p].pc, pcs) + (calls' - calls)

Balanced(p, pc) ==
    /\ \A w \in Windows : Paid(p, pc, MayHit, hits[w], hits'[w])
    /\ Paid(p, pc, MayMint, minted, minted')
    /\ Paid(p, pc, MayLeave, history.untrimmed, history'.untrimmed)
    /\ \A u \in Users : /\ Paid(p, pc, MayPay, paid[u], paid'[u])
                        /\ Paid(p, pc, MayBill, usage[u], usage'[u])
                        /\ Paid(p, pc, MayBill, unlogged[u], unlogged'[u])

LEMMA InsideCounted ==
  \A pcs : Inside(pcs) \subseteq Procs /\ IsFiniteSet(Inside(pcs)) /\ Cardinality(Inside(pcs)) \in Nat
  BY Counted DEF Inside

(* A request that turns elsewhere is counted where it is.                     *)
LEMMA Turned ==
  ASSUME NEW p \in Procs, NEW pc, Turns(p, pc), NEW pcs
  PROVE  /\ Cardinality(Inside(pcs)') + Has(req[p].pc, pcs) = Cardinality(Inside(pcs)) + Has(pc, pcs)
         /\ Cardinality(Inside(pcs)') \in Nat
  <1> DEFINE S == Inside(pcs)
  <1>1. Inside(pcs)' = IF pc \in pcs THEN S \cup {p} ELSE S \ {p}
    BY DEF Inside, Turns
  <1>2. p \in S <=> req[p].pc \in pcs
    BY DEF Inside
  <1>3. S \subseteq Procs /\ IsFiniteSet(S) /\ Cardinality(S) \in Nat
    BY InsideCounted
  <1> HIDE DEF S
  <1>4. CASE pc \in pcs
    <2>1. Has(pc, pcs) = 1
      BY <1>4 DEF Has
    <2>2. Cardinality(S \cup {p}) = IF p \in S THEN Cardinality(S) ELSE Cardinality(S) + 1
      BY <1>3, FS_AddElement
    <2> QED BY <1>1, <1>2, <1>3, <1>4, <2>1, <2>2 DEF Has, S
  <1>5. CASE pc \notin pcs
    <2>1. Has(pc, pcs) = 0
      BY <1>5 DEF Has
    <2>2. Cardinality(S \ {p}) = IF p \in S THEN Cardinality(S) - 1 ELSE Cardinality(S)
      BY <1>3, FS_RemoveElement
    <2>3. p \in S => Cardinality(S) # 0
      BY <1>3, FS_EmptySet
    <2> QED BY <1>1, <1>2, <1>3, <1>5, <2>1, <2>2, <2>3 DEF Has, S
  <1> QED BY <1>4, <1>5

LEMMA StaysCovered ==
  ASSUME NEW p \in Procs, NEW pc, Turns(p, pc), NEW pcs, calls \in Nat, calls' \in Nat,
         NEW before \in Nat, NEW after \in Nat, NEW more \in Nat,
         Covered(before, pcs, more + calls), Paid(p, pc, pcs, before, after)
  PROVE  after + Cardinality(Inside(pcs)') <= more + calls'
  <1>1. /\ Cardinality(Inside(pcs)') + Has(req[p].pc, pcs) = Cardinality(Inside(pcs)) + Has(pc, pcs)
        /\ Cardinality(Inside(pcs)') \in Nat /\ Cardinality(Inside(pcs)) \in Nat
    BY Turned, InsideCounted
  <1>2. Has(req[p].pc, pcs) \in Nat /\ Has(pc, pcs) \in Nat
    BY DEF Has
  <1> QED BY <1>1, <1>2 DEF Covered, Paid

LEMMA Balance ==
  ASSUME CountersOK, CountersTyped', calls' \in 0..MaxCalls, mix' = mix,
         NEW p \in Procs, NEW pc, Turns(p, pc), Balanced(p, pc)
  PROVE  CountersOK'
  <1>0. /\ CountersTyped /\ calls \in Nat /\ calls' \in Nat /\ Len(LoggedIn) \in Nat /\ 0 \in Nat
        /\ calls = 0 + calls /\ calls' = 0 + calls'
    BY AccountAssumption DEF CountersOK
  <1>1. ASSUME NEW w \in Windows PROVE hits'[w] + Cardinality(Inside(MayHit)') <= calls'
    <2>1. hits[w] \in Nat /\ hits'[w] \in Nat
      BY <1>0 DEF CountersTyped
    <2>2. Covered(hits[w], MayHit, 0 + calls) /\ Paid(p, pc, MayHit, hits[w], hits'[w])
      BY <1>0 DEF CountersOK, Balanced
    <2> QED BY <1>0, <2>1, <2>2, StaysCovered
  <1>2. minted' + Cardinality(Inside(MayMint)') <= Len(LoggedIn) + calls'
    BY <1>0, StaysCovered DEF CountersOK, CountersTyped, Balanced
  <1>3. history'.untrimmed + Cardinality(Inside(MayLeave)') <= calls'
    <2>1. Covered(history.untrimmed, MayLeave, 0 + calls)
      BY <1>0 DEF CountersOK
    <2> QED BY <1>0, <2>1, StaysCovered DEF CountersTyped, Balanced, Credit
  <1>4. ASSUME NEW u \in Users
        PROVE  /\ paid'[u] + Cardinality(Inside(MayPay)') <= calls'
               /\ usage'[u] + Cardinality(Inside(MayBill)') <= calls'
               /\ unlogged'[u] + Cardinality(Inside(MayBill)') <= calls'
    <2>1. /\ paid[u] \in Nat /\ usage[u] \in Nat /\ unlogged[u] \in Nat
          /\ paid'[u] \in Nat /\ usage'[u] \in Nat /\ unlogged'[u] \in Nat
      BY <1>0 DEF CountersTyped
    <2>2. /\ Covered(paid[u], MayPay, 0 + calls) /\ Covered(usage[u], MayBill, 0 + calls)
          /\ Covered(unlogged[u], MayBill, 0 + calls)
      BY <1>0 DEF CountersOK
    <2>3. /\ Paid(p, pc, MayPay, paid[u], paid'[u]) /\ Paid(p, pc, MayBill, usage[u], usage'[u])
          /\ Paid(p, pc, MayBill, unlogged[u], unlogged'[u])
      BY DEF Balanced
    <2> QED BY <1>0, <2>1, <2>2, <2>3, StaysCovered
  <1> QED BY <1>1, <1>2, <1>3, <1>4 DEF CountersOK, Covered

\* No counter grows.
NoneGrows ==
    /\ \A w \in Windows : hits'[w] <= hits[w]
    /\ minted' = minted /\ history'.untrimmed <= history.untrimmed
    /\ \A u \in Users : paid'[u] <= paid[u] /\ usage'[u] <= usage[u] /\ unlogged'[u] <= unlogged[u]

\* The places from which some counter may still be added to.
Counting == Guesses \cup {"transcribe", "whisper", "bill", "mint", "discord", "cap"}

(* A request that begins, ends or goes on without being counted.              *)
LEMMA Uncounted ==
  ASSUME CountersOK, CountersTyped', NoneGrows, mix' = mix, NEW p \in Procs, NEW pc, Turns(p, pc),
         \/ calls' = calls /\ (pc \notin Counting \/ pc = req[p].pc)
         \/ calls' = calls + 1 /\ calls < MaxCalls
  PROVE  CountersOK'
  <1>1. calls \in 0..MaxCalls /\ MaxCalls \in Nat
    BY AccountAssumption DEF CountersOK
  <1>2. calls' \in 0..MaxCalls
    BY <1>1
  <1>3. \A pcs : Has(pc, pcs) \in {0, 1} /\ Has(req[p].pc, pcs) \in {0, 1}
    BY DEF Has
  <1>4. ASSUME NEW pcs, pcs \subseteq Counting
        PROVE  Has(pc, pcs) <= Has(req[p].pc, pcs) + (calls' - calls)
    BY <1>1, <1>4 DEF Has
  <1>5. /\ MayHit \subseteq Counting /\ MayMint \subseteq Counting /\ MayLeave \subseteq Counting
        /\ MayPay \subseteq Counting /\ MayBill \subseteq Counting
    BY DEF MayHit, MayMint, MayLeave, MayPay, MayBill, Counting
  <1>6. ASSUME NEW pcs, pcs \subseteq Counting, NEW before \in Nat, NEW after \in Nat, after <= before
        PROVE  Paid(p, pc, pcs, before, after)
    BY <1>1, <1>3, <1>4, <1>6 DEF Paid
  <1>7. CountersTyped
    BY DEF CountersOK
  <1>8. Balanced(p, pc)
    <2>1. \A w \in Windows : hits[w] \in Nat /\ hits'[w] \in Nat
      BY <1>7 DEF CountersTyped
    <2>2. \A u \in Users : /\ paid[u] \in Nat /\ usage[u] \in Nat /\ unlogged[u] \in Nat
                           /\ paid'[u] \in Nat /\ usage'[u] \in Nat /\ unlogged'[u] \in Nat
      BY <1>7 DEF CountersTyped
    <2>3. minted \in Nat /\ minted' \in Nat /\ history.untrimmed \in Nat /\ history'.untrimmed \in Nat
      BY <1>7 DEF CountersTyped, Credit
    <2> QED BY <1>5, <1>6, <2>1, <2>2, <2>3 DEF Balanced, NoneGrows
  <1> QED BY <1>2, <1>8, Balance

(* Where a step takes a request.                                              *)
LEMMA TurnsTo ==
  ASSUME RequestsOK, NEW p \in Procs
  PROVE  /\ Done(p) => Turns(p, "idle")
         /\ \A pc : Goto(p, pc) => Turns(p, pc)
         /\ \A r : req' = [req EXCEPT ![p] = r] => Turns(p, r.pc)
         /\ UNCHANGED req => Turns(p, req[p].pc)
  <1>1. \A r : req' = [req EXCEPT ![p] = r] => Turns(p, r.pc)
    BY DEF RequestsOK, Turns
  <1>2. Idle.pc = "idle"
    BY DEF Idle
  <1>3. Done(p) => Turns(p, "idle")
    BY <1>1, <1>2 DEF Done
  <1>4. \A pc : Goto(p, pc) => Turns(p, pc)
    BY Goes DEF Turns
  <1> QED BY <1>1, <1>3, <1>4 DEF Turns

LEMMA SameCounters ==
  ASSUME CountersTyped, UNCHANGED <<hits, minted, history, usage, paid, unlogged>>
  PROVE  CountersTyped' /\ NoneGrows
  BY DEF CountersTyped, NoneGrows, Credit

(* What pays for a counter that may have grown by one.                        *)
LEMMA PaidFor ==
  ASSUME calls \in Nat, NEW before \in Nat, NEW after \in Nat, NEW p \in Procs, NEW pc, NEW pcs,
         LET stays == pc \notin pcs \/ req[p].pc \in pcs IN
         \/ after <= before /\ calls' = calls /\ stays
         \/ after <= before /\ calls' = calls + 1
         \/ after <= before + 1 /\ calls' = calls + 1 /\ stays
         \/ after <= before + 1 /\ calls' = calls /\ pc \notin pcs /\ req[p].pc \in pcs
  PROVE  Paid(p, pc, pcs, before, after)
  <1>1. Has(pc, pcs) = (IF pc \in pcs THEN 1 ELSE 0)
    BY DEF Has
  <1>2. Has(req[p].pc, pcs) = (IF req[p].pc \in pcs THEN 1 ELSE 0)
    BY DEF Has
  <1> QED BY <1>1, <1>2 DEF Paid

(* A request that begins spends a call.                                       *)
LEMMA RequestCounted ==
  ASSUME CountersOK, RequestsOK, NEW p \in Procs, Requests(p)
  PROVE  CountersOK'
  <1>0. CountersTyped /\ calls \in 0..MaxCalls /\ MaxCalls \in Nat
    BY AccountAssumption DEF CountersOK
  <1>1. calls < MaxCalls /\ calls' = calls + 1 /\ mix' = mix /\ UNCHANGED voiceVars
    BY DEF Requests, AccountRequest, Authenticate, BotLogin, BotLogout, DiscordLogin,
           DevLogin, LinkLogin, DemoLogin, DemoRead, Spend
  <1>2. calls' \in 0..MaxCalls
    BY <1>0, <1>1
  <1>a. ASSUME UNCHANGED <<hits, minted, history>>,
               UNCHANGED req \/ \E r : req' = [req EXCEPT ![p] = r]
        PROVE  CountersOK'
    <2>1. CountersTyped' /\ NoneGrows
      BY <1>0, <1>1, <1>a, SameCounters DEF voiceVars
    <2>2. \E pc : Turns(p, pc)
      BY <1>a, TurnsTo
    <2> QED BY <1>1, <2>1, <2>2, Uncounted
  <1>3. ASSUME NEW i \in TokenIds, NEW op \in Operations, Authenticate(p, i, op)
        PROVE  CountersOK'
    BY <1>a, <1>3 DEF Authenticate
  <1>4. ASSUME NEW u \in Users, BotLogin(p, u) \/ BotLogout(p, u) \/ DiscordLogin(p, u)
        PROVE  CountersOK'
    BY <1>a, <1>4 DEF BotLogin, BotLogout, DiscordLogin
  <1>5. ASSUME NEW u \in Users, DevLogin(u) PROVE CountersOK'
    <2>1. /\ UNCHANGED <<hits, req>> /\ minted' = minted + 1
          /\ history' = history \/ history' = [history EXCEPT !.untrimmed = @ + 1]
      BY <1>5 DEF DevLogin, Add
    <2>2. /\ history \in Credit /\ history' \in Credit
          /\ history'.untrimmed \in {history.untrimmed, history.untrimmed + 1}
          /\ history.untrimmed \in Nat
      BY <1>0, <2>1 DEF CountersTyped, Credit
    <2>3. CountersTyped'
      BY <1>0, <1>1, <2>1, <2>2 DEF CountersTyped, voiceVars
    <2>4. Turns(p, req[p].pc)
      BY <2>1, TurnsTo
    <2>5. Balanced(p, req[p].pc)
      <3>1. calls \in Nat /\ calls' = calls + 1
        BY <1>0, <1>1
      <3>2. \A w \in Windows : hits[w] \in Nat /\ hits'[w] \in Nat /\ hits'[w] <= hits[w]
        BY <1>0, <2>1 DEF CountersTyped
      <3>3. \A u2 \in Users : /\ paid[u2] \in Nat /\ usage[u2] \in Nat /\ unlogged[u2] \in Nat
                              /\ paid'[u2] \in Nat /\ usage'[u2] \in Nat /\ unlogged'[u2] \in Nat
                              /\ paid'[u2] <= paid[u2] /\ usage'[u2] <= usage[u2]
                              /\ unlogged'[u2] <= unlogged[u2]
        BY <1>0, <1>1 DEF CountersTyped, voiceVars
      <3>4. /\ minted \in Nat /\ minted' \in Nat /\ minted' <= minted + 1
            /\ history'.untrimmed \in Nat /\ history'.untrimmed <= history.untrimmed + 1
        BY <1>0, <2>1, <2>2 DEF CountersTyped
      <3> QED BY <2>2, <3>1, <3>2, <3>3, <3>4, PaidFor DEF Balanced
    <2> QED BY <1>1, <1>2, <2>3, <2>4, <2>5, Balance
  <1>6. ASSUME NEW ip \in Ips, LinkLogin(p, ip) PROVE CountersOK'
    BY <1>a, <1>6 DEF LinkLogin
  <1>7. ASSUME NEW ip \in Ips, DemoLogin(p, ip) PROVE CountersOK'
    <2>1. CASE UNCHANGED hits
      BY <1>a, <1>7, <2>1 DEF DemoLogin
    <2>2. CASE Hit(DemoKey(ip))
      <3>1. /\ hits' \in [Windows -> Nat]
            /\ \A w \in Windows : hits'[w] \in {hits[w], hits[w] + 1}
        <4>1. hits' = [hits EXCEPT ![DemoKey(ip)] = hits[DemoKey(ip)] + 1]
          BY <2>2 DEF Hit
        <4>2. hits \in [Windows -> Nat] /\ DemoKey(ip) \in Windows
          BY <1>0 DEF CountersTyped, Windows
        <4> QED BY <4>1, <4>2
      <3>2. CountersTyped'
        BY <1>0, <1>1, <1>7, <3>1 DEF CountersTyped, voiceVars, DemoLogin
      <3>3. PICK pc : Turns(p, pc) /\ pc \notin MayHit
        <4>1. req[p].pc = "idle" /\ "idle" \notin MayHit /\ "mint" \notin MayHit
          BY <1>7 DEF DemoLogin, Idle, MayHit, Guesses
        <4> DEFINE r == [Idle EXCEPT !.pc = "mint", !.user = Demo]
        <4>2. r.pc = "mint"
          BY DEF Idle
        <4>3. req' = req \/ req' = [req EXCEPT ![p] = r]
          BY <1>7 DEF DemoLogin
        <4> HIDE DEF r
        <4> QED BY <4>1, <4>2, <4>3, TurnsTo
      <3>4. Balanced(p, pc)
        <4>1. calls \in Nat /\ calls' = calls + 1
          BY <1>0, <1>1
        <4>2. ASSUME NEW w \in Windows PROVE Paid(p, pc, MayHit, hits[w], hits'[w])
          <5>1. hits[w] \in Nat /\ hits'[w] \in Nat /\ hits'[w] <= hits[w] + 1
            BY <1>0, <3>1 DEF CountersTyped
          <5> QED BY <3>3, <4>1, <5>1, PaidFor
        <4>3. \A u \in Users : /\ paid[u] \in Nat /\ usage[u] \in Nat /\ unlogged[u] \in Nat
                               /\ paid' = paid /\ usage' = usage /\ unlogged' = unlogged
          BY <1>0, <1>1 DEF CountersTyped, voiceVars
        <4>4. minted' = minted /\ minted \in Nat /\ history' = history /\ history.untrimmed \in Nat
          BY <1>0, <1>7 DEF CountersTyped, Credit, DemoLogin
        <4>5. \A pcs : \A c \in Nat : Paid(p, pc, pcs, c, c)
          BY <4>1, PaidFor
        <4> QED BY <4>2, <4>3, <4>4, <4>5 DEF Balanced
      <3> QED BY <1>1, <1>2, <3>2, <3>3, <3>4, Balance
    <2> QED BY <1>7, <2>1, <2>2 DEF DemoLogin
  <1>8. CASE DemoRead(p)
    BY <1>a, <1>8 DEF DemoRead
  <1> QED BY <1>3, <1>4, <1>5, <1>6, <1>7, <1>8 DEF Requests, AccountRequest

\* A counter grows by at most one, and by none unless the request leaves the
\* places from which it may.
Grows(p, pc, pcs, before, after) ==
    \/ after <= before
    \/ after <= before + 1 /\ req[p].pc \in pcs /\ pc \notin pcs
\* The request comes to none of the places.
StaysOut(p, pc, pcs) == pc \notin pcs \/ req[p].pc \in pcs

(* A request that goes on or ends.                                            *)
LEMMA Moving ==
  ASSUME CountersOK, CountersTyped', calls' = calls, mix' = mix,
         NEW p \in Procs, NEW pc, Turns(p, pc),
         \A w \in Windows : Grows(p, pc, MayHit, hits[w], hits'[w]),
         Grows(p, pc, MayMint, minted, minted'),
         Grows(p, pc, MayLeave, history.untrimmed, history'.untrimmed),
         \A u \in Users : /\ Grows(p, pc, MayPay, paid[u], paid'[u])
                          /\ Grows(p, pc, MayBill, usage[u], usage'[u])
                          /\ Grows(p, pc, MayBill, unlogged[u], unlogged'[u]),
         /\ StaysOut(p, pc, MayHit) /\ StaysOut(p, pc, MayMint) /\ StaysOut(p, pc, MayLeave)
         /\ StaysOut(p, pc, MayPay) /\ StaysOut(p, pc, MayBill)
  PROVE  CountersOK'
  <1>0. CountersTyped /\ calls \in 0..MaxCalls /\ calls \in Nat
    BY AccountAssumption DEF CountersOK
  <1>1. ASSUME NEW pcs, StaysOut(p, pc, pcs), NEW before \in Nat, NEW after \in Nat,
               Grows(p, pc, pcs, before, after)
        PROVE  Paid(p, pc, pcs, before, after)
    BY <1>0, <1>1, PaidFor DEF StaysOut, Grows
  <1>2. \A w \in Windows : hits[w] \in Nat /\ hits'[w] \in Nat
    BY <1>0 DEF CountersTyped
  <1>3. \A u \in Users : /\ paid[u] \in Nat /\ usage[u] \in Nat /\ unlogged[u] \in Nat
                         /\ paid'[u] \in Nat /\ usage'[u] \in Nat /\ unlogged'[u] \in Nat
    BY <1>0 DEF CountersTyped
  <1>4. minted \in Nat /\ minted' \in Nat /\ history.untrimmed \in Nat /\ history'.untrimmed \in Nat
    BY <1>0 DEF CountersTyped, Credit
  <1>5. Balanced(p, pc)
    BY <1>1, <1>2, <1>3, <1>4 DEF Balanced
  <1> QED BY <1>0, <1>5, Balance

LEMMA WorkSpendsNothing ==
  ASSUME NEW p \in Procs, Work(p)
  PROVE  calls' = calls /\ mix' = mix
  BY DEF Work, AccountWork, ScheduleDeletion, CancelDeletion, UpdateSettings, RegisterDevice,
         UnregisterDevice, BotIssue, Discard, DiscardSkipped, LinkWork, LinkDone, LinkRedeem,
         LinkRefused, LinkAccepted, DiscordCommit, IssueToken, CapDemoTokens, DemoReset,
         DemoCommit, VoiceWork, VoiceQuota, Whisper, Bill

LEMMA CountersNat ==
  ASSUME CountersOK
  PROVE  /\ CountersTyped
         /\ \A w \in Windows : hits[w] \in Nat
         /\ minted \in Nat /\ history.untrimmed \in Nat
         /\ \A u \in Users : paid[u] \in Nat /\ usage[u] \in Nat /\ unlogged[u] \in Nat
  BY DEF CountersOK, CountersTyped, Credit

(* A request in a place that is not counted goes on to another.               *)
LEMMA MovesUncounted ==
  ASSUME CountersOK, history' \in Credit, calls' = calls, mix' = mix,
         NEW p \in Procs, NEW pc, Turns(p, pc), pc \notin Counting \/ pc = req[p].pc,
         UNCHANGED <<hits, minted>>, history'.untrimmed <= history.untrimmed,
         {usage', paid', unlogged'} \subseteq [Users -> Nat],
         \A u \in Users : /\ paid'[u] <= paid[u] /\ usage'[u] <= usage[u]
                          /\ unlogged'[u] <= unlogged[u]
  PROVE  CountersOK'
  <1>1. CountersTyped'
    BY CountersNat DEF CountersTyped
  <1>2. NoneGrows
    BY CountersNat DEF NoneGrows
  <1> QED BY <1>1, <1>2, Uncounted

(* A redemption takes a request from one counted place to another, or refuses *)
(* and counts the failure.                                                    *)
LEMMA RedemptionCounted ==
  ASSUME CountersOK, RequestsOK, history' \in Credit, NEW p \in Procs, calls' = calls, mix' = mix,
         UNCHANGED voiceVars,
         LinkRefused(p) \/ LinkAccepted(p) \/ \E c \in Codes : LinkRedeem(p, c)
  PROVE  CountersOK'
  <1>0. UNCHANGED <<paid, usage, unlogged, minted>> /\ history'.untrimmed = history.untrimmed
    BY DEF voiceVars, LinkRefused, LinkAccepted, LinkRedeem, CountersOK, CountersTyped, Credit
  <1>1. PICK pc \in {"idle", "mint", "redeeming"} :
          /\ Turns(p, pc)
          /\ \/ req[p].pc = "redeeming" /\ pc \in {"idle", "mint"}
             \/ req[p].pc = "redeem" /\ pc = "redeeming"
    <2>1. CASE LinkRefused(p)
      BY <2>1, TurnsTo DEF LinkRefused, At
    <2>2. CASE LinkAccepted(p)
      <3>1. Done(p) \/ req' = [req EXCEPT ![p].pc = "mint", ![p].user = link[p].user]
        BY <2>2 DEF LinkAccepted
      <3>2. req' = [req EXCEPT ![p].pc = "mint", ![p].user = link[p].user] => Turns(p, "mint")
        BY DEF RequestsOK, Request, Turns
      <3> QED BY <2>2, <3>1, <3>2, TurnsTo DEF LinkAccepted, At
    <2>3. ASSUME NEW c \in Codes, LinkRedeem(p, c)
          PROVE  Turns(p, "redeeming") /\ req[p].pc = "redeem"
      BY <2>3, TurnsTo DEF LinkRedeem, At
    <2> QED BY <2>1, <2>2, <2>3
  <1>2. /\ StaysOut(p, pc, MayHit) /\ StaysOut(p, pc, MayMint) /\ StaysOut(p, pc, MayLeave)
        /\ StaysOut(p, pc, MayPay) /\ StaysOut(p, pc, MayBill)
    BY <1>1 DEF StaysOut, MayHit, MayMint, MayLeave, MayPay, MayBill, Guesses
  <1>3. /\ hits' \in [Windows -> Nat]
        /\ \A w \in Windows : Grows(p, pc, MayHit, hits[w], hits'[w])
    <2>1. CASE hits' = hits
      BY <2>1, CountersNat DEF CountersTyped, Grows
    <2>2. CASE LinkRefused(p)
      <3>0. hits \in [Windows -> Nat] /\ IpKey(req[p].ip) # GlobalKey
        <4>1. Len(<<"ip", req[p].ip>>) = 2 /\ Len(<<"global">>) = 1
          OBVIOUS
        <4> QED BY <4>1, CountersNat DEF CountersTyped, IpKey, GlobalKey
      <3> DEFINE k == IpKey(req[p].ip)
                 g == GlobalKey
                 counted == [hits EXCEPT ![k] = @ + 1]
      <3>1. hits' \in {hits, counted, [counted EXCEPT ![g] = @ + 1]}
        BY <2>2 DEF LinkRefused
      <3> HIDE DEF k, g
      <3>2. /\ hits' \in [Windows -> Nat]
            /\ \A w \in Windows : hits'[w] \in {hits[w], hits[w] + 1}
        BY <3>0, <3>1 DEF k, g
      <3>3. req[p].pc \in MayHit /\ pc \notin MayHit
        <4>1. req[p].pc = "redeeming"
          BY <2>2 DEF LinkRefused, At
        <4> QED BY <1>1, <4>1 DEF MayHit, Guesses
      <3>4. \A w \in Windows : hits'[w] <= hits[w] + 1
        BY <3>0, <3>2
      <3> QED BY <3>2, <3>3, <3>4 DEF Grows
    <2> QED BY <2>1, <2>2 DEF LinkAccepted, LinkRedeem
  <1>4. CountersTyped'
    BY <1>0, <1>3, CountersNat DEF CountersTyped
  <1>5. \A pcs : \A c \in Nat : Grows(p, pc, pcs, c, c)
    BY DEF Grows
  <1> QED BY <1>0, <1>1, <1>2, <1>3, <1>4, <1>5, CountersNat, Moving

(* A login counts the token it commits.                                       *)
LEMMA LoginCounted ==
  ASSUME CountersOK, RequestsOK, history' = history, NEW p \in Procs, calls' = calls, mix' = mix,
         UNCHANGED voiceVars, DiscordCommit(p) \/ IssueToken(p)
  PROVE  CountersOK'
  <1>0. UNCHANGED <<paid, usage, unlogged, hits, history>> /\ minted' \in {minted, minted + 1}
    BY DEF voiceVars, DiscordCommit, IssueToken, Add
  <1>1. PICK pc : /\ Turns(p, pc)
                  /\ \/ req[p].pc = "discord" /\ pc = "idle"
                     \/ req[p].pc = "mint" /\ pc \in {"idle", "cap"}
    BY TurnsTo DEF DiscordCommit, IssueToken, At
  <1>2. /\ StaysOut(p, pc, MayHit) /\ StaysOut(p, pc, MayMint) /\ StaysOut(p, pc, MayLeave)
        /\ StaysOut(p, pc, MayPay) /\ StaysOut(p, pc, MayBill)
        /\ req[p].pc \in MayMint /\ pc \notin MayMint
    BY <1>1 DEF StaysOut, MayHit, MayMint, MayLeave, MayPay, MayBill, Guesses
  <1>3. minted' \in Nat /\ Grows(p, pc, MayMint, minted, minted')
    BY <1>0, <1>2, CountersNat DEF Grows
  <1>4. CountersTyped'
    BY <1>0, <1>3, CountersNat DEF CountersTyped
  <1>5. \A pcs : \A c \in Nat : Grows(p, pc, pcs, c, c)
    BY DEF Grows
  <1> QED BY <1>0, <1>1, <1>2, <1>3, <1>4, <1>5, CountersNat, Moving

(* A transcription counts its attempt, then its payment, then its row or that *)
(* it has none.                                                               *)
LEMMA VoiceCounted ==
  ASSUME CountersOK, RequestsOK, NEW p \in Procs, VoiceWork(p)
  PROVE  CountersOK'
  <1>0. /\ req[p].user \in Users
        /\ UNCHANGED <<minted, history, calls, mix>>
        /\ CountersTyped
        /\ \A pcs : \A pc : \A c \in Nat : Grows(p, pc, pcs, c, c)
    BY CountersNat DEF VoiceWork, VoiceQuota, Whisper, Bill, At, RequestsOK, NoUserYet, Grows
  <1> DEFINE u == req[p].user
  <1> HIDE DEF u
  <1>u. u \in Users
    BY <1>0 DEF u
  <1>1. CASE VoiceQuota(p)
    <2>0. UNCHANGED <<usage, paid, unlogged>> /\ req[p].pc = "transcribe"
      BY <1>1 DEF VoiceQuota, voiceVars, At
    <2>1. PICK pc \in {"idle", "whisper"} : Turns(p, pc)
      BY <1>1, TurnsTo DEF VoiceQuota
    <2>2. hits' = hits \/ Hit(VoiceKey(u))
      BY <1>1 DEF VoiceQuota, u
    <2>3. VoiceKey(u) \in Windows
      BY <1>u DEF Windows
    <2>4. hits' \in [Windows -> Nat] /\ \A w \in Windows : hits'[w] <= hits[w] + 1
      BY <1>0, <2>2, <2>3 DEF CountersTyped, Hit
    <2>5. /\ StaysOut(p, pc, MayHit) /\ StaysOut(p, pc, MayMint) /\ StaysOut(p, pc, MayLeave)
          /\ StaysOut(p, pc, MayPay) /\ StaysOut(p, pc, MayBill)
          /\ req[p].pc \in MayHit /\ pc \notin MayHit
      BY <2>0, <2>1 DEF StaysOut, MayHit, MayMint, MayLeave, MayPay, MayBill, Guesses
    <2>6. CountersTyped' /\ \A w \in Windows : Grows(p, pc, MayHit, hits[w], hits'[w])
      BY <1>0, <2>0, <2>4, <2>5 DEF CountersTyped, Grows
    <2> QED BY <1>0, <2>0, <2>1, <2>5, <2>6, CountersNat, Moving
  <1>2. CASE Whisper(p)
    <2>0. UNCHANGED <<usage, unlogged, hits>> /\ req[p].pc = "whisper"
      BY <1>2 DEF Whisper, At
    <2>1. PICK pc \in {"idle", "bill"} : Turns(p, pc)
      BY <1>2, TurnsTo DEF Whisper
    <2>2. paid' = paid \/ paid' = [paid EXCEPT ![u] = @ + 1]
      BY <1>2 DEF Whisper, u
    <2>3. paid' \in [Users -> Nat] /\ \A v \in Users : paid'[v] <= paid[v] + 1
      BY <1>0, <1>u, <2>2 DEF CountersTyped
    <2>5. /\ StaysOut(p, pc, MayHit) /\ StaysOut(p, pc, MayMint) /\ StaysOut(p, pc, MayLeave)
          /\ StaysOut(p, pc, MayPay) /\ StaysOut(p, pc, MayBill)
          /\ req[p].pc \in MayPay /\ pc \notin MayPay
      BY <2>0, <2>1 DEF StaysOut, MayHit, MayMint, MayLeave, MayPay, MayBill, Guesses
    <2>6. CountersTyped' /\ \A v \in Users : Grows(p, pc, MayPay, paid[v], paid'[v])
      BY <1>0, <2>0, <2>3, <2>5 DEF CountersTyped, Grows
    <2> QED BY <1>0, <2>0, <2>1, <2>5, <2>6, CountersNat, Moving
  <1>3. CASE Bill(p)
    <2>0. UNCHANGED <<paid, hits>> /\ req[p].pc = "bill" /\ Turns(p, "idle")
      BY <1>3, TurnsTo DEF Bill, At
    <2>1. \/ usage' = [usage EXCEPT ![u] = @ + 1] /\ unlogged' = unlogged
          \/ unlogged' = [unlogged EXCEPT ![u] = @ + 1] /\ usage' = usage
      BY <1>3 DEF Bill, u
    <2>2. /\ usage' \in [Users -> Nat] /\ \A v \in Users : usage'[v] <= usage[v] + 1
          /\ unlogged' \in [Users -> Nat] /\ \A v \in Users : unlogged'[v] <= unlogged[v] + 1
      BY <1>0, <1>u, <2>1 DEF CountersTyped
    <2>5. /\ StaysOut(p, "idle", MayHit) /\ StaysOut(p, "idle", MayMint) /\ StaysOut(p, "idle", MayLeave)
          /\ StaysOut(p, "idle", MayPay) /\ StaysOut(p, "idle", MayBill)
          /\ req[p].pc \in MayBill /\ "idle" \notin MayBill
      BY <2>0 DEF StaysOut, MayHit, MayMint, MayLeave, MayPay, MayBill, Guesses
    <2>6. /\ CountersTyped'
          /\ \A v \in Users : /\ Grows(p, "idle", MayBill, usage[v], usage'[v])
                              /\ Grows(p, "idle", MayBill, unlogged[v], unlogged'[v])
      BY <1>0, <2>0, <2>2, <2>5 DEF CountersTyped, Grows
    <2> QED BY <1>0, <2>0, <2>5, <2>6, CountersNat, Moving
  <1> QED BY <1>1, <1>2, <1>3 DEF VoiceWork

(* A request that dies before its trim or its row is counted as without one.  *)
LEMMA LossCounted ==
  ASSUME CountersOK, RequestsOK, NEW p \in Procs, Lost(p)
  PROVE  CountersOK'
  <1>0. /\ UNCHANGED <<minted, hits, usage, paid, calls, mix>>
        /\ CountersTyped /\ Turns(p, "idle")
        /\ \A pcs : \A c \in Nat : Grows(p, "idle", pcs, c, c)
    BY CountersNat, TurnsTo DEF Lost, RequestLost, VoiceLost, voiceVars, Grows
  <1>1. /\ StaysOut(p, "idle", MayHit) /\ StaysOut(p, "idle", MayMint) /\ StaysOut(p, "idle", MayLeave)
        /\ StaysOut(p, "idle", MayPay) /\ StaysOut(p, "idle", MayBill)
        /\ "cap" \in MayLeave /\ "idle" \notin MayLeave
        /\ "bill" \in MayBill /\ "idle" \notin MayBill
    BY DEF StaysOut, MayHit, MayMint, MayLeave, MayPay, MayBill, Guesses
  <1>2. history' \in Credit /\ Grows(p, "idle", MayLeave, history.untrimmed, history'.untrimmed)
    <2>1. CASE At(p, "cap")
      <3>1. history' = [history EXCEPT !.untrimmed = @ + 1]
        BY <2>1 DEF Lost, RequestLost
      <3> QED BY <1>0, <1>1, <2>1, <3>1 DEF CountersTyped, Credit, Grows, At
    <2>2. CASE ~At(p, "cap")
      BY <1>0, <2>2, CountersNat DEF Lost, RequestLost, CountersTyped
    <2> QED BY <2>1, <2>2
  <1>3. /\ unlogged' \in [Users -> Nat]
        /\ \A v \in Users : Grows(p, "idle", MayBill, unlogged[v], unlogged'[v])
    <2>1. CASE At(p, "bill")
      <3>1. unlogged' = [unlogged EXCEPT ![req[p].user] = @ + 1] /\ req[p].user \in Users
        BY <2>1 DEF Lost, VoiceLost, At, RequestsOK, NoUserYet
      <3>2. unlogged' \in [Users -> Nat] /\ \A v \in Users : unlogged'[v] <= unlogged[v] + 1
        BY <1>0, <3>1 DEF CountersTyped
      <3> QED BY <1>1, <2>1, <3>2 DEF Grows, At
    <2>2. CASE ~At(p, "bill")
      BY <1>0, <2>2, CountersNat DEF Lost, VoiceLost, voiceVars, CountersTyped
    <2> QED BY <2>1, <2>2
  <1>4. CountersTyped'
    BY <1>0, <1>2, <1>3 DEF CountersTyped
  <1> QED BY <1>0, <1>1, <1>2, <1>3, <1>4, CountersNat, Moving

LEMMA WorkCounted ==
  ASSUME CountersOK, RequestsOK, history' \in Credit, NEW p \in Procs, Work(p)
  PROVE  CountersOK'
  <1>0. calls' = calls /\ mix' = mix /\ CountersTyped
    BY WorkSpendsNothing, CountersNat
  <1>1. {"idle", "discard", "linking"} \cap Counting = {}
    BY DEF Counting, Guesses
  <1>2. /\ Done(p) => Turns(p, "idle")
        /\ \A pc : Goto(p, pc) => Turns(p, pc)
        /\ UNCHANGED req => Turns(p, req[p].pc)
    BY TurnsTo
  <1>a. ASSUME \/ UNCHANGED req \/ Done(p) \/ Goto(p, "discard") \/ Goto(p, "linking"),
               UNCHANGED <<hits, minted>>, history'.untrimmed <= history.untrimmed,
               {usage', paid', unlogged'} \subseteq [Users -> Nat],
               \A u \in Users : /\ paid'[u] <= paid[u] /\ usage'[u] <= usage[u]
                                /\ unlogged'[u] <= unlogged[u]
        PROVE  CountersOK'
    <2>1. PICK pc : Turns(p, pc) /\ (pc \notin Counting \/ pc = req[p].pc)
      BY <1>1, <1>2, <1>a
    <2> QED BY <1>0, <1>a, <2>1, MovesUncounted
  <1>b. ASSUME \/ UNCHANGED req \/ Done(p) \/ Goto(p, "discard") \/ Goto(p, "linking"),
               UNCHANGED <<hits, minted>>, history'.untrimmed <= history.untrimmed,
               UNCHANGED voiceVars
        PROVE  CountersOK'
    BY <1>0, <1>a, <1>b, CountersNat DEF voiceVars, CountersTyped
  <1>c. history' = history => history'.untrimmed <= history.untrimmed
    BY CountersNat
  <1>3. CASE AccountWork(p) /\ UNCHANGED voiceVars
    <2>1. CASE \/ ScheduleDeletion(p) \/ CancelDeletion(p) \/ UpdateSettings(p)
               \/ \E d \in Devices : RegisterDevice(p, d) \/ UnregisterDevice(p, d)
               \/ BotIssue(p) \/ Discard(p) \/ DiscardSkipped(p) \/ LinkDone(p)
      <3>1. UNCHANGED <<hits, minted, history>>
        BY <2>1 DEF ScheduleDeletion, CancelDeletion, UpdateSettings, RegisterDevice,
                    UnregisterDevice, BotIssue, Discard, DiscardSkipped, LinkDone
      <3>2. Done(p) \/ Goto(p, "discard") \/ Goto(p, "linking")
        BY <2>1 DEF ScheduleDeletion, CancelDeletion, UpdateSettings, RegisterDevice,
                    UnregisterDevice, BotIssue, Discard, DiscardSkipped, LinkDone
      <3> QED BY <1>3, <1>b, <1>c, <3>1, <3>2
    <2>2. CASE LinkWork(p)
      <3>1. UNCHANGED <<hits, minted, req>> /\ history'.untrimmed = history.untrimmed
        BY <1>0, <2>2 DEF LinkWork, CountersTyped, Credit
      <3> QED BY <1>3, <1>b, <3>1, CountersNat
    <2>3. CASE CapDemoTokens(p)
      <3>1. UNCHANGED <<hits, minted>> /\ Done(p) /\ history'.untrimmed = 0
        BY <1>0, <2>3 DEF CapDemoTokens, CountersTyped, Credit
      <3> QED BY <1>3, <1>b, <3>1, CountersNat
    <2>4. CASE LinkRefused(p) \/ LinkAccepted(p) \/ \E c \in Codes : LinkRedeem(p, c)
      BY <1>0, <1>3, <2>4, RedemptionCounted
    <2>5. CASE DiscordCommit(p) \/ IssueToken(p)
      <3>1. history' = history
        BY <2>5 DEF DiscordCommit, IssueToken
      <3> QED BY <1>0, <1>3, <2>5, <3>1, LoginCounted
    <2> QED BY <1>3, <2>1, <2>2, <2>3, <2>4, <2>5 DEF AccountWork
  <1>4. CASE DemoReset(p)
    <2>1. UNCHANGED <<hits, minted, history>> /\ Done(p)
      BY <1>4 DEF DemoReset, DemoCommit
    <2>2. /\ {usage', paid', unlogged'} \subseteq [Users -> Nat]
          /\ \A u \in Users : /\ paid'[u] <= paid[u] /\ usage'[u] <= usage[u]
                              /\ unlogged'[u] <= unlogged[u]
      BY <1>0, <1>4, CountersNat DEF DemoReset, VoiceErased, Cleared, CountersTyped
    <2> QED BY <1>a, <1>c, <2>1, <2>2
  <1>5. CASE VoiceWork(p)
    BY <1>5, VoiceCounted
  <1> QED BY <1>3, <1>4, <1>5 DEF Work

(* Every step keeps the counters within the requests begun.                   *)
LEMMA CountersInv ==
  ASSUME CountersOK, RequestsOK, history' \in Credit, [Next]_serviceVars
  PROVE  CountersOK'
  <1>0. CountersTyped
    BY CountersNat
  <1>1. PICK p \in Procs : TRUE
    BY AccountAssumption
  <1>a. ASSUME UNCHANGED <<req, minted, history, mix>>,
               \/ calls' = calls
               \/ calls' = calls + 1 /\ calls < MaxCalls,
               hits' \in [Windows -> Nat], \A w \in Windows : hits'[w] <= hits[w],
               {usage', paid', unlogged'} \subseteq [Users -> Nat],
               \A u \in Users : /\ paid'[u] <= paid[u] /\ usage'[u] <= usage[u]
                                /\ unlogged'[u] <= unlogged[u]
        PROVE  CountersOK'
    <2>1. Turns(p, req[p].pc)
      BY <1>a, TurnsTo
    <2>2. CountersTyped'
      BY <1>0, <1>a DEF CountersTyped
    <2>3. NoneGrows
      BY <1>a, CountersNat DEF NoneGrows
    <2> QED BY <1>a, <2>1, <2>2, <2>3, Uncounted
  <1>b. ASSUME UNCHANGED <<req, minted, history, mix, hits, voiceVars>>,
               \/ calls' = calls
               \/ calls' = calls + 1 /\ calls < MaxCalls
        PROVE  CountersOK'
    BY <1>0, <1>a, <1>b, CountersNat DEF CountersTyped, voiceVars
  <1>2. CASE UNCHANGED serviceVars
    BY <1>2, <1>b DEF serviceVars, accountVars
  <1>3. ASSUME NEW q \in Procs, Requests(q) \/ Work(q) \/ Lost(q) PROVE CountersOK'
    BY <1>3, RequestCounted, WorkCounted, LossCounted
  <1>4. ASSUME NEW w \in Workers, Report(w) PROVE CountersOK'
    <2>1. /\ UNCHANGED <<req, minted, history, mix, hits, voiceVars>>
          /\ calls' = calls \/ (calls' = calls + 1 /\ calls < MaxCalls)
      BY <1>4 DEF Report, ReportStart, ReportWork, ReportAcquire, ReportCount, ReportSend,
                  ReportCommit, ReportRaises, ReportLost, accountVars, Spend
    <2> QED BY <1>b, <2>1
  <1>5. CASE Outside
    <2>1. /\ UNCHANGED <<req, minted, history, mix, voiceVars>>
          /\ calls' = calls \/ (calls' = calls + 1 /\ calls < MaxCalls)
          /\ hits' = hits \/ \E w \in Windows : hits' = [hits EXCEPT ![w] = 0]
      BY <1>5 DEF Outside, Environment, AppLogout, SweepDevices, WindowEnds, KeyExpires,
                  DedupExpires, accountVars, Spend
    <2>2. hits' \in [Windows -> Nat] /\ \A w \in Windows : hits'[w] <= hits[w]
      BY <1>0, <2>1, CountersNat DEF CountersTyped
    <2> QED BY <1>0, <1>a, <2>1, <2>2, CountersNat DEF CountersTyped, voiceVars
  <1>6. CASE Purge \/ NewDay
    <2>1. UNCHANGED <<req, minted, history, mix, hits, calls>>
      BY <1>6 DEF Purge, PurgeAccounts, NewDay, Tick
    <2>2. /\ {usage', paid', unlogged'} \subseteq [Users -> Nat]
          /\ \A u \in Users : /\ paid'[u] <= paid[u] /\ usage'[u] <= usage[u]
                              /\ unlogged'[u] <= unlogged[u]
      <3>1. CASE Purge
        BY <1>0, <3>1, CountersNat DEF Purge, VoiceErased, Cleared, CountersTyped
      <3>2. CASE NewDay
        BY <1>0, <3>2, CountersNat DEF NewDay, CountersTyped
      <3> QED BY <1>6, <3>1, <3>2
    <2>3. hits' \in [Windows -> Nat] /\ \A w \in Windows : hits'[w] <= hits[w]
      BY <1>0, <2>1, CountersNat DEF CountersTyped
    <2> QED BY <1>a, <2>1, <2>2, <2>3
  <1> QED BY <1>2, <1>3, <1>4, <1>5, <1>6 DEF Next

(* The devices. *)
LEMMA DevicesInv ==
  ASSUME RequestsOK, devices \in [Devices -> Token], [Next]_serviceVars
  PROVE  devices' \in [Devices -> Token]
  <1> NoToken \in Token /\ NoDevice \in Token
    BY DEF NoDevice, NoToken, Token
  <1>0. now \in Days
    BY DEF RequestsOK
  <1>a. \A lost : Without(devices, lost) \in [Devices -> Token]
    BY DEF Without
  <1>1. CASE UNCHANGED serviceVars
    BY <1>1 DEF serviceVars, accountVars
  <1>2. ASSUME NEW p \in Procs, Requests(p) PROVE devices' = devices
    BY <1>2 DEF Requests, AccountRequest, Authenticate, BotLogin, BotLogout, DiscordLogin,
                DevLogin, LinkLogin, DemoLogin, DemoRead
  <1>3. ASSUME NEW p \in Procs, Work(p) PROVE devices' \in [Devices -> Token]
    <2>1. CASE ScheduleDeletion(p)
      BY <2>1, <1>a DEF ScheduleDeletion
    <2>2. CASE DemoReset(p)
      BY <2>2, <1>a DEF DemoReset, DemoCommit
    <2>3. ASSUME NEW d \in Devices, RegisterDevice(p, d) PROVE devices' \in [Devices -> Token]
      <3>1. req[p].user \in Users
        BY <2>3 DEF RegisterDevice, At, RequestsOK, NoUserYet
      <3>2. [user |-> req[p].user, active |-> now] \in Token
        BY <1>0, <3>1 DEF Token
      <3> QED BY <2>3, <3>2 DEF RegisterDevice
    <2>4. ASSUME NEW d \in Devices, UnregisterDevice(p, d) PROVE devices' \in [Devices -> Token]
      BY <2>4 DEF UnregisterDevice
    <2>5. CASE \/ CancelDeletion(p) \/ UpdateSettings(p)
               \/ BotIssue(p) \/ Discard(p) \/ DiscardSkipped(p) \/ LinkWork(p) \/ LinkDone(p)
               \/ \E c \in Codes : LinkRedeem(p, c)
               \/ LinkRefused(p) \/ LinkAccepted(p)
               \/ DiscordCommit(p) \/ IssueToken(p) \/ CapDemoTokens(p)
      BY <2>5 DEF CancelDeletion, UpdateSettings, BotIssue, Discard, DiscardSkipped,
                  LinkWork, LinkDone, LinkRedeem, LinkRefused, LinkAccepted,
                  DiscordCommit, IssueToken, CapDemoTokens
    <2>6. CASE VoiceWork(p)
      BY <2>6 DEF VoiceWork, VoiceQuota, Whisper, Bill
    <2> QED BY <1>3, <2>1, <2>2, <2>3, <2>4, <2>5, <2>6 DEF Work, AccountWork
  <1>4. ASSUME NEW p \in Procs, Lost(p) PROVE devices' = devices
    BY <1>4 DEF Lost, RequestLost
  <1>5. ASSUME NEW w \in Workers, Report(w) PROVE devices' \in [Devices -> Token]
    <2>1. CASE ReportCommit(w)
      <3>1. \A d \in Devices : [devices[d] EXCEPT !.active = now] \in Token
        BY <1>0 DEF Token
      <3> QED BY <2>1, <3>1 DEF ReportCommit
    <2>2. CASE ReportStart(w)
      BY <2>2 DEF ReportStart
    <2>3. CASE \/ \E u \in Users : ReportAcquire(w, u)
               \/ ReportCount(w) \/ ReportSend(w) \/ ReportRaises(w) \/ ReportLost(w)
      BY <2>3 DEF ReportAcquire, ReportCount, ReportSend, ReportRaises, ReportLost, accountVars
    <2> QED BY <1>5, <2>1, <2>2, <2>3 DEF Report, ReportWork
  <1>6. CASE Outside
    BY <1>6 DEF Outside, Environment, AppLogout, SweepDevices, WindowEnds, KeyExpires,
                DedupExpires, accountVars
  <1>7. CASE Purge \/ NewDay
    BY <1>7, <1>a DEF Purge, PurgeAccounts, NewDay, Tick
  <1> QED BY <1>1, <1>2, <1>3, <1>4, <1>5, <1>6, <1>7 DEF Next

LEMMA TypesFollow ==
  ASSUME IInv, CountersOK, CreditOK, TypesOK, devices \in [Devices -> Token]
  PROVE  TypeOK
  <1>0. /\ calls \in 0..MaxCalls /\ MaxCalls \in Nat /\ Len(LoggedIn) \in Nat /\ CountersTyped
        /\ \A pcs : Cardinality(Inside(pcs)) \in Nat
    BY AccountAssumption, InsideCounted DEF CountersOK
  <1>1. hits \in [Windows -> 0..MaxCalls]
    <2>1. \A w \in Windows : hits[w] \in 0..MaxCalls
      BY <1>0 DEF CountersOK, CountersTyped, Covered
    <2> QED BY <1>0, <2>1 DEF CountersTyped
  <1>2. minted \in {0} \cup TokenIds
    BY <1>0 DEF CountersOK, CountersTyped, Covered, TokenIds
  <1>3. history \in [credit : [Users -> Int], untrimmed : 0..MaxCalls]
    <2>1. history \in Credit /\ history.untrimmed \in 0..MaxCalls
      BY <1>0 DEF CountersOK, CountersTyped, Covered, Credit
    <2> QED BY <2>1 DEF Credit
  <1>4. {usage, paid, unlogged} \subseteq [Users -> 0..MaxCalls]
    <2>1. \A u \in Users : /\ usage[u] \in 0..MaxCalls /\ paid[u] \in 0..MaxCalls
                           /\ unlogged[u] \in 0..MaxCalls
      BY <1>0 DEF CountersOK, CountersTyped, Covered
    <2> QED BY <1>0, <2>1 DEF CountersTyped
  <1>5. LinkTypeOK
    BY DEF IInv, LinkInv
  <1>6. \A u \in Users : \A k \in DOMAIN trail[u] : trail[u][k] \in Event
    BY DEF IInv, StoriesOK
  <1>7. AccountTypeOK
    BY <1>0, <1>1, <1>2, <1>3, <1>5, <1>6
       DEF AccountTypeOK, IInv, RequestsOK, StoriesOK, CountersOK
  <1>8. ReportTypeOK
    BY DEF ReportTypeOK, TypesOK, Outcome
  <1> QED BY <1>4, <1>7, <1>8 DEF TypeOK, VoiceTypeOK

(* Every variable of the service keeps its type; what is not shape in this is *)
(* that no counter outgrows the requests begun, whichever requests die, are   *)
(* counted twice or meet a reset (_incr_window, the voice_usage rows, the     *)
(* sequence of user_auth_tokens).                                             *)
THEOREM ServiceTyped == Spec => []TypeOK
  <1> DEFINE Typed == CountersOK /\ devices \in [Devices -> Token]
  <1>1. Init => Typed
    <2> SUFFICES ASSUME Init PROVE Typed
      OBVIOUS
    <2>1. /\ hits = [w \in Windows |-> 0] /\ minted = Len(LoggedIn) /\ calls = 0 /\ mix \in Mixes
          /\ history = [credit |-> [u \in Users |-> 0], untrimmed |-> 0]
          /\ usage = [u \in Users |-> 0] /\ paid = usage /\ unlogged = usage
      BY DEF Init, AccountInit, VoiceInit
    <2>2. /\ CountersTyped /\ history.untrimmed = 0 /\ Len(LoggedIn) \in Nat
          /\ calls \in 0..MaxCalls
      BY <2>1, AccountAssumption DEF CountersTyped, Credit
    <2>3. \A p \in Procs : req[p].pc = "idle"
      BY DEF Init, AccountInit, Idle
    <2>4. ASSUME NEW pcs, "idle" \notin pcs PROVE Cardinality(Inside(pcs)) = 0
      <3>1. Inside(pcs) = {}
        BY <2>3, <2>4 DEF Inside
      <3> QED BY <3>1, FS_EmptySet
    <2>5. /\ "idle" \notin MayHit /\ "idle" \notin MayMint /\ "idle" \notin MayLeave
          /\ "idle" \notin MayPay /\ "idle" \notin MayBill
      BY DEF MayHit, MayMint, MayLeave, MayPay, MayBill, Guesses
    <2>6. CountersOK
      BY <2>1, <2>2, <2>4, <2>5 DEF CountersOK, Covered
    <2>7. [user |-> LoggedIn[1], active |-> 1] \in Token
      <3>1. 1 \in DOMAIN LoggedIn /\ 1 \in Days
        BY AccountAssumption DEF Days
      <3>2. LoggedIn[1] \in Users
        BY <3>1, AccountAssumption
      <3> QED BY <3>1, <3>2 DEF Token
    <2>8. devices \in [Devices -> Token]
      BY <2>7 DEF Init, AccountInit
    <2> QED BY <2>6, <2>8
  <1>2. IInv /\ CreditOK' /\ Typed /\ [Next]_serviceVars => Typed'
    <2>1. CreditOK' => history' \in Credit
      BY DEF CreditOK, Credit
    <2> QED BY <2>1, CountersInv, DevicesInv DEF IInv
  <1>3. IInv /\ CreditOK /\ ReportInv /\ Typed => TypeOK
    BY TypesFollow DEF ReportInv
  <1> QED BY <1>1, <1>2, <1>3, ServiceInvariant, CreditAlways, ReportInvariant, PTL DEF Spec
=============================================================================
