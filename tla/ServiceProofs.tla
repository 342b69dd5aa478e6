---------------------------- MODULE ServiceProofs ----------------------------
(* The safety of the account side for every instance of its constants.  Each  *)
(* property is about the variables of one component, so the inductive         *)
(* invariant is a conjunct for each, and every conjunct has a lemma for the   *)
(* steps that write its variables and one for those that do not.              *)
EXTENDS Service, LinkCodesProofs, FiniteSetTheorems, SequenceTheorems

-----------------------------------------------------------------------------
(* The inductive invariant. *)

\* A request past its authentication or its redemption has a user.
NoUserYet == {"idle", "redeem", "redeeming"}

RequestsOK ==
    /\ now \in Days
    /\ tokens \in [TokenIds -> Token]
    /\ req \in [Procs -> Request]
    /\ \A p \in Procs : req[p].pc \notin NoUserYet => req[p].user \in Users
    /\ \A p \in Procs : link[p].pc = "redeemed" => link[p].user \in Users

\* An account and its trail tell the same story, and a row that is gone has
\* none of it left.
Story(a, s) ==
    /\ ~a.exists => a.purgeAt = Never
    /\ a.purgeAt # Never <=> s # <<>> /\ s[Len(s)].event = "requested"
    /\ a.purgeAt # Never => a.purgeAt = s[Len(s)].purgeAt

StoriesOK ==
    /\ users \in [Users -> Account]
    /\ trail \in [Users -> Seq(Event)]
    /\ \A u \in Users : Story(users[u], trail[u])

IInv == LinkInv /\ RequestsOK /\ StoriesOK

-----------------------------------------------------------------------------
(* What each group of steps leaves alone. *)

(* The weekly report and its sends write no account and no code.              *)
LEMMA ReportFrame ==
  ASSUME NEW w \in Workers, Report(w)
  PROVE  UNCHANGED <<users, tokens, trail, now, req, linkVars, voiceVars>>
  <1>1. CASE ReportStart(w)
    BY <1>1 DEF Report, ReportStart
  <1>2. CASE ReportCommit(w)
    BY <1>2 DEF Report, ReportCommit
  <1>3. CASE \/ \E u \in Users : ReportAcquire(w, u)
             \/ ReportCount(w) \/ ReportSend(w) \/ ReportRaises(w) \/ ReportLost(w)
    BY <1>3 DEF Report, ReportAcquire, ReportCount, ReportSend, ReportRaises, ReportLost,
                accountVars
  <1> QED BY <1>1, <1>2, <1>3 DEF Report, ReportWork

(* A request begins without touching the codes.                               *)
LEMMA RequestsLeaveLink ==
  ASSUME NEW p \in Procs, Requests(p)
  PROVE  UNCHANGED linkVars
  BY DEF Requests, AccountRequest, Authenticate, BotLogin, BotLogout, DiscordLogin,
         DevLogin, LinkLogin, DemoLogin, DemoRead

(* The transcription writes no account and no code.                           *)
LEMMA VoiceFrame ==
  ASSUME NEW p \in Procs, VoiceWork(p)
  PROVE  UNCHANGED <<users, tokens, trail, now, linkVars>>
  BY DEF VoiceWork, VoiceQuota, Whisper, Bill

(* The steps of a process that write neither the codes nor a call.            *)
Quiet(p) ==
    \/ ScheduleDeletion(p) \/ CancelDeletion(p) \/ UpdateSettings(p)
    \/ \E d \in Devices : RegisterDevice(p, d) \/ UnregisterDevice(p, d)
    \/ DiscardSkipped(p) \/ DiscordCommit(p) \/ IssueToken(p) \/ CapDemoTokens(p)
    \/ DemoCommit(p)

LEMMA QuietLeavesLink ==
  ASSUME NEW p \in Procs, Quiet(p)
  PROVE  UNCHANGED linkVars
  BY DEF Quiet, ScheduleDeletion, CancelDeletion, UpdateSettings, RegisterDevice,
         UnregisterDevice, DiscardSkipped, DiscordCommit, IssueToken, CapDemoTokens,
         DemoCommit

-----------------------------------------------------------------------------
(* Service implements LinkCodes: whatever calls issue_code, redeem_code and   *)
(* discard_pending_code does it one Redis command at a time.                  *)

LEMMA WorkIsLinkStep ==
  ASSUME RequestsOK, NEW p \in Procs, Work(p)
  PROVE  [LinkNext]_linkVars
  <1>1. CASE BotIssue(p)
    <2>1. req[p].user \in Users
      BY <1>1 DEF BotIssue, At, RequestsOK, NoUserYet
    <2> QED BY <1>1, <2>1 DEF BotIssue, LinkNext
  <1>2. CASE Discard(p)
    <2>1. req[p].user \in Users
      BY <1>2 DEF Discard, At, RequestsOK, NoUserYet
    <2> QED BY <1>2, <2>1 DEF Discard, LinkNext
  <1>3. CASE LinkWork(p)
    BY <1>3 DEF LinkWork, LinkNext
  <1>4. CASE LinkDone(p) \/ LinkRefused(p) \/ LinkAccepted(p)
    BY <1>4 DEF LinkDone, LinkRefused, LinkAccepted, LinkNext
  <1>5. ASSUME NEW c \in Codes, LinkRedeem(p, c) PROVE [LinkNext]_linkVars
    BY <1>5 DEF LinkRedeem, LinkNext
  <1>6. CASE Quiet(p)
    BY <1>6, QuietLeavesLink
  <1>7. CASE VoiceWork(p)
    BY <1>7, VoiceFrame
  <1> QED BY <1>1, <1>2, <1>3, <1>4, <1>5, <1>6, <1>7
          DEF Work, AccountWork, DemoReset, Quiet

LEMMA StepIsLinkStep == RequestsOK /\ [Next]_serviceVars => [LinkNext]_linkVars
  <1> SUFFICES ASSUME RequestsOK, [Next]_serviceVars PROVE [LinkNext]_linkVars
    OBVIOUS
  <1>1. CASE UNCHANGED serviceVars
    BY <1>1 DEF serviceVars, accountVars, linkVars
  <1>2. ASSUME NEW p \in Procs, Requests(p) \/ Work(p) \/ Lost(p)
        PROVE  [LinkNext]_linkVars
    <2>1. CASE Lost(p)
      BY <2>1 DEF Lost, RequestLost
    <2> QED BY <1>2, <2>1, RequestsLeaveLink, WorkIsLinkStep
  <1>3. ASSUME NEW w \in Workers, Report(w) PROVE [LinkNext]_linkVars
    BY <1>3, ReportFrame
  <1>4. CASE Outside
    BY <1>4 DEF Outside, Environment, AppLogout, SweepDevices, WindowEnds, KeyExpires,
                DedupExpires, accountVars, LinkNext
  <1>5. CASE Purge \/ NewDay
    BY <1>5 DEF Purge, PurgeAccounts, NewDay, Tick
  <1> QED BY <1>1, <1>2, <1>3, <1>4, <1>5 DEF Next

-----------------------------------------------------------------------------
(* Requests and what they remember. *)

\* The effect of a step on the request of one process: none, finished, moved
\* on, or begun for a user.
Finishes(p) == req' = [req EXCEPT ![p] = Idle]
Moves(p) ==
    \E pc \in RequestPcs :
        /\ req' = [req EXCEPT ![p].pc = pc]
        /\ pc \notin NoUserYet => req[p].user \in Users
Begins(p) ==
    \E r \in Request :
        /\ req' = [req EXCEPT ![p] = r]
        /\ r.pc \notin NoUserYet => r.user \in Users

LEMMA RequestStep ==
  ASSUME RequestsOK, NEW p \in Procs,
         UNCHANGED req \/ Finishes(p) \/ Moves(p) \/ Begins(p)
  PROVE  /\ req' \in [Procs -> Request]
         /\ \A q \in Procs : req'[q].pc \notin NoUserYet => req'[q].user \in Users
  <1>0. /\ req \in [Procs -> Request]
        /\ \A q \in Procs : req[q].pc \notin NoUserYet => req[q].user \in Users
    BY DEF RequestsOK
  <1>1. ASSUME NEW r \in Request, req' = [req EXCEPT ![p] = r],
               r.pc \notin NoUserYet => r.user \in Users
        PROVE  /\ req' \in [Procs -> Request]
               /\ \A q \in Procs : req'[q].pc \notin NoUserYet => req'[q].user \in Users
    BY <1>0, <1>1
  <1>2. CASE UNCHANGED req
    BY <1>0, <1>2
  <1>3. CASE Finishes(p)
    <2>1. Idle \in Request /\ Idle.pc \in NoUserYet
      BY DEF Idle, Request, RequestPcs, NoUserYet
    <2> QED BY <1>1, <1>3, <2>1 DEF Finishes
  <1>4. CASE Moves(p)
    <2>1. PICK pc \in RequestPcs : /\ req' = [req EXCEPT ![p].pc = pc]
                                   /\ pc \notin NoUserYet => req[p].user \in Users
      BY <1>4 DEF Moves
    <2>2. req' \in [Procs -> Request] /\ req'[p].pc = pc /\ req'[p].user = req[p].user
      BY <1>0, <2>1 DEF Request
    <2>3. \A q \in Procs : q # p => req'[q] = req[q]
      BY <1>0, <2>1
    <2> QED BY <1>0, <2>1, <2>2, <2>3
  <1>5. CASE Begins(p)
    BY <1>1, <1>5 DEF Begins
  <1> QED BY <1>2, <1>3, <1>4, <1>5

\* The effect of a step on the tokens: some removed, some stamped, one minted.
TokensStep ==
    \/ UNCHANGED tokens
    \/ \E lost \in SUBSET Users : tokens' = Without(tokens, lost)
    \/ \E lost \in SUBSET TokenIds :
           tokens' = [i \in TokenIds |-> IF i \in lost THEN NoToken ELSE tokens[i]]
    \/ \E i \in TokenIds : tokens' = [tokens EXCEPT ![i] = NoToken]
    \/ \E i \in TokenIds : tokens' = [tokens EXCEPT ![i].active = now]
    \/ \E u \in Users : Add(u)

LEMMA TokensTyped ==
  ASSUME RequestsOK, TokensStep
  PROVE  tokens' \in [TokenIds -> Token]
  <1> NoToken \in Token
    BY DEF NoToken, Token
  <1>1. ASSUME NEW lost \in SUBSET Users, tokens' = Without(tokens, lost)
        PROVE  tokens' \in [TokenIds -> Token]
    BY <1>1 DEF RequestsOK, Without
  <1>2. ASSUME NEW i \in TokenIds, tokens' = [tokens EXCEPT ![i] = NoToken]
        PROVE  tokens' \in [TokenIds -> Token]
    BY <1>2 DEF RequestsOK
  <1>3. ASSUME NEW i \in TokenIds, tokens' = [tokens EXCEPT ![i].active = now]
        PROVE  tokens' \in [TokenIds -> Token]
    BY <1>3 DEF RequestsOK, Token
  <1>4. ASSUME NEW u \in Users, Add(u)
        PROVE  tokens' \in [TokenIds -> Token]
    <2>1. [user |-> u, active |-> now] \in Token
      BY DEF Token, RequestsOK
    <2> QED BY <1>4, <2>1 DEF Add, RequestsOK
  <1>5. ASSUME NEW lost \in SUBSET TokenIds,
               tokens' = [i \in TokenIds |-> IF i \in lost THEN NoToken ELSE tokens[i]]
        PROVE  tokens' \in [TokenIds -> Token]
    BY <1>5 DEF RequestsOK
  <1> QED BY <1>1, <1>2, <1>3, <1>4, <1>5 DEF TokensStep, RequestsOK

(* A request begins with the account its token names, or with the user its    *)
(* command is from.                                                           *)
LEMMA BeginsWell ==
  ASSUME RequestsOK, StoriesOK, NEW p \in Procs, Requests(p)
  PROVE  /\ TokensStep /\ now' = now
         /\ UNCHANGED req \/ Begins(p)
  <1> USE AccountAssumption
  <1>1. ASSUME NEW i \in TokenIds, NEW op \in Operations, Authenticate(p, i, op)
        PROVE  TokensStep /\ now' = now /\ (UNCHANGED req \/ Begins(p))
    <2>1. tokens[i].user \in Users
      BY <1>1 DEF Authenticate, RequestsOK, Token
    <2>2. TokensStep
      BY <1>1 DEF Authenticate, TokensStep
    <2>3. DEFINE r == [Idle EXCEPT !.pc = op, !.user = tokens[i].user,
                                   !.saw = users[tokens[i].user].purgeAt]
    <2>4. r \in Request /\ r.user \in Users
      <3>1. users[tokens[i].user].purgeAt \in {Never} \cup 1..(MaxDay + GraceDays)
        BY <2>1 DEF StoriesOK, Account
      <3>2. op \in RequestPcs
        BY DEF RequestPcs
      <3> QED BY <2>1, <3>1, <3>2 DEF Idle, Request, RequestPcs
    <2>5. UNCHANGED req \/ req' = [req EXCEPT ![p] = r]
      BY <1>1 DEF Authenticate
    <2> QED BY <1>1, <2>2, <2>4, <2>5 DEF Authenticate, Begins
  <1>2. ASSUME NEW u \in Users, BotLogin(p, u)
        PROVE  TokensStep /\ now' = now /\ Begins(p)
    <2>1. [Idle EXCEPT !.pc = "issue", !.user = u] \in Request
      BY DEF Idle, Request, RequestPcs
    <2> QED BY <1>2, <2>1 DEF BotLogin, Begins, TokensStep, Idle
  <1>3. ASSUME NEW u \in Users, BotLogout(p, u)
        PROVE  TokensStep /\ now' = now /\ Begins(p)
    <2>1. [Idle EXCEPT !.pc = "discard", !.user = u] \in Request
      BY DEF Idle, Request, RequestPcs
    <2>2. {u} \in SUBSET Users
      OBVIOUS
    <2> QED BY <1>3, <2>1, <2>2 DEF BotLogout, Begins, TokensStep, Idle
  <1>4. ASSUME NEW u \in Users, DiscordLogin(p, u)
        PROVE  TokensStep /\ now' = now /\ Begins(p)
    <2>1. [Idle EXCEPT !.pc = "discord", !.user = u, !.existed = users[u].exists] \in Request
      BY DEF Idle, Request, RequestPcs, StoriesOK, Account
    <2> QED BY <1>4, <2>1 DEF DiscordLogin, Begins, TokensStep, Idle
  <1>5. ASSUME NEW u \in Users, DevLogin(u)
        PROVE  TokensStep /\ now' = now /\ UNCHANGED req
    BY <1>5 DEF DevLogin, TokensStep
  <1>6. ASSUME NEW ip \in Ips, LinkLogin(p, ip)
        PROVE  TokensStep /\ now' = now /\ Begins(p)
    <2>1. [Idle EXCEPT !.pc = "redeem", !.ip = ip] \in Request
      BY DEF Idle, Request, RequestPcs
    <2> QED BY <1>6, <2>1 DEF LinkLogin, Begins, TokensStep, Idle, NoUserYet
  <1>7. ASSUME NEW ip \in Ips, DemoLogin(p, ip)
        PROVE  TokensStep /\ now' = now /\ (UNCHANGED req \/ Begins(p))
    <2>1. [Idle EXCEPT !.pc = "mint", !.user = Demo] \in Request
      BY DEF Idle, Request, RequestPcs
    <2> QED BY <1>7, <2>1 DEF DemoLogin, Begins, TokensStep, Idle
  <1>8. CASE DemoRead(p)
    <2>1. [Idle EXCEPT !.pc = "reset", !.user = Demo, !.saw = users[Demo].purgeAt] \in Request
      BY DEF Idle, Request, RequestPcs, StoriesOK, Account
    <2> QED BY <1>8, <2>1 DEF DemoRead, Begins, TokensStep, Idle
  <1> QED BY <1>1, <1>2, <1>3, <1>4, <1>5, <1>6, <1>7, <1>8 DEF Requests, AccountRequest
(* A request goes on for the user it has, ends, or has redeemed the code of a *)
(* user it did not know before.                                               *)
LEMMA WorkMoves ==
  ASSUME RequestsOK, NEW p \in Procs, Work(p)
  PROVE  /\ TokensStep /\ now' = now
         /\ UNCHANGED req \/ Finishes(p) \/ Moves(p) \/ Begins(p)
  <1> DEFINE Goal == /\ TokensStep /\ now' = now
                     /\ UNCHANGED req \/ Finishes(p) \/ Moves(p) \/ Begins(p)
  <1>0. req[p].pc \notin NoUserYet => req[p].user \in Users
    BY DEF RequestsOK
  <1>a. ASSUME NEW pc \in RequestPcs, Goto(p, pc),
               pc \in NoUserYet \/ req[p].pc \notin NoUserYet
        PROVE  Moves(p)
    BY <1>a, <1>0 DEF Goto, Moves
  <1>b. Done(p) => Finishes(p)
    BY DEF Done, Finishes
  <1>1. CASE ScheduleDeletion(p)
    <2>1. req[p].user \in Users /\ req[p].pc \notin NoUserYet
      BY <1>0, <1>1 DEF ScheduleDeletion, At, NoUserYet
    <2>2. {req[p].user} \in SUBSET Users
      BY <2>1
    <2>3. "discard" \in RequestPcs
      BY DEF RequestPcs
    <2> QED BY <1>1, <1>a, <1>b, <2>1, <2>2, <2>3 DEF ScheduleDeletion, TokensStep
  <1>2. CASE \/ CancelDeletion(p) \/ UpdateSettings(p) \/ DiscardSkipped(p)
             \/ \E d \in Devices : RegisterDevice(p, d) \/ UnregisterDevice(p, d)
             \/ DemoCommit(p) \/ LinkDone(p) \/ LinkRefused(p)
    BY <1>2, <1>b DEF CancelDeletion, UpdateSettings, DiscardSkipped, RegisterDevice,
                UnregisterDevice, DemoCommit, LinkDone, LinkRefused, TokensStep
  <1>3. CASE BotIssue(p) \/ Discard(p)
    <2>1. req[p].pc \notin NoUserYet /\ "linking" \in RequestPcs
      BY <1>3 DEF BotIssue, Discard, At, NoUserYet, RequestPcs
    <2> QED BY <1>3, <1>a, <2>1 DEF BotIssue, Discard, TokensStep
  <1>4. CASE LinkWork(p)
    BY <1>4 DEF LinkWork, TokensStep
  <1>5. ASSUME NEW c \in Codes, LinkRedeem(p, c) PROVE Goal
    <2>1. "redeeming" \in RequestPcs /\ "redeeming" \in NoUserYet
      BY DEF RequestPcs, NoUserYet
    <2> QED BY <1>5, <1>a, <2>1 DEF LinkRedeem, TokensStep
  <1>6. CASE LinkAccepted(p)
    <2>1. CASE link[p].pc = "redeemed" /\ users[link[p].user].exists
      <3>1. link[p].user \in Users
        BY <2>1 DEF RequestsOK
      <3>2. req[p] \in Request
        BY DEF RequestsOK
      <3>3. PICK r \in Request : r = [req[p] EXCEPT !.pc = "mint", !.user = link[p].user]
        BY <3>1, <3>2 DEF Request, RequestPcs
      <3>4. r.user \in Users
        BY <3>1, <3>2, <3>3 DEF Request
      <3>5. req' = [req EXCEPT ![p] = r]
        BY <1>6, <2>1, <3>2, <3>3 DEF LinkAccepted, RequestsOK, Request
      <3> QED BY <1>6, <3>4, <3>5 DEF LinkAccepted, Begins, TokensStep
    <2>2. CASE ~(link[p].pc = "redeemed" /\ users[link[p].user].exists)
      BY <1>6, <1>b, <2>2 DEF LinkAccepted, TokensStep
    <2> QED BY <2>1, <2>2
  <1>7. CASE DiscordCommit(p)
    <2>1. req[p].user \in Users
      BY <1>0, <1>7 DEF DiscordCommit, At, NoUserYet
    <2> QED BY <1>7, <1>b, <2>1 DEF DiscordCommit, TokensStep
  <1>8. CASE IssueToken(p)
    <2>1. req[p].user \in Users /\ req[p].pc \notin NoUserYet /\ "cap" \in RequestPcs
      BY <1>0, <1>8 DEF IssueToken, At, NoUserYet, RequestPcs
    <2> QED BY <1>8, <1>a, <1>b, <2>1 DEF IssueToken, TokensStep
  <1>9. CASE CapDemoTokens(p)
    <2> DEFINE lost == (Owned(tokens, Demo) \ Newest(Owned(tokens, Demo), DemoMaxTokens))
                         \cap TokenIds
    <2>1. tokens' = [i \in TokenIds |-> IF i \in lost THEN NoToken ELSE tokens[i]]
      BY <1>9 DEF CapDemoTokens
    <2>2. lost \in SUBSET TokenIds
      OBVIOUS
    <2> QED BY <1>9, <1>b, <2>1, <2>2 DEF CapDemoTokens, TokensStep
  <1>10. CASE VoiceWork(p)
    <2>1. req[p].pc \notin NoUserYet /\ {"whisper", "bill"} \subseteq RequestPcs
      BY <1>10 DEF VoiceWork, VoiceQuota, Whisper, Bill, At, NoUserYet, RequestPcs
    <2> QED BY <1>10, <1>a, <1>b, <2>1 DEF VoiceWork, VoiceQuota, Whisper, Bill, TokensStep
  <1> QED BY <1>1, <1>2, <1>3, <1>4, <1>5, <1>6, <1>7, <1>8, <1>9, <1>10
          DEF Work, AccountWork, DemoReset

(* redeem_code answers with a user it has read.                               *)
LEMMA RedeemedNamed ==
  ASSUME LinkInv, RequestsOK, [LinkNext]_linkVars
  PROVE  \A p \in Procs : link'[p].pc = "redeemed" => link'[p].user \in Users
  <1> DEFINE Goal == \A p \in Procs : link'[p].pc = "redeemed" => link'[p].user \in Users
  <1>0. /\ link \in [Procs -> Call]
        /\ \A p \in Procs : link[p].pc \in {"drop", "redeemed"} => link[p].user \in Users
    BY DEF LinkInv, LinkTypeOK, Named, InFlight, CallPcs, RequestsOK
  <1>a. ASSUME NEW p \in Procs, NEW x, link' = [link EXCEPT ![p] = x], x.pc # "redeemed"
        PROVE  Goal
    BY <1>0, <1>a
  <1>1. ASSUME NEW p \in Procs, NEW u \in Users, IssueRead(p, u) \/ DiscardTake(p, u)
        PROVE  Goal
    BY <1>1, <1>a DEF IssueRead, DiscardTake, CallAt
  <1>2. ASSUME NEW p \in Procs, NEW c \in Codes, RedeemTake(p, c) PROVE Goal
    BY <1>2, <1>a DEF RedeemTake, CallAt
  <1>3. ASSUME NEW p \in Procs, NEW c \in Codes, IssueStore(p, c) PROVE Goal
    BY <1>0, <1>3 DEF IssueStore, Retry, Call
  <1>4. ASSUME NEW p \in Procs, IssueIndex(p) \/ DiscardClear(p) \/ CallLost(p) PROVE Goal
    BY <1>0, <1>4 DEF IssueIndex, DiscardClear, CallLost, Call
  <1>5. ASSUME NEW p \in Procs, RedeemDrop(p) PROVE Goal
    BY <1>0, <1>5 DEF RedeemDrop, Call
  <1>6. ASSUME NEW p \in Procs, Return(p) PROVE Goal
    <2>1. NoCall.pc # "redeemed"
      BY DEF NoCall, CallAt
    <2> QED BY <1>6, <1>a, <2>1 DEF Return
  <1>7. CASE LinkExpiry \/ UNCHANGED linkVars
    BY <1>0, <1>7 DEF LinkExpiry, CodeExpires, IndexExpires, linkVars
  <1> QED BY <1>1, <1>2, <1>3, <1>4, <1>5, <1>6, <1>7 DEF LinkNext, LinkStep

LEMMA RequestsInv ==
  ASSUME IInv, [Next]_serviceVars
  PROVE  RequestsOK'
  <1> USE DEF IInv
  <1>0. \A p \in Procs : link'[p].pc = "redeemed" => link'[p].user \in Users
    BY StepIsLinkStep, RedeemedNamed
  <1>a. ASSUME TokensStep, now' \in Days, NEW p \in Procs,
               UNCHANGED req \/ Finishes(p) \/ Moves(p) \/ Begins(p)
        PROVE  RequestsOK'
    <2>1. tokens' \in [TokenIds -> Token]
      BY <1>a, TokensTyped
    <2>2. /\ req' \in [Procs -> Request]
          /\ \A q \in Procs : req'[q].pc \notin NoUserYet => req'[q].user \in Users
      BY <1>a, RequestStep
    <2> QED BY <1>0, <1>a, <2>1, <2>2 DEF RequestsOK
  <1>b. ASSUME TokensStep, now' \in Days, UNCHANGED req
        PROVE  RequestsOK'
    BY <1>0, <1>b, TokensTyped DEF RequestsOK
  <1>c. now \in Days
    BY DEF RequestsOK
  <1>1. CASE UNCHANGED serviceVars
    BY <1>1, <1>b, <1>c DEF serviceVars, accountVars, TokensStep
  <1>2. ASSUME NEW p \in Procs, Requests(p) \/ Work(p) PROVE RequestsOK'
    BY <1>2, <1>a, <1>c, BeginsWell, WorkMoves
  <1>3. ASSUME NEW p \in Procs, Lost(p) PROVE RequestsOK'
    <2>1. TokensStep /\ now' = now /\ Finishes(p)
      BY <1>3 DEF Lost, RequestLost, TokensStep, Done, Finishes
    <2> QED BY <2>1, <1>a, <1>c
  <1>4. ASSUME NEW w \in Workers, Report(w) PROVE RequestsOK'
    BY <1>4, <1>b, <1>c, ReportFrame DEF TokensStep
  <1>5. CASE Outside
    <2>1. TokensStep /\ now' = now /\ UNCHANGED req
      BY <1>5 DEF Outside, Environment, AppLogout, SweepDevices, WindowEnds, KeyExpires,
                  DedupExpires, accountVars, TokensStep
    <2> QED BY <2>1, <1>b, <1>c
  <1>6. CASE Purge
    <2>1. {u \in Users : Due(u)} \in SUBSET Users
      OBVIOUS
    <2>2. TokensStep /\ now' = now /\ UNCHANGED req
      BY <1>6, <2>1 DEF Purge, PurgeAccounts, TokensStep
    <2> QED BY <2>2, <1>b, <1>c
  <1>7. CASE NewDay
    <2>1. TokensStep /\ UNCHANGED req /\ now < MaxDay /\ now' = now + 1
      BY <1>7 DEF NewDay, Tick, TokensStep
    <2>2. now' \in Days
      BY <2>1, <1>c, AccountAssumption DEF Days
    <2> QED BY <2>1, <2>2, <1>b
  <1> QED BY <1>1, <1>2, <1>3, <1>4, <1>5, <1>6, <1>7 DEF Next
-----------------------------------------------------------------------------
(* Accounts and their trails. *)

\* The event recorded beside a write of purge_at says what was written.
Tells(e, a) ==
    /\ ~a.exists => a.purgeAt = Never
    /\ a.purgeAt # Never <=> e.event = "requested"
    /\ a.purgeAt # Never => a.purgeAt = e.purgeAt

LEMMA StoryAppend ==
  ASSUME NEW s \in Seq(Event), NEW e \in Event, NEW a \in Account, Tells(e, a)
  PROVE  Append(s, e) \in Seq(Event) /\ Story(a, Append(s, e))
  <1>1. /\ Append(s, e) \in Seq(Event) /\ Append(s, e) # <<>>
        /\ Append(s, e)[Len(Append(s, e))] = e
    OBVIOUS
  <1> QED BY <1>1 DEF Story, Tells

(* One account is written, with the event that says so or without changing    *)
(* what its trail says.                                                       *)
LEMMA StoryWrite ==
  ASSUME StoriesOK, NEW u \in Users, NEW a \in Account,
         users' = [users EXCEPT ![u] = a],
         \/ trail' = trail /\ Story(a, trail[u])
         \/ \E e \in Event : Tells(e, a) /\ trail' = [trail EXCEPT ![u] = Append(@, e)]
  PROVE  StoriesOK'
  <1>0. /\ users \in [Users -> Account] /\ trail \in [Users -> Seq(Event)]
        /\ \A v \in Users : Story(users[v], trail[v])
    BY DEF StoriesOK
  <1>1. /\ users' \in [Users -> Account] /\ users'[u] = a
        /\ \A v \in Users : v # u => users'[v] = users[v]
    BY <1>0
  <1>2. CASE trail' = trail /\ Story(a, trail[u])
    BY <1>0, <1>1, <1>2 DEF StoriesOK
  <1>3. ASSUME NEW e \in Event, Tells(e, a), trail' = [trail EXCEPT ![u] = Append(@, e)]
        PROVE  StoriesOK'
    <2>1. Append(trail[u], e) \in Seq(Event) /\ Story(a, Append(trail[u], e))
      BY <1>0, <1>3, StoryAppend
    <2>2. /\ trail' \in [Users -> Seq(Event)] /\ trail'[u] = Append(trail[u], e)
          /\ \A v \in Users : v # u => trail'[v] = trail[v]
      BY <1>0, <1>3, <2>1
    <2>3. \A v \in Users : Story(users'[v], trail'[v])
      BY <1>0, <1>1, <2>1, <2>2
    <2> QED BY <1>1, <2>2, <2>3 DEF StoriesOK
  <1> QED BY <1>2, <1>3

(* The row lock is not enough for schedule_deletion to see the account as it  *)
(* is, and still the date it writes is the date it records.                   *)
LEMMA ScheduleTells ==
  ASSUME StoriesOK, RequestsOK, NEW p \in Procs, ScheduleDeletion(p)
  PROVE  StoriesOK'
  <1> DEFINE u == req[p].user
  <1>0. u \in Users
    BY DEF ScheduleDeletion, At, RequestsOK, NoUserYet
  <1>1. CASE ~(users[u].exists /\ req[p].saw = Never)
    BY <1>1 DEF ScheduleDeletion, StoriesOK
  <1>2. CASE users[u].exists /\ req[p].saw = Never
    <2>1. now + GraceDays \in 1..(MaxDay + GraceDays) /\ now + GraceDays # Never
      BY AccountAssumption DEF RequestsOK, Days, Never
    <2>2. PICK a \in Account : a = [users[u] EXCEPT !.purgeAt = now + GraceDays]
      BY <1>0, <2>1 DEF StoriesOK, Account
    <2>3. users' = [users EXCEPT ![u] = a]
      BY <1>0, <1>2, <2>2 DEF ScheduleDeletion, StoriesOK, Account
    <2>4. PICK e \in Event : e = [event |-> "requested", purgeAt |-> now + GraceDays]
      BY <2>1 DEF Event
    <2>5. trail' = [trail EXCEPT ![u] = Append(@, e)]
      BY <1>2, <2>4 DEF ScheduleDeletion, Record
    <2>6. a.exists /\ a.purgeAt = now + GraceDays
      BY <1>0, <1>2, <2>2 DEF StoriesOK, Account
    <2>7. e.event = "requested" /\ e.purgeAt = now + GraceDays
      BY <2>4
    <2>8. Tells(e, a)
      BY <2>1, <2>6, <2>7 DEF Tells
    <2> HIDE DEF u
    <2> QED BY <1>0, <2>3, <2>5, <2>8, StoryWrite
  <1> QED BY <1>1, <1>2
LEMMA CancelTells ==
  ASSUME StoriesOK, RequestsOK, NEW p \in Procs, CancelDeletion(p)
  PROVE  StoriesOK'
  <1> DEFINE u == req[p].user
  <1>0. u \in Users
    BY DEF CancelDeletion, At, RequestsOK, NoUserYet
  <1>1. CASE ~(users[u].exists /\ req[p].saw # Never)
    BY <1>1 DEF CancelDeletion, StoriesOK
  <1>2. CASE users[u].exists /\ req[p].saw # Never
    <2>1. PICK a \in Account : a = [users[u] EXCEPT !.purgeAt = Never]
      BY <1>0 DEF StoriesOK, Account
    <2>2. users' = [users EXCEPT ![u] = a]
      BY <1>0, <1>2, <2>1 DEF CancelDeletion, StoriesOK, Account
    <2>3. PICK e \in Event : e = [event |-> "cancelled", purgeAt |-> Never]
      BY DEF Event
    <2>4. trail' = [trail EXCEPT ![u] = Append(@, e)]
      BY <1>2, <2>3 DEF CancelDeletion, Record
    <2>5. a.purgeAt = Never
      BY <1>0, <2>1 DEF StoriesOK, Account
    <2>6. Tells(e, a)
      BY <2>3, <2>5 DEF Tells
    <2> HIDE DEF u
    <2> QED BY <1>0, <2>2, <2>4, <2>6, StoryWrite
  <1> QED BY <1>1, <1>2

(* A flag of the account is no part of its story.                             *)
LEMMA SettingsTell ==
  ASSUME StoriesOK, RequestsOK, NEW p \in Procs, UpdateSettings(p)
  PROVE  StoriesOK'
  <1> DEFINE u == req[p].user
  <1>0. u \in Users
    BY DEF UpdateSettings, At, RequestsOK, NoUserYet
  <1>1. CASE ~users[u].exists
    BY <1>1 DEF UpdateSettings, StoriesOK
  <1>2. CASE users[u].exists
    <2>1. PICK a \in Account : a = [users[u] EXCEPT !.report = ~users[u].report]
      BY <1>0 DEF StoriesOK, Account
    <2>2. users' = [users EXCEPT ![u] = a]
      BY <1>0, <1>2, <2>1 DEF UpdateSettings, StoriesOK, Account
    <2>3. a.exists = users[u].exists /\ a.purgeAt = users[u].purgeAt
      BY <1>0, <2>1 DEF StoriesOK, Account
    <2>4. Story(a, trail[u])
      BY <1>0, <2>3 DEF StoriesOK, Story
    <2>5. trail' = trail
      BY DEF UpdateSettings
    <2> HIDE DEF u
    <2> QED BY <1>0, <2>2, <2>4, <2>5, StoryWrite
  <1> QED BY <1>1, <1>2

(* A row that comes back after a purge starts unscheduled, and the trail of   *)
(* an account that is gone did not end in a request.                          *)
LEMMA CreationTells ==
  ASSUME StoriesOK, NEW u \in Users, ~users[u].exists,
         users' = [users EXCEPT ![u] = NewUser], trail' = trail
  PROVE  StoriesOK'
  <1>1. NewUser \in Account /\ NewUser.purgeAt = Never /\ NewUser.exists
    BY DEF NewUser, Account
  <1>2. Story(users[u], trail[u])
    BY DEF StoriesOK
  <1>3. Story(NewUser, trail[u])
    BY <1>1, <1>2 DEF Story
  <1> QED BY <1>1, <1>3, StoryWrite

(* The nightly reset cancels a deletion it has seen.                          *)
LEMMA DemoTells ==
  ASSUME StoriesOK, NEW p \in Procs, DemoCommit(p)
  PROVE  StoriesOK'
  <1>0. Demo \in Users
    BY AccountAssumption
  <1>1. CASE req[p].saw # Never
    <2>1. PICK a \in Account : a = [users[Demo] EXCEPT !.report = TRUE, !.purgeAt = Never]
      BY <1>0 DEF StoriesOK, Account
    <2>2. users' = [users EXCEPT ![Demo] = a]
      BY <1>0, <1>1, <2>1 DEF DemoCommit, StoriesOK, Account
    <2>3. PICK e \in Event : e = [event |-> "cancelled", purgeAt |-> Never]
      BY DEF Event
    <2>4. trail' = [trail EXCEPT ![Demo] = Append(@, e)]
      BY <1>1, <2>3 DEF DemoCommit, Record
    <2>5. a.purgeAt = Never
      BY <1>0, <2>1 DEF StoriesOK, Account
    <2>6. Tells(e, a)
      BY <2>3, <2>5 DEF Tells
    <2> QED BY <1>0, <2>2, <2>4, <2>6, StoryWrite
  <1>2. CASE req[p].saw = Never
    <2>1. PICK a \in Account : a = [users[Demo] EXCEPT !.report = TRUE]
      BY <1>0 DEF StoriesOK, Account
    <2>2. users' = [users EXCEPT ![Demo] = a]
      BY <1>0, <1>2, <2>1 DEF DemoCommit, StoriesOK, Account
    <2>3. a.exists = users[Demo].exists /\ a.purgeAt = users[Demo].purgeAt
      BY <1>0, <2>1 DEF StoriesOK, Account
    <2>4. Story(a, trail[Demo])
      BY <1>0, <2>3 DEF StoriesOK, Story
    <2>5. trail' = trail
      BY <1>2 DEF DemoCommit
    <2> QED BY <1>0, <2>2, <2>4, <2>5, StoryWrite
  <1> QED BY <1>1, <1>2

(* The purge writes every due account and the end of its trail at once.       *)
LEMMA PurgeTells ==
  ASSUME StoriesOK, PurgeAccounts
  PROVE  StoriesOK'
  <1> DEFINE e(u) == [event |-> "purged", purgeAt |-> users[u].purgeAt]
  <1>1. /\ users' = [u \in Users |-> IF Due(u) THEN Gone ELSE users[u]]
        /\ trail' = [u \in Users |-> IF Due(u) THEN Append(trail[u], e(u)) ELSE trail[u]]
    BY DEF PurgeAccounts
  <1>2. Gone \in Account /\ Gone.purgeAt = Never /\ ~Gone.exists
    BY DEF Gone, Account
  <1>3. ASSUME NEW u \in Users
        PROVE  /\ users'[u] \in Account /\ trail'[u] \in Seq(Event)
               /\ Story(users'[u], trail'[u])
    <2>1. users[u] \in Account /\ trail[u] \in Seq(Event) /\ Story(users[u], trail[u])
      BY DEF StoriesOK
    <2>2. CASE ~Due(u)
      BY <1>1, <2>1, <2>2
    <2>3. CASE Due(u)
      <3>1. users'[u] = Gone /\ trail'[u] = Append(trail[u], e(u))
        BY <1>1, <2>3
      <3>2. e(u) \in Event /\ e(u).event = "purged"
        BY <2>1 DEF Event, Account
      <3>3. Tells(e(u), Gone)
        BY <1>2, <3>2 DEF Tells
      <3> HIDE DEF e
      <3> QED BY <1>2, <2>1, <3>1, <3>2, <3>3, StoryAppend
    <2> QED BY <2>2, <2>3
  <1>4. users' \in [Users -> Account] /\ trail' \in [Users -> Seq(Event)]
    BY <1>1, <1>3
  <1> QED BY <1>3, <1>4 DEF StoriesOK

LEMMA StoriesInv ==
  ASSUME IInv, [Next]_serviceVars
  PROVE  StoriesOK'
  <1> USE DEF IInv
  <1>a. UNCHANGED <<users, trail>> => StoriesOK'
    BY DEF StoriesOK
  <1>1. CASE UNCHANGED serviceVars
    BY <1>1, <1>a DEF serviceVars, accountVars
  <1>2. ASSUME NEW p \in Procs, Requests(p) PROVE StoriesOK'
    <2>1. ASSUME NEW u \in Users, BotLogin(p, u) PROVE StoriesOK'
      BY <1>a, <2>1, CreationTells DEF BotLogin
    <2>2. ASSUME NEW u \in Users, BotLogout(p, u) \/ DiscordLogin(p, u) \/ DevLogin(u)
          PROVE  StoriesOK'
      BY <1>a, <2>2 DEF BotLogout, DiscordLogin, DevLogin
    <2>3. CASE \/ \E i \in TokenIds, op \in Operations : Authenticate(p, i, op)
               \/ \E ip \in Ips : LinkLogin(p, ip) \/ DemoLogin(p, ip)
               \/ DemoRead(p)
      BY <1>a, <2>3 DEF Authenticate, LinkLogin, DemoLogin, DemoRead
    <2> QED BY <1>2, <2>1, <2>2, <2>3 DEF Requests, AccountRequest
  <1>3. ASSUME NEW p \in Procs, Work(p) PROVE StoriesOK'
    <2>1. CASE DiscordCommit(p)
      <3>1. req[p].user \in Users
        BY <2>1 DEF DiscordCommit, At, RequestsOK, NoUserYet
      <3> QED BY <1>a, <2>1, <3>1, CreationTells DEF DiscordCommit
    <2>2. CASE \/ \E d \in Devices : RegisterDevice(p, d) \/ UnregisterDevice(p, d)
               \/ BotIssue(p) \/ Discard(p) \/ DiscardSkipped(p) \/ LinkWork(p) \/ LinkDone(p)
               \/ \E c \in Codes : LinkRedeem(p, c)
               \/ LinkRefused(p) \/ LinkAccepted(p) \/ IssueToken(p) \/ CapDemoTokens(p)
      BY <1>a, <2>2 DEF RegisterDevice, UnregisterDevice, BotIssue, Discard, DiscardSkipped,
                LinkWork, LinkDone, LinkRedeem, LinkRefused, LinkAccepted, IssueToken,
                CapDemoTokens
    <2> QED BY <1>3, <1>a, <2>1, <2>2, ScheduleTells, CancelTells, SettingsTell, DemoTells,
               VoiceFrame
            DEF Work, AccountWork, DemoReset
  <1>4. ASSUME NEW p \in Procs, Lost(p) PROVE StoriesOK'
    BY <1>4, <1>a DEF Lost, RequestLost
  <1>5. ASSUME NEW w \in Workers, Report(w) PROVE StoriesOK'
    BY <1>5, <1>a, ReportFrame
  <1>6. CASE Outside
    BY <1>6, <1>a DEF Outside, Environment, AppLogout, SweepDevices, WindowEnds, KeyExpires,
                      DedupExpires, accountVars
  <1>7. CASE Purge \/ NewDay
    BY <1>7, <1>a, PurgeTells DEF Purge, NewDay, Tick
  <1> QED BY <1>1, <1>2, <1>3, <1>4, <1>5, <1>6, <1>7 DEF Next

-----------------------------------------------------------------------------
(* Purges in the trail: what a purge says of its date, and of the event        *)
(* before it.                                                                 *)
Purged(s, day) ==
    \A k \in DOMAIN s : s[k].event = "purged" =>
        /\ s[k].purgeAt <= day
        /\ k > 1 /\ s[k - 1] = [event |-> "requested", purgeAt |-> s[k].purgeAt]
PurgesOK == \A u \in Users : Purged(trail[u], now)

(* A step leaves the trails alone, records one request or cancellation, or is *)
(* the purge.                                                                 *)
LEMMA TrailMoves ==
  ASSUME IInv, [Next]_serviceVars
  PROVE  \/ now' \in {now, now + 1} /\ trail' = trail
         \/ /\ now' = now
            /\ \E u \in Users, e \in Event : e.event # "purged"
                                            /\ trail' = [trail EXCEPT ![u] = Append(@, e)]
         \/ now' = now /\ PurgeAccounts
  <1> DEFINE Still == now' \in {now, now + 1} /\ trail' = trail
             Recorded == /\ now' = now
                         /\ \E u \in Users, e \in Event : e.event # "purged"
                                /\ trail' = [trail EXCEPT ![u] = Append(@, e)]
  <1> SUFFICES Still \/ Recorded \/ (now' = now /\ PurgeAccounts)
    OBVIOUS
  <1> USE DEF IInv
  <1>c. [event |-> "cancelled", purgeAt |-> Never] \in Event
    BY DEF Event
  <1>1. CASE UNCHANGED serviceVars
    BY <1>1 DEF serviceVars, accountVars
  <1>2. ASSUME NEW p \in Procs, Requests(p) PROVE Still
    BY <1>2 DEF Requests, AccountRequest, Authenticate, BotLogin, BotLogout, DiscordLogin,
                DevLogin, LinkLogin, DemoLogin, DemoRead
  <1>3. ASSUME NEW p \in Procs, Work(p) PROVE Still \/ Recorded
    <2>1. CASE ScheduleDeletion(p)
      <3>1. CASE ~(users[req[p].user].exists /\ req[p].saw = Never)
        BY <2>1, <3>1 DEF ScheduleDeletion
      <3>2. CASE users[req[p].user].exists /\ req[p].saw = Never
        <4>1. req[p].user \in Users /\ now' = now
          BY <2>1 DEF ScheduleDeletion, At, RequestsOK, NoUserYet
        <4>2. now + GraceDays \in 1..(MaxDay + GraceDays)
          BY AccountAssumption DEF RequestsOK, Days
        <4>3. [event |-> "requested", purgeAt |-> now + GraceDays] \in Event
          BY <4>2 DEF Event
        <4>4. trail' = [trail EXCEPT ![req[p].user] =
                          Append(@, [event |-> "requested", purgeAt |-> now + GraceDays])]
          BY <2>1, <3>2 DEF ScheduleDeletion, Record
        <4> QED BY <4>1, <4>3, <4>4
      <3> QED BY <3>1, <3>2
    <2>2. CASE CancelDeletion(p)
      <3>1. req[p].user \in Users /\ now' = now
        BY <2>2 DEF CancelDeletion, At, RequestsOK, NoUserYet
      <3>2. \/ trail' = trail
            \/ trail' = [trail EXCEPT ![req[p].user] =
                            Append(@, [event |-> "cancelled", purgeAt |-> Never])]
        BY <2>2 DEF CancelDeletion, Record
      <3> QED BY <1>c, <3>1, <3>2
    <2>3. CASE DemoReset(p)
      <3>1. Demo \in Users /\ now' = now
        BY <2>3, AccountAssumption DEF DemoReset, DemoCommit
      <3>2. \/ trail' = trail
            \/ trail' = [trail EXCEPT ![Demo] =
                            Append(@, [event |-> "cancelled", purgeAt |-> Never])]
        BY <2>3 DEF DemoReset, DemoCommit, Record
      <3> QED BY <1>c, <3>1, <3>2
    <2>4. CASE \/ \E d \in Devices : RegisterDevice(p, d) \/ UnregisterDevice(p, d)
               \/ BotIssue(p) \/ Discard(p) \/ DiscardSkipped(p) \/ LinkWork(p) \/ LinkDone(p)
               \/ \E c \in Codes : LinkRedeem(p, c)
               \/ LinkRefused(p) \/ LinkAccepted(p) \/ IssueToken(p) \/ CapDemoTokens(p)
               \/ DiscordCommit(p) \/ UpdateSettings(p)
      BY <2>4 DEF RegisterDevice, UnregisterDevice, BotIssue, Discard, DiscardSkipped,
                LinkWork, LinkDone, LinkRedeem, LinkRefused, LinkAccepted, IssueToken,
                CapDemoTokens, DiscordCommit, UpdateSettings
    <2>5. CASE VoiceWork(p)
      BY <2>5, VoiceFrame
    <2> QED BY <1>3, <2>1, <2>2, <2>3, <2>4, <2>5 DEF Work, AccountWork
  <1>4. ASSUME NEW p \in Procs, Lost(p) PROVE Still
    BY <1>4 DEF Lost, RequestLost
  <1>5. ASSUME NEW w \in Workers, Report(w) PROVE Still
    BY <1>5, ReportFrame
  <1>6. CASE Outside
    BY <1>6 DEF Outside, Environment, AppLogout, SweepDevices, WindowEnds, KeyExpires,
                DedupExpires, accountVars
  <1>7. CASE Purge
    BY <1>7 DEF Purge, PurgeAccounts
  <1>8. CASE NewDay
    BY <1>8 DEF NewDay, Tick
  <1> QED BY <1>1, <1>2, <1>3, <1>4, <1>5, <1>6, <1>7, <1>8 DEF Next

(* Days do not go back, and an event is appended after the last one.          *)
LEMMA PurgedAppend ==
  ASSUME NEW s \in Seq(Event), NEW e \in Event, NEW day, Purged(s, day),
         e.event = "purged" =>
            /\ e.purgeAt <= day /\ s # <<>>
            /\ s[Len(s)] = [event |-> "requested", purgeAt |-> e.purgeAt]
  PROVE  Purged(Append(s, e), day)
  <1> SUFFICES ASSUME NEW k \in DOMAIN Append(s, e), Append(s, e)[k].event = "purged"
               PROVE  /\ Append(s, e)[k].purgeAt <= day
                      /\ k > 1
                      /\ Append(s, e)[k - 1] = [event |-> "requested",
                                                purgeAt |-> Append(s, e)[k].purgeAt]
    BY DEF Purged
  <1>1. /\ k \in 1..(Len(s) + 1) /\ Len(s) \in Nat /\ DOMAIN s = 1..Len(s)
        /\ \A i \in 1..Len(s) : Append(s, e)[i] = s[i]
        /\ Append(s, e)[Len(s) + 1] = e
    OBVIOUS
  <1>2. CASE k <= Len(s)
    <2>1. k \in DOMAIN s /\ Append(s, e)[k] = s[k]
      BY <1>1, <1>2
    <2>2. /\ s[k].purgeAt <= day /\ k > 1
          /\ s[k - 1] = [event |-> "requested", purgeAt |-> s[k].purgeAt]
      BY <2>1 DEF Purged
    <2>3. Append(s, e)[k - 1] = s[k - 1]
      BY <1>1, <1>2, <2>2
    <2> QED BY <2>1, <2>2, <2>3
  <1>3. CASE k = Len(s) + 1
    <2>1. e.purgeAt <= day /\ s # <<>>
          /\ s[Len(s)] = [event |-> "requested", purgeAt |-> e.purgeAt]
      BY <1>1, <1>3
    <2>2. Len(s) >= 1 /\ k > 1 /\ k - 1 = Len(s)
      BY <1>1, <1>3, <2>1
    <2>3. Append(s, e)[k - 1] = s[Len(s)] /\ Append(s, e)[k] = e
      BY <1>1, <1>3, <2>2
    <2> QED BY <2>1, <2>2, <2>3
  <1> QED BY <1>1, <1>2, <1>3

LEMMA PurgesInv ==
  ASSUME IInv, PurgesOK, [Next]_serviceVars
  PROVE  PurgesOK'
  <1>0. /\ trail \in [Users -> Seq(Event)] /\ users \in [Users -> Account]
        /\ \A u \in Users : Story(users[u], trail[u]) /\ Purged(trail[u], now)
    BY DEF IInv, StoriesOK, PurgesOK
  <1>1. CASE now' \in {now, now + 1} /\ trail' = trail
    <2>1. now \in Int /\ now' \in Int /\ now <= now'
      BY <1>1 DEF IInv, RequestsOK, Days
    <2>2. ASSUME NEW u \in Users PROVE Purged(trail[u], now')
      <3>1. \A k \in DOMAIN trail[u] : trail[u][k] \in Event
        BY <1>0
      <3>2. \A e \in Event : e.purgeAt \in Int
        BY AccountAssumption DEF Event, Never
      <3>3. \A k \in DOMAIN trail[u] : trail[u][k].purgeAt <= now => trail[u][k].purgeAt <= now'
        BY <2>1, <3>1, <3>2
      <3> QED BY <1>0, <3>3 DEF Purged
    <2> QED BY <1>1, <2>2 DEF PurgesOK
  <1>2. ASSUME now' = now, NEW u \in Users, NEW e \in Event, e.event # "purged",
               trail' = [trail EXCEPT ![u] = Append(@, e)]
        PROVE  PurgesOK'
    <2>1. Purged(Append(trail[u], e), now)
      BY <1>0, <1>2, PurgedAppend
    <2>2. trail'[u] = Append(trail[u], e) /\ \A v \in Users : v # u => trail'[v] = trail[v]
      BY <1>0, <1>2
    <2> QED BY <1>0, <1>2, <2>1, <2>2 DEF PurgesOK
  <1>3. CASE now' = now /\ PurgeAccounts
    <2> DEFINE e(u) == [event |-> "purged", purgeAt |-> users[u].purgeAt]
    <2>1. trail' = [u \in Users |-> IF Due(u) THEN Append(trail[u], e(u)) ELSE trail[u]]
      BY <1>3 DEF PurgeAccounts
    <2>2. ASSUME NEW u \in Users PROVE Purged(trail'[u], now)
      <3>1. CASE ~Due(u)
        BY <1>0, <2>1, <3>1
      <3>2. CASE Due(u)
        <4>1. e(u) \in Event
          BY <1>0 DEF Event, Account
        <4>2. users[u].purgeAt # Never /\ users[u].purgeAt <= now
          BY <3>2 DEF Due
        <4>3. trail[u] \in Seq(Event) /\ trail[u] # <<>> /\ Len(trail[u]) \in DOMAIN trail[u]
              /\ trail[u][Len(trail[u])] \in Event
              /\ trail[u][Len(trail[u])].event = "requested"
              /\ trail[u][Len(trail[u])].purgeAt = users[u].purgeAt
          BY <1>0, <4>2 DEF Story
        <4>4. trail[u][Len(trail[u])] = [event |-> "requested", purgeAt |-> users[u].purgeAt]
          BY <4>3 DEF Event
        <4>5. e(u).purgeAt = users[u].purgeAt
          OBVIOUS
        <4> HIDE DEF e
        <4>6. Purged(Append(trail[u], e(u)), now)
          BY <1>0, <4>1, <4>2, <4>3, <4>4, <4>5, PurgedAppend
        <4> QED BY <2>1, <3>2, <4>6
      <3> QED BY <3>1, <3>2
    <2> QED BY <1>3, <2>2 DEF PurgesOK
  <1> QED BY <1>1, <1>2, <1>3, TrailMoves

-----------------------------------------------------------------------------
(* Codes and the logins they are good for. *)

Credit == [credit : [Users -> Int], untrimmed : Nat]

CreditOK ==
    /\ history \in Credit
    /\ \A u \in Users : Cardinality(CodesOf(u)) <= history.credit[u]

LEMMA CodesFinite ==
  \A u : IsFiniteSet(CodesOf(u)) /\ Cardinality(CodesOf(u)) \in Nat
  <1> SUFFICES ASSUME NEW u PROVE IsFiniteSet(CodesOf(u)) /\ Cardinality(CodesOf(u)) \in Nat
    OBVIOUS
  <1>1. CodesOf(u) \subseteq Codes
    BY DEF CodesOf
  <1> QED BY <1>1, LinkAssumption, FS_Subset, FS_CardinalityType

(* A step that gives no user another code.                                    *)
LEMMA NoNewCode ==
  ASSUME CreditOK, history' \in Credit, history'.credit = history.credit,
         \A c \in Codes : codes'[c] \in Users => codes'[c] = codes[c]
  PROVE  CreditOK'
  <1> SUFFICES ASSUME NEW u \in Users PROVE Cardinality(CodesOf(u))' <= history'.credit[u]
    BY DEF CreditOK
  <1>1. CodesOf(u)' \subseteq CodesOf(u)
    BY DEF CodesOf
  <1>2. Cardinality(CodesOf(u)') <= Cardinality(CodesOf(u)) /\ Cardinality(CodesOf(u)') \in Nat
    BY <1>1, CodesFinite, FS_Subset, FS_CardinalityType
  <1> QED BY <1>2, CodesFinite DEF CreditOK, Credit

(* issue_code stores one code, after the user's old one is deleted.           *)
LEMMA StoreCredits ==
  ASSUME LinkInv, CreditOK, NEW p \in Procs, LinkWork(p)
  PROVE  CreditOK'
  <1>0. /\ codes \in [Codes -> Users \cup {NoUser}] /\ link \in [Procs -> Call]
        /\ history \in Credit /\ NoUser \notin Users
    BY LinkAssumption DEF LinkInv, LinkTypeOK, CreditOK
  <1>1. ASSUME link[p].pc = "store", link'[p].pc = "index"
        PROVE  CreditOK'
    <2> DEFINE o == link[p].user
    <2>1. o \in Users
      BY <1>1 DEF LinkInv, Named, InFlight, CallPcs
    <2>2. PICK c \in Codes : IssueStore(p, c)
      <3>1. ~IssueIndex(p) /\ ~RedeemDrop(p) /\ ~DiscardClear(p)
        BY <1>1 DEF IssueIndex, RedeemDrop, DiscardClear
      <3>2. ~CallLost(p)
        BY <1>0, <1>1 DEF CallLost, Call
      <3> QED BY <3>1, <3>2 DEF LinkWork, LinkStep
    <2>3. codes' = [WithoutOld(p) EXCEPT ![c] = o]
      BY <1>0, <1>1, <2>2 DEF IssueStore, Retry, Call
    <2>4. \A d \in Codes : codes'[d] = IF d = c THEN o
                                     ELSE IF d = link[p].code THEN NoUser ELSE codes[d]
      BY <2>3 DEF WithoutOld
    <2>5. /\ history' \in Credit /\ history'.credit[o] = history.credit[o] + 1
          /\ \A u \in Users : u # o => history'.credit[u] = history.credit[u]
      BY <1>0, <1>1, <2>1 DEF LinkWork, Credit
    <2>6. ASSUME NEW u \in Users PROVE Cardinality(CodesOf(u))' <= history'.credit[u]
      <3>1. CASE u # o
        <4>1. CodesOf(u)' \subseteq CodesOf(u)
          BY <1>0, <2>4, <3>1 DEF CodesOf
        <4>2. Cardinality(CodesOf(u)') <= Cardinality(CodesOf(u)) /\ Cardinality(CodesOf(u)') \in Nat
          BY <4>1, CodesFinite, FS_Subset, FS_CardinalityType
        <4> QED BY <2>5, <3>1, <4>2, CodesFinite DEF CreditOK, Credit
      <3>2. CASE u = o
        <4>1. CodesOf(u)' \subseteq CodesOf(u) \cup {c}
          BY <1>0, <2>1, <2>4, <3>2 DEF CodesOf
        <4>2. /\ IsFiniteSet(CodesOf(u) \cup {c})
              /\ Cardinality(CodesOf(u) \cup {c}) <= Cardinality(CodesOf(u)) + 1
              /\ Cardinality(CodesOf(u) \cup {c}) \in Nat
          BY CodesFinite, FS_AddElement, FS_CardinalityType
        <4>3. /\ Cardinality(CodesOf(u)') <= Cardinality(CodesOf(u) \cup {c})
              /\ Cardinality(CodesOf(u)') \in Nat
          BY <4>1, <4>2, FS_Subset, FS_CardinalityType
        <4>4. Cardinality(CodesOf(u)) <= history.credit[u] /\ history.credit[u] \in Int
          BY DEF CreditOK, Credit
        <4> QED BY <2>5, <3>2, <4>2, <4>3, <4>4, CodesFinite
      <3> QED BY <3>1, <3>2
    <2> QED BY <2>5, <2>6 DEF CreditOK
  <1>2. ASSUME ~(link[p].pc = "store" /\ link'[p].pc = "index")
        PROVE  CreditOK'
    <2>1. history' = history
      BY <1>2 DEF LinkWork
    <2>2. ASSUME NEW c \in Codes, IssueStore(p, c) PROVE CreditOK'
      <3>1. codes' = codes \/ codes' = WithoutOld(p)
        BY <1>0, <1>2, <2>2 DEF IssueStore, Call
      <3> QED BY <1>0, <2>1, <3>1, NoNewCode DEF WithoutOld
    <2>3. CASE IssueIndex(p) \/ RedeemDrop(p) \/ CallLost(p)
      BY <1>0, <2>1, <2>3, NoNewCode DEF IssueIndex, RedeemDrop, CallLost
    <2>4. CASE DiscardClear(p)
      BY <1>0, <2>1, <2>4, NoNewCode DEF DiscardClear
    <2> QED BY <2>2, <2>3, <2>4 DEF LinkWork, LinkStep
  <1> QED BY <1>1, <1>2

(* redeem_code takes the code it credits.                                     *)
LEMMA RedeemDebits ==
  ASSUME LinkInv, CreditOK, NEW p \in Procs, NEW c \in Codes, LinkRedeem(p, c)
  PROVE  CreditOK'
  <1>0. /\ codes \in [Codes -> Users \cup {NoUser}] /\ history \in Credit
        /\ NoUser \notin Users
    BY LinkAssumption DEF LinkInv, LinkTypeOK, CreditOK
  <1>1. CASE codes[c] = NoUser
    BY <1>0, <1>1, NoNewCode DEF LinkRedeem, RedeemTake
  <1>2. CASE codes[c] # NoUser
    <2> DEFINE o == codes[c]
    <2>1. o \in Users /\ codes' = [codes EXCEPT ![c] = NoUser]
      BY <1>0, <1>2 DEF LinkRedeem, RedeemTake
    <2>2. /\ history' \in Credit /\ history'.credit[o] = history.credit[o] - 1
          /\ \A u \in Users : u # o => history'.credit[u] = history.credit[u]
      BY <1>0, <1>2, <2>1 DEF LinkRedeem, Credit
    <2>3. ASSUME NEW u \in Users PROVE Cardinality(CodesOf(u))' <= history'.credit[u]
      <3>0. Cardinality(CodesOf(u)) <= history.credit[u] /\ history.credit[u] \in Int
        BY DEF CreditOK, Credit
      <3>1. CASE u # o
        <4>1. CodesOf(u)' = CodesOf(u)
          BY <1>0, <2>1, <3>1 DEF CodesOf
        <4> QED BY <2>2, <3>0, <3>1, <4>1
      <3>2. CASE u = o
        <4>1. CodesOf(u)' = CodesOf(u) \ {c} /\ c \in CodesOf(u)
          BY <1>0, <2>1, <3>2 DEF CodesOf
        <4>2. Cardinality(CodesOf(u) \ {c}) = Cardinality(CodesOf(u)) - 1
          BY <4>1, CodesFinite, FS_RemoveElement
        <4> QED BY <2>2, <3>0, <3>2, <4>1, <4>2, CodesFinite
      <3> QED BY <3>1, <3>2
    <2> QED BY <2>2, <2>3 DEF CreditOK
  <1> QED BY <1>1, <1>2

LEMMA CreditInv ==
  ASSUME IInv, CreditOK, [Next]_serviceVars
  PROVE  CreditOK'
  <1>a. codes' = codes /\ history' \in Credit /\ history'.credit = history.credit => CreditOK'
    BY NoNewCode
  <1>b. history \in Credit
    BY DEF CreditOK
  <1>1. CASE UNCHANGED serviceVars
    BY <1>1, <1>a, <1>b DEF serviceVars, accountVars, linkVars
  <1>2. ASSUME NEW p \in Procs, Requests(p) PROVE CreditOK'
    <2>1. codes' = codes
      BY <1>2, RequestsLeaveLink DEF linkVars
    <2>2. history' = history \/ history' = [history EXCEPT !.untrimmed = @ + 1]
      BY <1>2 DEF Requests, AccountRequest, Authenticate, BotLogin, BotLogout, DiscordLogin,
                  DevLogin, LinkLogin, DemoLogin, DemoRead
    <2> QED BY <1>a, <1>b, <2>1, <2>2 DEF Credit
  <1>3. ASSUME NEW p \in Procs, Work(p) PROVE CreditOK'
    <2>1. CASE LinkWork(p)
      BY <2>1, StoreCredits DEF IInv
    <2>2. ASSUME NEW c \in Codes, LinkRedeem(p, c) PROVE CreditOK'
      BY <2>2, RedeemDebits DEF IInv
    <2>3. CASE BotIssue(p) \/ Discard(p) \/ LinkDone(p) \/ LinkRefused(p) \/ LinkAccepted(p)
      <3>1. codes' = codes
        BY <2>3 DEF BotIssue, Discard, LinkDone, LinkRefused, LinkAccepted,
                    IssueRead, DiscardTake, Return
      <3>2. history' = history
        BY <2>3 DEF BotIssue, Discard, LinkDone, LinkRefused, LinkAccepted
      <3> QED BY <1>a, <1>b, <3>1, <3>2
    <2>4. CASE Quiet(p)
      <3>1. codes' = codes
        BY <2>4, QuietLeavesLink DEF linkVars
      <3>2. history' = history \/ history' = [history EXCEPT !.untrimmed = 0]
        BY <2>4 DEF Quiet, ScheduleDeletion, CancelDeletion, UpdateSettings, RegisterDevice,
                    UnregisterDevice, DiscardSkipped, DiscordCommit, IssueToken,
                    CapDemoTokens, DemoCommit
      <3> QED BY <1>a, <1>b, <3>1, <3>2 DEF Credit
    <2>5. CASE VoiceWork(p)
      <3>1. codes' = codes
        BY <2>5, VoiceFrame DEF linkVars
      <3>2. history' = history
        BY <2>5 DEF VoiceWork, VoiceQuota, Whisper, Bill
      <3> QED BY <1>a, <1>b, <3>1, <3>2
    <2> QED BY <1>3, <2>1, <2>2, <2>3, <2>4, <2>5 DEF Work, AccountWork, DemoReset, Quiet
  <1>4. ASSUME NEW p \in Procs, Lost(p) PROVE CreditOK'
    <2>1. codes' = codes /\ (history' = history \/ history' = [history EXCEPT !.untrimmed = @ + 1])
      BY <1>4 DEF Lost, RequestLost, linkVars
    <2> QED BY <1>a, <1>b, <2>1 DEF Credit
  <1>5. ASSUME NEW w \in Workers, Report(w) PROVE CreditOK'
    <2>1. codes' = codes
      BY <1>5, ReportFrame DEF linkVars
    <2>2. history' = history
      BY <1>5 DEF Report, ReportStart, ReportWork, ReportAcquire, ReportCount, ReportSend,
                  ReportCommit, ReportRaises, ReportLost, accountVars
    <2> QED BY <1>a, <1>b, <2>1, <2>2
  <1>6. CASE Outside
    <2>1. history' = history
      BY <1>6 DEF Outside, Environment, AppLogout, SweepDevices, WindowEnds, KeyExpires,
                  DedupExpires, accountVars
    <2>2. CASE codes' = codes
      BY <1>a, <1>b, <2>1, <2>2
    <2>3. ASSUME NEW c \in Codes, CodeExpires(c) PROVE CreditOK'
      <3>1. /\ codes \in [Codes -> Users \cup {NoUser}]
            /\ codes' = [codes EXCEPT ![c] = NoUser] /\ NoUser \notin Users
        BY <2>3, LinkAssumption DEF CodeExpires, IInv, LinkInv, LinkTypeOK
      <3> QED BY <1>b, <2>1, <3>1, NoNewCode
    <2>4. codes' = codes \/ \E c \in Codes : CodeExpires(c)
      BY <1>6 DEF Outside, Environment, AppLogout, SweepDevices, WindowEnds, KeyExpires,
                  LinkExpiry, IndexExpires, linkVars, DedupExpires, accountVars
    <2> QED BY <2>2, <2>3, <2>4
  <1>7. CASE Purge \/ NewDay
    <2>1. codes' = codes /\ history' = history
      BY <1>7 DEF Purge, PurgeAccounts, NewDay, Tick, linkVars
    <2> QED BY <1>a, <1>b, <2>1
  <1> QED BY <1>1, <1>2, <1>3, <1>4, <1>5, <1>6, <1>7 DEF Next

-----------------------------------------------------------------------------
(* The theorems. *)

LEMMA InitInv == Init => IInv
  <1> SUFFICES ASSUME Init PROVE IInv
    OBVIOUS
  <1> USE AccountAssumption
  <1>1. LinkInv
    BY LinkInitInv DEF Init, AccountInit
  <1>2. RequestsOK
    <2>1. now \in Days
      BY DEF Init, AccountInit, Days
    <2>2. tokens \in [TokenIds -> Token]
      <3>1. NoToken \in Token /\ \A u \in Users : [user |-> u, active |-> 1] \in Token
        BY DEF NoToken, Token, Days
      <3>2. \A i \in DOMAIN LoggedIn : LoggedIn[i] \in Users
        OBVIOUS
      <3> QED BY <3>1, <3>2 DEF Init, AccountInit
    <2>3. Idle \in Request /\ Idle.pc \in NoUserYet
      BY DEF Idle, Request, RequestPcs, NoUserYet
    <2>4. \A p \in Procs : link[p].pc # "redeemed"
      BY DEF Init, AccountInit, LinkInit, NoCall, CallAt
    <2> QED BY <2>1, <2>2, <2>3, <2>4 DEF Init, AccountInit, RequestsOK
  <1>3. StoriesOK
    <2>1. /\ NewUser \in Account /\ Gone \in Account
          /\ NewUser.purgeAt = Never /\ Gone.purgeAt = Never
      BY DEF NewUser, Gone, Account
    <2>2. users \in [Users -> Account] /\ \A u \in Users : users[u].purgeAt = Never
      BY <2>1 DEF Init, AccountInit
    <2>3. trail \in [Users -> Seq(Event)] /\ \A u \in Users : trail[u] = <<>>
      BY DEF Init, AccountInit
    <2> QED BY <2>2, <2>3 DEF StoriesOK, Story
  <1> QED BY <1>1, <1>2, <1>3 DEF IInv

LEMMA StepInv == IInv /\ [Next]_serviceVars => IInv'
  BY RequestsInv, StoriesInv, StepIsLinkStep, LinkStepInv DEF IInv

(* The inductive invariant of the account side: what requests, accounts,      *)
(* trails and codes are in every reachable state.                             *)
THEOREM ServiceInvariant == Spec => []IInv
  BY InitInv, StepInv, PTL DEF Spec

(* Every step of the service is a step of LinkCodes or leaves it alone, so    *)
(* LinkCodes says all there is to know of the codes.                          *)
THEOREM ServiceImplementsLinkCodes == Spec => LinkSpec
  <1>1. Init => LinkInit
    BY DEF Init, AccountInit
  <1>2. IInv /\ [Next]_serviceVars => [LinkNext]_linkVars
    BY StepIsLinkStep DEF IInv
  <1> QED BY <1>1, <1>2, ServiceInvariant, PTL DEF Spec, LinkSpec

(* For a user whose calls never overlapped nor were cut short, the reverse    *)
(* key leads to the live code under all requests of the API and the bot       *)
(* (issue_code, redeem_code, discard_pending_code).                           *)
THEOREM LiveCodesFound == Spec => []LiveCodeIsIndexed
  BY ServiceImplementsLinkCodes, LiveCodeIndexed, PTL

(* The audit trail and purge_at tell the same story whatever a request saw    *)
(* when it was authenticated (account_deletion.py), and no purge comes before *)
(* the date its request set (_run_purge).                                     *)
THEOREM TrailsMatch == Spec => []TrailMatchesAccount
  <1>1. Init => PurgesOK
    <2>1. Init => \A u \in Users : trail[u] = <<>>
      BY DEF Init, AccountInit
    <2> QED BY <2>1 DEF PurgesOK, Purged
  <1>2. IInv /\ PurgesOK /\ [Next]_serviceVars => PurgesOK'
    BY PurgesInv
  <1>3. StoriesOK /\ PurgesOK => TrailMatchesAccount
    BY DEF StoriesOK, Story, PurgesOK, Purged, TrailMatchesAccount, LastEvent
  <1>4. IInv /\ PurgesOK => TrailMatchesAccount
    BY <1>3 DEF IInv
  <1> QED BY <1>1, <1>2, <1>4, ServiceInvariant, PTL DEF Spec

LEMMA CreditAlways == Spec => []CreditOK
  <1>1. Init => CreditOK
    <2> SUFFICES ASSUME Init PROVE CreditOK
      OBVIOUS
    <2>1. history = [credit |-> [u \in Users |-> 0], untrimmed |-> 0]
      BY DEF Init, AccountInit
    <2>2. \A u \in Users : CodesOf(u) = {}
      BY LinkAssumption DEF Init, AccountInit, LinkInit, CodesOf
    <2>3. Cardinality({}) = 0
      BY FS_EmptySet
    <2> QED BY <2>1, <2>2, <2>3 DEF CreditOK, Credit
  <1>2. IInv /\ CreditOK /\ [Next]_serviceVars => CreditOK'
    BY CreditInv
  <1> QED BY <1>1, <1>2, ServiceInvariant, PTL DEF Spec

(* A code logs in once: what is live for a user was stored by a /login of his *)
(* and not redeemed (redeem_code's GETDEL).                                   *)
THEOREM CodesCredited == Spec => []CodesAreCredited
  <1>1. CreditOK => CodesAreCredited
    BY DEF CreditOK, CodesAreCredited
  <1> QED BY <1>1, CreditAlways, PTL

-----------------------------------------------------------------------------
(* WeeklyReportOnce for any number of users, devices, runs and requests.  It  *)
(* is not inductive: what a push, a raise or a death leaves behind depends on *)
(* who holds the dedup key, so the invariant follows the key.                 *)

Outcome == [pushed : Nat, raised : Nat, lapsed : Nat, excused : BOOLEAN]

\* The run has taken the user's key and has not finished with it.
HoldsKey(w) == job[w].pc \in {"count", "send", "commit"}

\* A run holds its key alone, and between keys it holds nothing.
HoldersOK ==
    /\ \A w \in Workers : HoldsKey(w) => job[w].user \in Users /\ KeySet(job[w].user)
    /\ \A w \in Workers : ~HoldsKey(w) => job[w].user = NoUser
    /\ \A w, x \in Workers : HoldsKey(w) /\ HoldsKey(x) /\ job[w].user = job[x].user => w = x
    /\ \A w \in Workers : job[w].pc # "commit" => job[w].live = {}

\* A push that stands has left the key set or is a holder's own.
PushesOK ==
    /\ \A u \in Users : Standing(outcome[u]) \in {0, 1}
    /\ \A u \in Users : ~KeySet(u) => Standing(outcome[u]) = 0
    /\ \A w \in Workers : HoldsKey(w) =>
          Standing(outcome[job[w].user]) = IF job[w].live = {} THEN 0 ELSE 1

\* A key nobody holds has a reason.
KeysOK ==
    \A u \in Users : KeySet(u) /\ (\A w \in Workers : job[w].user # u) =>
                        Standing(outcome[u]) = 1 \/ outcome[u].excused

TypesOK ==
    /\ job \in [Workers -> Job]
    /\ dedup \in [Users -> {Never} \cup Days]
    /\ outcome \in [Users -> Outcome]
    /\ DOMAIN devices = Devices

ReportInv == TypesOK /\ HoldersOK /\ PushesOK /\ KeysOK

-----------------------------------------------------------------------------
LEMMA ReportInitInv == Init => ReportInv
  <1> SUFFICES ASSUME Init PROVE ReportInv
    OBVIOUS
  <1>1. NoJob \in Job /\ NoJob.pc = "idle" /\ NoJob.user = NoUser /\ NoJob.live = {}
    BY DEF NoJob, Job
  <1>2. \A w \in Workers : job[w] = NoJob
    BY DEF Init, ReportInit
  <1>3. \A u \in Users : /\ outcome[u] = [pushed |-> 0, raised |-> 0, lapsed |-> 0, excused |-> FALSE]
                         /\ ~KeySet(u)
    BY DEF Init, ReportInit, KeySet
  <1>4. TypesOK
    BY <1>1 DEF Init, AccountInit, ReportInit, TypesOK, Outcome
  <1>5. HoldersOK
    BY <1>1, <1>2 DEF HoldersOK, HoldsKey
  <1>6. PushesOK
    BY <1>1, <1>2, <1>3 DEF PushesOK, Standing, HoldsKey
  <1>7. KeysOK
    BY <1>3 DEF KeysOK
  <1> QED BY <1>4, <1>5, <1>6, <1>7 DEF ReportInv

(* A run that holds a key holds it of a user: NoUser has none.                *)
LEMMA HolderNamed ==
  ASSUME ReportInv, NEW w \in Workers, HoldsKey(w)
  PROVE  job[w].user \in Users /\ job[w].user # NoUser
  BY LinkAssumption DEF ReportInv, HoldersOK

(* A run finishes with the user whose key it holds: it keeps the key with a   *)
(* push that stands or an excuse, or gives it back with none that stands.     *)
LEMMA Finished ==
  ASSUME ReportInv, NEW w \in Workers, HoldsKey(w),
         NEW j \in Job, j.pc \in {"idle", "users"}, j.user = NoUser, j.live = {},
         job' = [job EXCEPT ![w] = j],
         NEW o \in Outcome, outcome' = [outcome EXCEPT ![job[w].user] = o],
         \/ /\ dedup' = dedup
            /\ Standing(o) \in {0, 1}
            /\ Standing(o) = 1 \/ o.excused
         \/ dedup' = [dedup EXCEPT ![job[w].user] = Never] /\ Standing(o) = 0,
         DOMAIN devices' = Devices
  PROVE  ReportInv'
  <1> DEFINE u == job[w].user
  <1>0. TypesOK /\ HoldersOK /\ PushesOK /\ KeysOK
    BY DEF ReportInv
  <1>1. KeySet(u) /\ u \in Users /\ u # NoUser
    BY <1>0, HolderNamed DEF HoldersOK
  <1>2. job' \in [Workers -> Job] /\ job'[w] = j /\ \A x \in Workers : x # w => job'[x] = job[x]
    BY <1>0 DEF TypesOK
  <1>3. /\ outcome' \in [Users -> Outcome] /\ outcome'[u] = o
        /\ \A v \in Users : v # u => outcome'[v] = outcome[v]
    BY <1>0, <1>1 DEF TypesOK
  <1>4. /\ dedup' \in [Users -> {Never} \cup Days]
        /\ \A v \in Users : v # u => dedup'[v] = dedup[v]
        /\ dedup'[u] = Never => Standing(o) = 0
        /\ dedup'[u] # Never => Standing(o) = 1 \/ o.excused
    BY <1>0, <1>1 DEF TypesOK, KeySet
  <1>5. Standing(o) \in {0, 1}
    OBVIOUS
  <1>6. /\ ~HoldsKey(w)' /\ job'[w].user = NoUser /\ job'[w].live = {}
        /\ \A x \in Workers : x # w => (HoldsKey(x)' <=> HoldsKey(x))
    BY <1>2 DEF HoldsKey
  <1>7. \A x \in Workers : x # w /\ HoldsKey(x) => job[x].user # u /\ job[x].user \in Users
    BY <1>0, HolderNamed DEF HoldersOK
  <1>8. TypesOK'
    BY <1>0, <1>2, <1>3, <1>4 DEF TypesOK
  <1>9. HoldersOK'
    BY <1>0, <1>2, <1>4, <1>6, <1>7 DEF HoldersOK, KeySet
  <1>10. PushesOK'
    <2>1. \A v \in Users : /\ Standing(outcome'[v]) \in {0, 1}
                           /\ ~KeySet(v)' => Standing(outcome'[v]) = 0
      BY <1>0, <1>3, <1>4, <1>5 DEF PushesOK, KeySet
    <2>2. \A x \in Workers : HoldsKey(x)' =>
             /\ x # w /\ HoldsKey(x) /\ job'[x] = job[x]
             /\ job[x].user \in Users /\ outcome'[job[x].user] = outcome[job[x].user]
      BY <1>2, <1>3, <1>6, <1>7
    <2> QED BY <1>0, <2>1, <2>2 DEF PushesOK
  <1>11. KeysOK'
    <2> SUFFICES ASSUME NEW v \in Users, KeySet(v)', \A x \in Workers : job'[x].user # v
                 PROVE  Standing(outcome'[v]) = 1 \/ outcome'[v].excused
      BY DEF KeysOK
    <2>1. CASE v = u
      BY <1>3, <1>4, <2>1 DEF KeySet
    <2>2. CASE v # u
      <3>1. \A x \in Workers : job[x].user # v
        BY <1>2, <2>2
      <3> QED BY <1>0, <1>3, <1>4, <2>2, <3>1 DEF KeysOK, KeySet
    <2> QED BY <2>1, <2>2
  <1> QED BY <1>8, <1>9, <1>10, <1>11 DEF ReportInv

(* The run that goes on to its next user.                                     *)
LEMMA NextUserIdle ==
  ASSUME ReportInv, NEW w \in Workers, NextUser(w)
  PROVE  \E j \in Job : /\ j.pc \in {"idle", "users"} /\ j.user = NoUser /\ j.live = {}
                        /\ job' = [job EXCEPT ![w] = j]
  <1> DEFINE rest == job[w].todo \ {job[w].user}
             j == [NoJob EXCEPT !.todo = rest, !.pc = IF rest = {} THEN "idle" ELSE "users"]
  <1>1. rest \in SUBSET Users
    BY DEF ReportInv, TypesOK, Job
  <1>2. j \in Job /\ j.pc \in {"idle", "users"} /\ j.user = NoUser /\ j.live = {}
    BY <1>1 DEF NoJob, Job
  <1>3. job' = [job EXCEPT ![w] = j]
    BY DEF NextUser
  <1> HIDE DEF j
  <1> QED BY <1>2, <1>3

(* The key a run holds is given back, or the DEL fails and it stays.          *)
LEMMA Released ==
  ASSUME ReportInv, NEW w \in Workers, HoldsKey(w), NextUser(w),
         NEW o \in Outcome, Standing(o) = 0, Release(job[w].user, o),
         DOMAIN devices' = Devices
  PROVE  ReportInv'
  <1>1. CASE /\ dedup' = [dedup EXCEPT ![job[w].user] = Never]
             /\ outcome' = [outcome EXCEPT ![job[w].user] = o]
    BY <1>1, NextUserIdle, Finished
  <1>2. CASE /\ dedup' = dedup
             /\ outcome' = [outcome EXCEPT ![job[w].user] = [o EXCEPT !.excused = TRUE]]
    <2>1. PICK e \in Outcome : e = [o EXCEPT !.excused = TRUE]
      BY DEF Outcome
    <2>2. e.excused /\ Standing(e) = 0
      BY <2>1 DEF Standing, Outcome
    <2> QED BY <1>2, <2>1, <2>2, NextUserIdle, Finished
  <1> QED BY <1>1, <1>2 DEF Release

(* A run that delivered nothing gives the key back, or leaves it with the     *)
(* excuse that it had counted no device.                                      *)
LEMMA UndeliveredInv ==
  ASSUME ReportInv, NEW w \in Workers, HoldsKey(w), job[w].live = {}, NextUser(w),
         Undelivered(job[w].user, job[w].counted), DOMAIN devices' = Devices
  PROVE  ReportInv'
  <1> DEFINE u == job[w].user
  <1>0. /\ u \in Users /\ outcome \in [Users -> Outcome]
        /\ outcome[u] \in Outcome /\ Standing(outcome[u]) = 0
    BY HolderNamed DEF ReportInv, TypesOK, PushesOK
  <1>1. CASE job[w].counted
    <2>1. PICK o \in Outcome : o = outcome[u] /\ Standing(o) = 0
      BY <1>0
    <2>2. Release(u, o)
      BY <1>1, <2>1 DEF Undelivered
    <2> QED BY <2>1, <2>2, Released
  <1>2. CASE ~job[w].counted
    <2>1. PICK o \in Outcome : o = [outcome[u] EXCEPT !.excused = TRUE]
      BY <1>0 DEF Outcome
    <2>2. o.excused /\ Standing(o) = 0
      BY <1>0, <2>1 DEF Standing, Outcome
    <2>3. dedup' = dedup /\ outcome' = [outcome EXCEPT ![u] = o]
      BY <1>0, <1>2, <2>1 DEF Undelivered, Outcome
    <2> QED BY <2>2, <2>3, NextUserIdle, Finished
  <1> QED BY <1>1, <1>2

(* A key that no run holds is written: taken by a client that never hears of  *)
(* it, or run out.  No push stands in its user's history after that.          *)
WrittenAlone ==
    \E u \in Users, day \in {Never} \cup Days, o \in Outcome :
        /\ \A w \in Workers : job[w].user # u
        /\ dedup' = [dedup EXCEPT ![u] = day]
        /\ outcome' = [outcome EXCEPT ![u] = o]
        /\ Standing(o) = 0
        /\ day # Never => o.excused

(* The runs go on without touching the keys they hold.                        *)
LEMMA Aside ==
  ASSUME ReportInv, UNCHANGED <<dedup, outcome>> \/ WrittenAlone,
         job' \in [Workers -> Job], DOMAIN devices' = Devices,
         \A x \in Workers : /\ job'[x].user = job[x].user /\ job'[x].live = job[x].live
                            /\ HoldsKey(x)' <=> HoldsKey(x)
                            /\ job'[x].pc # "commit" => job'[x].live = {}
  PROVE  ReportInv'
  <1>0. TypesOK /\ HoldersOK /\ PushesOK /\ KeysOK
    BY DEF ReportInv
  <1>1. CASE UNCHANGED <<dedup, outcome>>
    BY <1>0, <1>1 DEF ReportInv, TypesOK, HoldersOK, PushesOK, KeysOK, KeySet
  <1>2. ASSUME NEW u \in Users, NEW day \in {Never} \cup Days, NEW o \in Outcome,
               \A w \in Workers : job[w].user # u,
               dedup' = [dedup EXCEPT ![u] = day], outcome' = [outcome EXCEPT ![u] = o],
               Standing(o) = 0, day # Never => o.excused
        PROVE  ReportInv'
    <2>1. /\ dedup' \in [Users -> {Never} \cup Days] /\ dedup'[u] = day
          /\ \A v \in Users : v # u => dedup'[v] = dedup[v]
          /\ outcome' \in [Users -> Outcome] /\ outcome'[u] = o
          /\ \A v \in Users : v # u => outcome'[v] = outcome[v]
      BY <1>0, <1>2 DEF TypesOK
    <2>2. \A w \in Workers : HoldsKey(w) => job[w].user \in Users /\ job[w].user # u
      BY <1>2, HolderNamed
    <2>3. TypesOK'
      BY <1>0, <2>1 DEF TypesOK
    <2>4. HoldersOK'
      BY <1>0, <2>1, <2>2 DEF HoldersOK, KeySet
    <2>5. PushesOK'
      BY <1>0, <1>2, <2>1, <2>2 DEF PushesOK, KeySet
    <2>6. KeysOK'
      BY <1>0, <1>2, <2>1 DEF KeysOK, KeySet
    <2> QED BY <2>3, <2>4, <2>5, <2>6 DEF ReportInv
  <1> QED BY <1>1, <1>2 DEF WrittenAlone

(* A run between users takes on, skips or drops users.                        *)
LEMMA Idling ==
  ASSUME ReportInv, NEW w \in Workers, ~HoldsKey(w),
         NEW j \in Job, j.pc \in {"idle", "users"}, j.user = NoUser, j.live = {},
         job' = [job EXCEPT ![w] = j], UNCHANGED <<dedup, outcome>> \/ WrittenAlone,
         DOMAIN devices' = Devices
  PROVE  ReportInv'
  <1>0. TypesOK /\ HoldersOK
    BY DEF ReportInv
  <1>1. /\ job' \in [Workers -> Job] /\ job'[w] = j
        /\ \A x \in Workers : x # w => job'[x] = job[x]
    BY <1>0 DEF TypesOK
  <1>2. ~HoldsKey(w)' /\ \A x \in Workers : HoldsKey(x)' <=> HoldsKey(x)
    BY <1>1 DEF HoldsKey
  <1>3. \A x \in Workers : /\ job'[x].user = job[x].user /\ job'[x].live = job[x].live
                           /\ job'[x].pc # "commit" => job'[x].live = {}
    BY <1>0, <1>1 DEF HoldersOK, HoldsKey
  <1> QED BY <1>1, <1>2, <1>3, Aside

(* SET NX: the key was free, so no other run holds it and no push of this     *)
(* user stands.                                                               *)
LEMMA AcquireInv ==
  ASSUME ReportInv, now \in Days, NEW w \in Workers, NEW u \in Users, ReportAcquire(w, u)
  PROVE  ReportInv'
  <1>0. TypesOK /\ HoldersOK /\ PushesOK /\ KeysOK /\ job[w] \in Job
    BY DEF ReportInv, TypesOK
  <1>1. ~HoldsKey(w) /\ job[w].user = NoUser /\ job[w].live = {} /\ u # NoUser
    BY <1>0, LinkAssumption DEF ReportAcquire, HoldsKey, HoldersOK
  <1>d. DOMAIN devices' = Devices
    BY <1>0 DEF ReportAcquire, accountVars, TypesOK
  <1>k. ASSUME ~KeySet(u) PROVE \A x \in Workers : job[x].user # u
    BY <1>k, <1>1, <1>0 DEF HoldersOK
  <1>2. CASE /\ ~KeySet(u) /\ SetKey(u, FALSE)
             /\ job' = [job EXCEPT ![w].pc = "count", ![w].user = u]
    <2>1. /\ job' \in [Workers -> Job]
          /\ job'[w].pc = "count" /\ job'[w].user = u /\ job'[w].live = {}
          /\ \A x \in Workers : x # w => job'[x] = job[x]
      BY <1>0, <1>1, <1>2 DEF TypesOK, Job
    <2>2. HoldsKey(w)' /\ \A x \in Workers : x # w => (HoldsKey(x)' <=> HoldsKey(x))
      BY <2>1 DEF HoldsKey
    <2>3. PICK o \in Outcome : o = [outcome[u] EXCEPT !.excused = FALSE]
      BY <1>0 DEF TypesOK, Outcome
    <2>4. Standing(o) = Standing(outcome[u])
      BY <1>0, <2>3 DEF Standing, Outcome, TypesOK
    <2>5. outcome' = [outcome EXCEPT ![u] = o] /\ dedup' = [dedup EXCEPT ![u] = now]
      BY <1>0, <1>2, <2>3 DEF SetKey, TypesOK, Outcome
    <2>6. /\ dedup' \in [Users -> {Never} \cup Days] /\ KeySet(u)'
          /\ \A v \in Users : v # u => (KeySet(v)' <=> KeySet(v))
          /\ outcome' \in [Users -> Outcome] /\ outcome'[u] = o
          /\ \A v \in Users : v # u => outcome'[v] = outcome[v]
      BY <1>0, <2>5 DEF TypesOK, KeySet, Days, Never
    <2>7. \A x \in Workers : HoldsKey(x) => job[x].user \in Users /\ job[x].user # u
      BY <1>0, <1>2, <1>k, HolderNamed
    <2>8. TypesOK'
      BY <1>d, <2>1, <2>6 DEF TypesOK
    <2>9. HoldersOK'
      BY <1>0, <2>1, <2>2, <2>6, <2>7 DEF HoldersOK
    <2>10. PushesOK'
      <3>1. Standing(outcome[u]) = 0
        BY <1>0, <1>2 DEF PushesOK
      <3>2. \A v \in Users : /\ Standing(outcome'[v]) \in {0, 1}
                             /\ ~KeySet(v)' => Standing(outcome'[v]) = 0
        BY <1>0, <2>4, <2>6, <3>1 DEF PushesOK
      <3>3. ASSUME NEW x \in Workers, HoldsKey(x)'
            PROVE  Standing(outcome'[job'[x].user]) = IF job'[x].live = {} THEN 0 ELSE 1
        BY <1>0, <2>1, <2>2, <2>4, <2>6, <2>7, <3>1, <3>3 DEF PushesOK
      <3> QED BY <3>2, <3>3 DEF PushesOK
    <2>11. KeysOK'
      <3> SUFFICES ASSUME NEW v \in Users, KeySet(v)', \A x \in Workers : job'[x].user # v
                   PROVE  Standing(outcome'[v]) = 1 \/ outcome'[v].excused
        BY DEF KeysOK
      <3>1. v # u /\ KeySet(v)
        BY <2>1, <2>6
      <3>2. \A x \in Workers : job[x].user # v
        BY <1>1, <2>1, LinkAssumption
      <3> QED BY <1>0, <2>6, <3>1, <3>2 DEF KeysOK
    <2> QED BY <2>8, <2>9, <2>10, <2>11 DEF ReportInv
  <1>3. CASE /\ \/ ~KeySet(u) /\ SetKey(u, TRUE)
                \/ UNCHANGED <<dedup, outcome>>
             /\ job' = [job EXCEPT ![w].todo = @ \ {u},
                          ![w].pc = IF job[w].todo = {u} THEN "idle" ELSE "users"]
    <2>1. PICK j \in Job : j = [job[w] EXCEPT !.todo = @ \ {u},
                                !.pc = IF job[w].todo = {u} THEN "idle" ELSE "users"]
      BY <1>0 DEF Job
    <2>2. job' = [job EXCEPT ![w] = j]
      BY <1>0, <1>3, <2>1 DEF TypesOK, Job
    <2>3. j.pc \in {"idle", "users"} /\ j.user = NoUser /\ j.live = {}
      BY <1>0, <1>1, <2>1 DEF Job
    <2>4. CASE UNCHANGED <<dedup, outcome>>
      BY <1>1, <2>2, <2>3, <2>4, <1>d, Idling
    <2>5. CASE ~KeySet(u) /\ SetKey(u, TRUE)
      <3>1. PICK o \in Outcome : o = [outcome[u] EXCEPT !.excused = TRUE]
        BY <1>0 DEF TypesOK, Outcome
      <3>2. Standing(o) = 0 /\ o.excused
        BY <1>0, <2>5, <3>1 DEF Standing, Outcome, TypesOK, PushesOK
      <3>3. outcome' = [outcome EXCEPT ![u] = o] /\ dedup' = [dedup EXCEPT ![u] = now]
        BY <1>0, <2>5, <3>1 DEF SetKey, TypesOK, Outcome
      <3>4. WrittenAlone
        BY <1>k, <2>5, <3>2, <3>3 DEF WrittenAlone
      <3> QED BY <1>1, <1>d, <2>2, <2>3, <3>2, <3>3, <3>4, Idling
    <2> QED BY <1>3, <2>4, <2>5
  <1> QED BY <1>2, <1>3 DEF ReportAcquire

(* The report has devices to go to, or none.                                  *)
LEMMA CountInv ==
  ASSUME ReportInv, NEW w \in Workers, ReportCount(w)
  PROVE  ReportInv'
  <1>0. TypesOK /\ HoldersOK /\ PushesOK /\ KeysOK /\ job[w] \in Job
    BY DEF ReportInv, TypesOK
  <1>1. HoldsKey(w) /\ job[w].live = {}
    BY <1>0 DEF ReportCount, HoldsKey, HoldersOK
  <1>d. DOMAIN devices' = Devices
    BY <1>0 DEF ReportCount, accountVars, TypesOK
  <1>2. job[w].user \in Users
    BY <1>1, HolderNamed
  <1>3. CASE ~users[job[w].user].exists
    <2>1. NextUser(w) /\ Release(job[w].user, outcome[job[w].user])
      BY <1>3 DEF ReportCount
    <2>2. outcome[job[w].user] \in Outcome /\ Standing(outcome[job[w].user]) = 0
      BY <1>0, <1>1, <1>2 DEF TypesOK, PushesOK
    <2> QED BY <1>1, <1>d, <2>1, <2>2, Released
  <1>4. CASE users[job[w].user].exists
    <2>1. /\ job' = [job EXCEPT ![w].pc = "send", ![w].counted = Owned(devices, job[w].user) # {}]
          /\ dedup' = dedup /\ outcome' = outcome
      BY <1>4 DEF ReportCount
    <2>2. /\ job' \in [Workers -> Job]
          /\ job'[w].pc = "send" /\ job'[w].live = {}
          /\ \A x \in Workers : job'[x].user = job[x].user /\ job'[x].live = job[x].live
          /\ \A x \in Workers : x # w => job'[x] = job[x]
      BY <1>0, <1>1, <2>1 DEF TypesOK, Job
    <2>3. \A x \in Workers : HoldsKey(x)' <=> HoldsKey(x)
      BY <1>1, <2>2 DEF HoldsKey
    <2>4. \A x \in Workers : job'[x].pc # "commit" => job'[x].live = {}
      BY <1>0, <2>2 DEF HoldersOK
    <2> QED BY <1>d, <2>1, <2>2, <2>3, <2>4, Aside
  <1> QED BY <1>3, <1>4

(* The push is the holder's first, and no other of its user stands.           *)
LEMMA SendInv ==
  ASSUME ReportInv, NEW w \in Workers, ReportSend(w)
  PROVE  ReportInv'
  <1>0. TypesOK /\ HoldersOK /\ PushesOK /\ KeysOK /\ job[w] \in Job
    BY DEF ReportInv, TypesOK
  <1> DEFINE u == job[w].user
             rows == Owned(devices, u)
  <1>1. HoldsKey(w) /\ job[w].live = {}
    BY <1>0 DEF ReportSend, HoldsKey, HoldersOK
  <1>d. DOMAIN devices' = Devices
    BY <1>0 DEF ReportSend, accountVars, TypesOK
  <1>2. u \in Users /\ outcome[u] \in Outcome /\ Standing(outcome[u]) = 0
    BY <1>0, <1>1, HolderNamed DEF TypesOK, PushesOK
  <1>3. CASE rows = {}
    <2>1. NextUser(w) /\ Undelivered(u, job[w].counted)
      BY <1>3 DEF ReportSend
    <2> QED BY <1>1, <1>d, <2>1, UndeliveredInv
  <1>4. ASSUME NEW live \in SUBSET rows, NEW dead \in SUBSET (rows \ live),
               job' = [job EXCEPT ![w].pc = "commit", ![w].live = live, ![w].dead = dead],
               outcome' = [outcome EXCEPT ![u].pushed = IF live = {} THEN @ ELSE @ + 1],
               dedup' = dedup
        PROVE  ReportInv'
    <2>0. live \in SUBSET Devices /\ dead \in SUBSET Devices
      BY <1>0 DEF Owned, TypesOK
    <2>1. /\ job' \in [Workers -> Job]
          /\ job'[w].pc = "commit" /\ job'[w].live = live /\ job'[w].user = u
          /\ \A x \in Workers : x # w => job'[x] = job[x]
      BY <1>0, <1>4, <2>0 DEF TypesOK, Job
    <2>2. \A x \in Workers : (HoldsKey(x)' <=> HoldsKey(x)) /\ job'[x].user = job[x].user
      BY <1>1, <2>1 DEF HoldsKey
    <2>3. /\ outcome' \in [Users -> Outcome]
          /\ Standing(outcome'[u]) = IF live = {} THEN 0 ELSE 1
          /\ outcome'[u].excused = outcome[u].excused
          /\ \A v \in Users : v # u => outcome'[v] = outcome[v]
      BY <1>0, <1>2, <1>4 DEF TypesOK, Outcome, Standing
    <2>4. \A x \in Workers : x # w /\ HoldsKey(x) => job[x].user # u /\ job[x].user \in Users
      BY <1>0, <1>1, HolderNamed DEF HoldersOK
    <2>5. TypesOK'
      BY <1>0, <1>d, <1>4, <2>1, <2>3 DEF TypesOK
    <2>6. HoldersOK'
      BY <1>0, <1>4, <2>1, <2>2 DEF HoldersOK, KeySet
    <2>7. PushesOK'
      <3>1. KeySet(u)
        BY <1>0, <1>1 DEF HoldersOK
      <3>2. \A v \in Users : /\ Standing(outcome'[v]) \in {0, 1}
                             /\ ~KeySet(v)' => Standing(outcome'[v]) = 0
        BY <1>0, <1>4, <2>3, <3>1 DEF PushesOK, KeySet
      <3>3. ASSUME NEW x \in Workers, HoldsKey(x)'
            PROVE  Standing(outcome'[job'[x].user]) = IF job'[x].live = {} THEN 0 ELSE 1
        <4>1. CASE x = w
          BY <2>1, <2>3, <4>1
        <4>2. CASE x # w
          BY <1>0, <2>1, <2>2, <2>3, <2>4, <3>3, <4>2 DEF PushesOK
        <4> QED BY <4>1, <4>2
      <3> QED BY <3>2, <3>3 DEF PushesOK
    <2>8. KeysOK'
      <3> SUFFICES ASSUME NEW v \in Users, KeySet(v)', \A x \in Workers : job'[x].user # v
                   PROVE  Standing(outcome'[v]) = 1 \/ outcome'[v].excused
        BY DEF KeysOK
      <3>1. v # u /\ KeySet(v) /\ \A x \in Workers : job[x].user # v
        BY <1>4, <2>1, <2>2 DEF KeySet
      <3> QED BY <1>0, <2>3, <3>1 DEF KeysOK
    <2> QED BY <2>5, <2>6, <2>7, <2>8 DEF ReportInv
  <1> QED BY <1>3, <1>4 DEF ReportSend

(* A delivered push keeps the key; a user none of whose devices took it gives *)
(* it back, unless it had none when they were counted or Redis fails.         *)
LEMMA CommitInv ==
  ASSUME ReportInv, NEW w \in Workers, ReportCommit(w)
  PROVE  ReportInv'
  <1> DEFINE u == job[w].user
  <1>1. HoldsKey(w) /\ DOMAIN devices' = Devices /\ NextUser(w)
    BY DEF ReportCommit, HoldsKey
  <1>2. CASE job[w].live = {}
    <2>1. Undelivered(u, job[w].counted)
      BY <1>2 DEF ReportCommit
    <2> QED BY <1>1, <1>2, <2>1, UndeliveredInv
  <1>3. CASE job[w].live # {}
    <2>1. /\ u \in Users /\ outcome \in [Users -> Outcome]
          /\ outcome[u] \in Outcome /\ Standing(outcome[u]) = 1
      BY <1>1, <1>3, HolderNamed DEF ReportInv, TypesOK, PushesOK
    <2>2. PICK o \in Outcome : o = outcome[u] /\ Standing(o) = 1
      BY <2>1
    <2>3. outcome' = [outcome EXCEPT ![u] = o] /\ dedup' = dedup
      BY <1>3, <2>1, <2>2 DEF ReportCommit
    <2> QED BY <1>1, <2>2, <2>3, NextUserIdle, Finished
  <1> QED BY <1>2, <1>3

(* What raises after a push is counted, and gives the key back.               *)
LEMMA RaisesInv ==
  ASSUME ReportInv, NEW w \in Workers, ReportRaises(w)
  PROVE  ReportInv'
  <1> DEFINE u == job[w].user
             o == IF job[w].live = {} THEN outcome[u] ELSE [outcome[u] EXCEPT !.raised = @ + 1]
  <1>1. HoldsKey(w) /\ DOMAIN devices' = Devices /\ NextUser(w) /\ Release(u, o)
    BY DEF ReportRaises, HoldsKey, ReportInv, TypesOK, accountVars
  <1>2. /\ u \in Users /\ outcome[u] \in Outcome
        /\ Standing(outcome[u]) = IF job[w].live = {} THEN 0 ELSE 1
    BY <1>1, HolderNamed DEF ReportInv, TypesOK, PushesOK
  <1>3. o \in Outcome /\ Standing(o) = 0
    BY <1>2 DEF Outcome, Standing
  <1> HIDE DEF o
  <1> QED BY <1>1, <1>3, Released

(* A worker that dies leaves the key it holds, and that is its excuse.        *)
LEMMA LostInv ==
  ASSUME ReportInv, NEW w \in Workers, ReportLost(w)
  PROVE  ReportInv'
  <1>0. TypesOK /\ HoldersOK /\ PushesOK /\ job[w] \in Job
    BY DEF ReportInv, TypesOK
  <1> DEFINE u == job[w].user
  <1>1. NoJob \in Job /\ NoJob.pc = "idle" /\ NoJob.user = NoUser /\ NoJob.live = {}
    BY DEF NoJob, Job
  <1>2. DOMAIN devices' = Devices
    BY <1>0 DEF ReportLost, accountVars, TypesOK
  <1>3. CASE HoldsKey(w)
    <2>1. u \in Users /\ outcome[u] \in Outcome /\ Standing(outcome[u]) \in {0, 1}
      BY <1>0, <1>3, HolderNamed DEF TypesOK, PushesOK
    <2>2. PICK o \in Outcome : o = [outcome[u] EXCEPT !.excused = TRUE]
      BY <2>1 DEF Outcome
    <2>3. outcome' = [outcome EXCEPT ![u] = o]
      BY <1>0, <1>3, <2>1, <2>2 DEF ReportLost, TypesOK, Outcome, HoldsKey
    <2>4. Standing(o) \in {0, 1} /\ o.excused
      BY <2>1, <2>2 DEF Outcome, Standing
    <2> QED BY <1>1, <1>2, <1>3, <2>3, <2>4, Finished DEF ReportLost
  <1>4. CASE ~HoldsKey(w)
    <2>1. job[w].user = NoUser /\ NoUser \notin Users
      BY <1>0, <1>4, LinkAssumption DEF HoldersOK
    <2>2. outcome' = outcome
      BY <1>0, <2>1 DEF ReportLost, TypesOK
    <2> QED BY <1>1, <1>2, <1>4, <2>2, Idling DEF ReportLost
  <1> QED BY <1>3, <1>4

(* A key that runs out takes the push that stood under it along.              *)
LEMMA LapseInv ==
  ASSUME ReportInv, NEW u \in Users, DedupExpires(u)
  PROVE  ReportInv'
  <1>1. /\ outcome \in [Users -> Outcome] /\ outcome[u] \in Outcome
        /\ Standing(outcome[u]) \in {0, 1}
    BY DEF ReportInv, TypesOK, PushesOK
  <1>2. outcome[u].pushed - outcome[u].raised \in Nat
    BY <1>1 DEF Standing, Outcome
  <1>3. PICK o \in Outcome : o = [outcome[u] EXCEPT !.lapsed = outcome[u].pushed - outcome[u].raised]
    BY <1>1, <1>2 DEF Outcome
  <1>4. Standing(o) = 0
    BY <1>1, <1>3 DEF Standing, Outcome
  <1>5. /\ outcome' = [outcome EXCEPT ![u] = o] /\ dedup' = [dedup EXCEPT ![u] = Never]
        /\ \A w \in Workers : job[w].user # u
        /\ job' = job /\ DOMAIN devices' = Devices
    BY <1>1, <1>3 DEF DedupExpires, ReportInv, TypesOK, accountVars, Outcome
  <1>6. WrittenAlone
    BY <1>4, <1>5 DEF WrittenAlone
  <1>7. /\ job' \in [Workers -> Job]
        /\ \A x \in Workers : /\ job'[x] = job[x] /\ (HoldsKey(x)' <=> HoldsKey(x))
                              /\ job'[x].pc # "commit" => job'[x].live = {}
    BY <1>5 DEF ReportInv, TypesOK, HoldersOK, HoldsKey
  <1> QED BY <1>5, <1>6, <1>7, Aside

(* A run begins with the users that want a report.                            *)
LEMMA StartInv ==
  ASSUME ReportInv, NEW w \in Workers, ReportStart(w)
  PROVE  ReportInv'
  <1> DEFINE listed == {u \in Users : users[u].report /\ users[u].purgeAt = Never}
  <1>1. PICK j \in Job : j = [NoJob EXCEPT !.pc = "users", !.todo = listed]
    BY DEF NoJob, Job
  <1>2. job' = [job EXCEPT ![w] = j]
    BY <1>1 DEF ReportStart, ReportInv, TypesOK, Job
  <1>3. j.pc = "users" /\ j.user = NoUser /\ j.live = {}
    BY <1>1 DEF NoJob
  <1>4. ~HoldsKey(w) /\ DOMAIN devices' = Devices
    BY DEF ReportStart, HoldsKey, NoJob, ReportInv, TypesOK
  <1>5. UNCHANGED <<dedup, outcome>>
    BY DEF ReportStart
  <1> QED BY <1>2, <1>3, <1>4, <1>5, Idling

(* The rest of the service moves and deletes devices, and touches no run.     *)
LEMMA OthersKeepDevices ==
  ASSUME DOMAIN devices = Devices,
         \/ \E p \in Procs : Requests(p) \/ Work(p) \/ Lost(p)
         \/ Outside \/ Purge \/ NewDay
  PROVE  DOMAIN devices' = Devices
  <1>a. \A lost : DOMAIN Without(devices, lost) = Devices
    BY DEF Without
  <1>1. ASSUME NEW p \in Procs, Requests(p) PROVE DOMAIN devices' = Devices
    BY <1>1 DEF Requests, AccountRequest, Authenticate, BotLogin, BotLogout, DiscordLogin,
                DevLogin, LinkLogin, DemoLogin, DemoRead
  <1>2. ASSUME NEW p \in Procs, Work(p) PROVE DOMAIN devices' = Devices
    <2>1. CASE ScheduleDeletion(p)
      BY <2>1, <1>a DEF ScheduleDeletion
    <2>2. CASE DemoReset(p)
      BY <2>2 DEF DemoReset, DemoCommit
    <2>3. ASSUME NEW d \in Devices, RegisterDevice(p, d) \/ UnregisterDevice(p, d)
          PROVE  DOMAIN devices' = Devices
      BY <2>3 DEF RegisterDevice, UnregisterDevice
    <2>4. CASE \/ CancelDeletion(p) \/ UpdateSettings(p)
               \/ BotIssue(p) \/ Discard(p) \/ DiscardSkipped(p) \/ LinkWork(p) \/ LinkDone(p)
               \/ \E c \in Codes : LinkRedeem(p, c)
               \/ LinkRefused(p) \/ LinkAccepted(p)
               \/ DiscordCommit(p) \/ IssueToken(p) \/ CapDemoTokens(p)
      BY <2>4 DEF CancelDeletion, UpdateSettings, BotIssue, Discard, DiscardSkipped,
                  LinkWork, LinkDone, LinkRedeem, LinkRefused, LinkAccepted,
                  DiscordCommit, IssueToken, CapDemoTokens
    <2>5. CASE VoiceWork(p)
      BY <2>5 DEF VoiceWork, VoiceQuota, Whisper, Bill
    <2> QED BY <1>2, <2>1, <2>2, <2>3, <2>4, <2>5 DEF Work, AccountWork
  <1>3. ASSUME NEW p \in Procs, Lost(p) PROVE DOMAIN devices' = Devices
    BY <1>3 DEF Lost, RequestLost
  <1>4. CASE Outside
    BY <1>4 DEF Outside, Environment, AppLogout, SweepDevices, WindowEnds, KeyExpires,
                DedupExpires, accountVars
  <1>5. CASE Purge \/ NewDay
    BY <1>5, <1>a DEF Purge, PurgeAccounts, NewDay, Tick
  <1> QED BY <1>1, <1>2, <1>3, <1>4, <1>5

LEMMA OthersLeaveRuns ==
  ASSUME \/ \E p \in Procs : Requests(p) \/ Work(p) \/ Lost(p)
         \/ Outside /\ ~(\E u \in Users : DedupExpires(u))
         \/ Purge \/ NewDay
  PROVE  UNCHANGED reportVars
  BY DEF Requests, Work, Lost, Outside, Purge, NewDay, DemoReset

LEMMA ReportStepInv == IInv /\ ReportInv /\ [Next]_serviceVars => ReportInv'
  <1> SUFFICES ASSUME IInv, ReportInv, [Next]_serviceVars PROVE ReportInv'
    OBVIOUS
  <1>a. UNCHANGED reportVars /\ DOMAIN devices' = Devices => ReportInv'
    BY DEF reportVars, ReportInv, TypesOK, HoldersOK, PushesOK, KeysOK, HoldsKey, KeySet
  <1>n. now \in Days
    BY DEF IInv, RequestsOK
  <1>b. DOMAIN devices = Devices
    BY DEF ReportInv, TypesOK
  <1>1. CASE UNCHANGED serviceVars
    BY <1>1, <1>a, <1>b DEF serviceVars, accountVars
  <1>2. CASE \/ \E p \in Procs : Requests(p) \/ Work(p) \/ Lost(p)
             \/ Outside /\ ~(\E u \in Users : DedupExpires(u))
             \/ Purge \/ NewDay
    BY <1>2, <1>a, <1>b, OthersKeepDevices, OthersLeaveRuns
  <1>4. ASSUME NEW u \in Users, DedupExpires(u) PROVE ReportInv'
    BY <1>4, LapseInv
  <1>3. ASSUME NEW w \in Workers, Report(w) PROVE ReportInv'
    BY <1>3, <1>n, StartInv, AcquireInv, CountInv, SendInv, CommitInv, RaisesInv, LostInv
       DEF Report, ReportWork
  <1> QED BY <1>1, <1>2, <1>3, <1>4 DEF Next

(* Who holds a dedup key, how many pushes stand in each state of it, and why  *)
(* a key nobody holds is set, in every reachable state.                       *)
THEOREM ReportInvariant == Spec => []ReportInv
  BY ReportInitInv, ReportStepInv, ServiceInvariant, PTL DEF Spec

(* One push per user but for the pushes that raised or outlived their key,    *)
(* and no key left behind without a push or an excuse, whatever runs overlap, *)
(* whatever Redis fails and whatever becomes of the devices                   *)
(* (_run_weekly_report, _release_dedup, send_to_user).                        *)
THEOREM ReportsOnce == Spec => []WeeklyReportOnce
  <1>1. ReportInv => WeeklyReportOnce
    BY DEF ReportInv, PushesOK, KeysOK, WeeklyReportOnce
  <1> QED BY <1>1, ReportInvariant, PTL
=============================================================================
