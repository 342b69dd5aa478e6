-------------------------- MODULE VisibilityProofs --------------------------
(* Why a "false" of the visibility answer is proved, for any number of users, *)
(* guilds, changes and tasks, and any margin.                                 *)
EXTENDS Visibility, SequenceTheorems, TLAPS

-----------------------------------------------------------------------------
(* The inductive invariant                                                    *)

\* Every stamp is of the past, and a row is committed within the margin.
StampsOK ==
    /\ snapshot.startedAt <= clock /\ snapshot.syncedAt <= clock /\ scan.at <= clock
    /\ \A u \in Users :
        /\ accounts[u].created <= clock
        /\ accounts[u].created # Never /\ ~accounts[u].committed
             => clock <= accounts[u].created + Margin

\* While connected, the cache of a whole guild is exact; without the gateway
\* it is exact but for what went unheard.
CacheOK ==
    \A g \in whole :
        /\ conn = "up" => cache[g] = member[g]
        /\ \A u \in Users \ unheard : u \in cache[g] <=> u \in member[g]

\* The accounts a scan or a snapshot of that instant answers for.
Covered(u, at) == accounts[u].committed /\ accounts[u].created < at - Margin

\* Whoever such an answer covers and leaves out is in no guild of the bot.
Proves(at, visible, except) ==
    \A u \in Users :
        Covered(u, at) /\ u \notin visible /\ u \notin except /\ ~JoinPending(u)
            => ~InSomeGuild(u)

Claims == snapshot.complete /\ snapshot.syncedAt >= snapshot.startedAt

\* A snapshot that claims to be complete knows what it does not cover.
DoubtOK == Claims => unheard \subseteq doubted

\* A removal that waits for a user who is back will be made good, or is known
\* as a doubt.
RemovalsOK ==
    \A k \in DOMAIN queue :
        queue[k].kind = "remove" /\ queue[k].guild \in inGuild
        /\ queue[k].user \in member[queue[k].guild]
          => \/ queue[k].user \in unheard
             \/ \E g \in Guilds : <<queue[k].user, g>> \in checks
             \/ \E j \in DOMAIN queue :
                  j > k /\ queue[j] = [kind |-> "add", user |-> queue[k].user]

\* What the rebuild has read so far is about everybody it will answer for.
ScanOK ==
    /\ scan.pc = "queried" => \A u \in Users : Covered(u, scan.at) => u \in scan.ids
    /\ scan.pc = "scanned" /\ scan.complete => Proves(scan.at, scan.ids, unheard)

\* FalseIsProved, whether or not a heartbeat lets the API answer.
SnapshotOK ==
    Claims => Proves(snapshot.syncedAt, snapshot.visible, doubted)

IInv == /\ TypeOK /\ StampsOK /\ CacheOK /\ DoubtOK
        /\ RemovalsOK /\ ScanOK /\ SnapshotOK
-----------------------------------------------------------------------------
(* The queue                                                                  *)

\* The tasks that are queued are tasks.
LEMMA TaskKinds ==
    /\ Rebuild \in Task
    /\ \A u \in Users : [kind |-> "add", user |-> u] \in Task
    /\ \A u \in Users, g \in Guilds : [kind |-> "remove", user |-> u, guild |-> g] \in Task
BY DEF Task, Rebuild

\* The fields of a task are those of its kind.
LEMMA TaskFields ==
    ASSUME NEW t \in Task
    PROVE  /\ t.kind \in {"add", "remove"} => t.user \in Users
           /\ t.kind = "remove" => t.guild \in Guilds
           /\ t.kind = "add" => t = [kind |-> "add", user |-> t.user]
           /\ t.kind = "rebuild" => t = Rebuild
BY DEF Task, Rebuild

\* A task that joins the queue comes last.
LEMMA Queues ==
    ASSUME NEW q \in Seq(Task), NEW t \in Task
    PROVE  /\ Append(q, t) \in Seq(Task) /\ Append(q, t) # <<>>
           /\ DOMAIN q = 1..Len(q) /\ DOMAIN Append(q, t) = 1..(Len(q) + 1)
           /\ Append(q, t)[Len(q) + 1] = t
           /\ \A k \in DOMAIN q : k \in DOMAIN Append(q, t) /\ Append(q, t)[k] = q[k]
           /\ q # <<>> => Head(Append(q, t)) = Head(q)
<1>1. Append(q, t) = q \o <<t>>
  OBVIOUS
<1> QED OBVIOUS

\* When the head leaves, the others keep their order.
LEMMA Leaves ==
    ASSUME NEW q \in Seq(Task), q # <<>>
    PROVE  /\ Head(q) \in Task /\ Head(q) = q[1] /\ 1 \in DOMAIN q
           /\ Tail(q) \in Seq(Task)
           /\ Len(q) \in Nat \ {0} /\ Len(Tail(q)) = Len(q) - 1
           /\ DOMAIN q = 1..Len(q) /\ DOMAIN Tail(q) = 1..Len(Tail(q))
           /\ \A k \in DOMAIN Tail(q) : k + 1 \in DOMAIN q /\ Tail(q)[k] = q[k + 1]
           /\ \A k \in DOMAIN q : k # 1 => k - 1 \in DOMAIN Tail(q) /\ Tail(q)[k - 1] = q[k]
OBVIOUS

\* Joining, leaving and doing neither are different things.
LEMMA Differs ==
    ASSUME NEW q \in Seq(Task)
    PROVE  /\ q # <<>> => Tail(q) # q
           /\ \A t \in Task : /\ Append(q, t) # q
                              /\ q # <<>> => Tail(q) # Append(q, t)
                              /\ \A s \in Task : Append(q, s) = Append(q, t) => s = t
<1>1. q # <<>> => Len(Tail(q)) # Len(q)
  BY Leaves
<1>2. ASSUME NEW t \in Task
      PROVE  /\ Append(q, t) # q
             /\ q # <<>> => Tail(q) # Append(q, t)
             /\ \A s \in Task : Append(q, s) = Append(q, t) => s = t
  <2>1. Len(Append(q, t)) = Len(q) + 1 /\ Len(q) \in Nat
    OBVIOUS
  <2>2. q # <<>> => Len(Tail(q)) < Len(q)
    BY Leaves
  <2>3. \A s \in Task : Append(q, s)[Len(q) + 1] = s
    BY Queues
  <2> QED BY <2>1, <2>2, <2>3
<1> QED BY <1>1, <1>2

-----------------------------------------------------------------------------
(* Types                                                                      *)

\* Stamps are natural numbers, and the clock is one.
LEMMA StampTypes ==
    /\ Never \in Nat /\ Times \subseteq Nat \ {0} /\ 1 \in Times
    /\ Margin \in Nat /\ MaxTime \in Nat /\ MaxChanges \in Nat
BY VisibilityAssumption DEF Never, Times

LEMMA TypeInit == Init => TypeOK
BY StampTypes, VisibilityAssumption DEF Init, TypeOK, NoScan, Never

\* What an action may do to the queue leaves a queue, under a rebuild in
\* progress unless that is given up.
LEMMA QueueTyped ==
    ASSUME TypeOK, scan' = scan,
           \/ UNCHANGED queue
           \/ \E t \in Task : queue' = Append(queue, t)
           \/ queue # <<>> /\ scan.pc = "none" /\ queue' = Tail(queue)
    PROVE  /\ queue' \in Seq(Task)
           /\ scan'.pc # "none" => queue' # <<>> /\ Head(queue') = Rebuild
<1>1. queue \in Seq(Task) /\ (scan.pc # "none" => queue # <<>> /\ Head(queue) = Rebuild)
  BY DEF TypeOK
<1>2. CASE UNCHANGED queue
  BY <1>1, <1>2
<1>3. CASE \E t \in Task : queue' = Append(queue, t)
  BY <1>1, <1>3, Queues
<1>4. CASE queue # <<>> /\ scan.pc = "none" /\ queue' = Tail(queue)
  BY <1>1, <1>4, Leaves
<1> QED BY <1>2, <1>3, <1>4

LEMMA HeadTyped ==
    ASSUME TypeOK, queue # <<>>
    PROVE  /\ Head(queue) \in Task /\ Tail(queue) \in Seq(Task)
           /\ Head(queue).kind \in {"add", "remove"} =>
                 Head(queue).user \in Users /\ scan.pc = "none"
           /\ Head(queue).kind = "rebuild" => Head(queue) = Rebuild
<1>1. queue \in Seq(Task) /\ (scan.pc # "none" => Head(queue) = Rebuild)
  BY DEF TypeOK
<1>2. Head(queue) \in Task /\ Tail(queue) \in Seq(Task)
  BY <1>1, Leaves
<1>3. Rebuild.kind = "rebuild"
  BY DEF Rebuild
<1> DEFINE t == Head(queue)
<1>4. /\ t.kind \in {"add", "remove"} => t.user \in Users
      /\ t.kind = "rebuild" => t = Rebuild
  <2>1. t \in Task
    BY <1>2
  <2> HIDE DEF t
  <2> QED BY <2>1, TaskFields
<1>5. t.kind \in {"add", "remove"} => scan.pc = "none"
  BY <1>1, <1>3
<1> QED BY <1>2, <1>4, <1>5

LEMMA TypeStep == TypeOK /\ [Next]_visVars => TypeOK'
<1> SUFFICES ASSUME TypeOK, [Next]_visVars PROVE TypeOK'
  OBVIOUS
<1> USE StampTypes
<1>1. CASE UNCHANGED visVars
  BY <1>1 DEF TypeOK, visVars
<1>2. ASSUME NEW u \in Users, Register(u) PROVE TypeOK'
  BY <1>2 DEF Register, TypeOK
<1>3. ASSUME NEW u \in Users, NEW command \in BOOLEAN, Commit(u, command) PROVE TypeOK'
  <2>1. UNCHANGED queue \/ \E t \in Task : queue' = Append(queue, t)
    BY <1>3, TaskKinds DEF Commit, Enqueue
  <2>2. scan' = scan
    BY <1>3 DEF Commit
  <2>3. /\ queue' \in Seq(Task)
        /\ scan'.pc # "none" => queue' # <<>> /\ Head(queue') = Rebuild
    BY <2>1, <2>2, QueueTyped
  <2>4. accounts' \in [Users -> [created : {Never} \cup Times, committed : BOOLEAN]]
    BY <1>3 DEF Commit, TypeOK
  <2> QED BY <1>3, <2>3, <2>4 DEF Commit, TypeOK
<1>4. ASSUME NEW g \in Guilds, NEW u \in Users, MemberJoins(g, u) PROVE TypeOK'
  BY <1>4 DEF MemberJoins, Change, Missed, TypeOK
<1>5. ASSUME NEW g \in Guilds, NEW u \in Users, MemberLeaves(g, u) PROVE TypeOK'
  <2>1. UNCHANGED queue \/ \E t \in Task : queue' = Append(queue, t)
    BY <1>5, TaskKinds DEF MemberLeaves, Enqueue
  <2>2. scan' = scan
    BY <1>5 DEF MemberLeaves
  <2>3. /\ queue' \in Seq(Task)
        /\ scan'.pc # "none" => queue' # <<>> /\ Head(queue') = Rebuild
    BY <2>1, <2>2, QueueTyped
  <2>4. /\ member' \in [Guilds -> SUBSET Users] /\ cache' \in [Guilds -> SUBSET Users]
        /\ unheard' \in SUBSET Users /\ doubted' \in SUBSET Users
    BY <1>5 DEF MemberLeaves, Missed, TypeOK
  <2> QED BY <1>5, <2>3, <2>4 DEF MemberLeaves, Change, TypeOK
<1>6. ASSUME NEW g \in Guilds, NEW chunked \in BOOLEAN, BotJoins(g, chunked) PROVE TypeOK'
  BY <1>6, QueueTyped, TaskKinds DEF BotJoins, Loaded, Change, Missed, Enqueue, TypeOK
<1>7. ASSUME NEW g \in Guilds, BotLeaves(g) PROVE TypeOK'
  BY <1>7, QueueTyped, TaskKinds DEF BotLeaves, Change, Enqueue, TypeOK
<1>8. ASSUME NEW g \in Guilds, NEW chunked \in BOOLEAN, Outage(g) \/ GuildBack(g, chunked)
      PROVE  TypeOK'
  BY <1>8 DEF Outage, GuildBack, Loaded, Change, TypeOK
<1>9. ASSUME NEW available \in SUBSET Guilds, NEW failed \in SUBSET Guilds,
             NEW stamped \in BOOLEAN, Ready(available, failed, stamped)
      PROVE  TypeOK'
  <2>1. \E t \in Task : queue' = Append(queue, t)
    BY <1>9, TaskKinds DEF Ready
  <2>2. /\ queue' \in Seq(Task)
        /\ scan'.pc # "none" => queue' # <<>> /\ Head(queue') = Rebuild
    BY <1>9, <2>1, QueueTyped DEF Ready
  <2>3. snapshot' \in [visible : SUBSET Users, complete : BOOLEAN, beat : BOOLEAN,
                       syncedAt : {Never} \cup Times, startedAt : {Never} \cup Times]
    BY <1>9 DEF Ready, TypeOK
  <2>4. /\ cache' \in [Guilds -> SUBSET Users] /\ whole' \in SUBSET inGuild'
        /\ unchunked' \in SUBSET (inGuild' \ whole')
        /\ changes' \in 0..MaxChanges /\ doubted' \in SUBSET Users
    BY <1>9 DEF Ready, Loaded, Change, TypeOK
  <2> QED BY <1>9, <2>2, <2>3, <2>4 DEF Ready, TypeOK
<1>10. CASE Gap
  BY <1>10 DEF Gap, Change, TypeOK
<1>11. CASE Crash
  BY <1>11 DEF Crash, Change, Missed, NoScan, TypeOK
<1>12. CASE HeartbeatExpires
  BY <1>12 DEF HeartbeatExpires, TypeOK
<1>13. ASSUME NEW u \in Users, NEW g \in Guilds, JoinCheck(u, g) PROVE TypeOK'
  BY <1>13, QueueTyped, TaskKinds DEF JoinCheck, Missed, Enqueue, TypeOK
<1>14. ASSUME NEW u \in Users, NEW g \in Guilds, JoinFails(u, g) PROVE TypeOK'
  BY <1>14 DEF JoinFails, Change, Missed, TypeOK
<1>15. CASE AddVisible \/ RemoveVisible
  <2>1. queue # <<>> /\ queue' = Tail(queue) /\ Head(queue).kind \in {"add", "remove"}
    BY <1>15 DEF AddVisible, RemoveVisible, HasLock
  <2>2. Tail(queue) \in Seq(Task) /\ Head(queue).user \in Users /\ scan.pc = "none"
    BY <2>1, HeadTyped
  <2>3. snapshot' \in [visible : SUBSET Users, complete : BOOLEAN, beat : BOOLEAN,
                       syncedAt : {Never} \cup Times, startedAt : {Never} \cup Times]
    <3> DEFINE t == Head(queue)
    <3>1. t.user \in Users
      BY <2>2
    <3>2. CASE AddVisible
      <4>1. snapshot' = [snapshot EXCEPT !.visible = @ \cup {t.user}]
        BY <3>2 DEF AddVisible
      <4> HIDE DEF t
      <4> QED BY <3>1, <4>1 DEF TypeOK
    <3>3. CASE RemoveVisible
      <4>1. snapshot' \in {snapshot, [snapshot EXCEPT !.visible = @ \ {t.user}]}
        BY <3>3 DEF RemoveVisible
      <4> HIDE DEF t
      <4> QED BY <3>1, <4>1 DEF TypeOK
    <3> QED BY <1>15, <3>2, <3>3
  <2> QED BY <1>15, <2>1, <2>2, <2>3 DEF AddVisible, RemoveVisible, TypeOK
<1>16. CASE TaskFails
  <2>1. Tail(queue) \in Seq(Task) /\ (HasLock("add") => Head(queue).user \in Users)
    BY <1>16, HeadTyped DEF TaskFails, HasLock
  <2> QED BY <1>16, <2>1 DEF TaskFails, Change, Missed, NoScan, TypeOK
<1>17. CASE Periodic
  BY <1>17, QueueTyped, TaskKinds DEF Periodic, Enqueue, TypeOK
<1>18. CASE RebuildLock
  <2>1. queue # <<>> /\ Head(queue) = Rebuild
    BY <1>18, HeadTyped DEF RebuildLock, HasLock
  <2> QED BY <1>18, <2>1 DEF RebuildLock, NoScan, TypeOK
<1>19. CASE RebuildQuery
  BY <1>19 DEF RebuildQuery, TypeOK
<1>20. CASE RebuildScan
  BY <1>20 DEF RebuildScan, TypeOK
<1>21. CASE RebuildWrite
  BY <1>21, Leaves DEF RebuildWrite, NoScan, TypeOK
<1>22. CASE Tick
  BY <1>22 DEF Tick, Times, TypeOK
<1> QED
  BY <1>1, <1>2, <1>3, <1>4, <1>5, <1>6, <1>7, <1>8, <1>9, <1>10, <1>11, <1>12, <1>13, <1>14,
     <1>15, <1>16, <1>17, <1>18, <1>19, <1>20, <1>21, <1>22
     DEF Next, Discord, Faults, Reconnect, Returns, Tasks

-----------------------------------------------------------------------------
(* What a step that only adds to the queue, or takes its head, preserves      *)

Add(u) == [kind |-> "add", user |-> u]

QueueMoves ==
    \/ UNCHANGED queue
    \/ queue # <<>> /\ queue' = Tail(queue)
    \/ \E t \in Task : queue' = Append(queue, t)

\* What waits after such a step waited before, with the same tasks behind it,
\* or has just been queued.
LEMMA Follows ==
    ASSUME NEW q \in Seq(Task), NEW r,
           \/ r = q
           \/ q # <<>> /\ r = Tail(q)
           \/ \E t \in Task : r = Append(q, t),
           NEW k \in DOMAIN r
    PROVE  \/ r = Append(q, r[k])
           \/ \E i \in DOMAIN q :
                /\ q[i] = r[k]
                /\ \A j \in DOMAIN q : j > i => \E l \in DOMAIN r : l > k /\ r[l] = q[j]
<1>1. CASE r = q
  BY <1>1
<1>2. CASE q # <<>> /\ r = Tail(q)
  <2>1. k + 1 \in DOMAIN q /\ q[k + 1] = r[k] /\ k \in Nat
    BY <1>2, Leaves
  <2>2. ASSUME NEW j \in DOMAIN q, j > k + 1
        PROVE  j - 1 \in DOMAIN r /\ j - 1 > k /\ r[j - 1] = q[j]
    BY <1>2, <2>1, <2>2, Leaves
  <2> QED BY <2>1, <2>2
<1>3. CASE \E t \in Task : r = Append(q, t)
  <2>1. PICK t \in Task : r = Append(q, t)
    BY <1>3
  <2>2. CASE k = Len(q) + 1
    BY <2>1, <2>2, Queues
  <2>3. CASE k # Len(q) + 1
    <3>1. k \in DOMAIN q /\ \A j \in DOMAIN q : j \in DOMAIN r /\ r[j] = q[j]
      BY <2>1, <2>3, Queues
    <3> QED BY <3>1
  <2> QED BY <2>2, <2>3
<1> QED BY <1>1, <1>2, <1>3

\* Who waited to be added still does, unless it was the head and has gone.
LEMMA PendingStays ==
    ASSUME TypeOK, QueueMoves, NEW u \in Users, JoinPending(u),
           \A g \in Guilds : <<u, g>> \in checks => <<u, g>> \in checks',
           queue # <<>> /\ queue' = Tail(queue) => Head(queue) # Add(u)
    PROVE  JoinPending(u)'
<1>1. queue \in Seq(Task)
  BY DEF TypeOK
<1>2. CASE \E g \in Guilds : <<u, g>> \in checks
  BY <1>2 DEF JoinPending
<1>3. CASE \E k \in DOMAIN queue : queue[k] = Add(u)
  <2>1. PICK k \in DOMAIN queue : queue[k] = Add(u)
    BY <1>3
  <2>2. \E j \in DOMAIN queue' : queue'[j] = Add(u)
    <3>1. CASE UNCHANGED queue
      BY <2>1, <3>1
    <3>2. CASE queue # <<>> /\ queue' = Tail(queue)
      <4>1. Head(queue) # queue[k]
        BY <2>1, <3>2
      <4>2. k # 1
        BY <1>1, <3>2, <4>1, Leaves
      <4>3. k - 1 \in DOMAIN queue' /\ queue'[k - 1] = queue[k]
        BY <1>1, <3>2, <4>2, Leaves
      <4> QED BY <2>1, <4>3
    <3>3. CASE \E t \in Task : queue' = Append(queue, t)
      BY <1>1, <2>1, <3>3, Queues
    <3> QED BY <3>1, <3>2, <3>3 DEF QueueMoves
  <2> QED BY <2>2 DEF JoinPending, Add
<1> QED BY <1>2, <1>3 DEF JoinPending, Add

\* A user who comes back while a removal waits is heard of, or doubted; and
\* nobody forgets it while the removal waits.
LEMMA RemovalsKept ==
    ASSUME TypeOK, RemovalsOK, QueueMoves,
           \A t \in Task : queue' = Append(queue, t) /\ t.kind = "remove"
                            /\ t.guild \in inGuild' => t.user \notin member'[t.guild],
           \A u \in Users, g \in inGuild' : u \in member'[g] =>
                \/ g \in inGuild /\ u \in member[g]
                \/ u \in unheard'
                \/ \E h \in Guilds : <<u, h>> \in checks',
           \A u \in unheard : u \in unheard' \/ ~RemovalWaits(u),
           \A u \in Users, g \in Guilds : <<u, g>> \in checks =>
                \/ <<u, g>> \in checks'
                \/ u \in unheard'
                \/ ~RemovalWaits(u)
                \/ queue' = Append(queue, Add(u))
    PROVE  RemovalsOK'
<1> SUFFICES ASSUME NEW k \in DOMAIN queue', queue'[k].kind = "remove",
                    queue'[k].guild \in inGuild', queue'[k].user \in member'[queue'[k].guild]
             PROVE  \/ queue'[k].user \in unheard'
                    \/ \E g \in Guilds : <<queue'[k].user, g>> \in checks'
                    \/ \E j \in DOMAIN queue' : j > k /\ queue'[j] = Add(queue'[k].user)
  BY DEF RemovalsOK, Add
<1>1. queue \in Seq(Task)
  BY DEF TypeOK
<1>2. \/ queue' = Append(queue, queue'[k])
      \/ \E i \in DOMAIN queue :
           /\ queue[i] = queue'[k]
           /\ \A j \in DOMAIN queue :
                j > i => \E l \in DOMAIN queue' : l > k /\ queue'[l] = queue[j]
  BY <1>1, Follows DEF QueueMoves
<1>3. CASE queue' = Append(queue, queue'[k])
  <2>1. queue'[k] \in Task
    <3>1. queue' \in Seq(Task)
      <4>1. CASE UNCHANGED queue
        BY <1>1, <4>1
      <4>2. CASE queue # <<>> /\ queue' = Tail(queue)
        BY <1>1, <4>2, Leaves
      <4>3. CASE \E t \in Task : queue' = Append(queue, t)
        BY <1>1, <4>3, Queues
      <4> QED BY <4>1, <4>2, <4>3 DEF QueueMoves
    <3> QED BY <3>1
  <2> QED BY <1>3, <2>1
<1>4. CASE \E i \in DOMAIN queue :
           /\ queue[i] = queue'[k]
           /\ \A j \in DOMAIN queue :
                j > i => \E l \in DOMAIN queue' : l > k /\ queue'[l] = queue[j]
  <2>1. PICK i \in DOMAIN queue :
           /\ queue[i] = queue'[k]
           /\ \A j \in DOMAIN queue :
                j > i => \E l \in DOMAIN queue' : l > k /\ queue'[l] = queue[j]
    BY <1>4
  <2> DEFINE u == queue'[k].user
             g == queue'[k].guild
  <2>2. queue[i].kind = "remove" /\ queue[i].user = u /\ queue[i].guild = g
        /\ RemovalWaits(u)
    BY <2>1 DEF RemovalWaits
  <2>3. u \in Users
    <3>1. queue[i] \in Task
      BY <1>1, <2>1
    <3> QED BY <2>2, <3>1, TaskFields
  <2>4. g \in inGuild' /\ u \in member'[g]
    OBVIOUS
  <2> HIDE DEF u, g
  <2>5. CASE g \in inGuild /\ u \in member[g]
    <3>1. \/ u \in unheard
          \/ \E h \in Guilds : <<u, h>> \in checks
          \/ \E j \in DOMAIN queue : j > i /\ queue[j] = Add(u)
      BY <2>2, <2>5 DEF RemovalsOK, Add
    <3>2. CASE u \in unheard
      BY <2>2, <3>2 DEF u
    <3>3. CASE \E h \in Guilds : <<u, h>> \in checks
      <4>1. PICK h \in Guilds : <<u, h>> \in checks
        BY <3>3
      <4>2. CASE queue' = Append(queue, Add(u))
        <5>1. Add(u) \in Task
          BY <2>3, TaskKinds DEF Add
        <5>2. Len(queue) + 1 \in DOMAIN queue' /\ queue'[Len(queue) + 1] = Add(u)
              /\ DOMAIN queue' = 1..(Len(queue) + 1) /\ Len(queue) \in Nat
          BY <1>1, <4>2, <5>1, Queues
        <5>3. queue'[k].kind # "add"
          OBVIOUS
        <5>4. k # Len(queue) + 1
          BY <5>2, <5>3 DEF Add
        <5>5. Len(queue) + 1 > k
          BY <5>2, <5>4
        <5> QED BY <5>2, <5>5 DEF u
      <4>3. \/ <<u, h>> \in checks'
            \/ u \in unheard'
            \/ queue' = Append(queue, Add(u))
        BY <2>2, <2>3, <4>1
      <4> QED BY <4>2, <4>3 DEF u
    <3>4. CASE \E j \in DOMAIN queue : j > i /\ queue[j] = Add(u)
      BY <2>1, <3>4 DEF u
    <3> QED BY <3>1, <3>2, <3>3, <3>4
  <2> QED BY <2>3, <2>4, <2>5 DEF u, g
<1> QED BY <1>2, <1>3, <1>4

\* What was proved by a scan or claimed by the snapshot stands, when doubt only
\* grows, nobody is taken out, and a user who comes into sight is heard of or
\* doubted.
LEMMA ClaimsKept ==
    ASSUME TypeOK, DoubtOK, ScanOK, SnapshotOK, UNCHANGED scan,
           snapshot'.complete = snapshot.complete,
           snapshot'.syncedAt = snapshot.syncedAt,
           snapshot'.startedAt = snapshot.startedAt,
           snapshot.visible \subseteq snapshot'.visible,
           unheard \subseteq unheard', doubted \subseteq doubted',
           \A u \in unheard' : u \in unheard \/ u \in doubted',
           \A u \in Users, at \in {scan.at, snapshot.syncedAt} :
               accounts'[u].committed /\ accounts'[u].created < at - Margin => Covered(u, at),
           \A u \in Users : InSomeGuild(u)' =>
               \/ InSomeGuild(u)
               \/ JoinPending(u)'
               \/ u \in unheard' /\ u \in doubted',
           \A u \in Users : JoinPending(u) =>
               \/ JoinPending(u)'
               \/ u \in unheard' /\ u \in doubted'
               \/ ~accounts'[u].committed
    PROVE  DoubtOK' /\ ScanOK' /\ SnapshotOK'
<1>1. DoubtOK'
  BY DEF DoubtOK, Claims
<1>2. ASSUME scan.pc = "scanned", scan.complete
      PROVE  Proves(scan.at, scan.ids, unheard)'
  <2>1. Proves(scan.at, scan.ids, unheard)
    BY <1>2 DEF ScanOK
  <2> QED BY <2>1 DEF Proves, Covered
<1>3. ScanOK'
  BY <1>2 DEF ScanOK, Covered
<1>4. SnapshotOK'
  <2>1. SUFFICES ASSUME Claims PROVE Proves(snapshot.syncedAt, snapshot.visible, doubted)'
    BY DEF SnapshotOK, Claims
  <2>2. Proves(snapshot.syncedAt, snapshot.visible, doubted)
    BY <2>1 DEF SnapshotOK
  <2> QED BY <2>2 DEF Proves, Covered
<1> QED BY <1>1, <1>3, <1>4

\* Users that are neither lost nor found leave the cache right.
LEMMA CacheKept ==
    ASSUME CacheOK, UNCHANGED <<member, cache, whole, conn>>, unheard \subseteq unheard'
    PROVE  CacheOK'
BY DEF CacheOK

\* The members stay; who waits for the database, or in the queue, still does.
LEMMA MembersStay ==
    ASSUME NEW u \in Users, UNCHANGED <<member, inGuild>>
    PROVE  /\ InSomeGuild(u)' <=> InSomeGuild(u)
           /\ \A g \in inGuild' : u \in member'[g] <=> g \in inGuild /\ u \in member[g]
BY DEF InSomeGuild

LEMMA InitIInv == Init => IInv
<1> SUFFICES ASSUME Init PROVE IInv
  OBVIOUS
<1>1. TypeOK
  BY TypeInit
<1>2. StampsOK
  BY StampTypes DEF Init, StampsOK, NoScan, Never
<1>3. CacheOK /\ DoubtOK /\ RemovalsOK /\ ScanOK /\ SnapshotOK
  BY DEF Init, CacheOK, DoubtOK, RemovalsOK, ScanOK, SnapshotOK, Claims, NoScan
<1> QED BY <1>1, <1>2, <1>3 DEF IInv

\* Nothing happens to members, doubts, the scan and the two stamps.
LEMMA QuietStep ==
    ASSUME IInv, UNCHANGED <<member, unheard, doubted, checks, scan>>,
           inGuild' \subseteq inGuild,
           UNCHANGED queue \/ \E t \in Task : t.kind # "remove" /\ queue' = Append(queue, t),
           snapshot' = [snapshot EXCEPT !.beat = snapshot'.beat],
           \A u \in Users, at \in {scan.at, snapshot.syncedAt} :
               accounts'[u].committed /\ accounts'[u].created < at - Margin => Covered(u, at)
    PROVE  DoubtOK' /\ ScanOK' /\ SnapshotOK' /\ RemovalsOK'
<1>1. queue \in Seq(Task) /\ unheard \in SUBSET Users
  BY DEF IInv, TypeOK
<1>2. QueueMoves /\ (queue # <<>> => queue' # Tail(queue))
  BY <1>1, Differs DEF QueueMoves
<1>3. \A t \in Task : queue' = Append(queue, t) => t.kind # "remove"
  BY <1>1, Differs
<1>4. \A u \in Users : InSomeGuild(u)' => InSomeGuild(u)
  BY DEF InSomeGuild
<1>5. RemovalsOK'
  BY <1>2, <1>3, RemovalsKept DEF IInv
<1>6. /\ snapshot'.visible = snapshot.visible /\ snapshot'.complete = snapshot.complete
      /\ snapshot'.syncedAt = snapshot.syncedAt /\ snapshot'.startedAt = snapshot.startedAt
  BY DEF IInv, TypeOK
<1>7. \A u \in Users : JoinPending(u) => JoinPending(u)'
  BY <1>2, PendingStays DEF IInv
<1> QED BY <1>4, <1>5, <1>6, <1>7, ClaimsKept DEF IInv

\* What the accounts' stamps say of what a scan covers.
LEMMA Stamps ==
    ASSUME TypeOK
    PROVE  /\ clock \in Nat /\ clock # 0 /\ scan.at \in Nat /\ snapshot.syncedAt \in Nat
           /\ snapshot.startedAt \in Nat /\ Margin \in Nat
           /\ \A u \in Users : accounts[u].created \in Nat
BY StampTypes DEF TypeOK

LEMMA RegisterStep ==
    ASSUME IInv, NEW v \in Users, Register(v)
    PROVE  IInv'
<1>1. TypeOK /\ TypeOK'
  BY TypeStep DEF IInv, Next
<1>2. \A u \in Users : /\ accounts'[u].committed = accounts[u].committed
                       /\ accounts'[u].created = IF u = v THEN clock ELSE accounts[u].created
  BY <1>1 DEF Register, TypeOK
<1>3. StampsOK'
  BY <1>1, <1>2, Stamps DEF IInv, StampsOK, Register
<1>4. \A u \in Users, at \in {scan.at, snapshot.syncedAt} :
           accounts'[u].committed /\ accounts'[u].created < at - Margin => Covered(u, at)
  BY <1>1, <1>2, Stamps DEF IInv, StampsOK, Covered
<1>5. DoubtOK' /\ ScanOK' /\ SnapshotOK' /\ RemovalsOK'
  BY <1>1, <1>4, QuietStep DEF Register, TypeOK
<1>6. CacheOK'
  BY CacheKept DEF Register, IInv
<1> QED BY <1>1, <1>3, <1>5, <1>6 DEF IInv

LEMMA CommitStep ==
    ASSUME IInv, NEW v \in Users, NEW command \in BOOLEAN, Commit(v, command)
    PROVE  IInv'
<1>1. TypeOK /\ TypeOK'
  BY TypeStep DEF IInv, Next
<1>2. /\ accounts[v].created # Never /\ ~accounts[v].committed
      /\ \A u \in Users : /\ accounts'[u].committed = IF u = v THEN TRUE ELSE accounts[u].committed
                          /\ accounts'[u].created = accounts[u].created
  BY <1>1 DEF Commit, TypeOK
<1>3. StampsOK'
  BY <1>1, <1>2, Stamps DEF IInv, StampsOK, Commit
<1>4. \A u \in Users, at \in {scan.at, snapshot.syncedAt} :
           accounts'[u].committed /\ accounts'[u].created < at - Margin => Covered(u, at)
  <2>1. SUFFICES ASSUME NEW u \in Users, NEW at \in {scan.at, snapshot.syncedAt},
                        accounts'[u].committed, accounts'[u].created < at - Margin
                 PROVE  Covered(u, at)
    OBVIOUS
  <2>2. at \in Nat /\ clock \in Nat /\ Margin \in Nat /\ at <= clock
    BY <1>1, Stamps DEF IInv, StampsOK
  <2>3. accounts[u].created \in Nat /\ accounts'[u].created = accounts[u].created
    BY <1>1, <1>2, Stamps
  <2>4. CASE u = v
    <3>1. clock <= accounts[u].created + Margin
      BY <1>2, <2>4 DEF IInv, StampsOK
    <3> QED BY <2>1, <2>2, <2>3, <3>1
  <2>5. CASE u # v
    BY <1>2, <2>1, <2>3, <2>5 DEF Covered
  <2> QED BY <2>4, <2>5
<1>5. UNCHANGED queue \/ \E t \in Task : t.kind # "remove" /\ queue' = Append(queue, t)
  BY TaskKinds DEF Commit, Enqueue
<1>6. DoubtOK' /\ ScanOK' /\ SnapshotOK' /\ RemovalsOK'
  BY <1>1, <1>4, <1>5, QuietStep DEF Commit, TypeOK
<1>7. CacheOK'
  BY CacheKept DEF Commit, IInv
<1> QED BY <1>1, <1>3, <1>6, <1>7 DEF IInv

LEMMA JoinsStep ==
    ASSUME IInv, NEW h \in Guilds, NEW v \in Users, MemberJoins(h, v)
    PROVE  IInv'
<1>1. TypeOK /\ TypeOK'
  BY TypeStep DEF IInv, Next, Discord
<1>2. StampsOK'
  BY DEF IInv, StampsOK, MemberJoins
<1>3. \A g \in Guilds, u \in Users :
         u \in member'[g] <=> u \in member[g] \/ (g = h /\ u = v)
  BY <1>1 DEF MemberJoins, TypeOK
<1>4. /\ checks \subseteq checks' /\ unheard \subseteq unheard' /\ doubted \subseteq doubted'
      /\ \A u \in unheard' : u \in unheard \/ u \in doubted'
      /\ h \in inGuild => \/ <<v, h>> \in checks'
                          \/ v \in unheard' /\ v \in doubted'
  <2>1. CASE Heard(h)
    <3>1. checks' = checks \cup {<<v, h>>} /\ unheard' = unheard /\ doubted' = doubted
      BY <2>1 DEF MemberJoins
    <3>2. checks \subseteq checks' /\ <<v, h>> \in checks'
      BY <3>1
    <3> QED BY <3>1, <3>2
  <2>2. CASE ~Heard(h)
    <3> DEFINE us == {v} \cap {w \in Users : h \in inGuild}
    <3>1. checks' = checks /\ unheard' = unheard \cup us /\ doubted' = doubted \cup us
      BY <2>2 DEF MemberJoins, Missed
    <3>2. h \in inGuild => v \in us
      OBVIOUS
    <3> HIDE DEF us
    <3> QED BY <3>1, <3>2
  <2> QED BY <2>1, <2>2
<1>5. CacheOK'
  <2>1. SUFFICES ASSUME NEW g \in whole'
                 PROVE  /\ conn' = "up" => cache'[g] = member'[g]
                        /\ \A u \in Users \ unheard' : u \in cache'[g] <=> u \in member'[g]
    BY DEF CacheOK
  <2>2. /\ g \in Guilds /\ g \in inGuild /\ g \in whole
        /\ conn = "up" => cache[g] = member[g]
        /\ \A u \in Users \ unheard : u \in cache[g] <=> u \in member[g]
    BY <1>1 DEF IInv, CacheOK, MemberJoins, TypeOK
  <2>3. CASE g = h
    <3>1. CASE conn = "up"
      <4>1. /\ unheard' = unheard /\ conn' = conn
            /\ cache' = [cache EXCEPT ![h] = @ \cup {v}]
            /\ member' = [member EXCEPT ![h] = @ \cup {v}]
        BY <2>2, <2>3, <3>1 DEF MemberJoins, Heard
      <4>2. cache'[g] = cache[g] \cup {v} /\ member'[g] = member[g] \cup {v}
        BY <1>1, <2>3, <4>1 DEF TypeOK
      <4> QED BY <2>2, <4>1, <4>2
    <3>2. CASE conn # "up"
      <4>1. cache' = cache /\ conn' = conn /\ v \in unheard'
        BY <2>2, <2>3, <3>2 DEF MemberJoins, Heard, Missed
      <4> QED BY <1>3, <1>4, <2>2, <3>2, <4>1
    <3> QED BY <3>1, <3>2
  <2>4. CASE g # h
    <3>1. cache'[g] = cache[g] /\ member'[g] = member[g] /\ conn' = conn
      BY <1>1, <2>2, <2>4 DEF MemberJoins, TypeOK
    <3> QED BY <1>4, <2>2, <3>1
  <2> QED BY <2>3, <2>4
<1>6. RemovalsOK'
  <2>1. \A u \in Users, g \in inGuild' : u \in member'[g] =>
                \/ g \in inGuild /\ u \in member[g]
                \/ u \in unheard'
                \/ \E k \in Guilds : <<u, k>> \in checks'
    BY <1>1, <1>3, <1>4 DEF MemberJoins, TypeOK
  <2>2. \A t \in Task : queue' # Append(queue, t)
    BY <1>1, Differs DEF MemberJoins, TypeOK
  <2> QED BY <1>1, <1>4, <2>1, <2>2, RemovalsKept DEF IInv, MemberJoins, QueueMoves
<1>7. DoubtOK' /\ ScanOK' /\ SnapshotOK'
  <2>1. \A u \in Users : JoinPending(u) => JoinPending(u)'
    BY <1>4 DEF MemberJoins, JoinPending
  <2>2. \A u \in Users : InSomeGuild(u)' =>
               \/ InSomeGuild(u)
               \/ JoinPending(u)'
               \/ u \in unheard' /\ u \in doubted'
    BY <1>1, <1>3, <1>4 DEF MemberJoins, InSomeGuild, JoinPending, TypeOK
  <2> QED BY <1>1, <1>4, <2>1, <2>2, ClaimsKept DEF IInv, MemberJoins, Covered
<1> QED BY <1>1, <1>2, <1>5, <1>6, <1>7 DEF IInv

LEMMA LeavesStep ==
    ASSUME IInv, NEW h \in Guilds, NEW v \in Users, MemberLeaves(h, v)
    PROVE  IInv'
<1>1. TypeOK /\ TypeOK'
  BY TypeStep DEF IInv, Next, Discord
<1>2. StampsOK'
  BY DEF IInv, StampsOK, MemberLeaves
<1>3. \A g \in Guilds, u \in Users :
         u \in member'[g] <=> u \in member[g] /\ ~(g = h /\ u = v)
  BY <1>1 DEF MemberLeaves, TypeOK
<1>4. /\ unheard \subseteq unheard' /\ doubted \subseteq doubted'
      /\ \A u \in unheard' : u \in unheard \/ u \in doubted'
  BY DEF MemberLeaves, Missed
<1> DEFINE Removal == [kind |-> "remove", user |-> v, guild |-> h]
<1>5. UNCHANGED queue \/ queue' = Append(queue, Removal)
  BY DEF MemberLeaves, Enqueue
<1>6. Removal \in Task /\ QueueMoves
  BY <1>5, TaskKinds DEF QueueMoves
<1>7. CacheOK'
  <2>1. SUFFICES ASSUME NEW g \in whole'
                 PROVE  /\ conn' = "up" => cache'[g] = member'[g]
                        /\ \A u \in Users \ unheard' : u \in cache'[g] <=> u \in member'[g]
    BY DEF CacheOK
  <2>2. /\ g \in Guilds /\ g \in inGuild /\ g \in whole
        /\ conn = "up" => cache[g] = member[g]
        /\ \A u \in Users \ unheard : u \in cache[g] <=> u \in member[g]
    BY <1>1 DEF IInv, CacheOK, MemberLeaves, TypeOK
  <2>3. CASE g = h
    <3>1. CASE conn = "up"
      BY <1>1, <2>2, <2>3, <3>1 DEF MemberLeaves, Heard, TypeOK
    <3>2. CASE conn # "up"
      <4>1. cache' = cache /\ conn' = conn /\ v \in unheard'
        BY <2>2, <2>3, <3>2 DEF MemberLeaves, Heard, Missed
      <4> QED BY <1>3, <1>4, <2>2, <3>2, <4>1
    <3> QED BY <3>1, <3>2
  <2>4. CASE g # h
    <3>1. cache'[g] = cache[g] /\ member'[g] = member[g] /\ conn' = conn
      BY <1>1, <2>2, <2>4 DEF MemberLeaves, TypeOK
    <3> QED BY <1>4, <2>2, <3>1
  <2> QED BY <2>3, <2>4
<1>8. RemovalsOK'
  <2>1. \A u \in Users, g \in inGuild' : u \in member'[g] => g \in inGuild /\ u \in member[g]
    BY <1>1, <1>3 DEF MemberLeaves, TypeOK
  <2>2. \A t \in Task : queue' = Append(queue, t) => t = Removal
    <3> HIDE DEF Removal
    <3> QED BY <1>1, <1>5, <1>6, Differs DEF TypeOK
  <2>3. v \notin member'[h]
    BY <1>3
  <2> QED BY <1>1, <1>4, <1>6, <2>1, <2>2, <2>3, RemovalsKept DEF IInv, MemberLeaves
<1>9. DoubtOK' /\ ScanOK' /\ SnapshotOK'
  <2>1. queue # <<>> => queue' # Tail(queue)
    <3> HIDE DEF Removal
    <3> QED BY <1>1, <1>5, <1>6, Differs DEF TypeOK
  <2>2. \A u \in Users : JoinPending(u) => JoinPending(u)'
    BY <1>1, <1>6, <2>1, PendingStays DEF MemberLeaves
  <2>3. \A u \in Users : InSomeGuild(u)' => InSomeGuild(u)
    BY <1>1, <1>3 DEF MemberLeaves, InSomeGuild, TypeOK
  <2> QED BY <1>1, <1>4, <2>2, <2>3, ClaimsKept DEF IInv, MemberLeaves, Covered
<1> QED BY <1>1, <1>2, <1>7, <1>8, <1>9 DEF IInv

LEMMA BotJoinsStep ==
    ASSUME IInv, NEW h \in Guilds, NEW chunked \in BOOLEAN, BotJoins(h, chunked)
    PROVE  IInv'
<1>1. TypeOK /\ TypeOK'
  BY TypeStep DEF IInv, Next, Discord
<1>2. StampsOK'
  BY DEF IInv, StampsOK, BotJoins
<1>3. /\ inGuild' = inGuild \cup {h} /\ UNCHANGED <<member, conn, checks>>
      /\ whole' \subseteq whole \cup {h}
      /\ h \in whole' => cache'[h] = member[h]
      /\ \A g \in Guilds : g # h => cache'[g] = cache[g]
  <2>1. h \notin whole
    BY <1>1 DEF BotJoins, TypeOK
  <2> QED BY <1>1, <2>1 DEF BotJoins, Loaded, TypeOK
<1>4. /\ unheard \subseteq unheard' /\ doubted \subseteq doubted'
      /\ \A u \in unheard' : u \in unheard \/ u \in doubted'
      /\ \A u \in member[h] : u \in unheard' /\ u \in doubted'
  BY DEF BotJoins, Missed
<1>5. CacheOK'
  BY <1>1, <1>3, <1>4 DEF IInv, CacheOK, TypeOK
<1>6. queue' = Append(queue, Rebuild) /\ QueueMoves
  BY TaskKinds DEF BotJoins, Enqueue, QueueMoves
<1>7. RemovalsOK'
  <2>1. \A t \in Task : queue' = Append(queue, t) => t.kind # "remove"
    <3>1. Rebuild.kind = "rebuild"
      BY DEF Rebuild
    <3> QED BY <1>1, <1>6, <3>1, Differs, TaskKinds DEF TypeOK
  <2>2. \A u \in Users, g \in inGuild' : u \in member'[g] =>
           (g \in inGuild /\ u \in member[g]) \/ u \in unheard'
    BY <1>3, <1>4
  <2> QED BY <1>1, <1>3, <1>4, <1>6, <2>1, <2>2, RemovalsKept DEF IInv
<1>8. DoubtOK' /\ ScanOK' /\ SnapshotOK'
  <2>1. queue # <<>> => queue' # Tail(queue)
    BY <1>1, <1>6, TaskKinds, Differs DEF TypeOK
  <2>2. \A u \in Users : JoinPending(u) => JoinPending(u)'
    BY <1>1, <1>3, <1>6, <2>1, PendingStays
  <2>3. \A u \in Users : InSomeGuild(u)' =>
           InSomeGuild(u) \/ (u \in unheard' /\ u \in doubted')
    BY <1>3, <1>4 DEF InSomeGuild
  <2> QED BY <1>1, <1>4, <2>2, <2>3, ClaimsKept DEF IInv, BotJoins, Covered
<1> QED BY <1>1, <1>2, <1>5, <1>7, <1>8 DEF IInv

LEMMA BotLeavesStep ==
    ASSUME IInv, NEW h \in Guilds, BotLeaves(h)
    PROVE  IInv'
<1>1. TypeOK /\ TypeOK'
  BY TypeStep DEF IInv, Next, Discord
<1>2. StampsOK'
  BY DEF IInv, StampsOK, BotLeaves
<1>3. CacheOK'
  <2>1. \A g \in whole' : g \in Guilds /\ g \in whole /\ cache'[g] = cache[g]
    BY <1>1 DEF BotLeaves, TypeOK
  <2> QED BY <2>1 DEF IInv, CacheOK, BotLeaves
<1>4. UNCHANGED queue \/ \E t \in Task : t.kind # "remove" /\ queue' = Append(queue, t)
  <2>1. Rebuild.kind # "remove"
    BY DEF Rebuild
  <2> QED BY <2>1, TaskKinds DEF BotLeaves, Enqueue
<1>5. DoubtOK' /\ ScanOK' /\ SnapshotOK' /\ RemovalsOK'
  BY <1>1, <1>4, QuietStep DEF BotLeaves, Covered, TypeOK
<1> QED BY <1>1, <1>2, <1>3, <1>5 DEF IInv

LEMMA OutageStep ==
    ASSUME IInv, NEW h \in Guilds, NEW chunked \in BOOLEAN,
           Outage(h) \/ GuildBack(h, chunked)
    PROVE  IInv'
<1>1. TypeOK /\ TypeOK'
  <2>1. Next
    BY DEF Next, Discord, Returns, Faults
  <2> QED BY <2>1, TypeStep DEF IInv
<1>2. StampsOK'
  BY DEF IInv, StampsOK, Outage, GuildBack
<1>3. CacheOK'
  <2>1. \A g \in whole' :
          \/ g \in whole /\ cache'[g] = cache[g]
          \/ cache'[g] = member[g]
    BY <1>1 DEF Outage, GuildBack, Loaded, TypeOK
  <2>2. UNCHANGED <<member, conn, unheard>>
    BY DEF Outage, GuildBack
  <2> QED BY <2>1, <2>2 DEF IInv, CacheOK
<1>4. DoubtOK' /\ ScanOK' /\ SnapshotOK' /\ RemovalsOK'
  BY <1>1, QuietStep DEF Outage, GuildBack, Covered, TypeOK
<1> QED BY <1>1, <1>2, <1>3, <1>4 DEF IInv

\* A new process, or a connection that is back, claims nothing of which it is
\* sure before it has scanned, but a snapshot of the same second.
LEMMA ReadyStep ==
    ASSUME IInv, NEW available \in SUBSET Guilds, NEW failed \in SUBSET available,
           NEW stamped \in BOOLEAN, Ready(available, failed, stamped)
    PROVE  IInv'
<1>1. TypeOK /\ TypeOK'
  <2>1. Next
    BY DEF Next, Faults, Reconnect
  <2> QED BY <2>1, TypeStep DEF IInv
<1>2. /\ snapshot'.visible = snapshot.visible /\ snapshot'.complete = snapshot.complete
      /\ snapshot'.syncedAt = snapshot.syncedAt
      /\ snapshot'.startedAt = IF stamped THEN clock ELSE snapshot.startedAt
  BY <1>1 DEF Ready, TypeOK
<1>3. StampsOK'
  BY <1>1, <1>2, Stamps DEF IInv, StampsOK, Ready
<1>4. CacheOK'
  <2>1. \A g \in whole' : cache'[g] = member'[g]
    BY <1>1 DEF Ready, Loaded, TypeOK
  <2> QED BY <2>1 DEF CacheOK
<1>5. queue' = Append(queue, Rebuild) /\ QueueMoves
      /\ (queue # <<>> => queue' # Tail(queue))
  BY <1>1, TaskKinds, Differs DEF Ready, QueueMoves, TypeOK
<1>6. RemovalsOK'
  <2>1. \A t \in Task : queue' = Append(queue, t) => t.kind # "remove"
    <3>1. Rebuild.kind = "rebuild"
      BY DEF Rebuild
    <3> QED BY <1>1, <1>5, <3>1, Differs, TaskKinds DEF TypeOK
  <2> QED BY <1>1, <1>5, <2>1, RemovalsKept DEF IInv, Ready
<1>7. \A u \in Users : JoinPending(u) => JoinPending(u)'
  BY <1>1, <1>5, PendingStays DEF Ready
<1>8. ScanOK'
  BY <1>7 DEF IInv, ScanOK, Proves, Covered, InSomeGuild, Ready
<1>9. CASE Claims'
  <2>1. Claims /\ doubted' = doubted
    BY <1>1, <1>2, <1>9, Stamps DEF IInv, StampsOK, Claims, Ready
  <2> QED
    BY <1>1, <1>2, <1>3, <1>4, <1>6, <1>7, <1>8, <2>1
       DEF IInv, DoubtOK, SnapshotOK, Proves, Covered, InSomeGuild, Ready
<1>10. CASE ~Claims'
  BY <1>1, <1>3, <1>4, <1>6, <1>8, <1>10 DEF IInv, DoubtOK, SnapshotOK
<1> QED BY <1>9, <1>10

\* The steps that touch neither members, doubts, scan nor stamps.
LEMMA PlainStep ==
    ASSUME IInv, Gap \/ HeartbeatExpires \/ Periodic \/ Tick \/ UNCHANGED visVars
    PROVE  IInv'
<1>1. TypeOK /\ TypeOK'
  BY TypeStep DEF IInv, Next, Faults
<1>2. StampsOK'
  <2>1. CASE Tick
    <3>1. /\ clock' = clock + 1 /\ UNCHANGED <<snapshot, scan, accounts>>
          /\ \A u \in Users : accounts[u].created # Never /\ ~accounts[u].committed
                                => clock' <= accounts[u].created + Margin
      BY <2>1 DEF Tick
    <3> QED BY <1>1, <3>1, Stamps DEF IInv, StampsOK
  <2>2. CASE ~Tick
    <3>1. /\ snapshot'.syncedAt = snapshot.syncedAt
          /\ snapshot'.startedAt = snapshot.startedAt
          /\ UNCHANGED <<scan, accounts, clock>>
      BY <1>1, <2>2 DEF Gap, HeartbeatExpires, Periodic, visVars, TypeOK
    <3> QED BY <1>1, <3>1, Stamps DEF IInv, StampsOK
  <2> QED BY <2>1, <2>2
<1>3. CacheOK'
  <2>1. UNCHANGED <<member, cache, whole, unheard>> /\ (conn' = conn \/ conn' = "gap")
    BY DEF Gap, HeartbeatExpires, Periodic, Tick, visVars
  <2> QED BY <2>1 DEF IInv, CacheOK
<1>4. UNCHANGED queue \/ \E t \in Task : t.kind # "remove" /\ queue' = Append(queue, t)
  <2>1. Rebuild.kind # "remove"
    BY DEF Rebuild
  <2> QED BY <2>1, TaskKinds DEF Gap, HeartbeatExpires, Periodic, Tick, Enqueue, visVars
<1>5. snapshot' = [snapshot EXCEPT !.beat = snapshot'.beat]
  BY <1>1 DEF Gap, HeartbeatExpires, Periodic, Tick, visVars, TypeOK
<1>6. UNCHANGED <<member, inGuild, accounts, unheard, doubted, checks, scan>>
  BY DEF Gap, HeartbeatExpires, Periodic, Tick, visVars
<1>7. DoubtOK' /\ ScanOK' /\ SnapshotOK' /\ RemovalsOK'
  BY <1>4, <1>5, <1>6, QuietStep DEF Covered
<1> QED BY <1>1, <1>2, <1>3, <1>7 DEF IInv

\* The joins that die with the process are doubts; no removal waits any more.
LEMMA CrashStep ==
    ASSUME IInv, Crash
    PROVE  IInv'
<1>1. TypeOK /\ TypeOK'
  BY TypeStep DEF IInv, Next, Faults
<1>2. StampsOK'
  BY <1>1, Stamps DEF IInv, StampsOK, Crash, NoScan, Never
<1>3. /\ unheard \subseteq unheard' /\ doubted \subseteq doubted'
      /\ \A u \in unheard' : u \in unheard \/ u \in doubted'
      /\ \A u \in Users : JoinPending(u) => u \in doubted'
  BY DEF Crash, Missed, JoinPending
<1>4. CacheOK'
  BY <1>3 DEF IInv, CacheOK, Crash
<1>5. RemovalsOK' /\ ScanOK'
  BY DEF Crash, RemovalsOK, ScanOK, NoScan
<1>6. DoubtOK'
  BY <1>3 DEF IInv, DoubtOK, Claims, Crash
<1>7. SnapshotOK'
  BY <1>3 DEF IInv, SnapshotOK, Claims, Proves, Covered, InSomeGuild, Crash
<1> QED BY <1>1, <1>2, <1>4, <1>5, <1>6, <1>7 DEF IInv

\* on_member_join passes the database, drops the join of somebody unknown, or
\* fails.
LEMMA JoinCheckStep ==
    ASSUME IInv, NEW v \in Users, NEW h \in Guilds, JoinCheck(v, h) \/ JoinFails(v, h)
    PROVE  IInv'
<1>1. TypeOK /\ TypeOK'
  BY TypeStep DEF IInv, Next, Faults, Tasks
<1>2. StampsOK'
  BY DEF IInv, StampsOK, JoinCheck, JoinFails
<1>3. /\ unheard \subseteq unheard' /\ doubted \subseteq doubted'
      /\ \A u \in unheard' : u \in unheard \/ u \in doubted'
      /\ checks' = checks \ {<<v, h>>}
      /\ UNCHANGED <<member, inGuild, cache, whole, unchunked, conn, accounts, snapshot, scan>>
  BY DEF JoinCheck, JoinFails, Missed
<1>4. CacheOK'
  BY <1>3, CacheKept DEF IInv
<1>5. \/ queue' = Append(queue, Add(v))
      \/ /\ UNCHANGED queue
         /\ \/ ~accounts[v].committed /\ (RemovalWaits(v) => v \in unheard')
            \/ v \in unheard' /\ v \in doubted'
  BY DEF JoinCheck, JoinFails, Missed, Enqueue, Add
<1>6. Add(v) \in Task /\ Add(v).kind = "add" /\ QueueMoves
      /\ (queue # <<>> => queue' # Tail(queue))
  <2>1. Add(v) \in Task /\ Add(v).kind = "add"
    BY TaskKinds DEF Add
  <2> QED BY <1>1, <1>5, <2>1, Differs DEF QueueMoves, TypeOK
<1>7. RemovalsOK'
  <2>1. \A t \in Task : queue' = Append(queue, t) => t.kind # "remove"
    BY <1>1, <1>5, <1>6, Differs DEF TypeOK
  <2>2. \A u \in Users, g \in Guilds : <<u, g>> \in checks =>
            \/ <<u, g>> \in checks'
            \/ u \in unheard'
            \/ ~RemovalWaits(u)
            \/ queue' = Append(queue, Add(u))
    BY <1>3, <1>5
  <2> QED BY <1>1, <1>3, <1>6, <2>1, <2>2, RemovalsKept DEF IInv
<1>8. ASSUME NEW u \in Users, JoinPending(u)
      PROVE  JoinPending(u)' \/ (u \in unheard' /\ u \in doubted') \/ ~accounts'[u].committed
  <2>1. CASE u = v
    <3>1. CASE queue' = Append(queue, Add(v))
      <4>1. queue'[Len(queue) + 1] = Add(v) /\ Len(queue) + 1 \in DOMAIN queue'
        BY <1>1, <1>6, <3>1, Queues DEF TypeOK
      <4> QED BY <2>1, <4>1 DEF JoinPending, Add
    <3>2. CASE v \in unheard' /\ v \in doubted'
      BY <2>1, <3>2
    <3>3. CASE ~accounts[v].committed
      BY <1>3, <2>1, <3>3
    <3> QED BY <1>5, <3>1, <3>2, <3>3
  <2>2. CASE u # v
    <3>1. \A g \in Guilds : <<u, g>> \in checks => <<u, g>> \in checks'
      BY <1>3, <2>2
    <3> QED BY <1>1, <1>6, <1>8, <3>1, PendingStays
  <2> QED BY <2>1, <2>2
<1>9. DoubtOK' /\ ScanOK' /\ SnapshotOK'
  <2>1. \A u \in Users : InSomeGuild(u)' => InSomeGuild(u)
    BY <1>3 DEF InSomeGuild
  <2> QED BY <1>1, <1>3, <1>8, <2>1, ClaimsKept DEF IInv, Covered
<1> QED BY <1>1, <1>2, <1>4, <1>7, <1>9 DEF IInv

\* A task that takes its turn, or fails at it, takes with it only what it does:
\* the user it adds, or doubts, and the others wait on.
LEMMA HeadGone ==
    ASSUME IInv, queue # <<>>, queue' = Tail(queue),
           UNCHANGED <<member, inGuild, checks>>, unheard \subseteq unheard'
    PROVE  /\ RemovalsOK'
           /\ \A u \in Users : JoinPending(u) => JoinPending(u)' \/ Head(queue) = Add(u)
<1>1. TypeOK /\ RemovalsOK /\ QueueMoves
  BY DEF IInv, QueueMoves
<1>2. \A t \in Task : queue' # Append(queue, t)
  BY <1>1, Differs DEF TypeOK
<1>3. RemovalsOK'
  BY <1>1, <1>2, RemovalsKept DEF IInv, TypeOK
<1>4. ASSUME NEW u \in Users, JoinPending(u), Head(queue) # Add(u) PROVE JoinPending(u)'
  BY <1>1, <1>4, PendingStays
<1> QED BY <1>3, <1>4

LEMMA AddStep ==
    ASSUME IInv, AddVisible
    PROVE  IInv'
<1>1. TypeOK /\ TypeOK'
  BY TypeStep DEF IInv, Next, Tasks
<1> DEFINE v == Head(queue).user
<1>2. queue # <<>> /\ scan.pc = "none" /\ \A u \in Users : Head(queue) = Add(u) => v = u
  BY <1>1, HeadTyped DEF AddVisible, HasLock, Add
<1>3. /\ snapshot'.visible = snapshot.visible \cup {v}
      /\ snapshot'.complete = snapshot.complete
      /\ snapshot'.syncedAt = snapshot.syncedAt /\ snapshot'.startedAt = snapshot.startedAt
  <2> HIDE DEF v
  <2>1. snapshot' = [snapshot EXCEPT !.visible = @ \cup {v}]
    BY DEF AddVisible, v
  <2> QED BY <1>1, <2>1 DEF TypeOK
<1>4. StampsOK'
  BY <1>3 DEF IInv, StampsOK, AddVisible
<1>5. CacheOK'
  BY CacheKept DEF IInv, AddVisible
<1>6. RemovalsOK' /\ \A u \in Users : JoinPending(u) => JoinPending(u)' \/ Head(queue) = Add(u)
  BY <1>2, HeadGone DEF AddVisible
<1>7. DoubtOK' /\ ScanOK'
  BY <1>2, <1>3 DEF IInv, DoubtOK, ScanOK, Claims, AddVisible
<1>8. SnapshotOK'
  <2> HIDE DEF v
  <2>1. \A u \in Users : JoinPending(u) => JoinPending(u)' \/ u \in snapshot'.visible
    BY <1>2, <1>3, <1>6
  <2> QED BY <1>3, <2>1 DEF IInv, SnapshotOK, Claims, Proves, Covered, InSomeGuild, AddVisible
<1> QED BY <1>1, <1>4, <1>5, <1>6, <1>7, <1>8 DEF IInv

\* on_member_remove takes out only who is in no other guild, as far as the cache
\* tells and nothing is doubted, and who is not back in this one.
LEMMA RemoveStep ==
    ASSUME IInv, RemoveVisible
    PROVE  IInv'
<1>1. TypeOK /\ TypeOK'
  BY TypeStep DEF IInv, Next, Tasks
<1> DEFINE v == Head(queue).user
           h == Head(queue).guild
<1>2. /\ queue # <<>> /\ queue' = Tail(queue) /\ scan.pc = "none" /\ v \in Users
      /\ queue \in Seq(Task) /\ Head(queue) \in Task /\ Head(queue).kind = "remove"
      /\ UNCHANGED <<member, inGuild, cache, whole, unchunked, conn, accounts, checks, scan, clock,
                     unheard, doubted>>
  BY <1>1, HeadTyped DEF RemoveVisible, HasLock, TypeOK
<1>3. /\ snapshot'.complete = snapshot.complete
      /\ snapshot'.syncedAt = snapshot.syncedAt /\ snapshot'.startedAt = snapshot.startedAt
      /\ \/ snapshot'.visible = snapshot.visible
         \/ /\ snapshot'.visible = snapshot.visible \ {v}
            /\ inGuild \ {h} \subseteq whole /\ ~Sees(inGuild \ {h}, v)
  <2>1. \/ snapshot' = snapshot
        \/ /\ snapshot' = [snapshot EXCEPT !.visible = @ \ {v}]
           /\ inGuild \ {h} \subseteq whole /\ ~Sees(inGuild \ {h}, v)
    BY DEF RemoveVisible
  <2> HIDE DEF v, h
  <2> QED BY <1>1, <2>1 DEF TypeOK
<1>4. StampsOK'
  BY <1>2, <1>3 DEF IInv, StampsOK
<1>5. CacheOK'
  BY <1>2, CacheKept DEF IInv
<1>6. RemovalsOK' /\ \A u \in Users : JoinPending(u) => JoinPending(u)'
  <2>1. \A u \in Users : Head(queue) # Add(u)
    BY <1>2 DEF Add
  <2> QED BY <1>2, <2>1, HeadGone
<1>7. DoubtOK' /\ ScanOK'
  BY <1>2, <1>3 DEF IInv, DoubtOK, ScanOK, Claims
<1>8. SnapshotOK'
  <2>1. SUFFICES ASSUME Claims', NEW u \in Users, Covered(u, snapshot.syncedAt)',
                        u \notin snapshot'.visible, u \notin doubted', ~JoinPending(u)',
                        InSomeGuild(u)'
                 PROVE  FALSE
    BY DEF SnapshotOK, Proves
  <2>2. /\ Claims /\ Covered(u, snapshot.syncedAt) /\ u \notin doubted /\ ~JoinPending(u)
        /\ InSomeGuild(u) /\ u \notin unheard
    BY <1>2, <1>3, <1>6, <2>1 DEF Claims, Covered, InSomeGuild, IInv, DoubtOK
  <2>3. u \in snapshot.visible /\ u = v /\ inGuild \ {h} \subseteq whole
        /\ ~Sees(inGuild \ {h}, u)
    <3> HIDE DEF v, h
    <3>1. u \in snapshot.visible
      BY <2>2 DEF IInv, SnapshotOK, Proves
    <3> QED BY <1>3, <2>1, <3>1
  <2>4. PICK g \in inGuild : u \in member[g]
    BY <2>2 DEF InSomeGuild
  <2>5. CASE g # h
    <3> HIDE DEF v, h
    <3>1. g \in whole /\ g \in inGuild \ {h}
      BY <2>3, <2>4, <2>5
    <3>2. u \in cache[g]
      BY <2>2, <2>4, <3>1 DEF IInv, CacheOK
    <3> QED BY <2>3, <3>1, <3>2 DEF Sees
  <2>6. CASE g = h
    <3>1. queue[1] = Head(queue) /\ 1 \in DOMAIN queue
      BY <1>2, Leaves
    <3>2. \/ u \in unheard
          \/ \E k \in Guilds : <<u, k>> \in checks
          \/ \E j \in DOMAIN queue : j > 1 /\ queue[j] = Add(u)
      BY <1>2, <2>3, <2>4, <2>6, <3>1 DEF IInv, RemovalsOK, Add
    <3> QED BY <2>2, <3>2 DEF JoinPending, Add
  <2> QED BY <2>5, <2>6
<1> QED BY <1>1, <1>4, <1>5, <1>6, <1>7, <1>8 DEF IInv

LEMMA FailStep ==
    ASSUME IInv, TaskFails
    PROVE  IInv'
<1>1. TypeOK /\ TypeOK'
  BY TypeStep DEF IInv, Next, Faults
<1>2. /\ queue # <<>> /\ queue' = Tail(queue) /\ scan'.pc = "none" /\ scan'.at = Never
      /\ UNCHANGED <<member, inGuild, cache, whole, unchunked, conn, accounts, checks, snapshot, clock>>
      /\ unheard \subseteq unheard' /\ doubted \subseteq doubted'
      /\ \A u \in unheard' : u \in unheard \/ u \in doubted'
      /\ HasLock("add") => Head(queue).user \in unheard' /\ Head(queue).user \in doubted'
  BY DEF TaskFails, Missed, NoScan
<1>3. StampsOK'
  BY <1>1, <1>2, Stamps DEF IInv, StampsOK, Never
<1>4. CacheOK'
  BY <1>2, CacheKept DEF IInv
<1>5. RemovalsOK' /\ \A u \in Users : JoinPending(u) => JoinPending(u)' \/ Head(queue) = Add(u)
  BY <1>2, HeadGone
<1>6. \A u \in Users : Head(queue) = Add(u) => u \in unheard' /\ u \in doubted'
  BY <1>2 DEF HasLock, Add
<1>7. DoubtOK' /\ ScanOK'
  BY <1>2 DEF IInv, DoubtOK, ScanOK, Claims
<1>8. SnapshotOK'
  BY <1>2, <1>5, <1>6 DEF IInv, SnapshotOK, Claims, Proves, Covered, InSomeGuild
<1> QED BY <1>1, <1>3, <1>4, <1>5, <1>7, <1>8 DEF IInv

\* The rebuild takes its instant, and after it reads the registered users: all
\* that it covers are among them.
LEMMA LockStep ==
    ASSUME IInv, RebuildLock \/ RebuildQuery
    PROVE  IInv'
<1>1. TypeOK /\ TypeOK'
  BY TypeStep DEF IInv, Next, Tasks
<1>2. UNCHANGED <<member, inGuild, cache, whole, unchunked, conn, accounts, snapshot, checks,
                  queue, clock, unheard, doubted>>
  BY DEF RebuildLock, RebuildQuery
<1>3. /\ scan'.at \in {scan.at, clock}
      /\ \/ scan'.pc = "locked"
         \/ scan'.pc = "queried" /\ \A u \in Users : accounts[u].committed => u \in scan'.ids
  <2>1. CASE RebuildLock
    BY <2>1 DEF RebuildLock, NoScan
  <2>2. CASE RebuildQuery
    <3>1. /\ scan'.pc = "queried" /\ scan'.at = scan.at
          /\ scan'.ids = {u \in Users : accounts[u].committed}
      BY <1>1, <2>2 DEF RebuildQuery, TypeOK
    <3> QED BY <3>1
  <2> QED BY <2>1, <2>2
<1>4. StampsOK'
  BY <1>1, <1>2, <1>3, Stamps DEF IInv, StampsOK
<1>5. CacheOK'
  BY <1>2, CacheKept DEF IInv
<1>6. RemovalsOK' /\ DoubtOK' /\ SnapshotOK'
  BY <1>2 DEF IInv, RemovalsOK, DoubtOK, SnapshotOK, Claims, Proves, Covered, InSomeGuild,
              JoinPending
<1>7. ScanOK'
  BY <1>2, <1>3 DEF ScanOK, Covered
<1> QED BY <1>1, <1>4, <1>5, <1>6, <1>7 DEF IInv

\* A complete scan sees every guild as it is, but for what went unheard.
LEMMA ScanStep ==
    ASSUME IInv, RebuildScan
    PROVE  IInv'
<1>1. TypeOK /\ TypeOK'
  BY TypeStep DEF IInv, Next, Tasks
<1>2. UNCHANGED <<member, inGuild, cache, whole, unchunked, conn, accounts, snapshot, checks,
                  queue, clock, doubted>>
  BY DEF RebuildScan
<1>3. /\ scan.pc = "queried" /\ scan'.pc = "scanned" /\ scan'.at = scan.at
      /\ scan'.complete => inGuild \subseteq whole
      /\ \A u \in scan.ids : Sees(inGuild, u) => u \in scan'.ids
      /\ unheard' \subseteq unheard
      /\ \A u \in unheard : u \in unheard' \/ (conn = "up" /\ ~RemovalWaits(u))
  BY <1>1 DEF RebuildScan, TypeOK
<1>4. StampsOK'
  BY <1>2, <1>3 DEF IInv, StampsOK
<1>5. CacheOK'
  <2>1. ASSUME NEW g \in whole, NEW u \in Users, u \notin unheard'
        PROVE  u \in cache[g] <=> u \in member[g]
    BY <1>3, <2>1 DEF IInv, CacheOK
  <2>2. \A g \in whole : conn = "up" => cache[g] = member[g]
    BY DEF IInv, CacheOK
  <2> QED BY <1>2, <2>1, <2>2 DEF CacheOK
<1>6. RemovalsOK'
  <2>1. QueueMoves /\ \A t \in Task : queue' # Append(queue, t)
    BY <1>1, <1>2, Differs DEF QueueMoves, TypeOK
  <2> QED BY <1>1, <1>2, <1>3, <2>1, RemovalsKept DEF IInv
<1>7. DoubtOK' /\ SnapshotOK'
  BY <1>2, <1>3 DEF IInv, DoubtOK, SnapshotOK, Claims, Proves, Covered, InSomeGuild, JoinPending
<1>8. ScanOK'
  <2>1. SUFFICES ASSUME scan'.complete, NEW u \in Users, Covered(u, scan.at),
                        u \notin scan'.ids, u \notin unheard', NEW g \in inGuild,
                        u \in member[g]
                 PROVE  FALSE
    BY <1>2, <1>3 DEF ScanOK, Proves, Covered, InSomeGuild
  <2>2. u \in scan.ids
    BY <1>3, <2>1 DEF IInv, ScanOK
  <2>3. g \in whole /\ u \in cache[g]
    BY <1>2, <1>3, <1>5, <2>1 DEF CacheOK
  <2> QED BY <1>3, <2>1, <2>2, <2>3 DEF Sees
<1> QED BY <1>1, <1>4, <1>5, <1>6, <1>7, <1>8 DEF IInv

\* What the scan proved is what the snapshot now claims.
LEMMA WriteStep ==
    ASSUME IInv, RebuildWrite
    PROVE  IInv'
<1>1. TypeOK /\ TypeOK'
  BY TypeStep DEF IInv, Next, Tasks
<1>2. /\ scan.pc = "scanned" /\ scan'.pc = "none" /\ scan'.at = Never
      /\ UNCHANGED <<member, inGuild, cache, whole, unchunked, conn, accounts, checks, clock,
                     unheard>>
      /\ queue # <<>> /\ Head(queue) = Rebuild /\ queue' = Tail(queue)
      /\ doubted' = IF scan.complete THEN unheard ELSE doubted
  BY <1>1 DEF RebuildWrite, NoScan, TypeOK
<1>3. /\ snapshot'.visible = scan.ids /\ snapshot'.complete = scan.complete
      /\ snapshot'.syncedAt = scan.at /\ snapshot'.startedAt = snapshot.startedAt
  BY <1>1 DEF RebuildWrite, TypeOK
<1>4. StampsOK'
  BY <1>1, <1>2, <1>3, Stamps DEF IInv, StampsOK, Never
<1>5. CacheOK'
  BY <1>2, CacheKept DEF IInv
<1>6. RemovalsOK' /\ \A u \in Users : JoinPending(u) => JoinPending(u)'
  <2>1. \A u \in Users : Rebuild # Add(u)
    BY DEF Rebuild, Add
  <2> QED BY <1>2, <2>1, HeadGone
<1>7. DoubtOK' /\ ScanOK'
  BY <1>2, <1>3 DEF DoubtOK, ScanOK, Claims
<1>8. SnapshotOK'
  <2>1. SUFFICES ASSUME scan.complete PROVE Proves(snapshot.syncedAt, snapshot.visible, doubted)'
    BY <1>3 DEF SnapshotOK, Claims
  <2>2. Proves(scan.at, scan.ids, unheard)
    BY <1>2, <2>1 DEF IInv, ScanOK
  <2> QED BY <1>2, <1>3, <1>6, <2>1, <2>2 DEF Proves, Covered, InSomeGuild
<1> QED BY <1>1, <1>4, <1>5, <1>6, <1>7, <1>8 DEF IInv

LEMMA StepIInv == IInv /\ [Next]_visVars => IInv'
<1> SUFFICES ASSUME IInv, [Next]_visVars PROVE IInv'
  OBVIOUS
<1> QED
  BY PlainStep, RegisterStep, CommitStep, JoinsStep, LeavesStep, BotJoinsStep, BotLeavesStep,
     OutageStep, ReadyStep, CrashStep, JoinCheckStep, AddStep, RemoveStep, FailStep, LockStep,
     ScanStep, WriteStep
     DEF Next, Discord, Faults, Reconnect, Returns, Tasks

-----------------------------------------------------------------------------
(* The theorems                                                               *)

\* Types: the snapshot, the queue of its writers and the scan in progress are
\* always well formed; a rebuild that has begun has the lock.
THEOREM TypesHold == Spec => []TypeOK
<1>1. Init => TypeOK
  BY TypeInit
<1>2. TypeOK /\ [Next]_visVars => TypeOK'
  BY TypeStep
<1> QED BY <1>1, <1>2, PTL DEF Spec

\* "False only when the snapshot proves absence" (get_bot_visibility): whatever
\* handlers race, fail or die, however many guilds and users.
THEOREM FalseMeansAbsent == Spec => []FalseIsProved
<1>1. Init => IInv
  BY InitIInv
<1>2. IInv /\ [Next]_visVars => IInv'
  BY StepIInv
<1>3. IInv => FalseIsProved
  <2> SUFFICES ASSUME IInv, NEW u \in Users, accounts[u].committed, Answer(u) = "false",
                      u \notin doubted, ~JoinPending(u)
               PROVE  ~InSomeGuild(u)
    BY DEF FalseIsProved
  <2>1. /\ Trusted /\ u \notin snapshot.visible /\ snapshot.complete
        /\ accounts[u].created < snapshot.syncedAt - Margin
    BY DEF Answer
  <2> QED BY <2>1 DEF IInv, SnapshotOK, Proves, Claims, Covered, Trusted
<1> QED BY <1>1, <1>2, <1>3, PTL DEF Spec
=============================================================================
