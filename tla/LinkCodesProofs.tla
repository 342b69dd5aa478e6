--------------------------- MODULE LinkCodesProofs ---------------------------
(* LiveCodeIsIndexed for every set of users, codes and processes.  It is not  *)
(* inductive by itself: while a call of the user is in flight the reverse key *)
(* may lag behind, and it is the call that knows which code can be live.      *)
EXTENDS LinkCodes, TLAPS

On(p, u) == InFlight(p) /\ link[p].user = u

\* An undisturbed user has at most one call in flight.
Alone == \A u \in Users \ disturbed : \A p, q \in Procs : On(p, u) /\ On(q, u) => p = q

\* p's call knows c as the one code of u that can be live.
Holds(p, u, c) == /\ link[p].pc # "drop" /\ link[p].code = c
                  /\ link[p].pc = "store" => pending[u] = c

\* A live code of an undisturbed user is the one its call holds, or the one
\* the reverse key points to when no call is in flight.
Held == \A u \in Users \ disturbed : \A c \in Codes :
            codes[c] = u =>
                /\ ~Busy(u) => pending[u] = c
                /\ \A p \in Procs : On(p, u) => Holds(p, u, c)

\* A call in flight is some user's.
Named == \A p \in Procs : InFlight(p) => link[p].user \in Users

LinkInv == LinkTypeOK /\ Named /\ Alone /\ Held

-----------------------------------------------------------------------------
(* The first state of Redis holds no code and no call.                        *)
LEMMA LinkInitInv == LinkInit => LinkInv
  <1> SUFFICES ASSUME LinkInit PROVE LinkInv
    OBVIOUS
  <1>1. LinkTypeOK
    BY LinkAssumption DEF LinkInit, LinkTypeOK, Call, NoCall, CallAt
  <1>2. \A p \in Procs : ~InFlight(p)
    BY DEF LinkInit, NoCall, CallAt, InFlight, CallPcs
  <1>3. \A c \in Codes : codes[c] \notin Users
    BY LinkAssumption DEF LinkInit
  <1> QED
    BY <1>1, <1>2, <1>3 DEF LinkInv, Named, Alone, Held, On

(* issue_code reads the reverse key; the user's calls overlap from here on    *)
(* when one was in flight.                                                    *)
LEMMA IssueReadInv ==
  ASSUME LinkInv, NEW p \in Procs, NEW u \in Users, IssueRead(p, u)
  PROVE  LinkInv'
  <1> USE LinkAssumption
  <1>1. LinkTypeOK'
    <2>1. /\ codes' \in [Codes -> Users \cup {NoUser}]
          /\ pending' \in [Users -> Codes \cup {NoCode}]
          /\ disturbed' \in SUBSET Users
      BY DEF LinkInv, LinkTypeOK, IssueRead, Overlap
    <2>2. [pc |-> "store", user |-> u, code |-> pending[u], tries |-> 0] \in Call
      BY DEF LinkInv, LinkTypeOK, Call, CallPcs, LinkAssumption
    <2>3. link' \in [Procs -> Call]
      BY <2>2 DEF LinkInv, LinkTypeOK, IssueRead, CallAt
    <2> QED BY <2>1, <2>3 DEF LinkTypeOK
  <1>2. /\ link' = [link EXCEPT ![p] = [pc |-> "store", user |-> u,
                                        code |-> pending[u], tries |-> 0]]
        /\ codes' = codes /\ pending' = pending
        /\ link[p].pc = "idle"
    BY DEF IssueRead, CallAt
  <1>3. \A q \in Procs : q # p => link'[q] = link[q]
    BY <1>2 DEF LinkInv, LinkTypeOK
  <1>4. link'[p].pc = "store" /\ link'[p].user = u /\ link'[p].code = pending[u]
    BY <1>2 DEF LinkInv, LinkTypeOK
  <1>5. \A v \in Users : \A q \in Procs : On(q, v)' <=> (q = p /\ v = u) \/ (q # p /\ On(q, v))
    BY <1>3, <1>4 DEF On, InFlight, CallPcs
  <1>6. ~InFlight(p)
    BY <1>2 DEF InFlight, CallPcs
  <1>7. \A v \in Users : v # u => (Busy(v)' <=> Busy(v))
    BY <1>5, <1>6 DEF Busy, On
  <1>8. \A v \in Users \ disturbed' : v \in Users \ disturbed /\ (v = u => ~Busy(u))
    BY DEF IssueRead, Overlap
  <1>9. Named'
    BY <1>3, <1>4 DEF LinkInv, Named, InFlight
  <1>10. Alone'
    BY <1>5, <1>8 DEF LinkInv, Alone, On, Busy
  <1>11. Busy(u)'
    BY <1>4 DEF Busy, InFlight, CallPcs
  <1>12. ASSUME NEW v \in Users \ disturbed', NEW c \in Codes, codes[c] = v
         PROVE  /\ ~Busy(v)' => pending[v] = c
                /\ \A q \in Procs : On(q, v)' => Holds(q, v, c)'
    <2>1. CASE v = u
      <3>1. pending[u] = c
        BY <1>8, <1>12, <2>1 DEF LinkInv, Held
      <3>2. \A q \in Procs : On(q, v)' => q = p
        BY <1>5, <1>8, <2>1 DEF On, Busy
      <3> QED BY <3>1, <3>2, <1>2, <1>4, <1>11, <2>1 DEF Holds
    <2>2. CASE v # u
      BY <1>2, <1>3, <1>5, <1>7, <1>8, <1>12, <2>2 DEF LinkInv, Held, Holds
    <2> QED BY <2>1, <2>2
  <1>13. Held'
    BY <1>2, <1>12 DEF Held
  <1> QED BY <1>1, <1>9, <1>10, <1>13 DEF LinkInv

(* A step of p that keeps its call, or ends it, and adds no user's call.      *)
LEMMA SameCalls ==
  ASSUME LinkInv, NEW p \in Procs,
         \A q \in Procs : q # p => link'[q] = link[q],
         InFlight(p)' => InFlight(p) /\ link'[p].user = link[p].user,
         disturbed \subseteq disturbed'
  PROVE  /\ Named' /\ Alone'
         /\ \A u \in Users : \A q \in Procs : On(q, u)' => On(q, u)
         /\ \A u \in Users : \A q \in Procs : q # p => (On(q, u)' <=> On(q, u))
  <1>1. \A u \in Users : \A q \in Procs : On(q, u)' => On(q, u)
    BY DEF On, InFlight
  <1>2. \A u \in Users : \A q \in Procs : q # p => (On(q, u)' <=> On(q, u))
    BY DEF On, InFlight
  <1>3. Named'
    BY DEF LinkInv, Named, InFlight
  <1>4. Alone'
    BY <1>1 DEF LinkInv, Alone
  <1> QED BY <1>1, <1>2, <1>3, <1>4

(* What such a step must show of the codes and the reverse keys.              *)
LEMMA SameCallsHeld ==
  ASSUME LinkInv, NEW p \in Procs,
         \A q \in Procs : q # p => link'[q] = link[q],
         InFlight(p)' => InFlight(p) /\ link'[p].user = link[p].user,
         disturbed \subseteq disturbed',
         \A u \in Users, c \in Codes : codes'[c] = u => codes[c] = u \/ (InFlight(p)' /\ link[p].user = u),
         \A u \in Users : pending'[u] = pending[u] \/ (InFlight(p) /\ link[p].user = u),
         InFlight(p) => \A c \in Codes :
             link[p].user \notin disturbed' /\ codes'[c] = link[p].user =>
                 /\ ~InFlight(p)' => pending'[link[p].user] = c
                 /\ InFlight(p)' => Holds(p, link[p].user, c)'
  PROVE  Held'
  <1>1. \A u \in Users : \A q \in Procs : q # p => (On(q, u)' <=> On(q, u))
    BY DEF On, InFlight
  <1>2. SUFFICES ASSUME NEW u \in Users \ disturbed', NEW c \in Codes, codes'[c] = u
                 PROVE  /\ ~Busy(u)' => pending'[u] = c
                        /\ \A q \in Procs : On(q, u)' => Holds(q, u, c)'
    BY DEF Held
  <1>3. u \in Users \ disturbed
    OBVIOUS
  <1>4. CASE On(p, u)
    <2>1. \A q \in Procs : On(q, u)' => q = p
      BY <1>1, <1>3, <1>4 DEF LinkInv, Alone
    <2>2. Busy(u)' <=> InFlight(p)'
      BY <1>4, <2>1 DEF Busy, On
    <2> QED BY <1>2, <1>4, <2>1, <2>2 DEF On
  <1>5. CASE ~On(p, u)
    <2>1. ~On(p, u)'
      BY <1>5 DEF On
    <2>2. Busy(u)' <=> Busy(u)
      BY <1>1, <1>5, <2>1 DEF Busy, On
    <2>3. codes[c] = u /\ pending'[u] = pending[u]
      BY <1>2, <1>5 DEF On
    <2>4. \A q \in Procs : On(q, u)' => q # p /\ On(q, u) /\ link'[q] = link[q]
      BY <1>1, <2>1
    <2> QED BY <1>3, <2>2, <2>3, <2>4 DEF LinkInv, Held, Holds
  <1> QED BY <1>4, <1>5

(* One try of issue_code: no other user's code is taken over, and the user's  *)
(* own old code is gone before the new one is stored.                         *)
LEMMA IssueStoreInv ==
  ASSUME LinkInv, NEW p \in Procs, NEW c \in Codes, IssueStore(p, c)
  PROVE  LinkInv'
  <1> DEFINE u == link[p].user
  <1>1. /\ link[p].pc = "store" /\ InFlight(p) /\ u \in Users /\ On(p, u)
        /\ link[p] \in Call /\ pending' = pending /\ disturbed' = disturbed
    BY DEF IssueStore, LinkInv, LinkTypeOK, Named, InFlight, CallPcs, On
  <1>2. \A d \in Codes : codes[d] = u /\ u \notin disturbed => d = link[p].code /\ pending[u] = d
    BY <1>1 DEF LinkInv, Held, Holds
  <1>3. /\ WithoutOld(p) \in [Codes -> Users \cup {NoUser}]
        /\ \A d \in Codes : WithoutOld(p)[d] = codes[d] \/ WithoutOld(p)[d] = NoUser
        /\ \A d \in Codes : WithoutOld(p)[d] = u => u \in disturbed
    BY <1>1, <1>2, LinkAssumption DEF WithoutOld, LinkInv, LinkTypeOK, LinkAssumption
  <1>4. CASE Retry(p) /\ codes' \in {codes, WithoutOld(p)}
    <2>1. /\ \A q \in Procs : q # p => link'[q] = link[q]
          /\ link'[p].user = u /\ link'[p].code = link[p].code
          /\ link'[p].pc \in {"store", "failed"}
      BY <1>1, <1>4 DEF Retry, LinkInv, LinkTypeOK, Call
    <2>2. LinkTypeOK'
      <3>1. link[p].tries + 1 \in Nat
        BY <1>1 DEF Call
      <3>2. link' \in [Procs -> Call]
        <4>1. CASE link[p].tries + 1 = MaxCollisionRetries
          BY <1>1, <1>4, <3>1, <4>1 DEF LinkInv, LinkTypeOK, Retry, Call, ResultPcs
        <4>2. CASE link[p].tries + 1 # MaxCollisionRetries
          BY <1>1, <1>4, <3>1, <4>2 DEF LinkInv, LinkTypeOK, Retry, Call
        <4> QED BY <4>1, <4>2
      <3>3. codes' \in [Codes -> Users \cup {NoUser}]
        BY <1>3, <1>4 DEF LinkInv, LinkTypeOK
      <3> QED BY <1>1, <3>2, <3>3 DEF LinkInv, LinkTypeOK
    <2>3. \A d \in Codes : codes'[d] = u /\ u \notin disturbed' =>
             pending'[u] = d /\ link'[p].code = d
      BY <1>1, <1>2, <1>3, <1>4, <2>1
    <2>4. \A v \in Users, d \in Codes : codes'[d] = v => codes[d] = v
      BY <1>3, <1>4, LinkAssumption DEF LinkAssumption
    <2>5. Held'
      BY <1>1, <2>1, <2>3, <2>4, SameCallsHeld DEF Holds
    <2>6. Named' /\ Alone'
      BY <1>1, <2>1, SameCalls
    <2> QED BY <2>2, <2>5, <2>6 DEF LinkInv
  <1>5. CASE /\ codes' = [WithoutOld(p) EXCEPT ![c] = u]
             /\ link' = [link EXCEPT ![p].pc = "index", ![p].code = c]
             /\ WithoutOld(p)[c] = NoUser
    <2>1. /\ \A q \in Procs : q # p => link'[q] = link[q]
          /\ link'[p].user = u /\ link'[p].code = c /\ link'[p].pc = "index"
          /\ InFlight(p)'
      BY <1>1, <1>5 DEF LinkInv, LinkTypeOK, Call, InFlight, CallPcs
    <2>2. LinkTypeOK'
      BY <1>1, <1>3, <1>5 DEF LinkInv, LinkTypeOK, Call, CallPcs
    <2>3. \A d \in Codes : codes'[d] = u /\ u \notin disturbed' => d = c
      BY <1>1, <1>3, <1>5
    <2>4. \A v \in Users, d \in Codes : codes'[d] = v => codes[d] = v \/ v = u
      BY <1>3, <1>5, LinkAssumption DEF LinkAssumption
    <2>5. Held'
      BY <1>1, <2>1, <2>3, <2>4, SameCallsHeld DEF Holds
    <2>6. Named' /\ Alone'
      BY <1>1, <2>1, SameCalls
    <2> QED BY <2>2, <2>5, <2>6 DEF LinkInv
  <1> QED BY <1>4, <1>5 DEF IssueStore

(* The reverse key of the code that was stored.                               *)
LEMMA IssueIndexInv ==
  ASSUME LinkInv, NEW p \in Procs, IssueIndex(p)
  PROVE  LinkInv'
  <1> DEFINE u == link[p].user
  <1>1. /\ link[p].pc = "index" /\ InFlight(p) /\ u \in Users /\ On(p, u)
        /\ link[p] \in Call /\ codes' = codes /\ disturbed' = disturbed
        /\ pending' = [pending EXCEPT ![u] = link[p].code]
    BY DEF IssueIndex, LinkInv, LinkTypeOK, Named, InFlight, CallPcs, On
  <1>2. /\ \A q \in Procs : q # p => link'[q] = link[q]
        /\ ~InFlight(p)'
    BY <1>1 DEF IssueIndex, LinkInv, LinkTypeOK, Call, InFlight, CallPcs
  <1>3. LinkTypeOK'
    BY <1>1 DEF IssueIndex, LinkInv, LinkTypeOK, Call, ResultPcs
  <1>4. \A d \in Codes : codes'[d] = u /\ u \notin disturbed' => pending'[u] = d
    BY <1>1 DEF LinkInv, LinkTypeOK, Held, Holds
  <1>5. \A v \in Users : pending'[v] = pending[v] \/ v = u
    BY <1>1 DEF LinkInv, LinkTypeOK
  <1>6. Held'
    BY <1>1, <1>2, <1>4, <1>5, SameCallsHeld
  <1>7. Named' /\ Alone'
    BY <1>1, <1>2, SameCalls
  <1> QED BY <1>3, <1>6, <1>7 DEF LinkInv

(* The second halves of redeem_code and discard_pending_code.                 *)
LEMMA RedeemDropInv ==
  ASSUME LinkInv, NEW p \in Procs, RedeemDrop(p)
  PROVE  LinkInv'
  <1> DEFINE u == link[p].user
  <1>1. /\ link[p].pc = "drop" /\ InFlight(p) /\ u \in Users /\ On(p, u)
        /\ link[p] \in Call /\ codes' = codes /\ disturbed' = disturbed
        /\ pending' = [pending EXCEPT ![u] = NoCode]
    BY DEF RedeemDrop, LinkInv, LinkTypeOK, Named, InFlight, CallPcs, On
  <1>2. /\ \A q \in Procs : q # p => link'[q] = link[q]
        /\ ~InFlight(p)'
    BY <1>1 DEF RedeemDrop, LinkInv, LinkTypeOK, Call, InFlight, CallPcs
  <1>3. LinkTypeOK'
    BY <1>1 DEF RedeemDrop, LinkInv, LinkTypeOK, Call, ResultPcs
  <1>4. \A d \in Codes : codes'[d] = u => u \in disturbed'
    BY <1>1 DEF LinkInv, Held, Holds
  <1>5. \A v \in Users : pending'[v] = pending[v] \/ v = u
    BY <1>1 DEF LinkInv, LinkTypeOK
  <1>6. Held'
    BY <1>1, <1>2, <1>4, <1>5, SameCallsHeld
  <1>7. Named' /\ Alone'
    BY <1>1, <1>2, SameCalls
  <1> QED BY <1>3, <1>6, <1>7 DEF LinkInv

LEMMA DiscardClearInv ==
  ASSUME LinkInv, NEW p \in Procs, DiscardClear(p)
  PROVE  LinkInv'
  <1> DEFINE u == link[p].user
  <1>1. /\ link[p].pc = "clear" /\ InFlight(p) /\ u \in Users /\ On(p, u)
        /\ link[p] \in Call /\ pending' = pending /\ disturbed' = disturbed
        /\ codes' = [codes EXCEPT ![link[p].code] = NoUser]
    BY DEF DiscardClear, LinkInv, LinkTypeOK, Named, InFlight, CallPcs, On
  <1>2. /\ \A q \in Procs : q # p => link'[q] = link[q]
        /\ ~InFlight(p)'
    BY <1>1 DEF DiscardClear, LinkInv, LinkTypeOK, Call, InFlight, CallPcs
  <1>3. LinkTypeOK'
    BY <1>1 DEF DiscardClear, LinkInv, LinkTypeOK, Call, ResultPcs
  <1>4. \A v \in Users, d \in Codes : codes'[d] = v => codes[d] = v /\ d # link[p].code
    BY <1>1, LinkAssumption DEF LinkInv, LinkTypeOK, LinkAssumption
  <1>5. \A d \in Codes : codes'[d] = u => u \in disturbed'
    BY <1>1, <1>4 DEF LinkInv, Held, Holds
  <1>6. Held'
    BY <1>1, <1>2, <1>4, <1>5, SameCallsHeld
  <1>7. Named' /\ Alone'
    BY <1>1, <1>2, SameCalls
  <1> QED BY <1>3, <1>6, <1>7 DEF LinkInv

(* A call that is over leaves, and one that is cut short disturbs its user.   *)
LEMMA EndInv ==
  ASSUME LinkInv, NEW p \in Procs, Return(p) \/ CallLost(p)
  PROVE  LinkInv'
  <1> DEFINE u == link[p].user
  <1>1. /\ codes' = codes /\ pending' = pending /\ disturbed \subseteq disturbed'
        /\ InFlight(p) => u \in disturbed'
    BY DEF Return, CallLost, InFlight, CallPcs, ResultPcs
  <1>2. /\ \A q \in Procs : q # p => link'[q] = link[q]
        /\ ~InFlight(p)'
    BY DEF Return, CallLost, LinkInv, LinkTypeOK, Call, InFlight, CallPcs, NoCall, CallAt
  <1>3. link' \in [Procs -> Call]
    <2>1. NoCall \in Call
      BY DEF NoCall, CallAt, Call
    <2> QED BY <2>1 DEF Return, CallLost, LinkInv, LinkTypeOK, Call, ResultPcs
  <1>4. disturbed' \in SUBSET Users
    BY DEF Return, CallLost, LinkInv, LinkTypeOK, Named
  <1>5. Held'
    BY <1>1, <1>2, SameCallsHeld
  <1>6. Named' /\ Alone'
    BY <1>1, <1>2, SameCalls
  <1> QED BY <1>1, <1>3, <1>4, <1>5, <1>6 DEF LinkInv, LinkTypeOK

(* redeem_code takes a code: the only one its user can have had, when no      *)
(* other call of the user is in flight.                                       *)
LEMMA RedeemTakeInv ==
  ASSUME LinkInv, NEW p \in Procs, NEW c \in Codes, RedeemTake(p, c)
  PROVE  LinkInv'
  <1> USE LinkAssumption DEF LinkAssumption
  <1>1. /\ pending' = pending /\ link[p].pc = "idle" /\ ~InFlight(p)
        /\ \A q \in Procs : q # p => link'[q] = link[q]
    BY DEF RedeemTake, LinkInv, LinkTypeOK, InFlight, CallPcs
  <1>2. CASE codes[c] = NoUser
    <2>1. codes' = codes /\ disturbed' = disturbed /\ ~InFlight(p)'
      BY <1>2 DEF RedeemTake, LinkInv, LinkTypeOK, InFlight, CallPcs, CallAt
    <2>2. LinkTypeOK'
      BY <1>1, <1>2, <2>1 DEF RedeemTake, LinkInv, LinkTypeOK, Call, CallAt, ResultPcs
    <2>3. Held'
      BY <1>1, <2>1, SameCallsHeld
    <2>4. Named' /\ Alone'
      BY <1>1, <2>1, SameCalls
    <2> QED BY <2>2, <2>3, <2>4 DEF LinkInv
  <1>3. CASE codes[c] # NoUser
    <2> DEFINE u == codes[c]
    <2>1. /\ u \in Users
          /\ codes' = [codes EXCEPT ![c] = NoUser]
          /\ link' = [link EXCEPT ![p] = CallAt("drop", u, c)]
          /\ disturbed' = IF Busy(u) THEN disturbed \cup {u} ELSE disturbed
      BY <1>3 DEF RedeemTake, Overlap, LinkInv, LinkTypeOK
    <2>2. link'[p].pc = "drop" /\ link'[p].user = u /\ link'[p].code = c
      BY <2>1 DEF LinkInv, LinkTypeOK, CallAt
    <2>3. LinkTypeOK'
      <3>1. CallAt("drop", u, c) \in Call
        BY <2>1 DEF CallAt, Call, CallPcs
      <3> QED BY <1>1, <2>1, <3>1 DEF LinkInv, LinkTypeOK
    <2>4. Named'
      BY <1>1, <2>1, <2>2 DEF LinkInv, Named, InFlight
    <2>5. \A v \in Users, q \in Procs : On(q, v)' <=> (q = p /\ v = u) \/ (q # p /\ On(q, v))
      BY <1>1, <2>2 DEF On, InFlight, CallPcs
    <2>6. \A v \in Users \ disturbed' : v \in Users \ disturbed /\ (v = u => ~Busy(u))
      BY <2>1
    <2>7. Alone'
      BY <2>5, <2>6 DEF LinkInv, Alone, On, Busy
    <2>8. \A d \in Codes : codes'[d] # NoUser => d # c /\ codes'[d] = codes[d]
      BY <2>1 DEF LinkInv, LinkTypeOK
    <2>9. ASSUME NEW v \in Users \ disturbed', NEW d \in Codes, codes'[d] = v
          PROVE  /\ ~Busy(v)' => pending'[v] = d
                 /\ \A q \in Procs : On(q, v)' => Holds(q, v, d)'
      <3>1. codes[d] = v /\ d # c
        BY <2>8, <2>9
      <3>2. v # u
        BY <2>6, <3>1 DEF LinkInv, Held
      <3>3. Busy(v)' <=> Busy(v)
        BY <1>1, <2>5, <3>2 DEF Busy, On
      <3> QED BY <1>1, <2>5, <2>6, <3>1, <3>2, <3>3 DEF LinkInv, Held, Holds
    <2>10. Held'
      BY <2>9 DEF Held
    <2> QED BY <2>3, <2>4, <2>7, <2>10 DEF LinkInv
  <1> QED BY <1>2, <1>3

(* discard_pending_code takes the reverse key; its call knows the code.       *)
LEMMA DiscardTakeInv ==
  ASSUME LinkInv, NEW p \in Procs, NEW u \in Users, DiscardTake(p, u)
  PROVE  LinkInv'
  <1> USE LinkAssumption DEF LinkAssumption
  <1> DEFINE pc == IF pending[u] = NoCode THEN "discarded" ELSE "clear"
  <1>1. /\ codes' = codes /\ link[p].pc = "idle" /\ ~InFlight(p)
        /\ pending' = [pending EXCEPT ![u] = NoCode]
        /\ link' = [link EXCEPT ![p] = CallAt(pc, u, pending[u])]
        /\ disturbed' = IF Busy(u) THEN disturbed \cup {u} ELSE disturbed
    BY DEF DiscardTake, Overlap, InFlight, CallPcs
  <1>2. /\ \A q \in Procs : q # p => link'[q] = link[q]
        /\ link'[p].pc = pc /\ link'[p].user = u /\ link'[p].code = pending[u]
    BY <1>1 DEF LinkInv, LinkTypeOK, CallAt
  <1>3. LinkTypeOK'
    <2>1. CallAt(pc, u, pending[u]) \in Call
      BY DEF LinkInv, LinkTypeOK, CallAt, Call, CallPcs, ResultPcs
    <2> QED BY <1>1, <2>1 DEF LinkInv, LinkTypeOK
  <1>4. Named'
    BY <1>2 DEF LinkInv, Named, InFlight
  <1>5. \A v \in Users, q \in Procs :
           On(q, v)' <=> (q = p /\ v = u /\ pc = "clear") \/ (q # p /\ On(q, v))
    BY <1>2 DEF On, InFlight, CallPcs
  <1>6. \A v \in Users \ disturbed' : v \in Users \ disturbed /\ (v = u => ~Busy(u))
    BY <1>1
  <1>7. Alone'
    BY <1>5, <1>6 DEF LinkInv, Alone, On, Busy
  <1>8. ASSUME NEW v \in Users \ disturbed', NEW d \in Codes, codes'[d] = v
        PROVE  /\ ~Busy(v)' => pending'[v] = d
               /\ \A q \in Procs : On(q, v)' => Holds(q, v, d)'
    <2>0. codes[d] = v
      BY <1>1, <1>8
    <2>1. CASE v = u
      <3>1. pending[u] = d
        BY <1>6, <2>0, <2>1 DEF LinkInv, Held
      <3>2. pc = "clear"
        BY <3>1
      <3>3. \A q \in Procs : On(q, v)' => q = p
        BY <1>5, <1>6, <2>1 DEF On, Busy
      <3>4. Busy(u)'
        BY <1>2, <3>2 DEF Busy, InFlight, CallPcs
      <3> QED BY <1>2, <2>1, <3>1, <3>2, <3>3, <3>4 DEF Holds
    <2>2. CASE v # u
      <3>1. pending'[v] = pending[v]
        BY <1>1, <2>2 DEF LinkInv, LinkTypeOK
      <3>2. Busy(v)' <=> Busy(v)
        BY <1>1, <1>5, <2>2 DEF Busy, On
      <3> QED BY <1>2, <1>5, <1>6, <2>0, <2>2, <3>1, <3>2 DEF LinkInv, Held, Holds
    <2> QED BY <2>1, <2>2
  <1>9. Held'
    BY <1>8 DEF Held
  <1> QED BY <1>3, <1>4, <1>7, <1>9 DEF LinkInv

(* A key expires.                                                             *)
LEMMA CodeExpiresInv ==
  ASSUME LinkInv, NEW c \in Codes, CodeExpires(c)
  PROVE  LinkInv'
  <1>1. /\ codes' = [codes EXCEPT ![c] = NoUser]
        /\ pending' = pending /\ link' = link /\ disturbed' = disturbed
    BY DEF CodeExpires
  <1>2. LinkTypeOK' /\ Named' /\ Alone'
    BY <1>1 DEF LinkInv, LinkTypeOK, Named, Alone, On, InFlight
  <1>3. \A u \in Users, d \in Codes : codes'[d] = u => codes[d] = u
    BY <1>1, LinkAssumption DEF LinkInv, LinkTypeOK, LinkAssumption
  <1>4. Held'
    BY <1>1, <1>3 DEF LinkInv, Held, Holds, Busy, On, InFlight
  <1> QED BY <1>2, <1>4 DEF LinkInv

LEMMA IndexExpiresInv ==
  ASSUME LinkInv, NEW u \in Users, IndexExpires(u)
  PROVE  LinkInv'
  <1>1. /\ pending' = [pending EXCEPT ![u] = NoCode]
        /\ codes' = codes /\ link' = link /\ disturbed' = disturbed
        /\ pending[u] # NoCode
    BY DEF IndexExpires
  <1>2. LinkTypeOK' /\ Named' /\ Alone'
    BY <1>1 DEF LinkInv, LinkTypeOK, Named, Alone, On, InFlight
  <1>3. \A v \in Users : v # u => pending'[v] = pending[v]
    BY <1>1 DEF LinkInv, LinkTypeOK
  <1>4. ASSUME NEW v \in Users \ disturbed', NEW d \in Codes, codes'[d] = v
        PROVE  /\ ~Busy(v)' => pending'[v] = d
               /\ \A q \in Procs : On(q, v)' => Holds(q, v, d)'
    <2>1. CASE v # u
      BY <1>1, <1>3, <1>4, <2>1 DEF LinkInv, Held, Holds, Busy, On, InFlight
    <2>2. CASE v = u /\ codes[pending[u]] # u
      <3>1. \A q \in Procs : On(q, u) => link[q].pc # "store"
        BY <1>1, <1>4, <2>2 DEF LinkInv, Held, Holds
      <3>2. Busy(u)
        BY <1>1, <1>4, <2>2 DEF LinkInv, Held
      <3> QED BY <1>1, <1>4, <2>2, <3>1, <3>2 DEF LinkInv, Held, Holds, Busy, On, InFlight
    <2>3. CASE v = u /\ \E p \in Procs : link[p].pc = "index" /\ link[p].user = u
      <3>1. PICK p \in Procs : link[p].pc = "index" /\ link[p].user = u
        BY <2>3
      <3>2. On(p, u) /\ Busy(u)
        BY <3>1 DEF On, InFlight, Busy, CallPcs
      <3>3. \A q \in Procs : On(q, u) => q = p
        BY <1>1, <2>3, <3>2 DEF LinkInv, Alone
      <3> QED BY <1>1, <1>4, <2>3, <3>1, <3>2, <3>3
              DEF LinkInv, Held, Holds, Busy, On, InFlight
    <2> QED BY <2>1, <2>2, <2>3 DEF IndexExpires
  <1>5. Held'
    BY <1>4 DEF Held
  <1> QED BY <1>2, <1>5 DEF LinkInv

(* Every step keeps the invariant.                                            *)
LEMMA LinkStepInv == LinkInv /\ [LinkNext]_linkVars => LinkInv'
  <1> SUFFICES ASSUME LinkInv, [LinkNext]_linkVars PROVE LinkInv'
    OBVIOUS
  <1>1. CASE UNCHANGED linkVars
    BY <1>1 DEF linkVars, LinkInv, LinkTypeOK, Named, Alone, Held, Holds, On, Busy, InFlight
  <1>2. ASSUME NEW p \in Procs, NEW u \in Users, IssueRead(p, u) \/ DiscardTake(p, u)
        PROVE  LinkInv'
    BY <1>2, IssueReadInv, DiscardTakeInv
  <1>3. ASSUME NEW p \in Procs, NEW c \in Codes, RedeemTake(p, c) \/ IssueStore(p, c)
        PROVE  LinkInv'
    BY <1>3, RedeemTakeInv, IssueStoreInv
  <1>4. ASSUME NEW p \in Procs,
               \/ IssueIndex(p) \/ RedeemDrop(p) \/ DiscardClear(p)
               \/ CallLost(p) \/ Return(p)
        PROVE  LinkInv'
    BY <1>4, IssueIndexInv, RedeemDropInv, DiscardClearInv, EndInv
  <1>5. CASE LinkExpiry
    BY <1>5, CodeExpiresInv, IndexExpiresInv DEF LinkExpiry
  <1> QED BY <1>1, <1>2, <1>3, <1>4, <1>5 DEF LinkNext, LinkStep

(* In every behaviour the call in flight, or the reverse key when there is    *)
(* none, leads to the one live code of a user whose calls never overlapped    *)
(* (issue_code, redeem_code, discard_pending_code).                           *)
THEOREM LinkInvariant == LinkSpec => []LinkInv
  BY LinkInitInv, LinkStepInv, PTL DEF LinkSpec

(* The next /login, /logout or deletion finds the live code of such a user.   *)
THEOREM LiveCodeIndexed == LinkSpec => []LiveCodeIsIndexed
  <1>1. LinkInv => LiveCodeIsIndexed
    BY DEF LinkInv, Held, LiveCodeIsIndexed, CodesOf
  <1> QED BY <1>1, LinkInvariant, PTL
=============================================================================
