-------------------------- MODULE StatisticsProofs --------------------------
(* The four invariants of Statistics for every instance of its constants.     *)
(* Each speaks of a state alone, so what must be inductive is only what the   *)
(* rows are (StatisticsTyped); the rest is about the operators, and those are *)
(* sums over sets and loops.  The library's induction theorems take an        *)
(* operator as a parameter; here a property is the set of what has it, and    *)
(* the induction is over that set.                                            *)
EXTENDS Statistics, FiniteSetTheorems, WellFoundedInduction, TLAPS

-----------------------------------------------------------------------------
(* Induction, and recursion. *)

(* A set of numbers has a least member.                                       *)
LEMMA Least ==
  ASSUME NEW T \in SUBSET Nat, T # {}
  PROVE  \E m \in T : \A k \in T : m <= k
  <1>1. PICK m \in T : \A k \in T : ~(<<k, m>> \in OpToRel(<, Nat))
    BY WFMin, NatLessThanWellFounded
  <1>2. \A k \in T : ~(k < m)
    BY <1>1 DEF OpToRel
  <1> QED BY <1>2

(* Induction: a set that has 0 and, with a number, the next one has them all. *)
LEMMA NatInd ==
  ASSUME NEW P \in SUBSET Nat, 0 \in P, \A n \in P : n + 1 \in P
  PROVE  P = Nat
  <1>1. SUFFICES ASSUME Nat \ P # {} PROVE FALSE
    OBVIOUS
  <1>2. PICK m \in Nat \ P : \A k \in Nat \ P : m <= k
    BY <1>1, Least
  <1>3. m - 1 \in Nat /\ m - 1 \in P
    BY <1>2
  <1> QED BY <1>2, <1>3

(* Induction on a finite set, one member at a time.                           *)
LEMMA FinInd ==
  ASSUME NEW S, IsFiniteSet(S), NEW P \in SUBSET SUBSET S, {} \in P,
         \A T \in P : \A x \in S \ T : T \cup {x} \in P
  PROVE  P = SUBSET S
  <1> DEFINE Q == {n \in Nat : \A T \in SUBSET S : Cardinality(T) = n => T \in P}
  <1>1. 0 \in Q
    BY FS_Subset, FS_EmptySet
  <1>2. ASSUME NEW n \in Q PROVE n + 1 \in Q
    <2>1. SUFFICES ASSUME NEW T \in SUBSET S, Cardinality(T) = n + 1 PROVE T \in P
      OBVIOUS
    <2>2. IsFiniteSet(T) /\ T # {}
      BY <2>1, FS_Subset, FS_EmptySet
    <2>3. PICK x \in T : TRUE
      BY <2>2
    <2>4. Cardinality(T \ {x}) = n /\ T \ {x} \in SUBSET S
      <3>1. IsFiniteSet(T \ {x}) /\ Cardinality(T \ {x}) = Cardinality(T) - 1
        BY <2>2, FS_RemoveElement
      <3> QED BY <2>1, <3>1
    <2>5. T \ {x} \in P /\ x \in S \ (T \ {x}) /\ T = (T \ {x}) \cup {x}
      BY <2>4
    <2> QED BY <2>5
  <1>3. Q = Nat
    <2> HIDE DEF Q
    <2>1. Q \subseteq Nat BY DEF Q
    <2> QED BY <1>1, <1>2, <2>1, NatInd
  <1>4. ASSUME NEW T \in SUBSET S PROVE T \in P
    BY <1>3, FS_Subset, FS_CardinalityType
  <1> QED BY <1>4

(* A function defined by recursion on something that decreases exists.        *)
Falls(D, base, next, rank) == \A x \in D \ base : rank[next[x]] < rank[x]
Follows(f, D, base, b, next, e) ==
    \A x \in D : f[x] = IF x \in base THEN b[x] ELSE e[<<x, f[next[x]]>>]

LEMMA Recursion ==
  ASSUME NEW D, NEW N \in Nat, NEW rank \in [D -> 0..N], NEW V, NEW base \in SUBSET D,
         NEW b \in [D -> V], NEW next \in [D -> D], NEW e \in [D \X V -> V],
         Falls(D, base, next, rank)
  PROVE  \E f \in [D -> V] : Follows(f, D, base, b, next, e)
  <1> DEFINE Small(n) == {x \in D : rank[x] <= n}
             Value(g, x) == IF x \in base THEN b[x] ELSE e[<<x, g[next[x]]>>]
             Upto(g, n) == g \in [Small(n) -> V] /\ \A x \in Small(n) : g[x] = Value(g, x)
             P == {n \in Nat : \E g : Upto(g, n)}
  <1>0. \A x \in D \ base : rank[next[x]] < rank[x]
    BY DEF Falls
  <1>1. 0 \in P
    <2> DEFINE g == [x \in Small(0) |-> b[x]]
    <2>1. \A x \in Small(0) : x \in base
      <3>1. \A x \in D : rank[x] \in 0..N
        OBVIOUS
      <3>2. \A x \in D \ base : next[x] \in D
        OBVIOUS
      <3> QED BY <1>0, <3>1, <3>2
    <2>2. \A x \in Small(0) : x \in D
      OBVIOUS
    <2>3. Upto(g, 0)
      <3> HIDE DEF Small
      <3>1. g \in [Small(0) -> V]
        BY <2>2
      <3> QED BY <2>1, <3>1
    <2> QED BY <2>3
  <1>2. ASSUME NEW n \in P PROVE n + 1 \in P
    <2>1. PICK g : Upto(g, n)
      OBVIOUS
    <2> DEFINE h == [x \in Small(n + 1) |-> Value(g, x)]
    <2>2. \A x \in Small(n) : x \in Small(n + 1)
      <3>1. \A x \in D : rank[x] \in Int
        OBVIOUS
      <3> QED BY <3>1
    <2>3. \A x \in Small(n + 1) : x \in base \/ next[x] \in Small(n)
      <3>1. \A x \in D : rank[x] \in Int
        OBVIOUS
      <3>2. \A x \in D : next[x] \in D
        OBVIOUS
      <3> QED BY <1>0, <3>1, <3>2
    <2>4. \A x \in Small(n + 1) : x \in D
      OBVIOUS
    <2>5. n \in Nat /\ n + 1 \in Nat
      OBVIOUS
    <2> HIDE DEF Small
    <2>6. \A x \in Small(n) : h[x] = g[x]
      BY <2>1, <2>2
    <2>7. \A x \in Small(n + 1) : Value(g, x) = Value(h, x) /\ Value(g, x) \in V
      <3> SUFFICES ASSUME NEW x \in Small(n + 1) PROVE Value(g, x) = Value(h, x) /\ Value(g, x) \in V
        OBVIOUS
      <3> HIDE DEF h
      <3>1. CASE x \in base
        BY <2>4, <3>1
      <3>2. CASE x \notin base
        <4>1. next[x] \in Small(n) /\ g[next[x]] = h[next[x]] /\ g[next[x]] \in V
          BY <2>1, <2>3, <2>6, <3>2
        <4>2. e[<<x, g[next[x]]>>] \in V
          BY <2>4, <4>1
        <4> QED BY <3>2, <4>1, <4>2
      <3> QED BY <3>1, <3>2
    <2>8. Upto(h, n + 1)
      <3> HIDE DEF Value
      <3> QED BY <2>7
    <2> HIDE DEF Upto, h
    <2> QED BY <2>5, <2>8
  <1>3. P = Nat
    <2> HIDE DEF P
    <2>1. P \subseteq Nat BY DEF P
    <2> QED BY <1>1, <1>2, <2>1, NatInd
  <1>4. PICK g : Upto(g, N)
    BY <1>3
  <1>5. Small(N) = D
    OBVIOUS
  <1> QED BY <1>4, <1>5 DEF Follows

-----------------------------------------------------------------------------
(* Sums over finite sets. *)

Some(s) == CHOOSE x \in s : TRUE
Sums(g, f, S) == g = [s \in SUBSET S |-> IF s = {} THEN 0 ELSE f[Some(s)] + g[s \ {Some(s)}]]

LEMMA SomeIn == ASSUME NEW s, s # {} PROVE Some(s) \in s
  BY DEF Some

(* The sum of the community modules is a recursive function on the subsets.   *)
LEMMA SumIsChosen ==
  ASSUME NEW f, NEW S
  PROVE  SumFunctionOnSet(f, S) = (CHOOSE g : Sums(g, f, S))[S]
  BY DEF SumFunctionOnSet, FoldFunctionOnSet, MapThenFoldSet, Sums, Some

(* That recursion has one solution ...                                        *)
LEMMA SumsAgree ==
  ASSUME NEW f, NEW S, NEW T \in SUBSET S, IsFiniteSet(S), NEW g, NEW h, Sums(g, f, S), Sums(h, f, T)
  PROVE  \A s \in SUBSET T : g[s] = h[s]
  <1> DEFINE P == {n \in Nat : \A s \in SUBSET T : Cardinality(s) = n => g[s] = h[s]}
  <1>1. 0 \in P
    <2>1. SUFFICES ASSUME NEW s \in SUBSET T, Cardinality(s) = 0 PROVE g[s] = h[s]
      OBVIOUS
    <2>2. s = {} /\ s \in SUBSET S
      BY <2>1, FS_Subset, FS_EmptySet
    <2> QED BY <2>2 DEF Sums
  <1>2. ASSUME NEW n \in P PROVE n + 1 \in P
    <2>1. SUFFICES ASSUME NEW s \in SUBSET T, Cardinality(s) = n + 1 PROVE g[s] = h[s]
      OBVIOUS
    <2>2. s # {} /\ s \in SUBSET S /\ IsFiniteSet(s)
      BY <2>1, FS_Subset, FS_EmptySet
    <2> DEFINE x == Some(s)
    <2>3. x \in s BY <2>2, SomeIn
    <2> HIDE DEF x
    <2>4. Cardinality(s \ {x}) = n /\ s \ {x} \in SUBSET T
      <3>1. IsFiniteSet(s \ {x}) /\ Cardinality(s \ {x}) = Cardinality(s) - 1
        BY <2>2, <2>3, FS_RemoveElement
      <3> QED BY <2>1, <3>1
    <2>5. g[s \ {x}] = h[s \ {x}] BY <2>4
    <2>6. g[s] = f[x] + g[s \ {x}] BY <2>2 DEF Sums, x
    <2>7. h[s] = f[x] + h[s \ {x}] BY <2>2 DEF Sums, x
    <2> QED BY <2>5, <2>6, <2>7
  <1>3. P = Nat
    <2> HIDE DEF P
    <2>1. P \subseteq Nat BY DEF P
    <2> QED BY <1>1, <1>2, <2>1, NatInd
  <1> QED BY <1>3, FS_Subset, FS_CardinalityType

(* ... and has it on every finite set, so the sum is defined.                 *)
LEMMA SumsExist ==
  ASSUME NEW f, NEW S, IsFiniteSet(S)
  PROVE  \E g : Sums(g, f, S)
  <1> DEFINE Small(n) == {s \in SUBSET S : Cardinality(s) <= n}
             Upto(g, n) == g = [s \in Small(n) |-> IF s = {} THEN 0 ELSE f[Some(s)] + g[s \ {Some(s)}]]
             P == {n \in Nat : \E g : Upto(g, n)}
  <1>0. \A s \in SUBSET S : IsFiniteSet(s) /\ Cardinality(s) \in Nat
    BY FS_Subset, FS_CardinalityType
  <1>1. 0 \in P
    <2> DEFINE g == [s \in Small(0) |-> 0]
    <2>1. \A s \in Small(0) : s = {}
      BY <1>0, FS_EmptySet
    <2>2. Upto(g, 0) BY <2>1
    <2> QED BY <2>2
  <1>2. ASSUME NEW n \in P PROVE n + 1 \in P
    <2>1. PICK g : Upto(g, n)
      OBVIOUS
    <2> DEFINE step(h, s) == IF s = {} THEN 0 ELSE f[Some(s)] + h[s \ {Some(s)}]
               h == [s \in Small(n + 1) |-> step(g, s)]
    <2>2. ASSUME NEW s \in Small(n + 1), s # {} PROVE s \ {Some(s)} \in Small(n) /\ s \ {Some(s)} \in Small(n + 1)
      BY <1>0, <2>2, SomeIn, FS_RemoveElement
    <2>3. \A s \in Small(n) : s \in Small(n + 1) /\ g[s] = step(g, s)
      <3>1. \A s \in Small(n) : s \in Small(n + 1)
        BY <1>0
      <3> HIDE DEF Small
      <3> QED BY <2>1, <3>1
    <2>4. ASSUME NEW s \in Small(n) PROVE h[s] = g[s]
      BY <2>3
    <2>5. ASSUME NEW s \in Small(n + 1) PROVE step(g, s) = step(h, s)
      <3> HIDE DEF Small, h
      <3>1. CASE s = {} BY <3>1
      <3>2. CASE s # {} BY <3>2, <2>2, <2>4
      <3> QED BY <3>1, <3>2
    <2>6. h = [s \in Small(n + 1) |-> step(h, s)]
      <3> HIDE DEF Small
      <3>1. \A s \in Small(n + 1) : step(g, s) = step(h, s) BY <2>5
      <3> HIDE DEF step
      <3> QED BY <3>1
    <2>7. Upto(h, n + 1) BY <2>6
    <2> HIDE DEF Upto, h
    <2> QED BY <2>7
  <1>3. P = Nat
    <2> HIDE DEF P
    <2>1. P \subseteq Nat BY DEF P
    <2> QED BY <1>1, <1>2, <2>1, NatInd
  <1>4. PICK g : Upto(g, Cardinality(S))
    BY <1>0, <1>3
  <1>5. Small(Cardinality(S)) = SUBSET S
    BY <1>0, FS_Subset
  <1>6. Sums(g, f, S)
    BY <1>4, <1>5 DEF Sums
  <1> QED BY <1>6

LEMMA SumEmpty == ASSUME NEW f PROVE SumFunctionOnSet(f, {}) = 0
  <1> DEFINE g == CHOOSE g : Sums(g, f, {})
  <1>1. Sums(g, f, {}) BY SumsExist, FS_EmptySet
  <1> HIDE DEF g
  <1>2. g[{}] = 0 BY <1>1 DEF Sums
  <1> QED BY <1>2, SumIsChosen DEF g

(* What the recursion says of a set that is not empty.                        *)
LEMMA SumChosen ==
  ASSUME NEW f, NEW S, IsFiniteSet(S), S # {}
  PROVE  SumFunctionOnSet(f, S) = f[Some(S)] + SumFunctionOnSet(f, S \ {Some(S)})
  <1> DEFINE g == CHOOSE g : Sums(g, f, S)
             T == S \ {Some(S)}
             h == CHOOSE h : Sums(h, f, T)
  <1>1. T \in SUBSET S /\ IsFiniteSet(T) BY FS_Subset
  <1>2. Sums(g, f, S) BY SumsExist
  <1>3. Sums(h, f, T) BY <1>1, SumsExist
  <1>4. SumFunctionOnSet(f, S) = g[S] /\ SumFunctionOnSet(f, T) = h[T]
    BY SumIsChosen
  <1> HIDE DEF g, h
  <1>5. g[T] = h[T] BY <1>1, <1>2, <1>3, SumsAgree
  <1>6. g[S] = f[Some(S)] + g[T] BY <1>2 DEF Sums
  <1> QED BY <1>4, <1>5, <1>6

(* The type of a sum.                                                         *)
LEMMA SumInteger ==
  ASSUME NEW f, NEW S, IsFiniteSet(S), \A x \in S : f[x] \in Int
  PROVE  \A T \in SUBSET S : SumFunctionOnSet(f, T) \in Int
  <1> DEFINE Q == {n \in Nat : \A T \in SUBSET S : Cardinality(T) = n => SumFunctionOnSet(f, T) \in Int}
  <1>1. 0 \in Q
    <2>1. \A T \in SUBSET S : Cardinality(T) = 0 => T = {}
      BY FS_Subset, FS_EmptySet
    <2> QED BY <2>1, SumEmpty
  <1>2. ASSUME NEW n \in Q PROVE n + 1 \in Q
    <2>1. SUFFICES ASSUME NEW T \in SUBSET S, Cardinality(T) = n + 1 PROVE SumFunctionOnSet(f, T) \in Int
      OBVIOUS
    <2>2. IsFiniteSet(T) /\ T # {}
      BY <2>1, FS_Subset, FS_EmptySet
    <2> DEFINE c == Some(T)
    <2>3. c \in T /\ SumFunctionOnSet(f, T) = f[c] + SumFunctionOnSet(f, T \ {c})
      BY <2>2, SomeIn, SumChosen
    <2> HIDE DEF c
    <2>4. IsFiniteSet(T \ {c}) /\ Cardinality(T \ {c}) = Cardinality(T) - 1
      BY <2>2, <2>3, FS_RemoveElement
    <2>5. Cardinality(T \ {c}) = n /\ T \ {c} \in SUBSET S
      BY <2>1, <2>4
    <2>6. SumFunctionOnSet(f, T \ {c}) \in Int /\ f[c] \in Int
      BY <2>3, <2>5
    <2> QED BY <2>3, <2>6
  <1>3. Q = Nat
    <2> HIDE DEF Q
    <2>1. Q \subseteq Nat BY DEF Q
    <2> QED BY <1>1, <1>2, <2>1, NatInd
  <1> QED BY <1>3, FS_Subset, FS_CardinalityType

(* The order in which the recursion takes the members does not matter.        *)
LEMMA SumRemove ==
  ASSUME NEW f, NEW S, IsFiniteSet(S), \A x \in S : f[x] \in Int
  PROVE  \A T \in SUBSET S : \A x \in T :
             SumFunctionOnSet(f, T) = f[x] + SumFunctionOnSet(f, T \ {x})
  <1> DEFINE Q == {n \in Nat : \A T \in SUBSET S : Cardinality(T) = n =>
                      \A x \in T : SumFunctionOnSet(f, T) = f[x] + SumFunctionOnSet(f, T \ {x})}
  <1>1. 0 \in Q
    <2>1. \A T \in SUBSET S : Cardinality(T) = 0 => T = {}
      BY FS_Subset, FS_EmptySet
    <2> QED BY <2>1
  <1>2. ASSUME NEW n \in Q PROVE n + 1 \in Q
    <2>1. SUFFICES ASSUME NEW T \in SUBSET S, Cardinality(T) = n + 1, NEW x \in T
                   PROVE  SumFunctionOnSet(f, T) = f[x] + SumFunctionOnSet(f, T \ {x})
      OBVIOUS
    <2>2. IsFiniteSet(T) /\ T # {}
      BY FS_Subset
    <2> DEFINE c == Some(T)
    <2>3. c \in T /\ SumFunctionOnSet(f, T) = f[c] + SumFunctionOnSet(f, T \ {c})
      BY <2>2, SomeIn, SumChosen
    <2> HIDE DEF c
    <2>4. \A y \in T : T \ {y} \in SUBSET S /\ IsFiniteSet(T \ {y}) /\ Cardinality(T \ {y}) = n
      <3>1. \A y \in T : IsFiniteSet(T \ {y}) /\ Cardinality(T \ {y}) = Cardinality(T) - 1
        BY <2>2, FS_RemoveElement
      <3> QED BY <2>1, <3>1
    <2>5. CASE x = c
      BY <2>3, <2>5
    <2>6. CASE x # c
      <3> DEFINE rest == (T \ {x}) \ {c}
      <3>1. (T \ {c}) \ {x} = rest
        OBVIOUS
      <3>2. SumFunctionOnSet(f, T \ {c}) = f[x] + SumFunctionOnSet(f, rest)
        BY <2>3, <2>4, <2>6, <3>1
      <3>3. SumFunctionOnSet(f, T \ {x}) = f[c] + SumFunctionOnSet(f, rest)
        BY <2>3, <2>4, <2>6
      <3>4. rest \in SUBSET S
        OBVIOUS
      <3> HIDE DEF rest
      <3>5. SumFunctionOnSet(f, rest) \in Int
        BY <3>4, SumInteger
      <3>6. f[x] \in Int /\ f[c] \in Int
        BY <2>3
      <3> QED BY <2>3, <3>2, <3>3, <3>5, <3>6
    <2> QED BY <2>5, <2>6
  <1>3. Q = Nat
    <2> HIDE DEF Q
    <2>1. Q \subseteq Nat BY DEF Q
    <2> QED BY <1>1, <1>2, <2>1, NatInd
  <1> QED BY <1>3, FS_Subset, FS_CardinalityType

(* Adding a member adds its value.                                            *)
LEMMA SumAdd ==
  ASSUME NEW f, NEW S, IsFiniteSet(S), NEW x, x \notin S, \A y \in S \cup {x} : f[y] \in Int
  PROVE  /\ SumFunctionOnSet(f, S) \in Int
         /\ SumFunctionOnSet(f, S \cup {x}) = f[x] + SumFunctionOnSet(f, S)
  <1> DEFINE T == S \cup {x}
  <1>1. IsFiniteSet(T) /\ T \in SUBSET T /\ x \in T /\ T \ {x} = S /\ S \in SUBSET T
    BY FS_AddElement
  <1> HIDE DEF T
  <1>2. \A y \in T : f[y] \in Int
    BY DEF T
  <1>3. SumFunctionOnSet(f, T) = f[x] + SumFunctionOnSet(f, T \ {x}) /\ SumFunctionOnSet(f, S) \in Int
    BY <1>1, <1>2, SumRemove, SumInteger
  <1> QED BY <1>1, <1>3 DEF T

(* Equal values have equal sums.                                              *)
LEMMA SumEqual ==
  ASSUME NEW f, NEW g, NEW S, IsFiniteSet(S), \A x \in S : f[x] = g[x] /\ f[x] \in Int
  PROVE  SumFunctionOnSet(f, S) = SumFunctionOnSet(g, S)
  <1> DEFINE P == {T \in SUBSET S : SumFunctionOnSet(f, T) = SumFunctionOnSet(g, T)}
  <1>1. {} \in P
    BY SumEmpty
  <1>2. ASSUME NEW T \in P, NEW x \in S \ T PROVE T \cup {x} \in P
    <2>1. IsFiniteSet(T) /\ x \notin T /\ T \cup {x} \in SUBSET S
      BY FS_Subset
    <2>2. SumFunctionOnSet(f, T \cup {x}) = f[x] + SumFunctionOnSet(f, T)
      BY <2>1, SumAdd
    <2>3. SumFunctionOnSet(g, T \cup {x}) = g[x] + SumFunctionOnSet(g, T)
      BY <2>1, SumAdd
    <2> QED BY <2>1, <2>2, <2>3
  <1>3. P = SUBSET S
    <2> HIDE DEF P
    <2>1. P \in SUBSET SUBSET S BY DEF P
    <2> QED BY <1>1, <1>2, <2>1, FinInd
  <1> QED BY <1>3

(* The total of two disjoint sets.                                            *)
LEMMA SumOfParts ==
  ASSUME NEW f, NEW S, NEW T, IsFiniteSet(S), IsFiniteSet(T), S \cap T = {},
         \A x \in S \cup T : f[x] \in Int
  PROVE  SumFunctionOnSet(f, S \cup T) = SumFunctionOnSet(f, S) + SumFunctionOnSet(f, T)
  <1> DEFINE P == {U \in SUBSET S : SumFunctionOnSet(f, U \cup T)
                                        = SumFunctionOnSet(f, U) + SumFunctionOnSet(f, T)}
  <1>0. \A U \in SUBSET S : SumFunctionOnSet(f, U) \in Int
    BY SumInteger
  <1>a. SumFunctionOnSet(f, T) \in Int
    BY SumInteger
  <1>1. {} \in P
    <2>1. {} \cup T = T
      OBVIOUS
    <2> QED BY <1>a, <2>1, SumEmpty
  <1>2. ASSUME NEW U \in P, NEW x \in S \ U PROVE U \cup {x} \in P
    <2>1. IsFiniteSet(U) /\ x \notin U /\ U \cup {x} \in SUBSET S /\ U \in SUBSET S
      BY FS_Subset
    <2>2. SumFunctionOnSet(f, U \cup {x}) = f[x] + SumFunctionOnSet(f, U)
      BY <2>1, SumAdd
    <2>3. IsFiniteSet(U \cup T) /\ x \notin U \cup T
      BY <2>1, FS_Union
    <2>4. SumFunctionOnSet(f, (U \cup T) \cup {x}) = f[x] + SumFunctionOnSet(f, U \cup T)
      BY <2>1, <2>3, SumAdd
    <2>6. f[x] \in Int /\ SumFunctionOnSet(f, U) \in Int
      BY <1>0
    <2>7. SumFunctionOnSet(f, U \cup T) = SumFunctionOnSet(f, U) + SumFunctionOnSet(f, T)
      OBVIOUS
    <2> DEFINE V == U \cup {x}
    <2>8. V \cup T = (U \cup T) \cup {x}
      OBVIOUS
    <2>9. SumFunctionOnSet(f, V \cup T) = f[x] + SumFunctionOnSet(f, U \cup T)
      BY <2>4, <2>8
    <2> HIDE DEF V
    <2>10. SumFunctionOnSet(f, V \cup T) = SumFunctionOnSet(f, V) + SumFunctionOnSet(f, T)
      BY <1>a, <2>2, <2>9, <2>6, <2>7 DEF V
    <2> QED BY <2>1, <2>10 DEF V
  <1>3. P = SUBSET S
    <2> HIDE DEF P
    <2>1. P \in SUBSET SUBSET S BY DEF P
    <2> QED BY <1>1, <1>2, <2>1, FinInd
  <1> QED BY <1>3

LEMMA SumZero ==
  ASSUME NEW f, NEW S, IsFiniteSet(S), \A x \in S : f[x] = 0
  PROVE  SumFunctionOnSet(f, S) = 0
  <1> DEFINE P == {T \in SUBSET S : SumFunctionOnSet(f, T) = 0}
  <1>1. {} \in P
    BY SumEmpty
  <1>2. ASSUME NEW T \in P, NEW x \in S \ T PROVE T \cup {x} \in P
    <2>1. IsFiniteSet(T) /\ x \notin T /\ T \cup {x} \in SUBSET S
      BY FS_Subset
    <2>2. SumFunctionOnSet(f, T \cup {x}) = f[x] + SumFunctionOnSet(f, T)
      BY <2>1, SumAdd
    <2> QED BY <2>1, <2>2
  <1>3. P = SUBSET S
    <2> HIDE DEF P
    <2>1. P \in SUBSET SUBSET S BY DEF P
    <2> QED BY <1>1, <1>2, <2>1, FinInd
  <1> QED BY <1>3

(* What is outside a part and counts nothing can be left out.                 *)
LEMMA SumOfPart ==
  ASSUME NEW f, NEW g, NEW S, NEW T \in SUBSET S, IsFiniteSet(S),
         \A x \in T : f[x] = g[x] /\ f[x] \in Int, \A x \in S \ T : f[x] = 0
  PROVE  SumFunctionOnSet(f, S) = SumFunctionOnSet(g, T)
  <1> DEFINE U == S \ T
  <1>1. IsFiniteSet(T) /\ IsFiniteSet(U) /\ S = T \cup U /\ T \cap U = {} /\ \A x \in U : f[x] = 0
    BY FS_Subset
  <1> HIDE DEF U
  <1>2. SumFunctionOnSet(f, S) = SumFunctionOnSet(f, T) + SumFunctionOnSet(f, U)
    <2>1. \A x \in T \cup U : f[x] \in Int
      BY <1>1
    <2>2. SumFunctionOnSet(f, T \cup U) = SumFunctionOnSet(f, T) + SumFunctionOnSet(f, U)
      BY <1>1, <2>1, SumOfParts
    <2> QED BY <1>1, <2>2
  <1>3. SumFunctionOnSet(f, U) = 0 /\ SumFunctionOnSet(f, T) = SumFunctionOnSet(g, T)
    BY <1>1, SumZero, SumEqual
  <1>4. SumFunctionOnSet(f, T) \in Int
    BY <1>1, SumInteger
  <1> QED BY <1>1, <1>2, <1>3, <1>4

(* A total can be taken group by group.                                       *)
LEMMA SumByGroup ==
  ASSUME NEW f, NEW S, NEW T, NEW h, IsFiniteSet(S), IsFiniteSet(T),
         \A x \in S : f[x] \in Int /\ h[x] \in T
  PROVE  SumFunctionOnSet(f, S)
             = SumFunctionOnSet([t \in T |-> SumFunctionOnSet(f, {x \in S : h[x] = t})], T)
  <1> DEFINE group(U, t) == {x \in U : h[x] = t}
             totals(U) == [t \in T |-> SumFunctionOnSet(f, group(U, t))]
             P == {U \in SUBSET S : SumFunctionOnSet(f, U) = SumFunctionOnSet(totals(U), T)}
  <1>1. {} \in P
    <2>1. \A t \in T : totals({})[t] = 0
      <3>1. \A t \in T : group({}, t) = {}
        OBVIOUS
      <3> QED BY <3>1, SumEmpty
    <2> HIDE DEF totals
    <2> QED BY <2>1, SumEmpty, SumZero
  <1>2. ASSUME NEW U \in P, NEW x \in S \ U PROVE U \cup {x} \in P
    <2> DEFINE V == U \cup {x}
               t0 == h[x]
    <2>1. IsFiniteSet(U) /\ x \notin U /\ V \in SUBSET S /\ U \in SUBSET S /\ t0 \in T /\ f[x] \in Int
      BY FS_Subset
    <2>2. SumFunctionOnSet(f, V) = f[x] + SumFunctionOnSet(f, U)
      BY <2>1, SumAdd
    <2>3. \A t \in T : SumFunctionOnSet(f, group(U, t)) \in Int
      BY <2>1, SumInteger
    <2>4. \A t \in T \ {t0} : group(V, t) = group(U, t)
      OBVIOUS
    <2>5. SumFunctionOnSet(f, group(V, t0)) = f[x] + SumFunctionOnSet(f, group(U, t0))
      <3>1. group(V, t0) = group(U, t0) \cup {x} /\ x \notin group(U, t0)
        BY <2>1
      <3>2. IsFiniteSet(group(U, t0)) /\ group(U, t0) \in SUBSET S
        BY <2>1, FS_Subset
      <3> HIDE DEF group
      <3> QED BY <2>1, <3>1, <3>2, SumAdd
    <2> HIDE DEF V, group, t0
    <2>6. T \ {t0} \in SUBSET T /\ IsFiniteSet(T \ {t0})
      BY FS_Subset
    <2>7. \A t \in T : totals(U)[t] \in Int /\ totals(V)[t] \in Int
      BY <2>1, <2>3, <2>4, <2>5
    <2>8. \A t \in T \ {t0} : totals(V)[t] = totals(U)[t] /\ totals(V)[t] \in Int
      BY <2>3, <2>4
    <2>9. totals(V)[t0] = f[x] + totals(U)[t0]
      BY <2>1, <2>5
    <2> HIDE DEF totals
    <2>10. SumFunctionOnSet(totals(V), T \ {t0}) = SumFunctionOnSet(totals(U), T \ {t0})
      BY <2>6, <2>8, SumEqual
    <2>11. SumFunctionOnSet(totals(V), T) = totals(V)[t0] + SumFunctionOnSet(totals(V), T \ {t0})
      BY <2>1, <2>7, SumRemove
    <2>12. SumFunctionOnSet(totals(U), T) = totals(U)[t0] + SumFunctionOnSet(totals(U), T \ {t0})
      BY <2>1, <2>7, SumRemove
    <2>13. SumFunctionOnSet(totals(U), T \ {t0}) \in Int
      BY <2>6, <2>7, SumInteger
    <2>14. SumFunctionOnSet(f, U) = SumFunctionOnSet(totals(U), T)
      BY DEF totals, group
    <2>15. SumFunctionOnSet(f, V) = SumFunctionOnSet(totals(V), T)
      BY <2>1, <2>2, <2>7, <2>9, <2>10, <2>11, <2>12, <2>13, <2>14
    <2> QED BY <2>1, <2>15 DEF V
  <1>3. P = SUBSET S
    <2> HIDE DEF P
    <2>1. P \in SUBSET SUBSET S BY DEF P
    <2> QED BY <1>1, <1>2, <2>1, FinInd
  <1>4. SumFunctionOnSet(f, S) = SumFunctionOnSet(totals(S), T)
    BY <1>3
  <1> QED BY <1>4

(* Disjoint finite sets, counted together.                                    *)
LEMMA CardinalityByGroup ==
  ASSUME NEW S, IsFiniteSet(S), NEW parts, \A x \in S : IsFiniteSet(parts[x]),
         \A x, y \in S : x # y => parts[x] \cap parts[y] = {}
  PROVE  /\ IsFiniteSet(UNION {parts[x] : x \in S})
         /\ Cardinality(UNION {parts[x] : x \in S})
                = SumFunctionOnSet([x \in S |-> Cardinality(parts[x])], S)
  <1> DEFINE all(U) == UNION {parts[x] : x \in U}
             count == [x \in S |-> Cardinality(parts[x])]
             P == {U \in SUBSET S : /\ IsFiniteSet(all(U))
                                    /\ Cardinality(all(U)) = SumFunctionOnSet(count, U)}
  <1>0. \A x \in S : count[x] = Cardinality(parts[x]) /\ count[x] \in Nat
    BY FS_CardinalityType
  <1> HIDE DEF count
  <1>1. {} \in P
    <2>1. all({}) = {}
      OBVIOUS
    <2> HIDE DEF all
    <2> QED BY <2>1, FS_EmptySet, SumEmpty
  <1>2. ASSUME NEW U \in P, NEW x \in S \ U PROVE U \cup {x} \in P
    <2>1. IsFiniteSet(U) /\ x \notin U /\ U \cup {x} \in SUBSET S
      BY FS_Subset
    <2>2. SumFunctionOnSet(count, U \cup {x}) = count[x] + SumFunctionOnSet(count, U)
      BY <1>0, <2>1, SumAdd
    <2>3. all(U \cup {x}) = all(U) \cup parts[x]
      OBVIOUS
    <2>4. all(U) \cap parts[x] = {}
      OBVIOUS
    <2>5. IsFiniteSet(all(U)) /\ Cardinality(all(U)) = SumFunctionOnSet(count, U)
      OBVIOUS
    <2> HIDE DEF all
    <2>6. /\ IsFiniteSet(all(U) \cup parts[x])
          /\ Cardinality(all(U) \cup parts[x])
                 = Cardinality(all(U)) + Cardinality(parts[x]) - Cardinality(all(U) \cap parts[x])
      BY <2>5, FS_Union
    <2>7. Cardinality(all(U) \cap parts[x]) = 0 /\ Cardinality(all(U)) \in Nat
      BY <2>4, <2>5, FS_EmptySet, FS_CardinalityType
    <2>8. Cardinality(all(U) \cup parts[x]) = count[x] + SumFunctionOnSet(count, U)
      BY <1>0, <2>5, <2>6, <2>7
    <2> QED BY <2>1, <2>2, <2>3, <2>6, <2>8
  <1>3. P = SUBSET S
    <2> HIDE DEF P
    <2>1. P \in SUBSET SUBSET S BY DEF P
    <2> QED BY <1>1, <1>2, <2>1, FinInd
  <1> QED BY <1>3 DEF count

-----------------------------------------------------------------------------
(* The rows. *)

Statuses == {"ONGOING", "COMPLETED", "ERROR"}
SessionRecords == [start : Nat, duration : Nat, game : Games, status : Statuses,
                   hidden : {"no", "flicker", "deleted"}]

StatisticsTyped ==
    /\ sessions \in SUBSET SessionRecords /\ IsFiniteSet(sessions)
    /\ \A s \in sessions : s.status = "ONGOING" => s.start <= now
    /\ pref \in [Games -> Prefs \cup {NoPref}]
    /\ review \in SUBSET Games /\ aliased \in SUBSET Games
    /\ tz \in Offsets /\ now \in Start..MaxTime /\ changes \in 0..MaxChanges

(* What the assumptions on the constants give.                                *)
LEMMA Clock ==
  /\ Hour \in Nat \ {0} /\ HoursPerDay \in Nat \ {0} /\ DaysPerWeek \in Nat \ {0}
  /\ Day \in Nat \ {0} /\ Hour <= Day /\ Start \in Nat /\ MaxTime \in Nat /\ Start <= MaxTime
  /\ FutureGrace \in Nat /\ Lookback \in Nat /\ HistoryDays \in Nat /\ Lookback <= Start
  /\ Offsets \subseteq Nat /\ 0 \in Offsets /\ Windows \subseteq Nat /\ MaxChanges \in Nat
  <1>1. Hour \in Nat \ {0} /\ HoursPerDay \in Nat \ {0} /\ DaysPerWeek \in Nat \ {0}
    BY StatisticsAssumption
  <1>2. Day \in Nat \ {0} /\ Hour <= Day
    BY <1>1 DEF Day
  <1>3. FutureGrace \in Nat /\ Lookback \in Nat /\ HistoryDays \in Nat /\ MaxTime \in Nat /\ MaxChanges \in Nat
    BY StatisticsAssumption
  <1>4. HistoryDays * Day \in Nat
    BY <1>2, <1>3
  <1>5. Start \in Nat
    <2> HIDE DEF Day
    <2> QED BY <1>1, <1>2, <1>4 DEF Start
  <1> QED BY <1>1, <1>2, <1>3, <1>5, StatisticsAssumption, CalendarAssumption

LEMMA InitTyped == Init => StatisticsTyped
  <1> SUFFICES ASSUME Init PROVE StatisticsTyped
    OBVIOUS
  <1>1. PICK g \in Games, dates \in SUBSET (0..HistoryDays - 1) :
           sessions = {[start |-> d * Day + (d % Day), duration |-> 1, game |-> g,
                        status |-> "COMPLETED", hidden |-> "no"] : d \in dates}
    BY DEF Init
  <1> DEFINE row(d) == [start |-> d * Day + (d % Day), duration |-> 1, game |-> g,
                        status |-> "COMPLETED", hidden |-> "no"]
             f == [d \in dates |-> row(d)]
  <1>2. IsFiniteSet(dates)
    <2>1. HistoryDays - 1 \in Int
      BY Clock
    <2>2. IsFiniteSet(0..HistoryDays - 1)
      BY <2>1, FS_Interval
    <2> QED BY <2>2, FS_Subset
  <1>3. f \in Surjection(dates, sessions)
    BY <1>1 DEF Surjection
  <1>4. IsFiniteSet(sessions)
    BY <1>2, <1>3, FS_Surjection
  <1>5. \A d \in Nat : d * Day + (d % Day) \in Nat
    <2>1. \A d \in Nat : d * Day \in Nat /\ d % Day \in Nat
      BY Clock
    <2> QED BY <2>1
  <1>6. \A d \in dates : row(d) \in SessionRecords
    <2>1. \A d \in dates : d \in Nat
      BY Clock
    <2> QED BY <1>5, <2>1 DEF SessionRecords, Statuses
  <1>7. sessions \in SUBSET SessionRecords /\ \A s \in sessions : s.status # "ONGOING"
    BY <1>1, <1>6
  <1>8. pref \in [Games -> Prefs \cup {NoPref}] /\ review \in SUBSET Games /\ aliased \in SUBSET Games
    BY DEF Init
  <1>9. tz \in Offsets /\ now \in Start..MaxTime /\ changes \in 0..MaxChanges
    BY Clock DEF Init
  <1> QED BY <1>4, <1>7, <1>8, <1>9 DEF StatisticsTyped

LEMMA NextTyped == StatisticsTyped /\ [Next]_statVars => StatisticsTyped'
  <1> SUFFICES ASSUME StatisticsTyped, [Next]_statVars PROVE StatisticsTyped'
    OBVIOUS
  <1> USE DEF StatisticsTyped
  <1>0. now \in Nat
    BY Clock
  <1>a. ASSUME NEW new \in SessionRecords, sessions' \in SUBSET (sessions \cup {new}),
               IsFiniteSet(sessions'), new.status = "ONGOING" => new.start <= now,
               UNCHANGED <<pref, review, aliased, tz, now>>, changes' \in 0..MaxChanges
        PROVE  StatisticsTyped'
    <2>1. sessions' \in SUBSET SessionRecords
      BY <1>a
    <2>2. \A s \in sessions' : s.status = "ONGOING" => s.start <= now'
      BY <1>a
    <2> QED BY <1>a, <2>1, <2>2
  <1>1. ASSUME NEW g \in Games, Play(g) PROVE StatisticsTyped'
    <2> DEFINE new == [start |-> now, duration |-> 0, game |-> g, status |-> "ONGOING", hidden |-> "no"]
    <2>1. new \in SessionRecords /\ new.start = now
      BY <1>0 DEF SessionRecords, Statuses
    <2>2. sessions' = sessions \cup {new} /\ IsFiniteSet(sessions \cup {new})
      BY <1>1, FS_AddElement DEF Play
    <2> HIDE DEF new
    <2>3. new.start <= now
      BY <1>0, <2>1
    <2> QED BY <1>1, <1>a, <2>1, <2>2, <2>3 DEF Play
  <1>2. ASSUME NEW g \in Games, Enrich(g) PROVE StatisticsTyped'
    BY <1>0, <1>2, Clock DEF Enrich, Change
  <1>3. ASSUME NEW g \in Games, NEW end \in Start..now + FutureGrace, NEW d \in Durations, LogManual(g, end, d)
        PROVE StatisticsTyped'
    <2> DEFINE new == [start |-> end - d, duration |-> d, game |-> g,
                       status |-> "COMPLETED", hidden |-> "no"]
    <2>1. d \in Nat /\ end \in Nat /\ end - d >= now - Lookback
      BY <1>3, Clock, StatisticsAssumption DEF LogManual
    <2>2. end - d \in Nat
      BY <2>1, Clock
    <2>3. new \in SessionRecords /\ new.status # "ONGOING"
      BY <2>1, <2>2 DEF SessionRecords, Statuses
    <2>4. sessions' = sessions \cup {new} /\ IsFiniteSet(sessions \cup {new})
      BY <1>3, FS_AddElement DEF LogManual
    <2> HIDE DEF new
    <2> QED BY <1>3, <1>a, <2>3, <2>4 DEF LogManual
  <1>4. ASSUME NEW g \in Games, NEW p \in Prefs \cup {NoPref}, Prefer(g, p) PROVE StatisticsTyped'
    BY <1>0, <1>4, Clock DEF Prefer, Change
  <1>5. ASSUME NEW s \in sessions, NEW status \in {"COMPLETED", "ERROR"}, NEW h \in {"no", "flicker"},
               Close(s, status, h)
        PROVE StatisticsTyped'
    <2> DEFINE new == [s EXCEPT !.status = status, !.hidden = h,
                                !.duration = IF status = "COMPLETED" THEN now - s.start ELSE 0]
    <2>0. s \in SessionRecords /\ s.start <= now
      BY <1>5 DEF Close
    <2>1. (IF status = "COMPLETED" THEN now - s.start ELSE 0) \in Nat
      BY <1>0, <2>0 DEF SessionRecords
    <2>2. new \in SessionRecords /\ new.status # "ONGOING"
      BY <2>0, <2>1 DEF SessionRecords, Statuses
    <2>3. sessions' = (sessions \ {s}) \cup {new} /\ IsFiniteSet((sessions \ {s}) \cup {new})
      BY <1>5, FS_AddElement, FS_RemoveElement DEF Close
    <2> HIDE DEF new
    <2>4. sessions' \in SUBSET (sessions \cup {new})
      BY <2>3
    <2> QED BY <1>5, <1>a, <2>2, <2>3, <2>4 DEF Close
  <1>6. ASSUME NEW s \in sessions, Discard(s) PROVE StatisticsTyped'
    <2> DEFINE new == [s EXCEPT !.hidden = "deleted"]
    <2>1. new \in SessionRecords /\ new.status = s.status /\ new.start = s.start
      BY DEF SessionRecords
    <2>2. sessions' = (sessions \ {s}) \cup {new} /\ IsFiniteSet((sessions \ {s}) \cup {new})
      BY <1>6, FS_AddElement, FS_RemoveElement DEF Discard
    <2> HIDE DEF new
    <2>3. sessions' \in SUBSET (sessions \cup {new}) /\ (new.status = "ONGOING" => new.start <= now)
      BY <2>1, <2>2
    <2>4. changes' \in 0..MaxChanges
      BY <1>6, Clock DEF Discard, Change
    <2> QED BY <1>6, <1>a, <2>1, <2>2, <2>3, <2>4 DEF Discard
  <1>7. ASSUME NEW zone \in Offsets, MoveTo(zone) PROVE StatisticsTyped'
    BY <1>0, <1>7, Clock DEF MoveTo, Change
  <1>8. CASE Tick
    <2>1. \A s \in sessions : s.start \in Nat
      BY DEF SessionRecords
    <2> QED BY <1>0, <1>8, <2>1, Clock DEF Tick
  <1>9. CASE UNCHANGED statVars
    BY <1>9 DEF statVars
  <1> QED BY <1>1, <1>2, <1>3, <1>4, <1>5, <1>6, <1>7, <1>8, <1>9 DEF Next

(* What the queries read is a finite set of typed rows: for every calendar,   *)
(* every zone and any number of sessions.                                     *)
THEOREM StatisticsInvariant == Spec => []StatisticsTyped
  BY InitTyped, NextTyped, PTL DEF Spec

-----------------------------------------------------------------------------
(* Sorting, and the totals of rows. *)

(* The highest rank of a finite set, and the set in the order of the ranks.   *)
LEMMA Highest ==
  ASSUME NEW S, IsFiniteSet(S), S # {}, NEW rank, \A x \in S : rank[x] \in Int
  PROVE  \E m \in S : \A x \in S : rank[x] <= rank[m]
  <1> DEFINE P == {T \in SUBSET S : T # {} => \E m \in T : \A x \in T : rank[x] <= rank[m]}
  <1>1. {} \in P
    OBVIOUS
  <1>2. ASSUME NEW T \in P, NEW y \in S \ T PROVE T \cup {y} \in P
    <2>1. CASE T = {}
      BY <2>1
    <2>2. CASE T # {}
      <3>1. PICK m \in T : \A x \in T : rank[x] <= rank[m]
        BY <2>2
      <3>2. CASE rank[y] <= rank[m]
        BY <3>1, <3>2
      <3>3. CASE ~(rank[y] <= rank[m])
        BY <3>1, <3>3
      <3> QED BY <3>2, <3>3
    <2> QED BY <2>1, <2>2
  <1>3. P = SUBSET S
    <2> HIDE DEF P
    <2>1. P \in SUBSET SUBSET S BY DEF P
    <2> QED BY <1>1, <1>2, <2>1, FinInd
  <1> QED BY <1>3

InOrder(seq, n, rank) == \A j, k \in 1..n : j < k => seq[j] # seq[k] /\ rank[seq[j]] <= rank[seq[k]]

(* A finite set can be sorted, so Ranked is defined ...                       *)
LEMMA OrderExists ==
  ASSUME NEW S, IsFiniteSet(S), NEW rank, \A x \in S : rank[x] \in Int
  PROVE  \E seq \in [1..Cardinality(S) -> S] : InOrder(seq, Cardinality(S), rank)
  <1> DEFINE Q == {n \in Nat : \A T \in SUBSET S : Cardinality(T) = n =>
                                   \E seq \in [1..n -> T] : InOrder(seq, n, rank)}
  <1>1. 0 \in Q
    <2>1. ASSUME NEW T \in SUBSET S PROVE \E seq \in [1..0 -> T] : InOrder(seq, 0, rank)
      <3>1. [i \in 1..0 |-> i] \in [1..0 -> T] /\ InOrder([i \in 1..0 |-> i], 0, rank)
        BY DEF InOrder
      <3> QED BY <3>1
    <2> QED BY <2>1
  <1>2. ASSUME NEW n \in Q PROVE n + 1 \in Q
    <2>1. SUFFICES ASSUME NEW T \in SUBSET S, Cardinality(T) = n + 1
                   PROVE  \E seq \in [1..n + 1 -> T] : InOrder(seq, n + 1, rank)
      OBVIOUS
    <2>2. IsFiniteSet(T) /\ T # {}
      BY <2>1, FS_Subset, FS_EmptySet
    <2>3. PICK m \in T : \A x \in T : rank[x] <= rank[m]
      BY <2>2, Highest
    <2>4. IsFiniteSet(T \ {m}) /\ Cardinality(T \ {m}) = Cardinality(T) - 1
      BY <2>2, FS_RemoveElement
    <2>5. Cardinality(T \ {m}) = n /\ T \ {m} \in SUBSET S
      BY <2>1, <2>4
    <2>6. PICK seq \in [1..n -> T \ {m}] : InOrder(seq, n, rank)
      BY <2>5
    <2> DEFINE longer == [i \in 1..n + 1 |-> IF i = n + 1 THEN m ELSE seq[i]]
    <2>7. \A i \in 1..n : i \in 1..n + 1 /\ longer[i] = seq[i] /\ seq[i] \in T \ {m}
      BY <2>6
    <2>8. longer[n + 1] = m
      OBVIOUS
    <2>9. \A i \in 1..n + 1 : i = n + 1 \/ i \in 1..n
      OBVIOUS
    <2>10. longer \in [1..n + 1 -> T]
      BY <2>7, <2>9
    <2> HIDE DEF longer
    <2>11. ASSUME NEW j \in 1..n + 1, NEW k \in 1..n + 1, j < k
           PROVE  longer[j] # longer[k] /\ rank[longer[j]] <= rank[longer[k]]
      <3>1. j \in 1..n
        BY <2>11
      <3>2. CASE k = n + 1
        BY <2>3, <2>7, <2>8, <3>1, <3>2
      <3>3. CASE k \in 1..n
        BY <2>6, <2>7, <2>11, <3>1, <3>3 DEF InOrder
      <3> QED BY <2>9, <3>2, <3>3
    <2> QED BY <2>10, <2>11 DEF InOrder
  <1>3. Q = Nat
    <2> HIDE DEF Q
    <2>1. Q \subseteq Nat BY DEF Q
    <2> QED BY <1>1, <1>2, <2>1, NatInd
  <1>4. Cardinality(S) \in Q
    BY <1>3, FS_CardinalityType
  <1> QED BY <1>4

(* ... and lists every member once, in order.                                 *)
LEMMA RankedIs ==
  ASSUME NEW S, IsFiniteSet(S), NEW rank, \A x \in S : rank[x] \in Int
  PROVE  /\ Cardinality(S) \in Nat
         /\ Ranked(S, rank) \in [1..Cardinality(S) -> S]
         /\ InOrder(Ranked(S, rank), Cardinality(S), rank)
         /\ \A x \in S : \E k \in 1..Cardinality(S) : Ranked(S, rank)[k] = x
  <1> DEFINE n == Cardinality(S)
             seq == Ranked(S, rank)
  <1>1. n \in Nat
    BY FS_CardinalityType
  <1>2. seq = CHOOSE s \in [1..n -> S] : InOrder(s, n, rank)
    BY DEF Ranked, InOrder
  <1>3. seq \in [1..n -> S] /\ InOrder(seq, n, rank)
    <2> HIDE DEF seq
    <2> QED BY <1>2, OrderExists
  <1> HIDE DEF seq
  <1>4. seq \in Surjection(1..n, S)
    <2>1. IsFiniteSet(1..n) /\ Cardinality(1..n) = n
      BY <1>1, FS_Interval
    <2>2. \A j, k \in 1..n : seq[j] = seq[k] => j = k
      <3>1. \A j, k \in 1..n : j < k \/ k < j \/ j = k
        BY <1>1
      <3> QED BY <1>3, <3>1 DEF InOrder
    <2>3. seq \in Injection(1..n, S)
      BY <1>3, <2>2 DEF Injection, IsInjective
    <2> QED BY <2>1, <2>3, FS_Injection
  <1>5. \A x \in S : \E k \in 1..n : seq[k] = x
    BY <1>4 DEF Surjection
  <1> QED BY <1>1, <1>3, <1>5 DEF seq

-----------------------------------------------------------------------------
(* The figures as totals over the user's rows. *)

elapsed == [s \in sessions |-> Elapsed(s)]
playtime == [s \in sessions |-> Playtime(s)]
gameOf == [s \in sessions |-> s.game]
Counted(g) == {s \in Of(Shown, g) : s.status # "ERROR"}
Library == Tab(Null, Null, Null)

LEMMA SumIs == ASSUME NEW f PROVE SumFunction(f) = SumFunctionOnSet(f, DOMAIN f)
  BY DEF SumFunction

(* The times of a row.                                                        *)
LEMMA RowTimes ==
  ASSUME StatisticsTyped
  PROVE  \A s \in sessions : /\ s \in SessionRecords /\ Elapsed(s) \in Nat
                             /\ elapsed[s] = Elapsed(s) /\ elapsed[s] \in Int
                             /\ playtime[s] = Playtime(s) /\ playtime[s] \in Int
                             /\ s.status # "ERROR" => playtime[s] = elapsed[s]
                             /\ s.status = "ERROR" => playtime[s] = 0
                             /\ s.start \in Nat /\ s.duration \in Nat /\ s.game \in Games
  <1>1. now \in Nat
    BY Clock DEF StatisticsTyped
  <1>2. \A s \in sessions : s \in SessionRecords
    BY DEF StatisticsTyped
  <1>3. \A s \in sessions : Elapsed(s) \in Nat
    <2> SUFFICES ASSUME NEW s \in sessions PROVE Elapsed(s) \in Nat
      OBVIOUS
    <2>1. s.start \in Nat /\ s.duration \in Nat /\ (s.status = "ONGOING" => s.start <= now)
      BY <1>2 DEF SessionRecords, StatisticsTyped
    <2> QED BY <1>1, <2>1 DEF Elapsed
  <1>4. \A s \in sessions : /\ s.status # "ERROR" => Playtime(s) = Elapsed(s)
                            /\ s.status = "ERROR" => Playtime(s) = 0
    BY <1>2 DEF Playtime, SessionRecords, Statuses
  <1>5. \A s \in sessions : Playtime(s) \in Int
    BY <1>3, <1>4
  <1>6. \A s \in sessions : s.start \in Nat /\ s.duration \in Nat /\ s.game \in Games
    BY <1>2 DEF SessionRecords
  <1>7. \A s \in sessions : elapsed[s] = Elapsed(s) /\ playtime[s] = Playtime(s)
    BY DEF elapsed, playtime
  <1> QED BY <1>2, <1>3, <1>4, <1>5, <1>6, <1>7

(* The sets of rows the queries select.                                       *)
LEMMA SomeRows ==
  ASSUME StatisticsTyped
  PROVE  /\ IsFiniteSet(sessions) /\ Shown \in SUBSET sessions /\ Played \in SUBSET Shown
         /\ Completed \in SUBSET Played
         /\ \A rows \in SUBSET sessions : IsFiniteSet(rows)
         /\ \A rows \in SUBSET sessions, g \in Games : Of(rows, g) \in SUBSET rows
  BY FS_Subset DEF StatisticsTyped, Shown, Played, Completed, Of

LEMMA SecondsAre ==
  ASSUME StatisticsTyped, NEW rows \in SUBSET sessions
  PROVE  Seconds(rows) = SumFunctionOnSet(elapsed, rows) /\ Seconds(rows) \in Int
  <1> DEFINE f == [s \in rows |-> Elapsed(s)]
  <1>1. Seconds(rows) = SumFunctionOnSet(f, rows)
    BY SumIs DEF Seconds
  <1>2. \A s \in rows : f[s] = elapsed[s] /\ f[s] \in Int
    BY RowTimes
  <1> HIDE DEF f
  <1>3. IsFiniteSet(rows)
    BY SomeRows
  <1> QED BY <1>1, <1>2, <1>3, SumEqual, SumInteger

LEMMA CardIs ==
  ASSUME StatisticsTyped, NEW g \in Games
  PROVE  /\ CardSeconds(g) = SumFunctionOnSet(elapsed, Counted(g))
         /\ CardSeconds(g) = Seconds(Counted(g)) /\ CardSeconds(g) \in Int
  <1> DEFINE f == [s \in Of(Shown, g) |-> Playtime(s)]
  <1>1. CardSeconds(g) = SumFunctionOnSet(f, Of(Shown, g))
    BY SumIs DEF CardSeconds
  <1>2. Of(Shown, g) \in SUBSET sessions /\ Counted(g) \in SUBSET Of(Shown, g) /\ Counted(g) \in SUBSET sessions
    BY SomeRows DEF Counted
  <1>3. IsFiniteSet(Of(Shown, g))
    BY <1>2, SomeRows
  <1>4. \A s \in Counted(g) : f[s] = elapsed[s] /\ f[s] \in Int
    BY <1>2, RowTimes DEF Counted
  <1>5. \A s \in Of(Shown, g) \ Counted(g) : f[s] = 0
    BY <1>2, RowTimes DEF Counted
  <1> HIDE DEF f
  <1>6. SumFunctionOnSet(f, Of(Shown, g)) = SumFunctionOnSet(elapsed, Counted(g))
    BY <1>2, <1>3, <1>4, <1>5, SumOfPart
  <1> QED BY <1>1, <1>2, <1>6, SecondsAre

-----------------------------------------------------------------------------
(* The views. *)

LEMMA MinOfTwo == ASSUME NEW a \in Int, NEW b \in Int PROVE Min({a, b}) = IF a <= b THEN a ELSE b
  BY DEF Min

LEMMA MaxOfTwo == ASSUME NEW a \in Int, NEW b \in Int PROVE Max({a, b}) = IF a >= b THEN a ELSE b
  BY DEF Max

LEMMA GamesFinite ==
  ASSUME StatisticsTyped, NEW rows \in SUBSET sessions
  PROVE  IsFiniteSet({s.game : s \in rows})
  <1> DEFINE games == {s.game : s \in rows}
             f == [s \in rows |-> s.game]
  <1>1. f \in Surjection(rows, games)
    BY DEF Surjection
  <1>2. IsFiniteSet(rows)
    BY SomeRows
  <1> QED BY <1>1, <1>2, FS_Surjection

LEMMA LibraryIs ==
  /\ Library = {g \in Games : Of(Shown, g) # {} /\ LibraryVisible(g)}
  /\ Tab(Null, Null, "NEEDS_REVIEW") = {g \in Games : Of(Shown, g) # {} /\ g \in review /\ ReviewInbox(g)}
  /\ Tab("true", Null, Null) = {g \in Games : Of(Shown, g) # {} /\ IgnoredOnly(g)}
  /\ Tab(Null, "false", Null) = {g \in Games : Of(Shown, g) # {} /\ LibraryExcluded(g)}
  BY DEF Library, Tab, Null

(* Every game is in one tab.                                                  *)
LEMMA OneTab ==
  ASSUME StatisticsTyped
  PROVE  LET inbox == Tab(Null, Null, "NEEDS_REVIEW")
             ignored == Tab("true", Null, Null)
             played == {s.game : s \in Shown} IN
         /\ Library \cup inbox \cup ignored = played
         /\ Library \cap inbox = {} /\ Library \cap ignored = {} /\ inbox \cap ignored = {}
         /\ Tab(Null, "false", Null) = inbox \cup ignored
         /\ played \subseteq Suggested
  <1> DEFINE played == {s.game : s \in Shown}
  <1>1. played = {g \in Games : Of(Shown, g) # {}}
    <2>1. \A s \in Shown : s.game \in Games
      BY SomeRows, RowTimes
    <2> QED BY <2>1 DEF Of
  <1>2. \A g \in Games : /\ pref[g].ignored \in {Null, "true", "false"}
                         /\ pref[g].accepted \in {Null, "true", "false"}
    BY DEF StatisticsTyped, Prefs, NoPref
  <1>3. \A g \in Games :
           /\ LibraryVisible(g) \/ (g \in review /\ ReviewInbox(g)) \/ IgnoredOnly(g)
           /\ ~(LibraryVisible(g) /\ g \in review /\ ReviewInbox(g))
           /\ ~(LibraryVisible(g) /\ IgnoredOnly(g)) /\ ~(ReviewInbox(g) /\ IgnoredOnly(g))
           /\ LibraryExcluded(g) <=> ((g \in review /\ ReviewInbox(g)) \/ IgnoredOnly(g))
    BY <1>2 DEF LibraryVisible, ReviewInbox, IgnoredOnly, LibraryExcluded, NotTrue, Null
  <1>4. played \subseteq Suggested
    <2>1. \A s \in Shown : s \in Of(sessions, s.game) /\ s.hidden # "deleted" /\ s.game \in Games
      BY SomeRows, RowTimes DEF Shown, Of
    <2> QED BY <2>1 DEF Suggested
  <1> QED BY <1>1, <1>3, <1>4, LibraryIs

LEMMA CountedIs ==
  ASSUME StatisticsTyped, NEW g \in Games, LibraryVisible(g)
  PROVE  Counted(g) = Of(Played, g) /\ Counted(g) = {s \in Played : gameOf[s] = g}
  <1>1. \A s \in Shown : gameOf[s] = s.game
    BY SomeRows DEF gameOf
  <1> QED BY <1>1 DEF Counted, Of, Played

(* The cards of any games of the library add up to what was played of them.   *)
LEMMA CardsAddUp ==
  ASSUME StatisticsTyped, NEW G \in SUBSET Library
  PROVE  SumFunction([g \in G |-> CardSeconds(g)]) = Seconds({s \in Played : s.game \in G})
  <1> DEFINE rows == {s \in Played : s.game \in G}
             cards == [g \in G |-> CardSeconds(g)]
             groups == [g \in G |-> SumFunctionOnSet(elapsed, {s \in rows : gameOf[s] = g})]
  <1>1. rows \in SUBSET sessions /\ IsFiniteSet(rows)
    BY SomeRows
  <1>2. IsFiniteSet(G)
    <2>1. G \subseteq {s.game : s \in Shown}
      BY LibraryIs DEF Of
    <2>2. IsFiniteSet({s.game : s \in Shown})
      BY SomeRows, GamesFinite
    <2> QED BY <2>1, <2>2, FS_Subset
  <1>3. \A g \in G : cards[g] = groups[g] /\ cards[g] \in Int
    <2> SUFFICES ASSUME NEW g \in G PROVE cards[g] = groups[g] /\ cards[g] \in Int
      OBVIOUS
    <2>1. g \in Games /\ LibraryVisible(g)
      BY LibraryIs
    <2>2. Counted(g) = {s \in rows : gameOf[s] = g}
      <3>1. \A s \in Played : gameOf[s] = s.game
        BY SomeRows DEF gameOf
      <3> QED BY <2>1, <3>1, CountedIs
    <2> QED BY <2>1, <2>2, CardIs
  <1>4. \A s \in rows : elapsed[s] \in Int /\ gameOf[s] \in G
    BY <1>1, RowTimes DEF gameOf
  <1>5. SumFunctionOnSet(elapsed, rows) = SumFunctionOnSet(groups, G)
    BY <1>1, <1>2, <1>4, SumByGroup
  <1>6. SumFunction(cards) = SumFunctionOnSet(cards, G)
    BY SumIs
  <1> HIDE DEF cards, groups, rows
  <1>7. SumFunctionOnSet(cards, G) = SumFunctionOnSet(groups, G)
    BY <1>2, <1>3, SumEqual
  <1>8. Seconds(rows) = SumFunctionOnSet(elapsed, rows)
    BY <1>1, SecondsAre
  <1> QED BY <1>5, <1>6, <1>7, <1>8 DEF cards, rows

LEMMA NoSeconds == ASSUME StatisticsTyped PROVE Seconds({}) = 0
  BY SecondsAre, SumEmpty

LEMMA PartsOfSeconds ==
  ASSUME StatisticsTyped, NEW A \in SUBSET sessions, NEW B \in SUBSET sessions, A \cap B = {}
  PROVE  Seconds(A \cup B) = Seconds(A) + Seconds(B)
  <1>1. IsFiniteSet(A) /\ IsFiniteSet(B) /\ A \cup B \in SUBSET sessions
    BY SomeRows
  <1>2. \A x \in A \cup B : elapsed[x] \in Int
    BY RowTimes
  <1>3. SumFunctionOnSet(elapsed, A \cup B) = SumFunctionOnSet(elapsed, A) + SumFunctionOnSet(elapsed, B)
    BY <1>1, <1>2, SumOfParts
  <1> QED BY <1>1, <1>3, SecondsAre

LEMMA AllTime ==
  /\ \A rows : {s \in rows : InWindow(s, 0)} = rows
  BY DEF InWindow

(* A card is the open session and what the summary says.                      *)
LEMMA CardIsSummary ==
  ASSUME StatisticsTyped, NEW g \in Library
  PROVE  CardSeconds(g) = Seconds({s \in Of(Shown, g) : s.status = "ONGOING"})
                          + (IF g \in DOMAIN Summary(0).perGame THEN Summary(0).perGame[g] ELSE 0)
  <1> DEFINE open == {s \in Of(Shown, g) : s.status = "ONGOING"}
             done == Of(Completed, g)
  <1>1. g \in Games /\ LibraryVisible(g)
    BY LibraryIs
  <1>2. open \cup done = Counted(g) /\ open \cap done = {}
    <2>1. \A s \in sessions : s.status \in Statuses
      BY RowTimes DEF SessionRecords
    <2> QED BY <1>1, <2>1, SomeRows DEF Counted, Completed, Played, Of, Statuses
  <1>3. open \in SUBSET sessions /\ done \in SUBSET sessions
    BY <1>1, SomeRows DEF Of
  <1>4. DOMAIN Summary(0).perGame = {s.game : s \in Completed}
        /\ \A h \in DOMAIN Summary(0).perGame : Summary(0).perGame[h] = Seconds(Of(Completed, h))
    BY AllTime DEF Summary
  <1>5. (IF g \in DOMAIN Summary(0).perGame THEN Summary(0).perGame[g] ELSE 0) = Seconds(done)
    <2>1. CASE g \in DOMAIN Summary(0).perGame
      BY <1>4, <2>1
    <2>2. CASE g \notin DOMAIN Summary(0).perGame
      <3>1. done = {}
        BY <1>4, <2>2 DEF Of
      <3> HIDE DEF done
      <3> QED BY <2>2, <3>1, NoSeconds
    <2> QED BY <2>1, <2>2
  <1> HIDE DEF open, done
  <1>6. CardSeconds(g) = Seconds(open) + Seconds(done)
    BY <1>1, <1>2, <1>3, CardIs, PartsOfSeconds
  <1> QED BY <1>5, <1>6 DEF open

Tagged(t) == {s \in Played : t \in TagsOf[s.game]}

LEMMA BreakdownIs ==
  /\ DOMAIN Breakdown(0) = {t \in Tags : Tagged(t) # {}}
  /\ \A t \in DOMAIN Breakdown(0) : Breakdown(0)[t] = Seconds(Tagged(t))
  <1>1. \A t : {s \in Played : t \in TagsOf[s.game] /\ InWindow(s, 0)} = Tagged(t)
    BY DEF Tagged, InWindow
  <1> QED BY <1>1 DEF Breakdown

(* A tag in a breakdown has the seconds of the library cards that have it.    *)
LEMMA TagsAddUp ==
  ASSUME StatisticsTyped, NEW t \in Tags
  PROVE  LET tagged == {g \in Library : t \in TagsOf[g]} IN
         SumFunction([g \in tagged |-> CardSeconds(g)])
             = IF t \in DOMAIN Breakdown(0) THEN Breakdown(0)[t] ELSE 0
  <1> DEFINE tagged == {g \in Library : t \in TagsOf[g]}
  <1>1. {s \in Played : s.game \in tagged} = Tagged(t)
    <2>1. \A s \in Played : s.game \in Library
      BY SomeRows, RowTimes, LibraryIs DEF Played, Of
    <2> QED BY <2>1 DEF Tagged
  <1>2. SumFunction([g \in tagged |-> CardSeconds(g)]) = Seconds(Tagged(t))
    BY <1>1, CardsAddUp
  <1>3. t \notin DOMAIN Breakdown(0) => Seconds(Tagged(t)) = 0
    BY BreakdownIs, NoSeconds
  <1> QED BY <1>2, <1>3, BreakdownIs

(* The decades have the seconds of the library cards with a release date.     *)
LEMMA YearsAddUp ==
  ASSUME StatisticsTyped
  PROVE  SumFunction(ReleaseYears)
             = SumFunction([g \in {h \in Library : YearOf[h] # 0} |-> CardSeconds(g)])
  <1> DEFINE dated == {s \in Played : YearOf[s.game] # 0}
             decade(s) == (YearOf[s.game] \div 10) * 10
             decades == {decade(s) : s \in dated}
             decadeOf == [s \in dated |-> decade(s)]
             groups == [d \in decades |-> SumFunctionOnSet(elapsed, {s \in dated : decadeOf[s] = d})]
             G == {h \in Library : YearOf[h] # 0}
  <1>1. dated \in SUBSET sessions /\ IsFiniteSet(dated)
    BY SomeRows
  <1>2. IsFiniteSet(decades)
    <2>1. decadeOf \in Surjection(dated, decades)
      BY DEF Surjection
    <2> HIDE DEF dated, decades, decadeOf
    <2> QED BY <1>1, <2>1, FS_Surjection
  <1>3. ReleaseYears = groups
    <2>1. ReleaseYears = [d \in decades |-> Seconds({s \in dated : decade(s) = d})]
      BY DEF ReleaseYears
    <2>2. \A d \in decades : Seconds({s \in dated : decade(s) = d})
                                 = SumFunctionOnSet(elapsed, {s \in dated : decadeOf[s] = d})
      <3>1. \A d \in decades : {s \in dated : decade(s) = d} = {s \in dated : decadeOf[s] = d}
        OBVIOUS
      <3>2. \A d \in decades : {s \in dated : decade(s) = d} \in SUBSET sessions
        BY <1>1
      <3> HIDE DEF dated, decade, decades, decadeOf
      <3> QED BY <3>1, <3>2, SecondsAre
    <2> QED BY <2>1, <2>2
  <1>4. SumFunctionOnSet(elapsed, dated) = SumFunctionOnSet(groups, decades)
    <2>1. \A s \in dated : elapsed[s] \in Int /\ decadeOf[s] \in decades
      BY <1>1, RowTimes
    <2> HIDE DEF dated, decadeOf, decades
    <2> QED BY <1>1, <1>2, <2>1, SumByGroup
  <1>5. SumFunction(groups) = SumFunctionOnSet(groups, decades)
    BY SumIs
  <1>6. {s \in Played : s.game \in G} = dated
    <2>1. \A s \in Played : s.game \in Library
      BY SomeRows, RowTimes, LibraryIs DEF Played, Of
    <2> QED BY <2>1
  <1>7. SumFunction([g \in G |-> CardSeconds(g)]) = Seconds(dated)
    BY <1>6, CardsAddUp
  <1>8. Seconds(dated) = SumFunctionOnSet(elapsed, dated)
    BY <1>1, SecondsAre
  <1> HIDE DEF groups, dated, G
  <1> QED BY <1>3, <1>4, <1>5, <1>7, <1>8 DEF G

(* No company left out has more seconds than one listed.                      *)
LEMMA TopCompanies ==
  ASSUME StatisticsTyped, NEW k \in DOMAIN Companies, NEW t \in DOMAIN Breakdown(0)
  PROVE  \/ t \in {Companies[j].name : j \in DOMAIN Companies}
         \/ Breakdown(0)[t] <= Companies[k].seconds
  <1> DEFINE totals == Breakdown(0)
             S == DOMAIN totals
             rank == [u \in S |-> -totals[u]]
             ranked == Ranked(S, rank)
             n == Cardinality(S)
             m == Min({Limit, Len(ranked)})
  <1>1. IsFiniteSet(S) /\ \A u \in S : totals[u] \in Int
    <2>1. S \subseteq Tags
      BY BreakdownIs
    <2>2. \A u \in S : Tagged(u) \in SUBSET sessions
      BY SomeRows DEF Tagged
    <2> QED BY <2>1, <2>2, BreakdownIs, SecondsAre, StatisticsAssumption, FS_Subset
  <1>2. \A u \in S : rank[u] \in Int /\ rank[u] = -totals[u]
    BY <1>1
  <1>3. n \in Nat /\ ranked \in [1..n -> S] /\ InOrder(ranked, n, rank)
        /\ \A u \in S : \E j \in 1..n : ranked[j] = u
    <2> HIDE DEF S, rank
    <2> QED BY <1>1, <1>2, RankedIs
  <1>4. DOMAIN Companies = 1..m /\ \A j \in 1..m : Companies[j].name = ranked[j]
                                                   /\ Companies[j].seconds = totals[ranked[j]]
    BY DEF Companies
  <1>5. m \in Nat /\ m <= n
    <2>1. Len(ranked) = n
      BY <1>3
    <2> HIDE DEF ranked, n
    <2>2. m = Min({Limit, n}) /\ Limit \in Nat
      BY <2>1, StatisticsAssumption
    <2> HIDE DEF m
    <2> QED BY <1>3, <2>2, MinOfTwo
  <1> HIDE DEF m, totals, rank, ranked, n
  <1>6. PICK j \in 1..n : ranked[j] = t
    BY <1>3 DEF totals
  <1>7. k \in 1..m /\ k \in 1..n
    BY <1>3, <1>4, <1>5
  <1>8. CASE j <= m
    BY <1>4, <1>5, <1>6, <1>8
  <1>9. CASE ~(j <= m)
    <2>1. k < j
      BY <1>5, <1>6, <1>7, <1>9, <1>3
    <2>2. rank[ranked[k]] <= rank[ranked[j]]
      BY <1>3, <1>6, <1>7, <2>1 DEF InOrder
    <2>3. ranked[k] \in S /\ ranked[j] \in S
      BY <1>3, <1>6, <1>7
    <2>4. totals[ranked[j]] <= totals[ranked[k]]
      BY <1>1, <1>2, <2>2, <2>3
    <2> QED BY <1>4, <1>6, <1>7, <2>4 DEF totals
  <1> QED BY <1>5, <1>6, <1>8, <1>9

(* The dashboard and the summaries of two windows.                            *)
LEMMA WindowsAgree ==
  ASSUME StatisticsTyped, NEW a \in Windows \ {0}, NEW b \in Windows \ {0}, a < b
  PROVE  /\ Dashboard(a, b).longer = Summary(b).total
         /\ Dashboard(a, b).shorter = Summary(a).total
         /\ b = 2 * a => Summary(a).total + Summary(a).previous = Summary(b).total
         /\ Summary(a).newGames \subseteq Summary(b).newGames
  <1> DEFINE inside(days) == {s \in Completed : InWindow(s, days)}
             before == {s \in Completed : a # 0 /\ InWindow(s, 2 * a) /\ ~InWindow(s, a)}
             first(g) == Min({s.start : s \in Of(Played, g)})
  <1>1. a \in Nat /\ b \in Nat /\ a # 0 /\ b # 0 /\ now \in Nat /\ a * Day \in Nat /\ b * Day \in Nat
        /\ a * Day <= b * Day
    <2>1. a \in Nat /\ b \in Nat /\ a # 0 /\ b # 0 /\ now \in Nat /\ Day \in Nat
      BY Clock DEF StatisticsTyped
    <2>2. a * Day \in Nat /\ b * Day \in Nat /\ a * Day <= b * Day
      BY <2>1
    <2> QED BY <2>1, <2>2
  <1>2. \A s \in Completed : s.start \in Nat
    BY SomeRows, RowTimes
  <1>3. {s \in inside(b) : s.start >= now - a * Day} = inside(a)
    BY <1>1, <1>2 DEF InWindow
  <1>4. Dashboard(a, b).longer = Seconds(inside(b)) /\ Dashboard(a, b).shorter = Seconds(inside(a))
    BY <1>3 DEF Dashboard
  <1>5. \A d : Summary(d).total = Seconds(inside(d))
    BY DEF Summary
  <1>6. Summary(a).previous = Seconds(before)
    BY DEF Summary
  <1>7. ASSUME b = 2 * a PROVE Summary(a).total + Summary(a).previous = Summary(b).total
    <2>1. inside(a) \cup before = inside(b) /\ inside(a) \cap before = {}
      BY <1>1, <1>2, <1>7 DEF InWindow
    <2>2. inside(a) \in SUBSET sessions /\ before \in SUBSET sessions
      BY SomeRows
    <2> HIDE DEF inside, before
    <2> QED BY <1>5, <1>6, <2>1, <2>2, PartsOfSeconds
  <1>8. Summary(a).newGames \subseteq Summary(b).newGames
    <2>1. \A d \in {a, b} : Summary(d).newGames
                = {g \in {s.game : s \in Played} : d = 0 \/ first(g) >= now - d * Day}
      BY DEF Summary
    <2>2. \A g \in {s.game : s \in Played} : first(g) \in Nat
      <3> SUFFICES ASSUME NEW s \in Played PROVE first(s.game) \in Nat
        OBVIOUS
      <3> DEFINE starts == {r.start : r \in Of(Played, s.game)}
      <3>1. starts \in SUBSET Nat /\ starts # {}
        BY SomeRows, RowTimes DEF Of
      <3> HIDE DEF starts
      <3>2. Min(starts) \in starts
        BY <3>1, Least DEF Min
      <3> QED BY <3>1, <3>2 DEF starts
    <2> HIDE DEF first
    <2> QED BY <1>1, <2>1, <2>2
  <1> QED BY <1>4, <1>5, <1>7, <1>8

LEMMA AgreeTyped == StatisticsTyped => ViewsAgree
  <1> SUFFICES ASSUME StatisticsTyped PROVE ViewsAgree
    OBVIOUS
  <1> DEFINE played == {s.game : s \in Shown}
  <1>1. played \subseteq Games
    BY SomeRows, RowTimes
  <1>2. \A g \in played : CardSeconds(g) = GameStats(g).seconds
    BY <1>1, CardIs DEF GameStats, Counted
  <1>3. /\ \A g \in Library :
              CardSeconds(g) = Seconds({s \in Of(Shown, g) : s.status = "ONGOING"})
                             + (IF g \in DOMAIN Summary(0).perGame THEN Summary(0).perGame[g] ELSE 0)
        /\ \A t \in Tags : LET tagged == {g \in Library : t \in TagsOf[g]} IN
              SumFunction([g \in tagged |-> CardSeconds(g)])
                  = IF t \in DOMAIN Breakdown(0) THEN Breakdown(0)[t] ELSE 0
    BY CardIsSummary, TagsAddUp
  <1> QED BY <1>2, <1>3, OneTab, TopCompanies, YearsAddUp, WindowsAgree DEF ViewsAgree, Library

(* Independent queries tell one story (ViewsAgree), for any catalog, any      *)
(* preferences and any sessions: the tabs partition the games played, and the *)
(* cards, the game page, the summary, the dashboard and the breakdowns add up *)
(* to each other.                                                             *)
THEOREM ViewsTellOneStory == Spec => []ViewsAgree
  BY StatisticsInvariant, AgreeTyped, PTL

-----------------------------------------------------------------------------
(* Streaks. *)

IsRun(dates, d, n) == d - n + 1..d \subseteq dates

LEMMA MaxIs ==
  ASSUME NEW S \in SUBSET Int, NEW m \in S, \A x \in S : x <= m
  PROVE  Max(S) = m
  <1> DEFINE n == Max(S)
  <1>1. n \in S /\ \A x \in S : n >= x
    BY DEF Max
  <1> HIDE DEF n
  <1>2. n \in Int /\ m \in Int /\ n >= m /\ m >= n
    BY <1>1
  <1>3. n = m
    BY <1>2
  <1> QED BY <1>3 DEF n

LEMMA MinIs ==
  ASSUME NEW S \in SUBSET Int, NEW m \in S, \A x \in S : m <= x
  PROVE  Min(S) = m
  <1> DEFINE n == Min(S)
  <1>1. n \in S /\ \A x \in S : n <= x
    BY DEF Min
  <1> HIDE DEF n
  <1>2. n \in Int /\ m \in Int /\ n <= m /\ m <= n
    BY <1>1
  <1>3. n = m
    BY <1>2
  <1> QED BY <1>3 DEF n

LEMMA RankedRange ==
  ASSUME NEW S, IsFiniteSet(S), NEW rank, \A x \in S : rank[x] \in Int
  PROVE  Range(Ranked(S, rank)) = S
  <1> DEFINE seq == Ranked(S, rank)
             n == Cardinality(S)
  <1>1. seq \in [1..n -> S] /\ \A x \in S : \E k \in 1..n : seq[k] = x
    BY RankedIs
  <1> HIDE DEF seq
  <1>2. Range(seq) = S
    BY <1>1 DEF Range
  <1> QED BY <1>2 DEF seq

(* sorted: the dates once each, ascending.                                    *)
LEMMA SortedDates ==
  ASSUME NEW dates \in SUBSET Nat, IsFiniteSet(dates), NEW rank, \A d \in dates : rank[d] = d
  PROVE  /\ \A k \in 1..Cardinality(dates) : Ranked(dates, rank)[k] \in dates
         /\ \A j, k \in 1..Cardinality(dates) : j < k => Ranked(dates, rank)[j] < Ranked(dates, rank)[k]
         /\ \A d \in dates : \E k \in 1..Cardinality(dates) : Ranked(dates, rank)[k] = d
  <1>1. \A d \in dates : rank[d] \in Int
    OBVIOUS
  <1>2. Ranked(dates, rank) \in [1..Cardinality(dates) -> dates]
    BY ONLY IsFiniteSet(dates), <1>1, RankedIs
  <1>3. InOrder(Ranked(dates, rank), Cardinality(dates), rank)
    BY ONLY IsFiniteSet(dates), <1>1, RankedIs
  <1>4. \A d \in dates : \E k \in 1..Cardinality(dates) : Ranked(dates, rank)[k] = d
    <2>1. Range(Ranked(dates, rank)) = dates
      BY ONLY IsFiniteSet(dates), <1>1, RankedRange
    <2> QED BY <1>2, <2>1 DEF Range
  <1> DEFINE seq == Ranked(dates, rank)
             n == Cardinality(dates)
  <1> HIDE DEF seq
  <1>5. \A k \in 1..n : seq[k] \in dates
    BY <1>2 DEF seq
  <1>a. \A k \in 1..n : rank[seq[k]] = seq[k] /\ seq[k] \in Nat
    BY <1>5
  <1>6. ASSUME NEW j \in 1..n, NEW k \in 1..n, j < k PROVE seq[j] < seq[k]
    <2>1. \A i, l \in 1..n : i < l => seq[i] # seq[l] /\ rank[seq[i]] <= rank[seq[l]]
      BY <1>3 DEF InOrder, seq
    <2>2. seq[j] # seq[k] /\ rank[seq[j]] <= rank[seq[k]]
      BY <1>6, <2>1
    <2> QED BY <1>a, <2>2
  <1> QED BY <1>4, <1>5, <1>6 DEF seq

(* The loop over the sorted dates keeps the run that ends at the last date    *)
(* and the longest one so far.                                                *)
LEMMA LongestRunIs ==
  ASSUME NEW dates \in SUBSET Nat, IsFiniteSet(dates), dates # {}
  PROVE  /\ LongestRun(dates) \in Nat
         /\ \E d \in dates : IsRun(dates, d, LongestRun(dates))
         /\ \A d \in dates, m \in Nat : IsRun(dates, d, m) => m <= LongestRun(dates)
  <1> DEFINE n == Cardinality(dates)
             rank == [d \in dates |-> d]
             sorted == Ranked(dates, rank)
             first == [run |-> 1, longest |-> 1]
             step(g) == [k \in 1..n |-> IF k = 1 THEN first ELSE Longer(g[k - 1], sorted[k] - sorted[k - 1])]
             loop == CHOOSE g : g = step(g)
             V == [run : Nat, longest : Nat]
  <1>1. LongestRun(dates) = loop[n].longest
    BY DEF LongestRun
  <1>2. n \in Nat /\ n # 0
    BY FS_CardinalityType, FS_EmptySet
  <1>3. /\ \A k \in 1..n : sorted[k] \in dates
        /\ \A j, k \in 1..n : j < k => sorted[j] < sorted[k]
        /\ \A d \in dates : \E k \in 1..n : sorted[k] = d
    <2>1. \A d \in dates : rank[d] = d
      OBVIOUS
    <2> HIDE DEF rank
    <2> QED BY <2>1, SortedDates
  <1> HIDE DEF n, sorted
  <1>4. \A gap : \A acc \in V : Longer(acc, gap) \in V
    <2> SUFFICES ASSUME NEW acc \in V, NEW gap PROVE Longer(acc, gap) \in V
      OBVIOUS
    <2> DEFINE run == IF gap = 1 THEN acc.run + 1 ELSE 1
    <2>1. run \in Nat /\ acc.longest \in Nat
      OBVIOUS
    <2>2. Longer(acc, gap) = [run |-> run, longest |-> Max({acc.longest, run})]
      BY DEF Longer
    <2> HIDE DEF run
    <2> QED BY <2>1, <2>2, MaxOfTwo
  <1>5. loop = step(loop)
    <2> DEFINE D == 1..n
               height == [k \in D |-> k]
               next == [k \in D |-> IF k = 1 THEN 1 ELSE k - 1]
               b == [k \in D |-> first]
               e == [p \in D \X V |-> Longer(p[2], sorted[p[1]] - sorted[p[1] - 1])]
    <2>1. height \in [D -> 0..n] /\ next \in [D -> D] /\ b \in [D -> V] /\ {1} \in SUBSET D
          /\ \A k \in D \ {1} : height[next[k]] < height[k]
      BY <1>2
    <2>2. e \in [D \X V -> V]
      BY <1>4
    <2> HIDE DEF height, b, e, next, V, D
    <2> DEFINE base == {1}
    <2>3. base \in SUBSET D /\ n \in Nat /\ Falls(D, base, next, height)
      BY <1>2, <2>1 DEF Falls
    <2> HIDE DEF base
    <2>f. PICK f \in [D -> V] : Follows(f, D, base, b, next, e)
      BY ONLY <2>1, <2>2, <2>3, Recursion
    <2>4. \A k \in D : f[k] = IF k = 1 THEN first ELSE Longer(f[k - 1], sorted[k] - sorted[k - 1])
      <3> SUFFICES ASSUME NEW k \in D
                   PROVE  f[k] = IF k = 1 THEN first ELSE Longer(f[k - 1], sorted[k] - sorted[k - 1])
        OBVIOUS
      <3>1. CASE k = 1
        BY <2>f, <3>1 DEF b, base, Follows
      <3>2. CASE k # 1
        <4>1. next[k] = k - 1 /\ k - 1 \in D
          <5>1. next[k] = k - 1
            BY <3>2 DEF next
          <5> QED BY <2>1, <5>1
        <4>2. e[<<k, f[k - 1]>>] = Longer(f[k - 1], sorted[k] - sorted[k - 1])
          BY <4>1 DEF e
        <4>3. f[k] = e[<<k, f[next[k]]>>]
          BY <2>f, <3>2 DEF base, Follows
        <4> QED BY <3>2, <4>1, <4>2, <4>3
      <3> QED BY <3>1, <3>2
    <2>5. f = step(f)
      <3> HIDE DEF first
      <3> QED BY <2>4 DEF D
    <2> HIDE DEF step
    <2> QED BY <2>5
  <1> HIDE DEF loop
  <1>6. loop[1] = first /\ \A k \in 2..n : loop[k] = Longer(loop[k - 1], sorted[k] - sorted[k - 1])
    BY <1>2, <1>5
  <1>t. \A k \in 1..n : loop[k] \in V
    <2> DEFINE T == {k \in Nat : k + 1 \in 1..n => loop[k + 1] \in V}
    <2>1. 0 \in T
      BY <1>6
    <2>2. ASSUME NEW k \in T PROVE k + 1 \in T
      <3> SUFFICES ASSUME k + 2 \in 1..n PROVE loop[k + 2] \in V
        OBVIOUS
      <3> HIDE DEF V
      <3>1. loop[k + 1] \in V /\ k + 2 \in 2..n /\ (k + 2) - 1 = k + 1
        BY <1>2
      <3> QED BY <1>4, <1>6, <3>1
    <2>3. T = Nat
      <3> HIDE DEF T
      <3>1. T \subseteq Nat BY DEF T
      <3> QED BY <2>1, <2>2, <3>1, NatInd
    <2>4. \A k \in 1..n : k - 1 \in Nat /\ (k - 1) + 1 = k
      BY <1>2
    <2>5. \A k \in 1..n : k - 1 \in T
      <3> HIDE DEF T
      <3> QED BY <2>3, <2>4
    <2> HIDE DEF V
    <2> QED BY <2>4, <2>5
  <1> DEFINE Good(k) ==
               /\ loop[k] \in V /\ loop[k].run # 0
               /\ IsRun(dates, sorted[k], loop[k].run) /\ sorted[k] - loop[k].run \notin dates
               /\ \E j \in 1..k : loop[k].longest = loop[j].run
               /\ \A j \in 1..k : loop[j].run <= loop[k].longest
             P == {k \in Nat : k + 1 \in 1..n => Good(k + 1)}
  <1>7. 0 \in P
    <2>1. sorted[1] \in dates /\ sorted[1] \in Nat
      <3>1. 1 \in 1..n
        BY <1>2
      <3> QED BY <1>3, <3>1
    <2>2. sorted[1] - 1 \notin dates
      <3>1. \A d \in dates : sorted[1] <= d
        <4> SUFFICES ASSUME NEW d \in dates PROVE sorted[1] <= d
          OBVIOUS
        <4>1. PICK k \in 1..n : sorted[k] = d
          BY <1>3
        <4> QED BY <1>2, <1>3, <2>1, <4>1
      <3> QED BY <2>1, <3>1
    <2>3. IsRun(dates, sorted[1], 1)
      BY <2>1 DEF IsRun
    <2>4. loop[1] \in V /\ loop[1].run = 1 /\ loop[1].longest = 1
      BY <1>6
    <2>5. \A j \in 1..1 : j = 1
      OBVIOUS
    <2> HIDE DEF V
    <2> QED BY <2>1, <2>2, <2>3, <2>4, <2>5
  <1>8. ASSUME NEW i \in P PROVE i + 1 \in P
    <2> DEFINE k == i + 1
    <2>1. SUFFICES ASSUME k + 1 \in 1..n PROVE Good(k + 1)
      OBVIOUS
    <2>2. k \in Nat /\ k \in 1..n /\ k >= 1 /\ k + 1 \in 2..n /\ (k + 1) - 1 = k
      BY <1>2, <2>1
    <2>3. Good(k)
      BY <2>2
    <2> HIDE DEF k, V
    <2> DEFINE d == sorted[k]
               c == sorted[k + 1]
               r == loop[k].run
               l == loop[k].longest
               run == IF c - d = 1 THEN r + 1 ELSE 1
    <2>4. d \in dates /\ c \in dates /\ d < c /\ d \in Nat /\ c \in Nat
      BY <1>3, <2>1, <2>2
    <2>5. \A x \in dates : x <= d \/ c <= x
      <3> SUFFICES ASSUME NEW x \in dates PROVE x <= d \/ c <= x
        OBVIOUS
      <3>1. PICK j \in 1..n : sorted[j] = x
        BY <1>3
      <3>2. CASE j <= k
        BY <1>3, <2>2, <2>4, <3>1, <3>2
      <3>3. CASE j >= k + 1
        BY <1>3, <2>1, <2>2, <2>4, <3>1, <3>3
      <3> QED BY <2>2, <3>2, <3>3
    <2>6. r \in Nat /\ l \in Nat /\ r # 0 /\ IsRun(dates, d, r) /\ d - r \notin dates
      BY <2>3 DEF V
    <2>7. loop[k + 1] = Longer(loop[k], c - d)
      BY <1>6, <2>2
    <2>8. loop[k + 1].run = run /\ loop[k + 1].longest = Max({l, run}) /\ loop[k + 1] \in V
      <3>1. loop[k] \in V
        BY <2>3
      <3>2. loop[k + 1] = [run |-> run, longest |-> Max({l, run})]
        BY <2>7 DEF Longer
      <3>3. Longer(loop[k], c - d) \in V
        <4> DEFINE gap == c - d
        <4> HIDE DEF gap
        <4>1. Longer(loop[k], gap) \in V
          BY <1>4, <3>1
        <4> QED BY <4>1 DEF gap
      <3> HIDE DEF run
      <3> QED BY <2>7, <3>2, <3>3
    <2>a. \A j \in 1..k : loop[j].run <= l
      BY <2>3
    <2>b. \E j \in 1..k : l = loop[j].run
      BY <2>3
    <2> HIDE DEF d, c, r, l
    <2>9. run \in Nat /\ run # 0
      BY <2>6
    <2>10. IsRun(dates, c, run) /\ c - run \notin dates
      <3>1. CASE c - d = 1
        <4>1. run = r + 1 /\ c - run = d - r
          BY <2>4, <2>6, <3>1
        <4>2. \A x \in c - run + 1..c : x = c \/ x \in d - r + 1..d
          BY <2>4, <2>6, <3>1, <4>1
        <4> HIDE DEF run
        <4> QED BY <2>4, <2>6, <4>1, <4>2 DEF IsRun
      <3>2. CASE c - d # 1
        <4>1. run = 1 /\ c - 1 \notin dates
          BY <2>4, <2>5, <3>2
        <4>2. \A x \in c - 1 + 1..c : x = c
          BY <2>4
        <4> HIDE DEF run
        <4> QED BY <2>4, <4>1, <4>2 DEF IsRun
      <3> QED BY <3>1, <3>2
    <2>11. Max({l, run}) = IF l >= run THEN l ELSE run
      BY <2>6, <2>9, MaxOfTwo
    <2>12. \A j \in 1..k + 1 : j = k + 1 \/ j \in 1..k
      BY <2>2
    <2> HIDE DEF run
    <2>13. \A j \in 1..k + 1 : loop[j].run <= loop[k + 1].longest
      <3> SUFFICES ASSUME NEW j \in 1..k + 1 PROVE loop[j].run <= loop[k + 1].longest
        OBVIOUS
      <3>1. CASE j = k + 1
        BY <2>6, <2>8, <2>9, <2>11, <3>1
      <3>2. CASE j \in 1..k
        <4>1. loop[j].run <= l
          BY <2>a, <3>2
        <4>2. j \in 1..n
          BY <1>2, <2>2, <3>2
        <4>3. loop[j].run \in Int
          BY <1>t, <4>2 DEF V
        <4> QED BY <2>6, <2>8, <2>9, <2>11, <4>1, <4>3
      <3> QED BY <2>12, <3>1, <3>2
    <2>14. \E j \in 1..k + 1 : loop[k + 1].longest = loop[j].run
      <3>1. CASE l >= run
        <4>1. PICK j \in 1..k : l = loop[j].run
          BY <2>b
        <4>2. j \in 1..k + 1
          BY <2>2
        <4> QED BY <2>8, <2>11, <3>1, <4>1, <4>2
      <3>2. CASE ~(l >= run)
        <4>1. k + 1 \in 1..k + 1
          BY <2>2
        <4> QED BY <2>8, <2>11, <3>2, <4>1
      <3> QED BY <3>1, <3>2
    <2> QED BY <2>8, <2>9, <2>10, <2>13, <2>14 DEF c
  <1>9. \A k \in 1..n : Good(k)
    <2>1. P = Nat
      <3> HIDE DEF P
      <3>1. P \subseteq Nat BY DEF P
      <3> QED BY <1>7, <1>8, <3>1, NatInd
    <2>2. \A k \in 1..n : k - 1 \in Nat /\ (k - 1) + 1 = k
      BY <1>2
    <2>3. \A k \in 1..n : k - 1 \in P
      <3> HIDE DEF P
      <3> QED BY <2>1, <2>2
    <2> HIDE DEF Good
    <2> QED BY <2>2, <2>3
  <1> DEFINE L == loop[n].longest
  <1>10. n \in 1..n /\ L \in Nat
    BY <1>2, <1>t
  <1>11. \E d \in dates : IsRun(dates, d, L)
    <2>1. PICK j \in 1..n : L = loop[j].run
      BY <1>9, <1>10
    <2> QED BY <1>3, <1>9, <2>1
  <1>12. ASSUME NEW d \in dates, NEW m \in Nat, IsRun(dates, d, m) PROVE m <= L
    <2>1. PICK j \in 1..n : sorted[j] = d
      BY <1>3
    <2> DEFINE r == loop[j].run
    <2>2. r <= L /\ r \in Nat /\ r # 0 /\ d - r \notin dates /\ d \in Nat
      BY <1>t, <1>9, <1>10, <2>1
    <2> HIDE DEF r, L
    <2>3. ~(m > r)
      <3>1. m > r => d - r \in d - m + 1..d
        BY <2>2
      <3> QED BY <1>12, <2>2, <3>1 DEF IsRun
    <2> QED BY <1>10, <2>2, <2>3
  <1> QED BY <1>1, <1>10, <1>11, <1>12

(* Backwards from the anchor, as long as the user played.                     *)
LEMMA RunBackIs ==
  ASSUME NEW dates \in SUBSET Nat, NEW anchor \in Nat
  PROVE  /\ RunBack(dates, anchor) \in Nat
         /\ IsRun(dates, anchor, RunBack(dates, anchor))
         /\ anchor - RunBack(dates, anchor) \notin dates
  <1> DEFINE D == -1..anchor
             step(g) == [d \in D |-> IF d \in dates THEN 1 + g[d - 1] ELSE 0]
             back == CHOOSE g : g = step(g)
  <1>1. RunBack(dates, anchor) = back[anchor]
    BY DEF RunBack
  <1>2. back = step(back)
    <2> DEFINE height == [d \in D |-> d + 1]
               next == [d \in D |-> IF d = -1 THEN d ELSE d - 1]
               b == [d \in D |-> 0]
               e == [p \in D \X Nat |-> 1 + p[2]]
               base == D \ dates
    <2>1. anchor + 1 \in Nat
      OBVIOUS
    <2>2. height \in [D -> 0..anchor + 1] /\ next \in [D -> D] /\ b \in [D -> Nat] /\ base \in SUBSET D
      OBVIOUS
    <2>3. e \in [D \X Nat -> Nat]
      OBVIOUS
    <2>4. \A d \in D \ base : height[next[d]] < height[d] /\ next[d] = d - 1
      OBVIOUS
    <2>a. \A d \in D : b[d] = 0 /\ (d \in base <=> d \notin dates)
      OBVIOUS
    <2>b. \A d \in D, v \in Nat : e[<<d, v>>] = 1 + v
      OBVIOUS
    <2> HIDE DEF height, next, b, e, base, D
    <2>c. Falls(D, base, next, height)
      BY <2>4 DEF Falls
    <2>d. PICK f \in [D -> Nat] : Follows(f, D, base, b, next, e)
      BY ONLY <2>1, <2>2, <2>3, <2>c, Recursion
    <2>5. \A d \in D : f[d] = IF d \in base THEN b[d] ELSE e[<<d, f[next[d]]>>]
      BY <2>d DEF Follows
    <2>6. \A d \in D : f[d] = IF d \in dates THEN 1 + f[d - 1] ELSE 0
      <3> SUFFICES ASSUME NEW d \in D PROVE f[d] = IF d \in dates THEN 1 + f[d - 1] ELSE 0
        OBVIOUS
      <3>1. CASE d \in dates
        <4>1. next[d] = d - 1 /\ next[d] \in D /\ d \notin base
          BY <2>2, <2>4, <2>a, <3>1
        <4>2. f[d - 1] \in Nat
          BY <4>1
        <4> QED BY <2>5, <2>b, <3>1, <4>1, <4>2
      <3>2. CASE d \notin dates
        BY <2>5, <2>a, <3>2
      <3> QED BY <3>1, <3>2
    <2>7. f = step(f)
      BY <2>6
    <2> HIDE DEF step
    <2> QED BY <2>7
  <1> HIDE DEF back
  <1>3. \A d \in D : back[d] = IF d \in dates THEN 1 + back[d - 1] ELSE 0
    BY <1>2
  <1> DEFINE Good(d) == back[d] \in Nat /\ IsRun(dates, d, back[d]) /\ d - back[d] \notin dates
             P == {k \in Nat : k - 1 \in D => Good(k - 1)}
  <1>4. \A d \in D : d \in Int /\ d >= -1
    OBVIOUS
  <1>5. ASSUME NEW d \in D, d \notin dates PROVE Good(d)
    <2>1. back[d] = 0
      BY <1>3, <1>5
    <2>2. IsRun(dates, d, 0)
      BY <1>4 DEF IsRun
    <2> QED BY <1>4, <1>5, <2>1, <2>2
  <1>6. 0 \in P
    <2>1. -1 \notin dates
      OBVIOUS
    <2> HIDE DEF Good
    <2> QED BY <1>5, <2>1
  <1>7. ASSUME NEW k \in P PROVE k + 1 \in P
    <2>1. SUFFICES ASSUME k \in D, k \in dates PROVE Good(k)
      <3>1. (k + 1) - 1 = k
        OBVIOUS
      <3> HIDE DEF Good
      <3> QED BY <1>5, <2>1, <3>1
    <2>2. k - 1 \in D /\ Good(k - 1)
      <3> HIDE DEF Good, P
      <3>1. k - 1 \in D /\ k \in P
        BY <2>1
      <3> HIDE DEF D
      <3> QED BY <3>1 DEF P
    <2> HIDE DEF P, D
    <2>3. k \in Nat /\ back[k] = 1 + back[k - 1]
      BY <1>3, <2>1
    <2> DEFINE r == back[k - 1]
    <2>4. r \in Nat /\ IsRun(dates, k - 1, r) /\ (k - 1) - r \notin dates /\ back[k] = 1 + r
      BY <2>2, <2>3
    <2> HIDE DEF r
    <2>5. \A x \in k - (1 + r) + 1..k : x = k \/ x \in (k - 1) - r + 1..k - 1
      BY <2>3, <2>4
    <2>6. IsRun(dates, k, 1 + r)
      BY <2>1, <2>4, <2>5 DEF IsRun
    <2>7. k - (1 + r) \notin dates
      <3>1. k - (1 + r) = (k - 1) - r
        BY <2>3, <2>4
      <3> QED BY <2>4, <3>1
    <2> QED BY <2>4, <2>6, <2>7
  <1>8. P = Nat
    <2> HIDE DEF P
    <2>1. P \subseteq Nat BY DEF P
    <2> QED BY <1>6, <1>7, <2>1, NatInd
  <1>9. Good(anchor)
    <2>1. anchor + 1 \in P /\ (anchor + 1) - 1 = anchor /\ anchor \in D
      BY <1>8
    <2> HIDE DEF Good, D
    <2> QED BY <2>1
  <1> QED BY <1>1, <1>9

(* The two streaks, by the definition of StreaksAreRuns.                      *)
LEMMA StreakIs ==
  ASSUME NEW dates \in SUBSET Nat, IsFiniteSet(dates), NEW today \in Nat
  PROVE  LET run(d, n) == d - n + 1..d \subseteq dates
             longest(ends) == Max({0} \cup {n \in 1..Cardinality(dates) : \E d \in ends : run(d, n)})
             streak == ComputeStreaks(dates, today) IN
         /\ streak.longest = longest(dates)
         /\ streak.current = IF today \in dates THEN longest({today}) ELSE longest({today - 1})
         /\ streak.current <= streak.longest
  <1> DEFINE N == Cardinality(dates)
             lengths(ends) == {0} \cup {n \in 1..N : \E d \in ends : d - n + 1..d \subseteq dates}
             streak == ComputeStreaks(dates, today)
  <1>1. N \in Nat
    BY FS_CardinalityType
  <1>2. \A d \in dates, n \in Nat : IsRun(dates, d, n) => n <= N
    <2> SUFFICES ASSUME NEW d \in dates, NEW n \in Nat, IsRun(dates, d, n) PROVE n <= N
      OBVIOUS
    <2>1. IsFiniteSet(d - n + 1..d) /\ Cardinality(d - n + 1..d) = n
      BY FS_Interval
    <2> QED BY <2>1, FS_Subset DEF IsRun
  <1>3. \A ends : lengths(ends) \in SUBSET Int /\ 0 \in lengths(ends)
    BY <1>1
  <1>4. \A ends, n : n \in lengths(ends) => n = 0 \/ \E d \in ends : IsRun(dates, d, n) /\ n \in Nat /\ n # 0
    BY <1>1 DEF IsRun
  <1>5. \A ends \in SUBSET dates, n \in Nat : (\E d \in ends : IsRun(dates, d, n)) => n \in lengths(ends)
    <2> SUFFICES ASSUME NEW ends \in SUBSET dates, NEW n \in Nat, NEW d \in ends, IsRun(dates, d, n)
                 PROVE  n \in lengths(ends)
      OBVIOUS
    <2>1. n <= N
      BY <1>2
    <2> QED BY <1>1, <2>1 DEF IsRun
  <1>a. \A d \in Int, n \in Nat : n # 0 /\ IsRun(dates, d, n) => d \in dates
    <2> SUFFICES ASSUME NEW d \in Int, NEW n \in Nat, n # 0, IsRun(dates, d, n) PROVE d \in dates
      OBVIOUS
    <2>1. d \in d - n + 1..d
      OBVIOUS
    <2> QED BY <2>1 DEF IsRun
  <1> HIDE DEF lengths
  <1> DEFINE goal == /\ streak.longest = Max(lengths(dates))
                     /\ streak.current = IF today \in dates THEN Max(lengths({today}))
                                         ELSE Max(lengths({today - 1}))
                     /\ streak.current <= streak.longest
  <1>b. SUFFICES goal
    BY DEF lengths
  <1>6. CASE dates = {}
    <2>1. streak.longest = 0 /\ streak.current = 0
      BY <1>6 DEF ComputeStreaks
    <2>2. \A ends \in {dates, {today - 1}} : Max(lengths(ends)) = 0
      <3>1. \A ends \in {dates, {today - 1}} : \A n \in lengths(ends) : n = 0
        <4> SUFFICES ASSUME NEW ends \in {dates, {today - 1}}, NEW n \in lengths(ends), n # 0 PROVE FALSE
          OBVIOUS
        <4>1. PICK d \in ends : IsRun(dates, d, n) /\ n \in Nat
          BY <1>4
        <4>2. d \in Int
          BY <1>6
        <4> QED BY <1>6, <1>a, <4>1, <4>2
      <3>2. ASSUME NEW S \in SUBSET Int, 0 \in S, \A n \in S : n = 0 PROVE Max(S) = 0
        <4>1. \A n \in S : n <= 0
          BY <3>2
        <4> QED BY <3>2, <4>1, MaxIs
      <3> QED BY <1>3, <3>1, <3>2
    <2> HIDE DEF streak
    <2>3. today \notin dates
      BY <1>6
    <2> QED BY <2>1, <2>2, <2>3
  <1>7. CASE dates # {}
    <2> DEFINE L == LongestRun(dates)
    <2>1. /\ L \in Nat /\ \E d \in dates : IsRun(dates, d, L)
          /\ \A d \in dates, m \in Nat : IsRun(dates, d, m) => m <= L
      BY <1>7, LongestRunIs
    <2> HIDE DEF L
    <2>2. Max(lengths(dates)) = L
      <3>1. L \in lengths(dates)
        BY <1>5, <2>1
      <3>2. \A n \in lengths(dates) : n <= L
        <4> SUFFICES ASSUME NEW n \in lengths(dates), n # 0 PROVE n <= L
          BY <2>1
        <4>1. \E d \in dates : IsRun(dates, d, n) /\ n \in Nat
          BY <1>4
        <4> QED BY <2>1, <4>1
      <3> QED BY <1>3, <3>1, <3>2, MaxIs
    <2>3. ASSUME NEW anchor \in dates
          PROVE  Max(lengths({anchor})) = RunBack(dates, anchor) /\ RunBack(dates, anchor) <= L
      <3> DEFINE C == RunBack(dates, anchor)
      <3>1. anchor \in Nat /\ C \in Nat /\ IsRun(dates, anchor, C) /\ anchor - C \notin dates
        BY RunBackIs
      <3> HIDE DEF C
      <3>2. \A n \in lengths({anchor}) : n <= C
        <4> SUFFICES ASSUME NEW n \in lengths({anchor}), ~(n <= C) PROVE FALSE
          BY <1>3, <3>1
        <4>1. n \in Nat /\ IsRun(dates, anchor, n)
          BY <1>4, <3>1
        <4>2. anchor - C \in anchor - n + 1..anchor
          BY <3>1, <4>1
        <4> QED BY <3>1, <4>1, <4>2 DEF IsRun
      <3>3. C \in lengths({anchor})
        BY <1>5, <3>1
      <3> QED BY <1>3, <2>1, <3>1, <3>2, <3>3, MaxIs DEF C
    <2>4. streak.longest = L
      BY <1>7 DEF ComputeStreaks, L
    <2>5. streak.current = IF today \in dates THEN RunBack(dates, today)
                           ELSE IF today - 1 \in dates THEN RunBack(dates, today - 1) ELSE 0
      BY <1>7 DEF ComputeStreaks
    <2> HIDE DEF streak
    <2>6. CASE today \in dates
      BY <2>2, <2>3, <2>4, <2>5, <2>6
    <2>7. CASE today \notin dates /\ today - 1 \in dates
      BY <2>2, <2>3, <2>4, <2>5, <2>7
    <2>8. CASE today \notin dates /\ today - 1 \notin dates
      <3>1. \A n \in lengths({today - 1}) : n <= 0
        BY <1>4, <1>a, <2>8
      <3>2. Max(lengths({today - 1})) = 0
        BY <1>3, <3>1, MaxIs
      <3> QED BY <2>1, <2>2, <2>4, <2>5, <2>8, <3>2
    <2> QED BY <2>6, <2>7, <2>8
  <1> QED BY <1>6, <1>7

(* Division with a remainder ...                                              *)
LEMMA DivIs ==
  ASSUME NEW t \in Int, NEW u \in Nat \ {0}
  PROVE  /\ t \div u \in Int /\ t % u \in 0..u - 1 /\ t = (t \div u) * u + (t % u)
         /\ t \in Nat => t \div u \in Nat
  OBVIOUS

LEMMA StreaksTyped == StatisticsTyped => StreaksAreRuns
  <1> SUFFICES ASSUME StatisticsTyped PROVE StreaksAreRuns
    OBVIOUS
  <1> DEFINE dates == {DateOf(s.start + tz) : s \in Played}
             today == DateOf(now + tz)
             f == [s \in Played |-> DateOf(s.start + tz)]
  <1>1. \A t \in Nat : DateOf(t) \in Nat
    BY Clock, DivIs DEF DateOf
  <1>2. tz \in Nat /\ now \in Nat
    BY Clock DEF StatisticsTyped
  <1>3. \A s \in Played : s.start \in Nat /\ s.start + tz \in Nat
    BY <1>2, SomeRows, RowTimes
  <1>4. dates \in SUBSET Nat /\ today \in Nat
    BY <1>1, <1>2, <1>3
  <1>5. IsFiniteSet(dates)
    <2>1. f \in Surjection(Played, dates) /\ IsFiniteSet(Played)
      BY SomeRows DEF Surjection
    <2> HIDE DEF f, dates
    <2> QED BY <2>1, FS_Surjection
  <1>6. Streak = ComputeStreaks(dates, today)
    BY DEF Streak
  <1> HIDE DEF dates, today
  <1> QED BY <1>4, <1>5, <1>6, StreakIs, ZenonT(30) DEF StreaksAreRuns, dates, today

(* The streaks the loop computes are the longest run of consecutive dates     *)
(* played on, and the run that ends today or yesterday (StreaksAreRuns), for  *)
(* any history of sessions.                                                   *)
THEOREM StreaksCountRuns == Spec => []StreaksAreRuns
  BY StatisticsInvariant, StreaksTyped, PTL

-----------------------------------------------------------------------------
(* The heatmap. *)

Span(p) == p.at..p.at + p.seconds - 1

\* S splits the units from..to - 1 into pieces that stay within a unit.
Splits(S, from, to, unit) ==
    /\ IsFiniteSet(S)
    /\ \A p \in S : p.at \in Int /\ p.seconds \in Nat \ {0} /\ from <= p.at /\ p.at + p.seconds <= to
    /\ \A p \in S : \A t \in Span(p) : t \div unit = p.at \div unit
    /\ \A t \in from..to - 1 : \E p \in S : t \in Span(p)
    /\ \A p, q \in S : p # q => Span(p) \cap Span(q) = {}

(* ... has one quotient.                                                      *)
LEMMA Quotient ==
  ASSUME NEW t \in Int, NEW u \in Nat \ {0}, NEW q \in Int, q * u <= t, t < q * u + u
  PROVE  t \div u = q
  <1> DEFINE d == t \div u
  <1>1. d \in Int /\ d * u <= t /\ t < d * u + u
    BY DivIs
  <1> HIDE DEF d
  <1>2. d * u \in Int /\ q * u \in Int
    BY <1>1
  <1>3. ~(d < q)
    <2> SUFFICES ASSUME d < q PROVE FALSE
      OBVIOUS
    <2>1. d + 1 <= q
      BY <1>1
    <2>2. (d + 1) * u <= q * u
      BY <1>1, <2>1
    <2>3. (d + 1) * u = d * u + u
      BY <1>1
    <2> QED BY <1>1, <1>2, <2>2, <2>3
  <1>4. ~(d > q)
    <2> SUFFICES ASSUME d > q PROVE FALSE
      OBVIOUS
    <2>1. q + 1 <= d
      BY <1>1
    <2>2. (q + 1) * u <= d * u
      BY <1>1, <2>1
    <2>3. (q + 1) * u = q * u + u
      OBVIOUS
    <2> QED BY <1>1, <1>2, <2>2, <2>3
  <1> QED BY <1>1, <1>3, <1>4 DEF d

(* One round of the loop.                                                     *)
LEMMA SplitStep ==
  ASSUME NEW from \in Int, NEW to \in Int, from < to, NEW unit \in Nat \ {0}, NEW S,
         NEW chunk, chunk = Min({to - from, unit - (from % unit)}),
         chunk \in Int => Splits(S, from + chunk, to, unit)
  PROVE  /\ chunk \in 1..to - from
         /\ Splits({[at |-> from, seconds |-> chunk]} \cup S, from, to, unit)
  <1>1. from % unit \in 0..unit - 1 /\ unit - (from % unit) \in Int /\ unit - (from % unit) >= 1
    BY DivIs
  <1>2. chunk \in 1..to - from /\ chunk <= unit - (from % unit)
    <2>1. Min({to - from, unit - (from % unit)})
            = IF to - from <= unit - (from % unit) THEN to - from ELSE unit - (from % unit)
      BY <1>1, MinOfTwo
    <2> QED BY <1>1, <2>1
  <1> DEFINE new == [at |-> from, seconds |-> chunk]
             all == {new} \cup S
  <1>3. Splits(S, from + chunk, to, unit)
    BY <1>2
  <1>4. IsFiniteSet(all)
    <2>1. all = S \cup {new} /\ IsFiniteSet(S)
      BY <1>3 DEF Splits
    <2> HIDE DEF all, new
    <2> QED BY <2>1, FS_AddElement
  <1>5. new.at = from /\ new.seconds = chunk /\ Span(new) = from..from + chunk - 1
    BY DEF Span
  <1> HIDE DEF new
  <1>6. \A t \in Span(new) : t \div unit = from \div unit
    <2> SUFFICES ASSUME NEW t \in from..from + chunk - 1 PROVE t \div unit = from \div unit
      BY <1>5
    <2> DEFINE q == from \div unit
    <2>1. q \in Int /\ from = q * unit + (from % unit) /\ q * unit \in Int
      BY DivIs
    <2> HIDE DEF q
    <2>2. q * unit <= t /\ t < q * unit + unit
      BY <1>1, <1>2, <2>1
    <2> QED BY <2>1, <2>2, Quotient DEF q
  <1>7. \A p \in S : p.at \in Int /\ p.seconds \in Nat \ {0} /\ from + chunk <= p.at /\ p.at + p.seconds <= to
    BY <1>3 DEF Splits
  <1>8. \A p \in all : p.at \in Int /\ p.seconds \in Nat \ {0} /\ from <= p.at /\ p.at + p.seconds <= to
    <2> SUFFICES ASSUME NEW p \in all
                 PROVE  p.at \in Int /\ p.seconds \in Nat \ {0} /\ from <= p.at /\ p.at + p.seconds <= to
      OBVIOUS
    <2>1. CASE p = new
      BY <1>2, <1>5, <2>1
    <2>2. CASE p \in S
      <3>1. p.at \in Int /\ p.seconds \in Nat \ {0} /\ from + chunk <= p.at /\ p.at + p.seconds <= to
        BY <1>7, <2>2
      <3> HIDE DEF all
      <3> QED BY <1>2, <3>1
    <2> QED BY <2>1, <2>2
  <1>9. \A p \in all : \A t \in Span(p) : t \div unit = p.at \div unit
    BY <1>3, <1>5, <1>6 DEF Splits
  <1>10. \A t \in from..to - 1 : \E p \in all : t \in Span(p)
    <2> SUFFICES ASSUME NEW t \in from..to - 1 PROVE \E p \in all : t \in Span(p)
      OBVIOUS
    <2>1. CASE t < from + chunk
      BY <1>2, <1>5, <2>1
    <2>2. CASE t >= from + chunk
      <3>1. t \in from + chunk..to - 1
        BY <1>2, <2>2
      <3> QED BY <1>3, <3>1 DEF Splits
    <2> QED BY <1>2, <2>1, <2>2
  <1>11. \A p, q \in all : p # q => Span(p) \cap Span(q) = {}
    <2>1. \A p \in S : Span(p) \cap Span(new) = {}
      <3> SUFFICES ASSUME NEW p \in S, NEW t \in Span(p), t \in Span(new) PROVE FALSE
        OBVIOUS
      <3>1. p.at \in Int /\ from + chunk <= p.at
        BY <1>7
      <3>2. t >= p.at /\ t \in Int
        BY <3>1 DEF Span
      <3>3. t <= from + chunk - 1
        BY <1>2, <1>5
      <3> HIDE DEF all
      <3> QED BY <1>2, <3>1, <3>2, <3>3
    <2>2. \A p, q \in S : p # q => Span(p) \cap Span(q) = {}
      BY <1>3 DEF Splits
    <2> QED BY <2>1, <2>2
  <1> HIDE DEF all
  <1>12. Splits(all, from, to, unit)
    BY <1>4, <1>8, <1>9, <1>10, <1>11 DEF Splits
  <1> QED BY <1>2, <1>12 DEF all, new

(* The loop of both splits allocates each unit to one piece.                  *)
LEMMA PiecesSplit ==
  ASSUME NEW from \in Int, NEW seconds \in Nat, NEW unit \in Nat \ {0}
  PROVE  Splits(Pieces(from, seconds, unit), from, from + seconds, unit)
  <1> DEFINE D == 0..seconds
             cur(r) == from + seconds - r
             chunk(r) == Min({r, unit - (cur(r) % unit)})
             step(g) == [r \in D |-> IF r = 0 THEN {}
                                     ELSE {[at |-> cur(r), seconds |-> chunk(r)]} \cup g[r - chunk(r)]]
             walk == CHOOSE g : g = step(g)
             V == SUBSET [at : Int, seconds : Int]
  <1>1. Pieces(from, seconds, unit) = walk[seconds]
    BY DEF Pieces
  <1>2. \A r \in D : r # 0 => chunk(r) \in 1..r
    <2> SUFFICES ASSUME NEW r \in D, r # 0 PROVE chunk(r) \in 1..r
      OBVIOUS
    <2> DEFINE left == unit - (cur(r) % unit)
    <2>1. cur(r) \in Int
      OBVIOUS
    <2> HIDE DEF cur
    <2>a. cur(r) % unit \in 0..unit - 1
      BY <2>1, DivIs
    <2>2. left \in Int /\ left >= 1
      BY <2>a
    <2> HIDE DEF left
    <2>3. Min({r, left}) = IF r <= left THEN r ELSE left
      BY <2>2, MinOfTwo
    <2> QED BY <2>2, <2>3 DEF left
  <1>3. \A r \in D : r \in Nat /\ cur(r) \in Int
    OBVIOUS
  <1> HIDE DEF chunk
  <1>4. walk = step(walk)
    <2> DEFINE height == [r \in D |-> r]
               next == [r \in D |-> IF r = 0 THEN 0 ELSE r - chunk(r)]
               b == [r \in D |-> {}]
               e == [p \in D \X V |-> IF p[1] = 0 THEN {} ELSE {[at |-> cur(p[1]), seconds |-> chunk(p[1])]} \cup p[2]]
               base == {0}
    <2>1. height \in [D -> 0..seconds] /\ b \in [D -> V] /\ base \in SUBSET D /\ seconds \in Nat
      OBVIOUS
    <2>2. next \in [D -> D]
      BY <1>2
    <2>3. e \in [D \X V -> V]
      <3> SUFFICES ASSUME NEW p \in D \X V PROVE e[p] \in V
        OBVIOUS
      <3>1. CASE p[1] = 0
        BY <3>1
      <3>2. CASE p[1] # 0
        <4>1. [at |-> cur(p[1]), seconds |-> chunk(p[1])] \in [at : Int, seconds : Int]
          BY <1>2, <1>3, <3>2
        <4> HIDE DEF cur, D
        <4> QED BY <3>2, <4>1
      <3> QED BY <3>1, <3>2
    <2>4. Falls(D, base, next, height)
      BY <1>2 DEF Falls
    <2> HIDE DEF height, next, b, e, base, V, D
    <2>5. PICK f \in [D -> V] : Follows(f, D, base, b, next, e)
      BY ONLY <2>1, <2>2, <2>3, <2>4, Recursion
    <2>6. \A r \in D : f[r] = IF r = 0 THEN {} ELSE {[at |-> cur(r), seconds |-> chunk(r)]} \cup f[r - chunk(r)]
      <3> SUFFICES ASSUME NEW r \in D
                   PROVE  f[r] = IF r = 0 THEN {} ELSE {[at |-> cur(r), seconds |-> chunk(r)]} \cup f[r - chunk(r)]
        OBVIOUS
      <3>1. CASE r = 0
        BY <2>5, <3>1 DEF b, base, Follows
      <3>2. CASE r # 0
        <4>1. next[r] = r - chunk(r) /\ next[r] \in D
          BY <2>2, <3>2 DEF next
        <4>2. f[r] = e[<<r, f[next[r]]>>]
          BY <2>5, <3>2 DEF base, Follows
        <4>3. \A v \in V : e[<<r, v>>] = {[at |-> cur(r), seconds |-> chunk(r)]} \cup v
          <5> HIDE DEF cur
          <5> QED BY <3>2 DEF e
        <4>4. f[next[r]] \in V
          BY <4>1
        <4> HIDE DEF cur
        <4> QED BY <3>2, <4>1, <4>2, <4>3, <4>4
      <3> QED BY <3>1, <3>2
    <2>7. f = step(f)
      <3> HIDE DEF cur
      <3> QED BY <2>6
    <2> HIDE DEF step
    <2> QED BY <2>7
  <1> HIDE DEF walk
  <1>5. \A r \in D : walk[r] = IF r = 0 THEN {} ELSE {[at |-> cur(r), seconds |-> chunk(r)]} \cup walk[r - chunk(r)]
    <2> HIDE DEF cur, D
    <2> QED BY <1>4
  <1> DEFINE to == from + seconds
             Good(r) == Splits(walk[r], cur(r), to, unit)
             P == {n \in Nat : \A r \in D : r <= n => Good(r)}
  <1>6. Good(0)
    <2>1. walk[0] = {} /\ cur(0) = to
      <3>1. 0 \in D /\ cur(0) = to
        OBVIOUS
      <3> HIDE DEF cur, to, D
      <3> QED BY <1>5, <3>1
    <2>2. \A t \in to..to - 1 : FALSE
      OBVIOUS
    <2> HIDE DEF cur, to
    <2>3. Splits({}, to, to, unit)
      BY <2>2, FS_EmptySet DEF Splits
    <2> QED BY <2>1, <2>3
  <1>7. 0 \in P
    <2>1. \A r \in D : r <= 0 => r = 0
      OBVIOUS
    <2> HIDE DEF Good, D
    <2> QED BY <1>6, <2>1
  <1>8. ASSUME NEW n \in P PROVE n + 1 \in P
    <2>1. SUFFICES ASSUME NEW r \in D, r <= n + 1 PROVE Good(r)
      OBVIOUS
    <2>2. CASE r = 0
      <3> HIDE DEF Good
      <3> QED BY <1>6, <2>2
    <2>3. CASE r # 0
      <3> DEFINE c == chunk(r)
      <3>1. c \in 1..r /\ r - c \in D /\ r - c <= n
        <4>1. c \in 1..r
          BY <1>2, <2>3
        <4>2. r \in Int /\ n \in Int /\ r <= seconds
          OBVIOUS
        <4> HIDE DEF c, P
        <4> QED BY <2>1, <4>1, <4>2
      <3>2. Good(r - c)
        <4> HIDE DEF Good, D, c
        <4> QED BY <3>1
      <3>3. cur(r) + c = cur(r - c) /\ to - cur(r) = r /\ cur(r) \in Int /\ to \in Int /\ cur(r) < to
        BY <1>3, <2>3, <3>1
      <3>4. walk[r] = {[at |-> cur(r), seconds |-> c]} \cup walk[r - c]
        BY <1>5, <2>3
      <3>5. c = Min({to - cur(r), unit - (cur(r) % unit)})
        BY <3>3 DEF chunk
      <3>6. Splits(walk[r - c], cur(r) + c, to, unit)
        BY <3>2, <3>3
      <3> HIDE DEF c, cur, to
      <3>7. Splits({[at |-> cur(r), seconds |-> c]} \cup walk[r - c], cur(r), to, unit)
        BY <3>3, <3>5, <3>6, SplitStep
      <3> QED BY <3>4, <3>7
    <2> QED BY <2>2, <2>3
  <1>9. P = Nat
    <2> HIDE DEF P
    <2>1. P \subseteq Nat BY DEF P
    <2> QED BY <1>7, <1>8, <2>1, NatInd
  <1>10. Good(seconds)
    <2>1. seconds \in P /\ seconds \in D /\ seconds <= seconds
      BY <1>9
    <2> HIDE DEF Good, D
    <2> QED BY <2>1
  <1>11. cur(seconds) = from
    OBVIOUS
  <1> QED BY <1>1, <1>10, <1>11

\* W does not tell apart instants of one unit.
Whole(W, unit) == \A t, u \in Int : t \div unit = u \div unit => (t \in W <=> u \in W)

(* The pieces placed in W have the seconds that are in W.                     *)
LEMMA SplitSeconds ==
  ASSUME NEW from \in Int, NEW to \in Int, NEW unit \in Nat \ {0}, NEW S, Splits(S, from, to, unit),
         NEW W, Whole(W, unit)
  PROVE  LET inside == {t \in from..to - 1 : t \in W} IN
         /\ IsFiniteSet(inside)
         /\ SumFunction([p \in S |-> IF p.at \in W THEN p.seconds ELSE 0]) = Cardinality(inside)
  <1> DEFINE inside == {t \in from..to - 1 : t \in W}
             f == [p \in S |-> IF p.at \in W THEN p.seconds ELSE 0]
             parts == [p \in S |-> {t \in Span(p) : t \in W}]
             count == [p \in S |-> Cardinality(parts[p])]
  <1>1. IsFiniteSet(S) /\ \A p \in S : p.at \in Int /\ p.seconds \in Nat \ {0} /\ from <= p.at /\ p.at + p.seconds <= to
    BY DEF Splits
  <1>2. \A p \in S : IsFiniteSet(Span(p)) /\ Cardinality(Span(p)) = p.seconds
    <2> SUFFICES ASSUME NEW p \in S PROVE IsFiniteSet(Span(p)) /\ Cardinality(Span(p)) = p.seconds
      OBVIOUS
    <2>1. p.at \in Int /\ p.seconds \in Nat \ {0} /\ p.at + p.seconds - 1 \in Int /\ p.at + p.seconds - 1 >= p.at
      BY <1>1
    <2> DEFINE a == p.at
               b == p.at + p.seconds - 1
    <2>2. a \in Int /\ b \in Int /\ b >= a /\ b - a + 1 = p.seconds /\ Span(p) = a..b
      BY <2>1 DEF Span
    <2> HIDE DEF a, b
    <2>3. IsFiniteSet(a..b) /\ Cardinality(a..b) = b - a + 1
      BY <2>2, FS_Interval
    <2> QED BY <2>2, <2>3
  <1>3. \A p \in S : parts[p] = IF p.at \in W THEN Span(p) ELSE {}
    <2> SUFFICES ASSUME NEW p \in S PROVE parts[p] = IF p.at \in W THEN Span(p) ELSE {}
      OBVIOUS
    <2>1. \A t \in Span(p) : t \in Int /\ t \div unit = p.at \div unit
      BY <1>1 DEF Span, Splits
    <2>2. \A t \in Span(p) : t \in W <=> p.at \in W
      BY <1>1, <2>1 DEF Whole
    <2> QED BY <2>2
  <1>4. \A p \in S : IsFiniteSet(parts[p]) /\ count[p] = f[p] /\ count[p] \in Int
    <2> SUFFICES ASSUME NEW p \in S PROVE IsFiniteSet(parts[p]) /\ count[p] = f[p] /\ count[p] \in Int
      OBVIOUS
    <2>1. count[p] = Cardinality(parts[p]) /\ f[p] = IF p.at \in W THEN p.seconds ELSE 0
      OBVIOUS
    <2> HIDE DEF parts, count, f
    <2>2. CASE p.at \in W
      BY <1>1, <1>2, <1>3, <2>1, <2>2
    <2>3. CASE p.at \notin W
      BY <1>3, <2>1, <2>3, FS_EmptySet
    <2> QED BY <2>2, <2>3
  <1>5. \A p, q \in S : p # q => parts[p] \cap parts[q] = {}
    <2>1. \A p, q \in S : p # q => Span(p) \cap Span(q) = {}
      BY DEF Splits
    <2> QED BY <2>1
  <1>6. UNION {parts[p] : p \in S} = inside
    <2>1. \A p \in S : \A t \in Span(p) : t \in from..to - 1
      BY <1>1 DEF Span
    <2>2. \A t \in from..to - 1 : \E p \in S : t \in Span(p)
      BY DEF Splits
    <2> QED BY <2>1, <2>2
  <1> HIDE DEF parts, inside
  <1>7. IsFiniteSet(inside) /\ Cardinality(inside) = SumFunctionOnSet(count, S)
    <2>1. IsFiniteSet(UNION {parts[p] : p \in S}) /\ Cardinality(UNION {parts[p] : p \in S}) = SumFunctionOnSet(count, S)
      BY <1>1, <1>4, <1>5, CardinalityByGroup
    <2> HIDE DEF count
    <2> QED BY <1>6, <2>1
  <1> HIDE DEF count
  <1>8. SumFunctionOnSet(count, S) = SumFunctionOnSet(f, S)
    <2> HIDE DEF f
    <2> QED BY <1>1, <1>4, SumEqual
  <1>9. SumFunction(f) = SumFunctionOnSet(f, S)
    BY SumIs
  <1> QED BY <1>7, <1>8, <1>9 DEF inside

\* Placed and UnitsAt of rows, for a set of instants.
SecondsIn(rows, unit, W) ==
    SumFunction([s \in rows |-> SumFunction([p \in Pieces(s.start + tz, Elapsed(s), unit) |->
                                                IF p.at \in W THEN p.seconds ELSE 0])])
UnitsIn(rows, W) ==
    UNION {{<<s, k>> : k \in {j \in 0..Elapsed(s) - 1 : s.start + tz + j \in W}} : s \in rows}

(* Both are the same, row by row.                                             *)
LEMMA RowsAgree ==
  ASSUME StatisticsTyped, NEW rows \in SUBSET sessions, NEW unit \in Nat \ {0}, NEW W, Whole(W, unit)
  PROVE  SecondsIn(rows, unit, W) = Cardinality(UnitsIn(rows, W))
  <1> DEFINE f == [s \in rows |-> SumFunction([p \in Pieces(s.start + tz, Elapsed(s), unit) |->
                                                    IF p.at \in W THEN p.seconds ELSE 0])]
             inside(s) == {t \in s.start + tz..s.start + tz + Elapsed(s) - 1 : t \in W}
             units(s) == {j \in 0..Elapsed(s) - 1 : s.start + tz + j \in W}
             parts == [s \in rows |-> {<<s, k>> : k \in units(s)}]
             count == [s \in rows |-> Cardinality(parts[s])]
  <1>1. IsFiniteSet(rows) /\ \A s \in rows : s \in sessions
    BY SomeRows
  <1>2. \A s \in rows : s.start + tz \in Int /\ Elapsed(s) \in Nat
    BY <1>1, RowTimes, Clock DEF StatisticsTyped
  <1>3. \A s \in rows : IsFiniteSet(inside(s)) /\ f[s] = Cardinality(inside(s))
    <2> SUFFICES ASSUME NEW s \in rows PROVE IsFiniteSet(inside(s)) /\ f[s] = Cardinality(inside(s))
      OBVIOUS
    <2> DEFINE from == s.start + tz
               e == Elapsed(s)
    <2>1. from \in Int /\ e \in Nat /\ from + e \in Int
      BY <1>2
    <2>2. f[s] = SumFunction([p \in Pieces(from, e, unit) |-> IF p.at \in W THEN p.seconds ELSE 0])
      OBVIOUS
    <2> HIDE DEF from, e
    <2>3. Splits(Pieces(from, e, unit), from, from + e, unit)
      BY <2>1, PiecesSplit
    <2> DEFINE S == Pieces(from, e, unit)
               in == {t \in from..from + e - 1 : t \in W}
    <2> HIDE DEF S
    <2>4. IsFiniteSet(in) /\ SumFunction([p \in S |-> IF p.at \in W THEN p.seconds ELSE 0]) = Cardinality(in)
      BY <2>1, <2>3, SplitSeconds DEF S
    <2>5. in = inside(s)
      BY DEF from, e
    <2> HIDE DEF in, inside
    <2> QED BY <2>2, <2>4, <2>5 DEF S
  <1>4. \A s \in rows : /\ IsFiniteSet(parts[s]) /\ count[s] = f[s] /\ count[s] \in Int
    <2> SUFFICES ASSUME NEW s \in rows PROVE IsFiniteSet(parts[s]) /\ count[s] = f[s] /\ count[s] \in Int
      OBVIOUS
    <2> DEFINE g == [t \in inside(s) |-> <<s, t - (s.start + tz)>>]
    <2>1. s.start + tz \in Int /\ Elapsed(s) \in Nat /\ IsFiniteSet(inside(s)) /\ f[s] = Cardinality(inside(s))
      BY <1>2, <1>3
    <2>2. \A t \in inside(s) : t \in Int /\ t - (s.start + tz) \in units(s)
      BY <2>1
    <2>3. \A k \in units(s) : k \in Int /\ s.start + tz + k \in inside(s) /\ (s.start + tz + k) - (s.start + tz) = k
      BY <2>1
    <2> HIDE DEF inside, units
    <2>4. g \in Bijection(inside(s), parts[s])
      <3>1. \A t \in inside(s) : g[t] = <<s, t - (s.start + tz)>> /\ g[t] \in parts[s]
        BY <2>2
      <3>2. \A t, u \in inside(s) : t # u => g[t] # g[u]
        BY <2>1, <2>2
      <3>3. \A y \in parts[s] : \E t \in inside(s) : g[t] = y
        <4> SUFFICES ASSUME NEW k \in units(s) PROVE \E t \in inside(s) : g[t] = <<s, k>>
          OBVIOUS
        <4> QED BY <2>3
      <3>4. g \in [inside(s) -> parts[s]]
        BY <3>1
      <3> HIDE DEF g, parts
      <3>5. \A t, u \in inside(s) : g[t] = g[u] => t = u
        BY <3>2
      <3> QED BY <3>3, <3>4, <3>5 DEF Bijection, Injection, Surjection, IsInjective
    <2> HIDE DEF g
    <2>5. IsFiniteSet(parts[s]) /\ Cardinality(parts[s]) = Cardinality(inside(s))
      BY <2>1, <2>4, FS_Bijection DEF ExistsBijection
    <2>6. count[s] = Cardinality(parts[s])
      OBVIOUS
    <2> QED BY <2>1, <2>5, <2>6, FS_CardinalityType
  <1>5. \A s, r \in rows : s # r => parts[s] \cap parts[r] = {}
    <2> HIDE DEF units
    <2> QED OBVIOUS
  <1>6. UNION {parts[s] : s \in rows} = UnitsIn(rows, W)
    <2>1. UnitsIn(rows, W) = UNION {{<<s, k>> : k \in units(s)} : s \in rows}
      BY DEF UnitsIn
    <2> HIDE DEF units
    <2> QED BY <2>1
  <1>a. SecondsIn(rows, unit, W) = SumFunction(f)
    BY DEF SecondsIn
  <1> HIDE DEF parts, units, inside, f
  <1>7. Cardinality(UNION {parts[s] : s \in rows}) = SumFunctionOnSet(count, rows)
    BY <1>1, <1>4, <1>5, CardinalityByGroup
  <1> HIDE DEF count
  <1>8. SumFunctionOnSet(count, rows) = SumFunctionOnSet(f, rows)
    BY <1>1, <1>4, SumEqual
  <1>9. SumFunction(f) = SumFunctionOnSet(f, rows)
    BY SumIs DEF f
  <1> QED BY <1>6, <1>7, <1>8, <1>9, <1>a

(* The day and the hour of the day are those of the hour.                     *)
LEMMA CellOfHour ==
  ASSUME NEW t \in Int
  PROVE  CellOf(t) = <<((t \div Hour) \div HoursPerDay) % DaysPerWeek, (t \div Hour) % HoursPerDay>>
  <1> DEFINE h == t \div Hour
             d == h \div HoursPerDay
             r == h % HoursPerDay
  <1>1. h \in Int /\ h * Hour <= t /\ t < h * Hour + Hour
    BY Clock, DivIs
  <1> HIDE DEF h
  <1>2. d \in Int /\ r \in 0..HoursPerDay - 1 /\ h = d * HoursPerDay + r
    BY <1>1, Clock, DivIs
  <1> HIDE DEF d, r
  <1>3. Day = Hour * HoursPerDay /\ Day \in Int
    BY Clock DEF Day
  <1>4. h * Hour = d * Day + r * Hour
    <2>1. h * Hour = (d * HoursPerDay) * Hour + r * Hour
      BY <1>2, Clock
    <2>2. (d * HoursPerDay) * Hour = d * Day
      BY <1>2, <1>3, Clock
    <2> QED BY <2>1, <2>2
  <1>5. d * Day \in Int /\ r * Hour \in Int /\ 0 <= r * Hour /\ r * Hour + Hour <= Day
    <2>1. r \in Int /\ r >= 0 /\ r + 1 <= HoursPerDay
      BY <1>2, Clock
    <2>2. (r + 1) * Hour <= HoursPerDay * Hour
      BY <2>1, Clock
    <2>3. (r + 1) * Hour = r * Hour + Hour
      BY <2>1, Clock
    <2>4. HoursPerDay * Hour = Day
      BY <1>3, Clock
    <2>5. 0 <= r * Hour /\ r * Hour \in Int
      BY <2>1, Clock
    <2> QED BY <1>2, <1>3, <2>2, <2>3, <2>4, <2>5
  <1>6. d * Day <= t /\ t < d * Day + Day
    BY <1>1, <1>3, <1>4, <1>5, Clock
  <1>7. t \div Day = d
    BY <1>2, <1>6, Clock, Quotient
  <1>8. t % Day = t - d * Day
    <2>1. t = (t \div Day) * Day + (t % Day) /\ t % Day \in Int
      BY Clock, DivIs
    <2> QED BY <1>5, <1>7, <2>1
  <1>9. (t % Day) \div Hour = r
    <2> DEFINE x == t - d * Day
    <2>1. x \in Int /\ r * Hour <= x /\ x < r * Hour + Hour
      <3>1. h * Hour \in Int /\ Hour \in Int
        BY <1>1, Clock
      <3> QED BY <1>1, <1>4, <1>5, <3>1
    <2> HIDE DEF x
    <2>2. x \div Hour = r
      BY <1>2, <2>1, Clock, Quotient
    <2> QED BY <1>8, <2>2 DEF x
  <1> QED BY <1>7, <1>9 DEF CellOf, h, d, r

LEMMA HeatmapTyped == StatisticsTyped => HeatmapExact
  <1> SUFFICES ASSUME StatisticsTyped, NEW days \in Windows,
                      NEW cell \in DOMAIN Heatmap(days)
               PROVE  Heatmap(days)[cell] = UnitsAt({s \in Played : InWindow(s, days)}, CellOf, cell)
    BY DEF HeatmapExact
  <1> DEFINE rows == {s \in Played : InWindow(s, days)}
             W == {t \in Int : CellOf(t) = cell}
             placed == [s \in rows |-> SumFunction([p \in AcrossCells(s.start + tz, Elapsed(s)) |->
                                                        IF CellOf(p.at) = cell THEN p.seconds ELSE 0])]
  <1>1. Heatmap(days)[cell] = SumFunction(placed)
    BY DEF Heatmap, Placed
  <1>2. rows \in SUBSET sessions
    BY SomeRows
  <1>3. SumFunction(placed) = SecondsIn(rows, Hour, W)
    <2> SUFFICES ASSUME NEW s \in rows
                 PROVE  \A p \in Pieces(s.start + tz, Elapsed(s), Hour) : CellOf(p.at) = cell <=> p.at \in W
      BY DEF AcrossCells, SecondsIn
    <2>1. s.start + tz \in Int /\ Elapsed(s) \in Nat
      BY <1>2, RowTimes, Clock DEF StatisticsTyped
    <2>2. \A p \in Pieces(s.start + tz, Elapsed(s), Hour) : p.at \in Int
      BY <2>1, Clock, PiecesSplit DEF Splits
    <2> QED BY <2>2
  <1>4. Whole(W, Hour)
    <2>1. ASSUME NEW t \in Int, NEW u \in Int, t \div Hour = u \div Hour PROVE t \in W <=> u \in W
      <3>1. CellOf(t) = CellOf(u)
        BY <2>1, CellOfHour
      <3> QED BY <3>1
    <2> HIDE DEF W
    <2> QED BY <2>1 DEF Whole
  <1>5. UnitsAt(rows, CellOf, cell) = Cardinality(UnitsIn(rows, W))
    <2>1. \A s \in rows : {j \in 0..Elapsed(s) - 1 : CellOf(s.start + tz + j) = cell}
                            = {j \in 0..Elapsed(s) - 1 : s.start + tz + j \in W}
      <3> SUFFICES ASSUME NEW s \in rows, NEW j \in 0..Elapsed(s) - 1 PROVE s.start + tz + j \in Int
        OBVIOUS
      <3>1. s.start \in Int /\ tz \in Int
        BY <1>2, RowTimes, Clock DEF StatisticsTyped
      <3> QED BY <3>1
    <2> DEFINE here(s) == {j \in 0..Elapsed(s) - 1 : CellOf(s.start + tz + j) = cell}
               there(s) == {j \in 0..Elapsed(s) - 1 : s.start + tz + j \in W}
    <2>2. UnitsAt(rows, CellOf, cell) = Cardinality(UNION {{<<s, k>> : k \in here(s)} : s \in rows})
      BY DEF UnitsAt
    <2>3. UnitsIn(rows, W) = UNION {{<<s, k>> : k \in there(s)} : s \in rows}
      BY DEF UnitsIn
    <2>4. \A s \in rows : here(s) = there(s)
      BY <2>1
    <2> HIDE DEF here, there, W, rows
    <2>5. UNION {{<<s, k>> : k \in here(s)} : s \in rows} = UNION {{<<s, k>> : k \in there(s)} : s \in rows}
      BY <2>4
    <2> QED BY <2>2, <2>3, <2>5
  <1> HIDE DEF W, rows
  <1>6. SecondsIn(rows, Hour, W) = Cardinality(UnitsIn(rows, W))
    BY <1>2, <1>4, Clock, RowsAgree
  <1> QED BY <1>1, <1>3, <1>5, <1>6 DEF rows

(* Each cell of the heatmap has exactly the seconds played in that hour of    *)
(* that weekday (HeatmapExact).                                               *)
THEOREM HeatmapAllocatesAll == Spec => []HeatmapExact
  BY StatisticsInvariant, HeatmapTyped, PTL

-----------------------------------------------------------------------------
(* The trend chart. *)

Sizes == {"day", "week", "month"}
Starts(size) == {b \in Nat : BucketStart(b, size) = b}

LEMMA Greatest ==
  ASSUME NEW T \in SUBSET Nat, T # {}, NEW d \in Nat, \A x \in T : x <= d
  PROVE  \E m \in T : \A x \in T : x <= m
  <1> DEFINE R == {k \in Nat : d - k \in T}
  <1>1. R \in SUBSET Nat /\ R # {}
    <2>1. PICK x \in T : TRUE
      OBVIOUS
    <2>2. d - x \in Nat /\ d - (d - x) = x
      BY <2>1
    <2> QED BY <2>1, <2>2
  <1> HIDE DEF R
  <1>2. PICK k \in R : \A j \in R : k <= j
    BY <1>1, Least
  <1>3. d - k \in T /\ k \in Nat
    BY DEF R
  <1>4. ASSUME NEW x \in T PROVE x <= d - k
    <2>1. x \in Nat /\ d - x \in Nat /\ d - (d - x) = x
      OBVIOUS
    <2>2. d - x \in R
      BY <2>1 DEF R
    <2> QED BY <1>2, <1>3, <2>1, <2>2
  <1> QED BY <1>3, <1>4

(* The bucket of a date starts at the latest start that is not after it.      *)
LEMMA Buckets ==
  ASSUME NEW size \in Sizes, NEW d \in Nat
  PROVE  /\ BucketStart(d, size) \in Starts(size) /\ BucketStart(d, size) <= d
         /\ \A b \in Starts(size) : b <= d => b <= BucketStart(d, size)
  <1>1. CASE size = "day"
    BY <1>1 DEF BucketStart, Starts
  <1>2. CASE size = "week"
    <2> DEFINE W == DaysPerWeek
               q(x) == x \div W
    <2>1. W \in Nat \ {0}
      BY Clock
    <2>a. \A x \in Nat : BucketStart(x, size) = x - (x % W)
      BY <1>2 DEF BucketStart
    <2> HIDE DEF W
    <2>2. \A x \in Nat : q(x) \in Nat /\ q(x) * W \in Nat /\ q(x) * W <= x /\ x < q(x) * W + W /\ BucketStart(x, size) = q(x) * W
      <3> SUFFICES ASSUME NEW x \in Nat
                   PROVE  q(x) \in Nat /\ q(x) * W \in Nat /\ q(x) * W <= x /\ x < q(x) * W + W /\ BucketStart(x, size) = q(x) * W
        OBVIOUS
      <3>1. BucketStart(x, size) = x - (x % W)
        BY <2>a
      <3>2. q(x) \in Nat /\ x % W \in 0..W - 1 /\ x = q(x) * W + (x % W)
        <4>1. x \in Int
          OBVIOUS
        <4> QED BY <2>1, <4>1, DivIs
      <3> HIDE DEF q
      <3>3. q(x) * W \in Nat
        BY <2>1, <3>2
      <3> QED BY <2>1, <3>1, <3>2, <3>3
    <2>3. \A n \in Nat : q(n * W) = n /\ n * W \in Nat
      <3> SUFFICES ASSUME NEW n \in Nat PROVE q(n * W) = n /\ n * W \in Nat
        OBVIOUS
      <3>1. n * W \in Nat
        BY <2>1
      <3> QED BY <2>1, <3>1, Quotient
    <2> HIDE DEF q
    <2>4. BucketStart(d, size) = q(d) * W /\ BucketStart(q(d) * W, size) = q(d) * W
      BY <2>2, <2>3
    <2>5. ASSUME NEW b \in Starts(size), b <= d PROVE b <= q(d) * W
      <3>1. b \in Nat /\ b = q(b) * W /\ q(b) \in Nat
        BY <2>2 DEF Starts
      <3>2. q(d) \in Nat /\ d < q(d) * W + W /\ q(d) * W \in Nat
        BY <2>2
      <3>3. q(b) <= q(d)
        <4> SUFFICES ASSUME q(d) + 1 <= q(b) PROVE FALSE
          BY <3>1, <3>2
        <4>1. (q(d) + 1) * W <= q(b) * W
          BY <2>1, <3>1, <3>2
        <4>2. (q(d) + 1) * W = q(d) * W + W
          BY <2>1, <3>2
        <4> QED BY <2>1, <2>5, <3>1, <3>2, <4>1, <4>2
      <3>4. q(b) * W <= q(d) * W
        BY <2>1, <3>1, <3>2, <3>3
      <3> QED BY <3>1, <3>4
    <2> QED BY <2>2, <2>4, <2>5 DEF Starts
  <1>3. CASE size = "month"
    <2> DEFINE M(x) == {m \in MonthStarts : m <= x}
    <2>1. MonthStarts \subseteq Nat /\ 0 \in MonthStarts
      BY StatisticsAssumption
    <2>2. \A x \in Nat : BucketStart(x, size) \in M(x) /\ \A m \in M(x) : m <= BucketStart(x, size)
      <3> SUFFICES ASSUME NEW x \in Nat PROVE BucketStart(x, size) \in M(x) /\ \A m \in M(x) : m <= BucketStart(x, size)
        OBVIOUS
      <3>1. BucketStart(x, size) = Max(M(x))
        BY <1>3 DEF BucketStart
      <3>2. M(x) \in SUBSET Nat /\ 0 \in M(x) /\ \A m \in M(x) : m <= x
        <4>1. 0 <= x
          OBVIOUS
        <4> QED BY <2>1, <4>1
      <3> HIDE DEF M
      <3>3. PICK m \in M(x) : \A y \in M(x) : y <= m
        BY <3>2, Greatest
      <3>4. Max(M(x)) = m
        BY <3>2, <3>3, MaxIs
      <3> QED BY <3>1, <3>3, <3>4
    <2>3. \A b \in MonthStarts : b \in Nat /\ BucketStart(b, size) = b
      <3> SUFFICES ASSUME NEW b \in MonthStarts PROVE b \in Nat /\ BucketStart(b, size) = b
        OBVIOUS
      <3>1. b \in Nat /\ b \in M(b)
        BY <2>1
      <3>2. BucketStart(b, size) \in M(b) /\ b <= BucketStart(b, size)
        BY <2>2, <3>1
      <3>3. BucketStart(b, size) \in Nat /\ BucketStart(b, size) <= b
        BY <2>1, <3>2
      <3> HIDE DEF M
      <3> QED BY <3>1, <3>2, <3>3
    <2>4. BucketStart(d, size) \in MonthStarts /\ BucketStart(d, size) <= d
      BY <2>2
    <2>5. \A b \in Starts(size) : b \in MonthStarts
      BY <2>2 DEF Starts
    <2>6. \A b \in Starts(size) : b <= d => b <= BucketStart(d, size)
      BY <2>2, <2>5
    <2> QED BY <2>3, <2>4, <2>6 DEF Starts
  <1> QED BY <1>1, <1>2, <1>3 DEF Sizes

(* The loop over the buckets advances.                                        *)
LEMMA NextLater ==
  ASSUME NEW size \in Sizes, NEW b \in Nat, NEW top \in MonthStarts, b < top
  PROVE  NextBucket(b, size) \in Nat /\ b < NextBucket(b, size)
  <1>1. CASE size = "day"
    BY <1>1 DEF NextBucket
  <1>2. CASE size = "week"
    <2>1. NextBucket(b, size) = b + DaysPerWeek
      BY <1>2 DEF NextBucket
    <2> QED BY <2>1, Clock
  <1>3. CASE size = "month"
    <2> DEFINE later == {m \in MonthStarts : m > b}
    <2>1. later \in SUBSET Nat /\ top \in later
      BY StatisticsAssumption
    <2>2. NextBucket(b, size) = Min(later)
      BY <1>3 DEF NextBucket
    <2>3. \A m \in later : b < m
      BY <2>1
    <2> HIDE DEF later
    <2>4. PICK n \in later : \A m \in later : n <= m
      BY <2>1, Least
    <2>5. Min(later) = n
      BY <2>1, <2>4, MinIs
    <2> QED BY <2>1, <2>2, <2>3, <2>4, <2>5
  <1> QED BY <1>1, <1>2, <1>3 DEF Sizes

(* The next bucket is the next start.                                         *)
LEMMA NextStart ==
  ASSUME NEW size \in Sizes, NEW b \in Starts(size), NEW top \in MonthStarts, b < top
  PROVE  /\ NextBucket(b, size) \in Starts(size) /\ b < NextBucket(b, size)
         /\ \A c \in Starts(size) : b < c => NextBucket(b, size) <= c
  <1>0. b \in Nat
    BY DEF Starts
  <1>1. CASE size = "day"
    BY <1>0, <1>1 DEF BucketStart, NextBucket, Starts
  <1>2. CASE size = "week"
    <2> DEFINE W == DaysPerWeek
    <2>1. W \in Nat \ {0} /\ NextBucket(b, size) = b + W
      BY <1>2, Clock DEF NextBucket
    <2>a. \A x \in Nat : BucketStart(x, size) = x - (x % W)
      BY <1>2 DEF BucketStart
    <2>b. \A x \in Nat : x % W \in 0..W - 1 /\ x \div W \in Nat /\ x = (x \div W) * W + (x % W)
      <3> SUFFICES ASSUME NEW x \in Nat
                   PROVE  x % W \in 0..W - 1 /\ x \div W \in Nat /\ x = (x \div W) * W + (x % W)
        OBVIOUS
      <3>1. x \in Int
        OBVIOUS
      <3> HIDE DEF W
      <3> QED BY <2>1, <3>1, DivIs
    <2> HIDE DEF W
    <2>2. \A x \in Starts(size) : x \in Nat /\ x % W = 0
      <3> SUFFICES ASSUME NEW x \in Starts(size) PROVE x \in Nat /\ x % W = 0
        OBVIOUS
      <3>1. x \in Nat /\ x = x - (x % W)
        BY <2>a DEF Starts
      <3>2. x % W \in 0..W - 1
        BY <2>b, <3>1
      <3> QED BY <2>1, <3>1, <3>2
    <2>3. \A x \in Starts(size) : x \in Nat /\ x \div W \in Nat /\ x = (x \div W) * W
      <3> SUFFICES ASSUME NEW x \in Starts(size) PROVE x \in Nat /\ x \div W \in Nat /\ x = (x \div W) * W
        OBVIOUS
      <3>1. x \in Nat /\ x \div W \in Nat /\ x = (x \div W) * W + (x % W) /\ x % W = 0
        BY <2>2, <2>b
      <3>2. (x \div W) * W \in Nat
        BY <2>1, <3>1
      <3> QED BY <3>1, <3>2
    <2>4. PICK p \in Nat : b = p * W
      BY <2>3
    <2>5. b + W = (p + 1) * W /\ b + W \in Nat
      BY <2>1, <2>4
    <2>6. (b + W) % W = 0
      <3>1. (b + W) \div W = p + 1
        BY <2>1, <2>5, Quotient
      <3>2. b + W = ((b + W) \div W) * W + ((b + W) % W) /\ (b + W) % W \in Int
        BY <2>1, <2>5, <2>b
      <3> QED BY <2>5, <3>1, <3>2
    <2>7. b + W \in Starts(size)
      <3>1. BucketStart(b + W, size) = (b + W) - ((b + W) % W)
        <4> DEFINE y == b + W
        <4>1. y \in Nat
          BY <2>5
        <4> HIDE DEF y
        <4>2. BucketStart(y, size) = y - (y % W)
          BY <2>a, <4>1
        <4> QED BY <4>2 DEF y
      <3>2. BucketStart(b + W, size) = b + W
        BY <2>5, <2>6, <3>1
      <3> QED BY <2>5, <3>2 DEF Starts
    <2>8. ASSUME NEW c \in Starts(size), b < c PROVE b + W <= c
      <3>1. PICK q \in Nat : c = q * W
        BY <2>3
      <3>2. p + 1 <= q
        <4> SUFFICES ASSUME q <= p PROVE FALSE
          OBVIOUS
        <4>1. q * W <= p * W
          BY <2>1
        <4> QED BY <2>1, <2>4, <2>8, <3>1, <4>1
      <3>3. (p + 1) * W <= q * W
        BY <2>1, <3>2
      <3> QED BY <2>5, <3>1, <3>3
    <2> QED BY <1>0, <2>1, <2>7, <2>8
  <1>3. CASE size = "month"
    <2> DEFINE later == {m \in MonthStarts : m > b}
    <2>1. MonthStarts \subseteq Nat
      BY StatisticsAssumption
    <2>2. \A x \in Starts("month") : x \in MonthStarts
      <3> SUFFICES ASSUME NEW x \in Starts("month") PROVE x \in MonthStarts
        OBVIOUS
      <3> DEFINE M == {m \in MonthStarts : m <= x}
      <3>1. x \in Nat /\ x = Max(M)
        BY DEF Starts, BucketStart
      <3>2. M \in SUBSET Nat /\ 0 \in M /\ \A m \in M : m <= x
        <4>1. 0 <= x /\ 0 \in MonthStarts
          <5>1. x \in Nat
            BY DEF Starts
          <5> QED BY <5>1, StatisticsAssumption
        <4> QED BY <2>1, <4>1
      <3> HIDE DEF M
      <3>3. PICK m \in M : \A y \in M : y <= m
        BY <3>1, <3>2, Greatest
      <3>4. Max(M) = m
        BY <3>2, <3>3, MaxIs
      <3> QED BY <3>1, <3>3, <3>4 DEF M
    <2>3. \A x \in MonthStarts : x \in Starts("month")
      <3> SUFFICES ASSUME NEW x \in MonthStarts PROVE x \in Starts("month")
        OBVIOUS
      <3> DEFINE M == {m \in MonthStarts : m <= x}
      <3>1. x \in M /\ \A y \in M : y <= x
        <4>1. x \in Nat /\ x <= x
          BY <2>1
        <4> QED BY <4>1
      <3>2. M \in SUBSET Int /\ x \in Nat
        <4>1. \A m \in MonthStarts : m \in Nat /\ m \in Int
          BY <2>1
        <4> QED BY <4>1
      <3>3. BucketStart(x, "month") = Max(M)
        BY DEF BucketStart
      <3> HIDE DEF M
      <3>4. Max(M) = x
        BY <3>1, <3>2, MaxIs
      <3> QED BY <3>2, <3>3, <3>4 DEF Starts
    <2>4. later \in SUBSET Nat /\ top \in later
      BY <2>1
    <2> HIDE DEF later
    <2>5. PICK n \in later : \A m \in later : n <= m
      BY <2>4, Least
    <2>6. Min(later) = n
      BY <2>4, <2>5, MinIs
    <2>7. NextBucket(b, size) = n
      BY <1>3, <2>6 DEF NextBucket, later
    <2>8. n \in MonthStarts /\ b < n
      BY <1>0, <2>1 DEF later
    <2>9. \A c \in Starts(size) : b < c => c \in later
      BY <1>0, <1>3, <2>1, <2>2 DEF later
    <2> QED BY <1>3, <2>3, <2>5, <2>7, <2>8, <2>9
  <1> QED BY <1>1, <1>2, <1>3 DEF Sizes

Ascends(seq) == \A j, k \in DOMAIN seq : j < k => seq[j] < seq[k]
Between(b, last, size) == {c \in b..last : BucketStart(c, size) = c}

LEMMA Prepend ==
  ASSUME NEW b \in Nat, NEW n \in Nat, b < n, NEW t \in Seq(Nat), Ascends(t), \A c \in Range(t) : n <= c
  PROVE  /\ <<b>> \o t \in Seq(Nat) /\ Ascends(<<b>> \o t) /\ Range(<<b>> \o t) = {b} \cup Range(t)
  <1> DEFINE s == <<b>> \o t
             l == Len(t)
  <1>1. /\ s \in Seq(Nat) /\ l \in Nat /\ DOMAIN t = 1..l /\ DOMAIN s = 1..l + 1
        /\ s[1] = b /\ \A k \in 1..l : s[k + 1] = t[k]
    <2>1. <<b>> \in Seq(Nat) /\ Len(<<b>>) = 1 /\ <<b>>[1] = b
      OBVIOUS
    <2>2. s \in Seq(Nat) /\ Len(s) = 1 + l /\ l \in Nat
      BY <2>1
    <2>3. DOMAIN t = 1..l /\ DOMAIN s = 1..l + 1
      BY <2>2
    <2>4. \A k \in 1..l + 1 : s[k] = IF k <= 1 THEN b ELSE t[k - 1]
      BY <2>1, <2>2
    <2>5. s[1] = b
      BY <2>2, <2>4
    <2>6. \A k \in 1..l : s[k + 1] = t[k]
      <3> SUFFICES ASSUME NEW k \in 1..l PROVE s[k + 1] = t[k]
        OBVIOUS
      <3>1. k + 1 \in 1..l + 1 /\ ~(k + 1 <= 1) /\ (k + 1) - 1 = k
        BY <2>2
      <3> HIDE DEF s, l
      <3> QED BY <2>4, <3>1
    <2> QED BY <2>2, <2>3, <2>5, <2>6
  <1> HIDE DEF s, l
  <1>2. \A k \in 1..l + 1 : k = 1 \/ (k - 1 \in 1..l /\ (k - 1) + 1 = k)
    BY <1>1
  <1>3. \A k \in 1..l : t[k] \in Nat /\ n <= t[k] /\ k + 1 \in 1..l + 1
    <2> SUFFICES ASSUME NEW k \in 1..l PROVE t[k] \in Nat /\ n <= t[k] /\ k + 1 \in 1..l + 1
      OBVIOUS
    <2>1. t[k] \in Range(t)
      BY <1>1 DEF Range
    <2>a. t[k] \in Nat
      BY DEF l
    <2>2. k + 1 \in 1..l + 1
      BY <1>1
    <2> QED BY <2>1, <2>2, <2>a
  <1>4. Range(s) = {b} \cup Range(t)
    <2>1. ASSUME NEW x \in Range(s) PROVE x \in {b} \cup Range(t)
      <3>1. PICK k \in 1..l + 1 : s[k] = x
        BY <1>1 DEF Range
      <3>2. CASE k = 1
        BY <1>1, <3>1, <3>2
      <3>3. CASE k - 1 \in 1..l /\ (k - 1) + 1 = k
        BY <1>1, <3>1, <3>3 DEF Range
      <3> QED BY <1>2, <3>2, <3>3
    <2>2. b \in Range(s)
      <3>1. 1 \in 1..l + 1
        BY <1>1
      <3> QED BY <1>1, <3>1 DEF Range
    <2>3. ASSUME NEW x \in Range(t) PROVE x \in Range(s)
      <3>1. PICK k \in 1..l : t[k] = x
        BY <1>1 DEF Range
      <3> QED BY <1>1, <1>3, <3>1 DEF Range
    <2> QED BY <2>1, <2>2, <2>3
  <1>5. Ascends(s)
    <2> SUFFICES ASSUME NEW j \in 1..l + 1, NEW k \in 1..l + 1, j < k PROVE s[j] < s[k]
      BY <1>1 DEF Ascends
    <2>1. k - 1 \in 1..l /\ (k - 1) + 1 = k /\ s[k] = t[k - 1]
      <3>1. k # 1
        OBVIOUS
      <3>2. k - 1 \in 1..l /\ (k - 1) + 1 = k
        BY <1>2, <3>1
      <3> QED BY <1>1, <3>2
    <2>2. CASE j = 1
      BY <1>1, <1>3, <2>1, <2>2
    <2>3. CASE j # 1
      <3>1. j - 1 \in 1..l /\ (j - 1) + 1 = j
        BY <1>2, <2>3
      <3>2. s[j] = t[j - 1]
        BY <1>1, <3>1
      <3>3. j - 1 < k - 1
        OBVIOUS
      <3>4. t[j - 1] < t[k - 1]
        BY <1>1, <2>1, <3>1, <3>3 DEF Ascends
      <3> QED BY <2>1, <3>2, <3>4
    <2> QED BY <2>2, <2>3
  <1> QED BY <1>1, <1>4, <1>5 DEF s

(* The loop over the buckets visits every start from the first to the last,   *)
(* in order.                                                                  *)
LEMMA StartsListed ==
  ASSUME NEW size \in Sizes, NEW last \in Nat, NEW top \in MonthStarts, last < top,
         NEW first \in Starts(size), NEW from,
         from = CHOOSE g : g = [b \in Nat |-> IF b > last THEN <<>> ELSE <<b>> \o g[NextBucket(b, size)]]
  PROVE  /\ from[first] \in Seq(Nat) /\ Ascends(from[first])
         /\ Range(from[first]) = Between(first, last, size)
  <1> DEFINE step(g) == [b \in Nat |-> IF b > last THEN <<>> ELSE <<b>> \o g[NextBucket(b, size)]]
             S == Starts(size)
             succ(b) == NextBucket(b, size)
  <1>1. from = CHOOSE g : g = step(g)
    OBVIOUS
  <1>2. MonthStarts \subseteq Nat /\ S \subseteq Nat
    BY StatisticsAssumption DEF Starts
  <1>3. \A b \in S : b <= last => succ(b) \in S /\ b < succ(b) /\ \A c \in S : b < c => succ(b) <= c
    <2> SUFFICES ASSUME NEW b \in S, b <= last
                 PROVE  succ(b) \in S /\ b < succ(b) /\ \A c \in S : b < c => succ(b) <= c
      OBVIOUS
    <2>1. b < top
      BY <1>2
    <2> QED BY <2>1, NextStart
  <1>4. \A b \in Nat : b <= last => succ(b) \in Nat /\ b < succ(b)
    <2> SUFFICES ASSUME NEW b \in Nat, b <= last PROVE succ(b) \in Nat /\ b < succ(b)
      OBVIOUS
    <2>1. b < top
      BY <1>2
    <2> QED BY <2>1, NextLater
  <1>5. from = step(from)
    <2> DEFINE height == [b \in Nat |-> IF b > last THEN 0 ELSE last + 1 - b]
               next == [b \in Nat |-> IF b > last THEN b ELSE succ(b)]
               v == [b \in Nat |-> <<>>]
               e == [p \in Nat \X Seq(Nat) |-> <<p[1]>> \o p[2]]
               base == {b \in Nat : b > last}
    <2>1. last + 1 \in Nat /\ base \in SUBSET Nat
      OBVIOUS
    <2>2. height \in [Nat -> 0..last + 1]
      OBVIOUS
    <2>3. v \in [Nat -> Seq(Nat)]
      OBVIOUS
    <2>4. next \in [Nat -> Nat]
      BY <1>4
    <2>5. e \in [Nat \X Seq(Nat) -> Seq(Nat)]
      <3>1. \A b \in Nat, t \in Seq(Nat) : <<b>> \o t \in Seq(Nat)
        OBVIOUS
      <3> QED BY <3>1
    <2>6. Falls(Nat, base, next, height)
      <3> SUFFICES ASSUME NEW b \in Nat, b <= last PROVE height[next[b]] < height[b]
        BY DEF Falls
      <3>1. next[b] = succ(b) /\ succ(b) \in Nat /\ b < succ(b)
        BY <1>4
      <3> HIDE DEF succ
      <3>2. height[b] = last + 1 - b
        OBVIOUS
      <3>3. height[succ(b)] = IF succ(b) > last THEN 0 ELSE last + 1 - succ(b)
        BY <3>1
      <3> HIDE DEF height, next
      <3> QED BY <3>1, <3>2, <3>3
    <2> HIDE DEF height, next, v, e, base
    <2>7. PICK f \in [Nat -> Seq(Nat)] : Follows(f, Nat, base, v, next, e)
      BY ONLY <2>1, <2>2, <2>3, <2>4, <2>5, <2>6, Recursion
    <2>8. \A b \in Nat : f[b] = IF b > last THEN <<>> ELSE <<b>> \o f[succ(b)]
      <3> SUFFICES ASSUME NEW b \in Nat PROVE f[b] = IF b > last THEN <<>> ELSE <<b>> \o f[succ(b)]
        OBVIOUS
      <3>1. CASE b > last
        <4>1. f[b] = v[b]
          BY <2>7, <3>1 DEF base, Follows
        <4> QED BY <3>1, <4>1 DEF v
      <3>2. CASE ~(b > last)
        <4>1. next[b] = succ(b) /\ next[b] \in Nat
          BY <2>4, <3>2 DEF next
        <4>2. f[b] = e[<<b, f[next[b]]>>]
          BY <2>7, <3>2 DEF base, Follows
        <4>3. f[next[b]] \in Seq(Nat)
          BY <4>1
        <4>4. e[<<b, f[next[b]]>>] = <<b>> \o f[next[b]]
          BY <4>3 DEF e
        <4> HIDE DEF succ
        <4> QED BY <3>2, <4>1, <4>2, <4>4
      <3> QED BY <3>1, <3>2
    <2>9. f = step(f)
      BY <2>8
    <2> HIDE DEF step
    <2> QED BY <1>1, <2>9
  <1>6. \A b \in Nat : from[b] = IF b > last THEN <<>> ELSE <<b>> \o from[succ(b)]
    BY <1>5
  <1> HIDE DEF S, succ, step
  <1> DEFINE Good(b) == from[b] \in Seq(Nat) /\ Ascends(from[b]) /\ Range(from[b]) = Between(b, last, size)
             P == {n \in Nat : \A b \in S : last + 1 - b <= n => Good(b)}
  <1>7. \A b \in S : Between(b, last, size) = {c \in S : b <= c /\ c <= last}
    BY <1>2 DEF Between, S, Starts
  <1>8. ASSUME NEW b \in S, b > last PROVE Good(b)
    <2>1. from[b] = <<>>
      BY <1>2, <1>6, <1>8
    <2>2. <<>> \in Seq(Nat) /\ Ascends(<<>>) /\ Range(<<>>) = {}
      BY DEF Ascends, Range
    <2>3. \A c \in S : ~(b <= c /\ c <= last)
      BY <1>2, <1>8
    <2>4. Between(b, last, size) = {}
      BY <1>7, <2>3
    <2> QED BY <2>1, <2>2, <2>4
  <1>9. 0 \in P
    <2>1. \A b \in S : last + 1 - b <= 0 => b > last
      BY <1>2
    <2> HIDE DEF Good
    <2> QED BY <1>8, <2>1
  <1>10. ASSUME NEW n \in P PROVE n + 1 \in P
    <2>1. SUFFICES ASSUME NEW b \in S, last + 1 - b <= n + 1, ~(b > last) PROVE Good(b)
      <3> HIDE DEF Good
      <3> QED BY <1>8, <2>1
    <2> DEFINE c == succ(b)
    <2>2. b \in Nat /\ c \in S /\ c \in Nat /\ b < c /\ \A x \in S : b < x => c <= x
      <3>1. b \in Nat
        BY <1>2
      <3>2. b <= last
        BY <2>1, <3>1
      <3> HIDE DEF P
      <3>3. c \in S /\ b < c /\ \A x \in S : b < x => c <= x
        BY <1>3, <3>2
      <3> QED BY <1>2, <3>1, <3>3
    <2> HIDE DEF c
    <2>3. last + 1 - c <= n
      BY <2>1, <2>2
    <2>4. Good(c)
      <3> HIDE DEF Good
      <3> QED BY <2>2, <2>3
    <2>5. from[b] = <<b>> \o from[c]
      BY <1>6, <2>1, <2>2 DEF c
    <2>6. \A x \in Range(from[c]) : c <= x
      BY <1>7, <2>2, <2>4
    <2>7. from[b] \in Seq(Nat) /\ Ascends(from[b]) /\ Range(from[b]) = {b} \cup Range(from[c])
      <3> DEFINE t == from[c]
      <3>1. t \in Seq(Nat) /\ Ascends(t) /\ \A x \in Range(t) : c <= x
        BY <2>4, <2>6
      <3> HIDE DEF t
      <3>2. <<b>> \o t \in Seq(Nat) /\ Ascends(<<b>> \o t) /\ Range(<<b>> \o t) = {b} \cup Range(t)
        BY <2>2, <3>1, Prepend
      <3> QED BY <2>5, <3>2 DEF t
    <2>8. Between(b, last, size) = {b} \cup Between(c, last, size)
      <3>1. \A x \in S : (b <= x /\ x <= last) <=> (x = b \/ (c <= x /\ x <= last))
        BY <1>2, <2>1, <2>2
      <3> QED BY <1>7, <2>2, <3>1
    <2> QED BY <2>4, <2>7, <2>8
  <1>11. P = Nat
    <2> HIDE DEF P
    <2>1. P \subseteq Nat BY DEF P
    <2> QED BY <1>9, <1>10, <2>1, NatInd
  <1>12. first \in S
    BY DEF S
  <1>13. Good(first)
    <2>1. first \in Nat
      BY <1>2, <1>12
    <2>2. last + 1 \in P /\ last + 1 - first <= last + 1
      <3> HIDE DEF P
      <3> QED BY <1>11, <2>1
    <2> HIDE DEF Good
    <2> QED BY <1>12, <2>2
  <1> QED BY <1>13

(* Trend, with its definitions unfolded.                                      *)
LEMMA TrendTyped == StatisticsTyped => TrendAccounts
  <1> SUFFICES ASSUME StatisticsTyped, NEW days \in Windows
               PROVE  LET T == Trend(days)
                          bucketOf(t) == BucketStart(DateOf(t), T.size)
                          starts == {T.buckets[k].start : k \in DOMAIN T.buckets} IN
                      /\ starts = {b \in T.first..T.last : BucketStart(b, T.size) = b}
                      /\ \A j, k \in DOMAIN T.buckets : j < k => T.buckets[j].start < T.buckets[k].start
                      /\ \A k \in DOMAIN T.buckets :
                             T.buckets[k].seconds = UnitsAt(T.rows, bucketOf, T.buckets[k].start)
                      /\ {s \in Completed : InWindow(s, days)} \subseteq T.rows
                      /\ \A s \in T.rows : \A k \in 0..s.duration - 1 :
                             s.start + k < now => bucketOf(s.start + tz + k) \in starts
    BY DEF TrendAccounts
  <1> DEFINE T == Trend(days)
             size == Granularity(days)
             bucketOf(t) == BucketStart(DateOf(t), size)
             last == bucketOf(now + tz)
             lower == IF days = 0 THEN 0 ELSE bucketOf(now - days * Day + tz)
             rows == TrendRows(days, lower)
             filled == UNION {{bucketOf(p.at) : p \in AcrossDays(s.start + tz, s.duration)} : s \in rows}
             first == IF days # 0 THEN lower ELSE IF filled = {} THEN last ELSE Min(filled)
             from == CHOOSE g : g = [b \in Nat |-> IF b > last THEN <<>> ELSE <<b>> \o g[NextBucket(b, size)]]
             list == from[first]
             seconds(k) == Placed(rows, AcrossDays, bucketOf, list[k])
  <1>1. /\ T.rows = rows /\ T.size = size /\ T.first = first /\ T.last = last
        /\ T.buckets = [k \in DOMAIN list |-> [start |-> list[k], seconds |-> seconds(k)]]
    BY DEF Trend
  <1>2. size \in Sizes
    BY DEF Granularity, Sizes
  <1>3. /\ now \in Nat /\ tz \in Nat /\ tz \in Offsets /\ Day \in Nat \ {0} /\ now <= MaxTime /\ MaxTime \in Nat
        /\ days \in Nat /\ days * Day \in Nat /\ days * Day <= now
    <2>1. now \in Int /\ Start <= now /\ now <= MaxTime /\ tz \in Offsets /\ tz \in Nat
      BY Clock DEF StatisticsTyped
    <2>2. days \in Nat /\ days * Day <= Start /\ Day \in Nat \ {0} /\ days * Day \in Nat
      BY Clock, CalendarAssumption
    <2> QED BY <2>1, <2>2, Clock
  <1>4. \A t \in Nat : DateOf(t) \in Nat /\ DateOf(t) * Day \in Nat /\ DateOf(t) * Day <= t /\ t < DateOf(t) * Day + Day
    <2> SUFFICES ASSUME NEW t \in Nat
                 PROVE  DateOf(t) \in Nat /\ DateOf(t) * Day \in Nat /\ DateOf(t) * Day <= t /\ t < DateOf(t) * Day + Day
      OBVIOUS
    <2>1. t \in Int
      OBVIOUS
    <2>2. t \div Day \in Nat /\ t % Day \in 0..Day - 1 /\ t = (t \div Day) * Day + (t % Day)
      BY <1>3, <2>1, DivIs
    <2>3. (t \div Day) * Day \in Nat
      BY <1>3, <2>2
    <2> QED BY <1>3, <2>2, <2>3 DEF DateOf
  <1>5. \A d \in Nat, t \in Nat : d * Day <= t => d <= DateOf(t)
    <2> SUFFICES ASSUME NEW d \in Nat, NEW t \in Nat, d * Day <= t, DateOf(t) + 1 <= d PROVE FALSE
      BY <1>4
    <2> DEFINE q == DateOf(t)
    <2>1. q \in Nat /\ q * Day \in Nat /\ t < q * Day + Day
      BY <1>4
    <2>2. (q + 1) * Day <= d * Day
      <3> HIDE DEF q
      <3> QED BY <1>3, <2>1 DEF q
    <2>3. (q + 1) * Day = q * Day + Day
      <3> HIDE DEF q
      <3> QED BY <1>3, <2>1
    <2>4. d * Day \in Nat
      BY <1>3
    <2> HIDE DEF q
    <2> QED BY <1>3, <2>1, <2>2, <2>3, <2>4
  <1>6. \A t, u \in Nat : t <= u => DateOf(t) <= DateOf(u)
    <2> SUFFICES ASSUME NEW t \in Nat, NEW u \in Nat, t <= u PROVE DateOf(t) <= DateOf(u)
      OBVIOUS
    <2>1. DateOf(t) \in Nat /\ DateOf(t) * Day \in Nat /\ DateOf(t) * Day <= t
      BY <1>4
    <2> QED BY <1>5, <2>1
  <1> HIDE DEF size
  <1>7. \A t \in Nat : /\ bucketOf(t) \in Starts(size) /\ bucketOf(t) \in Nat /\ bucketOf(t) <= DateOf(t)
                       /\ \A b \in Starts(size) : b <= DateOf(t) => b <= bucketOf(t)
    <2> SUFFICES ASSUME NEW t \in Nat
                 PROVE  /\ bucketOf(t) \in Starts(size) /\ bucketOf(t) \in Nat /\ bucketOf(t) <= DateOf(t)
                        /\ \A b \in Starts(size) : b <= DateOf(t) => b <= bucketOf(t)
      OBVIOUS
    <2>1. DateOf(t) \in Nat
      BY <1>4
    <2> QED BY <1>2, <2>1, Buckets DEF Starts
  <1>8. PICK top \in MonthStarts : top * Day > MaxTime + tz
    BY <1>3, CalendarAssumption
  <1>9. last \in Starts(size) /\ last \in Nat /\ last < top
    <2> DEFINE today == DateOf(now + tz)
    <2>1. now + tz \in Nat
      BY <1>3
    <2>2. last \in Starts(size) /\ last \in Nat /\ last <= today
      BY <1>7, <2>1
    <2>3. today \in Nat /\ today * Day \in Nat /\ today * Day <= now + tz
      BY <1>4, <2>1
    <2>4. top \in Nat
      BY StatisticsAssumption
    <2> HIDE DEF today, last
    <2>5. today < top
      <3> SUFFICES ASSUME top <= today PROVE FALSE
        BY <2>3, <2>4
      <3>1. top * Day <= today * Day /\ top * Day \in Nat
        BY <1>3, <2>3, <2>4
      <3> QED BY <1>3, <1>8, <2>3, <3>1
    <2> QED BY <2>2, <2>3, <2>4, <2>5
  <1>10. /\ days # 0 => /\ lower \in Starts(size) /\ lower \in Nat /\ lower * Day \in Nat
                         /\ lower * Day <= now - days * Day + tz
         /\ lower \in Nat
    <2> DEFINE x == now - days * Day + tz
    <2>1. x \in Nat
      BY <1>3
    <2>2. bucketOf(x) \in Starts(size) /\ bucketOf(x) \in Nat /\ bucketOf(x) <= DateOf(x)
      BY <1>7, <2>1
    <2>3. DateOf(x) \in Nat /\ DateOf(x) * Day \in Nat /\ DateOf(x) * Day <= x
      BY <1>4, <2>1
    <2>4. lower = IF days = 0 THEN 0 ELSE bucketOf(x)
      OBVIOUS
    <2> DEFINE b == bucketOf(x)
               d == DateOf(x)
    <2> HIDE DEF b, d
    <2>5. b \in Nat /\ d \in Nat /\ b <= d /\ d * Day <= x /\ d * Day \in Nat
      BY <2>2, <2>3 DEF b, d
    <2>6. b * Day <= d * Day /\ b * Day \in Nat
      BY <1>3, <2>5
    <2>7. b * Day <= x
      BY <2>1, <2>5, <2>6
    <2> HIDE DEF x, bucketOf
    <2> QED BY <2>2, <2>4, <2>6, <2>7 DEF b, x
  <1>11. \A s \in rows : /\ s \in sessions /\ s \in Completed /\ s.start \in Nat /\ s.start + tz \in Nat
                         /\ s.duration \in Nat /\ Elapsed(s) = s.duration
    <2>1. \A s \in rows : s \in Completed /\ s.status = "COMPLETED"
      BY DEF TrendRows, Completed
    <2>2. \A s \in Completed : s \in sessions
      BY SomeRows
    <2>3. \A s \in sessions : s.start \in Nat /\ s.duration \in Nat
      BY RowTimes
    <2>4. \A s \in rows : Elapsed(s) = s.duration
      BY <2>1 DEF Elapsed
    <2> HIDE DEF rows
    <2> QED BY <1>3, <2>1, <2>2, <2>3, <2>4
  <1>12. \A s \in rows : Splits(AcrossDays(s.start + tz, s.duration), s.start + tz, s.start + tz + s.duration, Day)
    <2> SUFFICES ASSUME NEW s \in rows
                 PROVE  Splits(AcrossDays(s.start + tz, s.duration), s.start + tz, s.start + tz + s.duration, Day)
      OBVIOUS
    <2> DEFINE a == s.start + tz
    <2>1. a \in Int /\ s.duration \in Nat
      BY <1>11
    <2> HIDE DEF a
    <2>2. Splits(Pieces(a, s.duration, Day), a, a + s.duration, Day)
      BY <1>3, <2>1, PiecesSplit
    <2> QED BY <2>2 DEF AcrossDays, a
  <1>13. \A s \in rows : \A p \in AcrossDays(s.start + tz, s.duration) : p.at \in Nat
    <2> SUFFICES ASSUME NEW s \in rows, NEW p \in AcrossDays(s.start + tz, s.duration) PROVE p.at \in Nat
      OBVIOUS
    <2>1. p.at \in Int /\ s.start + tz <= p.at /\ s.start + tz \in Nat
      BY <1>11, <1>12 DEF Splits
    <2> QED BY <2>1
  <1> HIDE DEF rows
  <1>14. filled \in SUBSET Starts(size)
    BY <1>7, <1>13
  <1>15. Starts(size) \subseteq Nat
    BY DEF Starts
  <1>16. first \in Starts(size) /\ (days = 0 => \A b \in filled : first <= b)
    <2>1. CASE days # 0
      BY <1>10, <2>1
    <2>2. CASE days = 0 /\ filled = {}
      <3> HIDE DEF filled, last
      <3> QED BY <1>9, <2>2
    <2>3. CASE days = 0 /\ filled # {}
      <3>1. filled \in SUBSET Nat
        BY <1>14, <1>15
      <3>2. first = Min(filled)
        BY <2>3
      <3> HIDE DEF filled, first
      <3>3. PICK m \in filled : \A b \in filled : m <= b
        BY <2>3, <3>1, Least
      <3>4. Min(filled) = m
        BY <3>1, <3>3, MinIs
      <3> QED BY <1>14, <3>2, <3>3, <3>4
    <2> QED BY <2>1, <2>2, <2>3
  <1> HIDE DEF first, filled
  <1>17. list \in Seq(Nat) /\ Ascends(list) /\ Range(list) = Between(first, last, size)
    <2> HIDE DEF last
    <2> QED BY <1>2, <1>9, <1>16, StartsListed
  <1> HIDE DEF list
  <1>18. ASSUME NEW k \in DOMAIN list PROVE seconds(k) = UnitsAt(rows, bucketOf, list[k])
    <2> DEFINE W == {t \in Int : bucketOf(t) = list[k]}
               placed == [s \in rows |-> SumFunction([p \in AcrossDays(s.start + tz, Elapsed(s)) |->
                                                          IF bucketOf(p.at) = list[k] THEN p.seconds ELSE 0])]
    <2>1. seconds(k) = SumFunction(placed)
      BY DEF Placed
    <2>2. SumFunction(placed) = SecondsIn(rows, Day, W)
      <3>1. \A s \in rows : \A p \in AcrossDays(s.start + tz, Elapsed(s)) : p.at \in Int
        BY <1>11, <1>13
      <3>2. \A s \in rows : \A p \in AcrossDays(s.start + tz, Elapsed(s)) : bucketOf(p.at) = list[k] <=> p.at \in W
        BY <3>1
      <3> HIDE DEF W, bucketOf
      <3> QED BY <3>2 DEF AcrossDays, SecondsIn
    <2>3. Whole(W, Day)
      BY DEF Whole, DateOf
    <2>4. UnitsAt(rows, bucketOf, list[k]) = Cardinality(UnitsIn(rows, W))
      <3> DEFINE here(s) == {j \in 0..Elapsed(s) - 1 : bucketOf(s.start + tz + j) = list[k]}
                 there(s) == {j \in 0..Elapsed(s) - 1 : s.start + tz + j \in W}
      <3>1. UnitsAt(rows, bucketOf, list[k]) = Cardinality(UNION {{<<s, j>> : j \in here(s)} : s \in rows})
        BY DEF UnitsAt
      <3>2. UnitsIn(rows, W) = UNION {{<<s, j>> : j \in there(s)} : s \in rows}
        BY DEF UnitsIn
      <3>3. \A s \in rows : here(s) = there(s)
        <4> SUFFICES ASSUME NEW s \in rows, NEW j \in 0..Elapsed(s) - 1 PROVE s.start + tz + j \in Int
          OBVIOUS
        <4>1. s.start + tz \in Int
          BY <1>11
        <4> QED BY <4>1
      <3> HIDE DEF here, there, W
      <3>4. UNION {{<<s, j>> : j \in here(s)} : s \in rows} = UNION {{<<s, j>> : j \in there(s)} : s \in rows}
        BY <3>3
      <3> QED BY <3>1, <3>2, <3>4
    <2> HIDE DEF W
    <2>5. rows \in SUBSET sessions
      BY <1>11
    <2>6. SecondsIn(rows, Day, W) = Cardinality(UnitsIn(rows, W))
      BY <1>3, <2>3, <2>5, RowsAgree
    <2> QED BY <2>1, <2>2, <2>4, <2>6
  <1>19. {s \in Completed : InWindow(s, days)} \subseteq rows
    <2> SUFFICES ASSUME NEW s \in Completed, InWindow(s, days), days # 0 PROVE s.start + tz >= lower * Day
      BY DEF rows, TrendRows
    <2>1. s.start \in Nat
      BY SomeRows, RowTimes
    <2>2. s.start >= now - days * Day
      BY DEF InWindow
    <2>3. lower * Day \in Nat /\ lower * Day <= now - days * Day + tz
      BY <1>10
    <2> HIDE DEF lower
    <2> QED BY <1>3, <2>1, <2>2, <2>3
  <1>20. ASSUME NEW s \in rows, NEW k \in 0..s.duration - 1, s.start + k < now
         PROVE  bucketOf(s.start + tz + k) \in Between(first, last, size)
    <2> DEFINE t == s.start + tz + k
    <2>1. t \in Nat /\ s.start + tz <= t /\ t <= s.start + tz + s.duration - 1 /\ t <= now + tz
      BY <1>3, <1>11, <1>20
    <2>2. bucketOf(t) \in Starts(size) /\ bucketOf(t) \in Nat /\ bucketOf(t) <= DateOf(t) /\ DateOf(t) \in Nat
      BY <1>4, <1>7, <2>1
    <2>3. bucketOf(t) <= last
      <3>1. now + tz \in Nat /\ DateOf(t) <= DateOf(now + tz) /\ DateOf(now + tz) \in Nat
        <4>1. now + tz \in Nat
          BY <1>3
        <4> HIDE DEF t
        <4> QED BY <1>4, <1>6, <2>1, <4>1
      <3>2. bucketOf(t) <= DateOf(now + tz)
        <4> HIDE DEF bucketOf, t
        <4> QED BY <2>2, <3>1
      <3> QED BY <1>7, <2>2, <3>1, <3>2
    <2>4. first <= bucketOf(t)
      <3>1. CASE days # 0
        <4>1. first = lower /\ lower \in Starts(size) /\ lower \in Nat
          BY <1>10, <3>1 DEF first
        <4>2. s.start + tz >= lower * Day
          BY <3>1 DEF rows, TrendRows
        <4>3. lower * Day <= t
          <5>1. lower * Day \in Nat /\ s.start + tz \in Nat
            BY <1>10, <1>11, <3>1
          <5> HIDE DEF lower, t
          <5> QED BY <2>1, <4>2, <5>1
        <4> HIDE DEF t, lower
        <4>4. lower <= DateOf(t)
          BY <1>5, <2>1, <4>1, <4>3
        <4> QED BY <1>7, <2>1, <4>1, <4>4
      <3>2. CASE days = 0
        <4> DEFINE S == AcrossDays(s.start + tz, s.duration)
        <4>1. t \in s.start + tz..(s.start + tz + s.duration) - 1
          BY <1>11, <2>1
        <4>2. Splits(S, s.start + tz, s.start + tz + s.duration, Day)
          BY <1>12
        <4>3. PICK p \in S : t \in Span(p)
          <5> HIDE DEF S, t
          <5> QED BY <4>1, <4>2 DEF Splits
        <4>4. DateOf(t) = DateOf(p.at)
          <5> HIDE DEF S, t
          <5> QED BY <4>2, <4>3 DEF Splits, DateOf
        <4>5. bucketOf(t) \in filled
          BY <4>3, <4>4 DEF filled
        <4> QED BY <1>16, <3>2, <4>5
      <3> QED BY <3>1, <3>2
    <2>5. first \in Nat /\ last \in Nat
      BY <1>9, <1>15, <1>16
    <2> DEFINE b == bucketOf(t)
    <2>6. BucketStart(b, size) = b /\ b \in Nat /\ first <= b /\ b <= last
      BY <2>2, <2>3, <2>4 DEF Starts
    <2> HIDE DEF b, last
    <2> QED BY <2>5, <2>6 DEF Between, b
  <1> HIDE DEF T
  <1>21. DOMAIN T.buckets = DOMAIN list
         /\ \A k \in DOMAIN list : T.buckets[k].start = list[k] /\ T.buckets[k].seconds = seconds(k)
    <2> HIDE DEF seconds
    <2> QED BY <1>1
  <1> DEFINE starts == {T.buckets[k].start : k \in DOMAIN T.buckets}
  <1>22. starts = Range(list)
    BY <1>21 DEF Range
  <1>23. starts = {b \in T.first..T.last : BucketStart(b, T.size) = b}
    BY <1>1, <1>17, <1>22 DEF Between
  <1>24. \A j, k \in DOMAIN T.buckets : j < k => T.buckets[j].start < T.buckets[k].start
    BY <1>17, <1>21 DEF Ascends
  <1>25. ASSUME NEW k \in DOMAIN T.buckets
         PROVE  T.buckets[k].seconds = UnitsAt(T.rows, LAMBDA t : BucketStart(DateOf(t), T.size), T.buckets[k].start)
    <2>1. T.buckets[k].seconds = UnitsAt(rows, bucketOf, list[k]) /\ T.buckets[k].start = list[k]
      <3> HIDE DEF seconds, bucketOf
      <3> QED BY <1>18, <1>21
    <2>2. UnitsAt(rows, bucketOf, list[k])
            = Cardinality(UNION {{<<s, j>> : j \in {i \in 0..Elapsed(s) - 1 :
                                     BucketStart(DateOf(s.start + tz + i), size) = list[k]}} : s \in rows})
      BY DEF UnitsAt
    <2>3. UnitsAt(T.rows, LAMBDA t : BucketStart(DateOf(t), T.size), T.buckets[k].start)
            = Cardinality(UNION {{<<s, j>> : j \in {i \in 0..Elapsed(s) - 1 :
                                     BucketStart(DateOf(s.start + tz + i), T.size) = T.buckets[k].start}} : s \in T.rows})
      BY DEF UnitsAt
    <2> HIDE DEF bucketOf
    <2> QED BY <1>1, <2>1, <2>2, <2>3
  <1>26. \A s \in T.rows : \A k \in 0..s.duration - 1 :
             s.start + k < now => BucketStart(DateOf(s.start + tz + k), T.size) \in starts
    <2> HIDE DEF starts, last
    <2> QED BY <1>1, <1>17, <1>20, <1>22
  <1> HIDE DEF starts
  <1> QED BY <1>1, <1>19, <1>23, <1>24, <1>25, <1>26 DEF starts, T

(* The chart is contiguous and holds exactly the seconds played, of every     *)
(* session the summary of the window counts (TrendAccounts).                  *)
THEOREM TrendIsComplete == Spec => []TrendAccounts
  BY StatisticsInvariant, TrendTyped, PTL
=============================================================================
