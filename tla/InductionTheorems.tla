-------------------------- MODULE InductionTheorems --------------------------
(***************************************************************************)
(* Induction with sets in the place of predicates: over the naturals, over *)
(* what a rank orders, and the existence of a function that a recursion    *)
(* defines.  The code walks over messages, options and segments; the walks *)
(* are recursive functions, and this is what their properties are proved   *)
(* from.                                                                   *)
(***************************************************************************)
EXTENDS WellFoundedInduction, TLAPS

\* A set of naturals with 0 and each successor has them all.
LEMMA SetInduction ==
    ASSUME NEW S \in SUBSET Nat, 0 \in S, \A n \in S : n + 1 \in S
    PROVE  S = Nat
<1> DEFINE T == Nat \ S
           R == OpToRel(<, Nat)
<1> SUFFICES ASSUME T # {} PROVE FALSE
  OBVIOUS
<1>1. IsWellFoundedOn(R, Nat) /\ T \subseteq Nat
  BY NatLessThanWellFounded
<1>2. \A x, y \in Nat : y < x => <<y, x>> \in R
  BY DEF OpToRel
<1> HIDE DEF T, R
<1>3. PICK x \in T : \A y \in T : ~(<<y, x>> \in R)
  BY <1>1, WFMin
<1>4. x \in Nat /\ x \notin S
  BY DEF T
<1>5. x # 0 /\ x - 1 \in Nat /\ x - 1 < x
  BY <1>4
<1>6. x - 1 \notin T
  BY <1>2, <1>3, <1>4, <1>5
<1>7. x - 1 \in S
  BY <1>5, <1>6 DEF T
<1> QED
  BY <1>4, <1>7

\* A set that has each element whose lower ones it has, has them all.
Ranked(D, rank, n) == n \in Nat /\ rank \in [D -> 0..n]
Inductive(D, rank, S) ==
    /\ S \subseteq D
    /\ \A p \in D : (\A q \in D : rank[q] < rank[p] => q \in S) => p \in S

LEMMA RankInduction ==
    ASSUME NEW D, NEW rank, NEW n, NEW S, Ranked(D, rank, n), Inductive(D, rank, S)
    PROVE  S = D
<1> USE DEF Ranked, Inductive
<1> DEFINE T == {k \in Nat : \A p \in D : rank[p] < k => p \in S}
<1>1. \A p \in D : rank[p] \in Int /\ 0 <= rank[p] /\ rank[p] < n + 1
  <2> TAKE p \in D
  <2>1. rank[p] \in 0..n
    OBVIOUS
  <2> QED
    BY <2>1
<1>2. 0 \in T
  BY <1>1
<1>3. ASSUME NEW k \in T PROVE k + 1 \in T
  <2>1. k \in Nat /\ \A p \in D : rank[p] < k => p \in S
    OBVIOUS
  <2>2. ASSUME NEW p \in D, rank[p] < k + 1 PROVE p \in S
    <3>1. \A q \in D : rank[q] < rank[p] => rank[q] < k
      BY <1>1, <2>1, <2>2
    <3>2. \A q \in D : rank[q] < rank[p] => q \in S
      BY <2>1, <3>1
    <3> QED
      BY <3>2
  <2> QED
    BY <2>1, <2>2
<1>4. n + 1 \in T
  <2>1. T \in SUBSET Nat
    OBVIOUS
  <2> HIDE DEF T
  <2>2. T = Nat
    BY <1>2, <1>3, <2>1, SetInduction
  <2> QED
    BY <2>2
<1> QED
  BY <1>1, <1>4

\* A recursion looks from a place that does not stop it at one of a lower rank.
WellRanked(D, X, stop, base, next, step, rank, n) ==
    /\ X # {} /\ Ranked(D, rank, n) /\ stop \subseteq D
    /\ base \in [D -> X] /\ next \in [D \ stop -> D] /\ step \in [D \X X -> X]
    /\ \A p \in D \ stop : rank[next[p]] < rank[p]

Solves(f, D, stop, base, next, step) ==
    \A p \in D : f[p] = IF p \in stop THEN base[p] ELSE step[<<p, f[next[p]]>>]

\* A function that a recursion defines exists.
LEMMA RecursionDefines ==
    ASSUME NEW D, NEW X, NEW stop, NEW base, NEW next, NEW step, NEW rank, NEW n,
           WellRanked(D, X, stop, base, next, step, rank, n)
    PROVE  \E f \in [D -> X] : Solves(f, D, stop, base, next, step)
<1> USE DEF WellRanked, Ranked
<1> DEFINE Val(f, p) == IF p \in stop THEN base[p] ELSE step[<<p, f[next[p]]>>]
           S == {k \in Nat : \E f \in [D -> X] : \A p \in D : rank[p] < k => f[p] = Val(f, p)}
<1>1. 0 \in S
  <2>1. [p \in D |-> CHOOSE x \in X : TRUE] \in [D -> X]
    OBVIOUS
  <2>2. \A p \in D : ~(rank[p] < 0)
    OBVIOUS
  <2> QED
    BY <2>1, <2>2
<1>2. ASSUME NEW k \in S PROVE k + 1 \in S
  <2>1. k \in Nat
    OBVIOUS
  <2>2. PICK f \in [D -> X] : \A p \in D : rank[p] < k => f[p] = Val(f, p)
    OBVIOUS
  <2> DEFINE g == [p \in D |-> IF rank[p] < k THEN f[p] ELSE Val(f, p)]
  <2>3. \A p \in D : Val(f, p) \in X
    OBVIOUS
  <2>4. g \in [D -> X]
    BY <2>3
  <2>5. ASSUME NEW p \in D, rank[p] < k + 1 PROVE g[p] = Val(f, p)
    BY <2>1, <2>2, <2>5
  <2>6. ASSUME NEW p \in D, rank[p] < k + 1 PROVE Val(g, p) = Val(f, p)
    <3>1. CASE p \in stop
      BY <3>1
    <3>2. CASE p \notin stop
      <4>1. next[p] \in D /\ rank[next[p]] < rank[p]
        BY <3>2
      <4>2. rank[next[p]] \in 0..n /\ rank[p] \in 0..n
        BY <4>1
      <4>3. rank[next[p]] < k
        BY <2>1, <2>6, <4>1, <4>2
      <4>4. g[next[p]] = f[next[p]]
        BY <4>1, <4>3
      <4> HIDE DEF g
      <4> QED
        BY <3>2, <4>4
    <3> QED
      BY <3>1, <3>2
  <2> HIDE DEF g, Val
  <2>7. \A p \in D : rank[p] < k + 1 => g[p] = Val(g, p)
    BY <2>5, <2>6
  <2> QED
    BY <2>1, <2>4, <2>7
<1>3. n + 1 \in S
  <2>1. S \in SUBSET Nat
    OBVIOUS
  <2> HIDE DEF S
  <2> QED
    BY <1>1, <1>2, <2>1, SetInduction
<1>4. PICK f \in [D -> X] : \A p \in D : rank[p] < n + 1 => f[p] = Val(f, p)
  BY <1>3
<1>5. \A p \in D : rank[p] < n + 1
  <2> TAKE p \in D
  <2>1. rank[p] \in 0..n
    OBVIOUS
  <2> QED
    BY <2>1
<1> QED
  BY <1>4, <1>5 DEF Solves
=============================================================================
