------------------------------ MODULE Counting ------------------------------
(***************************************************************************)
(* Lemmas that the proofs of the components share: how many processes are  *)
(* at given places before and after a step of one of them, and induction   *)
(* on numbers.                                                             *)
(*                                                                         *)
(* The library's induction theorems are about an operator P(_); here they  *)
(* are about a set of numbers, which follows from the well-founded order   *)
(* of the numbers and can be used for any formula that defines a set.      *)
(***************************************************************************)
EXTENDS Integers, FiniteSets, FiniteSetTheorems, WellFoundedInduction, TLAPS

\* How many of the processes W are at the places P.
Number(W, place, P) == Cardinality({w \in W: place[w] \in P})

\* It is a number.
LEMMA NumberIsNat ==
  ASSUME NEW W, IsFiniteSet(W), NEW place, NEW P
  PROVE  /\ IsFiniteSet({w \in W: place[w] \in P})
         /\ Number(W, place, P) \in Nat
<1>1. IsFiniteSet({w \in W: place[w] \in P})
  BY FS_Subset
<1>2. QED
  BY <1>1, FS_CardinalityType DEF Number

\* It is above zero when somebody is there.
LEMMA NumberIsPositive ==
  ASSUME NEW W, IsFiniteSet(W), NEW place, NEW P, NEW w \in W, place[w] \in P
  PROVE  Number(W, place, P) > 0
<1>1. IsFiniteSet({v \in W: place[v] \in P}) /\ Number(W, place, P) \in Nat
  BY NumberIsNat
<1>2. {v \in W: place[v] \in P} # {}
  OBVIOUS
<1>3. Number(W, place, P) # 0
  BY <1>1, <1>2, FS_EmptySet DEF Number
<1>4. QED
  BY <1>1, <1>3

\* A step of w alone changes it by one at most, as w comes or leaves.
LEMMA NumberAfter ==
  ASSUME NEW W, IsFiniteSet(W), NEW before, NEW after, NEW P, NEW w \in W,
         \A v \in W: v # w => after[v] = before[v]
  PROVE  /\ before[w] \in P /\ after[w] \in P
              => Number(W, after, P) = Number(W, before, P)
         /\ before[w] \notin P /\ after[w] \notin P
              => Number(W, after, P) = Number(W, before, P)
         /\ before[w] \notin P /\ after[w] \in P
              => Number(W, after, P) = Number(W, before, P) + 1
         /\ before[w] \in P /\ after[w] \notin P
              => Number(W, after, P) = Number(W, before, P) - 1
<1> DEFINE S == {v \in W: before[v] \in P}
           T == {v \in W: after[v] \in P}
<1>1. IsFiniteSet(S) /\ IsFiniteSet(T)
  BY NumberIsNat
<1>2. Cardinality(S) \in Nat /\ Cardinality(T) \in Nat
  BY <1>1, FS_CardinalityType
<1>3. CASE before[w] \in P <=> after[w] \in P
  <2>1. S = T
    BY <1>3
  <2>2. QED
    BY <2>1, <1>3 DEF Number
<1>4. CASE before[w] \notin P /\ after[w] \in P
  <2>1. T = S \cup {w} /\ w \notin S
    BY <1>4
  <2>2. Cardinality(T) = Cardinality(S) + 1
    BY <2>1, <1>1, FS_AddElement
  <2>3. QED
    BY <2>2, <1>4 DEF Number
<1>5. CASE before[w] \in P /\ after[w] \notin P
  <2>1. T = S \ {w} /\ w \in S
    BY <1>5
  <2>2. Cardinality(T) = Cardinality(S) - 1
    BY <2>1, <1>1, FS_RemoveElement
  <2>3. QED
    BY <2>2, <1>5 DEF Number
<1>6. QED
  BY <1>3, <1>4, <1>5

\* A set that gains one element at most, or loses one at least.
LEMMA OneMore ==
  ASSUME NEW S, IsFiniteSet(S), NEW x, NEW T, T \subseteq S \cup {x}
  PROVE  /\ Cardinality(T) \in Nat /\ Cardinality(S) \in Nat
         /\ Cardinality(T) <= Cardinality(S) + 1
<1>0. Cardinality(S) \in Nat
  BY FS_CardinalityType
<1>1. /\ IsFiniteSet(S \cup {x})
      /\ Cardinality(S \cup {x}) <= Cardinality(S) + 1
  BY <1>0, FS_AddElement
<1>2. /\ Cardinality(T) <= Cardinality(S \cup {x})
      /\ Cardinality(T) \in Nat /\ Cardinality(S \cup {x}) \in Nat
  BY <1>1, FS_Subset, FS_CardinalityType
<1>3. QED
  BY <1>0, <1>1, <1>2

LEMMA OneLess ==
  ASSUME NEW S, IsFiniteSet(S), NEW x \in S, NEW T, T \subseteq S \ {x}
  PROVE  /\ Cardinality(T) \in Nat /\ Cardinality(S) \in Nat
         /\ Cardinality(T) <= Cardinality(S) - 1
<1>1. /\ IsFiniteSet(S \ {x}) /\ Cardinality(S) \in Nat
      /\ Cardinality(S \ {x}) = Cardinality(S) - 1
  BY FS_RemoveElement, FS_CardinalityType
<1>2. /\ Cardinality(T) <= Cardinality(S \ {x})
      /\ Cardinality(T) \in Nat /\ Cardinality(S \ {x}) \in Nat
  BY <1>1, FS_Subset, FS_CardinalityType
<1>3. QED
  BY <1>1, <1>2

-----------------------------------------------------------------------------
(* Induction *)

\* A set of numbers has a least one.
LEMMA LeastNumber ==
  ASSUME NEW T \in SUBSET Nat, T # {}
  PROVE  \E m \in T: \A n \in T: m <= n
<1> DEFINE R == {p \in Nat \X Nat: p[1] < p[2]}
<1>1. IsWellFoundedOn(R, Nat)
  BY NatLessThanWellFounded, Zenon DEF OpToRel
<1>2. PICK m \in T: \A n \in T: <<n, m>> \notin R
  BY <1>1, WFMin, Zenon
<1>3. ASSUME NEW n \in T PROVE m <= n
  <2>1. n < m => <<n, m>> \in R
    OBVIOUS
  <2>2. ~(n < m)
    BY <1>2, <2>1, Zenon
  <2>3. QED
    BY <2>2
<1>4. QED
  BY <1>3, Zenon

\* A set with 0 and with the successors of its members has all numbers.
LEMMA Induction ==
  ASSUME NEW T, 0 \in T, \A n \in Nat: n \in T => n + 1 \in T
  PROVE  Nat \subseteq T
<1>1. SUFFICES ASSUME Nat \ T # {} PROVE FALSE
  OBVIOUS
<1>2. PICK m \in Nat \ T: \A n \in Nat \ T: m <= n
  BY <1>1, LeastNumber, Zenon
<1>3. m - 1 \in Nat /\ m - 1 \in T
  BY <1>2
<1>4. QED
  BY <1>2, <1>3

\* The values of a recursion up to n.
Recursive(g, base, step, n) ==
  g[0] = base /\ \A i \in 1..n: g[i] = step[<<i, g[i - 1]>>]

\* A recursion over 0..n is met by a function: the definition of one, a
\* CHOOSE, yields it.
LEMMA Recursion ==
  ASSUME NEW X, NEW base \in X, NEW n \in Nat,
         NEW step \in [(1..n) \X X -> X]
  PROVE  \E g \in [0..n -> X]: Recursive(g, base, step, n)
<1> DEFINE Meets(g, m) == Recursive(g, base, step, m)
           T == {m \in Nat: m <= n => \E g \in [0..m -> X]: Meets(g, m)}
<1>1. 0 \in T
  <2>1. [i \in 0..0 |-> base] \in [0..0 -> X] /\ Meets([i \in 0..0 |-> base], 0)
    BY DEF Recursive
  <2>2. QED
    BY <2>1
<1>2. ASSUME NEW m \in Nat, m \in T PROVE m + 1 \in T
  <2>1. SUFFICES ASSUME m + 1 <= n
                 PROVE  \E h \in [0..m + 1 -> X]: Meets(h, m + 1)
    <3> HIDE DEF Meets
    <3>1. QED
      OBVIOUS
  <2>2. PICK g \in [0..m -> X]: Meets(g, m)
    BY <1>2, <2>1
  <2> DEFINE h == [i \in 0..m + 1 |-> IF i = m + 1 THEN step[<<m + 1, g[m]>>]
                                      ELSE g[i]]
  <2>3. g[m] \in X /\ step[<<m + 1, g[m]>>] \in X
    BY <2>1
  <2>4. h \in [0..m + 1 -> X]
    BY <2>3
  <2>5. h[0] = base
    BY <2>2 DEF Recursive
  <2>6. ASSUME NEW i \in 1..m + 1 PROVE h[i] = step[<<i, h[i - 1]>>]
    <3>1. CASE i = m + 1
      <4>1. h[i] = step[<<m + 1, g[m]>>] /\ h[m] = g[m] /\ i - 1 = m
        BY <3>1
      <4>2. QED
        BY <4>1, <3>1
    <3>2. CASE i # m + 1
      <4>1. i \in 1..m /\ h[i] = g[i] /\ h[i - 1] = g[i - 1]
        BY <3>2
      <4>2. QED
        BY <4>1, <2>2 DEF Recursive
    <3>3. QED
      BY <3>1, <3>2
  <2>7. QED
    BY <2>4, <2>5, <2>6 DEF Recursive
<1>3. n \in T
  <2> HIDE DEF T
  <2>1. QED
    BY <1>1, <1>2, Induction
<1>4. QED
  BY <1>3
=============================================================================
