----------------------------- MODULE Recursion -----------------------------
(***************************************************************************)
(* Induction over the naturals and over finite sets, and the existence of  *)
(* recursive functions, with sets and functions in the place of the        *)
(* predicates and operators of NaturalsInduction: first-order facts that   *)
(* proofs about recursive definitions can cite.                            *)
(***************************************************************************)
EXTENDS Integers, FiniteSets, FiniteSetTheorems, WellFoundedInduction, TLAPS

\* A set of naturals with a member has a least one.
LEMMA LeastOf ==
  ASSUME NEW S \in SUBSET Nat, S # {}
  PROVE  \E least \in S : \A i \in S : least <= i
<1> DEFINE R == {p \in Nat \X Nat : p[1] < p[2]}
<1>1. IsWellFoundedOn(R, Nat)
  BY NatLessThanWellFounded DEF OpToRel
<1>2. PICK u \in S : \A y \in S : <<y, u>> \notin R
  <2> HIDE DEF R
  <2> QED
    BY <1>1, WFMin
<1>3. ASSUME NEW y \in S PROVE u <= y
  <2>1. y < u => <<y, u>> \in R
    OBVIOUS
  <2> QED
    BY <1>2, <2>1
<1> QED
  BY <1>3

LEMMA UpTo ==
  ASSUME NEW n \in Nat, NEW S, 0 \in S, \A i \in 0..(n - 1) : i \in S => i + 1 \in S
  PROVE  \A i \in 0..n : i \in S
<1> DEFINE Bad == {i \in 0..n : i \notin S}
<1> SUFFICES ASSUME Bad # {} PROVE FALSE
  OBVIOUS
<1>0. Bad \in SUBSET Nat
  OBVIOUS
<1>1. PICK least \in Bad : \A i \in Bad : least <= i
  <2> HIDE DEF Bad
  <2> QED
    BY <1>0, LeastOf
<1>2. least \in 0..n /\ least \notin S /\ least # 0
  OBVIOUS
<1>3. least - 1 \in 0..(n - 1) /\ least - 1 \in 0..n
  BY <1>2
<1>4. least - 1 \in S
  BY <1>1, <1>3
<1>5. (least - 1) + 1 \in S
  BY <1>3, <1>4
<1> QED
  BY <1>2, <1>5

\* f is defined on 0..n by primitive recursion.
Primitive(f, S, first, step, n) ==
  /\ f \in [0..n -> S]
  /\ f[0] = first
  /\ \A i \in 1..n : f[i] = step[<<f[i - 1], i>>]

LEMMA Recursive ==
  ASSUME NEW S, NEW first \in S, NEW step \in [S \X Nat -> S], NEW n \in Nat
  PROVE  \E f : Primitive(f, S, first, step, n)
<1> DEFINE Is(f, m) == f[0] = first /\ \A i \in 1..m : f[i] = step[<<f[i - 1], i>>]
           Good == {m \in Nat : \E f \in [0..m -> S] : Is(f, m)}
<1>1. 0 \in Good
  <2>1. [i \in 0..0 |-> first] \in [0..0 -> S] /\ Is([i \in 0..0 |-> first], 0)
    OBVIOUS
  <2> QED
    BY <2>1
<1>2. ASSUME NEW m \in 0..(n - 1), m \in Good PROVE m + 1 \in Good
  <2>1. PICK f \in [0..m -> S] : Is(f, m)
    BY <1>2
  <2> DEFINE g == [i \in 0..(m + 1) |-> IF i <= m THEN f[i] ELSE step[<<f[m], m + 1>>]]
  <2>2. g \in [0..(m + 1) -> S]
    OBVIOUS
  <2>3. g[0] = first
    BY <2>1
  <2>4. ASSUME NEW i \in 1..(m + 1) PROVE g[i] = step[<<g[i - 1], i>>]
    <3>1. CASE i <= m
      BY <2>1, <3>1
    <3>2. CASE i = m + 1
      BY <3>2
    <3> QED
      BY <3>1, <3>2
  <2> HIDE DEF g
  <2> QED
    BY <2>2, <2>3, <2>4
<1> HIDE DEF Good
<1>3. n \in Good
  BY <1>1, <1>2, UpTo
<1> QED
  BY <1>3 DEF Good, Primitive

\* What each step keeps holds of all values.
LEMMA RecursiveType ==
  ASSUME NEW S, NEW n \in Nat, NEW f, DOMAIN f = 0..n, f = [i \in DOMAIN f |-> f[i]], f[0] \in S,
         \A i \in 1..n : f[i - 1] \in S => f[i] \in S
  PROVE  f \in [0..n -> S]
<1> DEFINE T == {i \in 0..n : f[i] \in S}
<1>1. 0 \in T
  OBVIOUS
<1>2. ASSUME NEW i \in 0..(n - 1), i \in T PROVE i + 1 \in T
  <2>1. i + 1 \in 1..n /\ (i + 1) - 1 = i
    OBVIOUS
  <2> QED
    BY <1>2, <2>1
<1>3. \A i \in 0..n : i \in T
  <2> HIDE DEF T
  <2> QED
    BY <1>1, <1>2, UpTo
<1> QED
  BY <1>3

\* A finite set has a property that its empty subset has and that one more
\* element keeps.
LEMMA Finitely ==
  ASSUME NEW T, IsFiniteSet(T), NEW G \in SUBSET SUBSET T, {} \in G,
         \A U \in G, x \in T : U \cup {x} \in G
  PROVE  T \in G
<1> DEFINE Sizes == {k \in Nat : \E U \in G : Cardinality(T \ U) = k}
<1>1. \A U \in G : IsFiniteSet(T \ U) /\ Cardinality(T \ U) \in Nat
  BY FS_Subset, FS_CardinalityType
<1>2. Sizes \in SUBSET Nat /\ Sizes # {}
  BY <1>1
<1>3. PICK least \in Sizes : \A k \in Sizes : least <= k
  BY <1>2, LeastOf
<1>4. PICK U \in G : Cardinality(T \ U) = least
  BY <1>3
<1>5. ASSUME T \ U # {} PROVE FALSE
  <2>1. PICK x : x \in T \ U
    BY <1>5
  <2>2. U \cup {x} \in G /\ T \ (U \cup {x}) = (T \ U) \ {x}
    BY <2>1
  <2>3. Cardinality((T \ U) \ {x}) = least - 1
    BY <1>1, <1>4, <2>1, FS_RemoveElement
  <2>4. least - 1 \in Sizes
    BY <1>1, <2>2, <2>3
  <2> QED
    BY <1>3, <2>4
<1> QED
  BY <1>5
=============================================================================
