---------------------------- MODULE TableProofs ----------------------------
(***************************************************************************)
(* Proofs about the table of handles, for tables of any finite size, and   *)
(* the facts about finite sets that they and the proofs about the rows of  *)
(* the cache and the runs of the updates rest on.                          *)
(***************************************************************************)
EXTENDS OpenFileHandles, TLAPS, FiniteSetTheorems, WellFoundedInduction

\* Sets of numbers that are not empty have one that no other is below.
LEMMA SomeNumberIsLeast ==
  ASSUME NEW C \in SUBSET Nat, C # {}
  PROVE  \E m \in C : \A n \in C : ~(n < m)
<1>1. PICK m \in C : \A n \in C : <<n, m>> \notin OpToRel(<, Nat)
  BY NatLessThanWellFounded, WFMin, Zenon
<1> QED
  BY <1>1 DEF OpToRel

\* So have sets of finite sets one that no other is strictly within.
LEMMA SomeSetIsLeast ==
  ASSUME NEW U, IsFiniteSet(U), NEW C \in SUBSET (SUBSET U), C # {}
  PROVE  \E S \in C : \A T \in C : ~(T \subseteq S /\ T # S)
<1>1. IsWellFoundedOn(StrictSubsetOrdering(U), SUBSET U)
  BY FS_StrictSubsetOrderingWellFounded, FS_FiniteSubsetsOfFinite
<1>2. PICK S \in C : \A T \in C : <<T, S>> \notin StrictSubsetOrdering(U)
  BY <1>1, WFMin, Zenon
<1>3. \A T \in C : T \in SUBSET U /\ S \in SUBSET U
  OBVIOUS
<1> QED
  BY <1>2, <1>3 DEF StrictSubsetOrdering

\* One of finitely many elements has the greatest number: the one with the fewest above
\* it.
LEMMA SomeNumberIsGreatest ==
  ASSUME NEW S, IsFiniteSet(S), S # {}, NEW f \in [S -> Nat]
  PROVE  \E x \in S : \A y \in S : f[y] <= f[x]
<1> DEFINE above == [x \in S |-> {y \in S : f[y] > f[x]}]
<1>1. PICK x \in S : \A y \in S : ~(above[y] \subseteq above[x] /\ above[y] # above[x])
  <2>1. \A y \in S : above[y] \in SUBSET S
    OBVIOUS
  <2> HIDE DEF above
  <2> DEFINE C == {above[y] : y \in S}
  <2>2. C \in SUBSET (SUBSET S)
    BY <2>1
  <2>3. C # {}
    OBVIOUS
  <2>4. \A y \in S : above[y] \in C
    OBVIOUS
  <2>5. \A X \in C : \E y \in S : X = above[y]
    OBVIOUS
  <2> HIDE DEF C
  <2>6. PICK X \in C : \A T \in C : ~(T \subseteq X /\ T # X)
    BY <2>2, <2>3, SomeSetIsLeast
  <2>7. PICK y \in S : X = above[y]
    BY <2>5
  <2>8. \A z \in S : ~(above[z] \subseteq above[y] /\ above[z] # above[y])
    BY <2>4, <2>6, <2>7
  <2> QED
    BY <2>8
<1>2. ASSUME NEW y \in S, f[y] > f[x] PROVE FALSE
  <2>1. \A z \in S : f[z] > f[y] => f[z] > f[x]
    BY <1>2
  <2>2. above[y] \subseteq above[x]
    BY <2>1
  <2>3. y \in above[x] /\ y \notin above[y]
    BY <1>2
  <2> QED
    BY <1>1, <2>2, <2>3
<1> QED
  BY <1>2

\* The place after the last of finitely many rows is a number, and so is the first
\* (NextPlace of PhotoDb).
LEMMA PlaceIsLast ==
  ASSUME NEW rows, IsFiniteSet(rows), \A r \in rows : r.place \in Nat
  PROVE  LET places == {r.place : r \in rows}
         IN  (IF places = {} THEN 1
                             ELSE (CHOOSE k \in places : \A l \in places : l <= k) + 1) \in Nat
<1> DEFINE places == {r.place : r \in rows}
<1>1. ASSUME rows # {} PROVE \E k \in places : \A l \in places : l <= k
  <2> DEFINE f == [r \in rows |-> r.place]
  <2>1. f \in [rows -> Nat]
    OBVIOUS
  <2> HIDE DEF f
  <2>2. PICK r \in rows : \A s \in rows : f[s] <= f[r]
    BY <1>1, <2>1, SomeNumberIsGreatest
  <2> QED
    BY <2>2 DEF f
<1>2. places \subseteq Nat
  OBVIOUS
<1>3. places # {} => rows # {}
  OBVIOUS
<1> HIDE DEF places
<1>4. ASSUME places # {}
      PROVE  (CHOOSE k \in places : \A l \in places : l <= k) \in Nat
  <2>1. PICK k \in places : \A l \in places : l <= k
    BY <1>1, <1>3, <1>4
  <2>2. (CHOOSE m \in places : \A l \in places : l <= m) \in places
    BY <2>1, Zenon
  <2> QED
    BY <1>2, <2>2
<1> QED
  BY <1>4 DEF places

\* A set of numbers that is not empty has a smallest element, which Min returns.
LEMMA MinIsSmallest ==
  ASSUME NEW S \in SUBSET Nat, S # {}
  PROVE  Min(S) \in S /\ \A y \in S : Min(S) <= y
<1>1. PICK x \in S : \A y \in S : ~(y < x)
  BY SomeNumberIsLeast
<1>2. \A y \in S : x <= y
  BY <1>1
<1> QED
  BY <1>2 DEF Min

\* A finite set leaves a number free among 0 and the numbers up to its size.
LEMMA SomeHandleIsFree ==
  ASSUME NEW D, IsFiniteSet(D)
  PROVE  Cardinality(D) \in Nat /\ (0..Cardinality(D)) \ D # {}
<1>1. Cardinality(D) \in Nat
  BY FS_CardinalityType
<1>2. Cardinality(0..Cardinality(D)) = Cardinality(D) + 1
  BY <1>1, FS_Interval
<1>3. SUFFICES ASSUME 0..Cardinality(D) \subseteq D PROVE FALSE
  BY <1>1
<1>4. Cardinality(0..Cardinality(D)) <= Cardinality(D)
  BY <1>3, FS_Subset
<1> QED
  BY <1>1, <1>2, <1>4

\* The loop of open() ends at an unused handle, after at most as many tries as handles
\* are in use (utils.rs:47-55).
THEOREM FreeHandleIsFree ==
  ASSUME NEW fhs, IsFiniteSet(DOMAIN fhs)
  PROVE  /\ FreeHandle(fhs) \notin DOMAIN fhs
         /\ FreeHandle(fhs) \in 0..Cardinality(DOMAIN fhs)
<1> DEFINE S == (0..Cardinality(DOMAIN fhs)) \ DOMAIN fhs
<1>1. Cardinality(DOMAIN fhs) \in Nat /\ S # {}
  BY SomeHandleIsFree
<1>2. S \in SUBSET Nat
  BY <1>1
<1> HIDE DEF S
<1>3. Min(S) \in S
  BY <1>1, <1>2, MinIsSmallest
<1>4. FreeHandle(fhs) = Min(S)
  BY DEF FreeHandle, S
<1> QED
  BY <1>3, <1>4 DEF S
=============================================================================
