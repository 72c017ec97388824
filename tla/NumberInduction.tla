-------------------------- MODULE NumberInduction --------------------------
(***************************************************************************)
(* Induction on numbers, as lemmas about sets of numbers.  The intervals   *)
(* 1..n are finite sets, which strict inclusion orders well; so a set of   *)
(* numbers has a least one, and a set that has every number with all       *)
(* smaller ones has them all.  What a function defined by recursion over a *)
(* sequence returns is proved with them.                                   *)
(***************************************************************************)
EXTENDS Naturals, FiniteSetTheorems, WellFoundedInduction, TLAPS

\* Every set of numbers has a least one.
LEMMA LeastNumber ==
  ASSUME NEW T \in SUBSET Nat, T # {}
  PROVE  \E n \in T : \A m \in T : n <= m
  <1> DEFINE Below == {1..n : n \in T}
  <1>1. \A n \in T : 1..n \in FiniteSubsetsOf(Nat)
    BY FS_Interval DEF FiniteSubsetsOf
  <1>2. Below \subseteq FiniteSubsetsOf(Nat) /\ Below # {}
    BY <1>1
  <1>3. PICK B \in Below : \A C \in Below : <<C, B>> \notin StrictSubsetOrdering(Nat)
    <2> HIDE DEF Below
    <2>1. QED
      BY <1>2, FS_StrictSubsetOrderingWellFounded, WFMin, Zenon
  <1>4. PICK n \in T : B = 1..n
    OBVIOUS
  <1>5. ASSUME NEW m \in T PROVE n <= m
    <2>1. <<1..m, B>> \notin StrictSubsetOrdering(Nat)
      BY <1>3
    <2>2. SUFFICES ASSUME m < n PROVE FALSE
      OBVIOUS
    <2>3. 1..m \subseteq 1..n /\ n \in 1..n /\ n \notin 1..m
      BY <2>2
    <2>4. QED
      BY <2>1, <2>3, <1>4, <1>1 DEF StrictSubsetOrdering, FiniteSubsetsOf
  <1>6. QED
    BY <1>5

\* What holds of a number when it holds of all smaller ones holds of all.
LEMMA FromTheStart ==
  ASSUME NEW S, \A n \in Nat : (\A m \in Nat : m < n => m \in S) => n \in S
  PROVE  Nat \subseteq S
  <1> DEFINE T == Nat \ S
  <1>1. SUFFICES ASSUME T # {} PROVE FALSE
    BY <1>1
  <1>2. PICK n \in T : \A m \in T : n <= m
    <2>1. T \in SUBSET Nat
      OBVIOUS
    <2> HIDE DEF T
    <2>2. QED
      BY <1>1, <2>1, LeastNumber
  <1>3. ASSUME NEW m \in Nat, m < n PROVE m \in S
    <2>1. SUFFICES ASSUME m \notin S PROVE FALSE
      OBVIOUS
    <2>2. m \in T
      BY <2>1
    <2>3. n <= m
      BY <1>2, <2>2
    <2>4. QED
      BY <1>3, <2>3
  <1>4. n \in S
    BY <1>3
  <1>5. QED
    BY <1>4

\* What holds of a place when it holds of all places behind it holds of all.
LEMMA FromTheEnd ==
  ASSUME NEW n \in Nat, NEW S, \A i \in 1..n : i + 1..n \subseteq S => i \in S
  PROVE  1..n \subseteq S
  <1> DEFINE T == {k \in Nat : k < n /\ n - k \notin S}
  <1>1. SUFFICES ASSUME T # {} PROVE FALSE
    <2>1. SUFFICES ASSUME NEW i \in 1..n, i \notin S PROVE FALSE
      BY <1>1
    <2>2. n - i \in T
      <3>1. n - i \in Nat /\ n - i < n /\ n - (n - i) = i
        BY <2>1
      <3>2. QED
        BY <2>1, <3>1
    <2>3. QED
      BY <1>1, <2>2
  <1>2. PICK k \in T : \A m \in T : k <= m
    <2>1. T \in SUBSET Nat
      OBVIOUS
    <2> HIDE DEF T
    <2>2. QED
      BY <1>1, <2>1, LeastNumber
  <1>3. PICK i \in 1..n : i = n - k /\ i \notin S
    <2>1. n - k \in 1..n /\ n - k \notin S
      OBVIOUS
    <2>2. QED
      BY <2>1
  <1>4. ASSUME NEW j \in i + 1..n PROVE j \in S
    <2>1. SUFFICES ASSUME j \notin S PROVE FALSE
      OBVIOUS
    <2>2. n - j \in Nat /\ n - j < n /\ n - (n - j) = j /\ n - j < k
      BY <1>3
    <2>3. n - j \in T
      BY <2>1, <2>2
    <2>4. k <= n - j
      BY <1>2, <2>3
    <2>5. QED
      BY <2>2, <2>4
  <1>5. QED
    BY <1>3, <1>4
=============================================================================
