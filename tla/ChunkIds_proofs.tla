---------------------------- MODULE ChunkIds_proofs ----------------------------
(***************************************************************************)
(* What the proofs about peers need to know of chunk ids: least members,   *)
(* and the newest ones of a finite set, which a chunk buffer keeps.        *)
(***************************************************************************)
EXTENDS Integers, FiniteSetTheorems, WellFoundedInduction, TLAPS

(* A nonempty set of naturals has a least member. *)
LEMMA LeastOf ==
    ASSUME NEW S \in SUBSET Nat, S # {}
    PROVE  \E x \in S : \A y \in S : x <= y
<1> DEFINE Less == {ss \in Nat \X Nat : ss[1] < ss[2]}
<1>1. IsWellFoundedOn(Less, Nat)
  BY NatLessThanWellFounded DEF OpToRel
<1>2. \A x \in Nat, y \in Nat : <<y, x>> \notin Less => x <= y
  OBVIOUS
<1> HIDE DEF Less
<1>3. PICK x \in S : \A y \in S : ~(<<y, x>> \in Less)
  BY <1>1, WFMin
<1> QED BY <1>2, <1>3

Above(S, x) == {d \in S : d > x}

(* The newest members of a set: those with fewer than room above them.     *)
NewestOf(S, room) == {x \in S : Cardinality(Above(S, x)) < room}

(* NewestOf drops only what enough newer chunks make too old, and keeps    *)
(* enough of these.                                                        *)
LEMMA NewestKeeps ==
    ASSUME NEW room \in Nat \ {0}, NEW U \in SUBSET Nat, IsFiniteSet(U),
           NEW e \in Nat,
           Cardinality(Above(U, e)) >= room
    PROVE  Cardinality(Above(NewestOf(U, room), e)) >= room
<1>1. \A x : IsFiniteSet(Above(U, x)) /\ Cardinality(Above(U, x)) \in Nat
  BY FS_Subset, FS_CardinalityType DEF Above
<1> DEFINE A == {x \in Above(U, e) : Cardinality(Above(U, x)) >= room}
<1>n. \A x \in U : Cardinality(Above(U, x)) < room => x \in NewestOf(U, room)
  BY DEF NewestOf, Above
<1>2. CASE A = {}
  <2>1. ASSUME NEW x \in Above(U, e) PROVE x \in Above(NewestOf(U, room), e)
    <3>1. Cardinality(Above(U, x)) < room
      BY <1>1, <1>2
    <3> QED BY <1>n, <3>1 DEF Above
  <2>2. Above(NewestOf(U, room), e) = Above(U, e)
    BY <2>1 DEF NewestOf, Above
  <2> QED BY <2>2
<1>3. CASE A # {}
  <2> DEFINE K == {Cardinality(Above(U, x)) : x \in A}
  <2>1. K \in SUBSET Nat /\ K # {}
    BY <1>1, <1>3
  <2>2. PICK k \in K : \A j \in K : k <= j
    BY <2>1, LeastOf
  <2>3. PICK x \in A : \A y \in A : Cardinality(Above(U, x)) <= Cardinality(Above(U, y))
    BY <2>2
  <2>4. x \in U /\ x > e /\ Cardinality(Above(U, x)) >= room
    BY <2>3 DEF Above
  <2>5. ASSUME NEW d \in Above(U, x) PROVE d \in Above(NewestOf(U, room), e)
    <3>1. d \in U /\ d > x /\ d \in Nat /\ x \in Nat
      BY <2>4 DEF Above
    <3>2. Above(U, d) \subseteq Above(U, x) /\ Above(U, d) # Above(U, x)
      <4>1. \A y \in U : y > d => y > x
        BY <3>1
      <4>2. d \in Above(U, x) /\ d \notin Above(U, d)
        BY <3>1 DEF Above
      <4> QED BY <4>1, <4>2 DEF Above
    <3>3. Cardinality(Above(U, d)) < Cardinality(Above(U, x))
      BY <1>1, <3>2, FS_Subset
    <3>4. d \in Above(U, e)
      BY <2>4, <3>1 DEF Above
    <3>5. d \notin A
      BY <1>1, <2>3, <3>3
    <3>6. Cardinality(Above(U, d)) < room
      BY <1>1, <3>4, <3>5
    <3> QED BY <1>n, <3>1, <3>4, <3>6 DEF Above
  <2>6. Above(U, x) \subseteq Above(NewestOf(U, room), e) /\ IsFiniteSet(Above(NewestOf(U, room), e))
    <3>1. IsFiniteSet(NewestOf(U, room)) /\ Above(NewestOf(U, room), e) \subseteq NewestOf(U, room)
      BY FS_Subset DEF NewestOf, Above
    <3> QED BY <2>5, <3>1, FS_Subset
  <2>7. Cardinality(Above(U, x)) <= Cardinality(Above(NewestOf(U, room), e))
    BY <2>6, FS_Subset
  <2>8. Cardinality(Above(NewestOf(U, room), e)) \in Nat
    BY <2>6, FS_CardinalityType
  <2> QED BY <1>1, <2>4, <2>7, <2>8
<1> QED BY <1>2, <1>3

(* There are no more than room of the newest: above the least of them are  *)
(* all the others.                                                         *)
LEMMA NewestFit ==
    ASSUME NEW room \in Nat \ {0}, NEW U \in SUBSET Nat, IsFiniteSet(U)
    PROVE  Cardinality(NewestOf(U, room)) <= room
<1> DEFINE N == NewestOf(U, room)
<1>1. N \in SUBSET U /\ N \in SUBSET Nat /\ IsFiniteSet(N)
  BY FS_Subset DEF NewestOf
<1>2. CASE N = {}
  BY <1>2, FS_EmptySet
<1>3. CASE N # {}
  <2>1. PICK x \in N : \A y \in N : x <= y
    BY <1>1, <1>3, LeastOf
  <2>2. Cardinality(Above(U, x)) < room
    BY <2>1 DEF NewestOf, Above
  <2>3. N \ {x} \subseteq Above(U, x)
    <3>1. ASSUME NEW y \in N \ {x} PROVE y \in U /\ y > x
      BY <1>1, <2>1, <3>1
    <3> QED BY <3>1 DEF Above
  <2>4. IsFiniteSet(Above(U, x)) /\ Cardinality(Above(U, x)) \in Nat
    BY FS_Subset, FS_CardinalityType DEF Above
  <2>5. Cardinality(N \ {x}) <= Cardinality(Above(U, x))
    BY <2>3, <2>4, FS_Subset
  <2>6. Cardinality(N \ {x}) = Cardinality(N) - 1 /\ Cardinality(N) \in Nat
    BY <1>1, <2>1, FS_RemoveElement, FS_CardinalityType
  <2> QED BY <2>2, <2>4, <2>5, <2>6
<1> QED BY <1>2, <1>3

(* What is not among the newest is older than all of these, and there are  *)
(* as many of these as there is room for.                                  *)
LEMMA NewestDrop ==
    ASSUME NEW room \in Nat \ {0}, NEW U \in SUBSET Nat, IsFiniteSet(U),
           NEW e \in U \ NewestOf(U, room)
    PROVE  /\ \A x \in NewestOf(U, room) : e < x
           /\ Cardinality(NewestOf(U, room)) = room
<1> DEFINE N == NewestOf(U, room)
<1>1. N \in SUBSET U /\ IsFiniteSet(N) /\ Cardinality(N) \in Nat
  BY FS_Subset, FS_CardinalityType DEF NewestOf
<1>2. \A x : IsFiniteSet(Above(U, x)) /\ Cardinality(Above(U, x)) \in Nat
  BY FS_Subset, FS_CardinalityType DEF Above
<1>3. e \in Nat /\ Cardinality(Above(U, e)) >= room
  BY <1>2 DEF NewestOf, Above
<1>4. ASSUME NEW x \in N PROVE e < x
  <2>1. x \in Nat /\ x # e /\ Cardinality(Above(U, x)) < room
    BY <1>1 DEF NewestOf, Above
  <2>2. CASE x < e
    <3>1. \A d \in U : d > e => d > x
      BY <1>3, <2>1, <2>2
    <3>2. Above(U, e) \subseteq Above(U, x)
      BY <3>1 DEF Above
    <3>3. Cardinality(Above(U, e)) <= Cardinality(Above(U, x))
      BY <1>2, <3>2, FS_Subset
    <3> QED BY <1>2, <1>3, <2>1, <3>3
  <2> QED BY <1>3, <2>1, <2>2
<1>5. Cardinality(Above(N, e)) >= room
  BY <1>3, NewestKeeps
<1>6. Above(N, e) \in SUBSET N
  BY DEF Above
<1>7. Cardinality(Above(N, e)) <= Cardinality(N) /\ Cardinality(Above(N, e)) \in Nat
  BY <1>1, <1>6, FS_Subset, FS_CardinalityType
<1>8. Cardinality(N) <= room
  BY NewestFit
<1> QED BY <1>1, <1>4, <1>5, <1>7, <1>8

(* What is among the newest and one more, or was too old for them, is or   *)
(* is too old.                                                             *)
LEMMA AddKeeps ==
    ASSUME NEW room \in Nat \ {0}, NEW S \in SUBSET Nat, IsFiniteSet(S),
           NEW c \in Nat, NEW e \in Nat,
           e \in S \cup {c} \/ Cardinality(Above(S, e)) >= room
    PROVE  \/ e \in NewestOf(S \cup {c}, room)
           \/ Cardinality(Above(NewestOf(S \cup {c}, room), e)) >= room
<1> DEFINE U == S \cup {c}
<1>1. U \in SUBSET Nat /\ IsFiniteSet(U)
  BY FS_AddElement
<1>2. /\ IsFiniteSet(Above(U, e)) /\ Above(S, e) \subseteq Above(U, e)
      /\ Cardinality(Above(U, e)) \in Nat
  BY <1>1, FS_Subset, FS_CardinalityType DEF Above
<1>3. CASE e \in U
  <2>1. e \in NewestOf(U, room) \/ Cardinality(Above(U, e)) >= room
    BY <1>2, <1>3 DEF NewestOf, Above
  <2> QED BY <1>1, <2>1, NewestKeeps
<1>4. CASE Cardinality(Above(S, e)) >= room
  <2>1. Cardinality(Above(S, e)) <= Cardinality(Above(U, e)) /\ Cardinality(Above(S, e)) \in Nat
    BY <1>2, FS_Subset, FS_CardinalityType
  <2>2. Cardinality(Above(U, e)) >= room
    BY <1>2, <1>4, <2>1
  <2> QED BY <1>1, <2>2, NewestKeeps
<1> QED BY <1>3, <1>4

(* The newest of a finite set and one more are a finite set. *)
LEMMA AddFinite ==
    ASSUME NEW room, NEW S, IsFiniteSet(S), NEW c
    PROVE  /\ NewestOf(S \cup {c}, room) \subseteq S \cup {c}
           /\ IsFiniteSet(NewestOf(S \cup {c}, room))
<1>1. IsFiniteSet(S \cup {c}) /\ NewestOf(S \cup {c}, room) \subseteq S \cup {c}
  BY FS_AddElement DEF NewestOf
<1> QED BY <1>1, FS_Subset
===============================================================================
