------------------------------- MODULE Counting -------------------------------
(***************************************************************************)
(* How the size of a set, and a bound on it, follow a step that adds or    *)
(* removes at most one element.                                            *)
(***************************************************************************)
EXTENDS FiniteSets, FiniteSetTheorems, TLAPS

\* A finite set with at most b elements.
AtMost(S, b) == IsFiniteSet(S) /\ Cardinality(S) <= b

\* Nothing to count.
LEMMA CountNone ==
  ASSUME NEW S, S = {}
  PROVE  AtMost(S, 0)
BY FS_EmptySet DEF AtMost

\* What loses elements, or keeps them, keeps its bound.
LEMMA CountNoMore ==
  ASSUME NEW S, NEW b \in Nat, AtMost(S, b), NEW T, T \subseteq S
  PROVE  AtMost(T, b) /\ AtMost(T, b + 1)
<1>1. Cardinality(S) \in Nat /\ Cardinality(S) <= b
  BY FS_CardinalityType DEF AtMost
<1>2. IsFiniteSet(T) /\ Cardinality(T) <= Cardinality(S)
  BY FS_Subset DEF AtMost
<1>3. Cardinality(T) \in Nat
  BY <1>2, FS_CardinalityType
<1> QED  BY <1>1, <1>2, <1>3 DEF AtMost

\* One new element at most needs one more at most.
LEMMA CountOneMore ==
  ASSUME NEW S, NEW b \in Nat, AtMost(S, b), NEW T, NEW x, T \subseteq S \cup {x}
  PROVE  AtMost(T, b + 1)
<1>1. Cardinality(S) \in Nat /\ Cardinality(S) <= b
  BY FS_CardinalityType DEF AtMost
<1>2. IsFiniteSet(S \cup {x}) /\ Cardinality(S \cup {x}) <= Cardinality(S) + 1
  BY <1>1, FS_AddElement DEF AtMost
<1>3. IsFiniteSet(T) /\ Cardinality(T) <= Cardinality(S \cup {x})
  BY <1>2, FS_Subset
<1>4. Cardinality(T) \in Nat /\ Cardinality(S \cup {x}) \in Nat
  BY <1>2, <1>3, FS_CardinalityType
<1> QED  BY <1>1, <1>2, <1>3, <1>4 DEF AtMost

\* An element that goes makes room for one that comes.
LEMMA CountExchange ==
  ASSUME NEW S, NEW b \in Nat, AtMost(S, b), NEW x, NEW y \in S, NEW T,
         T \subseteq (S \ {y}) \cup {x}
  PROVE  AtMost(T, b)
<1>1. Cardinality(S) \in Nat /\ Cardinality(S) <= b
  BY FS_CardinalityType DEF AtMost
<1>2. IsFiniteSet(S \ {y}) /\ Cardinality(S \ {y}) = Cardinality(S) - 1
  BY FS_RemoveElement DEF AtMost
<1>3. Cardinality(S \ {y}) \in Nat
  BY <1>2, FS_CardinalityType
<1>4. b - 1 \in Nat /\ AtMost(S \ {y}, b - 1)
  BY <1>1, <1>2, <1>3 DEF AtMost
<1>5. AtMost(T, (b - 1) + 1)
  BY <1>4, CountOneMore
<1> QED  BY <1>5

\* A set that maps one to one into another has no more elements.
LEMMA CountMapped ==
  ASSUME NEW S, NEW T, NEW b \in Nat, AtMost(T, b), NEW f \in [S -> T],
         \A x, y \in S : f[x] = f[y] => x = y
  PROVE  AtMost(S, b)
<1>1. f \in Injection(S, T)
  BY DEF Injection, IsInjective
<1>2. IsFiniteSet(S) /\ Cardinality(S) <= Cardinality(T)
  BY <1>1, FS_Injection DEF AtMost
<1>3. Cardinality(S) \in Nat /\ Cardinality(T) \in Nat /\ Cardinality(T) <= b
  BY <1>2, FS_CardinalityType DEF AtMost
<1> QED  BY <1>2, <1>3 DEF AtMost
=============================================================================
