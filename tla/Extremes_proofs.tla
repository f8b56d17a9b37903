--------------------------- MODULE Extremes_proofs ---------------------------
(***************************************************************************)
(* Min and Max of a finite set of numbers.  The tables take their rowids   *)
(* and the queue its next job with them; their definitions are CHOOSEs, so *)
(* that a least and a greatest element exist has to be shown: the parts of *)
(* a finite set are well founded under strict inclusion.                   *)
(***************************************************************************)
EXTENDS Integers, FiniteSets, FiniteSetsExt, FiniteSetTheorems, TLAPS

\* Among parts of a finite set one has no other inside it.
LEMMA SmallestPart ==
    ASSUME NEW S, IsFiniteSet(S), NEW T, T # {}, \A X \in T : X \subseteq S
    PROVE  \E X \in T : \A Y \in T : Y \subseteq X => Y = X
<1>1. T \subseteq FiniteSubsetsOf(S)
  BY FS_FiniteSubsetsOfFinite
<1>2. IsWellFoundedOn(StrictSubsetOrdering(S), FiniteSubsetsOf(S))
  BY FS_StrictSubsetOrderingWellFounded
<1>3. PICK X \in T : \A Y \in T : <<Y, X>> \notin StrictSubsetOrdering(S)
  BY <1>1, <1>2, WFMin
<1> QED BY <1>3 DEF StrictSubsetOrdering

\* The queue's next job is one of the waiting ones, and none waits longer.
LEMMA MinOfNumbers ==
    ASSUME NEW S \in SUBSET Int, IsFiniteSet(S), S # {}
    PROVE  Min(S) \in S /\ \A x \in S : Min(S) =< x
<1> DEFINE Below(x) == {y \in S : y =< x}
<1>1. \E x \in S : \A y \in S : Below(y) \subseteq Below(x) => Below(y) = Below(x)
  <2> DEFINE T == {Below(x) : x \in S}
  <2> \A x \in S : Below(x) \subseteq S
    OBVIOUS
  <2> HIDE DEF Below
  <2>1. T # {} /\ \A X \in T : X \subseteq S
    OBVIOUS
  <2>2. \E X \in T : \A Y \in T : Y \subseteq X => Y = X
    <3> HIDE DEF T
    <3> QED BY <2>1, SmallestPart
  <2> QED BY <2>2
<1>2. PICK x \in S : \A y \in S : Below(y) \subseteq Below(x) => Below(y) = Below(x)
  <2> HIDE DEF Below
  <2> QED BY <1>1
<1>3. ASSUME NEW y \in S PROVE x =< y
  <2>1. x \in Int /\ y \in Int
    OBVIOUS
  <2>2. SUFFICES ASSUME y < x PROVE FALSE
    BY <2>1
  <2>3. ASSUME NEW z \in S, z =< y PROVE z =< x
    <3>1. z \in Int
      OBVIOUS
    <3> QED BY <2>1, <2>2, <2>3, <3>1
  <2>4. Below(y) \subseteq Below(x)
    BY <2>3
  <2>5. x \in Below(x) /\ x \notin Below(y)
    BY <2>1, <2>2
  <2> HIDE DEF Below
  <2> QED BY <1>2, <2>4, <2>5
<1> QED BY <1>3 DEF Min

\* A new rowid is greater than every rowid in use.
LEMMA MaxOfNumbers ==
    ASSUME NEW S \in SUBSET Int, IsFiniteSet(S), S # {}
    PROVE  Max(S) \in S /\ \A x \in S : Max(S) >= x
<1> DEFINE Above(x) == {y \in S : y >= x}
<1>1. \E x \in S : \A y \in S : Above(y) \subseteq Above(x) => Above(y) = Above(x)
  <2> DEFINE T == {Above(x) : x \in S}
  <2> \A x \in S : Above(x) \subseteq S
    OBVIOUS
  <2> HIDE DEF Above
  <2>1. T # {} /\ \A X \in T : X \subseteq S
    OBVIOUS
  <2>2. \E X \in T : \A Y \in T : Y \subseteq X => Y = X
    <3> HIDE DEF T
    <3> QED BY <2>1, SmallestPart
  <2> QED BY <2>2
<1>2. PICK x \in S : \A y \in S : Above(y) \subseteq Above(x) => Above(y) = Above(x)
  <2> HIDE DEF Above
  <2> QED BY <1>1
<1>3. ASSUME NEW y \in S PROVE x >= y
  <2>1. x \in Int /\ y \in Int
    OBVIOUS
  <2>2. SUFFICES ASSUME y > x PROVE FALSE
    BY <2>1
  <2>3. ASSUME NEW z \in S, z >= y PROVE z >= x
    <3>1. z \in Int
      OBVIOUS
    <3> QED BY <2>1, <2>2, <2>3, <3>1
  <2>4. Above(y) \subseteq Above(x)
    BY <2>3
  <2>5. x \in Above(x) /\ x \notin Above(y)
    BY <2>1, <2>2
  <2> HIDE DEF Above
  <2> QED BY <1>2, <2>4, <2>5
<1> QED BY <1>3 DEF Max

=============================================================================
