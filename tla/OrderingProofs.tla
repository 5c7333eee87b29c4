--------------------------- MODULE OrderingProofs ---------------------------
(***************************************************************************)
(* What the operators of Ordering do.  The induction is one over sets of   *)
(* numbers: a nonempty set has a least element.                            *)
(***************************************************************************)
EXTENDS Ordering, Sequences, SequencesExt, FiniteSetTheorems,
        WellFoundedInduction, TLAPS

\* What appending an element does to the members of a sequence.
LEMMA AppendIsOnce ==
  ASSUME NEW T, NEW s \in Seq(T), NEW r \in T
  PROVE  /\ Append(s, r) \in Seq(T)
         /\ ToSet(Append(s, r)) = ToSet(s) \cup {r}
         /\ (\A i, j \in DOMAIN s : s[i] = s[j] => i = j) /\ r \notin ToSet(s) =>
              \A i, j \in DOMAIN Append(s, r) :
                 Append(s, r)[i] = Append(s, r)[j] => i = j
<1>1. /\ Append(s, r) \in Seq(T) /\ Len(s) \in Nat
      /\ DOMAIN s = 1..Len(s) /\ DOMAIN Append(s, r) = 1..(Len(s) + 1)
      /\ \A i \in 1..Len(s) : Append(s, r)[i] = s[i]
      /\ Append(s, r)[Len(s) + 1] = r
  OBVIOUS
<1>2. \A i \in DOMAIN Append(s, r) : i \in DOMAIN s \/ i = Len(s) + 1
  BY <1>1
<1>3. \A i \in DOMAIN s : i \in DOMAIN Append(s, r) /\ Append(s, r)[i] = s[i]
  BY <1>1
<1>4. Len(s) + 1 \in DOMAIN Append(s, r)
  BY <1>1
<1> HIDE DEF ToSet
<1>5. ToSet(Append(s, r)) = ToSet(s) \cup {r}
  BY <1>1, <1>2, <1>3, <1>4, Zenon DEF ToSet
<1>6. ASSUME \A i, j \in DOMAIN s : s[i] = s[j] => i = j, r \notin ToSet(s)
      PROVE  \A i, j \in DOMAIN Append(s, r) :
               Append(s, r)[i] = Append(s, r)[j] => i = j
  <2>1. \A i \in DOMAIN s : s[i] # r
    BY <1>6 DEF ToSet
  <2> QED
    BY <1>1, <1>2, <1>3, <1>6, <2>1, Zenon
<1> QED
  BY <1>1, <1>5, <1>6

\* A nonempty set of numbers has a least element.
LEMMA LessThan == \A x, y \in Nat : <<x, y>> \in OpToRel(<, Nat) <=> x < y
BY Zenon DEF OpToRel

\* Every set of naturals that is not empty has a least element.
LEMMA LeastExists ==
  ASSUME NEW S \in SUBSET Nat, S # {}
  PROVE  \E x \in S : \A y \in S : x <= y
<1>1. PICK x \in S : \A y \in S : ~ (<<y, x>> \in OpToRel(<, Nat))
  BY WFMin, NatLessThanWellFounded, Zenon
<1>2. \A y \in S : ~ (y < x)
  BY <1>1, LessThan, Zenon
<1> QED
  BY <1>2

IsInOrder(s, S) ==
  /\ s \in [1..Cardinality(S) -> S]
  /\ \A i, j \in DOMAIN s : i < j => s[i] < s[j]

\* Every finite set of numbers can be put in order: the smallest one that could
\* not would, without its first number, be a smaller one.
LEMMA OrderExists ==
  ASSUME NEW S \in SUBSET Nat, IsFiniteSet(S)
  PROVE  \E s : IsInOrder(s, S)
<1> DEFINE Bad == {T \in SUBSET S : ~ \E s : IsInOrder(s, T)}
<1> DEFINE Sizes == {n \in Nat : \E T \in Bad : Cardinality(T) = n}
<1>0. \A T \in SUBSET S : IsFiniteSet(T) /\ Cardinality(T) \in Nat
  BY FS_Subset, FS_CardinalityType
<1>1. Sizes = {}
  <2> SUFFICES ASSUME Sizes # {} PROVE FALSE
    OBVIOUS
  <2>1. PICK m \in Sizes : \A k \in Sizes : m <= k
    <3>1. Sizes \subseteq Nat
      OBVIOUS
    <3> HIDE DEF Sizes
    <3> QED
      BY <3>1, LeastExists
  <2>2. PICK T \in Bad : Cardinality(T) = m
    OBVIOUS
  <2>3. T \subseteq S /\ T \subseteq Nat /\ m \in Nat /\ IsFiniteSet(T)
    BY <1>0
  <2>4. T # {}
    <3> SUFFICES ASSUME T = {} PROVE FALSE
      OBVIOUS
    <3>1. Cardinality(T) = 0
      BY FS_EmptySet
    <3>2. IsInOrder(<<>>, T)
      BY <3>1 DEF IsInOrder
    <3> QED
      BY <3>2
  <2>5. PICK x \in T : \A y \in T : x <= y
    BY <2>3, <2>4, LeastExists
  <2>6. IsFiniteSet(T \ {x}) /\ Cardinality(T \ {x}) = m - 1
    BY <2>2, <2>3, FS_RemoveElement
  <2>7. m - 1 \in Nat
    BY <2>3, <2>6, FS_CardinalityType
  <2>8. PICK s : IsInOrder(s, T \ {x})
    <3>1. m - 1 \notin Sizes
      BY <2>1, <2>3, <2>7
    <3>2. T \ {x} \notin Bad
      BY <2>6, <2>7, <3>1
    <3> QED
      BY <2>3, <3>2
  <2> DEFINE u == [i \in 1..m |-> IF i = 1 THEN x ELSE s[i - 1]]
  <2>9. IsInOrder(u, T)
    <3>1. /\ s \in [1..(m - 1) -> T \ {x}]
          /\ \A i, j \in 1..(m - 1) : i < j => s[i] < s[j]
      BY <2>6, <2>8 DEF IsInOrder
    <3>2. \A i \in 1..m : i # 1 => i - 1 \in 1..(m - 1) /\ s[i - 1] \in T \ {x}
      BY <3>1, <2>3
    <3>3. u \in [1..m -> T]
      BY <3>2
    <3>4. ASSUME NEW i \in 1..m, NEW j \in 1..m, i < j PROVE u[i] < u[j]
      <4>1. j # 1 /\ u[j] = s[j - 1]
        BY <3>4, <2>3
      <4>2. CASE i = 1
        <5>1. s[j - 1] \in T /\ s[j - 1] # x
          BY <3>2, <4>1
        <5>2. x <= s[j - 1] /\ x \in Nat /\ s[j - 1] \in Nat
          BY <2>3, <2>5, <5>1
        <5> QED
          BY <4>1, <4>2, <5>1, <5>2
      <4>3. CASE i # 1
        BY <4>1, <4>3, <3>1, <3>2, <3>4, <2>3
      <4> QED
        BY <4>2, <4>3
    <3> QED
      BY <3>3, <3>4, <2>2 DEF IsInOrder
  <2> QED
    BY <2>9
<1>2. ASSUME S \in Bad PROVE FALSE
  BY <1>0, <1>1, <1>2
<1> QED
  BY <1>2

\* InOrder() lists the numbers of a set, each of them once.
LEMMA InOrderLists ==
  ASSUME NEW S \in SUBSET Nat, IsFiniteSet(S)
  PROVE  /\ InOrder(S) \in [1..Cardinality(S) -> S]
         /\ InOrder(S) \in Seq(S) /\ Len(InOrder(S)) = Cardinality(S)
         /\ \A i, j \in DOMAIN InOrder(S) : InOrder(S)[i] = InOrder(S)[j] => i = j
         /\ ToSet(InOrder(S)) = S
         /\ S # {} => Head(InOrder(S)) \in S
<1> DEFINE s == InOrder(S)
<1>1. IsInOrder(s, S)
  BY OrderExists DEF InOrder, IsInOrder
<1>2. Cardinality(S) \in Nat /\ (S # {} => Cardinality(S) # 0)
  BY FS_CardinalityType, FS_EmptySet
<1> DEFINE n == Cardinality(S)
<1> HIDE DEF s, n
<1>3. s \in [1..n -> S] /\ \A i, j \in 1..n : i < j => s[i] < s[j]
  BY <1>1 DEF IsInOrder, n
<1>4. s \in Seq(S) /\ Len(s) = n
  BY <1>2, <1>3 DEF n
<1>5. \A i, j \in 1..n : s[i] = s[j] => i = j
  <2> SUFFICES ASSUME NEW i \in 1..n, NEW j \in 1..n, i # j
               PROVE  s[i] # s[j]
    OBVIOUS
  <2>1. i < j \/ j < i
    BY <1>2 DEF n
  <2>2. s[i] \in Nat /\ s[j] \in Nat
    BY <1>3
  <2> QED
    BY <1>3, <2>1, <2>2
<1>6. s \in Surjection(1..n, S)
  <2>1. s \in Injection(1..n, S)
    BY <1>3, <1>5 DEF Injection, IsInjective
  <2>2. Cardinality(1..n) = n
    BY <1>2, FS_Interval DEF n
  <2> QED
    BY <2>1, <2>2, FS_Injection DEF n
<1>7. ToSet(s) = S
  BY <1>3, <1>6 DEF ToSet, Surjection
<1>8. S # {} => Head(s) \in S
  BY <1>2, <1>3, <1>4 DEF n
<1> QED
  BY <1>3, <1>4, <1>5, <1>7, <1>8 DEF s, n

\* Only() keeps the elements of the set, each as often as it was there.
LEMMA OnlyKeeps ==
  ASSUME NEW T, NEW q \in Seq(T), NEW S
  PROVE  /\ Only(q, S) \in Seq(T)
         /\ ToSet(Only(q, S)) = ToSet(q) \cap S
         /\ (\A i, j \in DOMAIN q : q[i] = q[j] => i = j) =>
              \A i, j \in DOMAIN Only(q, S) : Only(q, S)[i] = Only(q, S)[j] => i = j
<1> DEFINE K == {k \in DOMAIN q : q[k] \in S}
           kept == InOrder(K)
<1>1. K \in SUBSET Nat /\ IsFiniteSet(K)
  <2>1. DOMAIN q = 1..Len(q) /\ Len(q) \in Nat
    OBVIOUS
  <2>2. IsFiniteSet(1..Len(q))
    BY <2>1, FS_Interval
  <2> QED
    BY <2>1, <2>2, FS_Subset
<1>2. PICK n \in Nat : kept \in [1..n -> K]
  BY <1>1, InOrderLists, FS_CardinalityType
<1>3. /\ \A i, j \in DOMAIN kept : kept[i] = kept[j] => i = j
      /\ ToSet(kept) = K
  BY <1>1, InOrderLists
<1>4. Only(q, S) = [i \in DOMAIN kept |-> q[kept[i]]]
  BY DEF Only
<1>5. PICK u : u = Only(q, S)
  OBVIOUS
<1>6. \A k \in K : k \in DOMAIN q /\ q[k] \in S /\ q[k] \in T
  OBVIOUS
<1>7. \A k \in DOMAIN q : q[k] \in S => k \in K
  OBVIOUS
<1> HIDE DEF K, kept
<1>8. /\ DOMAIN kept = 1..n /\ DOMAIN u = 1..n
      /\ \A i \in 1..n : kept[i] \in K /\ u[i] = q[kept[i]]
  BY <1>2, <1>4, <1>5
<1>9. u = [i \in 1..n |-> q[kept[i]]]
  BY <1>4, <1>5, <1>8
<1>10. u \in Seq(T)
  BY <1>2, <1>6, <1>8, <1>9
<1>11. ToSet(u) = ToSet(q) \cap S
  <2>1. ASSUME NEW k \in K PROVE \E i \in 1..n : kept[i] = k
    BY <1>3, <1>8 DEF ToSet
  <2>2. \A x \in ToSet(u) : x \in ToSet(q) /\ x \in S
    BY <1>6, <1>8 DEF ToSet
  <2>3. ASSUME NEW k \in DOMAIN q, q[k] \in S PROVE q[k] \in ToSet(u)
    <3>1. PICK i \in 1..n : kept[i] = k
      BY <2>1, <2>3, <1>7
    <3> QED
      BY <1>8, <3>1 DEF ToSet
  <2> QED
    BY <2>2, <2>3 DEF ToSet
<1>12. (\A i, j \in DOMAIN q : q[i] = q[j] => i = j) =>
        \A i, j \in DOMAIN u : u[i] = u[j] => i = j
  BY <1>3, <1>6, <1>8
<1> QED
  BY <1>5, <1>10, <1>11, <1>12
=============================================================================
