-------------------------- MODULE FindServerProofs --------------------------
(***************************************************************************)
(* The agent for any number of children, services, requests, changes and   *)
(* faults.  First what the operators of the service table do to a table,   *)
(* its loops included; then the inductive invariant: the numbers of the    *)
(* children, their vectors, the table, the requests, the two counters.     *)
(***************************************************************************)
EXTENDS FindServer, OrderingProofs

-----------------------------------------------------------------------------
(* Sequences. *)

OnceEach(s) == \A i, j \in 1 .. Len(s) : s[i] = s[j] => i = j

\* The elements of a sequence, by their places.
LEMMA Elements ==
  ASSUME NEW S, NEW s \in Seq(S), NEW x
  PROVE  /\ x \in ToSet(s) <=> \E i \in 1 .. Len(s) : s[i] = x
         /\ Contains(s, x) <=> x \in ToSet(s)
         /\ x \in ToSet(s) => x \in S
<1>1. DOMAIN s = 1 .. Len(s) /\ \A i \in 1 .. Len(s) : s[i] \in S
  OBVIOUS
<1>2. x \in ToSet(s) <=> \E i \in 1 .. Len(s) : s[i] = x
  BY <1>1, Zenon DEF ToSet
<1> QED
  BY <1>1, <1>2, Zenon DEF Contains

\* What comes after the place i moves down by one.
LEMMA ShiftedIs ==
  ASSUME NEW S, NEW s \in Seq(S), NEW i \in 1 .. Len(s) + 1
  PROVE  /\ Shifted(s, i) \in Seq(S)
         /\ s # <<>> => Len(Shifted(s, i)) = Len(s) - 1
         /\ s = <<>> => Shifted(s, i) = <<>>
         /\ \A j \in 1 .. Len(Shifted(s, i)) :
              /\ j \in 1 .. Len(s) /\ j + 1 \in 1 .. Len(s)
              /\ Shifted(s, i)[j] = IF j < i THEN s[j] ELSE s[j + 1]
<1>1. Len(s) \in Nat /\ \A j \in 1 .. Len(s) : s[j] \in S
  OBVIOUS
<1>2. \A j \in 1 .. Len(s) - 1 : j \in 1 .. Len(s) /\ j + 1 \in 1 .. Len(s)
  BY <1>1
<1>3. \A j \in 1 .. Len(s) - 1 : (IF j < i THEN s[j] ELSE s[j + 1]) \in S
  BY <1>1, <1>2
<1>4. CASE s = <<>>
  <2>1. Len(s) - 1 = -1 /\ 1 .. -1 = {}
    BY <1>4
  <2>2. Shifted(s, i) = [j \in 1 .. 0 |-> IF j < i THEN s[j] ELSE s[j + 1]]
    BY <2>1 DEF Shifted
  <2>3. Shifted(s, i) = <<>>
    BY <2>2
  <2>4. <<>> \in Seq(S) /\ Len(<<>>) = 0 /\ 1 .. 0 = {}
    OBVIOUS
  <2> QED
    BY <1>4, <2>3, <2>4, Zenon
<1>5. CASE s # <<>>
  <2>1. Len(s) - 1 \in Nat
    BY <1>1, <1>5
  <2>2. Shifted(s, i) \in [1 .. Len(s) - 1 -> S]
    BY <1>3 DEF Shifted
  <2>3. Shifted(s, i) \in Seq(S) /\ Len(Shifted(s, i)) = Len(s) - 1
    BY <2>1, <2>2
  <2>4. \A j \in 1 .. Len(s) - 1 :
          Shifted(s, i)[j] = IF j < i THEN s[j] ELSE s[j + 1]
    BY DEF Shifted
  <2> QED
    BY <1>2, <1>5, <2>3, <2>4
<1> QED
  BY <1>4, <1>5

\* The array loses one element, the one at i, or the last one.
LEMMA ShiftedElements ==
  ASSUME NEW S, NEW s \in Seq(S), NEW i \in 1 .. Len(s) + 1, OnceEach(s)
  PROVE  /\ OnceEach(Shifted(s, i))
         /\ ToSet(Shifted(s, i)) \subseteq ToSet(s)
         /\ i <= Len(s) => ToSet(Shifted(s, i)) = ToSet(s) \ {s[i]}
<1> DEFINE d == Shifted(s, i)
<1>1. /\ d \in Seq(S) /\ Len(s) \in Nat /\ Len(d) \in Nat
      /\ s # <<>> => Len(d) = Len(s) - 1
      /\ s = <<>> => d = <<>>
      /\ \A j \in 1 .. Len(d) :
           /\ j \in 1 .. Len(s) /\ j + 1 \in 1 .. Len(s)
           /\ j < i => d[j] = s[j]
           /\ ~ (j < i) => d[j] = s[j + 1]
  BY ShiftedIs
<1> HIDE DEF d
<1>2. OnceEach(d)
  <2> SUFFICES ASSUME NEW a \in 1 .. Len(d), NEW b \in 1 .. Len(d), d[a] = d[b]
               PROVE  a = b
    BY DEF OnceEach
  <2> DEFINE At(j) == IF j < i THEN j ELSE j + 1
  <2>1. \A j \in 1 .. Len(d) : At(j) \in 1 .. Len(s) /\ d[j] = s[At(j)]
    BY <1>1
  <2>2. At(a) = At(b)
    <3> HIDE DEF At
    <3> QED
      BY <2>1 DEF OnceEach
  <2> QED
    BY <1>1, <2>2
<1>3. ASSUME NEW x \in ToSet(d)
      PROVE  x \in ToSet(s) /\ (i <= Len(s) => x # s[i])
  <2>0. PICK j \in 1 .. Len(d) : d[j] = x
    BY <1>1, <1>3, Elements
  <2> DEFINE a == IF j < i THEN j ELSE j + 1
  <2>1. a \in 1 .. Len(s) /\ d[j] = s[a] /\ a # i
    BY <1>1
  <2> HIDE DEF a
  <2>2. s[a] \in ToSet(s)
    BY <2>1, Elements
  <2>3. i <= Len(s) => s[a] # s[i]
    BY <1>1, <2>1 DEF OnceEach
  <2> QED
    BY <2>0, <2>1, <2>2, <2>3
<1>4. ASSUME i <= Len(s), NEW x \in ToSet(s), x # s[i]
      PROVE  x \in ToSet(d)
  <2>1. PICK a \in 1 .. Len(s) : s[a] = x
    BY Elements
  <2>2. a # i /\ s # <<>>
    BY <1>4, <2>1
  <2>3. CASE a < i
    <3>1. a \in 1 .. Len(d) /\ d[a] = x
      BY <1>1, <1>4, <2>1, <2>2, <2>3
    <3> QED
      BY <1>1, <3>1, Elements
  <2>4. CASE a > i
    <3>1. a - 1 \in 1 .. Len(d) /\ ~ (a - 1 < i) /\ (a - 1) + 1 = a
      BY <1>1, <1>4, <2>1, <2>2, <2>4
    <3>2. d[a - 1] = x
      BY <1>1, <2>1, <3>1
    <3> QED
      BY <1>1, <3>1, <3>2, Elements
  <2> QED
    BY <2>1, <2>2, <2>3, <2>4
<1>5. i <= Len(s) => s[i] \in ToSet(s)
  BY <1>1, Elements
<1> QED
  BY <1>2, <1>3, <1>4, <1>5 DEF d

\* The place of a number in an array is where it is, or behind the end.
LEMMA PlaceIs ==
  ASSUME NEW S, NEW s \in Seq(S), NEW x
  PROVE  /\ Place(s, x) \in 1 .. Len(s) + 1
         /\ x \in ToSet(s) => Place(s, x) <= Len(s) /\ s[Place(s, x)] = x
<1> DEFINE A == {i \in 1 .. Len(s) : s[i] = x} \cup {Len(s) + 1}
<1>1. Len(s) \in Nat
  OBVIOUS
<1>2. A \in SUBSET Nat /\ A # {} /\ Len(s) + 1 \in A
  BY <1>1
<1>3. PICK m \in A : \A y \in A : m <= y
  <2> HIDE DEF A
  <2> QED
    BY <1>2, LeastExists
<1>4. Place(s, x) \in A /\ \A y \in A : Place(s, x) <= y
  <2> DEFINE M(z) == z \in A /\ \A y \in A : z <= y
  <2>1. M(m)
    BY <1>3
  <2>2. Place(s, x) = CHOOSE z \in A : \A y \in A : z <= y
    BY DEF Place, Min
  <2> HIDE DEF A
  <2> QED
    BY <2>1, <2>2
<1>5. ASSUME x \in ToSet(s) PROVE Place(s, x) <= Len(s) /\ s[Place(s, x)] = x
  <2>1. PICK i \in 1 .. Len(s) : s[i] = x
    BY <1>5, Elements
  <2>2. Place(s, x) <= i
    BY <1>4, <2>1
  <2>3. Place(s, x) # Len(s) + 1
    BY <1>1, <1>4, <2>1, <2>2
  <2> QED
    BY <1>1, <1>4, <2>1, <2>2, <2>3
<1> QED
  BY <1>1, <1>4, <1>5

\* Without() takes out a number that is there, and the last one otherwise.
LEMMA WithoutIs ==
  ASSUME NEW S, NEW s \in Seq(S), OnceEach(s), NEW x
  PROVE  /\ Without(s, x) \in Seq(S) /\ OnceEach(Without(s, x))
         /\ Len(s) = 0 => Len(Without(s, x)) = 0
         /\ Len(s) # 0 => Len(Without(s, x)) = Len(s) - 1
         /\ ToSet(Without(s, x)) \subseteq ToSet(s) \ {x}
         /\ x \in ToSet(s) => ToSet(Without(s, x)) = ToSet(s) \ {x}
<1> DEFINE i == Place(s, x)
<1>1. /\ i \in 1 .. Len(s) + 1
      /\ x \in ToSet(s) => i <= Len(s) /\ s[i] = x
  BY PlaceIs
<1>2. Without(s, x) = Shifted(s, i)
  BY DEF Without
<1> HIDE DEF i
<1>3. /\ Shifted(s, i) \in Seq(S)
      /\ s # <<>> => Len(Shifted(s, i)) = Len(s) - 1
      /\ s = <<>> => Shifted(s, i) = <<>>
  BY <1>1, ShiftedIs
<1>4. /\ OnceEach(Shifted(s, i))
      /\ ToSet(Shifted(s, i)) \subseteq ToSet(s)
      /\ i <= Len(s) => ToSet(Shifted(s, i)) = ToSet(s) \ {s[i]}
  BY <1>1, ShiftedElements
<1>5. /\ Len(s) = 0 => Len(Shifted(s, i)) = 0
      /\ Len(s) # 0 => Len(Shifted(s, i)) = Len(s) - 1
  BY <1>3
<1>6. x \in ToSet(s) => ToSet(Shifted(s, i)) = ToSet(s) \ {x}
  BY <1>1, <1>4
<1> QED
  BY <1>2, <1>3, <1>4, <1>5, <1>6

-----------------------------------------------------------------------------
(* Service tables. *)

Ids == 0 .. MaxSubs - 1
Aggr == {Aggregator[c][s] : c \in Child, s \in Offers}

Entry == [profile : Offers, aggregator : Aggr, children : Seq(Ids),
          nb_children : 0 .. ULongSize - 1]

\* A table of the agent: a service has one entry, a child is in it once, and
\* the count is never too small.
GoodTable(T) ==
  /\ T \in Seq(Entry)
  /\ \A i, j \in 1 .. Len(T) : T[i].profile = T[j].profile => i = j
  /\ \A i \in 1 .. Len(T) : OnceEach(T[i].children)
  /\ \A i \in 1 .. Len(T) : T[i].nb_children >= Len(T[i].children)

\* The count of service s is right; all the counts are.
ExactFor(T, s) ==
  \A i \in 1 .. Len(T) : T[i].profile = s => T[i].nb_children = Len(T[i].children)
Exact(T) == \A s \in Offers : ExactFor(T, s)

\* The table has child id for service s.
Has(T, s, id) ==
  \E i \in 1 .. Len(T) : T[i].profile = s /\ id \in ToSet(T[i].children)

\* What the constants are.
LEMMA Constants ==
  /\ ULongSize \in Nat /\ ULongSize > 0 /\ MaxSubs \in Nat /\ MaxSubs < ULongSize
  /\ IsFiniteSet(Child) /\ LAs \cap SeDs = {} /\ None \notin Child
  /\ \A c \in Child : Offered[c] \in Seq(Offers) /\ OnceEach(Offered[c])
<1>1. \A c \in Child : Offered[c] \in Seq(Offers) /\ IsInjective(Offered[c])
  BY AgentAssumption DEF AgentAssumption
<1>2. \A c \in Child : DOMAIN Offered[c] = 1 .. Len(Offered[c])
  BY <1>1
<1> QED
  BY <1>1, <1>2, AgentAssumption, ULongAssumption
  DEF AgentAssumption, ULongAssumption, IsInjective, OnceEach

\* The indices of a sequence of length n.
LEMMA UpTo ==
  ASSUME NEW n \in Nat
  PROVE  IsFiniteSet(1 .. n) /\ Cardinality(1 .. n) = n
<1>1. 1 \in Int /\ n \in Int
  OBVIOUS
<1>2. IsFiniteSet(1 .. n) /\ Cardinality(1 .. n) = IF 1 > n THEN 0 ELSE n - 1 + 1
  BY <1>1, FS_Interval
<1> QED
  BY <1>2

\* An array of numbers of children has at most MaxSubs of them.
LEMMA ArrayBound ==
  ASSUME NEW s \in Seq(Ids), OnceEach(s)
  PROVE  Len(s) \in Nat /\ Len(s) <= MaxSubs
<1>1. Len(s) \in Nat /\ DOMAIN s = 1 .. Len(s) /\ s \in [1 .. Len(s) -> Ids]
  OBVIOUS
<1>2. s \in Injection(1 .. Len(s), Ids)
  BY <1>1 DEF Injection, IsInjective, OnceEach
<1>3. IsFiniteSet(Ids) /\ Cardinality(Ids) = MaxSubs
  <2>1. 0 \in Int /\ MaxSubs - 1 \in Int
    BY Constants
  <2>2. /\ IsFiniteSet(0 .. MaxSubs - 1)
        /\ Cardinality(0 .. MaxSubs - 1) = IF 0 > MaxSubs - 1 THEN 0 ELSE MaxSubs - 1 - 0 + 1
    BY <2>1, FS_Interval
  <2> QED
    BY <2>2, Constants DEF Ids
<1>4. Cardinality(1 .. Len(s)) = Len(s)
  BY <1>1, UpTo
<1>5. Cardinality(1 .. Len(s)) <= Cardinality(Ids)
  BY <1>2, <1>3, FS_Injection
<1> QED
  BY <1>1, <1>3, <1>4, <1>5

\* The parts of an entry.
LEMMA EntryIs ==
  ASSUME NEW T, GoodTable(T), NEW i \in 1 .. Len(T)
  PROVE  /\ T[i] \in Entry
         /\ T[i].profile \in Offers /\ T[i].aggregator \in Aggr
         /\ T[i].children \in Seq(Ids) /\ OnceEach(T[i].children)
         /\ T[i].nb_children \in Nat /\ T[i].nb_children < ULongSize
         /\ Len(T[i].children) \in Nat /\ T[i].nb_children >= Len(T[i].children)
         /\ T[i] = [profile |-> T[i].profile, aggregator |-> T[i].aggregator,
                    children |-> T[i].children, nb_children |-> T[i].nb_children]
<1>1. T[i] \in Entry /\ OnceEach(T[i].children)
      /\ T[i].nb_children >= Len(T[i].children)
  BY DEF GoodTable
<1> QED
  BY <1>1, Constants DEF Entry

\* lookupService() finds the entry of a service, or 0 when there is none.
LEMMA LookupIs ==
  ASSUME NEW T, GoodTable(T), NEW s
  PROVE  /\ lookupService(T, s) \in 0 .. Len(T)
         /\ lookupService(T, s) # 0 =>
              /\ lookupService(T, s) \in 1 .. Len(T)
              /\ T[lookupService(T, s)].profile = s
         /\ \A i \in 1 .. Len(T) : T[i].profile = s => lookupService(T, s) = i
<1> DEFINE at == {i \in DOMAIN T : T[i].profile = s}
<1>1. Len(T) \in Nat /\ DOMAIN T = 1 .. Len(T)
  BY DEF GoodTable
<1>2. \A i, j \in at : i = j
  BY <1>1 DEF GoodTable
<1>3. lookupService(T, s) = IF at = {} THEN 0 ELSE Min(at)
  BY DEF lookupService
<1>4. at # {} => Min(at) \in at
  <2> SUFFICES ASSUME at # {} PROVE Min(at) \in at
    OBVIOUS
  <2>1. at \in SUBSET Nat
    BY <1>1
  <2> HIDE DEF at
  <2>2. \E x \in at : \A y \in at : x <= y
    BY <2>1, LeastExists
  <2> QED
    BY <2>2 DEF Min
<1>5. \A i \in at : i \in 1 .. Len(T) /\ T[i].profile = s
  BY <1>1
<1>6. \A i \in 1 .. Len(T) : T[i].profile = s => i \in at
  BY <1>1
<1> HIDE DEF at
<1> QED
  BY <1>1, <1>2, <1>3, <1>4, <1>5, <1>6

\* The code's question whether a child is listed, by the entries.
LEMMA ListsIs ==
  ASSUME NEW T, GoodTable(T), NEW s, NEW id
  PROVE  Lists(T, s, id) <=> Has(T, s, id)
<1> DEFINE ref == lookupService(T, s)
<1>1. /\ ref # 0 => ref \in 1 .. Len(T) /\ T[ref].profile = s
      /\ \A i \in 1 .. Len(T) : T[i].profile = s => ref = i
  BY LookupIs
<1>2. Lists(T, s, id) <=> ref # 0 /\ Contains(T[ref].children, id)
  BY DEF Lists
<1>3. Len(T) \in Nat
  BY DEF GoodTable
<1> HIDE DEF ref
<1>4. \A i \in 1 .. Len(T) : Contains(T[i].children, id) <=> id \in ToSet(T[i].children)
  BY EntryIs, Elements
<1> QED
  BY <1>1, <1>2, <1>3, <1>4 DEF Has

\* A service whose count is right has no loop that leaves its array.
LEMMA OverrunsIs ==
  ASSUME NEW T, GoodTable(T), NEW s
  PROVE  /\ ~Overruns(T, lookupService(T, s)) => ExactFor(T, s)
         /\ Exact(T) => ~Overruns(T, lookupService(T, s))
<1> DEFINE ref == lookupService(T, s)
<1>1. /\ ref # 0 => ref \in 1 .. Len(T) /\ T[ref].profile = s
      /\ \A i \in 1 .. Len(T) : T[i].profile = s => ref = i
  BY LookupIs
<1>2. Overruns(T, ref) <=> ref # 0 /\ T[ref].nb_children > Len(T[ref].children)
  BY DEF Overruns
<1>3. Len(T) \in Nat
  BY DEF GoodTable
<1>4. \A i \in 1 .. Len(T) :
        /\ T[i].profile \in Offers /\ T[i].nb_children \in Nat
        /\ Len(T[i].children) \in Nat /\ T[i].nb_children >= Len(T[i].children)
  BY EntryIs
<1> HIDE DEF ref
<1>5. ~Overruns(T, ref) => ExactFor(T, s)
  BY <1>1, <1>2, <1>3, <1>4 DEF ExactFor
<1>6. Exact(T) => ~Overruns(T, ref)
  BY <1>1, <1>2, <1>3, <1>4 DEF Exact, ExactFor
<1> QED
  BY <1>5, <1>6 DEF ref

\* No loop leaves its array when all the counts are right.
LEMMA ExactIs ==
  ASSUME NEW T, GoodTable(T), Exact(T), NEW i \in 1 .. Len(T)
  PROVE  T[i].nb_children = Len(T[i].children) /\ ~Overruns(T, i)
<1>1. T[i].profile \in Offers /\ T[i].nb_children \in Nat /\ Len(T[i].children) \in Nat
  BY EntryIs
<1>2. T[i].nb_children = Len(T[i].children)
  BY <1>1 DEF Exact, ExactFor
<1> QED
  BY <1>1, <1>2 DEF Overruns

\* An entry with another array and count.
Entried(e, ch, n) == [profile |-> e.profile, aggregator |-> e.aggregator,
                      children |-> ch, nb_children |-> n]

\* The parts of such an entry.
LEMMA EntriedParts ==
  ASSUME NEW e, NEW ch, NEW n
  PROVE  /\ Entried(e, ch, n).profile = e.profile
         /\ Entried(e, ch, n).children = ch
         /\ Entried(e, ch, n).nb_children = n
BY DEF Entried

\* It is an entry, and the one that two assignments leave.
LEMMA EntriedIs ==
  ASSUME NEW e \in Entry, NEW ch \in Seq(Ids), NEW n \in 0 .. ULongSize - 1
  PROVE  /\ Entried(e, ch, n) \in Entry
         /\ [e EXCEPT !.children = ch, !.nb_children = n] = Entried(e, ch, n)
<1> DEFINE x == [e EXCEPT !.children = ch, !.nb_children = n]
<1>1. e.profile \in Offers /\ e.aggregator \in Aggr
  BY DEF Entry
<1>2. x \in Entry /\ x.profile = e.profile /\ x.aggregator = e.aggregator
      /\ x.children = ch /\ x.nb_children = n
  BY DEF Entry
<1> HIDE DEF x
<1>3. x = [profile |-> e.profile, aggregator |-> e.aggregator,
           children |-> ch, nb_children |-> n]
  BY <1>2 DEF Entry
<1> QED
  BY <1>2, <1>3 DEF Entried, x

\* A table is good when each of its entries is and no profile is twice in it.
LEMMA GoodFrom ==
  ASSUME NEW T, NEW n \in Nat, T \in [1 .. n -> Entry],
         \A i, j \in 1 .. n : T[i].profile = T[j].profile => i = j,
         \A i \in 1 .. n : OnceEach(T[i].children)
                           /\ T[i].nb_children >= Len(T[i].children)
  PROVE  GoodTable(T) /\ Len(T) = n
<1>1. T \in Seq(Entry) /\ Len(T) = n
  OBVIOUS
<1> QED
  BY <1>1 DEF GoodTable

\* addService() lists the child for the service, and changes nothing else.
LEMMA AddServiceIs ==
  ASSUME NEW T, GoodTable(T), NEW s \in Offers, NEW a \in Aggr, NEW id \in Ids,
         ExactFor(T, s)
  PROVE  /\ GoodTable(addService(T, s, a, id))
         /\ \A p, x : Has(addService(T, s, a, id), p, x) <=>
                        Has(T, p, x) \/ (p = s /\ x = id)
         /\ \A p : ExactFor(T, p) => ExactFor(addService(T, s, a, id), p)
<1> DEFINE U == addService(T, s, a, id)
           ref == lookupService(T, s)
<1>1. /\ Len(T) \in Nat /\ T \in [1 .. Len(T) -> Entry]
      /\ \A i, j \in 1 .. Len(T) : T[i].profile = T[j].profile => i = j
  BY DEF GoodTable
<1>2. /\ ref # 0 => ref \in 1 .. Len(T) /\ T[ref].profile = s
      /\ \A i \in 1 .. Len(T) : T[i].profile = s => ref = i
  BY LookupIs
<1>3. \A i \in 1 .. Len(T) :
         /\ T[i] \in Entry /\ T[i].children \in Seq(Ids) /\ OnceEach(T[i].children)
         /\ T[i].nb_children \in Nat /\ T[i].nb_children >= Len(T[i].children)
  BY EntryIs
<1>4. CASE ref = 0
  <2> DEFINE e == [profile |-> s, aggregator |-> a, children |-> <<id>>,
                   nb_children |-> 1]
             n == Len(T) + 1
  <2>1. U = Append(T, e)
    BY <1>4 DEF addService
  <2>2. /\ e \in Entry /\ OnceEach(e.children) /\ e.nb_children >= Len(e.children)
        /\ e.profile = s /\ e.nb_children = Len(e.children)
        /\ \A x : x \in ToSet(e.children) <=> x = id
    <3>1. ULongSize > 1
      BY Constants DEF Ids
    <3>2. <<id>> \in Seq(Ids) /\ Len(<<id>>) = 1 /\ DOMAIN <<id>> = {1}
          /\ <<id>>[1] = id
      OBVIOUS
    <3>3. e.children = <<id>> /\ e.nb_children = 1 /\ e.profile = s
      OBVIOUS
    <3>4. e \in Entry
      BY <3>1, <3>2, Constants DEF Entry
    <3>5. \A x : x \in ToSet(<<id>>) <=> x = id
      BY <3>2 DEF ToSet
    <3> QED
      BY <3>2, <3>3, <3>4, <3>5 DEF OnceEach
  <2> HIDE DEF e
  <2>3. /\ U \in [1 .. n -> Entry] /\ U[n] = e /\ n \in Nat
        /\ \A i \in 1 .. Len(T) : U[i] = T[i]
        /\ \A i \in 1 .. n : i \in 1 .. Len(T) \/ i = n
        /\ \A i \in 1 .. Len(T) : i \in 1 .. n
        /\ n \in 1 .. n
    <3>1. T \in Seq(Entry) /\ Len(T) \in Nat
      BY DEF GoodTable
    <3>2. /\ U \in Seq(Entry) /\ Len(U) = n /\ U[n] = e
          /\ \A i \in 1 .. Len(T) : U[i] = T[i]
      BY <2>1, <2>2, <3>1
    <3>3. U \in [1 .. n -> Entry]
      BY <3>2
    <3> HIDE DEF U
    <3> QED
      BY <3>1, <3>2, <3>3
  <2>4. \A i \in 1 .. Len(T) : T[i].profile # s
    BY <1>2, <1>4
  <2> HIDE DEF n, U
  <2>5. \A i, j \in 1 .. n : U[i].profile = U[j].profile => i = j
    BY <1>1, <2>2, <2>3, <2>4
  <2>6. GoodTable(U) /\ Len(U) = n
    <3>1. \A i \in 1 .. n : OnceEach(U[i].children) /\ U[i].nb_children >= Len(U[i].children)
      BY <1>3, <2>2, <2>3
    <3> QED
      BY <2>3, <2>5, <3>1, GoodFrom
  <2>7. \A p, x : Has(U, p, x) <=> Has(T, p, x) \/ (p = s /\ x = id)
    BY <2>2, <2>3, <2>6, Zenon DEF Has
  <2>8. \A p : ExactFor(T, p) => ExactFor(U, p)
    BY <2>2, <2>3, <2>6, Zenon DEF ExactFor
  <2> QED
    BY <2>6, <2>7, <2>8 DEF U
<1>5. CASE ref # 0 /\ Contains(T[ref].children, id)
  <2>1. U = T
    BY <1>5 DEF addService
  <2>2. Has(T, s, id)
    BY <1>2, <1>3, <1>5, Elements DEF Has
  <2> QED
    BY <2>1, <2>2
<1>6. CASE ref # 0 /\ ~Contains(T[ref].children, id)
  <2> DEFINE ch == Append(T[ref].children, id)
             k == T[ref].nb_children + 1
             e == Entried(T[ref], ch, k)
  <2>1. ref \in 1 .. Len(T)
    BY <1>2, <1>6
  <2>2. U = [T EXCEPT ![ref].children = ch, ![ref].nb_children = k]
    BY <1>6 DEF addService
  <2>3. T[ref].nb_children = Len(T[ref].children)
    BY <1>2, <2>1 DEF ExactFor
  <2>4. /\ ch \in Seq(Ids) /\ OnceEach(ch) /\ Len(ch) = k /\ k \in 0 .. ULongSize - 1
        /\ ToSet(ch) = ToSet(T[ref].children) \cup {id}
    <3>1. T[ref].children \in Seq(Ids) /\ OnceEach(T[ref].children)
          /\ id \notin ToSet(T[ref].children)
      BY <1>3, <1>6, <2>1, Elements
    <3>2. DOMAIN T[ref].children = 1 .. Len(T[ref].children)
      BY <3>1
    <3>3. /\ ch \in Seq(Ids) /\ ToSet(ch) = ToSet(T[ref].children) \cup {id}
          /\ \A i, j \in DOMAIN ch : ch[i] = ch[j] => i = j
      <4>1. PICK w \in Seq(Ids) :
              /\ w = T[ref].children /\ id \notin ToSet(w)
              /\ \A i, j \in DOMAIN w : w[i] = w[j] => i = j
        BY <3>1, <3>2 DEF OnceEach
      <4>2. /\ Append(w, id) \in Seq(Ids) /\ ToSet(Append(w, id)) = ToSet(w) \cup {id}
            /\ \A i, j \in DOMAIN Append(w, id) :
                 Append(w, id)[i] = Append(w, id)[j] => i = j
        BY <4>1, AppendIsOnce
      <4>3. ch = Append(w, id)
        BY <4>1
      <4> QED
        BY <4>1, <4>2, <4>3, Zenon
    <3>4. DOMAIN ch = 1 .. Len(ch) /\ Len(ch) = Len(T[ref].children) + 1
      BY <3>1
    <3>5. OnceEach(ch)
      BY <3>3, <3>4 DEF OnceEach
    <3>6. Len(ch) \in Nat /\ Len(ch) <= MaxSubs
      BY <3>3, <3>5, ArrayBound
    <3> QED
      BY <2>3, <3>3, <3>4, <3>5, <3>6, Constants
  <2>5. /\ e \in Entry /\ e.profile = s /\ e.children = ch /\ e.nb_children = k
    <3>1. T[ref].profile = s /\ T[ref] \in Entry
      BY <1>2, <1>3, <2>1
    <3>2. ch \in Seq(Ids) /\ k \in 0 .. ULongSize - 1
      BY <2>4
    <3> HIDE DEF ch, k
    <3>3. PICK t \in Entry, c \in Seq(Ids), m \in 0 .. ULongSize - 1 :
            t = T[ref] /\ c = ch /\ m = k
      BY <3>1, <3>2
    <3>4. Entried(t, c, m) \in Entry
      BY EntriedIs
    <3>5. e.profile = T[ref].profile /\ e.children = ch /\ e.nb_children = k
      BY EntriedParts
    <3> QED
      BY <3>1, <3>3, <3>4, <3>5
  <2>6. /\ U \in [1 .. Len(T) -> Entry] /\ U[ref] = e
        /\ \A i \in 1 .. Len(T) : i # ref => U[i] = T[i]
    <3>1. U = [T EXCEPT ![ref] = [T[ref] EXCEPT !.children = ch, !.nb_children = k]]
      <4> HIDE DEF ch, k
      <4> QED
        BY <1>1, <2>1, <2>2
    <3>2. [T[ref] EXCEPT !.children = ch, !.nb_children = k] = e
      <4> HIDE DEF ch, k
      <4>1. PICK t \in Entry, c \in Seq(Ids), m \in 0 .. ULongSize - 1 :
              t = T[ref] /\ c = ch /\ m = k
        BY <1>3, <2>1, <2>4
      <4>2. [t EXCEPT !.children = c, !.nb_children = m] = Entried(t, c, m)
        BY EntriedIs
      <4> QED
        BY <4>1, <4>2, Zenon
    <3>3. U = [T EXCEPT ![ref] = e]
      BY <3>1, <3>2, Zenon
    <3> HIDE DEF e, U
    <3> QED
      BY <1>1, <2>1, <2>5, <3>3
  <2> HIDE DEF e, U, ch, k
  <2>7. \A i \in 1 .. Len(T) : U[i].profile = T[i].profile
    BY <1>2, <2>1, <2>5, <2>6
  <2>8. GoodTable(U) /\ Len(U) = Len(T)
    <3>1. \A i \in 1 .. Len(T) :
             OnceEach(U[i].children) /\ U[i].nb_children >= Len(U[i].children)
      BY <1>3, <2>4, <2>5, <2>6
    <3>2. \A i, j \in 1 .. Len(T) : U[i].profile = U[j].profile => i = j
      BY <1>1, <2>7
    <3> QED
      BY <1>1, <2>6, <3>1, <3>2, GoodFrom
  <2>9. \A i \in 1 .. Len(T) : \A x :
          x \in ToSet(U[i].children) <=>
            x \in ToSet(T[i].children) \/ (U[i].profile = s /\ x = id)
    BY <1>2, <2>1, <2>4, <2>5, <2>6, <2>7
  <2>10. \A p, x : Has(U, p, x) <=> Has(T, p, x) \/ (p = s /\ x = id)
    <3>1. ASSUME NEW p, NEW x, Has(U, p, x)
          PROVE  Has(T, p, x) \/ (p = s /\ x = id)
      <4>1. PICK i \in 1 .. Len(U) : U[i].profile = p /\ x \in ToSet(U[i].children)
        BY <3>1 DEF Has
      <4>2. /\ i \in 1 .. Len(T) /\ T[i].profile = p
            /\ x \in ToSet(T[i].children) \/ (p = s /\ x = id)
        BY <2>7, <2>8, <2>9, <4>1
      <4> QED
        BY <4>2 DEF Has
    <3>2. ASSUME NEW p, NEW x, Has(T, p, x) PROVE Has(U, p, x)
      <4>1. PICK i \in 1 .. Len(T) : T[i].profile = p /\ x \in ToSet(T[i].children)
        BY <3>2 DEF Has
      <4>2. i \in 1 .. Len(U) /\ U[i].profile = p /\ x \in ToSet(U[i].children)
        BY <2>7, <2>8, <2>9, <4>1
      <4> QED
        BY <4>2 DEF Has
    <3>3. Has(U, s, id)
      <4>1. U[ref].profile = s /\ ref \in 1 .. Len(U)
        BY <1>2, <2>1, <2>7, <2>8
      <4>2. id \in ToSet(U[ref].children)
        BY <2>8, <2>9, <4>1
      <4> QED
        BY <4>1, <4>2 DEF Has
    <3> QED
      BY <3>1, <3>2, <3>3
  <2>11. \A p : ExactFor(T, p) => ExactFor(U, p)
    BY <2>1, <2>4, <2>5, <2>6, <2>7, <2>8 DEF ExactFor
  <2> QED
    BY <2>8, <2>10, <2>11 DEF U
<1> QED
  BY <1>4, <1>5, <1>6

\* rmService() takes out the one entry of a service.
LEMMA RmServiceIs ==
  ASSUME NEW T, GoodTable(T), NEW ref \in 1 .. Len(T)
  PROVE  /\ GoodTable(rmService(T, ref))
         /\ \A p, x : Has(rmService(T, ref), p, x) <=>
                        Has(T, p, x) /\ p # T[ref].profile
         /\ \A p : ExactFor(T, p) => ExactFor(rmService(T, ref), p)
<1> DEFINE U == rmService(T, ref)
           At(j) == IF j < ref THEN j ELSE j + 1
<1>1. /\ T \in Seq(Entry) /\ Len(T) \in Nat /\ T # <<>>
      /\ \A i, j \in 1 .. Len(T) : T[i].profile = T[j].profile => i = j
      /\ \A i \in 1 .. Len(T) :
           OnceEach(T[i].children) /\ T[i].nb_children >= Len(T[i].children)
  BY DEF GoodTable
<1>2. /\ U \in Seq(Entry) /\ Len(U) = Len(T) - 1
      /\ \A j \in 1 .. Len(U) :
           /\ j \in 1 .. Len(T) /\ j + 1 \in 1 .. Len(T)
           /\ U[j] = IF j < ref THEN T[j] ELSE T[j + 1]
  <2>1. ref \in 1 .. Len(T) + 1
    BY <1>1
  <2> QED
    BY <1>1, <2>1, ShiftedIs DEF rmService
<1>3. \A j \in 1 .. Len(U) : At(j) \in 1 .. Len(T) /\ At(j) # ref /\ U[j] = T[At(j)]
  BY <1>1, <1>2
<1>4. \A i \in 1 .. Len(T) : i # ref => \E j \in 1 .. Len(U) : At(j) = i
  <2> SUFFICES ASSUME NEW i \in 1 .. Len(T), i # ref
               PROVE  \E j \in 1 .. Len(U) : At(j) = i
    OBVIOUS
  <2>1. CASE i < ref
    <3>1. i \in 1 .. Len(U) /\ At(i) = i
      BY <1>1, <1>2, <2>1
    <3> QED
      BY <3>1
  <2>2. CASE i > ref
    <3>1. i - 1 \in 1 .. Len(U) /\ At(i - 1) = i
      BY <1>1, <1>2, <2>2
    <3> QED
      BY <3>1
  <2> QED
    BY <1>1, <2>1, <2>2
<1>5. \A j, k \in 1 .. Len(U) : At(j) = At(k) => j = k
  BY <1>1, <1>2
<1> HIDE DEF U, At
<1>6. GoodTable(U)
  <2>1. \A i, j \in 1 .. Len(U) : U[i].profile = U[j].profile => i = j
    <3> SUFFICES ASSUME NEW i \in 1 .. Len(U), NEW j \in 1 .. Len(U),
                        U[i].profile = U[j].profile
                 PROVE  i = j
      OBVIOUS
    <3>1. /\ At(i) \in 1 .. Len(T) /\ At(j) \in 1 .. Len(T)
          /\ T[At(i)].profile = T[At(j)].profile
      BY <1>3
    <3>2. At(i) = At(j)
      BY <1>1, <3>1
    <3> QED
      BY <1>5, <3>2
  <2>2. \A i \in 1 .. Len(U) :
          OnceEach(U[i].children) /\ U[i].nb_children >= Len(U[i].children)
    BY <1>1, <1>3
  <2> QED
    BY <1>2, <2>1, <2>2 DEF GoodTable
<1>7. \A p, x : Has(U, p, x) <=> Has(T, p, x) /\ p # T[ref].profile
  <2>1. ASSUME NEW p, NEW x, Has(U, p, x)
        PROVE  Has(T, p, x) /\ p # T[ref].profile
    <3>1. PICK j \in 1 .. Len(U) : U[j].profile = p /\ x \in ToSet(U[j].children)
      BY <2>1 DEF Has
    <3>2. /\ At(j) \in 1 .. Len(T) /\ At(j) # ref
          /\ T[At(j)].profile = p /\ x \in ToSet(T[At(j)].children)
      BY <1>3, <3>1
    <3> QED
      BY <1>1, <3>2 DEF Has
  <2>2. ASSUME NEW p, NEW x, Has(T, p, x), p # T[ref].profile
        PROVE  Has(U, p, x)
    <3>1. PICK i \in 1 .. Len(T) : T[i].profile = p /\ x \in ToSet(T[i].children)
      BY <2>2 DEF Has
    <3>2. PICK j \in 1 .. Len(U) : At(j) = i
      BY <1>4, <2>2, <3>1
    <3>3. U[j].profile = p /\ x \in ToSet(U[j].children)
      BY <1>3, <3>1, <3>2
    <3> QED
      BY <3>3 DEF Has
  <2> QED
    BY <2>1, <2>2
<1>8. \A p : ExactFor(T, p) => ExactFor(U, p)
  BY <1>3 DEF ExactFor
<1> QED
  BY <1>6, <1>7, <1>8 DEF U

\* A table with one entry changed.
Changed(T, ref, ch, k) == [T EXCEPT ![ref].children = ch, ![ref].nb_children = k]

\* What has changed in it, and nothing else.
ChangedRight(U, T, ref, ch, k) ==
  /\ GoodTable(U) /\ Len(U) = Len(T)
  /\ \A i \in 1 .. Len(T) : U[i].profile = T[i].profile
  /\ U[ref].children = ch /\ U[ref].nb_children = k
  /\ \A i \in 1 .. Len(T) : i # ref => U[i] = T[i]

\* A table stays good when an entry gets an array of distinct numbers and a
\* count that covers it.
LEMMA EntryChanged ==
  ASSUME NEW T, GoodTable(T), NEW ref \in 1 .. Len(T),
         NEW ch \in Seq(Ids), NEW k \in 0 .. ULongSize - 1,
         OnceEach(ch), k >= Len(ch)
  PROVE  ChangedRight(Changed(T, ref, ch, k), T, ref, ch, k)
<1> DEFINE e == Entried(T[ref], ch, k)
           W == Changed(T, ref, ch, k)
<1>1. /\ Len(T) \in Nat /\ T \in [1 .. Len(T) -> Entry]
      /\ \A i, j \in 1 .. Len(T) : T[i].profile = T[j].profile => i = j
      /\ \A i \in 1 .. Len(T) :
           OnceEach(T[i].children) /\ T[i].nb_children >= Len(T[i].children)
  BY DEF GoodTable
<1>2. PICK t \in Entry : t = T[ref]
  BY <1>1
<1>3. Entried(t, ch, k) \in Entry
      /\ [t EXCEPT !.children = ch, !.nb_children = k] = Entried(t, ch, k)
  BY EntriedIs
<1>4. W = [T EXCEPT ![ref] = [T[ref] EXCEPT !.children = ch, !.nb_children = k]]
  BY <1>1 DEF Changed
<1>5. W = [T EXCEPT ![ref] = e]
  BY <1>2, <1>3, <1>4, Zenon
<1>6. e.profile = T[ref].profile /\ e.children = ch /\ e.nb_children = k
  BY EntriedParts
<1>7. e \in Entry
  BY <1>2, <1>3
<1> HIDE DEF e, W
<1>8. /\ W \in [1 .. Len(T) -> Entry] /\ W[ref] = e
      /\ \A i \in 1 .. Len(T) : i # ref => W[i] = T[i]
  BY <1>1, <1>5, <1>7
<1>9. \A i \in 1 .. Len(T) : W[i].profile = T[i].profile
  BY <1>6, <1>8
<1>10. \A i \in 1 .. Len(T) :
         OnceEach(W[i].children) /\ W[i].nb_children >= Len(W[i].children)
  BY <1>1, <1>6, <1>8
<1>11. \A i, j \in 1 .. Len(T) : W[i].profile = W[j].profile => i = j
  BY <1>1, <1>9
<1>12. GoodTable(W) /\ Len(W) = Len(T)
  BY <1>1, <1>8, <1>10, <1>11, GoodFrom
<1>13. ChangedRight(W, T, ref, ch, k)
  BY <1>6, <1>8, <1>9, <1>12 DEF ChangedRight
<1> QED
  BY <1>13 DEF W

\* A count of ULongSize values that goes down.
LEMMA CountDown ==
  ASSUME NEW n \in 0 .. ULongSize - 1
  PROVE  /\ (n - 1) % ULongSize \in 0 .. ULongSize - 1
         /\ n > 0 => (n - 1) % ULongSize = n - 1
<1>1. \A u \in Nat : u > 0 => \A m \in Int : m % u \in 0 .. u - 1
  OBVIOUS
<1>2. \A u \in Nat : u > 0 => \A m \in 0 .. u - 1 : m % u = m
  OBVIOUS
<1>3. n - 1 \in Int /\ (n > 0 => n - 1 \in 0 .. ULongSize - 1)
  BY Constants
<1> QED
  BY <1>1, <1>2, <1>3, Constants

\* rmChildService() takes at most one child from the one service; when the
\* child is listed there it takes that one.
LEMMA RmChildServiceIs ==
  ASSUME NEW T, GoodTable(T), NEW s, NEW id
  PROVE  /\ GoodTable(rmChildService(T, s, id))
         /\ \A p, x : Has(rmChildService(T, s, id), p, x) =>
                        Has(T, p, x) /\ ~ (p = s /\ x = id)
         /\ \A p, x : p # s /\ Has(T, p, x) => Has(rmChildService(T, s, id), p, x)
         /\ \A p : p # s /\ ExactFor(T, p) => ExactFor(rmChildService(T, s, id), p)
         /\ Has(T, s, id) /\ ExactFor(T, s) =>
              /\ ExactFor(rmChildService(T, s, id), s)
              /\ \A x : x # id /\ Has(T, s, x) => Has(rmChildService(T, s, id), s, x)
<1> DEFINE U == rmChildService(T, s, id)
           ref == lookupService(T, s)
<1>1. /\ ref # 0 => ref \in 1 .. Len(T) /\ T[ref].profile = s
      /\ \A i \in 1 .. Len(T) : T[i].profile = s => ref = i
  BY LookupIs
<1>2. CASE ref = 0
  <2>1. U = T
    BY <1>2 DEF rmChildService
  <2>2. \A x : ~Has(T, s, x)
    BY <1>1, <1>2 DEF Has
  <2> QED
    BY <2>1, <2>2, Zenon
<1>3. CASE ref # 0 /\ T[ref].nb_children = 1
  <2>1. U = rmService(T, ref)
    BY <1>3 DEF rmChildService
  <2>2. ref \in 1 .. Len(T) /\ T[ref].profile = s
    BY <1>1, <1>3
  <2> HIDE DEF U, ref
  <2>3. /\ GoodTable(U)
        /\ \A p, x : Has(U, p, x) <=> Has(T, p, x) /\ p # s
        /\ \A p : ExactFor(T, p) => ExactFor(U, p)
    <3>1. PICK r \in 1 .. Len(T) : r = ref
      BY <2>2
    <3> QED
      BY <2>1, <2>2, <3>1, RmServiceIs
  <2>4. ASSUME Has(T, s, id), ExactFor(T, s), NEW x, Has(T, s, x)
        PROVE  x = id
    <3>1. T[ref].children \in Seq(Ids) /\ Len(T[ref].children) = 1
      BY <1>3, <2>2, <2>4, EntryIs DEF ExactFor
    <3>2. x \in ToSet(T[ref].children) /\ id \in ToSet(T[ref].children)
      BY <1>1, <2>4 DEF Has
    <3>3. \A y \in ToSet(T[ref].children) : y = T[ref].children[1]
      BY <3>1, Elements
    <3> QED
      BY <3>2, <3>3
  <2> QED
    BY <2>3, <2>4 DEF U
<1>4. CASE ref # 0 /\ T[ref].nb_children # 1
  <2> DEFINE old == T[ref].children
             ch == Without(old, id)
             k == (T[ref].nb_children - 1) % ULongSize
  <2>1. U = Changed(T, ref, ch, k)
    <3>1. U = [T EXCEPT ![ref].children = Without(@, id),
                        ![ref].nb_children = (@ - 1) % ULongSize]
      BY <1>4 DEF rmChildService
    <3>2. ref \in DOMAIN T
      BY <1>1, <1>4 DEF GoodTable
    <3> QED
      BY <3>1, <3>2 DEF Changed
  <2>2. ref \in 1 .. Len(T) /\ T[ref].profile = s
    BY <1>1, <1>4
  <2>3. /\ old \in Seq(Ids) /\ OnceEach(old) /\ Len(old) \in Nat
        /\ T[ref].nb_children \in 0 .. ULongSize - 1
        /\ T[ref].nb_children >= Len(old)
    <3>1. PICK r \in 1 .. Len(T) : r = ref
      BY <2>2
    <3>2. T[r] \in Entry /\ OnceEach(T[r].children)
          /\ T[r].nb_children >= Len(T[r].children)
      BY EntryIs
    <3> HIDE DEF ref
    <3> QED
      BY <3>1, <3>2 DEF Entry
  <2>4. /\ ch \in Seq(Ids) /\ OnceEach(ch)
        /\ Len(old) = 0 => Len(ch) = 0
        /\ Len(old) # 0 => Len(ch) = Len(old) - 1
        /\ ToSet(ch) \subseteq ToSet(old) \ {id}
        /\ id \in ToSet(old) => ToSet(ch) = ToSet(old) \ {id}
    <3>1. PICK q \in Seq(Ids) : q = old /\ OnceEach(q)
      BY <2>3
    <3>2. /\ Without(q, id) \in Seq(Ids) /\ OnceEach(Without(q, id))
          /\ Len(q) = 0 => Len(Without(q, id)) = 0
          /\ Len(q) # 0 => Len(Without(q, id)) = Len(q) - 1
          /\ ToSet(Without(q, id)) \subseteq ToSet(q) \ {id}
          /\ id \in ToSet(q) => ToSet(Without(q, id)) = ToSet(q) \ {id}
      BY <3>1, WithoutIs
    <3> HIDE DEF old
    <3> QED
      BY <3>1, <3>2
  <2>5. /\ k \in 0 .. ULongSize - 1
        /\ T[ref].nb_children > 0 => k = T[ref].nb_children - 1
    BY <2>3, CountDown
  <2> HIDE DEF k, ch, U, ref
  <2>6. k >= Len(ch)
    BY <2>3, <2>4, <2>5, Constants
  <2>7. /\ GoodTable(U) /\ Len(U) = Len(T)
        /\ \A i \in 1 .. Len(T) : U[i].profile = T[i].profile
        /\ U[ref].children = ch /\ U[ref].nb_children = k
        /\ \A i \in 1 .. Len(T) : i # ref => U[i] = T[i]
    <3>1. PICK r \in 1 .. Len(T), c \in Seq(Ids), m \in 0 .. ULongSize - 1 :
            r = ref /\ c = ch /\ m = k
      BY <2>2, <2>4, <2>5
    <3>2. ChangedRight(Changed(T, r, c, m), T, r, c, m)
      BY <2>4, <2>6, <3>1, EntryChanged
    <3>3. ChangedRight(U, T, ref, ch, k)
      BY <2>1, <3>1, <3>2
    <3> QED
      BY <3>3 DEF ChangedRight
  <2>8. \A p, x : Has(U, p, x) => Has(T, p, x) /\ ~ (p = s /\ x = id)
    <3> SUFFICES ASSUME NEW p, NEW x, Has(U, p, x)
                 PROVE  Has(T, p, x) /\ ~ (p = s /\ x = id)
      OBVIOUS
    <3>1. PICK i \in 1 .. Len(T) : U[i].profile = p /\ x \in ToSet(U[i].children)
      BY <2>7 DEF Has
    <3>2. T[i].profile = p /\ x \in ToSet(T[i].children)
      BY <2>4, <2>7, <3>1
    <3>3. p = s => x # id
      BY <1>1, <2>4, <2>7, <3>1, <3>2
    <3> QED
      BY <3>2, <3>3 DEF Has
  <2>9. \A p, x : p # s /\ Has(T, p, x) => Has(U, p, x)
    BY <2>2, <2>7 DEF Has
  <2>10. \A p : p # s /\ ExactFor(T, p) => ExactFor(U, p)
    BY <2>2, <2>7 DEF ExactFor
  <2>11. ASSUME Has(T, s, id), ExactFor(T, s)
         PROVE  /\ ExactFor(U, s)
                /\ \A x : x # id /\ Has(T, s, x) => Has(U, s, x)
    <3>1. \A x : Has(T, s, x) => x \in ToSet(old)
      BY <1>1 DEF Has
    <3>2. id \in ToSet(old) /\ T[ref].nb_children = Len(old)
      BY <2>2, <2>11, <3>1 DEF ExactFor
    <3>3. Len(old) # 0
      BY <2>3, <3>2, Elements
    <3>4. k = Len(ch)
      BY <2>3, <2>4, <2>5, <3>2, <3>3
    <3>5. ExactFor(U, s)
      BY <1>1, <2>7, <3>4 DEF ExactFor
    <3>6. \A x : x # id /\ Has(T, s, x) => Has(U, s, x)
      BY <2>2, <2>4, <2>7, <3>1, <3>2 DEF Has
    <3> QED
      BY <3>5, <3>6
  <2> QED
    BY <2>7, <2>8, <2>9, <2>10, <2>11 DEF U
<1> QED
  BY <1>2, <1>3, <1>4

\* rmChild() takes the child from every service.
LEMMA RmChildIs ==
  ASSUME NEW T, GoodTable(T), NEW id
  PROVE  /\ GoodTable(rmChild(T, id)) /\ Len(rmChild(T, id)) = Len(T)
         /\ \A i \in 1 .. Len(T) :
              /\ rmChild(T, id)[i].profile = T[i].profile
              /\ ToSet(rmChild(T, id)[i].children) = ToSet(T[i].children) \ {id}
         /\ \A p : ExactFor(T, p) => ExactFor(rmChild(T, id), p)
         /\ \A p, x : Has(rmChild(T, id), p, x) <=> Has(T, p, x) /\ x # id
<1> DEFINE U == rmChild(T, id)
           Ch(i) == Without(T[i].children, id)
           Nb(i) == T[i].nb_children - 1
<1>1. /\ Len(T) \in Nat /\ DOMAIN T = 1 .. Len(T)
      /\ \A i, j \in 1 .. Len(T) : T[i].profile = T[j].profile => i = j
  BY DEF GoodTable
<1>2. ASSUME NEW i \in 1 .. Len(T)
      PROVE  /\ U[i] \in Entry /\ U[i].profile = T[i].profile
             /\ OnceEach(U[i].children) /\ U[i].nb_children >= Len(U[i].children)
             /\ T[i].nb_children = Len(T[i].children) =>
                  U[i].nb_children = Len(U[i].children)
             /\ ToSet(U[i].children) = ToSet(T[i].children) \ {id}
  <2>1. PICK t \in Entry : t = T[i]
    BY DEF GoodTable
  <2>2. /\ t.children \in Seq(Ids) /\ OnceEach(t.children) /\ Len(t.children) \in Nat
        /\ t.nb_children \in 0 .. ULongSize - 1 /\ t.nb_children >= Len(t.children)
    BY <2>1 DEF GoodTable, Entry
  <2>3. Contains(t.children, id) <=> id \in ToSet(t.children)
    BY <2>2, Elements
  <2>4. U[i] = IF Contains(t.children, id)
                 THEN [t EXCEPT !.children = Without(@, id), !.nb_children = @ - 1]
               ELSE t
    BY <1>1, <2>1 DEF rmChild
  <2>5. CASE id \notin ToSet(t.children)
    <3>1. U[i] = t
      BY <2>3, <2>4, <2>5
    <3> HIDE DEF U
    <3> QED
      BY <2>1, <2>2, <2>5, <3>1
  <2>6. CASE id \in ToSet(t.children)
    <3> DEFINE ch == Without(t.children, id)
               k == t.nb_children - 1
    <3>1. [t EXCEPT !.children = Without(@, id), !.nb_children = @ - 1]
            = [t EXCEPT !.children = ch, !.nb_children = k]
      BY DEF Entry
    <3>2. /\ ch \in Seq(Ids) /\ OnceEach(ch)
          /\ Len(t.children) # 0 => Len(ch) = Len(t.children) - 1
          /\ ToSet(ch) = ToSet(t.children) \ {id}
      BY <2>2, <2>6, WithoutIs
    <3>3. Len(t.children) # 0
      BY <2>2, <2>6, Elements
    <3>4. k \in 0 .. ULongSize - 1 /\ k >= Len(ch)
          /\ (t.nb_children = Len(t.children) => k = Len(ch))
      BY <2>2, <3>2, <3>3, Constants
    <3> HIDE DEF ch, k
    <3>5. PICK c \in Seq(Ids), m \in 0 .. ULongSize - 1 : c = ch /\ m = k
      BY <3>2, <3>4
    <3>6. Entried(t, c, m) \in Entry
          /\ [t EXCEPT !.children = c, !.nb_children = m] = Entried(t, c, m)
      BY EntriedIs
    <3>7. U[i] = Entried(t, ch, k)
      BY <2>3, <2>4, <2>6, <3>1, <3>5, <3>6, Zenon
    <3>8. Entried(t, ch, k) \in Entry
      BY <3>5, <3>6
    <3>9. /\ Entried(t, ch, k).profile = t.profile
          /\ Entried(t, ch, k).children = ch
          /\ Entried(t, ch, k).nb_children = k
      BY EntriedParts
    <3> HIDE DEF U
    <3> QED
      BY <2>1, <3>2, <3>4, <3>7, <3>8, <3>9
  <2> QED
    BY <2>5, <2>6
<1>3. U \in [1 .. Len(T) -> Entry]
  <2>1. U = [i \in 1 .. Len(T) |-> U[i]]
    BY <1>1 DEF rmChild
  <2> HIDE DEF U
  <2> QED
    BY <1>2, <2>1
<1> HIDE DEF U
<1>4. GoodTable(U) /\ Len(U) = Len(T)
  <2>1. PICK n \in Nat : n = Len(T)
    BY <1>1
  <2>2. \A i, j \in 1 .. n : U[i].profile = U[j].profile => i = j
    BY <1>1, <1>2, <2>1
  <2>3. GoodTable(U) /\ Len(U) = n
    BY <1>2, <1>3, <2>1, <2>2, GoodFrom
  <2> QED
    BY <2>1, <2>3
<1>5. \A p, x : Has(U, p, x) <=> Has(T, p, x) /\ x # id
  BY <1>2, <1>4 DEF Has
<1>6. \A p : ExactFor(T, p) => ExactFor(U, p)
  BY <1>2, <1>4 DEF ExactFor
<1> QED
  BY <1>2, <1>4, <1>5, <1>6 DEF U

\* A child that is in no service is taken from none.
LEMMA RmChildSame ==
  ASSUME NEW T, GoodTable(T), NEW id
  PROVE  rmChild(T, id) = T <=> \A p : ~Has(T, p, id)
<1>1. ASSUME \A p : ~Has(T, p, id) PROVE rmChild(T, id) = T
  <2>1. \A i \in 1 .. Len(T) : id \notin ToSet(T[i].children)
    BY <1>1 DEF Has
  <2>2. \A i \in 1 .. Len(T) : ~Contains(T[i].children, id)
    BY <2>1, EntryIs, Elements
  <2>3. DOMAIN T = 1 .. Len(T) /\ T = [i \in 1 .. Len(T) |-> T[i]]
    BY DEF GoodTable
  <2>4. rmChild(T, id) = [i \in 1 .. Len(T) |-> T[i]]
    BY <2>2, <2>3 DEF rmChild
  <2> QED
    BY <2>3, <2>4
<1>2. ASSUME rmChild(T, id) = T, NEW p PROVE ~Has(T, p, id)
  <2>1. Has(rmChild(T, id), p, id) => id # id
    BY RmChildIs
  <2> QED
    BY <1>2, <2>1
<1> QED
  BY <1>1, <1>2

-----------------------------------------------------------------------------
(* The loops over the services of a child.  A function on 0..n that is     *)
(* defined by its value for the number before exists for every n, since    *)
(* there is no least n for which it does not; what holds of its value for  *)
(* 0 and goes from each value to the next holds of all for that reason.    *)

\* The steps of the loop of addServices() are a function of their number.
AddSteps(f, T, c, ss, n) ==
  f = [m \in 0 .. n |->
         IF m = 0 THEN [tab |-> T, ok |-> TRUE] ELSE AddOne(f[m - 1], c, ss[m])]

\* The function that the loop of addServices() is exists.
LEMMA AddStepsExist ==
  ASSUME NEW T, NEW c, NEW ss, NEW n \in Nat
  PROVE  \E f : AddSteps(f, T, c, ss, n)
<1> DEFINE S == {m \in Nat : ~ \E f : AddSteps(f, T, c, ss, m)}
<1>1. SUFFICES ASSUME S # {} PROVE FALSE
  OBVIOUS
<1>2. PICK m \in S : \A k \in S : m <= k
  <2>1. S \in SUBSET Nat
    OBVIOUS
  <2> HIDE DEF S
  <2> QED
    BY <1>1, <2>1, LeastExists
<1>3. m \in Nat /\ ~ \E f : AddSteps(f, T, c, ss, m)
  BY <1>2
<1>4. m # 0
  <2> DEFINE f == [k \in 0 .. 0 |-> [tab |-> T, ok |-> TRUE]]
  <2>1. f = [k \in 0 .. 0 |-> IF k = 0 THEN [tab |-> T, ok |-> TRUE]
                              ELSE AddOne(f[k - 1], c, ss[k])]
    OBVIOUS
  <2>2. AddSteps(f, T, c, ss, 0)
    BY <2>1 DEF AddSteps
  <2> QED
    BY <1>3, <2>2
<1>5. m - 1 \in Nat /\ m - 1 \notin S
  BY <1>2, <1>3, <1>4
<1>6. PICK f : AddSteps(f, T, c, ss, m - 1)
  BY <1>5
<1> DEFINE g == [k \in 0 .. m |-> IF k = m THEN AddOne(f[m - 1], c, ss[m]) ELSE f[k]]
<1>7. \A k \in 0 .. m - 1 : f[k] = IF k = 0 THEN [tab |-> T, ok |-> TRUE]
                                   ELSE AddOne(f[k - 1], c, ss[k])
  BY <1>6 DEF AddSteps
<1>8. \A k \in 0 .. m : k # m => k \in 0 .. m - 1 /\ (k # 0 => k - 1 # m /\ k - 1 \in 0 .. m)
  BY <1>3
<1>9. \A k \in 0 .. m : g[k] = IF k = 0 THEN [tab |-> T, ok |-> TRUE]
                               ELSE AddOne(g[k - 1], c, ss[k])
  <2>1. \A k \in 0 .. m - 1 : g[k] = f[k]
    BY <1>3
  <2>2. g[m] = AddOne(f[m - 1], c, ss[m]) /\ m - 1 \in 0 .. m - 1
    BY <1>3, <1>4
  <2>3. \A k \in 0 .. m - 1 : k # 0 => k - 1 \in 0 .. m - 1
    BY <1>3
  <2> HIDE DEF g
  <2> QED
    BY <1>4, <1>7, <1>8, <2>1, <2>2, <2>3
<1>10. AddSteps(g, T, c, ss, m)
  <2>1. g = [k \in 0 .. m |-> g[k]]
    OBVIOUS
  <2> HIDE DEF g
  <2> QED
    BY <1>9, <2>1 DEF AddSteps
<1> QED
  BY <1>3, <1>10

\* The loop of addServices() ends with the last of these steps.
LEMMA AddAllSteps ==
  ASSUME NEW T, NEW c, NEW ss, Len(ss) \in Nat
  PROVE  \E f : /\ AddSteps(f, T, c, ss, Len(ss))
                /\ AddAll(T, c, ss) = f[Len(ss)]
<1> DEFINE f == CHOOSE f : AddSteps(f, T, c, ss, Len(ss))
<1>1. AddSteps(f, T, c, ss, Len(ss))
  BY AddStepsExist
<1>2. AddAll(T, c, ss) = f[Len(ss)]
  BY DEF AddAll, AddSteps
<1> QED
  BY <1>1, <1>2

\* What addServices() has done to the table T of the agent after n services.
Added(acc, T, id, ss, n) ==
  /\ acc.ok \in BOOLEAN /\ GoodTable(acc.tab)
  /\ \A p : ExactFor(T, p) => ExactFor(acc.tab, p)
  /\ acc.ok => \A p, x : Has(acc.tab, p, x) <=>
       Has(T, p, x) \/ (x = id /\ \E k \in 1 .. n : ss[k] = p)
  /\ ~acc.ok => \A p, x : Has(acc.tab, p, x) <=> Has(T, p, x) /\ x # id

\* One more service.
LEMMA AddOneIs ==
  ASSUME NEW T, GoodTable(T), NEW c \in Child, kid[c].id \in Ids,
         NEW ss \in Seq(Offers), NEW n \in 1 .. Len(ss), ExactFor(T, ss[n]),
         NEW acc, Added(acc, T, kid[c].id, ss, n - 1)
  PROVE  Added(AddOne(acc, c, ss[n]), T, kid[c].id, ss, n)
<1> DEFINE new == AddOne(acc, c, ss[n])
           s == ss[n]
           a == Aggregator[c][s]
<1>1. /\ acc.ok \in BOOLEAN /\ GoodTable(acc.tab)
      /\ \A p : ExactFor(T, p) => ExactFor(acc.tab, p)
  BY DEF Added
<1>2. s \in Offers /\ a \in Aggr /\ n \in Nat
  BY DEF Aggr
<1>3. CASE ~acc.ok
  <2>1. new = acc
    BY <1>3 DEF AddOne
  <2> QED
    BY <1>3, <2>1 DEF Added
<1>4. \A p, x : acc.ok /\ Has(acc.tab, p, x) =>
        Has(T, p, x) \/ (x = kid[c].id /\ \E k \in 1 .. n - 1 : ss[k] = p)
  BY DEF Added
<1>5. \A p, x : acc.ok /\ Has(T, p, x) => Has(acc.tab, p, x)
  BY DEF Added
<1>6. CASE acc.ok /\ Mismatch(acc.tab, s, a)
  <2> DEFINE U == rmChild(acc.tab, kid[c].id)
  <2>1. new = [tab |-> U, ok |-> FALSE]
    BY <1>6 DEF AddOne
  <2>2. /\ GoodTable(U)
        /\ \A p : ExactFor(acc.tab, p) => ExactFor(U, p)
        /\ \A p, x : Has(U, p, x) <=> Has(acc.tab, p, x) /\ x # kid[c].id
    BY <1>1, RmChildIs
  <2> HIDE DEF U
  <2>3. new.tab = U /\ new.ok = FALSE
    BY <2>1
  <2>4. \A p, x : Has(U, p, x) <=> Has(T, p, x) /\ x # kid[c].id
    BY <1>4, <1>5, <1>6, <2>2
  <2>5. \A p : ExactFor(T, p) => ExactFor(U, p)
    BY <1>1, <2>2
  <2> HIDE DEF new
  <2> QED
    BY <2>2, <2>3, <2>4, <2>5 DEF Added, new
<1>7. CASE acc.ok /\ ~Mismatch(acc.tab, s, a)
  <2> DEFINE U == addService(acc.tab, s, a, kid[c].id)
  <2>1. new = [tab |-> U, ok |-> TRUE]
    BY <1>7 DEF AddOne
  <2>2. ExactFor(acc.tab, s)
    BY <1>1
  <2>3. /\ GoodTable(U)
        /\ \A p, x : Has(U, p, x) <=> Has(acc.tab, p, x) \/ (p = s /\ x = kid[c].id)
        /\ \A p : ExactFor(acc.tab, p) => ExactFor(U, p)
    <3>1. PICK id \in Ids : id = kid[c].id
      OBVIOUS
    <3> HIDE DEF s, a
    <3>2. /\ GoodTable(addService(acc.tab, s, a, id))
          /\ \A p, x : Has(addService(acc.tab, s, a, id), p, x) <=>
                         Has(acc.tab, p, x) \/ (p = s /\ x = id)
          /\ \A p : ExactFor(acc.tab, p) => ExactFor(addService(acc.tab, s, a, id), p)
      BY <1>1, <1>2, <2>2, AddServiceIs
    <3> QED
      BY <3>1, <3>2
  <2> HIDE DEF U
  <2>4. new.tab = U /\ new.ok = TRUE
    BY <2>1
  <2>5. \A p : (\E k \in 1 .. n : ss[k] = p) <=>
               (\E k \in 1 .. n - 1 : ss[k] = p) \/ p = s
    BY <1>2
  <2>6. \A p, x : Has(acc.tab, p, x) <=>
          Has(T, p, x) \/ (x = kid[c].id /\ \E k \in 1 .. n - 1 : ss[k] = p)
    BY <1>7 DEF Added
  <2> HIDE DEF s
  <2>7. \A p, x : Has(U, p, x) <=>
          Has(T, p, x) \/ (x = kid[c].id /\ \E k \in 1 .. n : ss[k] = p)
    BY <2>3, <2>5, <2>6, Zenon
  <2>8. \A p : ExactFor(T, p) => ExactFor(U, p)
    BY <1>1, <2>3
  <2> HIDE DEF new
  <2> QED
    BY <2>3, <2>4, <2>7, <2>8 DEF Added, new, s
<1> QED
  BY <1>1, <1>3, <1>6, <1>7

\* The whole loop, in a table whose counts of these services are right.
LEMMA AddAllIs ==
  ASSUME NEW T, GoodTable(T), NEW c \in Child, kid[c].id \in Ids,
         NEW ss \in Seq(Offers), \A s \in ToSet(ss) : ExactFor(T, s)
  PROVE  Added(AddAll(T, c, ss), T, kid[c].id, ss, Len(ss))
<1>1. Len(ss) \in Nat /\ \A n \in 1 .. Len(ss) : ExactFor(T, ss[n])
  BY Elements
<1>2. PICK f : /\ AddSteps(f, T, c, ss, Len(ss))
               /\ AddAll(T, c, ss) = f[Len(ss)]
  BY <1>1, AddAllSteps
<1>3. f[0] = [tab |-> T, ok |-> TRUE]
  BY <1>1, <1>2 DEF AddSteps
<1>4. ASSUME NEW n \in 1 .. Len(ss)
      PROVE  f[n] = AddOne(f[n - 1], c, ss[n])
  <2>1. n \in 0 .. Len(ss) /\ n # 0
    BY <1>1
  <2> QED
    BY <1>2, <2>1 DEF AddSteps
<1> DEFINE S == {n \in 0 .. Len(ss) : ~Added(f[n], T, kid[c].id, ss, n)}
<1>5. Added(f[0], T, kid[c].id, ss, 0)
  <2>1. f[0].tab = T /\ f[0].ok = TRUE
    BY <1>3
  <2>2. \A p : ~ \E k \in 1 .. 0 : ss[k] = p
    OBVIOUS
  <2> QED
    BY <2>1, <2>2 DEF Added
<1>6. SUFFICES ASSUME S # {} PROVE FALSE
  BY <1>1, <1>2
<1>7. PICK n \in S : \A k \in S : n <= k
  <2>1. S \in SUBSET Nat
    BY <1>1
  <2> HIDE DEF S
  <2> QED
    BY <1>6, <2>1, LeastExists
<1>8. n \in 0 .. Len(ss) /\ ~Added(f[n], T, kid[c].id, ss, n)
  BY <1>7
<1>9. n \in 1 .. Len(ss)
  BY <1>1, <1>5, <1>8
<1>10. n - 1 \in 0 .. Len(ss) /\ n - 1 \notin S
  BY <1>1, <1>7, <1>9
<1>11. Added(f[n - 1], T, kid[c].id, ss, n - 1)
  BY <1>10
<1>12. Added(AddOne(f[n - 1], c, ss[n]), T, kid[c].id, ss, n)
  BY <1>1, <1>9, <1>11, AddOneIs
<1> QED
  BY <1>4, <1>8, <1>9, <1>12

\* The steps of the loop of childUnsubscribe(), in the same way.
RmSteps(f, T, ss, id, n) ==
  f = [m \in 0 .. n |-> IF m = 0 THEN T ELSE rmChildService(f[m - 1], ss[m], id)]

\* The function that the loop over the removed services is exists.
LEMMA RmStepsExist ==
  ASSUME NEW T, NEW ss, NEW id, NEW n \in Nat
  PROVE  \E f : RmSteps(f, T, ss, id, n)
<1> DEFINE S == {m \in Nat : ~ \E f : RmSteps(f, T, ss, id, m)}
<1>1. SUFFICES ASSUME S # {} PROVE FALSE
  OBVIOUS
<1>2. PICK m \in S : \A k \in S : m <= k
  <2>1. S \in SUBSET Nat
    OBVIOUS
  <2> HIDE DEF S
  <2> QED
    BY <1>1, <2>1, LeastExists
<1>3. m \in Nat /\ ~ \E f : RmSteps(f, T, ss, id, m)
  BY <1>2
<1>4. m # 0
  <2> DEFINE f == [k \in 0 .. 0 |-> T]
  <2>1. f = [k \in 0 .. 0 |-> IF k = 0 THEN T ELSE rmChildService(f[k - 1], ss[k], id)]
    OBVIOUS
  <2>2. RmSteps(f, T, ss, id, 0)
    BY <2>1 DEF RmSteps
  <2> QED
    BY <1>3, <2>2
<1>5. m - 1 \in Nat /\ m - 1 \notin S
  BY <1>2, <1>3, <1>4
<1>6. PICK f : RmSteps(f, T, ss, id, m - 1)
  BY <1>5
<1> DEFINE g == [k \in 0 .. m |-> IF k = m THEN rmChildService(f[m - 1], ss[m], id)
                                  ELSE f[k]]
<1>7. \A k \in 0 .. m - 1 :
        f[k] = IF k = 0 THEN T ELSE rmChildService(f[k - 1], ss[k], id)
  BY <1>6 DEF RmSteps
<1>8. \A k \in 0 .. m : k # m => k \in 0 .. m - 1 /\ (k # 0 => k - 1 # m /\ k - 1 \in 0 .. m)
  BY <1>3
<1>9. \A k \in 0 .. m :
        g[k] = IF k = 0 THEN T ELSE rmChildService(g[k - 1], ss[k], id)
  <2>1. \A k \in 0 .. m - 1 : g[k] = f[k]
    BY <1>3
  <2>2. g[m] = rmChildService(f[m - 1], ss[m], id) /\ m - 1 \in 0 .. m - 1
    BY <1>3, <1>4
  <2>3. \A k \in 0 .. m - 1 : k # 0 => k - 1 \in 0 .. m - 1
    BY <1>3
  <2> HIDE DEF g
  <2> QED
    BY <1>4, <1>7, <1>8, <2>1, <2>2, <2>3
<1>10. RmSteps(g, T, ss, id, m)
  <2>1. g = [k \in 0 .. m |-> g[k]]
    OBVIOUS
  <2> HIDE DEF g
  <2> QED
    BY <1>9, <2>1 DEF RmSteps
<1> QED
  BY <1>3, <1>10

\* The loop of childUnsubscribe() ends with the last of these steps.
LEMMA RmServicesSteps ==
  ASSUME NEW T, NEW ss, NEW id, Len(ss) \in Nat
  PROVE  \E f : /\ RmSteps(f, T, ss, id, Len(ss))
                /\ rmChildServices(T, ss, id) = f[Len(ss)]
<1> DEFINE f == CHOOSE f : RmSteps(f, T, ss, id, Len(ss))
<1>1. RmSteps(f, T, ss, id, Len(ss))
  BY RmStepsExist
<1>2. rmChildServices(T, ss, id) = f[Len(ss)]
  BY DEF rmChildServices, RmSteps
<1> QED
  BY <1>1, <1>2

\* What childUnsubscribe() has done to the table T after n services.
Removed(U, T, id, ss, n) ==
  /\ GoodTable(U)
  /\ \A p, x : Has(U, p, x) => Has(T, p, x) /\ ~ (x = id /\ \E k \in 1 .. n : ss[k] = p)
  /\ \A p : (\A k \in 1 .. n : ss[k] # p) =>
       /\ ExactFor(T, p) => ExactFor(U, p)
       /\ \A x : Has(T, p, x) => Has(U, p, x)
  /\ (\A k \in 1 .. n : Has(T, ss[k], id) /\ ExactFor(T, ss[k])) =>
       \A k \in 1 .. n : /\ ExactFor(U, ss[k])
                         /\ \A x : x # id /\ Has(T, ss[k], x) => Has(U, ss[k], x)

\* One more service.
LEMMA RmOneIs ==
  ASSUME NEW T, NEW id, NEW ss \in Seq(Offers), OnceEach(ss), NEW n \in 1 .. Len(ss),
         NEW U, Removed(U, T, id, ss, n - 1)
  PROVE  Removed(rmChildService(U, ss[n], id), T, id, ss, n)
<1> DEFINE V == rmChildService(U, ss[n], id)
           s == ss[n]
<1>1. /\ n \in Nat /\ Len(ss) \in Nat /\ n \in 1 .. n
      /\ \A k \in 1 .. n : k \in 1 .. n - 1 \/ k = n
      /\ \A k \in 1 .. n - 1 : k \in 1 .. n /\ k \in 1 .. Len(ss) /\ k # n
  OBVIOUS
<1>2. \A k \in 1 .. n - 1 : ss[k] # s
  BY <1>1 DEF OnceEach
<1>3. /\ GoodTable(U)
      /\ \A p, x : Has(U, p, x) =>
           Has(T, p, x) /\ ~ (x = id /\ \E k \in 1 .. n - 1 : ss[k] = p)
      /\ \A p : (\A k \in 1 .. n - 1 : ss[k] # p) =>
           /\ ExactFor(T, p) => ExactFor(U, p)
           /\ \A x : Has(T, p, x) => Has(U, p, x)
  BY DEF Removed
<1>4. (\A k \in 1 .. n - 1 : Has(T, ss[k], id) /\ ExactFor(T, ss[k])) =>
        \A k \in 1 .. n - 1 : /\ ExactFor(U, ss[k])
                              /\ \A x : x # id /\ Has(T, ss[k], x) => Has(U, ss[k], x)
  BY DEF Removed
<1>5. /\ GoodTable(V)
      /\ \A p, x : Has(V, p, x) => Has(U, p, x) /\ ~ (p = s /\ x = id)
      /\ \A p, x : p # s /\ Has(U, p, x) => Has(V, p, x)
      /\ \A p : p # s /\ ExactFor(U, p) => ExactFor(V, p)
      /\ Has(U, s, id) /\ ExactFor(U, s) =>
           /\ ExactFor(V, s)
           /\ \A x : x # id /\ Has(U, s, x) => Has(V, s, x)
  <2> HIDE DEF s
  <2> QED
    BY <1>3, RmChildServiceIs DEF s
<1> HIDE DEF V, s
<1>6. ss[n] = s
  BY DEF s
<1>7. \A p, x : Has(V, p, x) => Has(T, p, x) /\ ~ (x = id /\ \E k \in 1 .. n : ss[k] = p)
  <2> SUFFICES ASSUME NEW p, NEW x, Has(V, p, x)
               PROVE  Has(T, p, x) /\ ~ (x = id /\ \E k \in 1 .. n : ss[k] = p)
    OBVIOUS
  <2>1. Has(U, p, x) /\ ~ (p = s /\ x = id)
    BY <1>5
  <2>2. Has(T, p, x) /\ ~ (x = id /\ \E k \in 1 .. n - 1 : ss[k] = p)
    BY <1>3, <2>1
  <2> QED
    BY <1>1, <1>6, <2>1, <2>2
<1>8. ASSUME NEW p, \A k \in 1 .. n : ss[k] # p
      PROVE  /\ ExactFor(T, p) => ExactFor(V, p)
             /\ \A x : Has(T, p, x) => Has(V, p, x)
  <2>1. p # s /\ \A k \in 1 .. n - 1 : ss[k] # p
    BY <1>1, <1>6, <1>8
  <2> QED
    BY <1>3, <1>5, <2>1
<1>9. ASSUME \A k \in 1 .. n : Has(T, ss[k], id) /\ ExactFor(T, ss[k]),
             NEW k \in 1 .. n
      PROVE  /\ ExactFor(V, ss[k])
             /\ \A x : x # id /\ Has(T, ss[k], x) => Has(V, ss[k], x)
  <2>1. CASE k = n
    <3>1. Has(T, s, id) /\ ExactFor(T, s)
      BY <1>6, <1>9, <2>1
    <3>2. ExactFor(U, s) /\ \A x : Has(T, s, x) => Has(U, s, x)
      BY <1>2, <1>3, <3>1
    <3> QED
      BY <1>5, <1>6, <2>1, <3>1, <3>2
  <2>2. CASE k # n
    <3>1. k \in 1 .. n - 1 /\ ss[k] # s
      BY <1>1, <1>2, <2>2
    <3>2. /\ ExactFor(U, ss[k])
          /\ \A x : x # id /\ Has(T, ss[k], x) => Has(U, ss[k], x)
      BY <1>1, <1>4, <1>9, <3>1
    <3> QED
      BY <1>5, <3>1, <3>2
  <2> QED
    BY <2>1, <2>2
<1>10. Removed(V, T, id, ss, n)
  BY <1>5, <1>7, <1>8, <1>9 DEF Removed
<1> QED
  BY <1>10 DEF V, s

\* The whole loop.
LEMMA RmServicesAre ==
  ASSUME NEW T, GoodTable(T), NEW id, NEW ss \in Seq(Offers), OnceEach(ss)
  PROVE  Removed(rmChildServices(T, ss, id), T, id, ss, Len(ss))
<1>1. Len(ss) \in Nat
  OBVIOUS
<1>2. PICK f : /\ RmSteps(f, T, ss, id, Len(ss))
               /\ rmChildServices(T, ss, id) = f[Len(ss)]
  BY <1>1, RmServicesSteps
<1>3. f[0] = T
  BY <1>1, <1>2 DEF RmSteps
<1>4. ASSUME NEW n \in 1 .. Len(ss)
      PROVE  f[n] = rmChildService(f[n - 1], ss[n], id)
  <2>1. n \in 0 .. Len(ss) /\ n # 0
    BY <1>1
  <2> QED
    BY <1>2, <2>1 DEF RmSteps
<1> DEFINE S == {n \in 0 .. Len(ss) : ~Removed(f[n], T, id, ss, n)}
<1>5. Removed(f[0], T, id, ss, 0)
  <2>1. 1 .. 0 = {}
    OBVIOUS
  <2> QED
    BY <1>3, <2>1 DEF Removed
<1>6. SUFFICES ASSUME S # {} PROVE FALSE
  BY <1>1, <1>2
<1>7. PICK n \in S : \A k \in S : n <= k
  <2>1. S \in SUBSET Nat
    BY <1>1
  <2> HIDE DEF S
  <2> QED
    BY <1>6, <2>1, LeastExists
<1>8. n \in 0 .. Len(ss) /\ ~Removed(f[n], T, id, ss, n)
  BY <1>7
<1>9. n \in 1 .. Len(ss)
  BY <1>1, <1>5, <1>8
<1>10. n - 1 \in 0 .. Len(ss) /\ n - 1 \notin S
  BY <1>1, <1>7, <1>9
<1>11. Removed(f[n - 1], T, id, ss, n - 1)
  BY <1>10
<1>12. Removed(rmChildService(f[n - 1], ss[n], id), T, id, ss, n)
  BY <1>9, <1>11, RmOneIs
<1> QED
  BY <1>4, <1>8, <1>9, <1>12

-----------------------------------------------------------------------------
(* The children and their numbers. *)

KidPlace == {"out", "numbered", "sized", "resized", "entry", "set",
             "in", "refused", "leaving"}

KidTypes ==
  /\ kid \in [Child -> [pc : KidPlace, id : -1 .. MaxSubs - 1,
                        size : 0 .. MaxSubs, profiles : Seq(Offers)]]
  /\ childIDCounter \in 0 .. MaxSubs

\* A number is given to one child, once.
KidInv ==
  /\ KidTypes
  /\ \A c \in Child : kid[c].id < childIDCounter
  /\ \A c \in Child : kid[c].pc # "out" => kid[c].id >= 0
  /\ \A c, d \in Child : kid[c].id = kid[d].id /\ kid[c].id >= 0 => c = d
  /\ \A c \in Child : kid[c].pc = "sized" => kid[c].size > kid[c].id
  /\ \A c \in Child : kid[c].size <= childIDCounter
  /\ \A c \in Child : OnceEach(kid[c].profiles)

\* What a step does to the record of one child.
KidGoes(c, p, i, z, ps) ==
  /\ KidTypes'
  /\ \A d \in Child : d # c => kid'[d] = kid[d]
  /\ kid'[c].pc = p /\ kid'[c].id = i /\ kid'[c].size = z /\ kid'[c].profiles = ps

\* A step that changes neither a child nor the counter.
KidSame == kid' = kid /\ childIDCounter' = childIDCounter

\* The parts of a child's record.
LEMMA KidTyped ==
  ASSUME KidTypes, NEW c \in Child
  PROVE  /\ kid[c].pc \in KidPlace /\ kid[c].id \in -1 .. MaxSubs - 1
         /\ kid[c].size \in 0 .. MaxSubs /\ kid[c].profiles \in Seq(Offers)
         /\ childIDCounter \in 0 .. MaxSubs /\ kid[c].id \in Int
         /\ kid[c].size \in Int /\ childIDCounter \in Int
<1>1. kid[c] \in [pc : KidPlace, id : -1 .. MaxSubs - 1,
                  size : 0 .. MaxSubs, profiles : Seq(Offers)]
  BY DEF KidTypes
<1> QED
  BY <1>1, Constants DEF KidTypes

\* A step that only moves the child to another place.
LEMMA KidMoves ==
  ASSUME KidTypes, NEW c \in Child, NEW p \in KidPlace,
         kid' = [kid EXCEPT ![c].pc = p], childIDCounter' = childIDCounter
  PROVE  KidGoes(c, p, kid[c].id, kid[c].size, kid[c].profiles)
BY DEF KidTypes, KidGoes

\* TakeNumber() gives the child the next number.
LEMMA KidTakesNumber ==
  ASSUME KidTypes, NEW c \in Child, TakeNumber(c)
  PROVE  KidGoes(c, "numbered", childIDCounter, kid[c].size, kid[c].profiles)
<1>1. /\ kid' = [kid EXCEPT ![c].pc = "numbered", ![c].id = childIDCounter]
      /\ childIDCounter' = childIDCounter + 1 /\ childIDCounter < MaxSubs
  BY DEF TakeNumber
<1>2. childIDCounter \in -1 .. MaxSubs - 1 /\ childIDCounter' \in 0 .. MaxSubs
  BY <1>1, Constants DEF KidTypes
<1>3. PICK n : n = childIDCounter
  OBVIOUS
<1>4. n \in -1 .. MaxSubs - 1 /\ kid' = [kid EXCEPT ![c].pc = "numbered", ![c].id = n]
  BY <1>1, <1>2, <1>3
<1>5. KidTypes'
  BY <1>2, <1>4 DEF KidTypes, KidPlace
<1> QED
  BY <1>3, <1>4, <1>5 DEF KidTypes, KidGoes

\* ReadCounter() gives it the size it will ask for.
LEMMA KidReadsCounter ==
  ASSUME KidTypes, NEW c \in Child, ReadCounter(c)
  PROVE  KidGoes(c, "sized", kid[c].id, childIDCounter, kid[c].profiles)
<1>1. /\ kid' = [kid EXCEPT ![c].pc = "sized", ![c].size = childIDCounter]
      /\ childIDCounter' = childIDCounter
  BY DEF ReadCounter, listVars
<1> QED
  BY <1>1 DEF KidTypes, KidGoes, KidPlace

\* A step that only changes what the child offers.
LEMMA KidOffers ==
  ASSUME KidTypes, NEW c \in Child, NEW ps \in Seq(Offers),
         kid' = [kid EXCEPT ![c].profiles = ps], childIDCounter' = childIDCounter
  PROVE  KidGoes(c, kid[c].pc, kid[c].id, kid[c].size, ps)
BY DEF KidTypes, KidGoes

\* The numbers stay apart when a child keeps its own.
LEMMA KidStep ==
  ASSUME KidInv, NEW c \in Child, NEW p, NEW z, NEW ps,
         KidGoes(c, p, kid[c].id, z, ps), childIDCounter' = childIDCounter,
         p # "out" => kid[c].id >= 0, p = "sized" => z > kid[c].id,
         z <= childIDCounter, OnceEach(ps)
  PROVE  KidInv'
<1>1. \A d \in Child : kid'[d].id = kid[d].id
  BY DEF KidGoes
<1>2. \A d \in Child : d # c => kid'[d] = kid[d]
  BY DEF KidGoes
<1>3. kid'[c].pc = p /\ kid'[c].size = z /\ kid'[c].profiles = ps /\ KidTypes'
  BY DEF KidGoes
<1>4. \A d \in Child : kid'[d].pc # "out" => kid'[d].id >= 0
  BY <1>1, <1>2, <1>3 DEF KidInv
<1>5. \A d \in Child : kid'[d].pc = "sized" => kid'[d].size > kid'[d].id
  BY <1>1, <1>2, <1>3 DEF KidInv
<1>6. \A d \in Child : kid'[d].size <= childIDCounter'
  BY <1>2, <1>3 DEF KidInv
<1>7. \A d \in Child : OnceEach(kid'[d].profiles)
  BY <1>2, <1>3 DEF KidInv
<1>8. /\ \A d \in Child : kid'[d].id < childIDCounter'
      /\ \A d, e \in Child : kid'[d].id = kid'[e].id /\ kid'[d].id >= 0 => d = e
  BY <1>1 DEF KidInv
<1> QED
  BY <1>3, <1>4, <1>5, <1>6, <1>7, <1>8 DEF KidInv, OnceEach

\* The steps of a child, apart from what they do to the requests.
ChildAct(c) ==
  \/ TakeNumber(c) \/ ReadCounter(c) \/ Resize(c) \/ FindEntry(c) \/ SetChild(c)
  \/ Subscribed(c) \/ AddService(c) \/ childRemoveService(c)
  \/ childUnsubscribe(c) \/ ForgetChild(c)
ChildRest == Disturbs(Contacting) /\ UNCHANGED <<reqVars, dead, faults, unanswered, early>>

\* Every step is one of a child, of a request or of a response.
LEMMA NextSplits ==
  ASSUME Next
  PROVE  \/ \E c \in Child : ChildAct(c) /\ ChildRest
         \/ \E c \in Child : Die(c)
         \/ \E r \in ReqID : Serving(r)
         \/ \E r \in ReqID, c \in Child : Responding(r, c)
<1>1. ASSUME NEW c \in Child, Changing(c) \/ ChildStep(Calling, c)
      PROVE  ChildAct(c) /\ ChildRest
  BY <1>1 DEF Changing, ChildStep, Calling, ChildAct, ChildRest
<1> QED
  BY <1>1, Zenon DEF Next

\* Requests and responses leave the children and their numbers alone.
LEMMA ServingKeepsKids ==
  ASSUME NEW r \in ReqID, Serving(r)
  PROVE  /\ KidSame /\ ~crashed /\ shrunk' = shrunk /\ confused' = confused
         /\ stale' = stale
         /\ changes' = changes
<1>1. CASE findServer(r)
  BY <1>1, Zenon DEF findServer, KidSame, listVars, historyVars
<1>2. CASE CountChildren(r)
  BY <1>2, Zenon DEF CountChildren, KidSame, listVars, historyVars
<1>3. CASE DropChild(r)
  BY <1>3, Zenon DEF DropChild, KidSame
<1>4. CASE submit_local(r) \/ Contact(r) \/ UnknownChild(r) \/ PingFails(r)
           \/ SendFails(r) \/ Wake(r) \/ Finish(r)
  BY <1>4, Zenon DEF submit_local, Contact, UnknownChild, PingFails, SendFails, Wake, Finish,
     KidSame, agentVars, historyVars, listVars
<1> QED
  BY <1>1, <1>2, <1>3, <1>4 DEF Serving

\* So does the end of a child's process.
LEMMA AnswersKeepAgent ==
  ASSUME NEW c \in Child, Die(c) \/ \E r \in ReqID : Responding(r, c)
  PROVE  /\ KidSame /\ UNCHANGED <<children, nbChildren, SrvT, srvTMutex, changes,
                                   dropped, confused, shrunk,
                                   stale>>
         /\ UNCHANGED <<disturbed, early>>
         /\ crashed => crashed'
<1>1. CASE Die(c)
  BY <1>1, Zenon DEF Die, KidSame, agentVars, historyVars, listVars, tableVars
<1>2. ASSUME NEW r \in ReqID, Answer(r, c) \/ getResponse(r, c)
      PROVE  /\ KidSame /\ UNCHANGED <<children, nbChildren, SrvT, srvTMutex, changes,
                                       dropped, confused, shrunk,
                                       stale, crashed>>
             /\ UNCHANGED <<disturbed, early>>
  BY <1>2, Zenon DEF Answer, getResponse, KidSame, agentVars, historyVars, listVars, tableVars, envVars
<1>3. ASSUME NEW r \in ReqID, addResponse(r, c)
      PROVE  /\ KidSame /\ UNCHANGED <<children, nbChildren, SrvT, srvTMutex, changes,
                                       dropped, confused, shrunk,
                                   stale>>
             /\ UNCHANGED <<disturbed, early>> /\ ~crashed
  BY <1>3, Zenon DEF addResponse, KidSame, listVars, tableVars, envVars, historyVars
<1> QED
  BY <1>1, <1>2, <1>3 DEF Responding

\* An offered service is one of Offers.
LEMMA ExtraOffers == \A c \in Child : Extra[c] \subseteq Offers
BY DEF Offers

\* What the steps of a child do to it.
LEMMA KidActs ==
  ASSUME KidInv, NEW c \in Child
  PROVE  /\ ReadCounter(c) => kid[c].pc = "numbered" /\ ~crashed
               /\ KidGoes(c, "sized", kid[c].id, childIDCounter, kid[c].profiles)
         /\ Resize(c) => kid[c].pc = "sized" /\ ~crashed
               /\ KidGoes(c, "resized", kid[c].id, kid[c].size, kid[c].profiles)
         /\ FindEntry(c) => kid[c].pc = "resized" /\ ~crashed
               /\ KidGoes(c, "entry", kid[c].id, kid[c].size, kid[c].profiles)
         /\ SetChild(c) => kid[c].pc = "entry" /\ ~crashed
               /\ KidGoes(c, "set", kid[c].id, kid[c].size, kid[c].profiles)
         /\ Subscribed(c) => kid[c].pc = "set" /\ ~crashed
               /\ KidGoes(c, IF Refuses(c, kid[c].profiles) THEN "refused" ELSE "in",
                          kid[c].id, kid[c].size, kid[c].profiles)
         /\ childUnsubscribe(c) => kid[c].pc = "in" /\ ~crashed
               /\ KidGoes(c, "leaving", kid[c].id, kid[c].size, kid[c].profiles)
         /\ ForgetChild(c) => kid[c].pc = "leaving" /\ ~crashed
               /\ KidGoes(c, "out", kid[c].id, kid[c].size, kid[c].profiles)
<1>1. KidTypes
  BY DEF KidInv
<1>2. ReadCounter(c) => kid[c].pc = "numbered" /\ ~crashed
               /\ KidGoes(c, "sized", kid[c].id, childIDCounter, kid[c].profiles)
  BY <1>1, KidReadsCounter DEF ReadCounter
<1>3. Resize(c) => kid[c].pc = "sized" /\ ~crashed
               /\ KidGoes(c, "resized", kid[c].id, kid[c].size, kid[c].profiles)
  BY <1>1, KidMoves DEF Resize, Step, KidPlace
<1>31. FindEntry(c) => kid[c].pc = "resized" /\ ~crashed
               /\ KidGoes(c, "entry", kid[c].id, kid[c].size, kid[c].profiles)
  BY <1>1, KidMoves DEF FindEntry, Step, KidPlace, listVars
<1>4. SetChild(c) => kid[c].pc = "entry" /\ ~crashed
               /\ KidGoes(c, "set", kid[c].id, kid[c].size, kid[c].profiles)
  BY <1>1, KidMoves DEF SetChild, Step, KidPlace
<1>5. Subscribed(c) => kid[c].pc = "set" /\ ~crashed
               /\ KidGoes(c, IF Refuses(c, kid[c].profiles) THEN "refused" ELSE "in",
                          kid[c].id, kid[c].size, kid[c].profiles)
  BY <1>1, KidMoves DEF Subscribed, Step, KidPlace, listVars
<1>6. childUnsubscribe(c) => kid[c].pc = "in" /\ ~crashed
               /\ KidGoes(c, "leaving", kid[c].id, kid[c].size, kid[c].profiles)
  BY <1>1, KidMoves DEF childUnsubscribe, Change, KidPlace, listVars
<1>7. ForgetChild(c) => kid[c].pc = "leaving" /\ ~crashed
               /\ KidGoes(c, "out", kid[c].id, kid[c].size, kid[c].profiles)
  BY <1>1, KidMoves DEF ForgetChild, Step, KidPlace
<1> QED
  BY <1>2, <1>3, <1>31, <1>4, <1>5, <1>6, <1>7

\* What the steps do that change a child's own services.
LEMMA KidChanges ==
  ASSUME KidInv, NEW c \in Child
  PROVE  /\ \A s \in Extra[c] \ ToSet(kid[c].profiles) :
              kid' = [kid EXCEPT ![c].profiles = Append(@, s)] /\ UNCHANGED childIDCounter =>
                /\ Append(kid[c].profiles, s) \in Seq(Offers) /\ s \in Offers
                /\ OnceEach(Append(kid[c].profiles, s))
                /\ ToSet(Append(kid[c].profiles, s)) = ToSet(kid[c].profiles) \cup {s}
                /\ KidGoes(c, kid[c].pc, kid[c].id, kid[c].size, Append(kid[c].profiles, s))
         /\ \A s \in ToSet(kid[c].profiles) :
              kid' = [kid EXCEPT ![c].profiles = Without(@, s)] /\ UNCHANGED childIDCounter =>
                /\ Without(kid[c].profiles, s) \in Seq(Offers) /\ s \in Offers
                /\ OnceEach(Without(kid[c].profiles, s))
                /\ ToSet(Without(kid[c].profiles, s)) = ToSet(kid[c].profiles) \ {s}
                /\ KidGoes(c, kid[c].pc, kid[c].id, kid[c].size, Without(kid[c].profiles, s))
<1> DEFINE ps == kid[c].profiles
<1>1. KidTypes /\ ps \in Seq(Offers) /\ OnceEach(ps)
  BY KidTyped DEF KidInv
<1>2. DOMAIN ps = 1 .. Len(ps)
  BY <1>1
<1>3. ASSUME NEW s \in Extra[c] \ ToSet(ps),
             kid' = [kid EXCEPT ![c].profiles = Append(@, s)], UNCHANGED childIDCounter
      PROVE  /\ Append(ps, s) \in Seq(Offers) /\ s \in Offers
             /\ OnceEach(Append(ps, s)) /\ ToSet(Append(ps, s)) = ToSet(ps) \cup {s}
             /\ KidGoes(c, kid[c].pc, kid[c].id, kid[c].size, Append(ps, s))
  <2>1. s \in Offers
    BY ExtraOffers
  <2>11. /\ \A i, j \in DOMAIN ps : ps[i] = ps[j] => i = j
         /\ s \notin ToSet(ps)
    BY <1>1, <1>2, <1>3 DEF OnceEach
  <2>2. /\ Append(ps, s) \in Seq(Offers) /\ ToSet(Append(ps, s)) = ToSet(ps) \cup {s}
        /\ \A i, j \in DOMAIN Append(ps, s) : Append(ps, s)[i] = Append(ps, s)[j] => i = j
    <3> HIDE DEF ps
    <3> QED
      BY <1>1, <2>1, <2>11, AppendIsOnce
  <2>3. DOMAIN Append(ps, s) = 1 .. Len(Append(ps, s))
    BY <2>2
  <2>4. kid' = [kid EXCEPT ![c].profiles = Append(ps, s)]
    BY <1>1, <1>3 DEF KidTypes
  <2> HIDE DEF ps
  <2>5. KidGoes(c, kid[c].pc, kid[c].id, kid[c].size, Append(ps, s))
    BY <1>1, <1>3, <2>2, <2>4, KidOffers
  <2> QED
    BY <2>1, <2>2, <2>3, <2>5 DEF OnceEach
<1>4. ASSUME NEW s \in ToSet(ps),
             kid' = [kid EXCEPT ![c].profiles = Without(@, s)], UNCHANGED childIDCounter
      PROVE  /\ Without(ps, s) \in Seq(Offers) /\ s \in Offers
             /\ OnceEach(Without(ps, s)) /\ ToSet(Without(ps, s)) = ToSet(ps) \ {s}
             /\ KidGoes(c, kid[c].pc, kid[c].id, kid[c].size, Without(ps, s))
  <2>1. s \in Offers
    BY <1>1, Elements
  <2>2. /\ Without(ps, s) \in Seq(Offers) /\ OnceEach(Without(ps, s))
        /\ ToSet(Without(ps, s)) = ToSet(ps) \ {s}
    BY <1>1, <1>4, WithoutIs
  <2>3. kid' = [kid EXCEPT ![c].profiles = Without(ps, s)]
    BY <1>1, <1>4 DEF KidTypes
  <2> HIDE DEF ps
  <2>4. KidGoes(c, kid[c].pc, kid[c].id, kid[c].size, Without(ps, s))
    BY <1>1, <1>4, <2>2, <2>3, KidOffers
  <2> QED
    BY <2>1, <2>2, <2>4
<1> QED
  BY <1>3, <1>4

\* No step gives a number twice.
LEMMA KidKept ==
  ASSUME KidInv, Next
  PROVE  KidInv'
<1>1. ASSUME KidSame PROVE KidInv'
  BY <1>1 DEF KidSame, KidInv, KidTypes
<1>2. ASSUME NEW c \in Child, TakeNumber(c) PROVE KidInv'
  <2>1. /\ childIDCounter' = childIDCounter + 1
        /\ KidGoes(c, "numbered", childIDCounter, kid[c].size, kid[c].profiles)
    BY <1>2, KidTakesNumber DEF KidInv, TakeNumber
  <2>2. /\ \A d \in Child : d # c => kid'[d] = kid[d]
        /\ kid'[c].pc = "numbered" /\ kid'[c].id = childIDCounter
        /\ kid'[c].size = kid[c].size /\ kid'[c].profiles = kid[c].profiles
        /\ KidTypes'
    BY <2>1 DEF KidGoes
  <2>3. \A d \in Child : kid[d].id \in Int /\ kid[d].size \in Int /\ childIDCounter \in Nat
    BY KidTyped DEF KidInv
  <2>4. \A d \in Child : kid'[d].id < childIDCounter' /\ kid'[d].size <= childIDCounter'
    BY <2>1, <2>2, <2>3 DEF KidInv
  <2>5. \A d \in Child : kid'[d].pc # "out" => kid'[d].id >= 0
    BY <2>2, <2>3 DEF KidInv
  <2>6. \A d, e \in Child : kid'[d].id = kid'[e].id /\ kid'[d].id >= 0 => d = e
    BY <2>2, <2>3 DEF KidInv
  <2>7. \A d \in Child : kid'[d].pc = "sized" => kid'[d].size > kid'[d].id
    BY <2>2 DEF KidInv
  <2>8. \A d \in Child : OnceEach(kid'[d].profiles)
    BY <2>2 DEF KidInv
  <2> QED
    BY <2>2, <2>4, <2>5, <2>6, <2>7, <2>8 DEF KidInv, OnceEach
<1>3. ASSUME NEW c \in Child, ReadCounter(c) PROVE KidInv'
  <2>1. /\ KidGoes(c, "sized", kid[c].id, childIDCounter, kid[c].profiles)
        /\ kid[c].pc = "numbered" /\ childIDCounter' = childIDCounter
    BY <1>3, KidActs DEF ReadCounter, listVars
  <2>2. childIDCounter > kid[c].id /\ childIDCounter <= childIDCounter
        /\ kid[c].id >= 0 /\ OnceEach(kid[c].profiles)
    BY <2>1, KidTyped DEF KidInv
  <2> QED
    BY <2>1, <2>2, KidStep
<1>4. ASSUME NEW c \in Child, NEW p, p # "sized", p # "out" => kid[c].id >= 0,
             KidGoes(c, p, kid[c].id, kid[c].size, kid[c].profiles),
             childIDCounter' = childIDCounter
      PROVE  KidInv'
  <2>1. kid[c].size <= childIDCounter /\ OnceEach(kid[c].profiles)
    BY DEF KidInv
  <2> QED
    BY <1>4, <2>1, KidStep
<1>5. ASSUME NEW c \in Child,
             \/ Resize(c) \/ FindEntry(c) \/ SetChild(c) \/ Subscribed(c)
             \/ childUnsubscribe(c) \/ ForgetChild(c)
      PROVE  KidInv'
  <2>1. childIDCounter' = childIDCounter
    BY <1>5 DEF Resize, FindEntry, SetChild, Subscribed, childUnsubscribe, ForgetChild,
       listVars
  <2>2. \E p : /\ p # "sized" /\ kid[c].pc # "out"
               /\ KidGoes(c, p, kid[c].id, kid[c].size, kid[c].profiles)
    BY <1>5, KidActs
  <2> QED
    BY <1>4, <2>1, <2>2 DEF KidInv
<1>6. ASSUME NEW c \in Child, AddService(c) \/ childRemoveService(c)
      PROVE  KidInv'
  <2>1. \E ps : /\ OnceEach(ps) /\ kid[c].pc = "in" /\ childIDCounter' = childIDCounter
                /\ KidGoes(c, kid[c].pc, kid[c].id, kid[c].size, ps)
    <3>1. CASE AddService(c)
      BY <3>1, KidChanges DEF AddService, Change, listVars
    <3>2. CASE childRemoveService(c)
      BY <3>2, KidChanges DEF childRemoveService, Change, listVars
    <3> QED
      BY <1>6, <3>1, <3>2
  <2>2. kid[c].size <= childIDCounter
    BY DEF KidInv
  <2> QED
    BY <2>1, <2>2, KidStep DEF KidInv
<1> QED
  BY <1>1, <1>2, <1>3, <1>5, <1>6, NextSplits, ServingKeepsKids, AnswersKeepAgent
  DEF ChildAct

-----------------------------------------------------------------------------
(* The table and the children. *)

\* Child c is subscribed as number id and offers s.
OffersAs(c, s, id) ==
  kid[c].pc = "in" /\ kid[c].id = id /\ s \in ToSet(kid[c].profiles)

\* What the table lists is offered.
ListedOffer ==
  ~crashed => \A s, id : Has(SrvT, s, id) => \E c \in Child : OffersAs(c, s, id)

\* What is offered is listed.
OffersListed ==
  ~crashed /\ ~confused /\ srvTMutex = "free" =>
    \A c \in Child : kid[c].pc = "in" /\ kid[c].id \notin dropped =>
      \A s \in ToSet(kid[c].profiles) : Has(SrvT, s, kid[c].id)

TableGood == GoodTable(SrvT) /\ (~confused => Exact(SrvT))
TableInv == TableGood /\ ListedOffer /\ OffersListed

\* What addServices() does to the agent's table.
LEMMA AddsServices ==
  ASSUME TableGood, NEW c \in Child, kid[c].id \in Ids, NEW ss \in Seq(Offers),
         addServices(c, ss), ~crashed
  PROVE  \/ crashed' /\ confused /\ SrvT' = SrvT /\ srvTMutex' = srvTMutex
         \/ /\ ~crashed' /\ ~Refuses(c, ss) /\ srvTMutex' = "free"
            /\ GoodTable(SrvT') /\ (Exact(SrvT) => Exact(SrvT'))
            /\ \A p, x : Has(SrvT', p, x) <=>
                 Has(SrvT, p, x) \/ (x = kid[c].id /\ p \in ToSet(ss))
         \/ /\ ~crashed' /\ Refuses(c, ss) /\ srvTMutex' = "kept"
            /\ GoodTable(SrvT') /\ (Exact(SrvT) => Exact(SrvT'))
            /\ \A p, x : Has(SrvT', p, x) <=> Has(SrvT, p, x) /\ x # kid[c].id
<1> DEFINE added == AddAll(SrvT, c, ss)
<1>1. GoodTable(SrvT) /\ (~confused => Exact(SrvT))
  BY DEF TableGood
<1>2. Exact(SrvT) => /\ \A s : ~Overruns(SrvT, lookupService(SrvT, s))
                     /\ \A i \in DOMAIN SrvT : ~Overruns(SrvT, i)
  <2>1. DOMAIN SrvT = 1 .. Len(SrvT)
    BY <1>1 DEF GoodTable
  <2> QED
    BY <1>1, <2>1, OverrunsIs, ExactIs
<1>3. CASE \/ \E s \in ToSet(ss) : Overruns(SrvT, lookupService(SrvT, s))
           \/ ~added.ok /\ \E i \in DOMAIN SrvT : Overruns(SrvT, i)
  <2>1. crashed' = TRUE /\ SrvT' = SrvT /\ srvTMutex' = srvTMutex
    BY <1>3 DEF addServices, tableVars
  <2> QED
    BY <1>1, <1>2, <1>3, <2>1
<1>4. CASE ~ \/ \E s \in ToSet(ss) : Overruns(SrvT, lookupService(SrvT, s))
             \/ ~added.ok /\ \E i \in DOMAIN SrvT : Overruns(SrvT, i)
  <2>1. /\ SrvT' = added.tab /\ srvTMutex' = (IF added.ok THEN "free" ELSE "kept")
        /\ crashed' = crashed
    BY <1>4 DEF addServices
  <2>2. \A s \in ToSet(ss) : ExactFor(SrvT, s)
    BY <1>1, <1>4, OverrunsIs
  <2>3. Added(added, SrvT, kid[c].id, ss, Len(ss))
    BY <1>1, <2>2, AddAllIs
  <2>4. \A p : p \in ToSet(ss) <=> \E k \in 1 .. Len(ss) : ss[k] = p
    BY Elements
  <2>5. Refuses(c, ss) <=> ~added.ok
    BY DEF Refuses
  <2> HIDE DEF added
  <2>6. Exact(SrvT) => Exact(SrvT')
    BY <2>1, <2>3 DEF Added, Exact
  <2>7. CASE added.ok
    <3>1. \A p, x : Has(SrvT', p, x) <=>
            Has(SrvT, p, x) \/ (x = kid[c].id /\ p \in ToSet(ss))
      BY <2>1, <2>3, <2>4, <2>7 DEF Added
    <3> QED
      BY <2>1, <2>3, <2>5, <2>6, <2>7, <3>1 DEF Added
  <2>8. CASE ~added.ok
    <3>1. \A p, x : Has(SrvT', p, x) <=> Has(SrvT, p, x) /\ x # kid[c].id
      BY <2>1, <2>3, <2>8 DEF Added
    <3> QED
      BY <2>1, <2>3, <2>5, <2>6, <2>8, <3>1 DEF Added
  <2> QED
    BY <2>7, <2>8
<1> QED
  BY <1>3, <1>4

\* What the calls of rmChildService() do to it: when the agent lists the child
\* for each service, they take exactly these, and cannot fail.
LEMMA RemovesServices ==
  ASSUME TableGood, NEW c \in Child, NEW ss \in Seq(Offers), OnceEach(ss),
         RemoveAll(c, ss), ~crashed, confused' = (confused \/ Unlisted(c, ss))
  PROVE  /\ GoodTable(SrvT')
         /\ \A p, x : Has(SrvT', p, x) => Has(SrvT, p, x)
         /\ ~crashed' => \A p, x : Has(SrvT', p, x) => ~ (x = kid[c].id /\ p \in ToSet(ss))
         /\ ~confused' =>
              /\ ~crashed' /\ ~confused /\ Exact(SrvT')
              /\ \A p, x : Has(SrvT, p, x) /\ ~ (x = kid[c].id /\ p \in ToSet(ss)) =>
                   Has(SrvT', p, x)
<1> DEFINE id == kid[c].id
<1>1. GoodTable(SrvT) /\ (~confused => Exact(SrvT))
  BY DEF TableGood
<1>2. \A p : p \in ToSet(ss) <=> \E k \in 1 .. Len(ss) : ss[k] = p
  BY Elements
<1>3. \A s : Lists(SrvT, s, id) <=> Has(SrvT, s, id)
  BY <1>1, ListsIs
<1>4. CASE \E s \in ToSet(ss) : Overruns(SrvT, lookupService(SrvT, s))
  <2>1. crashed' = TRUE /\ SrvT' = SrvT
    BY <1>4 DEF RemoveAll
  <2>2. confused
    BY <1>1, <1>4, OverrunsIs
  <2> QED
    BY <1>1, <2>1, <2>2
<1>5. CASE ~ \E s \in ToSet(ss) : Overruns(SrvT, lookupService(SrvT, s))
  <2>1. /\ SrvT' = rmChildServices(SrvT, ss, id)
        /\ crashed' => \E s \in ToSet(ss) : lookupService(SrvT, s) = 0
    BY <1>5, Zenon DEF RemoveAll
  <2>2. Removed(SrvT', SrvT, id, ss, Len(ss))
    BY <1>1, <2>1, RmServicesAre
  <2> HIDE DEF id
  <2>3. /\ GoodTable(SrvT')
        /\ \A p, x : Has(SrvT', p, x) => Has(SrvT, p, x) /\ ~ (x = id /\ p \in ToSet(ss))
        /\ \A p : p \notin ToSet(ss) =>
             /\ ExactFor(SrvT, p) => ExactFor(SrvT', p)
             /\ \A x : Has(SrvT, p, x) => Has(SrvT', p, x)
    BY <1>2, <2>2 DEF Removed
  <2>4. (\A k \in 1 .. Len(ss) : Has(SrvT, ss[k], id) /\ ExactFor(SrvT, ss[k])) =>
           \A k \in 1 .. Len(ss) :
             /\ ExactFor(SrvT', ss[k])
             /\ \A x : x # id /\ Has(SrvT, ss[k], x) => Has(SrvT', ss[k], x)
    BY <2>2 DEF Removed
  <2>5. ASSUME ~confused'
        PROVE  /\ ~crashed' /\ ~confused /\ Exact(SrvT')
               /\ \A p, x : Has(SrvT, p, x) /\ ~ (x = id /\ p \in ToSet(ss)) =>
                    Has(SrvT', p, x)
    <3>1. ~confused /\ \A s \in ToSet(ss) : Lists(SrvT, s, id)
      BY <2>5 DEF Unlisted, id
    <3>2. Exact(SrvT) /\ \A s \in ToSet(ss) : Has(SrvT, s, id)
      BY <1>1, <1>3, <3>1
    <3>3. \A s \in ToSet(ss) : lookupService(SrvT, s) # 0
      BY <3>1 DEF Lists
    <3>4. \A k \in 1 .. Len(ss) : ss[k] \in ToSet(ss) /\ ss[k] \in Offers
      BY <1>2
    <3>5. \A k \in 1 .. Len(ss) : Has(SrvT, ss[k], id) /\ ExactFor(SrvT, ss[k])
      BY <3>2, <3>4 DEF Exact
    <3>6. \A p \in ToSet(ss) :
             /\ ExactFor(SrvT', p)
             /\ \A x : x # id /\ Has(SrvT, p, x) => Has(SrvT', p, x)
      BY <1>2, <2>4, <3>5
    <3>7. Exact(SrvT')
      BY <2>3, <3>2, <3>6 DEF Exact
    <3>8. \A p, x : Has(SrvT, p, x) /\ ~ (x = id /\ p \in ToSet(ss)) =>
            Has(SrvT', p, x)
      BY <2>3, <3>6
    <3>9. ~crashed'
      BY <2>1, <3>3
    <3> QED
      BY <3>1, <3>7, <3>8, <3>9
  <2> QED
    BY <2>3, <2>5 DEF id
<1> QED
  BY <1>4, <1>5

\* A step that leaves the table and its lock alone, and moves no child to or
\* from the subscribed ones, keeps the agreement.
LEMMA TableIdle ==
  ASSUME TableInv, SrvT' = SrvT, confused' = confused,
         srvTMutex' = "free" => srvTMutex = "free",
         dropped \subseteq dropped', crashed => crashed',
         \A c \in Child : kid[c].pc = "in" \/ kid'[c].pc = "in" => kid'[c] = kid[c]
  PROVE  TableInv'
<1>1. TableGood'
  BY DEF TableInv, TableGood
<1>2. ListedOffer'
  BY DEF TableInv, ListedOffer, OffersAs
<1>3. OffersListed'
  BY DEF TableInv, OffersListed
<1> QED
  BY <1>1, <1>2, <1>3 DEF TableInv

\* A child that changes its services, or is subscribed from now on or no more.
LEMMA TableOfChild ==
  ASSUME KidInv, TableInv, ~crashed, NEW c \in Child, kid[c].id >= 0,
         NEW p, NEW z, NEW ps \in Seq(Offers), KidGoes(c, p, kid[c].id, z, ps),
         dropped' = dropped, confused => confused', TableGood',
         \* nothing is listed that is not offered
         ~crashed' => \A s, x : Has(SrvT', s, x) =>
            \/ x # kid[c].id /\ Has(SrvT, s, x)
            \/ x = kid[c].id /\ p = "in" /\ s \in ToSet(ps),
         \* what is offered is listed
         ~crashed' /\ ~confused' /\ srvTMutex' = "free" =>
            /\ srvTMutex = "free"
            /\ \A s, x : x # kid[c].id /\ Has(SrvT, s, x) => Has(SrvT', s, x)
            /\ p = "in" /\ kid[c].id \notin dropped =>
                 \A s \in ToSet(ps) : Has(SrvT', s, kid[c].id)
  PROVE  TableInv'
<1>1. /\ \A d \in Child : d # c => kid'[d] = kid[d]
      /\ kid'[c].pc = p /\ kid'[c].id = kid[c].id /\ kid'[c].profiles = ps
  BY DEF KidGoes
<1>2. \A d \in Child : d # c /\ kid[d].pc = "in" => kid[d].id # kid[c].id
  BY DEF KidInv
<1>3. ListedOffer'
  <2> SUFFICES ASSUME ~crashed', NEW s, NEW x, Has(SrvT', s, x)
               PROVE  \E d \in Child : OffersAs(d, s, x)'
    BY DEF ListedOffer
  <2>1. CASE x # kid[c].id /\ Has(SrvT, s, x)
    <3>1. PICK d \in Child : OffersAs(d, s, x)
      BY <2>1 DEF TableInv, ListedOffer
    <3>2. d # c
      BY <2>1, <3>1 DEF OffersAs
    <3>3. OffersAs(d, s, x)'
      BY <1>1, <3>1, <3>2 DEF OffersAs
    <3> QED
      BY <3>3
  <2>2. CASE x = kid[c].id /\ p = "in" /\ s \in ToSet(ps)
    <3>1. OffersAs(c, s, x)'
      BY <1>1, <2>2 DEF OffersAs
    <3> QED
      BY <3>1
  <2> QED
    BY <2>1, <2>2
<1>4. OffersListed'
  <2> SUFFICES ASSUME ~crashed', ~confused', srvTMutex' = "free", NEW d \in Child,
                      kid'[d].pc = "in", kid'[d].id \notin dropped',
                      NEW s \in ToSet(kid'[d].profiles)
               PROVE  Has(SrvT', s, kid'[d].id)
    BY DEF OffersListed
  <2>1. CASE d = c
    BY <1>1, <2>1
  <2>2. CASE d # c
    <3>1. kid'[d] = kid[d] /\ kid[d].id # kid[c].id /\ kid[d].id \notin dropped
      BY <1>1, <1>2, <2>2
    <3>2. Has(SrvT, s, kid[d].id)
      BY <3>1 DEF TableInv, OffersListed
    <3> QED
      BY <3>1, <3>2
  <2> QED
    BY <2>1, <2>2
<1> QED
  BY <1>3, <1>4 DEF TableInv

\* The child that is listed under a number is the one that has it.
LEMMA ListedIsMine ==
  ASSUME KidInv, TableInv, ~crashed, NEW c \in Child, kid[c].id >= 0,
         NEW s, Has(SrvT, s, kid[c].id)
  PROVE  kid[c].pc = "in" /\ s \in ToSet(kid[c].profiles)
BY DEF KidInv, TableInv, ListedOffer, OffersAs

\* A child has a number of the agent's once it has one.
LEMMA IdTyped ==
  ASSUME KidInv, NEW c \in Child, kid[c].id >= 0
  PROVE  kid[c].id \in Ids
BY KidTyped DEF KidInv, Ids

\* serverSubscribe() and agentSubscribe() keep the agreement.
LEMMA TableSubscribed ==
  ASSUME KidInv, TableInv, NEW c \in Child, Subscribed(c)
  PROVE  TableInv'
<1> DEFINE ps == kid[c].profiles
           id == kid[c].id
           p == IF Refuses(c, ps) THEN "refused" ELSE "in"
<1>1. /\ kid[c].pc = "set" /\ ~crashed /\ srvTMutex = "free"
      /\ KidGoes(c, p, id, kid[c].size, ps)
      /\ addServices(c, ps) /\ dropped' = dropped /\ confused' = confused
  BY KidActs DEF Subscribed, historyVars
<1>2. id >= 0 /\ id \in Ids /\ ps \in Seq(Offers)
  BY <1>1, IdTyped, KidTyped DEF KidInv
<1>3. \A s : ~Has(SrvT, s, id)
  BY <1>1, <1>2, ListedIsMine
<1>4. TableGood
  BY DEF TableInv
<1>5. \/ crashed' /\ confused /\ SrvT' = SrvT /\ srvTMutex' = srvTMutex
      \/ /\ ~crashed' /\ ~Refuses(c, ps) /\ srvTMutex' = "free"
         /\ GoodTable(SrvT') /\ (Exact(SrvT) => Exact(SrvT'))
         /\ \A q, x : Has(SrvT', q, x) <=>
              Has(SrvT, q, x) \/ (x = id /\ q \in ToSet(ps))
      \/ /\ ~crashed' /\ Refuses(c, ps) /\ srvTMutex' = "kept"
         /\ GoodTable(SrvT') /\ (Exact(SrvT) => Exact(SrvT'))
         /\ \A q, x : Has(SrvT', q, x) <=> Has(SrvT, q, x) /\ x # id
  BY <1>1, <1>2, <1>4, AddsServices
<1>6. TableGood'
  BY <1>1, <1>4, <1>5 DEF TableGood
<1> HIDE DEF ps, id
<1>7. ~crashed' => \A s, x : Has(SrvT', s, x) =>
        \/ x # id /\ Has(SrvT, s, x)
        \/ x = id /\ p = "in" /\ s \in ToSet(ps)
  BY <1>3, <1>5
<1>8. ~crashed' /\ ~confused' /\ srvTMutex' = "free" =>
        /\ srvTMutex = "free"
        /\ \A s, x : x # id /\ Has(SrvT, s, x) => Has(SrvT', s, x)
        /\ p = "in" /\ id \notin dropped => \A s \in ToSet(ps) : Has(SrvT', s, id)
  BY <1>1, <1>5
<1> HIDE DEF p
<1> QED
  BY <1>1, <1>2, <1>6, <1>7, <1>8, TableOfChild DEF id

\* An array of one service.
LEMMA OneElement ==
  ASSUME NEW S, NEW s \in S
  PROVE  /\ <<s>> \in Seq(S) /\ OnceEach(<<s>>)
         /\ \A q : q \in ToSet(<<s>>) <=> q = s
<1>1. <<s>> \in Seq(S) /\ Len(<<s>>) = 1 /\ <<s>>[1] = s
  OBVIOUS
<1>2. OnceEach(<<s>>)
  BY <1>1 DEF OnceEach
<1>3. DOMAIN <<s>> = {1}
  BY <1>1
<1> QED
  BY <1>1, <1>2, <1>3 DEF ToSet

\* So does addServices() of a child that is subscribed.
LEMMA TableAdded ==
  ASSUME KidInv, TableInv, NEW c \in Child, AddService(c)
  PROVE  TableInv'
<1> DEFINE old == kid[c].profiles
           id == kid[c].id
<1>1. PICK s \in Extra[c] \ ToSet(old) :
        /\ kid' = [kid EXCEPT ![c].profiles = Append(@, s)]
        /\ kid[c].pc = "in" /\ ~crashed /\ srvTMutex = "free"
        /\ addServices(c, <<s>>) /\ dropped' = dropped /\ confused' = confused
        /\ childIDCounter' = childIDCounter
  BY DEF AddService, Change, listVars, historyVars
<1> DEFINE ps == Append(old, s)
<1>2. /\ ps \in Seq(Offers) /\ s \in Offers /\ ToSet(ps) = ToSet(old) \cup {s}
      /\ KidGoes(c, kid[c].pc, id, kid[c].size, ps)
  BY <1>1, KidChanges
<1>3. id >= 0 /\ id \in Ids
  BY <1>1, IdTyped DEF KidInv
<1>4. TableGood
  BY DEF TableInv
<1>5. <<s>> \in Seq(Offers) /\ \A q : q \in ToSet(<<s>>) <=> q = s
  BY <1>2, OneElement
<1>6. \/ crashed' /\ confused /\ SrvT' = SrvT /\ srvTMutex' = srvTMutex
      \/ /\ ~crashed' /\ srvTMutex' = "free"
         /\ GoodTable(SrvT') /\ (Exact(SrvT) => Exact(SrvT'))
         /\ \A q, x : Has(SrvT', q, x) <=>
              Has(SrvT, q, x) \/ (x = id /\ q \in ToSet(<<s>>))
      \/ /\ ~crashed' /\ srvTMutex' = "kept"
         /\ GoodTable(SrvT') /\ (Exact(SrvT) => Exact(SrvT'))
         /\ \A q, x : Has(SrvT', q, x) <=> Has(SrvT, q, x) /\ x # id
  BY <1>1, <1>3, <1>4, <1>5, AddsServices
<1>7. TableGood'
  BY <1>1, <1>4, <1>6 DEF TableGood
<1>8. \A q : Has(SrvT, q, id) => q \in ToSet(old)
  BY <1>1, <1>3, ListedIsMine
<1>9. ~confused /\ id \notin dropped => \A q \in ToSet(old) : Has(SrvT, q, id)
  BY <1>1 DEF TableInv, OffersListed
<1> HIDE DEF old, id, ps
<1>10. ~crashed' => \A q, x : Has(SrvT', q, x) =>
         \/ x # id /\ Has(SrvT, q, x)
         \/ x = id /\ kid[c].pc = "in" /\ q \in ToSet(ps)
  BY <1>1, <1>2, <1>5, <1>6, <1>8
<1>11. ~crashed' /\ ~confused' /\ srvTMutex' = "free" =>
         /\ srvTMutex = "free"
         /\ \A q, x : x # id /\ Has(SrvT, q, x) => Has(SrvT', q, x)
         /\ kid[c].pc = "in" /\ id \notin dropped =>
              \A q \in ToSet(ps) : Has(SrvT', q, id)
  BY <1>1, <1>2, <1>5, <1>6, <1>9
<1> QED
  BY <1>1, <1>2, <1>3, <1>7, <1>10, <1>11, TableOfChild DEF id

\* So does childRemoveService().
LEMMA TableLess ==
  ASSUME KidInv, TableInv, NEW c \in Child, childRemoveService(c)
  PROVE  TableInv'
<1> DEFINE old == kid[c].profiles
           id == kid[c].id
<1>1. PICK s \in ToSet(old) :
        /\ kid' = [kid EXCEPT ![c].profiles = Without(@, s)]
        /\ kid[c].pc = "in" /\ ~crashed /\ srvTMutex = "free" /\ srvTMutex' = "free"
        /\ RemoveAll(c, <<s>>) /\ dropped' = dropped
        /\ confused' = (confused \/ Unlisted(c, <<s>>))
        /\ childIDCounter' = childIDCounter
  BY DEF childRemoveService, Change, listVars
<1> DEFINE ps == Without(old, s)
<1>2. /\ ps \in Seq(Offers) /\ s \in Offers /\ ToSet(ps) = ToSet(old) \ {s}
      /\ KidGoes(c, kid[c].pc, id, kid[c].size, ps)
  BY <1>1, KidChanges
<1>3. id >= 0 /\ id \in Ids
  BY <1>1, IdTyped DEF KidInv
<1>4. TableGood
  BY DEF TableInv
<1>5. /\ <<s>> \in Seq(Offers) /\ OnceEach(<<s>>)
      /\ \A q : q \in ToSet(<<s>>) <=> q = s
  BY <1>2, OneElement
<1>6. /\ GoodTable(SrvT')
      /\ \A q, x : Has(SrvT', q, x) => Has(SrvT, q, x)
      /\ ~crashed' => \A q, x : Has(SrvT', q, x) => ~ (x = id /\ q \in ToSet(<<s>>))
      /\ ~confused' =>
           /\ ~crashed' /\ ~confused /\ Exact(SrvT')
           /\ \A q, x : Has(SrvT, q, x) /\ ~ (x = id /\ q \in ToSet(<<s>>)) =>
                Has(SrvT', q, x)
  BY <1>1, <1>4, <1>5, RemovesServices
<1>7. TableGood'
  BY <1>6 DEF TableGood
<1>8. \A q : Has(SrvT, q, id) => q \in ToSet(old)
  BY <1>1, <1>3, ListedIsMine
<1>9. ~confused /\ id \notin dropped => \A q \in ToSet(old) : Has(SrvT, q, id)
  BY <1>1 DEF TableInv, OffersListed
<1> HIDE DEF old, id, ps
<1>10. ~crashed' => \A q, x : Has(SrvT', q, x) =>
         \/ x # id /\ Has(SrvT, q, x)
         \/ x = id /\ kid[c].pc = "in" /\ q \in ToSet(ps)
  BY <1>1, <1>2, <1>5, <1>6, <1>8
<1>11. ~crashed' /\ ~confused' /\ srvTMutex' = "free" =>
         /\ srvTMutex = "free"
         /\ \A q, x : x # id /\ Has(SrvT, q, x) => Has(SrvT', q, x)
         /\ kid[c].pc = "in" /\ id \notin dropped =>
              \A q \in ToSet(ps) : Has(SrvT', q, id)
  BY <1>1, <1>2, <1>5, <1>6, <1>9
<1>12. confused => confused'
  BY <1>1
<1> QED
  BY <1>1, <1>2, <1>3, <1>7, <1>10, <1>11, <1>12, TableOfChild DEF id

\* So does childUnsubscribe(): the child is in no service any more.
LEMMA TableLeft ==
  ASSUME KidInv, TableInv, NEW c \in Child, childUnsubscribe(c)
  PROVE  TableInv'
<1> DEFINE ps == kid[c].profiles
           id == kid[c].id
<1>1. /\ kid[c].pc = "in" /\ ~crashed /\ srvTMutex = "free" /\ srvTMutex' = "free"
      /\ RemoveAll(c, ps) /\ dropped' = dropped
      /\ confused' = (confused \/ Unlisted(c, ps))
  BY DEF childUnsubscribe, Change
<1>2. KidGoes(c, "leaving", id, kid[c].size, ps)
  BY KidActs
<1>3. id >= 0 /\ ps \in Seq(Offers) /\ OnceEach(ps)
  BY <1>1, KidTyped DEF KidInv
<1>4. TableGood
  BY DEF TableInv
<1>6. /\ GoodTable(SrvT')
      /\ \A q, x : Has(SrvT', q, x) => Has(SrvT, q, x)
      /\ ~crashed' => \A q, x : Has(SrvT', q, x) => ~ (x = id /\ q \in ToSet(ps))
      /\ ~confused' =>
           /\ ~crashed' /\ ~confused /\ Exact(SrvT')
           /\ \A q, x : Has(SrvT, q, x) /\ ~ (x = id /\ q \in ToSet(ps)) =>
                Has(SrvT', q, x)
  BY <1>1, <1>3, <1>4, RemovesServices
<1>7. TableGood'
  BY <1>6 DEF TableGood
<1>8. \A q : Has(SrvT, q, id) => q \in ToSet(ps)
  BY <1>1, <1>3, ListedIsMine
<1> HIDE DEF ps, id
<1>10. ~crashed' => \A q, x : Has(SrvT', q, x) =>
         \/ x # id /\ Has(SrvT, q, x)
         \/ x = id /\ "leaving" = "in" /\ q \in ToSet(ps)
  BY <1>6, <1>8
<1>11. ~crashed' /\ ~confused' /\ srvTMutex' = "free" =>
         /\ srvTMutex = "free"
         /\ \A q, x : x # id /\ Has(SrvT, q, x) => Has(SrvT', q, x)
         /\ "leaving" = "in" /\ id \notin dropped =>
              \A q \in ToSet(ps) : Has(SrvT', q, id)
  BY <1>1, <1>6
<1>12. confused => confused'
  BY <1>1
<1> QED
  BY <1>1, <1>2, <1>3, <1>7, <1>10, <1>11, <1>12, TableOfChild DEF id

\* So does a request that drops a child after a failure.
LEMMA TableDropped ==
  ASSUME KidInv, TableInv, NEW r \in ReqID, DropChild(r)
  PROVE  TableInv'
<1> DEFINE id == Next1(r)
<1>1. /\ ~crashed /\ srvTMutex' = srvTMutex /\ confused' = confused
      /\ dropped' = dropped \cup {id} /\ kid' = kid
      /\ \/ crashed' = TRUE /\ SrvT' = SrvT
         \/ SrvT' = rmChild(SrvT, id)
  BY DEF DropChild
<1>2. GoodTable(SrvT) /\ (~confused => Exact(SrvT))
  BY DEF TableInv, TableGood
<1> HIDE DEF id
<1>3. CASE crashed' = TRUE /\ SrvT' = SrvT
  BY <1>1, <1>3, TableIdle
<1>4. CASE SrvT' = rmChild(SrvT, id)
  <2>1. /\ GoodTable(SrvT')
        /\ \A p : ExactFor(SrvT, p) => ExactFor(SrvT', p)
        /\ \A p, x : Has(SrvT', p, x) <=> Has(SrvT, p, x) /\ x # id
    BY <1>2, <1>4, RmChildIs
  <2>2. TableGood'
    BY <1>1, <1>2, <2>1 DEF TableGood, Exact
  <2>3. ListedOffer'
    BY <1>1, <2>1 DEF TableInv, ListedOffer, OffersAs
  <2>4. OffersListed'
    BY <1>1, <2>1 DEF TableInv, OffersListed
  <2> QED
    BY <2>2, <2>3, <2>4 DEF TableInv
<1> QED
  BY <1>1, <1>3, <1>4

\* Every step keeps the agreement of the table and the children.
LEMMA TableKept ==
  ASSUME KidInv, TableInv, Next
  PROVE  TableInv'
<1>1. ASSUME NEW c \in Child, NEW p, NEW i, NEW z, NEW ps, KidGoes(c, p, i, z, ps),
             p # "in", kid[c].pc # "in", SrvT' = SrvT, confused' = confused,
             srvTMutex' = srvTMutex, dropped' = dropped, ~crashed
      PROVE  TableInv'
  <2>1. \A d \in Child : kid[d].pc = "in" \/ kid'[d].pc = "in" => kid'[d] = kid[d]
    BY <1>1 DEF KidGoes
  <2> QED
    BY <1>1, <2>1, TableIdle
<1>2. ASSUME NEW c \in Child, TakeNumber(c) PROVE TableInv'
  <2>1. KidGoes(c, "numbered", childIDCounter, kid[c].size, kid[c].profiles)
    BY <1>2, KidTakesNumber DEF KidInv
  <2>2. /\ kid[c].pc = "out" /\ SrvT' = SrvT /\ confused' = confused
        /\ srvTMutex' = srvTMutex /\ dropped' = dropped /\ ~crashed
    BY <1>2 DEF TakeNumber, tableVars, historyVars
  <2> QED
    BY <1>1, <2>1, <2>2
<1>3. ASSUME NEW c \in Child,
             \/ ReadCounter(c) \/ Resize(c) \/ FindEntry(c) \/ SetChild(c)
             \/ ForgetChild(c)
      PROVE  TableInv'
  <2>1. \E p, z : /\ KidGoes(c, p, kid[c].id, z, kid[c].profiles)
                  /\ p # "in" /\ kid[c].pc # "in" /\ ~crashed
    BY <1>3, KidActs
  <2>2. /\ SrvT' = SrvT /\ confused' = confused
        /\ srvTMutex' = srvTMutex /\ dropped' = dropped
    BY <1>3 DEF ReadCounter, Resize, FindEntry, SetChild, ForgetChild, tableVars,
       historyVars
  <2> QED
    BY <1>1, <2>1, <2>2
<1>4. ASSUME NEW c \in Child, ChildAct(c) PROVE TableInv'
  BY <1>2, <1>3, <1>4, TableSubscribed, TableAdded, TableLess, TableLeft DEF ChildAct
<1>5. ASSUME NEW r \in ReqID, Serving(r) PROVE TableInv'
  <2>1. KidSame /\ ~crashed /\ confused' = confused
    BY <1>5, ServingKeepsKids
  <2>2. CASE DropChild(r)
    BY <2>2, TableDropped
  <2>3. CASE ~DropChild(r)
    <3>1. SrvT' = SrvT /\ (srvTMutex' = "free" => srvTMutex = "free") /\ dropped' = dropped
      BY <1>5, <2>3 DEF Serving, submit_local, findServer, Contact, UnknownChild,
         PingFails, SendFails, CountChildren, Wake, Finish, agentVars, historyVars,
         tableVars
    <3> QED
      BY <2>1, <3>1, TableIdle DEF KidSame
  <2> QED
    BY <2>2, <2>3
<1>6. ASSUME NEW c \in Child, Die(c) \/ \E r \in ReqID : Responding(r, c)
      PROVE  TableInv'
  BY <1>6, AnswersKeepAgent, TableIdle DEF KidSame
<1> QED
  BY <1>4, <1>5, <1>6, NextSplits

\* An agent that has just started has no service.
LEMMA TableStarts ==
  ASSUME Init
  PROVE  KidInv /\ TableInv
<1>1. KidTypes
  <2>1. -1 \in -1 .. MaxSubs - 1 /\ 0 \in 0 .. MaxSubs
    BY Constants
  <2>2. \A c \in Child : Offered[c] \in Seq(Offers)
    BY Constants
  <2> QED
    BY <2>1, <2>2 DEF Init, AgentInit, KidTypes, KidPlace
<1>2. \A c \in Child : /\ kid[c].pc = "out" /\ kid[c].id = -1 /\ kid[c].size = 0
                       /\ kid[c].profiles = Offered[c]
  BY DEF Init, AgentInit
<1>3. KidInv
  <2>1. childIDCounter = 0
    BY DEF Init, AgentInit
  <2>2. \A c \in Child : OnceEach(kid[c].profiles)
    BY <1>2, Constants
  <2> QED
    BY <1>1, <1>2, <2>1, <2>2 DEF KidInv
<1>4. SrvT = <<>> /\ Len(<<>>) = 0 /\ 1 .. 0 = {}
  BY DEF Init, AgentInit
<1>5. TableGood
  BY <1>4 DEF TableGood, GoodTable, Exact, ExactFor
<1>6. ListedOffer /\ OffersListed
  BY <1>2, <1>4 DEF ListedOffer, OffersListed, Has
<1> QED
  BY <1>3, <1>5, <1>6 DEF TableInv

\* Neither does a step outside the agent change the children or the table.
LEMMA TableAlways == Spec => [](KidInv /\ TableInv)
<1>1. Init => KidInv /\ TableInv
  BY TableStarts
<1>2. KidInv /\ TableInv /\ [Next]_vars => KidInv' /\ TableInv'
  <2>1. ASSUME KidInv, TableInv, UNCHANGED vars PROVE KidInv' /\ TableInv'
    <3>1. /\ KidSame /\ SrvT' = SrvT /\ confused' = confused /\ srvTMutex' = srvTMutex
          /\ dropped' = dropped /\ crashed' = crashed
      BY <2>1, Zenon DEF vars, agentVars, historyVars, listVars, tableVars, KidSame
    <3>2. KidInv'
      BY <2>1, <3>1 DEF KidSame, KidInv, KidTypes
    <3>3. TableInv'
      BY <2>1, <3>1, TableIdle DEF KidSame
    <3> QED
      BY <3>2, <3>3
  <2> QED
    BY <2>1, KidKept, TableKept
<1> QED
  BY <1>1, <1>2, PTL DEF Spec

\* The agreement as the runs state it, from the two invariants.
LEMMA AgreementShown ==
  ASSUME KidInv, TableInv
  PROVE  TableAgreesWithChildren
<1> SUFFICES ASSUME srvTMutex = "free", ~crashed, ~confused
             PROVE  /\ \A c \in Child, s \in Service :
                         /\ kid[c].pc = "in" /\ kid[c].id \notin dropped =>
                              (Lists(SrvT, s, kid[c].id) <=> Contains(kid[c].profiles, s))
                         /\ kid[c].pc \in {"out", "leaving"} => ~Lists(SrvT, s, kid[c].id)
                    /\ \A i \in DOMAIN SrvT :
                         /\ SrvT[i].nb_children = Len(SrvT[i].children)
                         /\ lookupService(SrvT, SrvT[i].profile) = i
  BY DEF TableAgreesWithChildren
<1>1. GoodTable(SrvT) /\ Exact(SrvT)
  BY DEF TableInv, TableGood
<1>2. DOMAIN SrvT = 1 .. Len(SrvT)
  BY <1>1 DEF GoodTable
<1>3. \A i \in 1 .. Len(SrvT) :
        /\ SrvT[i].nb_children = Len(SrvT[i].children)
        /\ lookupService(SrvT, SrvT[i].profile) = i
  BY <1>1, ExactIs, LookupIs
<1>4. ASSUME NEW c \in Child, NEW s
      PROVE  /\ Lists(SrvT, s, kid[c].id) <=> Has(SrvT, s, kid[c].id)
             /\ Contains(kid[c].profiles, s) <=> s \in ToSet(kid[c].profiles)
  <2>1. kid[c].profiles \in Seq(Offers)
    BY KidTyped DEF KidInv
  <2> QED
    BY <1>1, <2>1, ListsIs, Elements
<1>5. ASSUME NEW c \in Child, NEW s, kid[c].pc = "in", kid[c].id \notin dropped
      PROVE  Has(SrvT, s, kid[c].id) <=> s \in ToSet(kid[c].profiles)
  <2>1. kid[c].id >= 0
    BY <1>5 DEF KidInv
  <2>2. Has(SrvT, s, kid[c].id) => s \in ToSet(kid[c].profiles)
    BY <2>1, ListedIsMine
  <2>3. \A q \in ToSet(kid[c].profiles) : Has(SrvT, q, kid[c].id)
    BY <1>5 DEF TableInv, OffersListed
  <2> QED
    BY <2>2, <2>3
<1>6. ASSUME NEW c \in Child, NEW s, kid[c].pc \in {"out", "leaving"}
      PROVE  ~Has(SrvT, s, kid[c].id)
  <2> SUFFICES ASSUME Has(SrvT, s, kid[c].id) PROVE FALSE
    OBVIOUS
  <2>1. PICK d \in Child : OffersAs(d, s, kid[c].id)
    BY DEF TableInv, ListedOffer
  <2>2. kid[d].pc = "in" /\ kid[d].id = kid[c].id /\ kid[d].id >= 0
    BY <2>1 DEF OffersAs, KidInv
  <2> QED
    BY <1>6, <2>2 DEF KidInv
<1>7. ASSUME NEW c \in Child, NEW s \in Service
      PROVE  /\ kid[c].pc = "in" /\ kid[c].id \notin dropped =>
                  (Lists(SrvT, s, kid[c].id) <=> Contains(kid[c].profiles, s))
             /\ kid[c].pc \in {"out", "leaving"} => ~Lists(SrvT, s, kid[c].id)
  BY <1>4, <1>5, <1>6
<1> QED
  BY <1>2, <1>3, <1>7

\* The service table lists a subscribed child for exactly the services it
\* offers and one that has left for none, with true counts, for any number of
\* children, services and requests and whatever calls, failures and drops came
\* before, except for a child the agent dropped after a failed ping or after
\* rmChildService() for a child that is not listed.
THEOREM TableAgrees == Spec => []TableAgreesWithChildren
BY TableAlways, AgreementShown, PTL

-----------------------------------------------------------------------------
(* The vectors of the children. *)

\* The child at number x of a vector; no entry behind its end.
At(v, x) == IF x < Len(v) THEN v[x + 1] ELSE None
EntryAt(k, x) == At(children[k], x)

Vector == Seq(Child \cup {None})
VectTypes == children \in [Kind -> Vector] /\ nbChildren \in [Kind -> Nat]

\* What is at a number is a child or none.
LEMMA AtIs ==
  ASSUME NEW v \in Vector, NEW x \in Nat
  PROVE  At(v, x) \in Child \cup {None} /\ Len(v) \in Nat
BY DEF At, Vector

\* resize() keeps the entries below the new size.
LEMMA ResizedIs ==
  ASSUME NEW v \in Vector, NEW n \in Nat
  PROVE  /\ Resized(v, n) \in Vector /\ Len(Resized(v, n)) = n
         /\ \A x \in Nat : At(Resized(v, n), x) = IF x < n THEN At(v, x) ELSE None
<1> DEFINE w == Resized(v, n)
<1>1. Len(v) \in Nat /\ \A i \in 1 .. Len(v) : v[i] \in Child \cup {None}
  BY DEF Vector
<1>2. \A i \in 1 .. n : (IF i <= Len(v) THEN v[i] ELSE None) \in Child \cup {None}
  BY <1>1
<1>3. w \in [1 .. n -> Child \cup {None}]
  BY <1>2 DEF Resized
<1>4. \A i \in 1 .. n : w[i] = IF i <= Len(v) THEN v[i] ELSE None
  BY DEF Resized
<1> HIDE DEF w
<1>5. w \in Vector /\ Len(w) = n
  BY <1>3 DEF Vector
<1>6. ASSUME NEW x \in Nat
      PROVE  At(w, x) = IF x < n THEN At(v, x) ELSE None
  <2>1. CASE x < n
    <3>1. x + 1 \in 1 .. n /\ (x + 1 <= Len(v) <=> x < Len(v))
      BY <1>1, <2>1
    <3> QED
      BY <1>4, <1>5, <2>1, <3>1 DEF At
  <2>2. CASE ~ (x < n)
    BY <1>5, <2>2 DEF At
  <2> QED
    BY <2>1, <2>2
<1> QED
  BY <1>5, <1>6 DEF w

\* operator[] changes one entry.
Replaced(v, id, e) == [v EXCEPT ![id + 1] = e]

\* The others stay.
LEMMA ReplacedIs ==
  ASSUME NEW v \in Vector, NEW id \in Nat, id < Len(v), NEW e \in Child \cup {None}
  PROVE  /\ Replaced(v, id, e) \in Vector /\ Len(Replaced(v, id, e)) = Len(v)
         /\ \A x \in Nat : At(Replaced(v, id, e), x) =
                             IF x = id THEN e ELSE At(v, x)
<1> DEFINE w == Replaced(v, id, e)
<1>1. /\ Len(v) \in Nat /\ DOMAIN v = 1 .. Len(v) /\ id + 1 \in 1 .. Len(v)
      /\ \A i \in 1 .. Len(v) : v[i] \in Child \cup {None}
  BY DEF Vector
<1>2. w \in Vector /\ Len(w) = Len(v)
  BY <1>1 DEF Vector, Replaced
<1>3. \A i \in 1 .. Len(v) : w[i] = IF i = id + 1 THEN e ELSE v[i]
  BY <1>1 DEF Replaced
<1> HIDE DEF w
<1>4. ASSUME NEW x \in Nat PROVE At(w, x) = IF x = id THEN e ELSE At(v, x)
  <2>1. CASE x < Len(v)
    <3>1. x + 1 \in 1 .. Len(v) /\ (x + 1 = id + 1 <=> x = id)
      BY <1>1, <2>1
    <3> QED
      BY <1>2, <1>3, <2>1, <3>1 DEF At
  <2>2. CASE ~ (x < Len(v))
    BY <1>2, <2>2 DEF At
  <2> QED
    BY <2>1, <2>2
<1> QED
  BY <1>2, <1>4 DEF w

\* A change of the vector of one kind.
LEMMA OneVector ==
  ASSUME VectTypes, NEW k \in Kind, NEW w \in Vector,
         children' = [children EXCEPT ![k] = w]
  PROVE  /\ children' \in [Kind -> Vector]
         /\ \A j \in Kind : children'[j] = IF j = k THEN w ELSE children[j]
BY DEF VectTypes

\* The vector of a kind, as typed.
LEMMA VectorTyped ==
  ASSUME VectTypes, NEW k \in Kind
  PROVE  /\ children[k] \in Vector /\ Len(children[k]) \in Nat /\ nbChildren[k] \in Nat
         /\ \A x \in Nat : /\ EntryAt(k, x) \in Child \cup {None}
                           /\ Defined(k, x) <=> EntryAt(k, x) # None
<1>1. children[k] \in Vector /\ nbChildren[k] \in Nat
  BY DEF VectTypes
<1>2. \A x \in Nat : EntryAt(k, x) \in Child \cup {None} /\ Len(children[k]) \in Nat
  BY <1>1, AtIs DEF EntryAt
<1>3. 0 \in Nat
  OBVIOUS
<1> QED
  BY <1>1, <1>2, <1>3 DEF EntryAt, At, Defined

\* The kind of a child.
LEMMA KindsIs == \A c \in Child : Kinds(c) \in Kind
BY DEF Kinds, Kind

\* Undefine() empties one entry.
LEMMA UndefineIs ==
  ASSUME VectTypes, NEW k \in Kind, NEW id \in Nat, Undefine(k, id)
  PROVE  /\ VectTypes'
         /\ \A j \in Kind : Len(children'[j]) = Len(children[j])
         /\ \A j \in Kind : \A x \in Nat :
              EntryAt(j, x)' = IF j = k /\ x = id THEN None ELSE EntryAt(j, x)
         /\ \A j \in Kind : j # k => nbChildren'[j] = nbChildren[j]
         /\ nbChildren'[k] = IF nbChildren[k] > 0 THEN nbChildren[k] - 1 ELSE nbChildren[k]
<1> DEFINE v == children[k]
           w == IF id < Len(v) THEN ReplaceAt(v, id + 1, None) ELSE v
<1>1. v \in Vector /\ Len(v) \in Nat /\ nbChildren[k] \in Nat
  BY VectorTyped
<1>2. w \in Vector /\ Len(w) = Len(v)
      /\ \A x \in Nat : At(w, x) = IF x = id THEN None ELSE At(v, x)
  <2>1. CASE id < Len(v)
    <3>1. PICK u \in Vector, e \in Child \cup {None} : u = v /\ e = None
      BY <1>1
    <3>2. id < Len(u) /\ w = Replaced(u, id, e)
      BY <2>1, <3>1 DEF ReplaceAt, Replaced
    <3> HIDE DEF v, w
    <3> QED
      BY <3>1, <3>2, ReplacedIs
  <2>2. CASE ~ (id < Len(v))
    BY <1>1, <2>2 DEF At
  <2> QED
    BY <2>1, <2>2
<1>3. children' = [children EXCEPT ![k] = w]
  BY DEF Undefine, VectTypes
<1> HIDE DEF w
<1>4. /\ children' \in [Kind -> Vector]
      /\ \A j \in Kind : children'[j] = IF j = k THEN w ELSE children[j]
  BY <1>2, <1>3, OneVector
<1>5. nbChildren' = [nbChildren EXCEPT ![k] = IF @ > 0 THEN @ - 1 ELSE @]
  BY DEF Undefine
<1>6. /\ nbChildren' \in [Kind -> Nat]
      /\ \A j \in Kind : j # k => nbChildren'[j] = nbChildren[j]
      /\ nbChildren'[k] = IF nbChildren[k] > 0 THEN nbChildren[k] - 1 ELSE nbChildren[k]
  BY <1>1, <1>5 DEF VectTypes
<1>7. \A j \in Kind : Len(children'[j]) = Len(children[j])
  BY <1>2, <1>4
<1>8. ASSUME NEW j \in Kind, NEW x \in Nat
      PROVE  At(children'[j], x) = IF j = k /\ x = id THEN None ELSE At(children[j], x)
  BY <1>2, <1>4
<1> QED
  BY <1>4, <1>6, <1>7, <1>8 DEF VectTypes, EntryAt

\* resize() cuts no entry off unless the history says so.
LEMMA ResizeIs ==
  ASSUME KidInv, VectTypes, NEW c \in Child, Resize(c)
  PROVE  /\ VectTypes' /\ nbChildren' = nbChildren /\ (~shrunk' => ~shrunk)
         /\ \A j \in Kind : Len(children'[j]) =
              IF j = Kinds(c) THEN kid[c].size ELSE Len(children[j])
         /\ \A j \in Kind : \A x \in Nat : EntryAt(j, x)' =
              IF j = Kinds(c) /\ x >= kid[c].size THEN None ELSE EntryAt(j, x)
         /\ ~shrunk' => \A j \in Kind :
              /\ Len(children'[j]) >= Len(children[j])
              /\ \A x \in Nat : EntryAt(j, x)' = EntryAt(j, x)
<1>1. PICK k \in Kind : k = Kinds(c)
  BY KindsIs
<1>2. PICK n \in Nat : n = kid[c].size
  BY KidTyped, Constants DEF KidInv
<1>3. PICK v \in Vector : v = children[k]
  BY VectorTyped
<1> DEFINE w == Resized(v, n)
<1>4. /\ w \in Vector /\ Len(w) = n /\ Len(v) \in Nat
      /\ \A x \in Nat : At(w, x) = IF x < n THEN At(v, x) ELSE None
  BY <1>3, ResizedIs, VectorTyped
<1>5. children' = [children EXCEPT ![k] = w]
  BY <1>1, <1>2, <1>3 DEF Resize, VectTypes
<1>6. nbChildren' = nbChildren /\ (~shrunk' => ~shrunk /\ ~ (n < Len(v)))
  BY <1>1, <1>2, <1>3, Zenon DEF Resize
<1> HIDE DEF w
<1>7. /\ children' \in [Kind -> Vector]
      /\ \A j \in Kind : children'[j] = IF j = k THEN w ELSE children[j]
  BY <1>4, <1>5, OneVector
<1>8. \A j \in Kind : Len(children'[j]) = IF j = k THEN n ELSE Len(children[j])
  BY <1>4, <1>7
<1>9. \A j \in Kind : \A x \in Nat : At(children'[j], x) =
        IF j = k /\ x >= n THEN None ELSE At(children[j], x)
  BY <1>3, <1>4, <1>7
<1>10. ASSUME ~shrunk', NEW j \in Kind
       PROVE  /\ Len(children'[j]) >= Len(children[j])
              /\ \A x \in Nat : At(children'[j], x) = At(children[j], x)
  <2>1. n >= Len(v)
    BY <1>4, <1>6, <1>10
  <2>2. \A x \in Nat : x >= n => At(v, x) = None
    BY <1>4, <2>1 DEF At
  <2>3. Len(children[j]) \in Nat
    BY VectorTyped
  <2> QED
    BY <1>3, <1>8, <1>9, <2>1, <2>2, <2>3
<1> QED
  BY <1>1, <1>2, <1>6, <1>7, <1>8, <1>9, <1>10 DEF VectTypes, EntryAt

\* A child gets its entry, or the write is lost.
LEMMA SetChildIs ==
  ASSUME KidInv, VectTypes, NEW c \in Child, SetChild(c)
  PROVE  /\ nbChildren' \in [Kind -> Nat]
         /\ \A j \in Kind : nbChildren'[j] =
              IF j = Kinds(c) THEN nbChildren[j] + 1 ELSE nbChildren[j]
         /\ \/ /\ children' = children
               /\ kid[c].id \in stale \/ ~ (kid[c].id < Len(children[Kinds(c)]))
            \/ /\ VectTypes' /\ ~crashed'
               /\ \A j \in Kind : Len(children'[j]) = Len(children[j])
               /\ \A j \in Kind : \A x \in Nat : EntryAt(j, x)' =
                    IF j = Kinds(c) /\ x = kid[c].id THEN c ELSE EntryAt(j, x)
<1>1. PICK k \in Kind : k = Kinds(c)
  BY KindsIs
<1>2. kid[c].pc = "entry" /\ ~crashed
  BY DEF SetChild, Step
<1>3. PICK id \in Nat : id = kid[c].id
  BY <1>2, KidTyped DEF KidInv
<1>4. PICK v \in Vector : v = children[k]
  BY VectorTyped
<1>5. /\ nbChildren' \in [Kind -> Nat]
      /\ \A j \in Kind : nbChildren'[j] = IF j = k THEN nbChildren[j] + 1 ELSE nbChildren[j]
  BY <1>1 DEF SetChild, VectTypes
<1>6. CASE id \in stale \/ ~ (id < Len(v))
  <2>1. children' = children
    BY <1>1, <1>3, <1>4, <1>6, VectorTyped DEF SetChild
  <2> QED
    BY <1>1, <1>3, <1>4, <1>5, <1>6, <2>1
<1>7. CASE id \notin stale /\ id < Len(v)
  <2> DEFINE w == Replaced(v, id, c)
  <2>0. ~ (id >= Len(v))
    BY <1>4, <1>7, VectorTyped
  <2>1. children' = [children EXCEPT ![k] = w]
    BY <1>1, <1>3, <1>4, <1>7, <2>0 DEF SetChild, VectTypes, Replaced
  <2>2. crashed' = crashed
    BY <1>1, <1>3, <1>4, <1>7, <2>0 DEF SetChild
  <2>3. PICK e \in Child \cup {None} : e = c
    OBVIOUS
  <2>4. /\ w \in Vector /\ Len(w) = Len(v)
        /\ \A x \in Nat : At(w, x) = IF x = id THEN c ELSE At(v, x)
    BY <1>7, <2>3, ReplacedIs
  <2> HIDE DEF w
  <2>5. /\ children' \in [Kind -> Vector]
        /\ \A j \in Kind : children'[j] = IF j = k THEN w ELSE children[j]
    BY <2>1, <2>4, OneVector
  <2>7. \A j \in Kind : Len(children'[j]) = Len(children[j])
    BY <1>4, <2>4, <2>5
  <2>8. \A j \in Kind : \A x \in Nat : At(children'[j], x) =
          IF j = k /\ x = id THEN c ELSE At(children[j], x)
    BY <1>4, <2>4, <2>5
  <2> QED
    BY <1>1, <1>2, <1>3, <1>5, <2>2, <2>5, <2>7, <2>8 DEF VectTypes, EntryAt
<1> QED
  BY <1>6, <1>7

\* A number has no entry but the one of its child, in the vector of its kind.
OwnEntries ==
  \A k \in Kind : \A c \in Child :
    kid[c].id >= 0 => EntryAt(k, kid[c].id) \in {None, c}
KindEntries ==
  \A k \in Kind : \A x \in Nat : EntryAt(k, x) # None => Kinds(EntryAt(k, x)) = k

\* A child has no entry before SetChild(), and a place for it by then.
NoEntryYet ==
  \A k \in Kind : \A c \in Child :
    kid[c].pc \in {"numbered", "sized", "resized", "entry"} => EntryAt(k, kid[c].id) = None
RoomMade ==
  \A c \in Child : kid[c].pc \in {"resized", "entry"} /\ ~shrunk =>
    kid[c].id < Len(children[Kinds(c)])

\* It keeps its entry while it is subscribed.
EntryKept ==
  \A c \in Child :
    kid[c].pc \in {"set", "in"} /\ kid[c].id \notin dropped \cup stale /\ ~shrunk =>
      EntryAt(Kinds(c), kid[c].id) = c

VectInv ==
  /\ VectTypes
  /\ \A k \in Kind : Len(children[k]) <= childIDCounter
  /\ OwnEntries /\ KindEntries /\ NoEntryYet /\ RoomMade /\ EntryKept

\* Steps that leave the vectors alone, and give no child a number.
LEMMA VectIdle ==
  ASSUME VectInv, children' = children, nbChildren' = nbChildren, shrunk' = shrunk,
         dropped \subseteq dropped', stale \subseteq stale',
         childIDCounter' = childIDCounter,
         \A d \in Child :
           /\ kid'[d].id = kid[d].id
           /\ kid'[d].pc \in {"numbered", "sized", "resized", "entry"} =>
                kid[d].pc \in {"numbered", "sized", "resized", "entry"}
           /\ kid'[d].pc \in {"resized", "entry"} => kid[d].pc \in {"resized", "entry"}
           /\ kid'[d].pc \in {"set", "in"} => kid[d].pc \in {"set", "in"}
  PROVE  VectInv'
<1>1. VectTypes' /\ \A k \in Kind : Len(children'[k]) <= childIDCounter'
  BY DEF VectInv, VectTypes
<1>2. \A k, x : EntryAt(k, x)' = EntryAt(k, x)
  BY DEF EntryAt
<1>3. OwnEntries' /\ KindEntries'
  BY <1>2 DEF VectInv, OwnEntries, KindEntries
<1>4. NoEntryYet'
  BY <1>2 DEF VectInv, NoEntryYet
<1>5. RoomMade'
  BY DEF VectInv, RoomMade
<1>6. EntryKept'
  BY <1>2 DEF VectInv, EntryKept
<1> QED
  BY <1>1, <1>3, <1>4, <1>5, <1>6 DEF VectInv

\* A child that gets a number has no entry: no vector is that long.
LEMMA VectNumbered ==
  ASSUME KidInv, VectInv, NEW c \in Child, TakeNumber(c)
  PROVE  VectInv'
<1>1. PICK n \in Nat : n = childIDCounter
  BY KidTyped, Constants DEF KidInv
<1>2. /\ children' = children /\ nbChildren' = nbChildren /\ shrunk' = shrunk
      /\ dropped' = dropped /\ stale' = stale /\ childIDCounter' = n + 1
  BY <1>1 DEF TakeNumber, historyVars
<1>3. /\ \A d \in Child : d # c => kid'[d] = kid[d]
      /\ kid'[c].pc = "numbered" /\ kid'[c].id = n
  BY <1>1, KidTakesNumber DEF KidGoes, KidInv
<1>4. \A k, x : EntryAt(k, x)' = EntryAt(k, x)
  BY <1>2 DEF EntryAt
<1>5. \A k \in Kind : Len(children[k]) \in Nat /\ Len(children[k]) <= n
  BY <1>1, VectorTyped DEF VectInv
<1>6. \A k \in Kind : EntryAt(k, n) = None
  BY <1>5 DEF EntryAt, At
<1>7. VectTypes' /\ \A k \in Kind : Len(children'[k]) <= childIDCounter'
  BY <1>2, <1>5 DEF VectInv, VectTypes
<1>8. OwnEntries' /\ KindEntries'
  BY <1>3, <1>4, <1>6 DEF VectInv, OwnEntries, KindEntries
<1>9. NoEntryYet'
  BY <1>3, <1>4, <1>6 DEF VectInv, NoEntryYet
<1>10. RoomMade' /\ EntryKept'
  BY <1>2, <1>3, <1>4 DEF VectInv, RoomMade, EntryKept
<1> QED
  BY <1>7, <1>8, <1>9, <1>10 DEF VectInv

\* resize() leaves room for the child, and the entries or the history.
LEMMA VectResized ==
  ASSUME KidInv, VectInv, NEW c \in Child, Resize(c)
  PROVE  VectInv'
<1> DEFINE Emptied(k, x) == At(children'[k], x) \in {None, EntryAt(k, x)}
<1>1. /\ VectTypes' /\ (~shrunk' => ~shrunk)
      /\ \A j \in Kind : Len(children'[j]) =
           IF j = Kinds(c) THEN kid[c].size ELSE Len(children[j])
      /\ \A j \in Kind : \A x \in Nat : Emptied(j, x)
      /\ ~shrunk' => \A j \in Kind :
           /\ Len(children'[j]) >= Len(children[j])
           /\ \A x \in Nat : At(children'[j], x) = EntryAt(j, x)
  <2>1. VectTypes
    BY DEF VectInv
  <2> QED
    BY <2>1, ResizeIs DEF EntryAt
<1> HIDE DEF Emptied
<1>2. /\ kid[c].pc = "sized" /\ dropped' = dropped /\ stale \subseteq stale'
      /\ childIDCounter' = childIDCounter
      /\ \A d \in Child : d # c => kid'[d] = kid[d]
      /\ kid'[c].pc = "resized" /\ kid'[c].id = kid[c].id
  BY KidActs DEF Resize, KidGoes
<1>3. /\ \A d \in Child : kid[d].id \in Int /\ (kid[d].id >= 0 => kid[d].id \in Nat)
      /\ kid[c].size > kid[c].id /\ kid[c].size <= childIDCounter
      /\ \A d \in Child : kid[d].pc # "out" => kid[d].id >= 0
  BY <1>2, KidTyped DEF KidInv
<1>4. \A d \in Child : kid'[d].id = kid[d].id
  BY <1>2
<1>5. \A k \in Kind : Len(children'[k]) <= childIDCounter'
  BY <1>1, <1>2, <1>3 DEF VectInv
<1>6. OwnEntries'
  BY <1>1, <1>3, <1>4 DEF VectInv, OwnEntries, Emptied, EntryAt
<1>7. KindEntries'
  BY <1>1 DEF VectInv, KindEntries, Emptied, EntryAt
<1>8. NoEntryYet'
  <2> SUFFICES ASSUME NEW k \in Kind, NEW d \in Child,
                      kid'[d].pc \in {"numbered", "sized", "resized", "entry"}
               PROVE  At(children'[k], kid[d].id) = None
    BY <1>4 DEF NoEntryYet, EntryAt
  <2>1. kid[d].pc \in {"numbered", "sized", "resized", "entry"}
    BY <1>2
  <2>2. EntryAt(k, kid[d].id) = None /\ kid[d].id \in Nat
    BY <1>2, <1>3, <2>1 DEF VectInv, NoEntryYet
  <2>3. Emptied(k, kid[d].id)
    BY <1>1, <2>2
  <2> QED
    BY <1>4, <2>2, <2>3 DEF Emptied, EntryAt
<1>9. RoomMade'
  <2> SUFFICES ASSUME NEW d \in Child, kid'[d].pc \in {"resized", "entry"}, ~shrunk'
               PROVE  kid'[d].id < Len(children'[Kinds(d)])
    BY DEF RoomMade
  <2>1. CASE d = c
    BY <1>1, <1>2, <1>3, <2>1, KindsIs
  <2>2. CASE d # c
    <3>1. Kinds(d) \in Kind /\ kid[d].id < Len(children[Kinds(d)])
      BY <1>1, <1>2, <2>2, KindsIs DEF VectInv, RoomMade
    <3>2. Len(children'[Kinds(d)]) >= Len(children[Kinds(d)])
      BY <1>1, <3>1
    <3>3. Len(children[Kinds(d)]) \in Nat /\ Len(children'[Kinds(d)]) \in Int
      BY <1>1, <1>3, <3>1, VectorTyped, KidTyped DEF VectInv, KidInv
    <3> QED
      BY <1>3, <1>4, <3>1, <3>2, <3>3
  <2> QED
    BY <2>1, <2>2
<1>10. EntryKept'
  <2> SUFFICES ASSUME NEW d \in Child, kid'[d].pc \in {"set", "in"},
                      kid'[d].id \notin dropped' \cup stale', ~shrunk'
               PROVE  At(children'[Kinds(d)], kid'[d].id) = d
    BY DEF EntryKept, EntryAt
  <2>1. d # c /\ kid'[d] = kid[d]
    BY <1>2
  <2>2. EntryAt(Kinds(d), kid[d].id) = d /\ kid[d].id \in Nat /\ Kinds(d) \in Kind
    BY <1>1, <1>2, <1>3, <2>1, KindsIs DEF VectInv, EntryKept
  <2>3. At(children'[Kinds(d)], kid[d].id) = EntryAt(Kinds(d), kid[d].id)
    BY <1>1, <2>2 DEF EntryAt
  <2> QED
    BY <1>4, <2>2, <2>3
<1> QED
  BY <1>1, <1>5, <1>6, <1>7, <1>8, <1>9, <1>10 DEF VectInv

\* SetChild() makes the entry of the child.
LEMMA VectSet ==
  ASSUME KidInv, VectInv, NEW c \in Child, SetChild(c)
  PROVE  VectInv'
<1>1. /\ kid[c].pc = "entry" /\ dropped' = dropped /\ childIDCounter' = childIDCounter
      /\ stale' = stale /\ shrunk' = shrunk /\ \A d \in Child : d # c => kid'[d] = kid[d]
      /\ kid'[c].pc = "set" /\ kid'[c].id = kid[c].id
  BY KidActs DEF SetChild, KidGoes, historyVars
<1>2. /\ \A d \in Child : kid[d].id >= 0 => kid[d].id \in Nat
      /\ \A d \in Child : kid[d].pc # "out" => kid[d].id >= 0
      /\ \A d \in Child : kid[d].id = kid[c].id => d = c
  BY <1>1, KidTyped DEF KidInv
<1>3. \A d \in Child : kid'[d].id = kid[d].id
  BY <1>1
<1>4. VectTypes /\ Kinds(c) \in Kind
  BY KindsIs DEF VectInv
<1>51. nbChildren' \in [Kind -> Nat]
  BY <1>4, SetChildIs
<1>5. CASE /\ children' = children
           /\ kid[c].id \in stale \/ ~ (kid[c].id < Len(children[Kinds(c)]))
  <2>1. kid[c].id \in stale \/ shrunk
    BY <1>1, <1>5 DEF VectInv, RoomMade
  <2>2. VectTypes' /\ OwnEntries' /\ KindEntries'
    BY <1>3, <1>5, <1>51 DEF VectInv, VectTypes, OwnEntries, KindEntries, EntryAt
  <2>3. NoEntryYet'
    BY <1>1, <1>5 DEF VectInv, NoEntryYet, EntryAt
  <2>4. RoomMade' /\ \A k \in Kind : Len(children'[k]) <= childIDCounter'
    BY <1>1, <1>5 DEF VectInv, RoomMade
  <2>5. EntryKept'
    BY <1>1, <1>5, <2>1 DEF VectInv, EntryKept, EntryAt
  <2> QED
    BY <2>2, <2>3, <2>4, <2>5 DEF VectInv
<1>6. CASE /\ VectTypes'
           /\ \A j \in Kind : Len(children'[j]) = Len(children[j])
           /\ \A j \in Kind : \A x \in Nat : EntryAt(j, x)' =
                IF j = Kinds(c) /\ x = kid[c].id THEN c ELSE EntryAt(j, x)
  <2>1. \A j \in Kind : \A x \in Nat :
          /\ j = Kinds(c) /\ x = kid[c].id => At(children'[j], x) = c
          /\ j # Kinds(c) \/ x # kid[c].id => At(children'[j], x) = EntryAt(j, x)
    BY <1>6 DEF EntryAt
  <2>2. \A k \in Kind : Len(children'[k]) <= childIDCounter'
    BY <1>1, <1>6 DEF VectInv
  <2>3. OwnEntries'
    <3> SUFFICES ASSUME NEW k \in Kind, NEW d \in Child, kid[d].id >= 0
                 PROVE  At(children'[k], kid[d].id) \in {None, d}
      BY <1>3 DEF OwnEntries, EntryAt
    <3> QED
      BY <1>2, <2>1 DEF VectInv, OwnEntries
  <2>4. KindEntries'
    <3> SUFFICES ASSUME NEW k \in Kind, NEW x \in Nat, At(children'[k], x) # None
                 PROVE  Kinds(At(children'[k], x)) = k
      BY DEF KindEntries, EntryAt
    <3> QED
      BY <2>1 DEF VectInv, KindEntries
  <2>5. NoEntryYet'
    <3> SUFFICES ASSUME NEW k \in Kind, NEW d \in Child,
                        kid'[d].pc \in {"numbered", "sized", "resized", "entry"}
                 PROVE  At(children'[k], kid[d].id) = None
      BY <1>3 DEF NoEntryYet, EntryAt
    <3>1. d # c /\ kid'[d] = kid[d]
      BY <1>1
    <3>2. kid[d].id \in Nat /\ kid[d].id # kid[c].id /\ EntryAt(k, kid[d].id) = None
      BY <1>2, <3>1 DEF VectInv, NoEntryYet
    <3> QED
      BY <2>1, <3>2
  <2>6. RoomMade'
    BY <1>1, <1>6, KindsIs DEF VectInv, RoomMade
  <2>7. EntryKept'
    <3> SUFFICES ASSUME NEW d \in Child, kid'[d].pc \in {"set", "in"},
                        kid'[d].id \notin dropped' \cup stale', ~shrunk'
                 PROVE  At(children'[Kinds(d)], kid[d].id) = d
      BY <1>3 DEF EntryKept, EntryAt
    <3>1. CASE d = c
      BY <1>1, <1>2, <1>4, <2>1, <3>1
    <3>2. CASE d # c
      <4>1. /\ EntryAt(Kinds(d), kid[d].id) = d /\ Kinds(d) \in Kind
            /\ kid[d].id \in Nat /\ kid[d].id # kid[c].id
        BY <1>1, <1>2, <3>2, KindsIs DEF VectInv, EntryKept
      <4> QED
        BY <2>1, <4>1
    <3> QED
      BY <3>1, <3>2
  <2> QED
    BY <1>6, <2>2, <2>3, <2>4, <2>5, <2>6, <2>7 DEF VectInv
<1> QED
  BY <1>4, <1>5, <1>6, SetChildIs

\* Undefine() empties the entry of no child that is to keep it.
LEMMA VectUndefined ==
  ASSUME KidInv, VectInv, NEW k \in Kind, NEW id \in Nat, Undefine(k, id),
         shrunk' = shrunk, childIDCounter' = childIDCounter, dropped \subseteq dropped',
         stale \subseteq stale',
         \A d \in Child :
           /\ kid'[d].id = kid[d].id
           /\ kid'[d].pc \in {"numbered", "sized", "resized", "entry"} =>
                kid[d].pc \in {"numbered", "sized", "resized", "entry"}
           /\ kid'[d].pc \in {"resized", "entry"} => kid[d].pc \in {"resized", "entry"}
           /\ kid'[d].pc \in {"set", "in"} => kid[d].pc \in {"set", "in"}
           /\ kid'[d].pc \in {"set", "in"} /\ kid[d].id \notin dropped' => kid[d].id # id
  PROVE  VectInv'
<1>1. /\ VectTypes' /\ \A j \in Kind : Len(children'[j]) = Len(children[j])
      /\ \A j \in Kind : \A x \in Nat :
           /\ At(children'[j], x) \in {None, EntryAt(j, x)}
           /\ x # id => At(children'[j], x) = EntryAt(j, x)
  <2>1. VectTypes
    BY DEF VectInv
  <2> QED
    BY <2>1, UndefineIs DEF EntryAt
<1>2. /\ \A d \in Child : kid[d].id >= 0 => kid[d].id \in Nat
      /\ \A d \in Child : kid[d].pc # "out" => kid[d].id >= 0
      /\ \A d \in Child : kid'[d].id = kid[d].id
  BY KidTyped DEF KidInv
<1>3. \A j \in Kind : Len(children'[j]) <= childIDCounter'
  BY <1>1 DEF VectInv
<1>4. OwnEntries'
  BY <1>1, <1>2 DEF VectInv, OwnEntries, EntryAt
<1>5. KindEntries'
  BY <1>1 DEF VectInv, KindEntries, EntryAt
<1>6. NoEntryYet'
  <2> SUFFICES ASSUME NEW j \in Kind, NEW d \in Child,
                      kid'[d].pc \in {"numbered", "sized", "resized", "entry"}
               PROVE  At(children'[j], kid[d].id) = None
    BY <1>2 DEF NoEntryYet, EntryAt
  <2>1. EntryAt(j, kid[d].id) = None /\ kid[d].id \in Nat
    BY <1>2 DEF VectInv, NoEntryYet
  <2> QED
    BY <1>1, <2>1
<1>7. RoomMade'
  BY <1>1, KindsIs DEF VectInv, RoomMade
<1>8. EntryKept'
  <2> SUFFICES ASSUME NEW d \in Child, kid'[d].pc \in {"set", "in"},
                      kid[d].id \notin dropped' \cup stale', ~shrunk
               PROVE  At(children'[Kinds(d)], kid[d].id) = d
    BY <1>2 DEF EntryKept, EntryAt
  <2>1. /\ EntryAt(Kinds(d), kid[d].id) = d /\ kid[d].id \in Nat
        /\ kid[d].id # id /\ Kinds(d) \in Kind
    BY <1>2, KindsIs DEF VectInv, EntryKept
  <2> QED
    BY <1>1, <2>1
<1> QED
  BY <1>1, <1>3, <1>4, <1>5, <1>6, <1>7, <1>8 DEF VectInv

-----------------------------------------------------------------------------
(* The requests. *)

ReqPlace == {"idle", "chosen", "thrown", "send", "drop", "wait", "returned", "done"}
Request == [pc : ReqPlace, todo : Seq(Ids), slot : Nat, peer : Child \cup {None},
            contacted : SUBSET Child, nbWaited : Nat, responses : SUBSET Child,
            signalled : BOOLEAN]
CallPlace == {"child", "agent", "lock"}

ReqTypes == req \in [ReqID -> Request] /\ calls \subseteq ReqID \X Child \X CallPlace

\* Before findServer() has copied the children, and while it contacts them.
FreshReq(r) ==
  req[r].pc \in {"idle", "chosen", "thrown"} =>
    req[r].contacted = {} /\ req[r].responses = {}
NothingYet(r) ==
  req[r].pc \in {"idle", "chosen", "thrown", "send", "drop"} =>
    req[r].nbWaited = 0 /\ ~req[r].signalled
PeerKnown(r) ==
  /\ req[r].pc \in {"send", "drop"} => req[r].slot > 0
  /\ req[r].pc = "drop" => req[r].todo # <<>> /\ req[r].peer \in Child

\* What holds of a request whatever happens to the table.
ReqBase ==
  /\ ReqTypes
  /\ \A r \in ReqID : FreshReq(r) /\ NothingYet(r) /\ PeerKnown(r)

\* The parts of a request.
LEMMA ReqTyped ==
  ASSUME ReqTypes, NEW r \in ReqID
  PROVE  /\ req[r].pc \in ReqPlace /\ req[r].todo \in Seq(Ids) /\ req[r].slot \in Nat
         /\ req[r].peer \in Child \cup {None} /\ req[r].contacted \subseteq Child
         /\ req[r].nbWaited \in Nat /\ req[r].responses \subseteq Child
         /\ req[r].signalled \in BOOLEAN
<1>1. req[r] \in Request
  BY DEF ReqTypes
<1> QED
  BY <1>1 DEF Request

\* What a step does to one request: the fields that the step writes.
Rewritten(x, pc, todo, slot, peer, contacted, nbWaited, responses, signalled) ==
  /\ x.pc = pc /\ x.todo = todo /\ x.slot = slot /\ x.peer = peer
  /\ x.contacted = contacted /\ x.nbWaited = nbWaited
  /\ x.responses = responses /\ x.signalled = signalled
ReqGoes(r, pc, todo, slot, peer, contacted, nbWaited, responses, signalled) ==
  /\ req' \in [ReqID -> Request]
  /\ \A q \in ReqID : q # r => req'[q] = req[q]
  /\ Rewritten(req'[r], pc, todo, slot, peer, contacted, nbWaited, responses, signalled)

\* The next child of a request.
LEMMA NextOne ==
  ASSUME ReqTypes, NEW r \in ReqID, req[r].todo # <<>>
  PROVE  Next1(r) \in Ids /\ Next1(r) \in Nat /\ Tail(req[r].todo) \in Seq(Ids)
<1>1. req[r].todo \in Seq(Ids)
  BY ReqTyped
<1>2. Next1(r) \in Ids /\ Tail(req[r].todo) \in Seq(Ids)
  BY <1>1 DEF Next1
<1> QED
  BY <1>2, Constants DEF Ids

\* A step that only moves the request.
LEMMA ReqMoves ==
  ASSUME ReqTypes, NEW r \in ReqID, NEW p \in ReqPlace, Goto(r, p)
  PROVE  ReqGoes(r, p, req[r].todo, req[r].slot, req[r].peer, req[r].contacted,
                 req[r].nbWaited, req[r].responses, req[r].signalled)
BY DEF ReqTypes, Request, Goto, ReqGoes, Rewritten

\* The other steps of its thread.
LEMMA ReqCopies ==
  ASSUME ReqTypes, NEW r \in ReqID, NEW ch \in Seq(Ids), NEW n \in Nat,
         req' = [req EXCEPT ![r].pc = "send", ![r].slot = n, ![r].todo = ch]
  PROVE  ReqGoes(r, "send", ch, n, req[r].peer, req[r].contacted,
                 req[r].nbWaited, req[r].responses, req[r].signalled)
<1>2. \A q \in ReqID : q # r => req'[q] = req[q]
  BY DEF ReqTypes
<1>1. req' \in [ReqID -> Request]
  <2>1. req'[r] \in Request
    BY DEF ReqTypes, Request, ReqPlace
  <2>2. \A q \in ReqID : req'[q] \in Request
    BY <1>2, <2>1 DEF ReqTypes
  <2>3. req' = [q \in ReqID |-> req'[q]]
    BY DEF ReqTypes
  <2> QED
    BY <2>2, <2>3
<1>3. Rewritten(req'[r], "send", ch, n, req[r].peer, req[r].contacted,
                req[r].nbWaited, req[r].responses, req[r].signalled)
  BY DEF ReqTypes, Request, Rewritten
<1> QED
  BY <1>1, <1>2, <1>3 DEF ReqGoes

\* A child is contacted: it leaves the list and is counted.
LEMMA ReqContacts ==
  ASSUME ReqTypes, NEW r \in ReqID, NEW ch \in Seq(Ids), NEW cc \in SUBSET Child,
         req' = [req EXCEPT ![r].todo = ch, ![r].contacted = cc]
  PROVE  ReqGoes(r, req[r].pc, ch, req[r].slot, req[r].peer, cc,
                 req[r].nbWaited, req[r].responses, req[r].signalled)
BY DEF ReqTypes, Request, ReqGoes, Rewritten

\* A child is skipped.
LEMMA ReqSkips ==
  ASSUME ReqTypes, NEW r \in ReqID, NEW ch \in Seq(Ids),
         req' = [req EXCEPT ![r].todo = ch]
  PROVE  ReqGoes(r, req[r].pc, ch, req[r].slot, req[r].peer, req[r].contacted,
                 req[r].nbWaited, req[r].responses, req[r].signalled)
BY DEF ReqTypes, Request, ReqGoes, Rewritten

\* A ping fails: the child is to be dropped.
LEMMA ReqFails ==
  ASSUME ReqTypes, NEW r \in ReqID, NEW c \in Child \cup {None},
         req' = [req EXCEPT ![r].pc = "drop", ![r].peer = c]
  PROVE  ReqGoes(r, "drop", req[r].todo, req[r].slot, c, req[r].contacted,
                 req[r].nbWaited, req[r].responses, req[r].signalled)
BY DEF ReqTypes, Request, ReqPlace, ReqGoes, Rewritten

\* The dropped child has left the list.
LEMMA ReqResumes ==
  ASSUME ReqTypes, NEW r \in ReqID, NEW ch \in Seq(Ids),
         req' = [req EXCEPT ![r].pc = "send", ![r].todo = ch]
  PROVE  ReqGoes(r, "send", ch, req[r].slot, req[r].peer, req[r].contacted,
                 req[r].nbWaited, req[r].responses, req[r].signalled)
BY DEF ReqTypes, Request, ReqPlace, ReqGoes, Rewritten

\* The thread knows how many responses it waits for.
LEMMA ReqCounts ==
  ASSUME ReqTypes, NEW r \in ReqID, NEW p \in ReqPlace, NEW n \in Nat,
         req' = [req EXCEPT ![r].pc = p, ![r].nbWaited = n]
  PROVE  ReqGoes(r, p, req[r].todo, req[r].slot, req[r].peer, req[r].contacted,
                 n, req[r].responses, req[r].signalled)
BY DEF ReqTypes, Request, ReqGoes, Rewritten

\* A response is stored.
LEMMA ReqAnswered ==
  ASSUME ReqTypes, NEW r \in ReqID, NEW rs \in SUBSET Child, NEW n \in Nat,
         NEW b \in BOOLEAN,
         req' = [req EXCEPT ![r].responses = rs, ![r].nbWaited = n, ![r].signalled = b]
  PROVE  ReqGoes(r, req[r].pc, req[r].todo, req[r].slot, req[r].peer, req[r].contacted,
                 n, rs, b)
<1>2. \A q \in ReqID : q # r => req'[q] = req[q]
  BY DEF ReqTypes
<1>1. req' \in [ReqID -> Request]
  <2>1. req'[r] \in Request
    BY DEF ReqTypes, Request
  <2>2. \A q \in ReqID : req'[q] \in Request
    BY <1>2, <2>1 DEF ReqTypes
  <2>3. req' = [q \in ReqID |-> req'[q]]
    BY DEF ReqTypes
  <2> QED
    BY <2>2, <2>3
<1>3. Rewritten(req'[r], req[r].pc, req[r].todo, req[r].slot, req[r].peer,
                req[r].contacted, n, rs, b)
  BY DEF ReqTypes, Request, Rewritten
<1> QED
  BY <1>1, <1>2, <1>3 DEF ReqGoes

\* The steps of the thread of a request, with TableGood for the copy.
LEMMA SubmitIs ==
  ASSUME ReqTypes, NEW r \in ReqID, submit_local(r)
  PROVE  /\ req[r].pc = "idle" /\ calls' = calls
         /\ \E p \in {"chosen", "done"} :
              ReqGoes(r, p, req[r].todo, req[r].slot, req[r].peer, req[r].contacted,
                      req[r].nbWaited, req[r].responses, req[r].signalled)
<1>1. PICK p \in ReqPlace : p \in {"chosen", "done"} /\ Goto(r, p)
  BY DEF submit_local, ReqPlace
<1> QED
  BY <1>1, ReqMoves DEF submit_local

\* findServer() copies the children of the entry it has found.
LEMMA FindIs ==
  ASSUME ReqTypes, TableGood, NEW r \in ReqID, findServer(r)
  PROVE  /\ req[r].pc = "chosen" /\ calls' = calls
         /\ \/ \E p \in {"returned", "thrown"} :
                 ReqGoes(r, p, req[r].todo, req[r].slot, req[r].peer, req[r].contacted,
                         req[r].nbWaited, req[r].responses, req[r].signalled)
            \/ \E slot \in 1 .. Len(SrvT) :
                 ReqGoes(r, "send", SrvT[slot].children, slot, req[r].peer,
                         req[r].contacted, req[r].nbWaited, req[r].responses,
                         req[r].signalled)
         /\ crashed' => confused
<1> DEFINE ref == lookupService(SrvT, Wanted[r])
<1>1. /\ GoodTable(SrvT) /\ (~confused => Exact(SrvT))
      /\ ref \in 0 .. Len(SrvT) /\ Len(SrvT) \in Nat
      /\ (Exact(SrvT) => ~Overruns(SrvT, ref))
  BY LookupIs, OverrunsIs DEF TableGood, GoodTable
<1>2. req[r].pc = "chosen" /\ calls' = calls
  BY DEF findServer
<1>3. CASE ref = 0
  <2>1. Goto(r, "returned") /\ ~crashed'
    BY <1>3, Zenon DEF findServer
  <2> QED
    BY <1>2, <2>1, ReqMoves DEF ReqPlace
<1>4. CASE ref # 0 /\ Overruns(SrvT, ref)
  <2>1. Goto(r, "thrown") /\ confused
    BY <1>1, <1>4, Zenon DEF findServer
  <2> QED
    BY <1>2, <2>1, ReqMoves DEF ReqPlace
<1>5. CASE ref # 0 /\ ~Overruns(SrvT, ref)
  <2>1. PICK slot \in 1 .. Len(SrvT) : slot = ref
    BY <1>1, <1>5
  <2>11. SrvT[slot].children \in Seq(Ids)
    <3>1. GoodTable(SrvT)
      BY <1>1
    <3> QED
      BY <2>1, <3>1, EntryIs
  <2>12. slot \in Nat
    BY <1>1, <2>1
  <2>2. PICK ch \in Seq(Ids), n \in Nat : ch = SrvT[slot].children /\ n = slot
    BY <2>11, <2>12
  <2>3. req' = [req EXCEPT ![r].pc = "send", ![r].slot = n, ![r].todo = ch]
    BY <1>5, <2>1, <2>2 DEF findServer
  <2>31. ~crashed'
    BY <1>5, Zenon DEF findServer
  <2>4. ReqGoes(r, "send", ch, n, req[r].peer, req[r].contacted,
                req[r].nbWaited, req[r].responses, req[r].signalled)
    BY <2>3, ReqCopies
  <2> HIDE DEF ref
  <2> QED
    BY <1>2, <2>2, <2>31, <2>4
<1> QED
  BY <1>3, <1>4, <1>5

\* The call of sendRequest() that succeeds.
LEMMA ContactIs ==
  ASSUME ReqTypes, NEW r \in ReqID, Contact(r)
  PROVE  /\ req[r].pc = "send" /\ req[r].todo # <<>> /\ ChildOf(Next1(r)) # None
         /\ calls' = calls \cup {<<r, ChildOf(Next1(r)), "child">>}
         /\ ChildOf(Next1(r)) \in Child =>
              ReqGoes(r, "send", Tail(req[r].todo), req[r].slot, req[r].peer,
                 req[r].contacted \cup {ChildOf(Next1(r))},
                 req[r].nbWaited, req[r].responses, req[r].signalled)
<1> DEFINE c == ChildOf(Next1(r))
<1>1. /\ req[r].pc = "send" /\ req[r].todo # <<>> /\ c # None
      /\ calls' = calls \cup {<<r, c, "child">>}
      /\ req' = [req EXCEPT ![r].todo = Tail(@), ![r].contacted = @ \cup {c}]
  BY DEF Contact
<1> HIDE DEF c
<1>2. ASSUME c \in Child
      PROVE  ReqGoes(r, "send", Tail(req[r].todo), req[r].slot, req[r].peer,
                 req[r].contacted \cup {c},
                 req[r].nbWaited, req[r].responses, req[r].signalled)
  <2>1. PICK ch \in Seq(Ids) : ch = Tail(req[r].todo)
    BY <1>1, NextOne
  <2>2. PICK cc \in SUBSET Child : cc = req[r].contacted \cup {c}
    BY <1>2, ReqTyped
  <2>3. req' = [req EXCEPT ![r].todo = ch, ![r].contacted = cc]
    BY <1>1, <2>1, <2>2 DEF ReqTypes, Request
  <2>4. ReqGoes(r, req[r].pc, ch, req[r].slot, req[r].peer, cc,
                 req[r].nbWaited, req[r].responses, req[r].signalled)
    BY <2>3, ReqContacts
  <2> QED
    BY <1>1, <2>1, <2>2, <2>4
<1> QED
  BY <1>1, <1>2 DEF c

\* The calls that fail.
LEMMA UnknownIs ==
  ASSUME ReqTypes, NEW r \in ReqID, UnknownChild(r)
  PROVE  /\ req[r].pc = "send" /\ req[r].todo # <<>> /\ calls' = calls
         /\ ReqGoes(r, "send", Tail(req[r].todo), req[r].slot, req[r].peer,
                    req[r].contacted, req[r].nbWaited, req[r].responses, req[r].signalled)
<1>1. /\ req[r].pc = "send" /\ req[r].todo # <<>> /\ calls' = calls
      /\ req' = [req EXCEPT ![r].todo = Tail(@)]
  BY DEF UnknownChild, Skipped
<1>2. PICK ch \in Seq(Ids) : ch = Tail(req[r].todo)
  BY <1>1, NextOne
<1>3. req' = [req EXCEPT ![r].todo = ch]
  BY <1>1, <1>2 DEF ReqTypes, Request
<1> QED
  BY <1>1, <1>2, <1>3, ReqSkips

\* A child that is passed over after another exception.
LEMMA FailureIs ==
  ASSUME ReqTypes, NEW r \in ReqID, SendFails(r)
  PROVE  /\ req[r].pc = "send" /\ req[r].todo # <<>> /\ calls' = calls
         /\ ReqGoes(r, "send", Tail(req[r].todo), req[r].slot, req[r].peer,
                    req[r].contacted, req[r].nbWaited, req[r].responses, req[r].signalled)
<1>1. /\ req[r].pc = "send" /\ req[r].todo # <<>> /\ calls' = calls
      /\ req' = [req EXCEPT ![r].todo = Tail(@)]
  BY DEF SendFails, Skipped
<1>2. PICK ch \in Seq(Ids) : ch = Tail(req[r].todo)
  BY <1>1, NextOne
<1>3. req' = [req EXCEPT ![r].todo = ch]
  BY <1>1, <1>2 DEF ReqTypes, Request
<1> QED
  BY <1>1, <1>2, <1>3, ReqSkips

\* A ping that fails.
LEMMA PingIs ==
  ASSUME ReqTypes, VectTypes, NEW r \in ReqID, PingFails(r)
  PROVE  /\ req[r].pc = "send" /\ req[r].todo # <<>> /\ calls' = calls
         /\ ChildOf(Next1(r)) \in Child
         /\ ReqGoes(r, "drop", req[r].todo, req[r].slot, ChildOf(Next1(r)),
                    req[r].contacted, req[r].nbWaited, req[r].responses, req[r].signalled)
<1>1. /\ req[r].pc = "send" /\ req[r].todo # <<>> /\ calls' = calls
      /\ req' = [req EXCEPT ![r].pc = "drop", ![r].peer = ChildOf(Next1(r))]
      /\ ChildOf(Next1(r)) # None
  BY DEF PingFails
<1>2. Next1(r) \in Nat /\ "LA" \in Kind /\ "SeD" \in Kind
  BY <1>1, NextOne DEF Kind
<1>3. PICK c \in Child \cup {None} : c = ChildOf(Next1(r))
  BY <1>2, VectorTyped DEF ChildOf, EntryAt, At, Defined
<1>4. req' = [req EXCEPT ![r].pc = "drop", ![r].peer = c]
  BY <1>1, <1>3
<1> QED
  BY <1>1, <1>3, <1>4, ReqFails

\* The child that failed it is dropped.
LEMMA DropIs ==
  ASSUME ReqBase, NEW r \in ReqID, DropChild(r)
  PROVE  /\ req[r].pc = "drop" /\ req[r].todo # <<>> /\ calls' = calls
         /\ req[r].peer \in Child
         /\ ReqGoes(r, "send", Tail(req[r].todo), req[r].slot, req[r].peer,
                    req[r].contacted, req[r].nbWaited, req[r].responses, req[r].signalled)
<1>1. /\ req[r].pc = "drop" /\ calls' = calls
      /\ req' = [req EXCEPT ![r].pc = "send", ![r].todo = Tail(@)]
  BY DEF DropChild
<1>2. req[r].todo # <<>> /\ req[r].peer \in Child /\ ReqTypes
  BY <1>1 DEF ReqBase, PeerKnown
<1>3. PICK ch \in Seq(Ids) : ch = Tail(req[r].todo)
  BY <1>2, NextOne
<1>4. req' = [req EXCEPT ![r].pc = "send", ![r].todo = ch]
  BY <1>1, <1>2, <1>3 DEF ReqTypes, Request
<1> QED
  BY <1>1, <1>2, <1>3, <1>4, ReqResumes

\* The count that the thread waits for.
LEMMA CountIs ==
  ASSUME ReqBase, TableGood, NEW r \in ReqID, CountChildren(r)
  PROVE  /\ req[r].pc = "send" /\ req[r].todo = <<>> /\ calls' = calls
         /\ \E n \in Nat :
              /\ ReqGoes(r, IF n = 0 THEN "returned" ELSE "wait", req[r].todo,
                    req[r].slot, req[r].peer, req[r].contacted, n, req[r].responses,
                    req[r].signalled)
              /\ req[r].slot \in 1 .. Len(SrvT) =>
                   n >= Len(SrvT[req[r].slot].children)
         /\ req[r].slot \in 1 .. Len(SrvT) => (~crashed' \/ confused)
<1> DEFINE slot == req[r].slot
           m == IF slot > Len(SrvT) THEN 0 ELSE SrvT[slot].nb_children
<1>1. /\ req[r].pc = "send" /\ req[r].todo = <<>> /\ calls' = calls
      /\ crashed' = (slot <= Len(SrvT) /\ Overruns(SrvT, slot))
      /\ req' = [req EXCEPT ![r].pc = IF m = 0 THEN "returned" ELSE "wait",
                            ![r].nbWaited = m]
  BY DEF CountChildren
<1>2. /\ ReqTypes /\ slot \in Nat /\ slot > 0 /\ Len(SrvT) \in Nat
      /\ GoodTable(SrvT) /\ (~confused => Exact(SrvT))
  BY <1>1, ReqTyped DEF ReqBase, PeerKnown, TableGood, GoodTable
<1>3. slot \in 1 .. Len(SrvT) <=> slot <= Len(SrvT)
  BY <1>2
<1>4. slot \in 1 .. Len(SrvT) =>
        /\ SrvT[slot].nb_children \in Nat
        /\ SrvT[slot].nb_children >= Len(SrvT[slot].children)
        /\ (~confused => ~Overruns(SrvT, slot))
  BY <1>2, EntryIs, ExactIs
<1>5. m \in Nat /\ (slot \in 1 .. Len(SrvT) => m >= Len(SrvT[slot].children))
  BY <1>2, <1>3, <1>4
<1>6. slot \in 1 .. Len(SrvT) => (~crashed' \/ confused)
  BY <1>1, <1>4
<1> HIDE DEF m
<1>7. PICK n \in Nat : n = m
  BY <1>5
<1>8. PICK p \in ReqPlace : p = IF n = 0 THEN "returned" ELSE "wait"
  BY DEF ReqPlace
<1>9. req' = [req EXCEPT ![r].pc = p, ![r].nbWaited = n]
  BY <1>1, <1>7, <1>8
<1>10. ReqGoes(r, p, req[r].todo, slot, req[r].peer, req[r].contacted,
               n, req[r].responses, req[r].signalled)
  BY <1>2, <1>9, ReqCounts
<1> QED
  BY <1>1, <1>5, <1>6, <1>7, <1>8, <1>10

\* The end of a request.
LEMMA WakeIs ==
  ASSUME ReqTypes, NEW r \in ReqID, Wake(r)
  PROVE  /\ req[r].pc = "wait" /\ calls' = calls
         /\ ReqGoes(r, "returned", req[r].todo, req[r].slot, req[r].peer,
                    req[r].contacted, req[r].nbWaited, req[r].responses, req[r].signalled)
         /\ req[r].signalled \/ r \in early'
BY ReqMoves DEF Wake, ReqPlace

\* The request is forgotten.
LEMMA FinishIs ==
  ASSUME ReqTypes, NEW r \in ReqID, Finish(r)
  PROVE  /\ req[r].pc = "returned" /\ calls' = calls
         /\ ReqGoes(r, "done", req[r].todo, req[r].slot, req[r].peer,
                    req[r].contacted, req[r].nbWaited, req[r].responses, req[r].signalled)
BY ReqMoves DEF Finish, ReqPlace

\* A response: the call ends, and the request may get it.
LEMMA ResponseIs ==
  ASSUME ReqTypes, NEW r \in ReqID, NEW c \in Child, addResponse(r, c)
  PROVE  /\ <<r, c, "lock">> \in calls /\ calls' = calls \ {<<r, c, "lock">>}
         /\ req[r].pc \notin {"send", "drop"} /\ ~crashed
         /\ \/ req' = req /\ (crashed' => req[r].pc = "done" \/ req[r].nbWaited = 0)
               /\ (req[r].pc = "done" \/ req[r].nbWaited = 0)
               /\ (req[r].pc # "done" => crashed')
            \/ /\ ~crashed' /\ req[r].nbWaited # 0 /\ req[r].pc # "done"
               /\ ReqGoes(r, req[r].pc, req[r].todo, req[r].slot, req[r].peer,
                          req[r].contacted, req[r].nbWaited - 1,
                          req[r].responses \cup {c}, req[r].nbWaited = 1)
<1>1. /\ <<r, c, "lock">> \in calls /\ calls' = calls \ {<<r, c, "lock">>}
      /\ r \notin Contacting /\ ~crashed
  BY DEF addResponse
<1>2. req[r].pc \notin {"send", "drop"}
  BY <1>1 DEF Contacting
<1>3. CASE req[r].pc = "done"
  BY <1>1, <1>2, <1>3 DEF addResponse
<1>4. CASE req[r].pc # "done" /\ req[r].nbWaited = 0
  BY <1>1, <1>2, <1>4 DEF addResponse
<1>5. CASE req[r].pc # "done" /\ req[r].nbWaited # 0
  <2>1. /\ crashed' = crashed
        /\ req' = [req EXCEPT ![r].responses = @ \cup {c},
               ![r].nbWaited = @ - 1, ![r].signalled = req[r].nbWaited = 1]
    BY <1>5 DEF addResponse
  <2>2. req[r].nbWaited - 1 \in Nat /\ (req[r].responses \cup {c}) \in SUBSET Child
    BY <1>5, ReqTyped
  <2>3. PICK n \in Nat, rs \in SUBSET Child, b \in BOOLEAN :
          /\ n = req[r].nbWaited - 1 /\ rs = req[r].responses \cup {c}
          /\ b = (req[r].nbWaited = 1)
    BY <2>2
  <2>4. req' = [req EXCEPT ![r].responses = rs, ![r].nbWaited = n, ![r].signalled = b]
    BY <2>1, <2>3 DEF ReqTypes, Request
  <2>5. ReqGoes(r, req[r].pc, req[r].todo, req[r].slot, req[r].peer, req[r].contacted,
                n, rs, b)
    BY <2>4, ReqAnswered
  <2> QED
    BY <1>1, <1>2, <1>5, <2>1, <2>3, <2>5
<1> QED
  BY <1>3, <1>4, <1>5

\* A step of one request keeps the base.
LEMMA BaseOf ==
  ASSUME ReqBase, NEW r \in ReqID,
         NEW p, NEW td, NEW sl, NEW pe, NEW co, NEW nw, NEW rs, NEW sg,
         ReqGoes(r, p, td, sl, pe, co, nw, rs, sg),
         calls' \subseteq ReqID \X Child \X CallPlace,
         p \in {"idle", "chosen", "thrown"} => co = {} /\ rs = {},
         p \in {"idle", "chosen", "thrown", "send", "drop"} => nw = 0 /\ ~sg,
         p \in {"send", "drop"} => sl > 0,
         p = "drop" => td # <<>> /\ pe \in Child
  PROVE  ReqBase'
<1>1. ReqTypes'
  BY DEF ReqGoes, ReqTypes
<1>2. \A q \in ReqID : q # r => req'[q] = req[q]
  BY DEF ReqGoes
<1>3. /\ req'[r].pc = p /\ req'[r].todo = td /\ req'[r].slot = sl /\ req'[r].peer = pe
      /\ req'[r].contacted = co /\ req'[r].nbWaited = nw
      /\ req'[r].responses = rs /\ req'[r].signalled = sg
  BY DEF ReqGoes, Rewritten
<1>4. ASSUME NEW q \in ReqID PROVE (FreshReq(q) /\ NothingYet(q) /\ PeerKnown(q))'
  <2>1. CASE q = r
    BY <1>3, <2>1 DEF FreshReq, NothingYet, PeerKnown
  <2>2. CASE q # r
    BY <1>2, <2>2 DEF ReqBase, FreshReq, NothingYet, PeerKnown
  <2> QED
    BY <2>1, <2>2
<1> QED
  BY <1>1, <1>4 DEF ReqBase

\* A step that writes no request keeps it too.
LEMMA BaseIdle ==
  ASSUME ReqBase, req' = req, calls' \subseteq ReqID \X Child \X CallPlace
  PROVE  ReqBase'
BY DEF ReqBase, ReqTypes, FreshReq, NothingYet, PeerKnown

\* The child that a number stands for.
LEMMA ChildOfIs ==
  ASSUME VectTypes, NEW id \in Nat
  PROVE  /\ ChildOf(id) \in Child \cup {None}
         /\ ChildOf(id) # None => \E k \in Kind : EntryAt(k, id) = ChildOf(id)
         /\ ChildOf(id) = None => \A k \in Kind : EntryAt(k, id) = None
<1>1. Kind = {"LA", "SeD"}
  BY DEF Kind
<1>2. \A k \in Kind : /\ EntryAt(k, id) \in Child \cup {None}
                      /\ Defined(k, id) <=> EntryAt(k, id) # None
                      /\ Defined(k, id) => children[k][id + 1] = EntryAt(k, id)
  BY VectorTyped DEF Defined, EntryAt, At
<1> QED
  BY <1>1, <1>2 DEF ChildOf

\* Every step keeps the base.
LEMMA BaseKept ==
  ASSUME ReqBase, VectTypes, TableGood, Next
  PROVE  ReqBase'
<1>1. ReqTypes /\ calls \subseteq ReqID \X Child \X CallPlace
  BY DEF ReqBase, ReqTypes
<1>2. \A r \in ReqID : FreshReq(r) /\ NothingYet(r) /\ PeerKnown(r)
  BY DEF ReqBase
<1>3. ASSUME NEW r \in ReqID, Serving(r) PROVE ReqBase'
  <2>1. CASE submit_local(r)
    <3>1. PICK p \in {"chosen", "done"} :
            /\ req[r].pc = "idle" /\ calls' = calls
            /\ ReqGoes(r, p, req[r].todo, req[r].slot, req[r].peer, req[r].contacted,
                       req[r].nbWaited, req[r].responses, req[r].signalled)
      BY <1>1, <2>1, SubmitIs
    <3> QED
      BY <1>1, <1>2, <3>1, BaseOf DEF FreshReq, NothingYet
  <2>2. CASE findServer(r)
    <3>1. /\ req[r].pc = "chosen" /\ calls' = calls
          /\ \/ \E p \in {"returned", "thrown"} :
                  ReqGoes(r, p, req[r].todo, req[r].slot, req[r].peer, req[r].contacted,
                          req[r].nbWaited, req[r].responses, req[r].signalled)
             \/ \E slot \in 1 .. Len(SrvT) :
                  ReqGoes(r, "send", SrvT[slot].children, slot, req[r].peer,
                          req[r].contacted, req[r].nbWaited, req[r].responses,
                          req[r].signalled)
      BY <1>1, <2>2, FindIs
    <3>2. \A slot \in 1 .. Len(SrvT) : slot > 0
      BY DEF TableGood, GoodTable
    <3> QED
      BY <1>1, <1>2, <3>1, <3>2, BaseOf DEF FreshReq, NothingYet
  <2>3. CASE Contact(r)
    <3>1. req[r].todo # <<>> /\ ChildOf(Next1(r)) # None
      BY <1>1, <2>3, ContactIs
    <3>2. ChildOf(Next1(r)) \in Child
      BY <1>1, <3>1, ChildOfIs, NextOne
    <3>3. /\ req[r].pc = "send" /\ calls' = calls \cup {<<r, ChildOf(Next1(r)), "child">>}
          /\ ReqGoes(r, "send", Tail(req[r].todo), req[r].slot, req[r].peer,
                 req[r].contacted \cup {ChildOf(Next1(r))},
                 req[r].nbWaited, req[r].responses, req[r].signalled)
      BY <1>1, <2>3, <3>2, ContactIs
    <3>4. calls' \subseteq ReqID \X Child \X CallPlace
      BY <1>1, <3>2, <3>3 DEF CallPlace
    <3> QED
      BY <1>2, <3>3, <3>4, BaseOf DEF NothingYet, PeerKnown
  <2>4. CASE UnknownChild(r) \/ SendFails(r)
    <3>1. /\ req[r].pc = "send" /\ calls' = calls
          /\ ReqGoes(r, "send", Tail(req[r].todo), req[r].slot, req[r].peer,
                    req[r].contacted, req[r].nbWaited, req[r].responses, req[r].signalled)
      BY <1>1, <2>4, UnknownIs, FailureIs
    <3> QED
      BY <1>1, <1>2, <3>1, BaseOf DEF NothingYet, PeerKnown
  <2>5. CASE PingFails(r)
    <3>1. /\ req[r].pc = "send" /\ calls' = calls /\ req[r].todo # <<>>
          /\ ChildOf(Next1(r)) \in Child
          /\ ReqGoes(r, "drop", req[r].todo, req[r].slot, ChildOf(Next1(r)),
                     req[r].contacted, req[r].nbWaited, req[r].responses, req[r].signalled)
      BY <1>1, <2>5, PingIs
    <3> QED
      BY <1>1, <1>2, <3>1, BaseOf DEF NothingYet, PeerKnown
  <2>6. CASE DropChild(r)
    <3>1. /\ req[r].pc = "drop" /\ calls' = calls
          /\ ReqGoes(r, "send", Tail(req[r].todo), req[r].slot, req[r].peer,
                    req[r].contacted, req[r].nbWaited, req[r].responses, req[r].signalled)
      BY <2>6, DropIs
    <3> QED
      BY <1>1, <1>2, <3>1, BaseOf DEF NothingYet, PeerKnown
  <2>7. CASE CountChildren(r)
    <3>1. PICK n \in Nat :
            /\ calls' = calls
            /\ ReqGoes(r, IF n = 0 THEN "returned" ELSE "wait", req[r].todo,
                       req[r].slot, req[r].peer, req[r].contacted, n, req[r].responses,
                       req[r].signalled)
      BY <2>7, CountIs
    <3>2. PICK p : p = (IF n = 0 THEN "returned" ELSE "wait")
      OBVIOUS
    <3>3. p \in {"returned", "wait"}
      BY <3>2
    <3> QED
      BY <1>1, <3>1, <3>2, <3>3, BaseOf
  <2>8. CASE Wake(r) \/ Finish(r)
    <3>1. /\ calls' = calls
          /\ \E p \in {"returned", "done"} :
               ReqGoes(r, p, req[r].todo, req[r].slot, req[r].peer,
                    req[r].contacted, req[r].nbWaited, req[r].responses, req[r].signalled)
      BY <1>1, <2>8, WakeIs, FinishIs
    <3> QED
      BY <1>1, <3>1, BaseOf
  <2> QED
    BY <1>3, <2>1, <2>2, <2>3, <2>4, <2>5, <2>6, <2>7, <2>8 DEF Serving
<1>4. ASSUME NEW r \in ReqID, NEW c \in Child, Responding(r, c) PROVE ReqBase'
  <2>1. CASE Answer(r, c)
    <3>1. req' = req /\ calls' \subseteq calls \cup {<<r, c, "agent">>}
      BY <2>1 DEF Answer
    <3>2. calls' \subseteq ReqID \X Child \X CallPlace
      BY <1>1, <3>1 DEF CallPlace
    <3> QED
      BY <3>1, <3>2, BaseIdle
  <2>2. CASE getResponse(r, c)
    <3>1. req' = req /\ calls' \subseteq calls \cup {<<r, c, "lock">>}
      BY <2>2 DEF getResponse
    <3>2. calls' \subseteq ReqID \X Child \X CallPlace
      BY <1>1, <3>1 DEF CallPlace
    <3> QED
      BY <3>1, <3>2, BaseIdle
  <2>3. CASE addResponse(r, c)
    <3>1. /\ calls' \subseteq ReqID \X Child \X CallPlace
          /\ \/ req' = req
             \/ /\ req[r].nbWaited # 0
                /\ ReqGoes(r, req[r].pc, req[r].todo, req[r].slot, req[r].peer,
                          req[r].contacted, req[r].nbWaited - 1,
                          req[r].responses \cup {c}, req[r].nbWaited = 1)
      BY <1>1, <2>3, ResponseIs
    <3>2. CASE req' = req
      BY <3>1, <3>2, BaseIdle
    <3>3. CASE req[r].nbWaited # 0 /\ req' # req
      <4>1. req[r].pc \notin {"idle", "chosen", "thrown", "send", "drop"}
        BY <1>2, <3>3 DEF NothingYet
      <4> QED
        BY <3>1, <3>3, <4>1, BaseOf
    <3> QED
      BY <3>1, <3>2, <3>3
  <2> QED
    BY <1>4, <2>1, <2>2, <2>3 DEF Responding
<1>5. ASSUME NEW c \in Child, Die(c) \/ (ChildAct(c) /\ ChildRest) PROVE ReqBase'
  <2>1. req' = req /\ calls' \subseteq calls
    BY <1>5 DEF Die, ChildRest, reqVars
  <2> QED
    BY <1>1, <2>1, BaseIdle
<1> QED
  BY <1>3, <1>4, <1>5, NextSplits

\* childUnsubscribe() undefines an entry when there is one.
LEMMA ForgetIs ==
  ASSUME KidInv, VectTypes, NEW c \in Child, ForgetChild(c)
  PROVE  /\ kid[c].pc = "leaving" /\ kid[c].id \in Nat
         /\ \/ children' = children /\ nbChildren' = nbChildren /\ crashed' = crashed
            \/ \E k \in Kind : EntryAt(k, kid[c].id) # None /\ Undefine(k, kid[c].id)
<1>1. kid[c].pc = "leaving"
  BY DEF ForgetChild, Step
<1>2. kid[c].id \in Nat
  BY <1>1, KidTyped DEF KidInv
<1>3. PICK k \in Kind :
        IF Defined(k, kid[c].id) THEN Undefine(k, kid[c].id)
        ELSE UNCHANGED <<children, nbChildren, crashed>>
  BY DEF ForgetChild, Kind
<1> QED
  BY <1>1, <1>2, <1>3, VectorTyped

\* Every step keeps the vectors.
LEMMA VectKept ==
  ASSUME KidInv, ReqBase, VectInv, Next
  PROVE  VectInv'
<1>1. VectTypes
  BY DEF VectInv
<1>2. ASSUME KidSame, children' = children, nbChildren' = nbChildren, shrunk' = shrunk,
             dropped \subseteq dropped', stale \subseteq stale'
      PROVE  VectInv'
  BY <1>2, VectIdle DEF KidSame
<1>3. ASSUME NEW c \in Child, ChildAct(c) PROVE VectInv'
  <2>1. CASE TakeNumber(c)
    BY <2>1, VectNumbered
  <2>2. CASE Resize(c)
    BY <2>2, VectResized
  <2>3. CASE SetChild(c)
    BY <2>3, VectSet
  <2>4. CASE ForgetChild(c)
    <3>1. /\ shrunk' = shrunk /\ childIDCounter' = childIDCounter /\ dropped' = dropped
          /\ stale' = stale
          /\ \A d \in Child : d # c => kid'[d] = kid[d]
          /\ kid[c].pc = "leaving" /\ kid'[c].pc = "out" /\ kid'[c].id = kid[c].id
      BY <2>4, KidActs DEF ForgetChild, KidGoes, historyVars
    <3>2. kid[c].id \in Nat /\ \A d \in Child : kid[d].id = kid[c].id => d = c
      BY <1>1, <2>4, ForgetIs DEF KidInv
    <3>3. \A d \in Child :
           /\ kid'[d].id = kid[d].id
           /\ kid'[d].pc \in {"numbered", "sized", "resized", "entry"} =>
                kid[d].pc \in {"numbered", "sized", "resized", "entry"}
           /\ kid'[d].pc \in {"resized", "entry"} => kid[d].pc \in {"resized", "entry"}
           /\ kid'[d].pc \in {"set", "in"} => kid[d].pc \in {"set", "in"}
           /\ kid'[d].pc \in {"set", "in"} => kid[d].id # kid[c].id
      BY <3>1, <3>2
    <3>4. CASE children' = children /\ nbChildren' = nbChildren
      BY <3>1, <3>3, <3>4, VectIdle
    <3>5. ASSUME NEW k \in Kind, Undefine(k, kid[c].id) PROVE VectInv'
      BY <3>1, <3>2, <3>3, <3>5, VectUndefined
    <3> QED
      BY <1>1, <2>4, <3>4, <3>5, ForgetIs
  <2>5. CASE \/ ReadCounter(c) \/ FindEntry(c) \/ Subscribed(c) \/ AddService(c)
             \/ childRemoveService(c) \/ childUnsubscribe(c)
    <3>1. /\ children' = children /\ nbChildren' = nbChildren /\ shrunk' = shrunk
          /\ dropped' = dropped /\ stale' = stale /\ childIDCounter' = childIDCounter
      BY <2>5 DEF ReadCounter, FindEntry, Subscribed, AddService, childRemoveService,
         childUnsubscribe, listVars, historyVars
    <3>2. \E p, z, ps :
            /\ KidGoes(c, p, kid[c].id, z, ps)
            /\ \/ p = kid[c].pc
               \/ kid[c].pc = "numbered" /\ p = "sized"
               \/ kid[c].pc = "resized" /\ p = "entry"
               \/ kid[c].pc = "set" /\ p \in {"in", "refused"}
               \/ kid[c].pc = "in" /\ p = "leaving"
      <4>1. CASE ReadCounter(c) \/ FindEntry(c) \/ Subscribed(c) \/ childUnsubscribe(c)
        BY <4>1, KidActs
      <4>2. CASE AddService(c)
        BY <4>2, KidChanges DEF AddService, listVars
      <4>3. CASE childRemoveService(c)
        BY <4>3, KidChanges DEF childRemoveService, listVars
      <4> QED
        BY <2>5, <4>1, <4>2, <4>3
    <3>3. PICK p : /\ \A d \in Child : d # c => kid'[d] = kid[d]
                   /\ kid'[c].pc = p /\ kid'[c].id = kid[c].id
                   /\ \/ p = kid[c].pc
                      \/ kid[c].pc = "numbered" /\ p = "sized"
                      \/ kid[c].pc = "resized" /\ p = "entry"
                      \/ kid[c].pc = "set" /\ p \in {"in", "refused"}
                      \/ kid[c].pc = "in" /\ p = "leaving"
      BY <3>2 DEF KidGoes
    <3>4. \A d \in Child :
           /\ kid'[d].id = kid[d].id
           /\ kid'[d].pc \in {"numbered", "sized", "resized", "entry"} =>
                kid[d].pc \in {"numbered", "sized", "resized", "entry"}
           /\ kid'[d].pc \in {"resized", "entry"} => kid[d].pc \in {"resized", "entry"}
           /\ kid'[d].pc \in {"set", "in"} => kid[d].pc \in {"set", "in"}
      BY <3>3
    <3> QED
      BY <3>1, <3>4, VectIdle
  <2> QED
    BY <1>3, <2>1, <2>2, <2>3, <2>4, <2>5 DEF ChildAct
<1>4. ASSUME NEW r \in ReqID, Serving(r) PROVE VectInv'
  <2>1. KidSame /\ shrunk' = shrunk /\ stale' = stale
    BY <1>4, ServingKeepsKids
  <2>2. CASE DropChild(r)
    <3>1. /\ dropped' = dropped \cup {Next1(r)}
          /\ \/ children' = children /\ nbChildren' = nbChildren
             \/ Undefine(Kinds(req[r].peer), Next1(r))
      BY <2>2 DEF DropChild
    <3>2. Next1(r) \in Nat /\ req[r].peer \in Child
      BY <2>2, DropIs, NextOne DEF ReqBase
    <3>3. ASSUME Undefine(Kinds(req[r].peer), Next1(r)) PROVE VectInv'
      <4>1. PICK k \in Kind, id \in Nat : k = Kinds(req[r].peer) /\ id = Next1(r)
        BY <3>2, KindsIs
      <4>2. Undefine(k, id) /\ dropped' = dropped \cup {id}
        BY <3>1, <3>3, <4>1
      <4> QED
        BY <2>1, <4>2, VectUndefined DEF KidSame
    <3> QED
      BY <1>2, <2>1, <3>1, <3>3
  <2>3. CASE ~DropChild(r)
    <3>1. children' = children /\ nbChildren' = nbChildren /\ dropped' = dropped
      BY <1>4, <2>3 DEF Serving, submit_local, findServer, Contact, UnknownChild,
         PingFails, SendFails, CountChildren, Wake, Finish, agentVars, historyVars,
         listVars
    <3> QED
      BY <1>2, <2>1, <3>1
  <2> QED
    BY <2>2, <2>3
<1>5. ASSUME NEW c \in Child, Die(c) \/ \E r \in ReqID : Responding(r, c)
      PROVE  VectInv'
  BY <1>2, <1>5, AnswersKeepAgent
<1> QED
  BY <1>3, <1>4, <1>5, NextSplits

-----------------------------------------------------------------------------
(* The children that are listed have their entries. *)

Reach(id) ==
  \/ id \in dropped \cup stale \/ shrunk
  \/ \E k \in Kind : EntryAt(k, id) # None
ReachInv == \A s, id : Has(SrvT, s, id) => Reach(id)

\* What is listed is a number.
LEMMA HasTyped ==
  ASSUME NEW T, GoodTable(T), NEW s, NEW id, Has(T, s, id)
  PROVE  id \in Ids /\ id \in Nat
<1>1. PICK i \in 1 .. Len(T) : id \in ToSet(T[i].children)
  BY DEF Has
<1>2. T[i].children \in Seq(Ids)
  BY <1>1, EntryIs
<1>3. id \in Ids
  BY <1>1, <1>2, Elements
<1> QED
  BY <1>3, Constants DEF Ids

\* The property of the runs says so of every entry.
LEMMA ReachShown ==
  ASSUME TableGood, VectTypes, ReachInv
  PROVE  ListedAreReachable
<1> SUFFICES ASSUME NEW i \in DOMAIN SrvT, NEW id \in ToSet(SrvT[i].children)
             PROVE  id \in dropped \cup stale \/ shrunk \/ ChildOf(id) # None
  BY DEF ListedAreReachable
<1>1. GoodTable(SrvT) /\ i \in 1 .. Len(SrvT)
  BY DEF TableGood, GoodTable
<1>2. Has(SrvT, SrvT[i].profile, id)
  BY <1>1 DEF Has
<1>3. Reach(id) /\ id \in Nat
  BY <1>1, <1>2, HasTyped DEF ReachInv
<1> QED
  BY <1>3, ChildOfIs DEF Reach

\* A step that lists no child anew, and undefines the entry of no child that is
\* listed and stays so.
LEMMA ReachIdle ==
  ASSUME ReachInv, TableGood, dropped \subseteq dropped', shrunk => shrunk',
         stale \subseteq stale',
         \A s, x : Has(SrvT', s, x) => Has(SrvT, s, x),
         \A s : \A x \in Nat : Has(SrvT, s, x) =>
           x \in dropped' \/ shrunk' \/
             \A k \in Kind : EntryAt(k, x) # None => At(children'[k], x) # None
  PROVE  ReachInv'
<1> SUFFICES ASSUME NEW s, NEW x, Has(SrvT', s, x)
             PROVE  \/ x \in dropped' \cup stale' \/ shrunk'
                    \/ \E k \in Kind : At(children'[k], x) # None
  BY DEF ReachInv, Reach, EntryAt
<1>1. Has(SrvT, s, x) /\ Reach(x) /\ x \in Nat
  BY HasTyped DEF ReachInv, TableGood
<1> QED
  BY <1>1 DEF Reach

\* A step that lists a child that has its entry.
LEMMA ReachAdds ==
  ASSUME ReachInv, KidInv, VectInv, NEW c \in Child, kid[c].pc \in {"set", "in"},
         children' = children, dropped' = dropped, shrunk' = shrunk, stale' = stale,
         \A s, x : Has(SrvT', s, x) => Has(SrvT, s, x) \/ x = kid[c].id
  PROVE  ReachInv'
<1>1. Kinds(c) \in Kind /\ c # None
  BY KindsIs, Constants
<1>2. Reach(kid[c].id)
  BY <1>1 DEF VectInv, EntryKept, Reach
<1>3. \A s, x : Has(SrvT', s, x) => Reach(x)
  BY <1>2 DEF ReachInv
<1> QED
  BY <1>3 DEF ReachInv, Reach, EntryAt

\* Every step keeps it.
LEMMA ReachKept ==
  ASSUME KidInv, TableInv, ReqBase, VectInv, ReachInv, Next
  PROVE  ReachInv'
<1>1. VectTypes /\ TableGood
  BY DEF VectInv, TableInv
<1>2. ASSUME SrvT' = SrvT, children' = children, dropped' = dropped, shrunk' = shrunk,
             stale' = stale
      PROVE  ReachInv'
  BY <1>2 DEF ReachInv, Reach, EntryAt
<1>3. ASSUME NEW c \in Child, ChildAct(c) PROVE ReachInv'
  <2>1. CASE TakeNumber(c) \/ ReadCounter(c) \/ FindEntry(c)
    BY <1>2, <2>1 DEF TakeNumber, ReadCounter, FindEntry, listVars, tableVars, historyVars
  <2>2. CASE Resize(c)
    <3>1. SrvT' = SrvT /\ dropped' = dropped /\ stale \subseteq stale'
      BY <2>2 DEF Resize, tableVars
    <3>2. \/ shrunk'
          \/ ~shrunk /\ \A k \in Kind : \A x \in Nat : At(children'[k], x) = EntryAt(k, x)
      BY <1>1, <2>2, ResizeIs DEF EntryAt
    <3> QED
      BY <1>1, <3>1, <3>2, ReachIdle
  <2>3. CASE SetChild(c)
    <3>1. /\ SrvT' = SrvT /\ dropped' = dropped /\ shrunk' = shrunk /\ c # None
          /\ stale' = stale
      BY <2>3, Constants DEF SetChild, tableVars, historyVars
    <3>2. \A k \in Kind : \A x \in Nat : EntryAt(k, x) # None => At(children'[k], x) # None
      BY <1>1, <2>3, <3>1, SetChildIs DEF EntryAt
    <3> QED
      BY <1>1, <3>1, <3>2, ReachIdle
  <2>4. CASE ForgetChild(c)
    <3>1. /\ SrvT' = SrvT /\ dropped' = dropped /\ shrunk' = shrunk /\ ~crashed
          /\ stale' = stale
      BY <2>4 DEF ForgetChild, tableVars, Step, historyVars
    <3>2. kid[c].pc = "leaving" /\ kid[c].id \in Nat
      BY <1>1, <2>4, ForgetIs
    <3>3. \A s : ~Has(SrvT, s, kid[c].id)
      <4>1. kid[c].id >= 0 /\ kid[c].pc # "in"
        BY <3>2
      <4> QED
        BY <3>1, <4>1, ListedIsMine
    <3>4. CASE children' = children
      BY <1>2, <3>1, <3>4
    <3>5. ASSUME NEW k \in Kind, Undefine(k, kid[c].id) PROVE ReachInv'
      <4>1. \A j \in Kind : \A x \in Nat :
              x # kid[c].id => At(children'[j], x) = EntryAt(j, x)
        BY <1>1, <3>2, <3>5, UndefineIs DEF EntryAt
      <4>2. \A s : \A x \in Nat : Has(SrvT, s, x) =>
              \A j \in Kind : EntryAt(j, x) # None => At(children'[j], x) # None
        BY <3>3, <4>1
      <4> QED
        BY <1>1, <3>1, <4>2, ReachIdle
    <3> QED
      BY <1>1, <2>4, <3>4, <3>5, ForgetIs
  <2>5. CASE Subscribed(c)
    <3>1. /\ kid[c].pc = "set" /\ ~crashed /\ addServices(c, kid[c].profiles)
          /\ children' = children /\ dropped' = dropped /\ shrunk' = shrunk
          /\ stale' = stale
      BY <2>5, KidActs DEF Subscribed, listVars, historyVars
    <3>2. kid[c].id >= 0 /\ kid[c].id \in Ids /\ kid[c].profiles \in Seq(Offers)
      BY <3>1, IdTyped, KidTyped DEF KidInv
    <3>3. \A s, x : Has(SrvT', s, x) => Has(SrvT, s, x) \/ x = kid[c].id
      BY <1>1, <3>1, <3>2, AddsServices
    <3> QED
      BY <3>1, <3>3, ReachAdds
  <2>6. CASE AddService(c)
    <3>1. PICK s \in Extra[c] :
            /\ kid[c].pc = "in" /\ ~crashed /\ addServices(c, <<s>>)
            /\ children' = children /\ dropped' = dropped /\ shrunk' = shrunk
            /\ stale' = stale
      BY <2>6 DEF AddService, Change, listVars, historyVars
    <3>2. kid[c].id >= 0 /\ kid[c].id \in Ids
      BY <3>1, IdTyped DEF KidInv
    <3>3. <<s>> \in Seq(Offers)
      BY ExtraOffers, OneElement
    <3>4. \A q, x : Has(SrvT', q, x) => Has(SrvT, q, x) \/ x = kid[c].id
      BY <1>1, <3>1, <3>2, <3>3, AddsServices
    <3> QED
      BY <3>1, <3>4, ReachAdds
  <2>7. CASE childRemoveService(c)
    <3>1. PICK s \in ToSet(kid[c].profiles) :
            /\ RemoveAll(c, <<s>>) /\ ~crashed
            /\ confused' = (confused \/ Unlisted(c, <<s>>))
            /\ children' = children /\ dropped' = dropped /\ shrunk' = shrunk
            /\ stale' = stale
      BY <2>7 DEF childRemoveService, Change, listVars, historyVars
    <3>2. kid[c].profiles \in Seq(Offers)
      BY KidTyped DEF KidInv
    <3>3. s \in Offers
      BY <3>1, <3>2, Elements
    <3>4. <<s>> \in Seq(Offers) /\ OnceEach(<<s>>)
      BY <3>3, OneElement
    <3>5. \A q, x : Has(SrvT', q, x) => Has(SrvT, q, x)
      BY <1>1, <3>1, <3>4, RemovesServices
    <3> QED
      BY <1>1, <3>1, <3>5, ReachIdle DEF EntryAt
  <2>8. CASE childUnsubscribe(c)
    <3>1. /\ RemoveAll(c, kid[c].profiles) /\ ~crashed
          /\ confused' = (confused \/ Unlisted(c, kid[c].profiles))
          /\ children' = children /\ dropped' = dropped /\ shrunk' = shrunk
            /\ stale' = stale
      BY <2>8 DEF childUnsubscribe, Change, listVars, historyVars
    <3>2. kid[c].profiles \in Seq(Offers) /\ OnceEach(kid[c].profiles)
      BY KidTyped DEF KidInv
    <3>3. \A q, x : Has(SrvT', q, x) => Has(SrvT, q, x)
      BY <1>1, <3>1, <3>2, RemovesServices
    <3> QED
      BY <1>1, <3>1, <3>3, ReachIdle DEF EntryAt
  <2> QED
    BY <1>3, <2>1, <2>2, <2>3, <2>4, <2>5, <2>6, <2>7, <2>8 DEF ChildAct
<1>4. ASSUME NEW r \in ReqID, Serving(r) PROVE ReachInv'
  <2>1. shrunk' = shrunk /\ stale' = stale
    BY <1>4, ServingKeepsKids
  <2>2. CASE DropChild(r)
    <3>1. /\ dropped' = dropped \cup {Next1(r)}
          /\ \/ children' = children /\ SrvT' = SrvT
             \/ Undefine(Kinds(req[r].peer), Next1(r)) /\ SrvT' = rmChild(SrvT, Next1(r))
      BY <2>2 DEF DropChild
    <3>2. PICK k \in Kind, id \in Nat : k = Kinds(req[r].peer) /\ id = Next1(r)
      BY <2>2, DropIs, NextOne, KindsIs DEF ReqBase
    <3>3. CASE children' = children /\ SrvT' = SrvT
      BY <1>1, <2>1, <3>1, <3>3, ReachIdle DEF EntryAt
    <3>4. CASE Undefine(k, id) /\ SrvT' = rmChild(SrvT, id)
      <4>1. \A j \in Kind : \A x \in Nat :
              x # id => At(children'[j], x) = EntryAt(j, x)
        BY <1>1, <3>4, UndefineIs DEF EntryAt
      <4>2. \A s, x : Has(SrvT', s, x) => Has(SrvT, s, x)
        BY <1>1, <3>4, RmChildIs DEF TableGood
      <4>3. id \in dropped' /\ dropped \subseteq dropped'
        BY <3>1, <3>2
      <4> QED
        BY <1>1, <2>1, <4>1, <4>2, <4>3, ReachIdle
    <3> QED
      BY <3>1, <3>2, <3>3, <3>4
  <2>3. CASE ~DropChild(r)
    <3>1. children' = children /\ SrvT' = SrvT /\ dropped' = dropped
      BY <1>4, <2>3 DEF Serving, submit_local, findServer, Contact, UnknownChild,
         PingFails, SendFails, CountChildren, Wake, Finish, agentVars, historyVars,
         listVars, tableVars
    <3> QED
      BY <1>2, <2>1, <3>1
  <2> QED
    BY <2>2, <2>3
<1>5. ASSUME NEW c \in Child, Die(c) \/ \E r \in ReqID : Responding(r, c)
      PROVE  ReachInv'
  BY <1>2, <1>5, AnswersKeepAgent
<1> QED
  BY <1>3, <1>4, <1>5, NextSplits

-----------------------------------------------------------------------------
(* The requests that no change of the table has disturbed. *)

Still(r) == r \notin disturbed \cup early

\* A call is under way for each child that has not answered, one at a time.
CallsInv(r) ==
  /\ req[r].responses \subseteq req[r].contacted
  /\ \A c, st : <<r, c, st>> \in calls => c \in req[r].contacted \ req[r].responses
  /\ \A c, st, st2 : <<r, c, st>> \in calls /\ <<r, c, st2>> \in calls => st = st2

\* The entry that was copied is still what it was: each child of it has been
\* contacted, was skipped or is still to be contacted.
Copied(r) == ToSet(SrvT[req[r].slot].children)
SendInv(r) ==
  req[r].pc \in {"send", "drop"} =>
    /\ req[r].slot \in 1 .. Len(SrvT)
    /\ req[r].responses = {}
    /\ OnceEach(req[r].todo)
    /\ ToSet(req[r].todo) \subseteq Copied(r)
    /\ \A c \in req[r].contacted : kid[c].id \in Copied(r) \ ToSet(req[r].todo)

\* The child that is to be dropped has its entry.
DropInv(r) ==
  req[r].pc = "drop" /\ ~shrunk => EntryAt(Kinds(req[r].peer), Next1(r)) = req[r].peer

\* The thread waits for no fewer responses than are to come.
WaitInv(r) ==
  /\ req[r].pc = "wait" =>
       /\ req[r].nbWaited >= Cardinality(req[r].contacted \ req[r].responses)
       /\ req[r].signalled => req[r].nbWaited = 0
  /\ req[r].pc \in {"returned", "done"} => req[r].responses = req[r].contacted

StillReq(r) == CallsInv(r) /\ SendInv(r) /\ DropInv(r) /\ WaitInv(r)
StillInv == \A r \in ReqID : Still(r) => StillReq(r)

\* What was copied is listed, and is the number of a subscribed child.
LEMMA CopiedIs ==
  ASSUME KidInv, TableInv, ~crashed, ReqBase, NEW q \in ReqID, StillReq(q),
         req[q].pc \in {"send", "drop"}
  PROVE  /\ \A x \in Copied(q) : \E s : Has(SrvT, s, x)
         /\ \A x \in Copied(q) : x \in Nat
         /\ \A c \in req[q].contacted : kid[c].id \in Copied(q) /\ kid[c].pc = "in"
         /\ req[q].pc = "drop" => Next1(q) \in Copied(q)
<1>1. req[q].slot \in 1 .. Len(SrvT) /\ GoodTable(SrvT)
  BY DEF StillReq, SendInv, TableInv, TableGood
<1>2. \A x \in Copied(q) : Has(SrvT, SrvT[req[q].slot].profile, x)
  BY <1>1 DEF Has, Copied
<1>3. \A x \in Copied(q) : x \in Nat
  BY <1>1, <1>2, HasTyped
<1>4. ASSUME NEW c \in req[q].contacted PROVE kid[c].id \in Copied(q) /\ kid[c].pc = "in"
  <2>1. kid[c].id \in Copied(q) /\ c \in Child
    BY ReqTyped DEF StillReq, SendInv, ReqBase
  <2>2. Has(SrvT, SrvT[req[q].slot].profile, kid[c].id) /\ kid[c].id >= 0
    BY <1>2, <1>3, <2>1
  <2> QED
    BY <2>1, <2>2, ListedIsMine
<1>5. ASSUME req[q].pc = "drop" PROVE Next1(q) \in Copied(q)
  <2>1. req[q].todo # <<>> /\ req[q].todo \in Seq(Ids)
    BY <1>5, ReqTyped DEF ReqBase, PeerKnown
  <2>2. Len(req[q].todo) \in Nat /\ Len(req[q].todo) # 0 /\ Next1(q) = req[q].todo[1]
    BY <2>1 DEF Next1
  <2>3. 1 \in 1 .. Len(req[q].todo)
    BY <2>2
  <2>4. Next1(q) \in ToSet(req[q].todo)
    BY <2>1, <2>2, <2>3, Elements
  <2> QED
    BY <1>5, <2>4 DEF StillReq, SendInv
<1> QED
  BY <1>2, <1>3, <1>4, <1>5

\* A request keeps its parts in a step of others.
LEMMA StillIdle ==
  ASSUME NEW q \in ReqID, StillReq(q), req'[q] = req[q],
         \A c, st : <<q, c, st>> \in calls' => <<q, c, st>> \in calls,
         req[q].pc \in {"send", "drop"} =>
           SrvT' = SrvT /\ \A c \in req[q].contacted : kid'[c].id = kid[c].id,
         req[q].pc = "drop" /\ ~shrunk' =>
           /\ ~shrunk
           /\ At(children'[Kinds(req[q].peer)], Next1(q)) =
                EntryAt(Kinds(req[q].peer), Next1(q))
  PROVE  StillReq(q)'
<1>1. CallsInv(q)'
  BY DEF StillReq, CallsInv
<1>2. SendInv(q)'
  BY DEF StillReq, SendInv, Copied
<1>3. DropInv(q)'
  BY DEF StillReq, DropInv, EntryAt, Next1
<1>4. WaitInv(q)'
  BY DEF StillReq, WaitInv
<1> QED
  BY <1>1, <1>2, <1>3, <1>4 DEF StillReq

\* A child has one number while it has one.
LEMMA KidKeepsId ==
  ASSUME KidInv, NEW c \in Child, ChildAct(c)
  PROVE  ~crashed /\ \A d \in Child : kid[d].pc # "out" => kid'[d].id = kid[d].id
<1>1. CASE TakeNumber(c)
  BY <1>1, KidTakesNumber DEF KidInv, KidGoes, TakeNumber
<1>2. CASE \/ ReadCounter(c) \/ Resize(c) \/ FindEntry(c) \/ SetChild(c)
           \/ Subscribed(c) \/ childUnsubscribe(c) \/ ForgetChild(c)
  BY <1>2, KidActs DEF KidGoes
<1>3. CASE AddService(c)
  BY <1>3, KidChanges DEF AddService, Change, listVars, KidGoes
<1>4. CASE childRemoveService(c)
  BY <1>4, KidChanges DEF childRemoveService, Change, listVars, KidGoes
<1> QED
  BY <1>1, <1>2, <1>3, <1>4 DEF ChildAct

\* No child changes the entry of another that is listed.
LEMMA ListedEntryStays ==
  ASSUME KidInv, TableInv, VectInv, NEW c \in Child, ChildAct(c), ~shrunk',
         NEW x \in Nat, NEW s, Has(SrvT, s, x), NEW j \in Kind
  PROVE  ~shrunk /\ At(children'[j], x) = EntryAt(j, x)
<1>1. VectTypes /\ ~crashed
  BY KidKeepsId DEF VectInv
<1>2. kid[c].id = x => kid[c].pc = "in"
  BY <1>1, ListedIsMine
<1>3. CASE Resize(c)
  BY <1>1, <1>3, ResizeIs DEF EntryAt
<1>4. CASE SetChild(c)
  <2>1. kid[c].id # x /\ shrunk' = shrunk
    BY <1>2, <1>4 DEF SetChild, Step, historyVars
  <2> QED
    BY <1>1, <1>4, <2>1, SetChildIs DEF EntryAt
<1>5. CASE ForgetChild(c)
  <2>1. kid[c].id # x /\ shrunk' = shrunk
    BY <1>2, <1>5 DEF ForgetChild, Step, historyVars
  <2>2. ASSUME NEW k \in Kind, Undefine(k, kid[c].id), kid[c].id \in Nat
        PROVE  At(children'[j], x) = EntryAt(j, x)
    BY <1>1, <2>1, <2>2, UndefineIs DEF EntryAt
  <2> QED
    BY <1>1, <1>5, <2>1, <2>2, ForgetIs DEF EntryAt
<1>6. CASE \/ TakeNumber(c) \/ ReadCounter(c) \/ FindEntry(c) \/ Subscribed(c)
           \/ AddService(c) \/ childRemoveService(c) \/ childUnsubscribe(c)
  <2>1. children' = children /\ shrunk' = shrunk
    BY <1>6, Zenon DEF TakeNumber, ReadCounter, FindEntry, Subscribed, AddService,
       childRemoveService, childUnsubscribe, listVars, historyVars
  <2> QED
    BY <2>1 DEF EntryAt
<1> QED
  BY <1>3, <1>4, <1>5, <1>6 DEF ChildAct

\* The steps of the children leave such a request as it was.
LEMMA StillOfChild ==
  ASSUME KidInv, TableInv, VectInv, ReqBase, StillInv, NEW c \in Child, ChildAct(c),
         ChildRest
  PROVE  StillInv'
<1> SUFFICES ASSUME NEW q \in ReqID, Still(q)' PROVE StillReq(q)'
  BY DEF StillInv
<1>1. /\ req' = req /\ calls' = calls /\ early' = early /\ disturbed \subseteq disturbed'
      /\ SrvT' # SrvT => Contacting \subseteq disturbed'
  BY DEF ChildRest, reqVars, Disturbs
<1>2. Still(q) /\ StillReq(q)
  BY <1>1 DEF Still, StillInv
<1>3. ~crashed
  BY KidKeepsId
<1>4. ASSUME req[q].pc \in {"send", "drop"}
      PROVE  SrvT' = SrvT /\ \A d \in req[q].contacted : kid'[d].id = kid[d].id
  <2>1. q \in Contacting
    BY <1>4 DEF Contacting
  <2>2. SrvT' = SrvT
    BY <1>1, <2>1 DEF Still
  <2>3. \A d \in req[q].contacted : d \in Child /\ kid[d].pc = "in"
    BY <1>2, <1>3, <1>4, CopiedIs, ReqTyped DEF ReqBase
  <2> QED
    BY <2>2, <2>3, KidKeepsId
<1>5. ASSUME req[q].pc = "drop", ~shrunk'
      PROVE  /\ ~shrunk
             /\ At(children'[Kinds(req[q].peer)], Next1(q)) =
                  EntryAt(Kinds(req[q].peer), Next1(q))
  <2>1. Kinds(req[q].peer) \in Kind /\ Next1(q) \in Nat /\ \E s : Has(SrvT, s, Next1(q))
    BY <1>2, <1>3, <1>5, CopiedIs DEF Kinds, Kind
  <2> QED
    BY <1>5, <2>1, ListedEntryStays
<1> QED
  BY <1>1, <1>2, <1>4, <1>5, StillIdle

\* The parts of a request after a step of its own.
LEMMA StillOf ==
  ASSUME NEW r \in ReqID, NEW p, NEW td, NEW sl, NEW pe, NEW co, NEW nw, NEW rs, NEW sg,
         ReqGoes(r, p, td, sl, pe, co, nw, rs, sg),
         /\ rs \subseteq co
         /\ \A c, st : <<r, c, st>> \in calls' => c \in co \ rs
         /\ \A c, st, st2 : <<r, c, st>> \in calls' /\ <<r, c, st2>> \in calls' => st = st2,
         p \in {"send", "drop"} =>
           /\ sl \in 1 .. Len(SrvT') /\ rs = {} /\ OnceEach(td)
           /\ ToSet(td) \subseteq ToSet(SrvT'[sl].children)
           /\ \A c \in co : kid'[c].id \in ToSet(SrvT'[sl].children) \ ToSet(td),
         p = "drop" /\ ~shrunk' => At(children'[Kinds(pe)], Head(td)) = pe,
         p = "wait" => nw >= Cardinality(co \ rs) /\ (sg => nw = 0),
         p \in {"returned", "done"} => rs = co
  PROVE  StillReq(r)'
<1>1. /\ req'[r].pc = p /\ req'[r].todo = td /\ req'[r].slot = sl /\ req'[r].peer = pe
      /\ req'[r].contacted = co /\ req'[r].nbWaited = nw
      /\ req'[r].responses = rs /\ req'[r].signalled = sg
  BY DEF ReqGoes, Rewritten
<1>2. CallsInv(r)'
  BY <1>1 DEF CallsInv
<1>3. SendInv(r)'
  BY <1>1 DEF SendInv, Copied
<1>4. DropInv(r)'
  BY <1>1 DEF DropInv, EntryAt, Next1
<1>5. WaitInv(r)'
  BY <1>1 DEF WaitInv
<1> QED
  BY <1>2, <1>3, <1>4, <1>5 DEF StillReq

\* The same for one that has more children to contact.
LEMMA StillSends ==
  ASSUME NEW r \in ReqID, NEW p \in {"send", "drop"},
         NEW td, NEW sl, NEW pe, NEW co, NEW nw, NEW sg,
         ReqGoes(r, p, td, sl, pe, co, nw, {}, sg),
         \A c, st : <<r, c, st>> \in calls' => c \in co,
         \A c, st, st2 : <<r, c, st>> \in calls' /\ <<r, c, st2>> \in calls' => st = st2,
         sl \in 1 .. Len(SrvT'), OnceEach(td),
         ToSet(td) \subseteq ToSet(SrvT'[sl].children),
         \A c \in co : kid'[c].id \in ToSet(SrvT'[sl].children) \ ToSet(td),
         p = "drop" => At(children'[Kinds(pe)], Head(td)) = pe
  PROVE  StillReq(r)'
<1>1. /\ req'[r].pc = p /\ req'[r].todo = td /\ req'[r].slot = sl /\ req'[r].peer = pe
      /\ req'[r].contacted = co /\ req'[r].responses = {}
  BY DEF ReqGoes, Rewritten
<1>2. CallsInv(r)'
  BY <1>1 DEF CallsInv
<1>3. SendInv(r)'
  BY <1>1 DEF SendInv, Copied
<1>4. DropInv(r)'
  BY <1>1 DEF DropInv, EntryAt, Next1
<1>5. WaitInv(r)'
  BY <1>1 DEF WaitInv
<1> QED
  BY <1>2, <1>3, <1>4, <1>5 DEF StillReq

\* A step of one request leaves the others as they were, unless it changes the
\* table under them.
LEMMA StillOthers ==
  ASSUME KidInv, TableInv, VectInv, ReqBase, StillInv, NEW r \in ReqID, Serving(r),
         NEW q \in ReqID, q # r, Still(q)'
  PROVE  StillReq(q)'
<1>1. KidSame /\ ~crashed /\ shrunk' = shrunk /\ ReqTypes /\ VectTypes /\ TableGood
  BY ServingKeepsKids DEF ReqBase, VectInv, TableInv
<1>2. CASE DropChild(r)
  <2>1. /\ calls' = calls /\ req'[q] = req[q] /\ early' = early
        /\ disturbed \subseteq disturbed'
        /\ SrvT' # SrvT => Contacting \ {r} \subseteq disturbed'
        /\ \/ children' = children /\ SrvT' = SrvT
           \/ Undefine(Kinds(req[r].peer), Next1(r)) /\ SrvT' = rmChild(SrvT, Next1(r))
    BY <1>2, DropIs DEF DropChild, Disturbs, ReqGoes
  <2>2. Still(q) /\ StillReq(q)
    BY <2>1 DEF Still, StillInv
  <2>3. ASSUME req[q].pc \in {"send", "drop"} PROVE SrvT' = SrvT
    BY <2>1, <2>3 DEF Contacting, Still
  <2>4. ASSUME req[q].pc = "drop"
        PROVE  At(children'[Kinds(req[q].peer)], Next1(q)) =
                 EntryAt(Kinds(req[q].peer), Next1(q))
    <3>1. CASE children' = children
      BY <3>1 DEF EntryAt
    <3>2. CASE Undefine(Kinds(req[r].peer), Next1(r)) /\ SrvT' = rmChild(SrvT, Next1(r))
      <4>1. PICK k \in Kind, id \in Nat : k = Kinds(req[r].peer) /\ id = Next1(r)
        BY <1>1, <1>2, DropIs, NextOne, KindsIs
      <4>2. rmChild(SrvT, id) = SrvT /\ Undefine(k, id)
        BY <2>3, <2>4, <3>2, <4>1
      <4>3. \A s : ~Has(SrvT, s, id)
        BY <1>1, <4>2, RmChildSame DEF TableGood
      <4>4. /\ Next1(q) # id /\ Next1(q) \in Nat /\ Kinds(req[q].peer) \in Kind
        BY <1>1, <2>2, <2>4, <4>3, CopiedIs DEF Kinds, Kind
      <4> QED
        BY <1>1, <4>2, <4>4, UndefineIs DEF EntryAt
    <3> QED
      BY <2>1, <3>1, <3>2
  <2> QED
    BY <1>1, <2>1, <2>2, <2>3, <2>4, StillIdle DEF KidSame
<1>3. CASE ~DropChild(r)
  <2>1. SrvT' = SrvT /\ children' = children /\ disturbed' = disturbed
        /\ early \subseteq early'
    BY <1>3, Zenon DEF Serving, submit_local, findServer, Contact, UnknownChild,
       PingFails, SendFails, CountChildren, Wake, Finish, agentVars, historyVars, listVars, tableVars, envVars
  <2>2. req'[q] = req[q] /\ \A c, st : <<q, c, st>> \in calls' => <<q, c, st>> \in calls
    <3>1. CASE Contact(r)
      <4>1. req[r].todo # <<>> /\ ChildOf(Next1(r)) # None
        BY <1>1, <3>1, ContactIs
      <4>2. ChildOf(Next1(r)) \in Child
        BY <1>1, <4>1, ChildOfIs, NextOne
      <4>3. PICK d \in Child : d = ChildOf(Next1(r))
        BY <4>2
      <4>4. calls' = calls \cup {<<r, d, "child">>} /\ req'[q] = req[q]
        BY <1>1, <3>1, <4>3, ContactIs DEF ReqGoes
      <4> QED
        BY <4>4
    <3>2. CASE \/ submit_local(r) \/ UnknownChild(r) \/ PingFails(r) \/ SendFails(r)
               \/ Wake(r) \/ Finish(r)
      BY <1>1, <3>2, SubmitIs, UnknownIs, FailureIs, PingIs, WakeIs, FinishIs DEF ReqGoes
    <3>3. CASE findServer(r)
      BY <1>1, <3>3, FindIs DEF ReqGoes
    <3>4. CASE CountChildren(r)
      BY <1>1, <3>4, CountIs DEF ReqGoes
    <3> QED
      BY <1>3, <3>1, <3>2, <3>3, <3>4 DEF Serving
  <2>3. Still(q) /\ StillReq(q)
    BY <2>1 DEF Still, StillInv
  <2> QED
    BY <1>1, <2>1, <2>2, <2>3, StillIdle DEF KidSame, EntryAt
<1> QED
  BY <1>2, <1>3

\* The rest of an array that has each element once.
LEMMA TailIs ==
  ASSUME NEW S, NEW s \in Seq(S), s # <<>>, OnceEach(s)
  PROVE  /\ Tail(s) \in Seq(S) /\ OnceEach(Tail(s)) /\ Head(s) \in ToSet(s)
         /\ ToSet(Tail(s)) = ToSet(s) \ {Head(s)}
<1>1. Len(s) \in Nat /\ Len(s) # 0 /\ Head(s) = s[1] /\ 1 \in 1 .. Len(s)
  OBVIOUS
<1>2. Tail(s) = [j \in 1 .. Len(s) - 1 |-> s[j + 1]]
  <2>1. /\ Tail(s) \in Seq(S) /\ Len(Tail(s)) = Len(s) - 1
        /\ \A j \in 1 .. Len(s) - 1 : Tail(s)[j] = s[j + 1]
    BY <1>1
  <2>2. PICK t \in Seq(S) : t = Tail(s)
    BY <2>1
  <2>3. t = [j \in 1 .. Len(t) |-> t[j]]
    OBVIOUS
  <2> QED
    BY <2>1, <2>2, <2>3
<1>3. \A j \in 1 .. Len(s) - 1 : ~ (j < 1)
  BY <1>1
<1>4. Tail(s) = Shifted(s, 1)
  BY <1>2, <1>3 DEF Shifted
<1>5. 1 \in 1 .. Len(s) + 1 /\ 1 <= Len(s)
  BY <1>1
<1>6. Shifted(s, 1) \in Seq(S)
  BY <1>5, ShiftedIs
<1>7. OnceEach(Shifted(s, 1)) /\ ToSet(Shifted(s, 1)) = ToSet(s) \ {s[1]}
  BY <1>5, ShiftedElements
<1>8. s[1] \in ToSet(s)
  BY <1>1, Elements
<1> QED
  BY <1>1, <1>4, <1>6, <1>7, <1>8

\* The next child to be contacted is a subscribed one that has not been.
LEMMA NextIs ==
  ASSUME KidInv, TableInv, VectInv, ~crashed, ReqBase, NEW r \in ReqID, StillReq(r),
         req[r].pc \in {"send", "drop"}, req[r].todo # <<>>
  PROVE  /\ OnceEach(Tail(req[r].todo)) /\ Next1(r) \in Copied(r)
         /\ ToSet(Tail(req[r].todo)) = ToSet(req[r].todo) \ {Next1(r)}
         /\ Next1(r) \in ToSet(req[r].todo)
         /\ \A c \in req[r].contacted : kid[c].id # Next1(r)
         /\ ChildOf(Next1(r)) # None => kid[ChildOf(Next1(r))].id = Next1(r)
<1>1. /\ req[r].todo \in Seq(Ids) /\ OnceEach(req[r].todo)
      /\ ToSet(req[r].todo) \subseteq Copied(r)
      /\ \A c \in req[r].contacted : kid[c].id \in Copied(r) \ ToSet(req[r].todo)
  BY ReqTyped DEF ReqBase, StillReq, SendInv
<1>2. /\ OnceEach(Tail(req[r].todo)) /\ Next1(r) \in ToSet(req[r].todo)
      /\ ToSet(Tail(req[r].todo)) = ToSet(req[r].todo) \ {Next1(r)}
  BY <1>1, TailIs DEF Next1
<1>3. Next1(r) \in Copied(r) /\ \A c \in req[r].contacted : kid[c].id # Next1(r)
  BY <1>1, <1>2
<1>4. PICK s : Has(SrvT, s, Next1(r))
  BY <1>3, CopiedIs
<1>5. PICK d \in Child : kid[d].id = Next1(r)
  BY <1>4 DEF TableInv, ListedOffer, OffersAs
<1>6. Next1(r) \in Nat /\ VectTypes
  BY <1>3, CopiedIs DEF VectInv
<1>7. ASSUME ChildOf(Next1(r)) # None PROVE ChildOf(Next1(r)) = d
  <2>1. PICK k \in Kind : EntryAt(k, Next1(r)) = ChildOf(Next1(r))
    BY <1>6, <1>7, ChildOfIs
  <2>2. EntryAt(k, kid[d].id) \in {None, d}
    BY <1>5, <1>6 DEF VectInv, OwnEntries
  <2> QED
    BY <1>5, <1>7, <2>1, <2>2
<1> QED
  BY <1>2, <1>3, <1>5, <1>7

\* Each child is another number of the copied entry, so the count of that
\* entry is no less than their number.
LEMMA ContactedBound ==
  ASSUME KidInv, TableInv, ~crashed, ReqBase, NEW r \in ReqID, StillReq(r),
         req[r].pc \in {"send", "drop"}
  PROVE  /\ IsFiniteSet(req[r].contacted)
         /\ Cardinality(req[r].contacted) <= Len(SrvT[req[r].slot].children)
<1> DEFINE co == req[r].contacted
           ch == SrvT[req[r].slot].children
           f == [c \in co |-> CHOOSE i \in 1 .. Len(ch) : ch[i] = kid[c].id]
<1>1. /\ co \subseteq Child /\ \A c \in co : kid[c].id \in ToSet(ch) /\ kid[c].id \in Nat
      /\ req[r].slot \in 1 .. Len(SrvT) /\ GoodTable(SrvT)
  BY CopiedIs, ReqTyped DEF ReqBase, Copied, StillReq, SendInv, TableInv, TableGood
<1>2. ch \in Seq(Ids)
  <2>1. PICK i \in 1 .. Len(SrvT) : i = req[r].slot
    BY <1>1
  <2> QED
    BY <1>1, <2>1, EntryIs
<1>3. Len(ch) \in Nat
  BY <1>2
<1>4. IsFiniteSet(co)
  BY <1>1, Constants, FS_Subset
<1> HIDE DEF co, ch
<1>5. \A c \in co : \E i \in 1 .. Len(ch) : ch[i] = kid[c].id
  BY <1>1, <1>2, Elements
<1>6. \A c \in co : f[c] \in 1 .. Len(ch) /\ ch[f[c]] = kid[c].id
  BY <1>5
<1>7. f \in [co -> 1 .. Len(ch)]
  BY <1>6
<1>8. \A c, d \in co : f[c] = f[d] => c = d
  <2> SUFFICES ASSUME NEW c \in co, NEW d \in co, f[c] = f[d] PROVE c = d
    OBVIOUS
  <2>1. kid[c].id = kid[d].id /\ c \in Child /\ d \in Child /\ kid[c].id >= 0
    BY <1>1, <1>6
  <2> QED
    BY <2>1 DEF KidInv
<1> HIDE DEF f
<1>9. f \in Injection(co, 1 .. Len(ch))
  BY <1>7, <1>8 DEF Injection, IsInjective
<1>10. IsFiniteSet(1 .. Len(ch)) /\ Cardinality(1 .. Len(ch)) = Len(ch)
  <2>1. PICK n \in Nat : n = Len(ch)
    BY <1>3
  <2>2. IsFiniteSet(1 .. n) /\ Cardinality(1 .. n) = n
    BY UpTo
  <2> QED
    BY <2>1, <2>2, Zenon
<1>11. Cardinality(co) <= Cardinality(1 .. Len(ch))
  BY <1>9, <1>10, FS_Injection
<1> QED
  BY <1>4, <1>10, <1>11 DEF co, ch

\* submit_local() and findServer() leave a request fresh, or with its copy.
LEMMA StillFound ==
  ASSUME KidInv, TableInv, ReqBase, NEW r \in ReqID, StillReq(r),
         submit_local(r) \/ findServer(r)
  PROVE  StillReq(r)'
<1>1. ReqTypes /\ TableGood /\ GoodTable(SrvT)
  BY DEF ReqBase, TableInv, TableGood
<1>2. calls' = calls /\ SrvT' = SrvT /\ req[r].pc \in {"idle", "chosen"}
  BY DEF submit_local, findServer, agentVars, historyVars, tableVars
<1>3. /\ CallsInv(r) /\ req[r].contacted = {} /\ req[r].responses = {}
  BY <1>2 DEF StillReq, ReqBase, FreshReq
<1>4. ASSUME NEW p \in {"chosen", "done", "returned", "thrown"},
             ReqGoes(r, p, req[r].todo, req[r].slot, req[r].peer, req[r].contacted,
                     req[r].nbWaited, req[r].responses, req[r].signalled)
      PROVE  StillReq(r)'
  BY <1>2, <1>3, <1>4, StillOf DEF CallsInv
<1>5. ASSUME NEW slot \in 1 .. Len(SrvT),
             ReqGoes(r, "send", SrvT[slot].children, slot, req[r].peer,
                     req[r].contacted, req[r].nbWaited, req[r].responses,
                     req[r].signalled)
      PROVE  StillReq(r)'
  <2>1. OnceEach(SrvT[slot].children)
    BY <1>1, EntryIs
  <2> QED
    BY <1>2, <1>3, <1>5, <2>1, StillOf DEF CallsInv
<1>6. CASE submit_local(r)
  BY <1>1, <1>4, <1>6, SubmitIs
<1>7. CASE findServer(r)
  BY <1>1, <1>4, <1>5, <1>7, FindIs
<1> QED
  BY <1>6, <1>7

\* sendRequest() calls a child once.
LEMMA StillContacted ==
  ASSUME KidInv, TableInv, VectInv, ReqBase, NEW r \in ReqID, StillReq(r), Contact(r)
  PROVE  StillReq(r)'
<1> DEFINE c == ChildOf(Next1(r))
           td == Tail(req[r].todo)
<1>1. ReqTypes /\ VectTypes
  BY DEF ReqBase, VectInv
<1>2. /\ req[r].pc = "send" /\ req[r].todo # <<>> /\ c # None
      /\ calls' = calls \cup {<<r, c, "child">>}
  BY <1>1, ContactIs
<1>3. /\ SrvT' = SrvT /\ kid' = kid /\ ~crashed
  BY DEF Contact, agentVars, historyVars, tableVars
<1>4. c \in Child
  BY <1>1, <1>2, ChildOfIs, NextOne
<1>5. ReqGoes(r, "send", td, req[r].slot, req[r].peer, req[r].contacted \cup {c},
              req[r].nbWaited, req[r].responses, req[r].signalled)
  BY <1>1, <1>4, ContactIs
<1>6. /\ OnceEach(td) /\ Next1(r) \in Copied(r) /\ kid[c].id = Next1(r)
      /\ ToSet(td) = ToSet(req[r].todo) \ {Next1(r)}
      /\ \A d \in req[r].contacted : kid[d].id # Next1(r)
  BY <1>2, <1>3, NextIs
<1>7. /\ req[r].slot \in 1 .. Len(SrvT) /\ req[r].responses = {} /\ CallsInv(r)
      /\ ToSet(req[r].todo) \subseteq Copied(r)
      /\ \A d \in req[r].contacted : kid[d].id \in Copied(r) \ ToSet(req[r].todo)
  BY <1>2 DEF StillReq, SendInv
<1> HIDE DEF c, td
<1>8. c \notin req[r].contacted
  BY <1>6
<1>9. \A d, st : <<r, d, st>> \in calls' =>
        <<r, d, st>> \in calls \/ (d = c /\ st = "child")
  BY <1>2
<1>10. \A d, st : <<r, d, st>> \in calls => d \in req[r].contacted
  BY <1>7 DEF CallsInv
<1>11. \A d, st : <<r, d, st>> \in calls' => d \in req[r].contacted \cup {c}
  BY <1>9, <1>10
<1>12. \A d, st, st2 : <<r, d, st>> \in calls' /\ <<r, d, st2>> \in calls' => st = st2
  BY <1>7, <1>8, <1>9, <1>10 DEF CallsInv
<1>13. /\ ToSet(td) \subseteq ToSet(SrvT'[req[r].slot].children)
       /\ \A d \in req[r].contacted \cup {c} :
            kid'[d].id \in ToSet(SrvT'[req[r].slot].children) \ ToSet(td)
  BY <1>3, <1>6, <1>7 DEF Copied
<1>14. req[r].slot \in 1 .. Len(SrvT')
  BY <1>3, <1>7
<1>15. ReqGoes(r, "send", td, req[r].slot, req[r].peer, req[r].contacted \cup {c},
               req[r].nbWaited, {}, req[r].signalled)
  BY <1>5, <1>7
<1>16. OnceEach(td)
  BY <1>6
<1> QED
  BY <1>11, <1>12, <1>13, <1>14, <1>15, <1>16, StillSends

\* A child that is not found is skipped, and one that does not answer is to be
\* dropped: its entry is the one that was found.
LEMMA StillFailed ==
  ASSUME KidInv, TableInv, VectInv, ReqBase, NEW r \in ReqID, StillReq(r),
         UnknownChild(r) \/ PingFails(r) \/ SendFails(r)
  PROVE  StillReq(r)'
<1>1. ReqTypes /\ VectTypes
  BY DEF ReqBase, VectInv
<1>2. /\ req[r].pc = "send" /\ req[r].todo # <<>> /\ calls' = calls
  BY <1>1, UnknownIs, PingIs, FailureIs
<1>3. /\ SrvT' = SrvT /\ kid' = kid /\ ~crashed /\ children' = children
  BY DEF UnknownChild, PingFails, SendFails, agentVars, historyVars, tableVars, listVars
<1>4. /\ OnceEach(Tail(req[r].todo))
      /\ ToSet(Tail(req[r].todo)) = ToSet(req[r].todo) \ {Next1(r)}
      /\ Next1(r) \in Nat
  BY <1>1, <1>2, <1>3, NextIs, NextOne
<1>5. /\ req[r].slot \in 1 .. Len(SrvT) /\ req[r].responses = {} /\ CallsInv(r)
      /\ OnceEach(req[r].todo) /\ ToSet(req[r].todo) \subseteq Copied(r)
      /\ \A d \in req[r].contacted : kid[d].id \in Copied(r) \ ToSet(req[r].todo)
  BY <1>2 DEF StillReq, SendInv
<1>8. /\ \A d, st : <<r, d, st>> \in calls' => d \in req[r].contacted
      /\ \A d, st, st2 : <<r, d, st>> \in calls' /\ <<r, d, st2>> \in calls' => st = st2
  BY <1>2, <1>5 DEF CallsInv
<1>6. CASE UnknownChild(r) \/ SendFails(r)
  <2>1. ReqGoes(r, "send", Tail(req[r].todo), req[r].slot, req[r].peer,
                req[r].contacted, req[r].nbWaited, {}, req[r].signalled)
    BY <1>1, <1>5, <1>6, UnknownIs, FailureIs
  <2>2. /\ ToSet(Tail(req[r].todo)) \subseteq ToSet(SrvT'[req[r].slot].children)
        /\ \A d \in req[r].contacted : kid'[d].id \in
             ToSet(SrvT'[req[r].slot].children) \ ToSet(Tail(req[r].todo))
    BY <1>3, <1>4, <1>5 DEF Copied
  <2>3. req[r].slot \in 1 .. Len(SrvT')
    BY <1>3, <1>5
  <2> QED
    BY <1>4, <1>8, <2>1, <2>2, <2>3, StillSends
<1>7. CASE PingFails(r)
  <2>1. /\ ChildOf(Next1(r)) \in Child
        /\ ReqGoes(r, "drop", req[r].todo, req[r].slot, ChildOf(Next1(r)),
              req[r].contacted, req[r].nbWaited, {}, req[r].signalled)
    BY <1>1, <1>5, <1>7, PingIs
  <2>2. /\ ToSet(req[r].todo) \subseteq ToSet(SrvT'[req[r].slot].children)
        /\ \A d \in req[r].contacted : kid'[d].id \in
             ToSet(SrvT'[req[r].slot].children) \ ToSet(req[r].todo)
    BY <1>3, <1>5 DEF Copied
  <2>3. req[r].slot \in 1 .. Len(SrvT')
    BY <1>3, <1>5
  <2>4. At(children'[Kinds(ChildOf(Next1(r)))], Head(req[r].todo)) = ChildOf(Next1(r))
    <3>1. ChildOf(Next1(r)) # None
      BY <2>1, Constants
    <3>2. PICK k \in Kind : EntryAt(k, Next1(r)) = ChildOf(Next1(r))
      BY <1>1, <1>4, <3>1, ChildOfIs
    <3>3. Kinds(ChildOf(Next1(r))) = k
      BY <1>4, <3>1, <3>2 DEF VectInv, KindEntries
    <3> QED
      BY <1>3, <3>2, <3>3 DEF EntryAt, Next1
  <2> QED
    BY <1>5, <1>8, <2>1, <2>2, <2>3, <2>4, StillSends
<1> QED
  BY <1>6, <1>7

\* The child that is dropped leaves the entry that was copied too.
LEMMA StillDropped ==
  ASSUME KidInv, TableInv, VectInv, ReqBase, NEW r \in ReqID, StillReq(r), DropChild(r)
  PROVE  StillReq(r)'
<1>1. /\ req[r].pc = "drop" /\ req[r].todo # <<>> /\ calls' = calls
      /\ ReqGoes(r, "send", Tail(req[r].todo), req[r].slot, req[r].peer,
                 req[r].contacted, req[r].nbWaited, req[r].responses, req[r].signalled)
  BY DropIs
<1>2. /\ kid' = kid /\ ~crashed
      /\ SrvT' = SrvT \/ SrvT' = rmChild(SrvT, Next1(r))
  BY DEF DropChild
<1>3. /\ OnceEach(Tail(req[r].todo))
      /\ ToSet(Tail(req[r].todo)) = ToSet(req[r].todo) \ {Next1(r)}
      /\ \A d \in req[r].contacted : kid[d].id # Next1(r)
  BY <1>1, <1>2, NextIs
<1>4. /\ req[r].slot \in 1 .. Len(SrvT) /\ req[r].responses = {} /\ CallsInv(r)
      /\ ToSet(req[r].todo) \subseteq Copied(r)
      /\ \A d \in req[r].contacted : kid[d].id \in Copied(r) \ ToSet(req[r].todo)
  BY <1>1 DEF StillReq, SendInv
<1>5. PICK slot \in 1 .. Len(SrvT) : slot = req[r].slot
  BY <1>4
<1>6. slot \in 1 .. Len(SrvT') /\ Copied(r) \ {Next1(r)} \subseteq ToSet(SrvT'[slot].children)
  <2>1. CASE SrvT' = SrvT
    BY <1>5, <2>1 DEF Copied
  <2>2. CASE SrvT' = rmChild(SrvT, Next1(r))
    <3>1. /\ Len(rmChild(SrvT, Next1(r))) = Len(SrvT)
          /\ ToSet(rmChild(SrvT, Next1(r))[slot].children) =
               ToSet(SrvT[slot].children) \ {Next1(r)}
      <4>1. GoodTable(SrvT)
        BY DEF TableInv, TableGood
      <4>2. /\ Len(rmChild(SrvT, Next1(r))) = Len(SrvT)
            /\ \A i \in 1 .. Len(SrvT) :
                 ToSet(rmChild(SrvT, Next1(r))[i].children) =
                   ToSet(SrvT[i].children) \ {Next1(r)}
        BY <4>1, RmChildIs
      <4> QED
        BY <1>5, <4>2
    <3> QED
      BY <1>5, <2>2, <3>1 DEF Copied
  <2> QED
    BY <1>2, <2>1, <2>2
<1>7. /\ \A d, st : <<r, d, st>> \in calls' => d \in req[r].contacted
      /\ \A d, st, st2 : <<r, d, st>> \in calls' /\ <<r, d, st2>> \in calls' => st = st2
  BY <1>1, <1>4 DEF CallsInv
<1>8. /\ ToSet(Tail(req[r].todo)) \subseteq ToSet(SrvT'[slot].children)
      /\ \A d \in req[r].contacted : kid'[d].id \in
           ToSet(SrvT'[slot].children) \ ToSet(Tail(req[r].todo))
  BY <1>2, <1>3, <1>4, <1>6
<1>9. ReqGoes(r, "send", Tail(req[r].todo), slot, req[r].peer,
              req[r].contacted, req[r].nbWaited, {}, req[r].signalled)
  BY <1>1, <1>4, <1>5
<1> QED
  BY <1>3, <1>6, <1>7, <1>8, <1>9, StillSends

\* As many responses are to come as the count says, or more than that are
\* waited for.
LEMMA StillCounted ==
  ASSUME KidInv, TableInv, ReqBase, NEW r \in ReqID, StillReq(r), CountChildren(r)
  PROVE  StillReq(r)'
<1> DEFINE co == req[r].contacted
<1>1. TableGood /\ ~crashed
  BY DEF TableInv, CountChildren
<1>2. req[r].pc = "send" /\ calls' = calls
  BY <1>1, CountIs
<1>3. /\ req[r].slot \in 1 .. Len(SrvT) /\ req[r].responses = {} /\ CallsInv(r)
      /\ ~req[r].signalled
  BY <1>2 DEF StillReq, SendInv, ReqBase, NothingYet
<1>4. PICK n \in Nat :
        /\ ReqGoes(r, IF n = 0 THEN "returned" ELSE "wait", req[r].todo,
              req[r].slot, req[r].peer, req[r].contacted, n, req[r].responses,
              req[r].signalled)
        /\ n >= Len(SrvT[req[r].slot].children)
  BY <1>1, <1>3, CountIs
<1>5. /\ IsFiniteSet(co) /\ Cardinality(co) <= Len(SrvT[req[r].slot].children)
      /\ Cardinality(co) \in Nat
  BY <1>1, <1>2, ContactedBound, FS_CardinalityType
<1>6. Len(SrvT[req[r].slot].children) \in Nat
  <2>1. PICK i \in 1 .. Len(SrvT) : i = req[r].slot
    BY <1>3
  <2>2. SrvT[i].children \in Seq(Ids)
    BY <1>1, <2>1, EntryIs DEF TableGood
  <2> QED
    BY <2>1, <2>2
<1>7. n >= Cardinality(co)
  BY <1>4, <1>5, <1>6
<1>8. n = 0 => co = {}
  <2>1. n = 0 => Cardinality(co) = 0
    BY <1>5, <1>7
  <2> QED
    BY <1>5, <2>1, FS_EmptySet
<1>9. co \ {} = co
  OBVIOUS
<1>10. /\ \A c, st : <<r, c, st>> \in calls' => c \in co \ {}
       /\ \A c, st, st2 : <<r, c, st>> \in calls' /\ <<r, c, st2>> \in calls' => st = st2
  BY <1>2, <1>3 DEF CallsInv
<1>11. PICK p : p = (IF n = 0 THEN "returned" ELSE "wait")
  OBVIOUS
<1>12. /\ p \in {"returned", "wait"} /\ (p = "returned" => co = {})
  BY <1>8, <1>11
<1>13. ReqGoes(r, p, req[r].todo, req[r].slot, req[r].peer, co, n, {}, req[r].signalled)
  BY <1>3, <1>4, <1>11
<1> HIDE DEF co
<1>14. n >= Cardinality(co \ {}) /\ {} \subseteq co
  BY <1>7, <1>9
<1>15. /\ p \notin {"send", "drop"} /\ p # "drop"
       /\ p = "wait" => n >= Cardinality(co \ {}) /\ (req[r].signalled => n = 0)
       /\ p \in {"returned", "done"} => {} = co
  BY <1>3, <1>12, <1>14
<1> QED
  BY <1>10, <1>13, <1>14, <1>15, StillOf

\* A thread that was signalled has all the responses.
LEMMA StillEnded ==
  ASSUME ReqBase, NEW r \in ReqID, StillReq(r), Still(r)', Wake(r) \/ Finish(r)
  PROVE  StillReq(r)'
<1> DEFINE co == req[r].contacted
           rs == req[r].responses
<1>1. /\ ReqTypes /\ co \subseteq Child /\ rs \subseteq co /\ CallsInv(r)
  BY ReqTyped DEF ReqBase, StillReq, CallsInv
<1>2. IsFiniteSet(co \ rs)
  BY <1>1, Constants, FS_Subset
<1>3. calls' = calls
  BY <1>1, WakeIs, FinishIs
<1>4. rs = co
  <2>1. CASE Wake(r)
    <3>1. req[r].pc = "wait" /\ (req[r].signalled \/ r \in early')
      BY <1>1, <2>1, WakeIs
    <3>2. req[r].nbWaited = 0 /\ req[r].nbWaited >= Cardinality(co \ rs)
      BY <3>1 DEF Still, StillReq, WaitInv
    <3>3. Cardinality(co \ rs) = 0
      BY <1>2, <3>2, FS_CardinalityType
    <3>4. co \ rs = {}
      BY <1>2, <3>3, FS_EmptySet
    <3> QED
      BY <1>1, <3>4
  <2>2. CASE Finish(r)
    BY <1>1, <2>2, FinishIs DEF StillReq, WaitInv
  <2> QED
    BY <2>1, <2>2
<1>5. \E p \in {"returned", "done"} :
        ReqGoes(r, p, req[r].todo, req[r].slot, req[r].peer,
                co, req[r].nbWaited, rs, req[r].signalled)
  BY <1>1, WakeIs, FinishIs
<1>6. /\ \A c, st : <<r, c, st>> \in calls' => c \in co \ rs
      /\ \A c, st, st2 : <<r, c, st>> \in calls' /\ <<r, c, st2>> \in calls' => st = st2
  BY <1>1, <1>3 DEF CallsInv
<1> HIDE DEF co, rs
<1> QED
  BY <1>1, <1>4, <1>5, <1>6, StillOf

\* A response on its way is still one call.
LEMMA StillMoved ==
  ASSUME NEW q \in ReqID, StillReq(q), NEW r, NEW c, NEW st, NEW st2,
         calls' \subseteq (calls \ {<<r, c, st>>}) \cup {<<r, c, st2>>},
         <<r, c, st>> \in calls,
         UNCHANGED <<req, SrvT, kid, children, shrunk>>
  PROVE  StillReq(q)'
<1>1. CallsInv(q)'
  <2>1. CASE q # r
    <3>1. \A d, s : <<q, d, s>> \in calls' => <<q, d, s>> \in calls
      BY <2>1
    <3> QED
      BY <3>1 DEF StillReq, CallsInv
  <2>2. CASE q = r
    <3>1. c \in req[q].contacted \ req[q].responses
      BY <2>2 DEF StillReq, CallsInv
    <3>2. \A d, s : <<q, d, s>> \in calls' =>
            (<<q, d, s>> \in calls /\ d # c) \/ (d = c /\ s = st2)
      BY <2>2 DEF StillReq, CallsInv
    <3> QED
      BY <3>1, <3>2 DEF StillReq, CallsInv
  <2> QED
    BY <2>1, <2>2
<1>2. SendInv(q)' /\ DropInv(q)' /\ WaitInv(q)'
  BY DEF StillReq, SendInv, Copied, DropInv, EntryAt, Next1, WaitInv
<1> QED
  BY <1>1, <1>2 DEF StillReq

\* A response that is stored is one of those that are to come.
LEMMA StillAnswered ==
  ASSUME ReqBase, NEW r \in ReqID, NEW c \in Child, StillReq(r), addResponse(r, c)
  PROVE  /\ StillReq(r)' /\ ~crashed'
<1> DEFINE co == req[r].contacted
           rs == req[r].responses
           nw == req[r].nbWaited
<1>1. ReqTypes /\ co \subseteq Child /\ nw \in Nat /\ FreshReq(r)
  BY ReqTyped DEF ReqBase
<1>2. /\ <<r, c, "lock">> \in calls /\ calls' = calls \ {<<r, c, "lock">>}
      /\ req[r].pc \notin {"send", "drop"}
  BY <1>1, ResponseIs
<1>3. /\ c \in co \ rs /\ rs \subseteq co
      /\ \A d, st : <<r, d, st>> \in calls => d \in co \ rs
      /\ \A d, st, st2 : <<r, d, st>> \in calls /\ <<r, d, st2>> \in calls => st = st2
  BY <1>2 DEF StillReq, CallsInv
<1>4. IsFiniteSet(co \ rs)
  BY <1>1, Constants, FS_Subset
<1>5. co \ (rs \cup {c}) = (co \ rs) \ {c}
  OBVIOUS
<1>6. /\ Cardinality(co \ rs) \in Nat /\ Cardinality((co \ rs) \ {c}) \in Nat
      /\ Cardinality((co \ rs) \ {c}) = Cardinality(co \ rs) - 1
  <2>1. Cardinality((co \ rs) \ {c}) = Cardinality(co \ rs) - 1
    BY <1>3, <1>4, FS_RemoveElement
  <2>2. IsFiniteSet((co \ rs) \ {c})
    BY <1>4, FS_Subset
  <2> QED
    BY <1>4, <2>1, <2>2, FS_CardinalityType
<1>7. req[r].pc = "wait"
  <2>1. req[r].pc \notin {"idle", "chosen", "thrown"}
    BY <1>1, <1>3 DEF FreshReq
  <2>2. req[r].pc \notin {"returned", "done"}
    BY <1>3 DEF StillReq, WaitInv
  <2> QED
    BY <1>1, <1>2, <2>1, <2>2, ReqTyped DEF ReqPlace
<1>8. nw >= Cardinality(co \ rs)
  BY <1>7 DEF StillReq, WaitInv
<1>9. nw # 0 /\ nw - 1 >= Cardinality((co \ rs) \ {c})
  BY <1>1, <1>6, <1>8
<1>10. /\ ~crashed'
       /\ ReqGoes(r, req[r].pc, req[r].todo, req[r].slot, req[r].peer, co,
                  nw - 1, rs \cup {c}, nw = 1)
  BY <1>1, <1>7, <1>9, ResponseIs
<1>11. /\ rs \cup {c} \subseteq co
       /\ \A d, st : <<r, d, st>> \in calls' => d \in co \ (rs \cup {c})
       /\ \A d, st, st2 : <<r, d, st>> \in calls' /\ <<r, d, st2>> \in calls' => st = st2
  BY <1>2, <1>3
<1>12. /\ req[r].pc \notin {"send", "drop", "returned", "done"} /\ req[r].pc # "drop"
       /\ nw - 1 >= Cardinality(co \ (rs \cup {c}))
       /\ (nw = 1) => nw - 1 = 0
  <2>1. Cardinality(co \ (rs \cup {c})) = Cardinality((co \ rs) \ {c})
    BY <1>5, Zenon
  <2> HIDE DEF co, rs
  <2> QED
    BY <1>1, <1>7, <1>9, <2>1
<1> HIDE DEF co, rs, nw
<1>13. StillReq(r)'
  BY <1>10, <1>11, <1>12, StillOf
<1> QED
  BY <1>10, <1>13

\* Every step keeps the requests that are not disturbed.
LEMMA StillKept ==
  ASSUME KidInv, TableInv, VectInv, ReqBase, StillInv, Next
  PROVE  StillInv'
<1>1. ASSUME NEW r \in ReqID, Serving(r) PROVE StillInv'
  <2> SUFFICES ASSUME NEW q \in ReqID, Still(q)' PROVE StillReq(q)'
    BY DEF StillInv
  <2>1. CASE q # r
    BY <1>1, <2>1, StillOthers
  <2>2. CASE q = r
    <3>1. disturbed \subseteq disturbed' /\ early \subseteq early'
      BY <1>1 DEF Serving, submit_local, findServer, Contact, UnknownChild,
         PingFails, SendFails, DropChild, Disturbs, CountChildren, Wake, Finish, envVars
    <3>2. Still(r) /\ StillReq(r) /\ Still(r)'
      BY <2>2, <3>1 DEF Still, StillInv
    <3> QED
      BY <1>1, <2>2, <3>2, StillFound, StillContacted, StillFailed, StillDropped,
         StillCounted, StillEnded DEF Serving
  <2> QED
    BY <2>1, <2>2
<1>2. ASSUME NEW r \in ReqID, NEW c \in Child, Responding(r, c) PROVE StillInv'
  <2> SUFFICES ASSUME NEW q \in ReqID, Still(q)' PROVE StillReq(q)'
    BY DEF StillInv
  <2>1. /\ UNCHANGED <<SrvT, kid, children, shrunk, disturbed, early>>
    BY <1>2, AnswersKeepAgent DEF KidSame
  <2>2. StillReq(q)
    BY <2>1 DEF Still, StillInv
  <2>3. CASE Answer(r, c)
    <3>1. /\ <<r, c, "child">> \in calls /\ req' = req
          /\ calls' \subseteq (calls \ {<<r, c, "child">>}) \cup {<<r, c, "agent">>}
      BY <2>3 DEF Answer
    <3> QED
      BY <2>1, <2>2, <3>1, StillMoved
  <2>4. CASE getResponse(r, c)
    <3>1. /\ <<r, c, "agent">> \in calls /\ req' = req
          /\ calls' \subseteq (calls \ {<<r, c, "agent">>}) \cup {<<r, c, "lock">>}
      BY <2>4 DEF getResponse
    <3> QED
      BY <2>1, <2>2, <3>1, StillMoved
  <2>5. CASE addResponse(r, c) /\ q = r
    BY <2>2, <2>5, StillAnswered
  <2>6. CASE addResponse(r, c) /\ q # r
    <3>1. req'[q] = req[q] /\ calls' \subseteq calls
      BY <2>6, ResponseIs DEF ReqGoes, ReqBase
    <3> QED
      BY <2>1, <2>2, <3>1, StillIdle DEF EntryAt
  <2> QED
    BY <1>2, <2>3, <2>4, <2>5, <2>6 DEF Responding
<1>3. ASSUME NEW c \in Child, Die(c) PROVE StillInv'
  <2> SUFFICES ASSUME NEW q \in ReqID, Still(q)' PROVE StillReq(q)'
    BY DEF StillInv
  <2>1. /\ UNCHANGED <<SrvT, kid, children, shrunk, disturbed, early>>
    BY <1>3, AnswersKeepAgent DEF KidSame
  <2>2. StillReq(q) /\ req' = req /\ calls' \subseteq calls
    BY <1>3, <2>1 DEF Still, StillInv, Die
  <2> QED
    BY <2>1, <2>2, StillIdle DEF EntryAt
<1> QED
  BY <1>1, <1>2, <1>3, NextSplits, StillOfChild

-----------------------------------------------------------------------------
(* The counters of the vectors, and what kills the agent. *)

Quiet == disturbed \cup early \cup stale = {} /\ ~shrunk
Filled(k) == {x \in Ids : EntryAt(k, x) # None}

\* A counter is the number of entries.
CountInv ==
  ~crashed /\ Quiet => \A k \in Kind : nbChildren[k] = Cardinality(Filled(k))

\* A history never becomes shorter.
LEMMA HistoryStays ==
  ASSUME Next
  PROVE  /\ disturbed \subseteq disturbed' /\ early \subseteq early'
         /\ (shrunk => shrunk') /\ (confused => confused') /\ (crashed => crashed')
         /\ stale \subseteq stale'
<1>1. ASSUME NEW c \in Child, ChildAct(c), ChildRest
      PROVE  /\ disturbed \subseteq disturbed' /\ early' = early
             /\ (shrunk => shrunk') /\ (confused => confused') /\ ~crashed
             /\ stale \subseteq stale'
  <2>1. disturbed \subseteq disturbed' /\ early' = early
    BY <1>1 DEF ChildRest, Disturbs
  <2>2. CASE \/ TakeNumber(c) \/ ReadCounter(c) \/ FindEntry(c) \/ SetChild(c)
             \/ Subscribed(c) \/ ForgetChild(c)
    <3>1. shrunk' = shrunk /\ confused' = confused /\ stale' = stale
      BY <2>2, Zenon DEF TakeNumber, ReadCounter, FindEntry, SetChild, Subscribed,
         ForgetChild, historyVars
    <3>2. ~crashed
      BY <2>2, Zenon DEF TakeNumber, ReadCounter, FindEntry, SetChild, Subscribed, addServices,
         ForgetChild, Step
    <3> QED
      BY <2>1, <3>1, <3>2
  <2>3. CASE Resize(c)
    <3>1. /\ ~crashed /\ confused' = confused /\ (shrunk => shrunk')
          /\ stale \subseteq stale'
      BY <2>3 DEF Resize, Step
    <3> QED
      BY <2>1, <3>1
  <2>4. CASE AddService(c)
    <3>1. ~crashed /\ confused' = confused /\ shrunk' = shrunk /\ stale' = stale
      BY <2>4, Zenon DEF AddService, Change, historyVars
    <3> QED
      BY <2>1, <3>1
  <2>5. CASE childRemoveService(c) \/ childUnsubscribe(c)
    <3>1. ~crashed /\ (confused => confused') /\ shrunk' = shrunk /\ stale' = stale
      BY <2>5, Zenon DEF childRemoveService, childUnsubscribe, Change
    <3> QED
      BY <2>1, <3>1
  <2> QED
    BY <1>1, <2>2, <2>3, <2>4, <2>5 DEF ChildAct
<1>2. ASSUME NEW r \in ReqID, Serving(r)
      PROVE  disturbed \subseteq disturbed' /\ early \subseteq early'
  BY <1>2 DEF Serving, submit_local, findServer, Contact, UnknownChild,
     PingFails, SendFails, DropChild, Disturbs, CountChildren, Wake, Finish, envVars
<1> QED
  BY <1>1, <1>2, NextSplits, ServingKeepsKids, AnswersKeepAgent

\* The numbers are finitely many.
LEMMA FilledFinite == \A k : IsFiniteSet(Filled(k))
<1>1. 0 \in Int /\ MaxSubs - 1 \in Int
  BY Constants
<1>2. IsFiniteSet(Ids)
  BY <1>1, FS_Interval DEF Ids
<1> QED
  BY <1>2, FS_Subset DEF Filled

\* An entry that is there is undefined without a failure, and counted.
LEMMA UndefineCounts ==
  ASSUME VectTypes, NEW k \in Kind, NEW id \in Ids, EntryAt(k, id) # None,
         Undefine(k, id), \A j \in Kind : nbChildren[j] = Cardinality(Filled(j))
  PROVE  /\ ~crashed'
         /\ \A j \in Kind : nbChildren'[j] =
              Cardinality({x \in Ids : At(children'[j], x) # None})
<1>1. id \in Nat /\ \A x \in Ids : x \in Nat
  BY Constants DEF Ids
<1>0. /\ \A j \in Kind : \A x \in Nat :
           At(children'[j], x) = IF j = k /\ x = id THEN None ELSE EntryAt(j, x)
      /\ \A j \in Kind : j # k => nbChildren'[j] = nbChildren[j]
      /\ nbChildren'[k] = IF nbChildren[k] > 0 THEN nbChildren[k] - 1 ELSE nbChildren[k]
  BY <1>1, UndefineIs, Zenon DEF EntryAt
<1>2. /\ \A j \in Kind : \A x \in Ids :
           At(children'[j], x) = IF j = k /\ x = id THEN None ELSE EntryAt(j, x)
      /\ \A j \in Kind : j # k => nbChildren'[j] = nbChildren[j]
      /\ nbChildren'[k] = IF nbChildren[k] > 0 THEN nbChildren[k] - 1 ELSE nbChildren[k]
  BY <1>0, <1>1, Zenon
<1>2a. crashed' => id >= Len(children[k]) \/ nbChildren[k] = 0
  BY Zenon DEF Undefine
<1>3. id < Len(children[k]) /\ Len(children[k]) \in Nat
  BY VectorTyped DEF EntryAt, At
<1>4. IsFiniteSet(Filled(k)) /\ id \in Filled(k)
  BY FilledFinite DEF Filled
<1>5. /\ Cardinality(Filled(k)) \in Nat
      /\ Cardinality(Filled(k) \ {id}) = Cardinality(Filled(k)) - 1
      /\ Cardinality(Filled(k) \ {id}) \in Nat
  <2>1. IsFiniteSet(Filled(k) \ {id})
    BY <1>4, FS_Subset
  <2> QED
    BY <1>4, <2>1, FS_RemoveElement, FS_CardinalityType
<1>6. nbChildren[k] > 0 /\ nbChildren'[k] = Cardinality(Filled(k) \ {id})
  BY <1>2, <1>5
<1>7. {x \in Ids : At(children'[k], x) # None} = Filled(k) \ {id}
  BY <1>2 DEF Filled
<1>8. \A j \in Kind : j # k => {x \in Ids : At(children'[j], x) # None} = Filled(j)
  BY <1>2 DEF Filled
<1>9. ~crashed'
  BY <1>1, <1>2a, <1>3, <1>6
<1>10. ASSUME NEW j \in Kind
       PROVE  nbChildren'[j] = Cardinality({x \in Ids : At(children'[j], x) # None})
  <2>1. CASE j = k
    BY <1>6, <1>7, <2>1
  <2>2. CASE j # k
    BY <1>2, <1>8, <2>2
  <2> QED
    BY <2>1, <2>2
<1> QED
  BY <1>9, <1>10

\* A new entry is counted.
LEMMA SetCounts ==
  ASSUME KidInv, VectInv, ~shrunk, stale = {}, NEW c \in Child, SetChild(c),
         \A j \in Kind : nbChildren[j] = Cardinality(Filled(j))
  PROVE  /\ ~crashed'
         /\ \A j \in Kind : nbChildren'[j] =
              Cardinality({x \in Ids : At(children'[j], x) # None})
<1>1. kid[c].pc = "entry" /\ VectTypes /\ Kinds(c) \in Kind /\ c # None
  BY KindsIs, Constants DEF SetChild, Step, VectInv
<1>2. PICK k \in Kind, id \in Ids : k = Kinds(c) /\ id = kid[c].id
  BY <1>1, IdTyped DEF KidInv
<1>3. id < Len(children[k])
  BY <1>1, <1>2 DEF VectInv, RoomMade
<1>4. /\ ~crashed'
      /\ \A j \in Kind : \A x \in Nat : EntryAt(j, x)' =
           IF j = Kinds(c) /\ x = kid[c].id THEN c ELSE EntryAt(j, x)
      /\ \A j \in Kind : nbChildren'[j] =
           IF j = Kinds(c) THEN nbChildren[j] + 1 ELSE nbChildren[j]
  BY <1>1, <1>2, <1>3, SetChildIs
<1>5. \A x \in Ids : x \in Nat
  BY Constants DEF Ids
<1>6. \A j \in Kind : \A x \in Ids :
        At(children'[j], x) = IF j = k /\ x = id THEN c ELSE EntryAt(j, x)
  BY <1>2, <1>4, <1>5 DEF EntryAt
<1>7. id \notin Filled(k)
  BY <1>1, <1>2 DEF Filled, VectInv, NoEntryYet
<1>8. Cardinality(Filled(k) \cup {id}) = Cardinality(Filled(k)) + 1
  BY <1>7, FilledFinite, FS_AddElement
<1>9. {x \in Ids : At(children'[k], x) # None} = Filled(k) \cup {id}
  BY <1>1, <1>6 DEF Filled
<1>10. \A j \in Kind : j # k => {x \in Ids : At(children'[j], x) # None} = Filled(j)
  BY <1>6 DEF Filled
<1>11. ASSUME NEW j \in Kind
       PROVE  nbChildren'[j] = Cardinality({x \in Ids : At(children'[j], x) # None})
  <2>1. CASE j = k
    BY <1>2, <1>4, <1>8, <1>9, <2>1
  <2>2. CASE j # k
    BY <1>2, <1>4, <1>10, <2>2
  <2> QED
    BY <2>1, <2>2
<1> QED
  BY <1>4, <1>11

Counted == \A k \in Kind : nbChildren[k] = Cardinality(Filled(k))
CountedNext ==
  \A k \in Kind : nbChildren'[k] = Cardinality({x \in Ids : At(children'[k], x) # None})

\* It is enough to look at steps that leave the history quiet.
LEMMA CountStep ==
  ASSUME Next, ~crashed, CountInv,
         Quiet /\ Counted /\ Quiet' =>
           (crashed' => confused') /\ (~crashed' => CountedNext)
  PROVE  CountInv' /\ AgentDiesOnlyWhen'
<1>1. /\ disturbed \subseteq disturbed' /\ early \subseteq early' /\ (shrunk => shrunk')
      /\ stale \subseteq stale'
  BY HistoryStays
<1>2. Quiet' => Quiet
  BY <1>1 DEF Quiet
<1>3. Quiet' => Counted
  BY <1>2 DEF CountInv, Counted
<1>4. Quiet' => (crashed' => confused') /\ (~crashed' => CountedNext)
  BY <1>2, <1>3, Zenon
<1>5. CountInv'
  BY <1>4, Zenon DEF CountInv, CountedNext, Filled, EntryAt
<1>6. AgentDiesOnlyWhen'
  BY <1>4, Zenon DEF AgentDiesOnlyWhen, Quiet
<1> QED
  BY <1>5, <1>6

\* The same vectors, the same counters.
LEMMA CountSame ==
  ASSUME children' = children, nbChildren' = nbChildren, Counted
  PROVE  CountedNext
BY Zenon DEF Counted, CountedNext, Filled, EntryAt

\* A child's steps keep the counters.
LEMMA CountOfChild ==
  ASSUME KidInv, TableInv, VectInv, CountInv, NEW c \in Child, ChildAct(c), ChildRest,
         Next
  PROVE  CountInv' /\ AgentDiesOnlyWhen'
<1>1. ~crashed
  BY KidKeepsId
<1> SUFFICES ASSUME Quiet, Counted, Quiet'
             PROVE  (crashed' => confused') /\ (~crashed' => CountedNext)
  BY <1>1, CountStep
<1>2. TableGood /\ VectTypes /\ ~shrunk /\ ~shrunk' /\ stale = {}
  BY DEF TableInv, VectInv, Quiet
<1>3. CASE TakeNumber(c) \/ ReadCounter(c)
  <2>1. children' = children /\ nbChildren' = nbChildren /\ crashed' = crashed
    BY <1>3, Zenon DEF TakeNumber, ReadCounter, listVars
  <2> QED
    BY <1>1, <2>1, CountSame, Zenon
<1>3a. CASE FindEntry(c)
  <2>1. /\ children' = children /\ nbChildren' = nbChildren
        /\ crashed' => kid[c].id >= Len(children[Kinds(c)])
    BY <1>3a, Zenon DEF FindEntry, listVars
  <2>2. kid[c].id \in Ids /\ kid[c].pc = "resized"
    BY <1>3a, KidActs, IdTyped DEF KidInv
  <2>3. kid[c].id < Len(children[Kinds(c)]) /\ Kinds(c) \in Kind
    BY <1>2, <2>2, KindsIs DEF VectInv, RoomMade
  <2>4. kid[c].id \in Nat /\ Len(children[Kinds(c)]) \in Nat
    BY <1>2, <2>2, <2>3, VectorTyped, Constants DEF Ids
  <2>5. ~crashed'
    BY <2>1, <2>3, <2>4
  <2> QED
    BY <2>1, <2>5, CountSame
<1>4. CASE Resize(c)
  <2>1. crashed' = crashed
    BY <1>4, Zenon DEF Resize
  <2>2. nbChildren' = nbChildren /\ \A j \in Kind : \A x \in Nat :
          At(children'[j], x) = EntryAt(j, x)
    BY <1>2, <1>4, ResizeIs DEF EntryAt
  <2>3. \A x \in Ids : x \in Nat
    BY Constants DEF Ids
  <2>4. \A j \in Kind : {x \in Ids : At(children'[j], x) # None} = Filled(j)
    BY <2>2, <2>3 DEF Filled
  <2>5. CountedNext
    BY <2>2, <2>4, Zenon DEF Counted, CountedNext
  <2> QED
    BY <1>1, <2>1, <2>5, Zenon
<1>5. CASE SetChild(c)
  <2>1. ~crashed' /\ CountedNext
    BY <1>2, <1>5, SetCounts DEF Counted, CountedNext
  <2> QED
    BY <2>1
<1>6. CASE Subscribed(c)
  <2>1. /\ kid[c].pc = "set" /\ addServices(c, kid[c].profiles) /\ UNCHANGED confused
        /\ children' = children /\ nbChildren' = nbChildren
    BY <1>6, KidActs DEF Subscribed, listVars, historyVars
  <2>2. kid[c].id \in Ids /\ kid[c].profiles \in Seq(Offers)
    BY <2>1, IdTyped, KidTyped DEF KidInv
  <2>3. crashed' => confused
    BY <1>1, <1>2, <2>1, <2>2, AddsServices
  <2> QED
    BY <2>1, <2>3, CountSame
<1>7. CASE AddService(c)
  <2>1. PICK s \in Extra[c] \ ToSet(kid[c].profiles) :
          /\ kid[c].pc = "in" /\ addServices(c, <<s>>) /\ UNCHANGED confused
          /\ children' = children /\ nbChildren' = nbChildren
    BY <1>7 DEF AddService, Change, listVars, historyVars
  <2>2. s \in Offers /\ <<s>> \in Seq(Offers) /\ kid[c].id \in Ids
    BY <2>1, IdTyped, ExtraOffers, OneElement DEF KidInv
  <2>3. crashed' => confused
    BY <1>1, <1>2, <2>1, <2>2, AddsServices
  <2> QED
    BY <2>1, <2>3, CountSame
<1>8. CASE childRemoveService(c) \/ childUnsubscribe(c)
  <2>1. kid[c].profiles \in Seq(Offers) /\ OnceEach(kid[c].profiles)
    BY KidTyped DEF KidInv
  <2>2. \A s \in ToSet(kid[c].profiles) : s \in Offers
    BY <2>1, Elements
  <2>3. PICK ss \in Seq(Offers) :
          /\ OnceEach(ss) /\ RemoveAll(c, ss)
          /\ confused' = (confused \/ Unlisted(c, ss))
    BY <1>8, <2>1, <2>2, OneElement DEF childRemoveService, childUnsubscribe
  <2>4. children' = children /\ nbChildren' = nbChildren
    BY <1>8, Zenon DEF childRemoveService, childUnsubscribe, listVars
  <2>5. ~confused' => ~crashed'
    BY <1>1, <1>2, <2>3, RemovesServices
  <2> QED
    BY <2>4, <2>5, CountSame
<1>9. CASE ForgetChild(c)
  <2>1. kid[c].pc = "leaving"
    BY <1>2, <1>9, ForgetIs
  <2>2. kid[c].id \in Ids
    BY <2>1, IdTyped DEF KidInv
  <2>3. CASE children' = children /\ nbChildren' = nbChildren /\ crashed' = crashed
    BY <1>1, <2>3, CountSame, Zenon
  <2>4. ASSUME NEW k \in Kind, EntryAt(k, kid[c].id) # None, Undefine(k, kid[c].id)
        PROVE  ~crashed' /\ CountedNext
    BY <1>2, <2>2, <2>4, UndefineCounts DEF Counted, CountedNext
  <2> QED
    BY <1>2, <1>9, <2>3, <2>4, ForgetIs
<1> QED
  BY <1>3, <1>3a, <1>4, <1>5, <1>6, <1>7, <1>8, <1>9 DEF ChildAct

\* A request's steps keep them, and fail only in a confused table.
LEMMA CountOfServing ==
  ASSUME KidInv, TableInv, VectInv, ReqBase, StillInv, CountInv, Next,
         NEW r \in ReqID, Serving(r)
  PROVE  CountInv' /\ AgentDiesOnlyWhen'
<1>1. ~crashed /\ confused' = confused
  BY ServingKeepsKids
<1> SUFFICES ASSUME Quiet, Counted, Quiet'
             PROVE  (crashed' => confused') /\ (~crashed' => CountedNext)
  BY <1>1, CountStep
<1>2. TableGood /\ VectTypes /\ ~shrunk /\ StillReq(r) /\ ReqTypes
  BY DEF TableInv, VectInv, Quiet, StillInv, Still, ReqBase
<1>3. CASE DropChild(r)
  <2>1. req[r].pc = "drop" /\ req[r].peer \in Child /\ req[r].todo # <<>>
    BY <1>3, DropIs
  <2>2. PICK k \in Kind, id \in Ids : k = Kinds(req[r].peer) /\ id = Next1(r)
    BY <1>2, <2>1, ReqTyped, KindsIs DEF Next1
  <2>3. EntryAt(k, id) # None
    BY <1>2, <2>1, <2>2, Constants DEF StillReq, DropInv
  <2>4. \/ /\ \E i \in DOMAIN SrvT : Overruns(SrvT, i)
           /\ children' = children /\ nbChildren' = nbChildren
        \/ Undefine(k, id)
    BY <1>3, <2>2 DEF DropChild
  <2>5. ASSUME NEW i \in DOMAIN SrvT, Overruns(SrvT, i) PROVE confused
    <3>1. i \in 1 .. Len(SrvT)
      BY <1>2 DEF TableGood, GoodTable
    <3> QED
      BY <1>2, <2>5, <3>1, ExactIs DEF TableGood
  <2>6. CASE Undefine(k, id)
    BY <1>2, <2>3, <2>6, UndefineCounts DEF Counted, CountedNext
  <2> QED
    BY <1>1, <2>4, <2>5, <2>6, CountSame
<1>4. CASE findServer(r)
  <2>1. children' = children /\ nbChildren' = nbChildren
    BY <1>4, Zenon DEF findServer, listVars
  <2>2. crashed' => confused
    BY <1>2, <1>4, FindIs
  <2> QED
    BY <1>1, <2>1, <2>2, CountSame
<1>5. CASE CountChildren(r)
  <2>1. children' = children /\ nbChildren' = nbChildren
    BY <1>5, Zenon DEF CountChildren, listVars
  <2>2. req[r].slot \in 1 .. Len(SrvT)
    BY <1>2, <1>5, CountIs DEF StillReq, SendInv
  <2>3. ~crashed' \/ confused
    BY <1>2, <1>5, <2>2, CountIs
  <2> QED
    BY <1>1, <2>1, <2>3, CountSame
<1>6. CASE submit_local(r) \/ Contact(r) \/ UnknownChild(r) \/ PingFails(r)
           \/ SendFails(r) \/ Wake(r) \/ Finish(r)
  <2>1. children' = children /\ nbChildren' = nbChildren /\ crashed' = crashed
    BY <1>6, Zenon DEF submit_local, Contact, UnknownChild, PingFails, SendFails, Wake, Finish,
       agentVars, listVars
  <2> QED
    BY <1>1, <2>1, CountSame, Zenon
<1> QED
  BY <1>3, <1>4, <1>5, <1>6 DEF Serving

\* So do responses: one of a request that was left in peace is expected.
LEMMA CountOfAnswers ==
  ASSUME ReqBase, StillInv, CountInv, AgentDiesOnlyWhen, Next, NEW c \in Child,
         Die(c) \/ \E r \in ReqID : Responding(r, c)
  PROVE  CountInv' /\ AgentDiesOnlyWhen'
<1>1. UNCHANGED <<children, nbChildren, confused, shrunk, stale, disturbed, early>>
  BY AnswersKeepAgent
<1>2. crashed => crashed'
  BY AnswersKeepAgent
<1>3. CASE crashed' = crashed
  BY <1>1, <1>3, Zenon DEF CountInv, AgentDiesOnlyWhen, Quiet, Filled, EntryAt
<1>4. ASSUME NEW r \in ReqID, addResponse(r, c)
      PROVE  CountInv' /\ AgentDiesOnlyWhen'
  <2>1. ~crashed
    BY <1>4 DEF addResponse
  <2> SUFFICES ASSUME Quiet, Counted, Quiet'
               PROVE  (crashed' => confused') /\ (~crashed' => CountedNext)
    BY <2>1, CountStep
  <2>2. StillReq(r)
    BY DEF StillInv, Still, Quiet
  <2>3. ~crashed'
    BY <1>4, <2>2, StillAnswered
  <2> QED
    BY <1>1, <2>3, CountSame
<1>5. ASSUME Die(c) \/ \E r \in ReqID : Answer(r, c) \/ getResponse(r, c)
      PROVE  crashed' = crashed
  BY <1>5, Zenon DEF Die, Answer, getResponse, agentVars, historyVars
<1> QED
  BY <1>3, <1>4, <1>5 DEF Responding

\* Every step keeps them.
LEMMA CountKept ==
  ASSUME KidInv, TableInv, VectInv, ReqBase, StillInv, CountInv, AgentDiesOnlyWhen, Next
  PROVE  CountInv' /\ AgentDiesOnlyWhen'
BY NextSplits, CountOfChild, CountOfServing, CountOfAnswers

-----------------------------------------------------------------------------
(* All of it. *)

IInv ==
  /\ KidInv /\ TableInv /\ VectInv /\ ReqBase /\ ReachInv /\ StillInv
  /\ CountInv /\ AgentDiesOnlyWhen

\* It holds at the start ...
LEMMA IInvStarts ==
  ASSUME Init
  PROVE  IInv
<1>1. KidInv /\ TableInv
  BY TableStarts
<1>2. /\ \A k \in Kind : children[k] = <<>> /\ nbChildren[k] = 0
      /\ children = [k \in Kind |-> <<>>] /\ nbChildren = [k \in Kind |-> 0]
      /\ SrvT = <<>> /\ ~crashed /\ ~shrunk
      /\ \A c \in Child : kid[c].pc = "out" /\ kid[c].id = -1
  BY DEF Init, AgentInit
<1>3. <<>> \in Vector /\ Len(<<>>) = 0 /\ 1 .. 0 = {}
  BY DEF Vector
<1>4. VectTypes
  BY <1>2, <1>3 DEF VectTypes
<1>5. \A k \in Kind : Len(children[k]) = 0 /\ \A x \in Nat : EntryAt(k, x) = None
  BY <1>2, <1>3 DEF EntryAt, At
<1>6. VectInv
  <2>1. \A k \in Kind : Len(children[k]) <= childIDCounter
    BY <1>1, <1>5, KidTyped DEF KidInv, KidTypes
  <2>2. OwnEntries /\ NoEntryYet /\ RoomMade /\ EntryKept
    BY <1>2 DEF OwnEntries, NoEntryYet, RoomMade, EntryKept
  <2>3. KindEntries
    BY <1>5 DEF KindEntries
  <2> QED
    BY <1>4, <2>1, <2>2, <2>3 DEF VectInv
<1>7. ReqTypes /\ calls = {}
  <2>1. /\ req = [r \in ReqID |-> [pc |-> "idle", todo |-> <<>>, slot |-> 0,
             peer |-> None, contacted |-> {}, nbWaited |-> 0, responses |-> {},
             signalled |-> FALSE]]
        /\ calls = {}
    BY DEF Init
  <2> QED
    BY <2>1 DEF ReqTypes, Request, ReqPlace
<1>8. \A r \in ReqID : /\ req[r].pc = "idle" /\ req[r].contacted = {}
                       /\ req[r].responses = {} /\ req[r].nbWaited = 0
                       /\ ~req[r].signalled
  BY DEF Init
<1>9. ReqBase
  BY <1>7, <1>8 DEF ReqBase, FreshReq, NothingYet, PeerKnown
<1>10. ReachInv
  BY <1>2, <1>3 DEF ReachInv, Has
<1>11. StillInv
  BY <1>7, <1>8 DEF StillInv, StillReq, CallsInv, SendInv, DropInv, WaitInv
<1>12. CountInv
  <2>1. \A k \in Kind : Filled(k) = {}
    <3>1. \A x \in Ids : x \in Nat
      BY Constants DEF Ids
    <3> QED
      BY <1>5, <3>1 DEF Filled
  <2>2. Cardinality({}) = 0
    BY FS_EmptySet
  <2> QED
    BY <1>2, <2>1, <2>2 DEF CountInv
<1>13. AgentDiesOnlyWhen
  BY <1>2 DEF AgentDiesOnlyWhen
<1> QED
  BY <1>1, <1>6, <1>9, <1>10, <1>11, <1>12, <1>13 DEF IInv

\* ... and every step keeps it.
LEMMA IInvKept ==
  ASSUME IInv, [Next]_vars
  PROVE  IInv'
<1>1. CASE Next
  <2>1. KidInv' /\ TableInv'
    BY <1>1, KidKept, TableKept DEF IInv
  <2>2. VectInv' /\ ReqBase'
    BY <1>1, VectKept, BaseKept DEF IInv, VectInv, TableInv
  <2>3. ReachInv' /\ StillInv'
    BY <1>1, ReachKept, StillKept DEF IInv
  <2>4. CountInv' /\ AgentDiesOnlyWhen'
    BY <1>1, CountKept DEF IInv
  <2> QED
    BY <2>1, <2>2, <2>3, <2>4 DEF IInv
<1>2. CASE UNCHANGED vars
  <2>1. /\ KidSame /\ SrvT' = SrvT /\ confused' = confused /\ srvTMutex' = srvTMutex
        /\ dropped' = dropped /\ crashed' = crashed /\ shrunk' = shrunk
        /\ stale' = stale /\ children' = children /\ nbChildren' = nbChildren
        /\ req' = req /\ calls' = calls /\ disturbed' = disturbed /\ early' = early
    BY <1>2, Zenon DEF vars, agentVars, historyVars, listVars, tableVars, reqVars, envVars, KidSame
  <2>2. KidInv'
    BY <2>1 DEF IInv, KidSame, KidInv, KidTypes
  <2>3. TableInv'
    BY <2>1, TableIdle DEF IInv, KidSame
  <2>4. VectInv'
    BY <2>1, VectIdle DEF IInv, KidSame
  <2>5. ReqBase'
    BY <2>1, BaseIdle DEF IInv, ReqBase, ReqTypes
  <2>6. ReachInv'
    BY <2>1, Zenon DEF IInv, ReachInv, Reach, EntryAt
  <2>7. StillInv'
    BY <2>1, Zenon DEF IInv, KidSame, StillInv, Still, StillReq, CallsInv, SendInv, Copied,
       DropInv, EntryAt, Next1, WaitInv
  <2>8. CountInv' /\ AgentDiesOnlyWhen'
    BY <2>1, Zenon DEF IInv, CountInv, AgentDiesOnlyWhen, Quiet, Filled, EntryAt
  <2> QED
    BY <2>2, <2>3, <2>4, <2>5, <2>6, <2>7, <2>8 DEF IInv
<1> QED
  BY <1>1, <1>2

\* What the inductive invariant says always holds.
LEMMA IInvAlways == Spec => []IInv
<1>1. Init => IInv
  BY IInvStarts
<1>2. IInv /\ [Next]_vars => IInv'
  BY IInvKept
<1> QED
  BY <1>1, <1>2, PTL DEF Spec

\* A child in the service table can be reached through its vector, unless the
\* agent dropped it before, resize() cut entries off, or it moved the vector
\* while the entry was being written, in whatever order children subscribe,
\* leave and fail (serverSubscribe(), childUnsubscribe(), findServer()).
THEOREM ListedReached == Spec => []ListedAreReachable
<1>1. IInv => ListedAreReachable
  BY ReachShown DEF IInv, TableInv, VectInv
<1> QED
  BY <1>1, IInvAlways, PTL

\* findServer() returns with the response of every child it contacted, unless
\* the table changed meanwhile or its thread was woken without a signal
\* (findServer(), getResponse(), Request.cc).
THEOREM GathersAll == Spec => []GatheredUnlessDisturbed
<1>1. IInv => GatheredUnlessDisturbed
  BY Zenon DEF IInv, StillInv, Still, StillReq, WaitInv, GatheredUnlessDisturbed
<1> QED
  BY <1>1, IInvAlways, PTL

\* No assertion of the agent fails and no freed request is used, unless the
\* table changed under a request, a thread was woken without a signal, a
\* service was removed for a child not listed, or resize() cut entries off or
\* moved them under a reference.
THEOREM DiesExplained == Spec => []AgentDiesOnlyWhen
<1>1. IInv => AgentDiesOnlyWhen
  BY DEF IInv
<1> QED
  BY <1>1, IInvAlways, PTL
=============================================================================
