-------------------------- MODULE AsyncCallsProofs --------------------------
(***************************************************************************)
(* For any number of requests and of client threads: no thread sleeps on a *)
(* rule that is due, no entry of rulesIDs names a rule that is gone, a     *)
(* failed request is handed out once, a wait that reports success has its  *)
(* results, and a thread loops in deleteWaitRule() only when it shares a   *)
(* request with another.                                                   *)
(***************************************************************************)
EXTENDS AsyncCalls, OrderingProofs, FiniteSetTheorems, TLAPS

Field == {"pc", "op", "elts", "status", "sem", "at", "result", "got", "count"}

\* As much of the types as the proof needs.
Record(R) ==
  DOMAIN R = Field /\ R = [f \in Field |-> R[f]] /\ R.sem \in Nat

Threads ==
  wait = [w \in Waiter |-> wait[w]] /\ \A w \in Waiter : Record(wait[w])

Shape ==
  /\ caList \in [ReqID -> {"none", "RESOLVING", "DONE"}]
  /\ used \in [ReqID -> Nat]
  /\ rulesIDs \subseteq ReqID \X Waiter
  /\ req = [r \in ReqID |-> req[r]]
  /\ results \subseteq ReqID
  /\ Threads

\* A sleeping thread has an entry, and a use, for each of its requests, and all
\* of them were started.
SleepersAreEntered ==
  \A w \in Waiter : wait[w].pc = "asleep" =>
     \A r \in Elements(w) :
        /\ r \in ReqID /\ <<r, w>> \in rulesIDs
        /\ used[r] > 0 /\ req[r] # "idle"

RegisteredAreStarted ==
  \A r \in ReqID : caList[r] # "none" => req[r] # "idle"

\* A result is there only after its download.
ResultsAreNotified == \A r \in results : req[r] \in {"notified", "end"}

RuleInv ==
  /\ Shape /\ SleepersAreEntered /\ RegisteredAreStarted /\ ResultsAreNotified
  /\ NoDanglingRule /\ DueRulesArePosted

\* The first state: nobody sleeps, nothing is registered.
LEMMA RuleInvInit == Init => RuleInv
<1> SUFFICES ASSUME Init PROVE RuleInv
  OBVIOUS
<1>1. Shape
  BY DEF Init, Shape, Threads, Record, Field
<1>2. \A w \in Waiter : wait[w].pc = "idle"
  BY DEF Init
<1>3. \A r \in ReqID : caList[r] = "none"
  BY DEF Init
<1>4. rulesIDs = {} /\ results = {}
  BY DEF Init
<1> QED
  BY <1>1, <1>2, <1>3, <1>4 DEF RuleInv, SleepersAreEntered, RegisteredAreStarted,
     ResultsAreNotified, NoDanglingRule, DueRulesArePosted

\* A thread leaves addWaitRule(), or is not in it and does not go to sleep: its
\* entries are gone, those of the others stay.
LEMMA AwakeStep ==
  ASSUME RuleInv, NEW w \in Waiter, wait'[w].pc \notin {"asleep", "spin"},
         wait' = [v \in Waiter |-> wait'[v]], Record(wait'[w]),
         \A v \in Waiter \ {w} : wait'[v] = wait[v],
         rulesIDs' = rulesIDs \ (ReqID \X {w}),
         used' \in [ReqID -> Nat], \A r \in ReqID : used'[r] >= used[r],
         UNCHANGED <<caList, req, results>>
  PROVE  RuleInv'
<1>1. Shape'
  BY DEF RuleInv, Shape, Threads
<1>2. SleepersAreEntered'
  <2> SUFFICES ASSUME NEW v \in Waiter \ {w}, wait[v].pc = "asleep",
                      NEW r \in Elements(v)
               PROVE  /\ r \in ReqID /\ <<r, v>> \in rulesIDs'
                      /\ used'[r] > 0 /\ req'[r] # "idle"
    BY DEF SleepersAreEntered, Elements
  <2>1. /\ r \in ReqID /\ <<r, v>> \in rulesIDs
        /\ used[r] > 0 /\ req[r] # "idle"
    BY DEF RuleInv, SleepersAreEntered
  <2>2. used[r] \in Nat /\ used'[r] \in Nat /\ used'[r] >= used[r]
    BY <2>1 DEF RuleInv, Shape
  <2> QED
    BY <2>1, <2>2
<1>3. RegisteredAreStarted' /\ ResultsAreNotified'
  BY DEF RuleInv, RegisteredAreStarted, ResultsAreNotified
<1>4. NoDanglingRule'
  BY DEF RuleInv, NoDanglingRule, Elements
<1>5. DueRulesArePosted'
  BY DEF RuleInv, DueRulesArePosted, Due, Hollow, Elements
<1> QED
  BY <1>1, <1>2, <1>3, <1>4, <1>5 DEF RuleInv

\* A thread outside addWaitRule() has no entries to lose.
LEMMA OutsideHasNoEntry ==
  ASSUME RuleInv, NEW w \in Waiter, wait[w].pc \notin {"asleep", "spin"}
  PROVE  rulesIDs = rulesIDs \ (ReqID \X {w})
BY DEF RuleInv, Shape, NoDanglingRule

\* A step that only moves a request on, or stores nothing.
LEMMA RequestStep ==
  ASSUME RuleInv, UNCHANGED <<caList, used, rulesIDs, wait, results>>,
         req' = [r \in ReqID |-> req'[r]],
         \A r \in ReqID :
           /\ req'[r] = "idle" => req[r] = "idle"
           /\ req[r] \in {"notified", "end"} => req'[r] \in {"notified", "end"}
  PROVE  RuleInv'
<1>1. Shape'
  BY DEF RuleInv, Shape, Threads
<1>2. SleepersAreEntered' /\ RegisteredAreStarted'
  BY DEF RuleInv, SleepersAreEntered, RegisteredAreStarted, Elements
<1>3. NoDanglingRule' /\ ResultsAreNotified'
  BY DEF RuleInv, Shape, NoDanglingRule, ResultsAreNotified, Elements
<1>4. DueRulesArePosted'
  BY DEF RuleInv, DueRulesArePosted, Due, Hollow, Elements
<1> QED
  BY <1>1, <1>2, <1>3, <1>4 DEF RuleInv

\* A rule gets a status and its semaphore some posts.
LEMMA Posted ==
  ASSUME NEW R, Record(R), NEW st, NEW n \in Nat
  PROVE  /\ Record(Post(R, st, n)) /\ Post(R, st, n).pc = R.pc
         /\ Post(R, st, n).op = R.op /\ Post(R, st, n).elts = R.elts
         /\ Post(R, st, n).sem = R.sem + n
<1>0. PICK S : S = Post(R, st, n)
  OBVIOUS
<1>1. PICK A : A = [R EXCEPT !.status = st]
  OBVIOUS
<1>2. /\ DOMAIN A = Field /\ A.pc = R.pc /\ A.op = R.op /\ A.elts = R.elts
      /\ A = [f \in Field |-> A[f]]
  BY <1>1 DEF Record, Field
<1>3. S = [A EXCEPT !.sem = R.sem + n]
  BY <1>0, <1>1, Zenon DEF Post
<1>4. /\ DOMAIN S = Field /\ S.pc = A.pc /\ S.op = A.op /\ S.elts = A.elts
      /\ S = [f \in Field |-> S[f]] /\ S.sem = R.sem + n
  BY <1>2, <1>3 DEF Field
<1>5. R.sem \in Nat
  BY DEF Record
<1>6. R.sem + n \in Nat
  BY <1>5
<1> QED
  BY <1>0, <1>2, <1>4, <1>6, Zenon DEF Record

\* A request is registered: nobody can be waiting for it yet.
LEMMA AddStep ==
  ASSUME RuleInv, NEW r \in ReqID, addAsyncCall(r)
  PROVE  RuleInv'
<1>1. /\ req[r] = "idle" /\ UNCHANGED <<rulesIDs, wait, results>>
      /\ req' = [req EXCEPT ![r] = "registered"]
  BY DEF addAsyncCall, Goto
<1>2. /\ caList' = [caList EXCEPT ![r] = "RESOLVING"]
      /\ used' = [used EXCEPT ![r] = 0]
  BY <1>1 DEF addAsyncCall, RuleInv, RegisteredAreStarted
<1>3. \A w \in Waiter : wait[w].pc = "asleep" => r \notin Elements(w)
  BY <1>1 DEF RuleInv, SleepersAreEntered
<1>4. Shape'
  BY <1>1, <1>2 DEF RuleInv, Shape, Threads
<1>5. SleepersAreEntered'
  BY <1>1, <1>2, <1>3 DEF RuleInv, Shape, SleepersAreEntered, Elements
<1>6. RegisteredAreStarted'
  BY <1>1, <1>2 DEF RuleInv, Shape, RegisteredAreStarted
<1>7. NoDanglingRule' /\ ResultsAreNotified'
  BY <1>1 DEF RuleInv, Shape, NoDanglingRule, ResultsAreNotified, Elements
<1>8. DueRulesArePosted'
  <2> SUFFICES ASSUME NEW w \in Waiter, wait[w].pc = "asleep", wait[w].sem = 0
               PROVE  /\ \A x \in Elements(w) : caList'[x] # "none"
                      /\ Due(w)' => \E x \in Elements(w) : Hollow(x)'
    BY <1>1 DEF DueRulesArePosted, Elements
  <2>1. \A x \in Elements(w) : caList'[x] = caList[x]
    BY <1>2, <1>3 DEF RuleInv, Shape, SleepersAreEntered
  <2>2. Due(w)' => Due(w)
    BY <2>1, <1>1 DEF Due, Elements
  <2>3. \A x \in Elements(w) : Hollow(x) => Hollow(x)'
    BY <2>1, <1>1 DEF Hollow
  <2> QED
    BY <2>1, <2>2, <2>3 DEF RuleInv, DueRulesArePosted
<1> QED
  BY <1>4, <1>5, <1>6, <1>7, <1>8 DEF RuleInv

\* notifyRst() up to the download: each rule about the request has one that is
\* DONE without its result.
LEMMA LoadStep ==
  ASSUME RuleInv, NEW r \in ReqID, req[r] = "cleared", caList[r] # "none",
         caList' = [caList EXCEPT ![r] = "DONE"], Goto(r, "loading"),
         UNCHANGED <<used, rulesIDs, wait, results>>
  PROVE  RuleInv'
<1>1. /\ req' = [x \in ReqID |-> req'[x]] /\ r \notin results
      /\ \A x \in ReqID :
           /\ req'[x] = "idle" => req[x] = "idle"
           /\ req[x] \in {"notified", "end"} => req'[x] \in {"notified", "end"}
  BY DEF Goto, RuleInv, Shape, ResultsAreNotified
<1>2. Shape'
  BY <1>1 DEF RuleInv, Shape, Threads
<1>3. SleepersAreEntered' /\ RegisteredAreStarted'
  BY <1>1 DEF RuleInv, Shape, SleepersAreEntered, RegisteredAreStarted, Elements
<1>4. NoDanglingRule' /\ ResultsAreNotified'
  BY <1>1 DEF RuleInv, Shape, NoDanglingRule, ResultsAreNotified, Elements
<1>5. DueRulesArePosted'
  <2> SUFFICES ASSUME NEW w \in Waiter, wait[w].pc = "asleep", wait[w].sem = 0
               PROVE  /\ \A x \in Elements(w) : caList'[x] # "none"
                      /\ Due(w)' => \E x \in Elements(w) : Hollow(x)'
    BY DEF DueRulesArePosted, Elements
  <2>1. \A x \in Elements(w) : caList[x] # "none" /\ x \in ReqID
    BY DEF RuleInv, DueRulesArePosted, SleepersAreEntered
  <2>2. \A x \in Elements(w) : caList'[x] # "none"
    BY <2>1 DEF RuleInv, Shape
  <2>3. CASE r \in Elements(w)
    <3>1. Hollow(r)'
      BY <1>1 DEF Hollow, RuleInv, Shape
    <3> QED
      BY <2>2, <2>3, <3>1
  <2>4. CASE r \notin Elements(w)
    <3>1. \A x \in Elements(w) : caList'[x] = caList[x]
      BY <2>1, <2>4 DEF RuleInv, Shape
    <3>2. Due(w)' => Due(w)
      BY <3>1 DEF Due, Elements
    <3>3. \A x \in Elements(w) : Hollow(x) => Hollow(x)'
      BY <3>1 DEF Hollow
    <3> QED
      BY <2>2, <3>2, <3>3 DEF RuleInv, DueRulesArePosted
  <2> QED
    BY <2>3, <2>4
<1> QED
  BY <1>2, <1>3, <1>4, <1>5 DEF RuleInv

\* The end of notifyRst(): the result is there and every rule about it that is
\* now satisfied is posted, or the download throws.
LEMMA NotifyStep ==
  ASSUME RuleInv, NEW r \in ReqID, req[r] = "loading", Goto(r, "notified"),
         UNCHANGED <<caList, used, rulesIDs>>,
         \/ PostDone(r, caList) /\ results' = results \cup {r}
         \/ UNCHANGED <<wait, results>>
  PROVE  RuleInv'
<1>1. /\ wait' = [w \in Waiter |-> wait'[w]]
      /\ \A w \in Waiter : Record(wait'[w]) /\ wait'[w].pc = wait[w].pc
           /\ wait'[w].op = wait[w].op /\ wait'[w].elts = wait[w].elts
           /\ wait'[w].sem >= wait[w].sem
  <2>0. wait = [w \in Waiter |-> wait[w]] /\ \A w \in Waiter : Record(wait[w])
    BY DEF RuleInv, Shape, Threads
  <2>1. CASE UNCHANGED wait
    BY <2>0, <2>1 DEF Record
  <2>2. CASE PostDone(r, caList)
    <3>1. wait' = [w \in Waiter |-> wait'[w]]
      BY <2>2 DEF PostDone
    <3>2. ASSUME NEW w \in Waiter
          PROVE  Record(wait'[w]) /\ wait'[w].pc = wait[w].pc
                 /\ wait'[w].op = wait[w].op /\ wait'[w].elts = wait[w].elts
                 /\ wait'[w].sem >= wait[w].sem
      <4>1. wait[w].sem \in Nat
        BY <2>0 DEF Record
      <4>2. CASE wait'[w] = wait[w]
        BY <2>0, <4>1, <4>2
      <4>3. CASE wait'[w] = Post(wait[w], "DONE", 1)
        <5>1. Record(wait[w])
          BY <2>0
        <5> 1 \in Nat
          OBVIOUS
        <5>2. /\ Record(wait'[w]) /\ wait'[w].pc = wait[w].pc
              /\ wait'[w].op = wait[w].op /\ wait'[w].elts = wait[w].elts
              /\ wait'[w].sem = wait[w].sem + 1
          BY <5>1, <4>3, Posted
        <5> QED
          BY <5>2, <4>1
      <4> QED
        BY <2>2, <4>2, <4>3 DEF PostDone
    <3> QED
      BY <3>1, <3>2
  <2> QED
    BY <2>1, <2>2
<1>2. \A w \in Waiter : Elements(w)' = Elements(w)
  BY <1>1 DEF Elements
<1>3. /\ req' = [x \in ReqID |-> req'[x]]
      /\ \A x \in ReqID :
           /\ req'[x] = "idle" => req[x] = "idle"
           /\ req[x] \in {"notified", "end"} => req'[x] \in {"notified", "end"}
      /\ req'[r] = "notified"
  BY DEF Goto, RuleInv, Shape
<1>4. Shape'
  BY <1>1, <1>3 DEF RuleInv, Shape, Threads
<1>5. SleepersAreEntered'
  BY <1>1, <1>2, <1>3 DEF RuleInv, SleepersAreEntered
<1>6. RegisteredAreStarted' /\ ResultsAreNotified'
  BY <1>3 DEF RuleInv, Shape, RegisteredAreStarted, ResultsAreNotified
<1>7. NoDanglingRule'
  BY <1>1, <1>2 DEF RuleInv, NoDanglingRule
<1>8. DueRulesArePosted'
  <2> SUFFICES ASSUME NEW w \in Waiter, wait[w].pc = "asleep", wait'[w].sem = 0
               PROVE  /\ \A x \in Elements(w) : caList[x] # "none"
                      /\ Due(w)' => \E x \in Elements(w) : Hollow(x)'
    BY <1>1, <1>2 DEF DueRulesArePosted
  <2>0. wait[w].sem \in Nat /\ wait'[w].sem \in Nat /\ wait[w].sem = 0
    BY <1>1 DEF RuleInv, Shape, Threads, Record
  <2>1. \A x \in Elements(w) :
          x \in ReqID /\ <<x, w>> \in rulesIDs /\ caList[x] # "none"
    BY <2>0 DEF RuleInv, SleepersAreEntered, DueRulesArePosted
  <2>2. Due(w)' => Due(w)
    BY <1>1, <1>2 DEF Due
  <2>3. Due(w) => \E x \in Elements(w) : Hollow(x)
    BY <2>0 DEF RuleInv, DueRulesArePosted
  <2>4. CASE r \notin Elements(w) \/ UNCHANGED results
    <3>1. \A x \in Elements(w) : Hollow(x) => Hollow(x)'
      BY <2>4 DEF Hollow
    <3> QED
      BY <2>1, <2>2, <2>3, <3>1
  <2>5. CASE r \in Elements(w) /\ PostDone(r, caList)
    <3>1. w \in Rules(r)
      BY <2>1, <2>5 DEF Rules
    <3>2. ~Plenty(w, caList)
      <4> SUFFICES ASSUME Plenty(w, caList) PROVE FALSE
        OBVIOUS
      <4>1. wait'[w] = Post(wait[w], "DONE", 1)
        BY <3>1, <2>5 DEF PostDone
      <4>2. Record(wait[w])
        BY DEF RuleInv, Shape, Threads
      <4> 1 \in Nat
        OBVIOUS
      <4>3. wait'[w].sem = wait[w].sem + 1
        BY <4>1, <4>2, Posted
      <4> QED
        BY <4>3, <2>0
    <3>3. ~Due(w)
      BY <3>2, <2>1 DEF Plenty, Due
    <3> QED
      BY <2>1, <2>2, <3>3
  <2> QED
    BY <2>4, <2>5
<1> QED
  BY <1>4, <1>5, <1>6, <1>7, <1>8 DEF RuleInv

\* Cancelled requests: every rule about one of them is posted, because the
\* request is in use.
LEMMA CancelStep ==
  ASSUME RuleInv, NEW S \in SUBSET ReqID, deleteCalls(S),
         UNCHANGED <<used, rulesIDs, req, results>>
  PROVE  RuleInv'
<1> DEFINE hit(w) == {r \in S : used[r] # 0 /\ w \in Rules(r)}
<1>0. wait = [w \in Waiter |-> wait[w]] /\ \A w \in Waiter : Record(wait[w])
  BY DEF RuleInv, Shape, Threads
<1>1. \A w \in Waiter : Cardinality(hit(w)) \in Nat
                        /\ (hit(w) # {} => Cardinality(hit(w)) > 0)
  <2> SUFFICES ASSUME NEW w \in Waiter
               PROVE  Cardinality(hit(w)) \in Nat
                      /\ (hit(w) # {} => Cardinality(hit(w)) > 0)
    OBVIOUS
  <2>1. hit(w) \subseteq ReqID
    OBVIOUS
  <2>2. IsFiniteSet(hit(w))
    BY <2>1, AsyncAssumption, FS_Subset DEF AsyncAssumption
  <2> HIDE DEF hit
  <2> QED
    BY <2>2, FS_CardinalityType, FS_EmptySet
<1>2. /\ wait' = [w \in Waiter |-> wait'[w]]
      /\ \A w \in Waiter : wait'[w] =
           IF hit(w) = {} THEN wait[w]
                          ELSE Post(wait[w], "CANCEL", Cardinality(hit(w)))
  BY DEF deleteCalls
<1>3. ASSUME NEW w \in Waiter
      PROVE  /\ Record(wait'[w]) /\ wait'[w].pc = wait[w].pc
             /\ wait'[w].op = wait[w].op /\ wait'[w].elts = wait[w].elts
             /\ wait'[w].sem >= wait[w].sem
             /\ hit(w) # {} => wait'[w].sem > 0
  <2> HIDE DEF hit
  <2>1. Record(wait[w]) /\ wait[w].sem \in Nat
    BY <1>0 DEF Record
  <2>2. CASE hit(w) = {}
    BY <2>1, <2>2, <1>2
  <2>3. CASE hit(w) # {}
    <3>1. wait'[w] = Post(wait[w], "CANCEL", Cardinality(hit(w)))
      BY <2>3, <1>2
    <3>2. /\ Record(wait'[w]) /\ wait'[w].pc = wait[w].pc
          /\ wait'[w].op = wait[w].op /\ wait'[w].elts = wait[w].elts
          /\ wait'[w].sem = wait[w].sem + Cardinality(hit(w))
      BY <2>1, <3>1, <1>1, Posted
    <3> QED
      BY <3>2, <2>1, <2>3, <1>1
  <2> QED
    BY <2>2, <2>3
<1>4. \A w \in Waiter : Elements(w)' = Elements(w)
  BY <1>3 DEF Elements
<1>5. caList' = [r \in ReqID |-> IF r \in S THEN "none" ELSE caList[r]]
  BY DEF deleteCalls
<1>6. Shape'
  BY <1>2, <1>3, <1>5 DEF RuleInv, Shape, Threads
<1>7. SleepersAreEntered'
  BY <1>3, <1>4 DEF RuleInv, SleepersAreEntered
<1>8. RegisteredAreStarted' /\ ResultsAreNotified'
  BY <1>5 DEF RuleInv, RegisteredAreStarted, ResultsAreNotified
<1>9. NoDanglingRule'
  BY <1>3, <1>4 DEF RuleInv, NoDanglingRule
<1>10. DueRulesArePosted'
  <2> SUFFICES ASSUME NEW w \in Waiter, wait[w].pc = "asleep", wait'[w].sem = 0
               PROVE  /\ \A x \in Elements(w) : caList'[x] # "none"
                      /\ Due(w)' => \E x \in Elements(w) : Hollow(x)'
    BY <1>3, <1>4 DEF DueRulesArePosted
  <2>0. wait[w].sem \in Nat /\ wait'[w].sem \in Nat /\ wait[w].sem = 0
    <3>1. Record(wait[w]) /\ Record(wait'[w]) /\ wait'[w].sem >= wait[w].sem
      BY <1>0, <1>3
    <3>2. wait[w].sem \in Nat /\ wait'[w].sem \in Nat
      BY <3>1 DEF Record
    <3> QED
      BY <3>1, <3>2
  <2>1. \A x \in Elements(w) :
          x \in ReqID /\ <<x, w>> \in rulesIDs /\ used[x] > 0
    BY DEF RuleInv, SleepersAreEntered
  <2>2. \A x \in Elements(w) : x \notin S
    <3> SUFFICES ASSUME NEW x \in Elements(w), x \in S PROVE FALSE
      OBVIOUS
    <3>1. x \in hit(w)
      BY <2>1 DEF Rules, RuleInv, Shape
    <3> HIDE DEF hit
    <3> QED
      BY <3>1, <1>3, <2>0
  <2>3. \A x \in Elements(w) : caList'[x] = caList[x]
    BY <2>1, <2>2, <1>5
  <2>4. Due(w)' => Due(w)
    BY <2>3, <1>3, <1>4 DEF Due
  <2>5. \A x \in Elements(w) : Hollow(x) => Hollow(x)'
    BY <2>3 DEF Hollow
  <2> QED
    BY <2>0, <2>3, <2>4, <2>5 DEF RuleInv, DueRulesArePosted
<1> QED
  BY <1>6, <1>7, <1>8, <1>9, <1>10 DEF RuleInv

\* A thread goes to sleep: its rule is not due, and each of its requests has
\* an entry and a use.
LEMMA SleepStep ==
  ASSUME RuleInv, NEW w \in Waiter, wait[w].pc = "rule",
         Elements(w) \subseteq Registered, ~Satisfied(w),
         used' = [r \in ReqID |-> IF r \in Elements(w) THEN used[r] + 1 ELSE used[r]],
         rulesIDs' = rulesIDs \cup {<<r, w>> : r \in Elements(w)},
         wait' = [wait EXCEPT ![w].pc = "asleep"],
         UNCHANGED <<caList, req, results>>
  PROVE  RuleInv'
<1>0. wait = [v \in Waiter |-> wait[v]] /\ \A v \in Waiter : Record(wait[v])
  BY DEF RuleInv, Shape, Threads
<1>1. /\ wait' = [v \in Waiter |-> wait'[v]]
      /\ \A v \in Waiter \ {w} : wait'[v] = wait[v]
      /\ wait'[w] = [wait[w] EXCEPT !.pc = "asleep"]
  BY <1>0
<1>2. /\ Record(wait'[w]) /\ wait'[w].pc = "asleep" /\ wait'[w].op = wait[w].op
      /\ wait'[w].elts = wait[w].elts /\ wait'[w].sem = wait[w].sem
  BY <1>0, <1>1 DEF Record, Field
<1>3. \A v \in Waiter : Elements(v)' = Elements(v)
  BY <1>1, <1>2 DEF Elements
<1>4. Elements(w) \subseteq ReqID
  BY DEF Registered
<1>5. Shape'
  BY <1>1, <1>2, <1>4 DEF RuleInv, Shape, Threads
<1>6. SleepersAreEntered'
  <2>1. \A r \in Elements(w) : r \in ReqID /\ req[r] # "idle"
    BY DEF Registered, RuleInv, RegisteredAreStarted
  <2>2. \A r \in ReqID : used[r] \in Nat /\ used'[r] \in Nat /\ used'[r] >= used[r]
                         /\ (r \in Elements(w) => used'[r] > 0)
    BY DEF RuleInv, Shape
  <2>3. \A v \in Waiter \ {w} : wait'[v].pc = "asleep" =>
          \A r \in Elements(v) : r \in ReqID /\ <<r, v>> \in rulesIDs'
                                 /\ used'[r] > 0 /\ req'[r] # "idle"
    BY <1>1, <2>2 DEF RuleInv, SleepersAreEntered
  <2>4. \A r \in Elements(w) : r \in ReqID /\ <<r, w>> \in rulesIDs'
                               /\ used'[r] > 0 /\ req'[r] # "idle"
    BY <2>1, <2>2
  <2> QED
    BY <1>3, <2>3, <2>4 DEF SleepersAreEntered
<1>7. RegisteredAreStarted' /\ ResultsAreNotified'
  BY DEF RuleInv, RegisteredAreStarted, ResultsAreNotified
<1>8. NoDanglingRule'
  BY <1>1, <1>2, <1>3 DEF RuleInv, NoDanglingRule
<1>9. DueRulesArePosted'
  <2>1. ~Due(w)'
    <3>1. \A r \in Elements(w) : caList[r] # "none" /\ caList[r] \in {"RESOLVING", "DONE"}
      BY <1>4 DEF Registered, RuleInv, Shape
    <3> QED
      BY <3>1, <1>2, <1>3 DEF Due, Satisfied
  <2>2. \A v \in Waiter \ {w} : Due(v)' => Due(v)
    BY <1>1, <1>3 DEF Due
  <2>3. \A r \in Elements(w) : caList[r] # "none"
    BY DEF Registered
  <2> QED
    BY <2>1, <2>2, <2>3, <1>1, <1>3 DEF RuleInv, DueRulesArePosted, Hollow
<1> QED
  BY <1>5, <1>6, <1>7, <1>8, <1>9 DEF RuleInv

\* The forms a thread's record takes keep it a record.
LEMMA PcRecord ==
  ASSUME NEW R, Record(R), NEW x
  PROVE  Record([R EXCEPT !.pc = x]) /\ [R EXCEPT !.pc = x].pc = x
BY DEF Record, Field

\* Moving the walk of a wait on leaves the rest of its record.
LEMMA AtRecord ==
  ASSUME NEW R, Record(R), NEW x
  PROVE  Record([R EXCEPT !.at = x]) /\ [R EXCEPT !.at = x].pc = R.pc
BY DEF Record, Field

\* So does picking a request in wait_any,
LEMMA PickRecord ==
  ASSUME NEW R, Record(R), NEW x
  PROVE  /\ Record([R EXCEPT !.pc = "push", !.got = x])
         /\ [R EXCEPT !.pc = "push", !.got = x].pc = "push"
BY DEF Record, Field

\* a refusal,
LEMMA RefusedRecord ==
  ASSUME NEW R, Record(R), NEW x
  PROVE  Record(Refused(R, x)) /\ Refused(R, x).pc = R.pc
BY DEF Record, Field, Refused

\* and a return, which leaves the thread idle.
LEMMA ReturnedRecord ==
  ASSUME NEW R, Record(R), NEW x, NEW y
  PROVE  Record(Returned(R, x, y)) /\ Returned(R, x, y).pc = "idle"
BY DEF Record, Field, Returned

\* Nothing the invariant speaks of changes.
LEMMA IdleStep ==
  ASSUME RuleInv, UNCHANGED <<caList, used, rulesIDs, wait, req, results>>
  PROVE  RuleInv'
<1>1. /\ req' = [x \in ReqID |-> req'[x]]
      /\ \A x \in ReqID :
           /\ req'[x] = "idle" => req[x] = "idle"
           /\ req[x] \in {"notified", "end"} => req'[x] \in {"notified", "end"}
  BY DEF RuleInv, Shape
<1> QED
  BY <1>1, RequestStep

\* AwakeStep for an assignment to one thread.
LEMMA ThreadStep ==
  ASSUME RuleInv, NEW w \in Waiter, NEW X, Record(X),
         X.pc \notin {"asleep", "spin"}, wait' = [wait EXCEPT ![w] = X],
         rulesIDs' = rulesIDs \ (ReqID \X {w}),
         used' \in [ReqID -> Nat], \A r \in ReqID : used'[r] >= used[r],
         UNCHANGED <<caList, req, results>>
  PROVE  RuleInv'
<1>1. wait = [v \in Waiter |-> wait[v]]
  BY DEF RuleInv, Shape, Threads
<1>2. /\ wait' = [v \in Waiter |-> wait'[v]] /\ wait'[w] = X
      /\ \A v \in Waiter \ {w} : wait'[v] = wait[v]
  BY <1>1
<1> QED
  BY <1>2, AwakeStep

\* The same for a thread outside addWaitRule() that leaves the uses alone.
LEMMA OutsideStep ==
  ASSUME RuleInv, NEW w \in Waiter, wait[w].pc \notin {"asleep", "spin"},
         NEW X, Record(X), X.pc \notin {"asleep", "spin"},
         wait' = [wait EXCEPT ![w] = X],
         UNCHANGED <<caList, used, rulesIDs, req, results>>
  PROVE  RuleInv'
<1>1. rulesIDs' = rulesIDs \ (ReqID \X {w})
  BY OutsideHasNoEntry
<1>2. used' \in [ReqID -> Nat] /\ \A r \in ReqID : used'[r] >= used[r]
  BY DEF RuleInv, Shape
<1> QED
  BY <1>1, <1>2, ThreadStep

\* A wait starts.
LEMMA StartStep ==
  ASSUME RuleInv, NEW w \in Waiter, StartsWait(w)
  PROVE  RuleInv'
<1>0. Record(wait[w])
  BY DEF RuleInv, Shape, Threads
<1>1. /\ wait[w].pc = "idle"
      /\ UNCHANGED <<caList, used, rulesIDs, req, results>>
  BY DEF StartsWait, WaitFor, WaitAll, WaitAny, Starts, mgrVars, callVars
<1>2. ASSUME NEW o, NEW s, NewRule(w, o, s) PROVE RuleInv'
  <2> DEFINE X == [pc |-> "rule", op |-> o, elts |-> s,
                   status |-> "RESOLVING", sem |-> 0, at |-> 1,
                   result |-> "none", got |-> -1, count |-> wait[w].count + 1]
  <2>1. wait' = [wait EXCEPT ![w] = X]
    BY <1>2 DEF NewRule
  <2>2. Record(X) /\ X.pc = "rule"
    BY DEF Record, Field
  <2> HIDE DEF X
  <2> QED
    BY <2>1, <2>2, <1>1, OutsideStep
<1>3. ASSUME NEW st, Refuse(w, st) PROVE RuleInv'
  <2> DEFINE X == Refused(wait[w], st)
  <2>1. wait' = [wait EXCEPT ![w] = X]
    BY <1>3, Zenon DEF Refuse
  <2>2. Record(X) /\ X.pc = "idle"
    BY <1>0, <1>1, RefusedRecord
  <2> HIDE DEF X
  <2> QED
    BY <2>1, <2>2, <1>1, OutsideStep
<1>4. CASE UNCHANGED wait
  BY <1>1, <1>4, IdleStep
<1> QED
  BY <1>2, <1>3, <1>4, Zenon DEF StartsWait, WaitFor, WaitAll, WaitAny

\* A wait goes on with the status of its rule, and gives its entries back.
LEMMA AfterStep ==
  ASSUME RuleInv, NEW w \in Waiter, NEW st, After(w, st),
         rulesIDs' = rulesIDs \ (ReqID \X {w}),
         used' \in [ReqID -> Nat], \A r \in ReqID : used'[r] >= used[r],
         UNCHANGED <<caList, req, results>>
  PROVE  RuleInv'
<1>0. Record(wait[w]) /\ wait = [v \in Waiter |-> wait[v]]
  BY DEF RuleInv, Shape, Threads
<1>1. CASE Return(w, st)
  <2> DEFINE X == Returned(wait[w], st, -1)
  <2>1. wait' = [wait EXCEPT ![w] = X]
    BY <1>1, Zenon DEF Return
  <2>2. Record(X) /\ X.pc = "idle"
    BY <1>0, ReturnedRecord
  <2> HIDE DEF X
  <2> QED
    BY <2>1, <2>2, ThreadStep
<1>2. ASSUME NEW p \in {"scan", "pick"}, wait' = [wait EXCEPT ![w].pc = p]
      PROVE  RuleInv'
  <2> DEFINE X == [wait[w] EXCEPT !.pc = p]
  <2>1. wait' = [wait EXCEPT ![w] = X]
    BY <1>2, Zenon
  <2>2. Record(X) /\ X.pc = p
    BY <1>0, PcRecord, Zenon
  <2> HIDE DEF X
  <2> QED
    BY <2>1, <2>2, ThreadStep
<1> QED
  BY <1>1, <1>2, Zenon DEF After

\* The test of a rule under the lock: the thread returns or goes to sleep.
LEMMA RuleStep ==
  ASSUME RuleInv, NEW w \in Waiter, addWaitRule(w)
  PROVE  RuleInv'
<1>1. /\ wait[w].pc = "rule" /\ UNCHANGED <<caList, req, results>>
      /\ used' = [r \in ReqID |-> IF r \in Checked(w) THEN used[r] + 1 ELSE used[r]]
  BY DEF addWaitRule, callVars
<1>2. used' \in [ReqID -> Nat] /\ \A r \in ReqID : used'[r] >= used[r]
  BY <1>1 DEF RuleInv, Shape
<1>3. rulesIDs = rulesIDs \ (ReqID \X {w})
  BY <1>1, OutsideHasNoEntry
<1>4. CASE Return(w, "ERROR") /\ UNCHANGED rulesIDs
  <2>1. After(w, "ERROR")
    BY <1>4 DEF After
  <2> QED
    BY <2>1, <1>1, <1>2, <1>3, <1>4, AfterStep
<1>5. CASE After(w, "DONE") /\ UNCHANGED rulesIDs
  BY <1>1, <1>2, <1>3, <1>5, AfterStep
<1>6. CASE /\ Elements(w) \subseteq Registered /\ ~Satisfied(w)
           /\ rulesIDs' = rulesIDs \cup {<<r, w>> : r \in Elements(w)}
           /\ wait' = [wait EXCEPT ![w].pc = "asleep"]
  <2>1. Checked(w) = Elements(w)
    BY <1>6 DEF Checked
  <2> QED
    BY <2>1, <1>1, <1>6, SleepStep
<1> QED
  BY <1>4, <1>5, <1>6, Zenon DEF addWaitRule

\* A thread wakes up: it gives its entries back, or loops with the lock.
LEMMA WakeStep ==
  ASSUME RuleInv, NEW w \in Waiter, Wake(w)
  PROVE  RuleInv'
<1>1. wait[w].pc = "asleep" /\ UNCHANGED <<caList, used, req, results>>
  BY DEF Wake, callVars
<1>2. CASE /\ rulesIDs' = rulesIDs \ (ReqID \X {w})
           /\ After(w, wait[w].status)
  <2>1. used' \in [ReqID -> Nat] /\ \A r \in ReqID : used'[r] >= used[r]
    BY <1>1 DEF RuleInv, Shape
  <2> QED
    BY <2>1, <1>1, <1>2, AfterStep
<1>3. CASE wait' = [wait EXCEPT ![w].pc = "spin"] /\ UNCHANGED rulesIDs
  <2>0. wait = [v \in Waiter |-> wait[v]] /\ \A v \in Waiter : Record(wait[v])
    BY DEF RuleInv, Shape, Threads
  <2>1. /\ wait' = [v \in Waiter |-> wait'[v]]
        /\ \A v \in Waiter \ {w} : wait'[v] = wait[v]
        /\ wait'[w] = [wait[w] EXCEPT !.pc = "spin"]
    BY <2>0, <1>3
  <2>2. /\ Record(wait'[w]) /\ wait'[w].pc = "spin"
        /\ wait'[w].elts = wait[w].elts
    BY <2>0, <2>1 DEF Record, Field
  <2>3. \A v \in Waiter : Elements(v)' = Elements(v)
    BY <2>1, <2>2 DEF Elements
  <2>4. Shape'
    BY <1>1, <1>3, <2>0, <2>1, <2>2 DEF RuleInv, Shape, Threads
  <2>5. SleepersAreEntered' /\ RegisteredAreStarted' /\ ResultsAreNotified'
    BY <1>1, <1>3, <2>1, <2>2, <2>3
       DEF RuleInv, SleepersAreEntered, RegisteredAreStarted,
           ResultsAreNotified
  <2>6. NoDanglingRule'
    BY <1>3, <2>1, <2>2, <2>3 DEF RuleInv, NoDanglingRule
  <2>7. DueRulesArePosted'
    <3>1. \A v \in Waiter : wait'[v].pc = "asleep" =>
            v # w /\ wait'[v] = wait[v] /\ Elements(v)' = Elements(v)
      BY <2>1, <2>2, <2>3
    <3> QED
      BY <1>1, <3>1 DEF RuleInv, DueRulesArePosted, Due, Hollow
  <2> QED
    BY <2>4, <2>5, <2>6, <2>7 DEF RuleInv
<1> QED
  BY <1>2, <1>3, Zenon DEF Wake, deleteWaitRule

\* A thread reads what its wait returns.
LEMMA ResultStep ==
  ASSUME RuleInv, NEW w \in Waiter, ScanOr(w) \/ PickAny(w) \/ PushAny(w)
  PROVE  RuleInv'
<1>0. Record(wait[w])
  BY DEF RuleInv, Shape, Threads
<1>1. /\ wait[w].pc \in {"scan", "pick", "push"}
      /\ UNCHANGED <<caList, used, rulesIDs, req, results>>
  BY DEF ScanOr, PickAny, PushAny, mgrVars, callVars
<1>2. ASSUME NEW st, NEW id, wait' = [wait EXCEPT ![w] = Returned(wait[w], st, id)]
      PROVE  RuleInv'
  <2> DEFINE X == Returned(wait[w], st, id)
  <2>1. Record(X) /\ X.pc = "idle"
    BY <1>0, ReturnedRecord
  <2>2. wait' = [wait EXCEPT ![w] = X]
    BY <1>2
  <2> HIDE DEF X
  <2> QED
    BY <2>1, <2>2, <1>1, OutsideStep
<1>3. CASE ScanOr(w)
  <2>1. CASE wait' = [wait EXCEPT ![w].at = @ + 1]
    <3> DEFINE X == [wait[w] EXCEPT !.at = wait[w].at + 1]
    <3>1. Record(X) /\ X.pc = wait[w].pc
      BY <1>0, AtRecord, Zenon
    <3>2. wait' = [wait EXCEPT ![w] = X]
      BY <2>1, Zenon
    <3> HIDE DEF X
    <3> QED
      BY <3>1, <3>2, <1>1, OutsideStep
  <2>2. CASE \E st, id : wait' = [wait EXCEPT ![w] = Returned(wait[w], st, id)]
    BY <2>2, <1>2, Zenon
  <2> QED
    BY <1>3, <2>1, <2>2, Zenon DEF ScanOr, Return
<1>4. CASE PickAny(w)
  <2>1. ASSUME NEW x, wait' = [wait EXCEPT ![w].pc = "push", ![w].got = x]
        PROVE  RuleInv'
    <3>0. wait = [v \in Waiter |-> wait[v]]
      BY DEF RuleInv, Shape, Threads
    <3> DEFINE X == [wait[w] EXCEPT !.pc = "push", !.got = x]
    <3>1. Record(X) /\ X.pc = "push"
      BY <1>0, PickRecord, Zenon
    <3>2. wait' = [wait EXCEPT ![w] = X]
      BY <2>1, <3>0
    <3> HIDE DEF X
    <3> QED
      BY <3>1, <3>2, <1>1, OutsideStep
  <2>2. CASE Return(w, "ERROR")
    BY <2>2, <1>2, Zenon DEF Return
  <2> QED
    BY <1>4, <2>1, <2>2, Zenon DEF PickAny
<1>5. CASE PushAny(w)
  BY <1>5, <1>2, Zenon DEF PushAny
<1> QED
  BY <1>3, <1>4, <1>5

\* A call or its callback moves on.
LEMMA CallStep ==
  ASSUME RuleInv, NEW r \in ReqID, Calling(r) \/ Callback(r)
  PROVE  RuleInv'
<1>1. CASE addAsyncCall(r)
  BY <1>1, AddStep
<1>2. ASSUME UNCHANGED <<caList, used, rulesIDs, wait, results>>,
             NEW s, s # "idle", Goto(r, s),
             req[r] \in {"notified", "end"} => s \in {"notified", "end"}
      PROVE  RuleInv'
  <2>1. /\ req' = [x \in ReqID |-> req'[x]]
        /\ \A x \in ReqID :
             /\ req'[x] = "idle" => req[x] = "idle"
             /\ req[x] \in {"notified", "end"} => req'[x] \in {"notified", "end"}
    BY <1>2 DEF Goto, RuleInv, Shape
  <2> QED
    BY <1>2, <2>1, RequestStep
<1>3. CASE notifyRst(r)
  <2>1. /\ req[r] = "cleared" /\ UNCHANGED <<used, rulesIDs, wait, results>>
        /\ \/ caList[r] = "none" /\ Goto(r, "notified") /\ UNCHANGED caList
           \/ /\ caList[r] # "none" /\ caList' = [caList EXCEPT ![r] = "DONE"]
              /\ Goto(r, "loading")
    BY <1>3, Zenon DEF notifyRst
  <2> QED
    BY <1>2, <2>1, LoadStep
<1>4. CASE Download(r)
  <2>1. /\ req[r] = "loading" /\ Goto(r, "notified")
        /\ UNCHANGED <<caList, used, rulesIDs>>
        /\ \/ PostDone(r, caList) /\ results' = results \cup {r}
           \/ UNCHANGED <<wait, results>>
    BY <1>4 DEF Download, mgrVars
  <2> QED
    BY <2>1, NotifyStep
<1>5. CASE SubmissionFails(r)
  BY <1>2, <1>5 DEF SubmissionFails, mgrVars
<1>6. CASE SolveAsync(r)
  BY <1>2, <1>6 DEF SolveAsync, mgrVars
<1>7. CASE SolveAsyncRaises(r) \/ Lose(r)
  BY <1>2, <1>7 DEF SolveAsyncRaises, Lose, mgrVars
<1>8. CASE NotifyClear(r)
  BY <1>2, <1>8 DEF NotifyClear, mgrVars
<1>9. CASE NotifyError(r)
  BY <1>2, <1>9 DEF NotifyError, mgrVars
<1>10. CASE set_req_error(r)
  BY <1>10, IdleStep DEF set_req_error, mgrVars
<1> QED
  BY <1>1, <1>3, <1>4, <1>5, <1>6, <1>7, <1>8, <1>9, <1>10
     DEF Calling, Callback

\* Every step keeps the invariant.
LEMMA RuleInvStep == RuleInv /\ [Next]_vars => RuleInv'
<1> SUFFICES ASSUME RuleInv, [Next]_vars PROVE RuleInv'
  OBVIOUS
<1>1. ASSUME NEW r \in ReqID, Calling(r) \/ Callback(r) PROVE RuleInv'
  BY <1>1, CallStep
<1>2. ASSUME NEW r \in ReqID, deleteAsyncCall(r) PROVE RuleInv'
  BY <1>2, CancelStep DEF deleteAsyncCall, callVars
<1>3. ASSUME NEW w \in Waiter, Waiting(w) PROVE RuleInv'
  <2>1. CASE PushCrashes(w)
    BY <2>1, IdleStep DEF PushCrashes, mgrVars, callVars
  <2> QED
    BY <1>3, <2>1, RuleStep, WakeStep, ResultStep DEF Waiting
<1>4. ASSUME NEW w \in Waiter, StartsWait(w) PROVE RuleInv'
  BY <1>4, StartStep
<1>5. CASE deleteAllAsyncCall
  <2>1. CASE \E last \in Registered : deleteCalls({r \in Registered : r <= last})
    <3>1. PICK last \in Registered : deleteCalls({r \in Registered : r <= last})
      BY <2>1
    <3>2. {r \in Registered : r <= last} \in SUBSET ReqID
      BY DEF Registered
    <3>3. UNCHANGED <<used, rulesIDs, req, results>>
      BY <1>5 DEF deleteAllAsyncCall, callVars
    <3> QED
      BY <3>1, <3>2, <3>3, CancelStep
  <2>2. CASE UNCHANGED <<caList, wait, cancelled>>
    BY <1>5, <2>2, IdleStep DEF deleteAllAsyncCall, callVars
  <2> QED
    BY <1>5, <2>1, <2>2 DEF deleteAllAsyncCall
<1>6. CASE areThereWaitRules
  BY <1>6, IdleStep DEF areThereWaitRules, mgrVars, callVars
<1>7. CASE release
  <2>1. Registered \in SUBSET ReqID
    BY DEF Registered
  <2>2. deleteCalls(Registered) /\ UNCHANGED <<used, rulesIDs, req, results>>
    BY <1>7 DEF release, callVars
  <2> QED
    BY <2>1, <2>2, CancelStep
<1>8. CASE getFailedSession
  BY <1>8, IdleStep DEF getFailedSession, mgrVars, callVars
<1>9. CASE UNCHANGED vars
  BY <1>9, IdleStep DEF vars, mgrVars, callVars
<1> QED
  BY <1>1, <1>2, <1>3, <1>4, <1>5, <1>6, <1>7, <1>8, <1>9 DEF Next

\* RuleInv is inductive, so it holds throughout.
LEMMA RuleInvHolds == Spec => []RuleInv
BY RuleInvInit, RuleInvStep, PTL DEF Spec

\* However many threads wait and requests there are, notifyRst() and the
\* cancellations leave no thread asleep on a rule that is due, but while a result
\* of it is being downloaded, or when its download threw.
THEOREM SleepersArePosted == Spec => []DueRulesArePosted
<1>1. RuleInv => DueRulesArePosted
  BY DEF RuleInv
<1> QED
  BY RuleInvHolds, <1>1, PTL

\* However many threads wait and requests there are, rulesIDs never names the
\* rule of a thread that has left addWaitRule().
THEOREM RulesAreAlive == Spec => []NoDanglingRule
<1>1. RuleInv => NoDanglingRule
  BY DEF RuleInv
<1> QED
  BY RuleInvHolds, <1>1, PTL

------------------------------------------------------------------------------
(* What the client is told about its requests *)

Ids == ReqID \cup {VoidID}
At(s, x) == {i \in DOMAIN s : s[i] = x}

\* An identifier more in a sequence is counted once.
LEMMA CountAppend ==
  ASSUME NEW T, NEW s \in Seq(T), NEW x \in T, NEW r
  PROVE  /\ Cardinality(At(s, r)) \in Nat
         /\ Cardinality(At(Append(s, x), r)) =
              Cardinality(At(s, r)) + (IF x = r THEN 1 ELSE 0)
<1>1. /\ Len(s) \in Nat /\ DOMAIN s = 1..Len(s)
      /\ DOMAIN Append(s, x) = 1..(Len(s) + 1)
      /\ \A i \in 1..Len(s) : Append(s, x)[i] = s[i]
      /\ Append(s, x)[Len(s) + 1] = x
  OBVIOUS
<1>2. IsFiniteSet(At(s, r))
  <2>1. At(s, r) \subseteq 1..Len(s) /\ IsFiniteSet(1..Len(s))
    BY <1>1, FS_Interval DEF At
  <2> QED
    BY <2>1, FS_Subset
<1>3. Cardinality(At(s, r)) \in Nat
  BY <1>2, FS_CardinalityType
<1>4. Len(s) + 1 \notin At(s, r)
  BY <1>1 DEF At
<1>5. CASE x = r
  <2>1. At(Append(s, x), r) = At(s, r) \cup {Len(s) + 1}
    BY <1>1, <1>5 DEF At
  <2> QED
    BY <2>1, <1>2, <1>3, <1>4, <1>5, FS_AddElement
<1>6. CASE x # r
  <2>1. At(Append(s, x), r) = At(s, r)
    BY <1>1, <1>6 DEF At
  <2> QED
    BY <2>1, <1>3, <1>6
<1> QED
  BY <1>3, <1>5, <1>6

\* The first of a sequence is counted once.
LEMMA CountTail ==
  ASSUME NEW T, NEW s \in Seq(T), s # <<>>, NEW r
  PROVE  /\ Cardinality(At(Tail(s), r)) \in Nat
         /\ Cardinality(At(s, r)) =
              Cardinality(At(Tail(s), r)) + (IF Head(s) = r THEN 1 ELSE 0)
<1>1. /\ Len(s) \in Nat /\ Len(s) > 0 /\ DOMAIN s = 1..Len(s)
      /\ DOMAIN Tail(s) = 1..(Len(s) - 1) /\ Head(s) = s[1]
      /\ \A i \in 1..(Len(s) - 1) : Tail(s)[i] = s[i + 1]
  OBVIOUS
<1> DEFINE A == At(Tail(s), r)
           B == At(s, r) \ {1}
<1>2. IsFiniteSet(A)
  <2>1. A \subseteq 1..(Len(s) - 1) /\ IsFiniteSet(1..(Len(s) - 1))
    BY <1>1, FS_Interval DEF At
  <2> QED
    BY <2>1, FS_Subset
<1>3. IsFiniteSet(B) /\ Cardinality(B) = Cardinality(A)
  <2> DEFINE f == [i \in A |-> i + 1]
  <2>1. \A i \in A : i \in 1..(Len(s) - 1) /\ s[i + 1] = r
    BY <1>1 DEF At
  <2>2. f \in [A -> B]
    BY <1>1, <2>1 DEF At
  <2>3. \A i, j \in A : f[i] = f[j] => i = j
    BY <2>1
  <2>4. ASSUME NEW k \in B PROVE \E i \in A : f[i] = k
    <3>1. k \in 2..Len(s) /\ s[k] = r
      BY <1>1 DEF At
    <3>2. k - 1 \in A /\ (k - 1) + 1 = k
      BY <1>1, <3>1 DEF At
    <3> QED
      BY <3>2
  <2> HIDE DEF f, A, B
  <2>5. f \in Bijection(A, B)
    BY <2>2, <2>3, <2>4 DEF Bijection, Injection, Surjection, IsInjective
  <2> QED
    BY <2>5, <1>2, FS_Bijection DEF ExistsBijection
<1>4. Cardinality(A) \in Nat
  BY <1>2, FS_CardinalityType
<1>5. CASE Head(s) = r
  <2>1. At(s, r) = B \cup {1} /\ 1 \notin B
    BY <1>1, <1>5 DEF At
  <2> HIDE DEF A, B
  <2>2. Cardinality(At(s, r)) = Cardinality(B) + 1
    BY <2>1, <1>3, FS_AddElement
  <2> QED
    BY <2>2, <1>3, <1>4, <1>5 DEF A
<1>6. CASE Head(s) # r
  <2>1. At(s, r) = B
    BY <1>1, <1>6 DEF At
  <2> HIDE DEF B
  <2> QED
    BY <2>1, <1>3, <1>4, <1>6
<1> QED
  BY <1>4, <1>5, <1>6

\* As much of the types as the proof needs.
FailTypes ==
  /\ failedSessions \in Seq(Ids)
  /\ errorMap = [x \in Ids |-> errorMap[x]]
  /\ reported \in [Ids -> Nat]
  /\ req = [r \in ReqID |-> req[r]]
  /\ returning = [r \in ReqID |-> returning[r]]

\* What a call is about to return fits where it is.
Matches(r) ==
  /\ returning[r] \in {"nothing", "NO_ERROR", "SERVER_NOT_FOUND", "EXCEPTION"}
  /\ req[r] = "refused" => returning[r] \in {"nothing", "SERVER_NOT_FOUND"}
  /\ req[r] # "refused" => /\ returning[r] # "SERVER_NOT_FOUND"
                           /\ errorMap[r] # "SERVER_NOT_FOUND"
  /\ req[r] \in {"idle", "registered"} => returning[r] = "nothing"

\* FailuresReported, of one request.
Reported(r) ==
  /\ Queued(r) = IF ~Failed(r) THEN 0
                 ELSE IF errorMap[r] = "SERVER_NOT_FOUND"
                         /\ returning[r] = "nothing" THEN 2 ELSE 1
  /\ Failed(r) =>
       \/ errorMap[r] \in {"SOLVE_ERROR", "SERVER_NOT_FOUND"}
       \/ errorMap[r] = "NO_ERROR" /\ returning[r] = "nothing"

FailInv == FailTypes /\ \A r \in ReqID : Matches(r) /\ Reported(r)

\* Nothing has failed and nothing is queued in the initial state.
LEMMA FailInvInit == Init => FailInv
<1> SUFFICES ASSUME Init PROVE FailInv
  OBVIOUS
<1>1. FailTypes
  BY DEF Init, FailTypes, Ids
<1>2. ASSUME NEW r \in ReqID PROVE Matches(r) /\ Reported(r)
  <2>1. /\ req[r] = "idle" /\ returning[r] = "nothing" /\ errorMap[r] = "none"
        /\ reported[r] = 0 /\ failedSessions = <<>>
    BY DEF Init
  <2>2. {i \in DOMAIN failedSessions : failedSessions[i] = r} = {}
    BY <2>1
  <2>3. Queued(r) = 0
    BY <2>1, <2>2, FS_EmptySet DEF Queued
  <2> QED
    BY <2>1, <2>3 DEF Matches, Reported, Failed
<1> QED
  BY <1>1, <1>2 DEF FailInv

\* A code is set: it is queued unless it is NO_ERROR.
LEMMA CodeSet ==
  ASSUME FailInv, NEW x \in Ids, NEW e, setReqErrorCode(x, e)
  PROVE  /\ failedSessions' \in Seq(Ids)
         /\ errorMap' = [y \in Ids |-> errorMap'[y]]
         /\ errorMap'[x] = e /\ \A y \in Ids \ {x} : errorMap'[y] = errorMap[y]
         /\ reported' = reported
         /\ \A r \in ReqID :
              Queued(r)' = Queued(r) + IF e # "NO_ERROR" /\ x = r THEN 1 ELSE 0
<1>1. /\ errorMap' = [errorMap EXCEPT ![x] = e] /\ reported' = reported
      /\ failedSessions' = IF e = "NO_ERROR" THEN failedSessions
                                             ELSE Append(failedSessions, x)
  BY DEF setReqErrorCode
<1>2. /\ failedSessions \in Seq(Ids) /\ reported \in [Ids -> Nat]
      /\ errorMap = [y \in Ids |-> errorMap[y]]
  BY DEF FailInv, FailTypes
<1>3. failedSessions' \in Seq(Ids)
  BY <1>1, <1>2
<1>4. ASSUME NEW r \in ReqID
      PROVE  Queued(r)' = Queued(r) + IF e # "NO_ERROR" /\ x = r THEN 1 ELSE 0
  <2>1. /\ Queued(r) = reported[r] + Cardinality(At(failedSessions, r))
        /\ Queued(r)' = reported[r] + Cardinality(At(failedSessions', r))
    BY <1>1 DEF Queued, At
  <2>2. reported[r] \in Nat
    BY <1>2 DEF Ids
  <2>3. Cardinality(At(failedSessions, r)) \in Nat
    BY <1>2, CountAppend
  <2>4. CASE e = "NO_ERROR"
    BY <2>1, <2>2, <2>3, <2>4, <1>1
  <2>5. CASE e # "NO_ERROR"
    <3>1. Cardinality(At(failedSessions', r)) =
            Cardinality(At(failedSessions, r)) + IF x = r THEN 1 ELSE 0
      BY <2>5, <1>1, <1>2, CountAppend
    <3> QED
      BY <2>1, <2>2, <2>3, <2>5, <3>1
  <2> QED
    BY <2>4, <2>5
<1> QED
  BY <1>1, <1>2, <1>3, <1>4

\* A request whose state, code and counts stay is as it was.
LEMMA SameRow ==
  ASSUME NEW r \in ReqID, Matches(r), Reported(r), Queued(r)' = Queued(r),
         req'[r] = req[r], returning'[r] = returning[r],
         errorMap'[r] = errorMap[r]
  PROVE  Matches(r)' /\ Reported(r)'
BY DEF Matches, Reported, Failed

\* A step that sets the code of one identifier and moves one request on.
LEMMA RowStep ==
  ASSUME FailInv, NEW r \in ReqID, NEW x \in {r, VoidID}, NEW e,
         setReqErrorCode(x, e),
         req' = [y \in ReqID |-> req'[y]],
         returning' = [y \in ReqID |-> returning'[y]],
         \A y \in ReqID \ {r} : req'[y] = req[y] /\ returning'[y] = returning[y],
         Matches(r)' /\ Reported(r)'
  PROVE  FailInv'
<1>1. x \in Ids /\ VoidID \notin ReqID
  BY AsyncAssumption DEF Ids, AsyncAssumption, VoidID
<1>2. FailTypes'
  BY <1>1, CodeSet DEF FailInv, FailTypes
<1>3. ASSUME NEW y \in ReqID \ {r} PROVE Matches(y)' /\ Reported(y)'
  <2>1. y # x /\ y \in Ids
    BY <1>1 DEF Ids
  <2>2. errorMap'[y] = errorMap[y] /\ Queued(y)' = Queued(y) + 0
    BY <1>1, <2>1, CodeSet
  <2>3. Queued(y)' = Queued(y)
    <3>1. Queued(y) \in Nat
      BY DEF FailInv, Reported
    <3> QED
      BY <2>2, <3>1
  <2> QED
    BY <2>2, <2>3, SameRow DEF FailInv
<1> QED
  BY <1>2, <1>3 DEF FailInv

\* A request moves on and no code is set.
LEMMA MoveStep ==
  ASSUME FailInv, NEW r \in ReqID, UNCHANGED errVars,
         req' = [y \in ReqID |-> req'[y]],
         returning' = [y \in ReqID |-> returning'[y]],
         \A y \in ReqID \ {r} : req'[y] = req[y] /\ returning'[y] = returning[y],
         Matches(r)', Failed(r)' <=> Failed(r),
         Failed(r) => returning'[r] = returning[r]
  PROVE  FailInv'
<1>1. UNCHANGED <<errorMap, failedSessions, reported>>
  BY DEF errVars
<1>2. FailTypes'
  BY <1>1 DEF FailInv, FailTypes
<1>3. \A y \in ReqID : Queued(y)' = Queued(y)
  BY <1>1 DEF Queued
<1>4. \A y \in ReqID \ {r} : Matches(y)' /\ Reported(y)'
  BY <1>1, <1>3, SameRow DEF FailInv
<1>5. Reported(r)'
  BY <1>1, <1>3 DEF FailInv, Reported
<1> QED
  BY <1>2, <1>4, <1>5 DEF FailInv

\* The first of the queue is handed out.
LEMMA HandOutStep ==
  ASSUME FailInv, getFailedSession
  PROVE  FailInv'
<1>1. /\ failedSessions # <<>> /\ UNCHANGED <<req, returning, errorMap>>
      /\ reported' = [reported EXCEPT ![Head(failedSessions)] = @ + 1]
      /\ failedSessions' = Tail(failedSessions)
  BY DEF getFailedSession, callVars
<1>2. failedSessions \in Seq(Ids) /\ reported \in [Ids -> Nat]
  BY DEF FailInv, FailTypes
<1>3. Head(failedSessions) \in Ids /\ failedSessions' \in Seq(Ids)
  BY <1>1, <1>2
<1>4. FailTypes'
  BY <1>1, <1>2, <1>3 DEF FailInv, FailTypes
<1>5. ASSUME NEW r \in ReqID PROVE Queued(r)' = Queued(r)
  <2>1. /\ Queued(r) = reported[r] + Cardinality(At(failedSessions, r))
        /\ Queued(r)' = reported'[r] + Cardinality(At(failedSessions', r))
    BY DEF Queued, At
  <2>2. /\ Cardinality(At(failedSessions', r)) \in Nat
        /\ Cardinality(At(failedSessions, r)) =
             Cardinality(At(failedSessions', r))
               + IF Head(failedSessions) = r THEN 1 ELSE 0
    BY <1>1, <1>2, CountTail
  <2>3. /\ reported[r] \in Nat
        /\ reported'[r] = reported[r] + IF Head(failedSessions) = r THEN 1 ELSE 0
    BY <1>1, <1>2 DEF Ids
  <2> QED
    BY <2>1, <2>2, <2>3
<1>6. \A r \in ReqID : Matches(r)' /\ Reported(r)'
  BY <1>1, <1>5, SameRow DEF FailInv
<1> QED
  BY <1>4, <1>6 DEF FailInv

\* Nothing the invariant speaks of changes.
LEMMA FailIdle ==
  ASSUME FailInv, UNCHANGED <<errVars, req, returning>>
  PROVE  FailInv'
<1>1. UNCHANGED <<errorMap, failedSessions, reported>>
  BY DEF errVars
<1>2. \A r \in ReqID : Queued(r)' = Queued(r)
  BY <1>1 DEF Queued
<1>3. FailTypes'
  BY <1>1 DEF FailInv, FailTypes
<1> QED
  BY <1>1, <1>2, <1>3, SameRow DEF FailInv

\* The steps of diet_call_async() and of its like.
LEMMA CallingReports ==
  ASSUME FailInv, NEW r \in ReqID, Calling(r)
  PROVE  FailInv'
<1>0. /\ req = [y \in ReqID |-> req[y]] /\ Matches(r) /\ Reported(r)
      /\ returning = [y \in ReqID |-> returning[y]]
  BY DEF FailInv, FailTypes
<1>1. CASE SubmissionFails(r)
  <2>1. /\ req[r] = "idle" /\ setReqErrorCode(r, "SERVER_NOT_FOUND")
        /\ req' = [req EXCEPT ![r] = "refused"]
        /\ returning' = [returning EXCEPT ![r] = "SERVER_NOT_FOUND"]
    BY <1>1 DEF SubmissionFails, Goto, CallReturns
  <2>2. /\ req'[r] = "refused" /\ returning'[r] = "SERVER_NOT_FOUND"
        /\ \A y \in ReqID \ {r} : req'[y] = req[y] /\ returning'[y] = returning[y]
        /\ req' = [y \in ReqID |-> req'[y]]
        /\ returning' = [y \in ReqID |-> returning'[y]]
    BY <1>0, <2>1
  <2>3. errorMap'[r] = "SERVER_NOT_FOUND" /\ Queued(r)' = Queued(r) + 1
    BY <2>1, CodeSet DEF Ids
  <2>4. Queued(r) = 0
    BY <1>0, <2>1 DEF Reported, Failed
  <2>5. Matches(r)' /\ Reported(r)'
    BY <2>2, <2>3, <2>4 DEF Matches, Reported, Failed
  <2> QED
    BY <2>1, <2>2, <2>5, RowStep
<1>2. CASE addAsyncCall(r) \/ SolveAsync(r) \/ SolveAsyncRaises(r) \/ Lose(r)
  <2>1. /\ UNCHANGED errVars /\ req[r] \in {"idle", "registered", "running"}
        /\ \E s \in {"registered", "running", "lost"} : Goto(r, s)
        /\ \/ UNCHANGED returning
           \/ \E e \in {"NO_ERROR", "EXCEPTION"} :
                CallReturns(r, e) /\ ~Goto(r, "registered")
        /\ req[r] = "idle" \/ ~Goto(r, "registered")
    BY <1>0, <1>2
       DEF addAsyncCall, SolveAsync, SolveAsyncRaises, Lose, Goto
  <2>2. PICK s \in {"registered", "running", "lost"} : Goto(r, s)
    BY <2>1
  <2>3. /\ req'[r] = s /\ req' = [y \in ReqID |-> req'[y]]
        /\ \A y \in ReqID \ {r} : req'[y] = req[y]
    BY <1>0, <2>2 DEF Goto
  <2>4. /\ returning' = [y \in ReqID |-> returning'[y]]
        /\ \A y \in ReqID \ {r} : returning'[y] = returning[y]
        /\ \/ returning'[r] = returning[r] 
           \/ returning'[r] \in {"NO_ERROR", "EXCEPTION"} /\ s # "registered"
        /\ s = "registered" => req[r] = "idle"
    BY <1>0, <2>1, <2>2 DEF CallReturns
  <2>5. ~Failed(r) /\ ~Failed(r)'
    BY <2>1, <2>3 DEF Failed
  <2>6. Matches(r)'
    BY <1>0, <2>1, <2>3, <2>4 DEF Matches, errVars
  <2> QED
    BY <2>1, <2>3, <2>4, <2>5, <2>6, MoveStep
<1>3. CASE set_req_error(r)
  <2>1. /\ returning[r] # "nothing" /\ UNCHANGED req
        /\ returning' = [returning EXCEPT ![r] = "nothing"]
        /\ \E e \in {returning[r], "NO_ERROR"} :
             setReqErrorCode(IF returning[r] = "EXCEPTION" THEN VoidID ELSE r, e)
    BY <1>3 DEF set_req_error, CallReturns
  <2>2. /\ returning'[r] = "nothing" /\ req'[r] = req[r]
        /\ req' = [y \in ReqID |-> req'[y]]
        /\ returning' = [y \in ReqID |-> returning'[y]]
        /\ \A y \in ReqID \ {r} : req'[y] = req[y] /\ returning'[y] = returning[y]
    BY <1>0, <2>1
  <2>3. CASE returning[r] = "EXCEPTION"
    <3>1. PICK e : setReqErrorCode(VoidID, e)
      BY <2>1, <2>3
    <3>2. VoidID \in Ids /\ VoidID # r /\ r \in Ids
      BY AsyncAssumption DEF Ids, AsyncAssumption, VoidID
    <3>3. errorMap'[r] = errorMap[r] /\ Queued(r)' = Queued(r) + 0
      BY <3>1, <3>2, CodeSet
    <3>4. Queued(r) \in Nat /\ req[r] # "refused"
      BY <1>0, <2>3 DEF Reported, Matches
    <3>5. errorMap[r] # "SERVER_NOT_FOUND"
      BY <1>0, <3>4 DEF Matches
    <3>6. Matches(r)' /\ Reported(r)'
      BY <1>0, <2>2, <3>3, <3>4, <3>5 DEF Matches, Reported, Failed
    <3> QED
      BY <2>2, <3>1, <3>6, RowStep
  <2>4. CASE returning[r] # "EXCEPTION"
    <3>1. PICK e \in {returning[r], "NO_ERROR"} : setReqErrorCode(r, e)
      BY <2>1, <2>4
    <3>2. /\ errorMap'[r] = e
          /\ Queued(r)' = Queued(r) + IF e # "NO_ERROR" THEN 1 ELSE 0
      BY <3>1, CodeSet DEF Ids
    <3>3. Queued(r) \in Nat
      BY <1>0 DEF Reported
    <3>4. CASE e = "NO_ERROR"
      <4>1. Queued(r) = IF Failed(r) THEN 1 ELSE 0
        BY <1>0, <2>1 DEF Reported
      <4> QED
        BY <1>0, <2>2, <3>1, <3>2, <3>3, <3>4, <4>1, RowStep
           DEF Matches, Reported, Failed
    <3>5. CASE e # "NO_ERROR"
      <4>1. req[r] = "refused" /\ e = "SERVER_NOT_FOUND"
        BY <1>0, <2>1, <2>4, <3>1, <3>5 DEF Matches
      <4>2. Queued(r) = 1
        BY <1>0, <2>1, <4>1 DEF Reported, Failed
      <4>3. Matches(r)' /\ Reported(r)'
        BY <1>0, <2>2, <3>2, <3>5, <4>1, <4>2 DEF Matches, Reported, Failed
      <4> QED
        BY <2>2, <3>1, <4>3, RowStep
    <3> QED
      BY <3>4, <3>5
  <2> QED
    BY <2>3, <2>4
<1> QED
  BY <1>1, <1>2, <1>3 DEF Calling

\* The steps of a callback.
LEMMA CallbackReports ==
  ASSUME FailInv, NEW r \in ReqID, Callback(r)
  PROVE  FailInv'
<1>0. /\ req = [y \in ReqID |-> req[y]] /\ Matches(r) /\ Reported(r)
      /\ returning = [y \in ReqID |-> returning[y]]
  BY DEF FailInv, FailTypes
<1>1. /\ UNCHANGED returning
      /\ req[r] \in {"running", "cleared", "loading", "notified"}
      /\ \E s \in {"cleared", "loading", "notified", "end"} : Goto(r, s)
      /\ UNCHANGED errVars \/ \E e : setReqErrorCode(r, e)
  BY Zenon DEF Callback, NotifyClear, notifyRst, Download, NotifyError
<1>2. PICK s \in {"cleared", "loading", "notified", "end"} : Goto(r, s)
  BY <1>1
<1>3. /\ req'[r] = s /\ req' = [y \in ReqID |-> req'[y]]
      /\ returning' = [y \in ReqID |-> returning'[y]]
      /\ \A y \in ReqID \ {r} : req'[y] = req[y] /\ returning'[y] = returning[y]
  BY <1>0, <1>1, <1>2 DEF Goto
<1>4. ~Failed(r) /\ Queued(r) = 0
  BY <1>0, <1>1 DEF Failed, Reported
<1>5. CASE UNCHANGED errVars /\ (s = "end" => r \notin Failing)
  <2>1. Matches(r)' /\ ~Failed(r)'
    BY <1>0, <1>1, <1>3, <1>5 DEF Matches, Failed, errVars
  <2> QED
    BY <1>1, <1>3, <1>4, <1>5, <2>1, MoveStep
<1>6. CASE NotifyClear(r)
  <2>1. setReqErrorCode(r, "NO_ERROR") /\ Goto(r, "cleared")
    BY <1>6 DEF NotifyClear
  <2>2. errorMap'[r] = "NO_ERROR" /\ Queued(r)' = 0 /\ req'[r] = "cleared"
    BY <1>0, <1>4, <2>1, CodeSet DEF Ids, Goto
  <2>3. Matches(r)' /\ Reported(r)'
    BY <1>0, <1>1, <2>2 DEF Matches, Reported, Failed
  <2> QED
    BY <1>3, <2>1, <2>3, RowStep
<1>7. CASE NotifyError(r) /\ r \in Failing
  <2>1. setReqErrorCode(r, "SOLVE_ERROR") /\ Goto(r, "end")
    BY <1>7 DEF NotifyError
  <2>2. errorMap'[r] = "SOLVE_ERROR" /\ Queued(r)' = 1 /\ req'[r] = "end"
    BY <1>0, <1>4, <2>1, CodeSet DEF Ids, Goto
  <2>3. Matches(r)' /\ Reported(r)'
    BY <1>0, <1>1, <1>7, <2>2 DEF Matches, Reported, Failed
  <2> QED
    BY <1>3, <2>1, <2>3, RowStep
<1>8. CASE NotifyError(r) /\ r \notin Failing
  BY <1>5, <1>8 DEF NotifyError
<1>9. CASE notifyRst(r) \/ Download(r)
  <2>1. UNCHANGED errVars /\ (Goto(r, "notified") \/ Goto(r, "loading"))
    BY <1>9, Zenon DEF notifyRst, Download
  <2>2. s # "end"
    BY <1>0, <1>2, <1>3, <2>1 DEF Goto
  <2> QED
    BY <1>5, <2>1, <2>2
<1> QED
  BY <1>6, <1>7, <1>8, <1>9 DEF Callback

\* Every step keeps it: a failure is queued when its request comes to its end.
LEMMA FailInvStep == FailInv /\ [Next]_vars => FailInv'
<1> SUFFICES ASSUME FailInv, [Next]_vars PROVE FailInv'
  OBVIOUS
<1>1. ASSUME NEW r \in ReqID, Calling(r) PROVE FailInv'
  BY <1>1, CallingReports
<1>2. ASSUME NEW r \in ReqID, Callback(r) PROVE FailInv'
  BY <1>2, CallbackReports
<1>3. ASSUME NEW w \in Waiter, Waiting(w) \/ StartsWait(w) PROVE FailInv'
  <2>1. UNCHANGED <<errVars, callVars>>
    BY <1>3, Zenon
       DEF Waiting, StartsWait, addWaitRule, Wake, ScanOr, PickAny, PushAny,
           PushCrashes, WaitFor, WaitAll, WaitAny
  <2> QED
    BY <2>1, FailIdle DEF callVars
<1>4. CASE \E r \in ReqID : deleteAsyncCall(r)
  BY <1>4, FailIdle DEF deleteAsyncCall, callVars
<1>5. CASE deleteAllAsyncCall \/ areThereWaitRules \/ release
  BY <1>5, FailIdle DEF deleteAllAsyncCall, areThereWaitRules, release, callVars
<1>6. CASE UNCHANGED vars
  BY <1>6, FailIdle DEF vars, callVars
<1> QED
  BY <1>1, <1>2, <1>3, <1>4, <1>5, <1>6, HandOutStep DEF Next

\* However many requests there are, one that failed is queued for
\* getFailedSession() once, twice when diet_call_async() was refused, and no
\* other is; its code is cleared by set_req_error() only.
THEOREM FailuresAreReported == Spec => []FailuresReported
<1>1. FailInv => FailuresReported
  BY DEF FailInv, FailuresReported, Reported
<1> QED
  BY FailInvInit, FailInvStep, <1>1, PTL DEF Spec
-----------------------------------------------------------------------------
\* notifyRst() has left its download behind, or has reached it.
Stored(r) == req[r] \in {"notified", "end"}
Told(r) == req[r] \in {"loading", "notified", "end"}

\* A step that takes nothing of this back.
Keeps ==
  \A r \in ReqID : (Stored(r) => Stored(r)') /\ (Told(r) => Told(r)')

Holds(r) == r \in ReqID /\ Told(r)
Every(w) == wait[w].op \notin {"OR", "ANY"}
Awaited(w) ==
  \A r \in Elements(w) : r \in ReqID /\ (caList[r] # "none" \/ r \in cancelled)
Answered(w) ==
  \A r \in Elements(w) : r \in ReqID /\ (Stored(r) \/ r \in cancelled)

\* The rule a thread has built.
Built(w) ==
  /\ wait[w].op \in {"SOLE", "AND", "OR", "ALL", "ANY"}
  /\ wait[w].at \in Nat \ {0}
  /\ wait[w].op = "OR" => wait[w].elts \in Seq(ReqID)
  /\ wait[w].op = "SOLE" => \A r, s \in Elements(w) : r = s
  /\ wait[w].pc = "rule" => wait[w].status = "RESOLVING"
  /\ wait[w].pc = "scan" => wait[w].op = "OR"
  /\ wait[w].pc \in {"pick", "push"} => wait[w].op = "ANY"

\* What a thread knows of its requests while it waits, and when it returns.
Sound(w) ==
  /\ wait[w].pc \in {"rule", "asleep", "spin"} /\ Every(w) => Awaited(w)
  /\ wait[w].pc \in {"asleep", "spin"} /\ wait[w].status = "DONE" /\ Every(w) =>
       Answered(w)
  /\ wait[w].pc = "push" => Holds(wait[w].got)
  /\ wait[w].pc = "idle" /\ wait[w].result = "DONE" =>
       IF Every(w) THEN Answered(w) ELSE Holds(wait[w].got)

\* notifyRst() sets DONE before the download.
DoneAreTold == \A r \in ReqID : caList[r] = "DONE" => Told(r)

\* It keeps the lock while it downloads.
OneLoads ==
  \A r, s \in ReqID : req[r] = "loading" /\ req[s] = "loading" => r = s

StoredInv == DoneAreTold /\ OneLoads /\ \A w \in Waiter : Built(w) /\ Sound(w)

\* Nobody waits in the initial state.
LEMMA StoredInvInit == Init => StoredInv
<1> SUFFICES ASSUME Init PROVE StoredInv
  OBVIOUS
<1>1. \A w \in Waiter : /\ wait[w].pc = "idle" /\ wait[w].op = "SOLE"
                        /\ wait[w].at = 1 /\ wait[w].result = "none"
                        /\ wait[w].elts = <<>>
  BY DEF Init
<1>2. \A w \in Waiter : Elements(w) = {}
  BY <1>1 DEF Elements, ToSet
<1>3. DoneAreTold /\ OneLoads
  BY DEF Init, DoneAreTold, OneLoads
<1> QED
  BY <1>1, <1>2, <1>3 DEF StoredInv, Built, Sound

\* Results that are there stay, and a request disappears only by being
\* cancelled: what a thread knew is still so.
LEMMA SoundStays ==
  ASSUME NEW w \in Waiter, Built(w) /\ Sound(w), wait'[w] = wait[w],
         Keeps, cancelled \subseteq cancelled',
         \A r \in ReqID : caList[r] # "none" => caList'[r] # "none" \/ r \in cancelled'
  PROVE  (Built(w) /\ Sound(w))'
<1>1. Elements(w)' = Elements(w)
  BY DEF Elements
<1>2. Every(w)' <=> Every(w)
  BY DEF Every
<1>3. Awaited(w) => Awaited(w)'
  BY <1>1 DEF Awaited
<1>4. Answered(w) => Answered(w)'
  BY <1>1 DEF Answered, Keeps
<1>5. Holds(wait[w].got) => Holds(wait[w].got)'
  BY DEF Holds, Keeps
<1>6. Built(w)'
  BY <1>1 DEF Built
<1>7. Sound(w)'
  BY <1>2, <1>3, <1>4, <1>5 DEF Sound
<1> QED
  BY <1>6, <1>7

\* A step of one thread.
LEMMA OneThread ==
  ASSUME StoredInv, RuleInv, NEW w \in Waiter, NEW X, wait' = [wait EXCEPT ![w] = X],
         UNCHANGED <<caList, req, cancelled>>, (Built(w) /\ Sound(w))'
  PROVE  StoredInv'
<1>1. \A v \in Waiter \ {w} : wait'[v] = wait[v]
  BY DEF RuleInv, Shape, Threads
<1>2. DoneAreTold' /\ OneLoads' /\ Keeps
  BY DEF StoredInv, DoneAreTold, OneLoads, Keeps, Stored, Told
<1>3. \A v \in Waiter \ {w} : (Built(v) /\ Sound(v))'
  BY <1>1, <1>2, SoundStays DEF StoredInv
<1> QED
  BY <1>2, <1>3 DEF StoredInv

\* Nothing the invariant speaks of changes.
LEMMA IdleSound ==
  ASSUME StoredInv, UNCHANGED <<caList, wait, req, cancelled>>
  PROVE  StoredInv'
<1>1. DoneAreTold' /\ OneLoads' /\ Keeps
  BY DEF StoredInv, DoneAreTold, OneLoads, Keeps, Stored, Told
<1> QED
  BY <1>1, SoundStays DEF StoredInv

\* What the record of a wait holds after its return.
LEMMA ReturnedFields ==
  ASSUME NEW R, Record(R), NEW st, NEW id
  PROVE  /\ Returned(R, st, id).pc = "idle" /\ Returned(R, st, id).op = R.op
         /\ Returned(R, st, id).elts = R.elts /\ Returned(R, st, id).at = 1
         /\ Returned(R, st, id).result = st /\ Returned(R, st, id).got = id
BY DEF Record, Field, Returned

\* A wait returns, and what it reports is so.
LEMMA ReturnSound ==
  ASSUME StoredInv, RuleInv, NEW w \in Waiter, NEW st, NEW id,
         wait' = [wait EXCEPT ![w] = Returned(wait[w], st, id)],
         UNCHANGED <<caList, req, cancelled>>,
         st = "DONE" => IF Every(w) THEN Answered(w) ELSE Holds(id)
  PROVE  StoredInv'
<1>0. Record(wait[w]) /\ wait = [v \in Waiter |-> wait[v]]
  BY DEF RuleInv, Shape, Threads
<1>1. wait'[w] = Returned(wait[w], st, id)
  BY <1>0
<1>2. /\ wait'[w].pc = "idle" /\ wait'[w].op = wait[w].op
      /\ wait'[w].elts = wait[w].elts /\ wait'[w].at = 1
      /\ wait'[w].result = st /\ wait'[w].got = id
  BY <1>0, <1>1, ReturnedFields
<1>3. Elements(w)' = Elements(w)
  BY <1>2 DEF Elements
<1>4. (Every(w)' <=> Every(w)) /\ (Answered(w) => Answered(w)')
  BY <1>2, <1>3 DEF Every, Answered, Stored
<1>5. Holds(id) => Holds(wait[w].got)'
  BY <1>2 DEF Holds, Told
<1>6. Built(w)'
  BY <1>2, <1>3 DEF StoredInv, Built
<1>7. Sound(w)'
  BY <1>2, <1>4, <1>5 DEF Sound
<1> QED
  BY <1>6, <1>7, OneThread

\* A thread moves on in its wait: the rest of its rule stays.
LEMMA MoveSound ==
  ASSUME StoredInv, RuleInv, NEW w \in Waiter, NEW p,
         wait' = [wait EXCEPT ![w].pc = p], UNCHANGED <<caList, req, cancelled>>,
         \/ p = "asleep" /\ wait[w].pc = "rule"
         \/ p = "spin" /\ wait[w].pc = "asleep"
         \/ p = "scan" /\ wait[w].op = "OR"
         \/ p = "pick" /\ wait[w].op = "ANY"
  PROVE  StoredInv'
<1>0. Record(wait[w]) /\ wait = [v \in Waiter |-> wait[v]]
  BY DEF RuleInv, Shape, Threads
<1> DEFINE X == [wait[w] EXCEPT !.pc = p]
<1>1. wait' = [wait EXCEPT ![w] = X]
  BY Zenon
<1>2. wait'[w] = X
  BY <1>0, <1>1
<1>3. /\ wait'[w].pc = p /\ wait'[w].op = wait[w].op
      /\ wait'[w].elts = wait[w].elts /\ wait'[w].at = wait[w].at
      /\ wait'[w].status = wait[w].status
  <2>1. X.pc = p /\ \A f \in Field \ {"pc"} : X[f] = wait[w][f]
    BY <1>0 DEF Record, Field
  <2> HIDE DEF X
  <2> QED
    BY <1>2, <2>1 DEF Field
<1> HIDE DEF X
<1>4. Elements(w)' = Elements(w)
  BY <1>3 DEF Elements
<1>5. (Every(w)' <=> Every(w)) /\ (Answered(w) => Answered(w)')
      /\ (Awaited(w) => Awaited(w)')
  BY <1>3, <1>4 DEF Every, Answered, Awaited, Stored
<1>6. Built(w)'
  BY <1>3, <1>4 DEF StoredInv, Built
<1>7. Sound(w)'
  BY <1>3, <1>5 DEF StoredInv, Sound, Built
<1> QED
  BY <1>1, <1>6, <1>7, OneThread

\* A thread goes on with the status of its rule.
LEMMA AfterSound ==
  ASSUME StoredInv, RuleInv, NEW w \in Waiter, NEW st, After(w, st),
         UNCHANGED <<caList, req, cancelled>>,
         st = "DONE" /\ Every(w) => Answered(w)
  PROVE  StoredInv'
<1>1. CASE Return(w, st) /\ ~(st = "DONE" /\ ~Every(w))
  BY <1>1, ReturnSound, Zenon DEF Return
<1>2. CASE wait[w].op \in {"OR", "ANY"}
           /\ wait' = [wait EXCEPT ![w].pc =
                         IF wait[w].op = "OR" THEN "scan" ELSE "pick"]
  BY <1>2, MoveSound
<1> QED
  BY <1>1, <1>2, Zenon DEF After, Every

\* Requests are numbers, and finitely many.
LEMMA RequestSets ==
  ASSUME NEW S \in SUBSET ReqID
  PROVE  S \in SUBSET Nat /\ IsFiniteSet(S)
BY AsyncAssumption, FS_Subset DEF AsyncAssumption

\* A thread reads what its wait returns.
LEMMA ScanSound ==
  ASSUME StoredInv, RuleInv, NEW w \in Waiter, ScanOr(w)
  PROVE  StoredInv'
<1> DEFINE i == wait[w].at
<1>1. /\ wait[w].pc = "scan" /\ wait[w].op = "OR" /\ i \in Nat \ {0}
      /\ wait[w].elts \in Seq(ReqID)
      /\ UNCHANGED <<caList, req, cancelled>>
  BY DEF ScanOr, StoredInv, Built, mgrVars, callVars, envVars
<1>2. CASE Return(w, "ERROR")
  BY <1>1, <1>2, ReturnSound DEF Return
<1>3. CASE /\ ~(i > Len(wait[w].elts)) /\ caList[wait[w].elts[i]] = "DONE"
           /\ wait' = [wait EXCEPT ![w] = Returned(@, "DONE", wait[w].elts[i])]
  <2>1. wait[w].elts[i] \in ReqID
    BY <1>1, <1>3
  <2>2. Holds(wait[w].elts[i]) /\ ~Every(w)
    BY <1>1, <1>3, <2>1 DEF StoredInv, DoneAreTold, Holds, Every
  <2> QED
    BY <1>1, <1>3, <2>2, ReturnSound
<1>4. CASE wait' = [wait EXCEPT ![w].at = @ + 1]
  <2>0. Record(wait[w]) /\ wait = [v \in Waiter |-> wait[v]]
    BY DEF RuleInv, Shape, Threads
  <2> DEFINE X == [wait[w] EXCEPT !.at = i + 1]
  <2>1. wait' = [wait EXCEPT ![w] = X]
    BY <1>4, Zenon
  <2>2. wait'[w] = X
    BY <2>0, <2>1
  <2>3. X.at = i + 1 /\ \A f \in Field \ {"at"} : X[f] = wait[w][f]
    BY <2>0 DEF Record, Field
  <2> HIDE DEF X
  <2>4. wait'[w].at = i + 1 /\ \A f \in Field \ {"at"} : wait'[w][f] = wait[w][f]
    BY <2>2, <2>3
  <2>5. /\ wait'[w].pc = "scan" /\ wait'[w].op = "OR"
        /\ wait'[w].elts = wait[w].elts
    BY <1>1, <2>4 DEF Field
  <2>6. Built(w)'
    BY <1>1, <2>4, <2>5 DEF Built
  <2>7. Sound(w)'
    BY <2>5 DEF Sound
  <2> QED
    BY <1>1, <2>1, <2>6, <2>7, OneThread
<1> QED
  BY <1>2, <1>3, <1>4, Zenon DEF ScanOr

\* What wait_any picks is DONE.
LEMMA PickSound ==
  ASSUME StoredInv, RuleInv, NEW w \in Waiter, PickAny(w)
  PROVE  StoredInv'
<1> DEFINE ready == {r \in Registered \ ToSet(doneRequests) : caList[r] = "DONE"}
<1>1. /\ wait[w].pc = "pick" /\ wait[w].op = "ANY"
      /\ UNCHANGED <<caList, req, cancelled>>
  BY DEF PickAny, StoredInv, Built, mgrVars, callVars
<1>2. CASE Return(w, "ERROR")
  BY <1>1, <1>2, ReturnSound DEF Return
<1>3. CASE /\ ready # {}
           /\ wait' = [wait EXCEPT ![w].pc = "push",
                                   ![w].got = Head(InOrder(ready))]
  <2>0. Record(wait[w]) /\ wait = [v \in Waiter |-> wait[v]]
    BY DEF RuleInv, Shape, Threads
  <2>1. PICK x : x = Head(InOrder(ready))
    OBVIOUS
  <2>2. ready \in SUBSET ReqID
    BY DEF Registered
  <2>3. x \in ready
    BY <1>3, <2>1, <2>2, InOrderLists, RequestSets
  <2>4. Holds(x)
    BY <2>2, <2>3 DEF StoredInv, DoneAreTold, Holds
  <2> DEFINE X == [wait[w] EXCEPT !.pc = "push", !.got = x]
  <2>5. wait' = [wait EXCEPT ![w] = X]
    BY <1>3, <2>0, <2>1
  <2>6. /\ X.pc = "push" /\ X.got = x
        /\ X.op = wait[w].op /\ X.elts = wait[w].elts /\ X.at = wait[w].at
    BY <2>0 DEF Record, Field
  <2> HIDE DEF X
  <2>7. /\ wait'[w].pc = "push" /\ wait'[w].op = "ANY" /\ wait'[w].got = x
        /\ wait'[w].elts = wait[w].elts /\ wait'[w].at = wait[w].at
    BY <2>0, <2>5, <2>6, <1>1
  <2>8. Built(w)'
    BY <1>1, <2>7 DEF StoredInv, Built
  <2>9. Sound(w)'
    BY <1>1, <2>4, <2>7 DEF Sound, Holds, Told
  <2> QED
    BY <1>1, <2>5, <2>8, <2>9, OneThread
<1> QED
  BY <1>2, <1>3, Zenon DEF PickAny

\* What it has picked is kept until it returns.
LEMMA PushSound ==
  ASSUME StoredInv, RuleInv, NEW w \in Waiter, PushAny(w)
  PROVE  StoredInv'
<1>1. /\ wait[w].pc = "push" /\ UNCHANGED <<caList, req, cancelled>>
      /\ wait' = [wait EXCEPT ![w] = Returned(@, "DONE", wait[w].got)]
  BY Zenon DEF PushAny, callVars
<1>2. Holds(wait[w].got) /\ ~Every(w)
  BY <1>1 DEF StoredInv, Built, Sound, Every
<1> QED
  BY <1>1, <1>2, ReturnSound

\* A wait starts: for requests that are all registered.
LEMMA StartSound ==
  ASSUME StoredInv, RuleInv, NEW w \in Waiter, StartsWait(w)
  PROVE  StoredInv'
<1>0. Record(wait[w]) /\ wait = [v \in Waiter |-> wait[v]]
  BY DEF RuleInv, Shape, Threads
<1>1. wait[w].pc = "idle" /\ UNCHANGED <<caList, req, cancelled>>
  BY DEF StartsWait, WaitFor, WaitAll, WaitAny, Starts, mgrVars, callVars,
         envVars, Crash
<1>2. ASSUME NEW o, NEW s, NewRule(w, o, s),
             o \in {"SOLE", "AND", "OR", "ALL", "ANY"},
             o = "OR" => s \in Seq(ReqID),
             o = "SOLE" => \A x, y \in ToSet(s) : x = y,
             o \notin {"OR", "ANY"} => ToSet(s) \subseteq Registered
      PROVE  StoredInv'
  <2> DEFINE X == [pc |-> "rule", op |-> o, elts |-> s,
                   status |-> "RESOLVING", sem |-> 0, at |-> 1,
                   result |-> "none", got |-> -1, count |-> wait[w].count + 1]
  <2>1. wait' = [wait EXCEPT ![w] = X]
    BY <1>2 DEF NewRule
  <2>2. /\ X.pc = "rule" /\ X.op = o /\ X.elts = s /\ X.at = 1
        /\ X.status = "RESOLVING"
    OBVIOUS
  <2> HIDE DEF X
  <2>3. /\ wait'[w].pc = "rule" /\ wait'[w].op = o /\ wait'[w].elts = s
        /\ wait'[w].at = 1 /\ wait'[w].status = "RESOLVING"
    BY <1>0, <2>1, <2>2
  <2>4. Elements(w)' = ToSet(s)
    BY <2>3 DEF Elements
  <2>5. Built(w)'
    BY <1>2, <2>3, <2>4 DEF Built
  <2>6. Sound(w)'
    BY <1>1, <1>2, <2>3, <2>4 DEF Sound, Every, Awaited, Registered
  <2> QED
    BY <1>1, <2>1, <2>5, <2>6, OneThread
<1>3. ASSUME NEW st, st # "DONE", Refuse(w, st) PROVE StoredInv'
  <2> DEFINE X == Refused(wait[w], st)
  <2>1. wait' = [wait EXCEPT ![w] = X]
    BY <1>3, Zenon DEF Refuse
  <2>2. wait'[w] = X
    BY <1>0, <2>1
  <2>3. X.result = st /\ \A f \in Field \ {"result", "count"} : X[f] = wait[w][f]
    BY <1>0 DEF Record, Field, Refused
  <2> HIDE DEF X
  <2>c. {"pc", "op", "elts", "at"} \subseteq Field \ {"result", "count"}
    BY DEF Field
  <2>d. /\ X.pc = wait[w].pc /\ X.op = wait[w].op /\ X.elts = wait[w].elts
        /\ X.at = wait[w].at
    BY <2>3, <2>c
  <2>4. /\ wait'[w].result = st /\ wait'[w].pc = "idle"
        /\ wait'[w].op = wait[w].op /\ wait'[w].elts = wait[w].elts
        /\ wait'[w].at = wait[w].at
    BY <1>1, <2>2, <2>3, <2>d
  <2>e. Built(w)
    BY DEF StoredInv
  <2>5. Built(w)'
    BY <2>4, <2>e DEF Built, Elements
  <2>6. Sound(w)'
    BY <1>3, <2>4 DEF Sound
  <2> QED
    BY <1>1, <2>1, <2>5, <2>6, OneThread
<1>4. ASSUME NEW o \in {"SOLE", "AND", "OR"}, NEW s \in Seq(ReqID), WaitFor(w, o, s),
             o = "SOLE" => \A x, y \in ToSet(s) : x = y
      PROVE  StoredInv'
  <2>1. \/ NewRule(w, o, s) /\ ToSet(s) \subseteq Registered
        \/ Refuse(w, "INVALID")
    BY <1>4, Zenon DEF WaitFor
  <2> QED
    BY <2>1, <1>2, <1>3, <1>4
<1>5. ASSUME NEW r \in ReqID, WaitFor(w, "SOLE", <<r>>) PROVE StoredInv'
  <2>1. <<r>> \in Seq(ReqID) /\ \A x, y \in ToSet(<<r>>) : x = y
    BY DEF ToSet
  <2> QED
    BY <2>1, <1>4, <1>5
<1>6. ASSUME NEW o \in {"AND", "OR"}, NEW s \in Requests, WaitFor(w, o, s)
      PROVE  StoredInv'
  <2>1. s \in Seq(ReqID)
    <3>1. \E m \in 0..2 : s \in [1..m -> ReqID]
      BY Zenon DEF Requests, BoundedSeq, SeqOf
    <3> QED
      BY <3>1
  <2> QED
    BY <2>1, <1>4, <1>6
<1>7. CASE WaitAll(w)
  <2>1. NewRule(w, "ALL", InOrder(Registered)) /\ Registered \in SUBSET ReqID
    BY <1>7 DEF WaitAll, Registered
  <2>2. ToSet(InOrder(Registered)) \subseteq Registered
    BY <2>1, InOrderLists, RequestSets
  <2> QED
    BY <2>1, <2>2, <1>2
<1>8. CASE WaitAny(w)
  <2>1. (\E s : NewRule(w, "ANY", s)) \/ Refuse(w, "ERROR") \/ UNCHANGED wait
    BY <1>8, Zenon DEF WaitAny
  <2> QED
    BY <2>1, <1>1, <1>2, <1>3, IdleSound
<1> QED
  BY <1>5, <1>6, <1>7, <1>8 DEF StartsWait

\* addWaitRule() returns at once only for results that are stored already.
LEMMA RuleSound ==
  ASSUME StoredInv, RuleInv, NEW w \in Waiter, addWaitRule(w)
  PROVE  StoredInv'
<1>1. /\ wait[w].pc = "rule" /\ UNCHANGED <<caList, req, cancelled>>
      /\ \A r \in ReqID : req[r] # "loading"
  BY DEF addWaitRule, callVars, envVars, Writable
<1>2. CASE Return(w, "ERROR")
  BY <1>1, <1>2, ReturnSound DEF Return
<1>3. CASE Elements(w) \subseteq Registered /\ Satisfied(w) /\ After(w, "DONE")
  <2>1. ASSUME Every(w) PROVE Answered(w)
    <3>1. \A r \in Elements(w) : r \in ReqID /\ caList[r] \in {"RESOLVING", "DONE"}
      BY <1>3 DEF Registered, RuleInv, Shape
    <3>2. \A r \in Elements(w) : caList[r] = "DONE"
      <4>1. CASE \A r \in Elements(w) : caList[r] # "RESOLVING"
        BY <3>1, <4>1
      <4>2. CASE wait[w].op \notin {"ALL", "AND"}
                 /\ \E r \in Elements(w) : caList[r] = "DONE"
        <5>1. PICK r \in Elements(w) : caList[r] = "DONE"
          BY <4>2
        <5>2. wait[w].op = "SOLE"
          BY <2>1, <4>2 DEF Every, StoredInv, Built
        <5> QED
          BY <5>1, <5>2 DEF StoredInv, Built
      <4> QED
        BY <1>3, <4>1, <4>2 DEF Satisfied
    <3> QED
      BY <1>1, <3>1, <3>2 DEF StoredInv, DoneAreTold, Told, Stored, Answered
  <2> QED
    BY <1>1, <1>3, <2>1, AfterSound
<1>4. CASE wait' = [wait EXCEPT ![w].pc = "asleep"]
  BY <1>1, <1>4, MoveSound
<1> QED
  BY <1>2, <1>3, <1>4, Zenon DEF addWaitRule

\* A thread that wakes reads the status its notifier left.
LEMMA WakeSound ==
  ASSUME StoredInv, RuleInv, NEW w \in Waiter, Wake(w)
  PROVE  StoredInv'
<1>1. wait[w].pc = "asleep" /\ UNCHANGED <<caList, req, cancelled>>
  BY DEF Wake, callVars, envVars
<1>2. CASE wait' = [wait EXCEPT ![w].pc = "spin"]
  BY <1>1, <1>2, MoveSound
<1>3. CASE After(w, wait[w].status)
  <2>1. wait[w].status = "DONE" /\ Every(w) => Answered(w)
    BY <1>1 DEF StoredInv, Sound
  <2> QED
    BY <1>1, <1>3, <2>1, AfterSound
<1> QED
  BY <1>2, <1>3, Zenon DEF Wake, deleteWaitRule

\* A call moves on, and not back.
LEMMA GotoKeeps ==
  ASSUME RuleInv, NEW r \in ReqID, NEW s, Goto(r, s),
         Stored(r) => s \in {"notified", "end"},
         Told(r) => s \in {"loading", "notified", "end"}
  PROVE  Keeps
<1>1. req'[r] = s /\ \A x \in ReqID \ {r} : req'[x] = req[x]
  BY DEF RuleInv, Shape, Goto
<1> QED
  BY <1>1 DEF Keeps, Stored, Told

\* It loads only when no other does.
LEMMA GotoLoads ==
  ASSUME RuleInv, OneLoads, NEW r \in ReqID, NEW s, Goto(r, s),
         s # "loading" \/ \A x \in ReqID : req[x] # "loading"
  PROVE  OneLoads'
<1>1. req'[r] = s /\ \A x \in ReqID \ {r} : req'[x] = req[x]
  BY DEF RuleInv, Shape, Goto
<1> QED
  BY <1>1 DEF OneLoads

\* A call that moves on takes no stored result away.
LEMMA CallSound ==
  ASSUME StoredInv, RuleInv, NEW r \in ReqID, Calling(r)
  PROVE  StoredInv'
<1>1. CASE set_req_error(r)
  BY <1>1, IdleSound DEF set_req_error, mgrVars, envVars
<1>2. CASE \/ SubmissionFails(r) \/ addAsyncCall(r) \/ SolveAsync(r)
           \/ SolveAsyncRaises(r) \/ Lose(r)
  <2>1. /\ req[r] \in {"idle", "registered", "running"}
        /\ UNCHANGED <<wait, cancelled>>
        /\ \E s \in {"refused", "registered", "running", "lost"} : Goto(r, s)
    BY <1>2 DEF SubmissionFails, addAsyncCall, SolveAsync, SolveAsyncRaises, Lose,
                envVars
  <2>2. PICK s \in {"refused", "registered", "running", "lost"} : Goto(r, s)
    BY <2>1
  <2>3. ~Stored(r) /\ ~Told(r) /\ s # "loading"
    BY <2>1 DEF Stored, Told
  <2>4. Keeps
    BY <2>2, <2>3, GotoKeeps
  <2>5. \A x \in ReqID : \/ caList'[x] = caList[x]
                         \/ caList[x] = "none" /\ caList'[x] = "RESOLVING"
    BY <1>2 DEF SubmissionFails, addAsyncCall, SolveAsync, SolveAsyncRaises, Lose,
                mgrVars, RuleInv, Shape
  <2>6. DoneAreTold'
    BY <2>4, <2>5 DEF StoredInv, DoneAreTold, Keeps
  <2>7. OneLoads'
    BY <2>2, <2>3, GotoLoads DEF StoredInv
  <2>8. \A w \in Waiter : (Built(w) /\ Sound(w))'
    BY <2>1, <2>4, <2>5, SoundStays DEF StoredInv
  <2> QED
    BY <2>6, <2>7, <2>8 DEF StoredInv
<1> QED
  BY <1>1, <1>2 DEF Calling

\* Posts leave the rule alone but for its status.
LEMMA PostedFields ==
  ASSUME NEW R, Record(R), NEW st, NEW n
  PROVE  /\ \A f \in Field \ {"status", "sem"} : Post(R, st, n)[f] = R[f]
         /\ Post(R, st, n).status = st
<1>1. PICK A : A = [R EXCEPT !.status = st]
  OBVIOUS
<1>2. /\ DOMAIN A = Field /\ A.status = st
      /\ \A f \in Field \ {"status"} : A[f] = R[f]
  BY <1>1 DEF Record, Field
<1>3. PICK S : S = Post(R, st, n)
  OBVIOUS
<1>4. S = [A EXCEPT !.sem = R.sem + n]
  BY <1>1, <1>3, Zenon DEF Post
<1>5. /\ \A f \in Field \ {"status", "sem"} : S[f] = R[f]
      /\ S.status = st
  BY <1>2, <1>4 DEF Field
<1> QED
  BY <1>3, <1>5

\* A thread in addWaitRule() is told DONE only when all of its requests are
\* answered, if it waits for all.
LEMMA PostSound ==
  ASSUME NEW w \in Waiter, Record(wait[w]), Built(w) /\ Sound(w),
         wait[w].pc \in {"asleep", "spin"},
         NEW st, NEW n, wait'[w] = Post(wait[w], st, n),
         Keeps, cancelled \subseteq cancelled',
         \A r \in ReqID : caList[r] # "none" => caList'[r] # "none" \/ r \in cancelled',
         st = "DONE" /\ Every(w) /\ Awaited(w) =>
           \A r \in Elements(w) : Stored(r)' \/ r \in cancelled'
  PROVE  (Built(w) /\ Sound(w))'
<1>1. /\ wait'[w].status = st
      /\ \A f \in Field \ {"status", "sem"} : wait'[w][f] = wait[w][f]
  BY PostedFields
<1>2. /\ wait'[w].pc = wait[w].pc /\ wait'[w].op = wait[w].op
      /\ wait'[w].elts = wait[w].elts /\ wait'[w].at = wait[w].at
  BY <1>1 DEF Field
<1>3. Elements(w)' = Elements(w)
  BY <1>2 DEF Elements
<1>4. Every(w)' <=> Every(w)
  BY <1>2 DEF Every
<1>5. Every(w) => Awaited(w)
  BY DEF Sound
<1>6. Awaited(w) => Awaited(w)'
  BY <1>3 DEF Awaited
<1>7. st = "DONE" /\ Every(w) => Answered(w)'
  BY <1>3, <1>5 DEF Answered, Awaited
<1>8. Built(w)'
  BY <1>2, <1>3 DEF Built
<1>9. Sound(w)'
  BY <1>1, <1>2, <1>4, <1>5, <1>6, <1>7 DEF Sound
<1> QED
  BY <1>8, <1>9

\* The step of a callback that leaves the waits alone.
LEMMA QuietSound ==
  ASSUME StoredInv, RuleInv, NEW r \in ReqID, NEW s, Goto(r, s),
         Stored(r) => s \in {"notified", "end"},
         Told(r) => s \in {"loading", "notified", "end"},
         s # "loading" \/ \A x \in ReqID : req[x] # "loading",
         UNCHANGED <<wait, cancelled>>,
         \/ UNCHANGED caList
         \/ /\ caList' = [caList EXCEPT ![r] = "DONE"]
            /\ s \in {"loading", "notified", "end"}
  PROVE  StoredInv'
<1>1. Keeps /\ OneLoads'
  BY GotoKeeps, GotoLoads DEF StoredInv
<1>2. caList \in [ReqID -> {"none", "RESOLVING", "DONE"}]
      /\ req = [x \in ReqID |-> req[x]]
  BY DEF RuleInv, Shape
<1>3. \A x \in ReqID : \/ caList'[x] = caList[x]
                       \/ caList'[x] = "DONE" /\ Told(x)'
  <2>1. Told(r)' \/ UNCHANGED caList
    BY <1>2 DEF Goto, Told
  <2>2. \A x \in ReqID \ {r} : caList'[x] = caList[x]
    BY <1>2
  <2>3. caList'[r] = caList[r] \/ caList'[r] = "DONE"
    BY <1>2
  <2> QED
    BY <2>1, <2>2, <2>3
<1>4. DoneAreTold'
  BY <1>1, <1>3 DEF StoredInv, DoneAreTold, Keeps
<1>5. \A w \in Waiter : (Built(w) /\ Sound(w))'
  BY <1>1, <1>3, SoundStays DEF StoredInv
<1> QED
  BY <1>1, <1>4, <1>5 DEF StoredInv

\* A notification posts its waiters after the download.
LEMMA CallbackSound ==
  ASSUME StoredInv, RuleInv, NEW r \in ReqID, Callback(r)
  PROVE  StoredInv'
<1>0. Threads /\ caList \in [ReqID -> {"none", "RESOLVING", "DONE"}]
  BY DEF RuleInv, Shape
<1>1. CASE NotifyClear(r)
  <2>1. /\ ~Stored(r) /\ ~Told(r) /\ Goto(r, "cleared")
        /\ UNCHANGED <<caList, wait, cancelled>>
    BY <1>1 DEF NotifyClear, Stored, Told, mgrVars, envVars
  <2> QED
    BY <2>1, QuietSound
<1>2. CASE NotifyError(r)
  <2>1. Goto(r, "end") /\ UNCHANGED <<caList, wait, cancelled>>
    BY <1>2 DEF NotifyError, mgrVars, envVars
  <2> QED
    BY <2>1, QuietSound
<1>3. CASE notifyRst(r)
  <2>1. /\ ~Stored(r) /\ ~Told(r) /\ UNCHANGED <<wait, cancelled>>
        /\ \A x \in ReqID : req[x] # "loading"
        /\ \/ Goto(r, "notified") /\ UNCHANGED caList
           \/ Goto(r, "loading") /\ caList' = [caList EXCEPT ![r] = "DONE"]
    BY <1>3 DEF notifyRst, Writable, Stored, Told, envVars
  <2> QED
    BY <2>1, QuietSound
<1>4. CASE Download(r)
  <2>1. /\ req[r] = "loading" /\ Goto(r, "notified")
        /\ UNCHANGED <<caList, cancelled>>
        /\ PostDone(r, caList) \/ UNCHANGED wait
    BY <1>4 DEF Download, mgrVars
  <2>2. ~Stored(r)
    BY <2>1 DEF Stored
  <2>3. CASE UNCHANGED wait
    BY <2>1, <2>2, <2>3, QuietSound
  <2>4. CASE PostDone(r, caList)
    <3>1. Keeps /\ OneLoads'
      BY <2>1, <2>2, GotoKeeps, GotoLoads DEF StoredInv
    <3>2. DoneAreTold'
      BY <2>1, <3>1 DEF StoredInv, DoneAreTold, Keeps
    <3>3. \A x \in ReqID : req'[x] # "loading"
      BY <2>1 DEF StoredInv, OneLoads, Goto, RuleInv, Shape
    <3>4. \A x \in ReqID : caList[x] = "DONE" => Stored(x)'
      BY <2>1, <3>2, <3>3 DEF DoneAreTold, Told, Stored
    <3>5. ASSUME NEW w \in Waiter PROVE (Built(w) /\ Sound(w))'
      <4>1. CASE wait'[w] = wait[w]
        BY <2>1, <3>1, <4>1, SoundStays DEF StoredInv
      <4>2. CASE /\ w \in Rules(r) /\ Plenty(w, caList)
                 /\ wait'[w] = Post(wait[w], "DONE", 1)
        <5>1. wait[w].pc \in {"asleep", "spin"}
          BY <4>2 DEF RuleInv, NoDanglingRule, Rules
        <5>2. ASSUME Every(w), Awaited(w), NEW x \in Elements(w)
              PROVE  Stored(x)' \/ x \in cancelled'
          <6>1. x \in ReqID /\ (caList[x] # "none" \/ x \in cancelled)
            BY <5>2 DEF Awaited
          <6>2. wait[w].op \in {"SOLE", "AND", "ALL"}
            BY <5>2 DEF StoredInv, Built, Every
          <6>3. caList[x] \in {"DONE", "none"}
            BY <4>2, <6>2 DEF Plenty
          <6> QED
            BY <2>1, <3>4, <6>1, <6>3
        <5>3. Record(wait[w]) /\ Built(w) /\ Sound(w)
          BY <1>0 DEF Threads, StoredInv
        <5> QED
          BY <2>1, <3>1, <4>2, <5>1, <5>2, <5>3, PostSound
      <4> QED
        BY <2>4, <4>1, <4>2 DEF PostDone
    <3> QED
      BY <3>1, <3>2, <3>5 DEF StoredInv
  <2> QED
    BY <2>1, <2>3, <2>4
<1> QED
  BY <1>1, <1>2, <1>3, <1>4 DEF Callback

\* A cancellation leaves no rule DONE without its results.
LEMMA CancelSound ==
  ASSUME StoredInv, RuleInv, NEW S \in SUBSET ReqID, deleteCalls(S), UNCHANGED req
  PROVE  StoredInv'
<1> DEFINE hit(w) == {r \in S : used[r] # 0 /\ w \in Rules(r)}
<1>0. Threads
  BY DEF RuleInv, Shape
<1>1. /\ caList' = [r \in ReqID |-> IF r \in S THEN "none" ELSE caList[r]]
      /\ cancelled' = cancelled \cup S
      /\ \A w \in Waiter : wait'[w] =
           IF hit(w) = {} THEN wait[w]
                          ELSE Post(wait[w], "CANCEL", Cardinality(hit(w)))
  BY DEF deleteCalls
<1>2. Keeps
  BY DEF Keeps, Stored, Told
<1>3. /\ cancelled \subseteq cancelled'
      /\ \A r \in ReqID : caList[r] # "none" =>
           caList'[r] # "none" \/ r \in cancelled'
  BY <1>1
<1>4. DoneAreTold' /\ OneLoads'
  BY <1>1, <1>2 DEF StoredInv, DoneAreTold, OneLoads, Keeps
<1>5. ASSUME NEW w \in Waiter PROVE (Built(w) /\ Sound(w))'
  <2>1. CASE hit(w) = {}
    <3>1. wait'[w] = wait[w]
      BY <1>1, <2>1
    <3> QED
      BY <1>2, <1>3, <3>1, SoundStays DEF StoredInv
  <2>2. CASE hit(w) # {}
    <3>1. wait[w].pc \in {"asleep", "spin"}
      BY <2>2 DEF RuleInv, NoDanglingRule, Rules
    <3>2. Record(wait[w]) /\ Built(w) /\ Sound(w)
      BY <1>0 DEF Threads, StoredInv
    <3>3. PICK n : wait'[w] = Post(wait[w], "CANCEL", n)
      BY <1>1, <2>2
    <3> QED
      BY <1>2, <1>3, <3>1, <3>2, <3>3, PostSound
  <2> QED
    BY <2>1, <2>2
<1> QED
  BY <1>4, <1>5 DEF StoredInv

\* So every step keeps it: the cases above, and the steps that touch no rule.
LEMMA StoredInvStep == StoredInv /\ RuleInv /\ [Next]_vars => StoredInv'
<1> SUFFICES ASSUME StoredInv, RuleInv, [Next]_vars PROVE StoredInv'
  OBVIOUS
<1>1. ASSUME NEW r \in ReqID, Calling(r) \/ Callback(r) PROVE StoredInv'
  BY <1>1, CallSound, CallbackSound
<1>2. ASSUME NEW r \in ReqID, deleteAsyncCall(r) PROVE StoredInv'
  BY <1>2, CancelSound DEF deleteAsyncCall, callVars
<1>3. ASSUME NEW w \in Waiter, Waiting(w) PROVE StoredInv'
  <2>1. CASE PushCrashes(w)
    BY <2>1, IdleSound DEF PushCrashes, Crash, mgrVars, callVars
  <2> QED
    BY <1>3, <2>1, RuleSound, WakeSound, ScanSound, PickSound, PushSound
       DEF Waiting
<1>4. ASSUME NEW w \in Waiter, StartsWait(w) PROVE StoredInv'
  BY <1>4, StartSound
<1>5. CASE deleteAllAsyncCall
  <2>1. CASE \E last \in Registered : deleteCalls({r \in Registered : r <= last})
    <3>1. PICK last \in Registered : deleteCalls({r \in Registered : r <= last})
      BY <2>1
    <3>2. {r \in Registered : r <= last} \in SUBSET ReqID
      BY DEF Registered
    <3>3. UNCHANGED req
      BY <1>5 DEF deleteAllAsyncCall, callVars
    <3> QED
      BY <3>1, <3>2, <3>3, CancelSound
  <2>2. CASE UNCHANGED <<caList, wait, cancelled>>
    BY <1>5, <2>2, IdleSound DEF deleteAllAsyncCall, callVars
  <2> QED
    BY <1>5, <2>1, <2>2 DEF deleteAllAsyncCall
<1>6. CASE areThereWaitRules
  BY <1>6, IdleSound DEF areThereWaitRules, mgrVars, callVars
<1>7. CASE release
  BY <1>7, CancelSound DEF release, Registered, callVars
<1>8. CASE getFailedSession
  BY <1>8, IdleSound DEF getFailedSession, mgrVars, callVars, envVars
<1>9. CASE UNCHANGED vars
  BY <1>9, IdleSound DEF vars, mgrVars, callVars, envVars
<1> QED
  BY <1>1, <1>2, <1>3, <1>4, <1>5, <1>6, <1>7, <1>8, <1>9 DEF Next

\* However many threads wait and requests there are, a wait that reports
\* success has each of its results, but for requests that were cancelled and for
\* downloads that threw an exception; wait_or and wait_any return a request whose
\* download is over, or still under way.
THEOREM DoneIsTrue == Spec => []DoneMeansStored
<1>1. StoredInv => DoneMeansStored
  BY DEF StoredInv, DoneMeansStored, Sound, Every, Answered, Holds, Told, Stored,
         Resultless
<1>2. RuleInv /\ RuleInv' /\ StoredInv /\ [Next]_vars => StoredInv'
  BY StoredInvStep
<1> QED
  BY StoredInvInit, <1>2, RuleInvHolds, <1>1, PTL DEF Spec
-----------------------------------------------------------------------------
\* The thread that loops has the lock, and only it loops.
SpinnerLoops ==
  /\ \A w \in Waiter : wait[w].pc = "spin" => spinner = w
  /\ spinner # NoWaiter => spinner \in Waiter /\ wait[spinner].pc = "spin"

SpinInv == SpinnerLoops /\ SpinsOnlyWhenShared

\* Nobody loops, before and after.
LEMMA NobodySpins ==
  ASSUME SpinInv, spinner = NoWaiter, UNCHANGED spinner,
         \A w \in Waiter : wait'[w].pc = "spin" => wait[w].pc = "spin"
  PROVE  SpinInv'
<1>1. NoWaiter \notin Waiter
  BY AsyncAssumption DEF AsyncAssumption
<1>2. \A w \in Waiter : wait[w].pc # "spin"
  BY <1>1 DEF SpinInv, SpinnerLoops
<1> QED
  BY <1>2 DEF SpinInv, SpinnerLoops, SpinsOnlyWhenShared

\* A step that leaves the waits alone.
LEMMA IdleSpins ==
  ASSUME SpinInv, UNCHANGED <<wait, spinner>>
  PROVE  SpinInv'
BY DEF SpinInv, SpinnerLoops, SpinsOnlyWhenShared, Elements

\* A thread outside addWaitRule() takes a step: the one that loops, and the
\* sleeper it shares a request with, are others.
LEMMA OutsideSpins ==
  ASSUME SpinInv, RuleInv, NEW w \in Waiter, wait[w].pc \notin {"asleep", "spin"},
         NEW X, X.pc # "spin", wait' = [wait EXCEPT ![w] = X], UNCHANGED spinner
  PROVE  SpinInv'
<1>1. wait'[w] = X /\ \A v \in Waiter \ {w} : wait'[v] = wait[v]
  BY DEF RuleInv, Shape, Threads
<1>2. \A v \in Waiter \ {w} : Elements(v)' = Elements(v)
  BY <1>1 DEF Elements
<1>3. SpinnerLoops'
  BY <1>1 DEF SpinInv, SpinnerLoops
<1>4. SpinsOnlyWhenShared'
  <2> SUFFICES ASSUME spinner # NoWaiter
               PROVE  \E v \in Waiter \ {spinner} : wait'[v].pc = "asleep"
                        /\ Elements(v)' \cap Elements(spinner)' # {}
    BY DEF SpinsOnlyWhenShared
  <2>1. spinner \in Waiter \ {w}
    BY DEF SpinInv, SpinnerLoops
  <2>2. PICK v \in Waiter \ {spinner} :
          wait[v].pc = "asleep" /\ Elements(v) \cap Elements(spinner) # {}
    BY DEF SpinInv, SpinsOnlyWhenShared
  <2>3. v \in Waiter \ {w}
    BY <2>2
  <2>4. Elements(v)' = Elements(v) /\ Elements(spinner)' = Elements(spinner)
    <3>1. \A x \in Waiter \ {w} : x = spinner => Elements(spinner)' = Elements(spinner)
      BY <1>1 DEF Elements
    <3> QED
      BY <1>2, <2>1, <2>3, <3>1
  <2> QED
    BY <1>1, <2>2, <2>3, <2>4
<1> QED
  BY <1>3, <1>4 DEF SpinInv

\* The thread wakes up and finds an entry of another rule: of one that sleeps,
\* because nobody else loops.
LEMMA SpinStarts ==
  ASSUME SpinInv, RuleInv, NEW w \in Waiter, spinner = NoWaiter, spinner' = w,
         wait' = [wait EXCEPT ![w].pc = "spin"],
         \E r \in Elements(w) : Rules(r) \ {w} # {}
  PROVE  SpinInv'
<1>0. NoWaiter \notin Waiter /\ Record(wait[w])
  BY AsyncAssumption DEF AsyncAssumption, RuleInv, Shape, Threads
<1>1. \A v \in Waiter \ {w} : wait'[v] = wait[v]
  BY DEF RuleInv, Shape, Threads
<1>2. wait'[w].pc = "spin" /\ wait'[w].elts = wait[w].elts
  <2>1. wait'[w] = [wait[w] EXCEPT !.pc = "spin"]
    BY DEF RuleInv, Shape, Threads
  <2> QED
    BY <1>0, <2>1 DEF Record, Field
<1>3. \A v \in Waiter : Elements(v)' = Elements(v)
  BY <1>1, <1>2 DEF Elements
<1>4. PICK r \in Elements(w), v \in Waiter \ {w} : <<r, v>> \in rulesIDs
  BY DEF Rules
<1>5. r \in ReqID
  BY <1>4 DEF RuleInv, Shape
<1>6. wait[v].pc \in {"asleep", "spin"} /\ r \in Elements(v)
  BY <1>4, <1>5 DEF RuleInv, NoDanglingRule
<1>7. wait[v].pc = "asleep"
  BY <1>0, <1>6 DEF SpinInv, SpinnerLoops
<1>8. SpinnerLoops'
  BY <1>0, <1>1, <1>2 DEF SpinInv, SpinnerLoops
<1>9. Elements(spinner)' = Elements(w)
  BY <1>2 DEF Elements
<1>10. SpinsOnlyWhenShared'
  BY <1>1, <1>3, <1>4, <1>6, <1>7, <1>9 DEF SpinsOnlyWhenShared
<1> QED
  BY <1>8, <1>10 DEF SpinInv

\* A step under the lock that moves one thread, and not into the loop.
LEMMA LockedSpins ==
  ASSUME SpinInv, RuleInv, NEW w \in Waiter, NEW X, X.pc # "spin",
         wait' = [wait EXCEPT ![w] = X], spinner = NoWaiter, UNCHANGED spinner
  PROVE  SpinInv'
<1>1. \A v \in Waiter : wait'[v].pc = "spin" => wait[v].pc = "spin"
  BY DEF RuleInv, Shape, Threads
<1> QED
  BY <1>1, NobodySpins

\* Threads that run on, and the forms their records take.
LEMMA ForwardForms ==
  ASSUME RuleInv, NEW w \in Waiter
  PROVE  /\ \A st, id : Returned(wait[w], st, id).pc # "spin"
         /\ \A st : Refused(wait[w], st).pc = wait[w].pc
         /\ \A p : [wait[w] EXCEPT !.pc = p].pc = p
         /\ \A i : [wait[w] EXCEPT !.at = i].pc = wait[w].pc
         /\ \A x : [wait[w] EXCEPT !.pc = "push", !.got = x].pc = "push"
<1>1. Record(wait[w])
  BY DEF RuleInv, Shape, Threads
<1> QED
  BY <1>1 DEF Record, Field, Returned, Refused

\* After its wait a thread deletes its rules, and loops only over a request it shares,
LEMMA AfterSpins ==
  ASSUME SpinInv, RuleInv, NEW w \in Waiter, NEW st, After(w, st),
         spinner = NoWaiter, UNCHANGED spinner
  PROVE  SpinInv'
<1>1. CASE Return(w, st)
  <2> DEFINE X == Returned(wait[w], st, -1)
  <2>1. wait' = [wait EXCEPT ![w] = X]
    BY <1>1, Zenon DEF Return
  <2>2. X.pc # "spin"
    BY ForwardForms
  <2> HIDE DEF X
  <2> QED
    BY <2>1, <2>2, LockedSpins
<1>2. ASSUME NEW p \in {"scan", "pick"}, wait' = [wait EXCEPT ![w].pc = p]
      PROVE  SpinInv'
  <2> DEFINE X == [wait[w] EXCEPT !.pc = p]
  <2>1. wait' = [wait EXCEPT ![w] = X]
    BY <1>2, Zenon
  <2>2. X.pc = p
    BY ForwardForms, Zenon
  <2> HIDE DEF X
  <2> QED
    BY <2>1, <2>2, LockedSpins
<1> QED
  BY <1>1, <1>2, Zenon DEF After

\* as it does in every step of a wait,
LEMMA WaitingSpins ==
  ASSUME SpinInv, RuleInv, NEW w \in Waiter, Waiting(w)
  PROVE  SpinInv'
<1>1. CASE addWaitRule(w)
  <2>1. spinner = NoWaiter /\ UNCHANGED spinner
    BY <1>1 DEF addWaitRule, Writable
  <2>2. CASE Return(w, "ERROR")
    <3>1. After(w, "ERROR")
      BY <2>2 DEF After
    <3> QED
      BY <2>1, <3>1, AfterSpins
  <2>3. CASE After(w, "DONE")
    BY <2>1, <2>3, AfterSpins
  <2>4. CASE wait' = [wait EXCEPT ![w].pc = "asleep"]
    <3> DEFINE X == [wait[w] EXCEPT !.pc = "asleep"]
    <3>1. wait' = [wait EXCEPT ![w] = X]
      BY <2>4, Zenon
    <3>2. X.pc = "asleep"
      BY ForwardForms, Zenon
    <3> HIDE DEF X
    <3> QED
      BY <2>1, <3>1, <3>2, LockedSpins
  <2> QED
    BY <1>1, <2>2, <2>3, <2>4, Zenon DEF addWaitRule
<1>2. CASE Wake(w)
  <2>1. spinner = NoWaiter
    BY <1>2 DEF Wake, Writable
  <2>2. CASE UNCHANGED spinner /\ After(w, wait[w].status)
    BY <2>1, <2>2, AfterSpins
  <2>3. CASE /\ spinner' = w /\ wait' = [wait EXCEPT ![w].pc = "spin"]
             /\ \E r \in Elements(w) : Rules(r) \ {w} # {}
    BY <2>1, <2>3, SpinStarts
  <2> QED
    BY <1>2, <2>2, <2>3, Zenon DEF Wake, deleteWaitRule
<1>3. ASSUME wait[w].pc \in {"scan", "pick", "push"}, UNCHANGED spinner,
             NEW st, NEW id, wait' = [wait EXCEPT ![w] = Returned(wait[w], st, id)]
      PROVE  SpinInv'
  <2> DEFINE X == Returned(wait[w], st, id)
  <2>1. wait' = [wait EXCEPT ![w] = X] /\ X.pc # "spin"
    BY <1>3, ForwardForms
  <2> HIDE DEF X
  <2> QED
    BY <1>3, <2>1, OutsideSpins
<1>4. CASE ScanOr(w)
  <2>1. wait[w].pc = "scan" /\ UNCHANGED spinner
    BY <1>4 DEF ScanOr, mgrVars
  <2>2. CASE wait' = [wait EXCEPT ![w].at = @ + 1]
    <3> DEFINE X == [wait[w] EXCEPT !.at = wait[w].at + 1]
    <3>1. wait' = [wait EXCEPT ![w] = X]
      BY <2>2, Zenon
    <3>2. X.pc = "scan"
      BY <2>1, ForwardForms, Zenon
    <3> HIDE DEF X
    <3> QED
      BY <2>1, <3>1, <3>2, OutsideSpins
  <2>3. CASE \E st, id : wait' = [wait EXCEPT ![w] = Returned(wait[w], st, id)]
    BY <1>3, <2>1, <2>3, Zenon
  <2> QED
    BY <1>4, <2>2, <2>3, Zenon DEF ScanOr, Return
<1>5. CASE PickAny(w)
  <2>1. wait[w].pc = "pick" /\ UNCHANGED spinner
    BY <1>5 DEF PickAny, mgrVars
  <2>2. ASSUME NEW x, wait' = [wait EXCEPT ![w].pc = "push", ![w].got = x]
        PROVE  SpinInv'
    <3>0. wait = [v \in Waiter |-> wait[v]]
      BY DEF RuleInv, Shape, Threads
    <3> DEFINE X == [wait[w] EXCEPT !.pc = "push", !.got = x]
    <3>1. wait' = [wait EXCEPT ![w] = X]
      BY <2>2, <3>0
    <3>2. X.pc = "push"
      BY ForwardForms, Zenon
    <3> HIDE DEF X
    <3> QED
      BY <2>1, <3>1, <3>2, OutsideSpins
  <2>3. CASE Return(w, "ERROR")
    BY <1>3, <2>1, <2>3, Zenon DEF Return
  <2> QED
    BY <1>5, <2>2, <2>3, Zenon DEF PickAny
<1>6. CASE PushAny(w)
  BY <1>3, <1>6, Zenon DEF PushAny
<1>7. CASE PushCrashes(w)
  BY <1>7, IdleSpins DEF PushCrashes, mgrVars
<1> QED
  BY <1>1, <1>2, <1>4, <1>5, <1>6, <1>7 DEF Waiting

\* the beginning of one included.
LEMMA StartSpins ==
  ASSUME SpinInv, RuleInv, NEW w \in Waiter, StartsWait(w)
  PROVE  SpinInv'
<1>1. wait[w].pc = "idle" /\ UNCHANGED spinner
  BY DEF StartsWait, WaitFor, WaitAll, WaitAny, Starts, mgrVars
<1>2. ASSUME NEW o, NEW s, NewRule(w, o, s) PROVE SpinInv'
  <2> DEFINE X == [pc |-> "rule", op |-> o, elts |-> s,
                   status |-> "RESOLVING", sem |-> 0, at |-> 1,
                   result |-> "none", got |-> -1, count |-> wait[w].count + 1]
  <2>1. wait' = [wait EXCEPT ![w] = X] /\ X.pc = "rule"
    BY <1>2 DEF NewRule
  <2> HIDE DEF X
  <2> QED
    BY <1>1, <2>1, OutsideSpins
<1>3. ASSUME NEW st, Refuse(w, st) PROVE SpinInv'
  <2> DEFINE X == Refused(wait[w], st)
  <2>1. wait' = [wait EXCEPT ![w] = X]
    BY <1>3, Zenon DEF Refuse
  <2>2. X.pc = "idle"
    BY <1>1, ForwardForms
  <2> HIDE DEF X
  <2> QED
    BY <1>1, <2>1, <2>2, OutsideSpins
<1>4. CASE UNCHANGED wait
  BY <1>1, <1>4, IdleSpins
<1> QED
  BY <1>2, <1>3, <1>4, Zenon DEF StartsWait, WaitFor, WaitAll, WaitAny

\* notifyRst() and the cancellations post: nobody moves.
LEMMA PostSpins ==
  ASSUME SpinInv, RuleInv, UNCHANGED spinner,
         \A w \in Waiter : \/ wait'[w] = wait[w]
                           \/ \E st, n : wait'[w] = Post(wait[w], st, n)
  PROVE  SpinInv'
<1>1. \A w \in Waiter : Record(wait[w])
  BY DEF RuleInv, Shape, Threads
<1>2. ASSUME NEW w \in Waiter
      PROVE  wait'[w].pc = wait[w].pc /\ wait'[w].elts = wait[w].elts
  <2>1. CASE wait'[w] = wait[w]
    BY <2>1
  <2>2. CASE \E st, n : wait'[w] = Post(wait[w], st, n)
    <3>1. PICK st, n : wait'[w] = Post(wait[w], st, n)
      BY <2>2
    <3>2. \A f \in Field \ {"status", "sem"} : wait'[w][f] = wait[w][f]
      BY <1>1, <3>1, PostedFields
    <3> QED
      BY <3>2 DEF Field
  <2> QED
    BY <2>1, <2>2
<1>3. SpinnerLoops'
  BY <1>2 DEF SpinInv, SpinnerLoops
<1>4. CASE spinner = NoWaiter
  BY <1>3, <1>4 DEF SpinInv, SpinsOnlyWhenShared
<1>5. CASE spinner \in Waiter
  <2>1. \A w \in Waiter : Elements(w)' = Elements(w)
    BY <1>2 DEF Elements
  <2>2. Elements(spinner)' = Elements(spinner)
    BY <1>2, <1>5 DEF Elements
  <2>3. SpinsOnlyWhenShared'
    BY <1>2, <2>1, <2>2 DEF SpinInv, SpinsOnlyWhenShared
  <2> QED
    BY <1>3, <2>3 DEF SpinInv
<1> QED
  BY <1>4, <1>5 DEF SpinInv, SpinnerLoops

\* A cancellation makes nobody loop.
LEMMA CancelSpins ==
  ASSUME SpinInv, RuleInv, NEW S, deleteCalls(S), Writable, UNCHANGED spinner
  PROVE  SpinInv'
<1>1. \A w \in Waiter : \/ wait'[w] = wait[w]
                        \/ \E st, n : wait'[w] = Post(wait[w], st, n)
  BY Zenon DEF deleteCalls
<1> QED
  BY <1>1, PostSpins DEF Writable

\* So a thread spins only over a request that it shared.
LEMMA SpinInvStep == SpinInv /\ RuleInv /\ [Next]_vars => SpinInv'
<1> SUFFICES ASSUME SpinInv, RuleInv, [Next]_vars PROVE SpinInv'
  OBVIOUS
<1>1. ASSUME NEW r \in ReqID, Calling(r) PROVE SpinInv'
  BY <1>1, IdleSpins
     DEF Calling, SubmissionFails, addAsyncCall, SolveAsync, SolveAsyncRaises,
         Lose, set_req_error, mgrVars
<1>2. ASSUME NEW r \in ReqID, Callback(r) PROVE SpinInv'
  <2>1. CASE UNCHANGED <<wait, spinner>>
    BY <2>1, IdleSpins
  <2>2. CASE Download(r) /\ PostDone(r, caList)
    <3>1. UNCHANGED spinner
      BY <2>2 DEF Download, mgrVars
    <3>2. \A w \in Waiter : \/ wait'[w] = wait[w]
                            \/ wait'[w] = Post(wait[w], "DONE", 1)
      BY <2>2 DEF PostDone
    <3> QED
      BY <3>1, <3>2, PostSpins, Zenon
  <2> QED
    BY <1>2, <2>1, <2>2
       DEF Callback, NotifyClear, notifyRst, Download, NotifyError, mgrVars
<1>3. ASSUME NEW r \in ReqID, deleteAsyncCall(r) PROVE SpinInv'
  BY <1>3, CancelSpins DEF deleteAsyncCall
<1>4. ASSUME NEW w \in Waiter, Waiting(w) \/ StartsWait(w) PROVE SpinInv'
  BY <1>4, WaitingSpins, StartSpins
<1>5. CASE deleteAllAsyncCall
  BY <1>5, CancelSpins, IdleSpins, Zenon DEF deleteAllAsyncCall
<1>6. CASE areThereWaitRules
  BY <1>6, IdleSpins DEF areThereWaitRules, mgrVars
<1>7. CASE release
  BY <1>7, CancelSpins DEF release
<1>8. CASE getFailedSession
  BY <1>8, IdleSpins DEF getFailedSession, mgrVars
<1>9. CASE UNCHANGED vars
  BY <1>9, IdleSpins DEF vars, mgrVars
<1> QED
  BY <1>1, <1>2, <1>3, <1>4, <1>5, <1>6, <1>7, <1>8, <1>9 DEF Next

\* However many threads wait and requests there are, a thread that loops in
\* deleteWaitRule(), and keeps everyone else out of the lock, waited for a
\* request that another thread is still asleep for.
THEOREM LoopsWhenShared == Spec => []SpinsOnlyWhenShared
<1>1. Init => SpinInv
  BY AsyncAssumption
     DEF Init, SpinInv, SpinnerLoops, SpinsOnlyWhenShared, AsyncAssumption
<1>2. SpinInv => SpinsOnlyWhenShared
  BY DEF SpinInv
<1> QED
  BY <1>1, SpinInvStep, RuleInvHolds, <1>2, PTL DEF Spec
=============================================================================
