---------------------------- MODULE MultiWfProofs ----------------------------
(***************************************************************************)
(* For any dags, nodes and schedulers: a node starts after the nodes that  *)
(* it depends on, what the client is told is final, and the two locks are  *)
(* crossed only after a dag has been cancelled twice.                      *)
(*                                                                         *)
(* The invariant comes in layers, each proved with the help of the ones    *)
(* before it.  The steps of the scheduler thread are sorted by what they   *)
(* do to a node (Takes, Gives, Starts, or Turn for none), those of clients *)
(* and of torn lists stand Aside, and the layers are proved for each sort  *)
(* and for the steps of the launchers.  A step that ends the process ends  *)
(* the obligations of the layers that speak of the agent Alive.            *)
(***************************************************************************)
EXTENDS MultiWf, FiniteSetTheorems, SequenceTheorems, TLAPS

DagStates == {"unused", "new", "refused", "in", "out"}
Notifying == {"dec", "check", "push", "ready", "wait"}
LauncherPcs == {"none", "call", "done", "failed", "next", "cancel", "remove", "finish", "gone"}
               \cup Notifying
Hands == {"pop", "start", "take", "ask"}
Pcs == {"round", "visit", "queue", "exec", "back", "sleep", "check", "release", "delete", "dead"}
       \cup Hands
Calls == {NoCall} \cup [pc : {"wake", "cancel", "remove"}, dag : Dag, next : SUBSET Node]
QueueNames == {"none", "wait", "ready", "exec", "lost"}
Answers == {"nothing", "cancelled", "success", "unreachable"}

\* The local values of the launchers, and those of run() that the proofs need.
IsLocal(l) ==
  /\ DOMAIN l = {"pc", "next", "cur", "tmp"} /\ l.pc \in LauncherPcs
  /\ l.next \subseteq Node /\ l.cur \in Node \cup {Nobody} /\ l.tmp \in Int
Locals(f) == DOMAIN f = Node /\ \A n \in Node : IsLocal(f[n])
Fields == {"todo", "queue", "node", "queued", "mapped", "asked", "avail", "at"}
IsRound(r) == DOMAIN r = Fields /\ r.node \in Node \cup {Nobody} /\ r.at \in Nat

HasElement(s, x) == \E i \in 1..Len(s) : s[i] = x
Listed(d) == HasElement(myDagsTermList, d)

Types ==
  /\ state \in [Dag -> DagStates] /\ cancelled \in [Dag -> BOOLEAN] /\ told \in [Dag -> Answers]
  /\ myQueue \in [Node -> QueueNames]
  /\ todoCount \in [Node -> Int] /\ taskDone \subseteq Node
  /\ thread \in [Node -> {"none", "started", "terminated"}] /\ Locals(lnch)
  /\ dagLock \in [Dag -> Node \cup {Nobody}]
  /\ pc \in Pcs /\ IsRound(round) /\ caller \in Calls
  /\ myWakeUpList \in Seq(Node \cup {"new dag"}) /\ mySem = Len(myWakeUpList)
  /\ myDagsTermList \in Seq(Dag)

\* The walk of checkDagsRelease() stays in its list.
Walk ==
  /\ pc \in {"check", "release", "delete"} => round.at >= 1
  /\ pc \in {"release", "delete"} => round.at <= Len(myDagsTermList)

\* A thread is started with its launcher, and joined after the launcher has ended.
ThreadsMatch ==
  \A n \in Node :
    /\ thread[n] = "none" <=> lnch[n].pc = "none"
    /\ thread[n] = "terminated" => lnch[n].pc = "gone"

\* A launcher knows whether its node is done, and notifies only the next nodes, each once.
Knows(n) ==
  /\ lnch[n].pc \in {"done", "next"} \cup Notifying => n \in taskDone
  /\ lnch[n].pc \in {"none", "call", "failed", "cancel", "remove"} => n \notin taskDone
  /\ lnch[n].pc \in {"next"} \cup Notifying => lnch[n].next \subseteq NextNodes(n)
  /\ lnch[n].next # {} => lnch[n].pc \in {"next", "remove"} \cup Notifying
  /\ lnch[n].pc \in Notifying => lnch[n].cur \in NextNodes(n) \ lnch[n].next
LaunchersKnow == \A n \in Node : Knows(n)

WakersAreGone ==
  \A n \in Node : HasElement(myWakeUpList, n) => lnch[n].pc = "gone"

\* A node is in one place: in a queue, in the hands of the scheduler, or started.
OnePlace ==
  /\ \A n \in Node :
       /\ myQueue[n] # "none" => /\ thread[n] = "none" /\ round.node # n
                                 /\ state[dagOf[n]] \in {"in", "out"}
       /\ thread[n] # "none" => state[dagOf[n]] \in {"in", "out"}
       /\ round.node = n => pc \in Hands /\ thread[n] = "none" /\ state[dagOf[n]] = "in"
  /\ pc \in Hands => round.node \in Node

Places == ThreadsMatch /\ LaunchersKnow /\ WakersAreGone /\ OnePlace

\* The launcher of p has not yet counted itself out of m.
Owes(p, m) ==
  \/ p \notin taskDone \/ lnch[p].pc = "done" \/ m \in lnch[p].next
  \/ lnch[p].pc = "dec" /\ lnch[p].cur = m
Owing(m) == {p \in Prev[m] : Owes(p, m)}

\* prevNodesTodoCount may be too high, after a lost decrement, but never too low.
CountsSuffice ==
  \A m \in Node :
    /\ todoCount[m] >= Cardinality(Owing(m))
    /\ \A p \in Node : lnch[p].pc = "dec" /\ lnch[p].cur = m => lnch[p].tmp >= Cardinality(Owing(m))

\* Past the waiting queue.
PastWaiting(m) ==
  \/ myQueue[m] \in {"ready", "exec", "lost"} \/ thread[m] # "none" \/ round.node = m
  \/ \E p \in Node : lnch[p].pc = "push" /\ lnch[p].cur = m

InOrder == CountsSuffice /\ \A m \in Node : PastWaiting(m) => Prev[m] \subseteq taskDone

\* The dags that the scheduler thread has found to be at rest.
Released(d) ==
  \/ state[d] = "out"
  \/ pc \in {"release", "delete"} /\ myDagsTermList[round.at] = d

ListedHaveEnded ==
  \A d \in Dag : Listed(d) => state[d] \in {"in", "out"} /\ DagEnds(d)

CancelsCount ==
  /\ \A n \in Node : lnch[n].pc = "remove" => cancelled[dagOf[n]]
  /\ \A d \in Dag : cancelled[d] => state[d] \in {"in", "out"}
  /\ \A d \in Dag : caller.dag = d => state[d] \in {"in", "out"}
  /\ \A d \in Dag : caller.dag = d /\ caller.pc = "remove" => cancelled[d]

\* The dag that is being released was in myDags when the walk came to it.
WalkedIsIn == pc \in {"release", "delete"} => state[myDagsTermList[round.at]] = "in"

ReleasedAtRest ==
  \A d \in Dag : Released(d) =>
    /\ \A n \in Nodes(d) : lnch[n].pc \in {"none", "gone"} /\ thread[n] # "started"
    /\ DagEnds(d)

ToldAfterRelease ==
  \A d \in Dag : told[d] # "nothing" =>
    /\ \/ state[d] = "out"
       \/ pc = "delete" /\ myDagsTermList[round.at] = d
    /\ told[d] = "success" => isDone(d)

\* A launcher that cancels its dag holds the lock of the dag, and nobody else does.  A
\* dag that is listed meanwhile has been cancelled by a client too.
LockPcs == {"cancel", "remove"}
DagLocks ==
  /\ \A n \in Node : lnch[n].pc \in LockPcs => dagLock[dagOf[n]] = n
  /\ \A d \in Dag, n \in Node : dagLock[d] = n => dagOf[n] = d /\ lnch[n].pc \in LockPcs
  /\ \A d \in Dag : dagLock[d] # Nobody /\ Listed(d) => "cancelled twice" \in faults[d]

Release == ListedHaveEnded /\ CancelsCount /\ WalkedIsIn /\ ReleasedAtRest /\ ToldAfterRelease

(* Lemmas about the operators *)

\* The list that is built from a set of dags holds the dags of the old list.
LEMMA UniqueKeepsElements ==
  ASSUME NEW S, NEW s \in Seq(S)
  PROVE  /\ Unique(s) \in Seq(S)
         /\ \A x : HasElement(Unique(s), x) <=> HasElement(s, x)
<1> DEFINE T == ToSet(s)
<1>1. IsFiniteSet(1..Len(s)) /\ DOMAIN s = 1..Len(s) /\ s \in [1..Len(s) -> S]
  BY FS_Interval
<1>2. IsFiniteSet(T)
  <2>1. s \in Surjection(1..Len(s), T)
    BY <1>1 DEF Surjection, ToSet
  <2> QED
    BY <1>1, <2>1, FS_Surjection
<1>3. PICK f \in [1..Cardinality(T) -> T] : f \in Bijection(1..Cardinality(T), T)
  BY <1>2, FS_CardinalityType DEF ExistsBijection, Bijection, Injection
<1>4. IsInjective(f)
  BY <1>3 DEF Bijection, Injection, IsInjective
<1>5. Unique(s) \in [1..Cardinality(T) -> T] /\ IsInjective(Unique(s))
  <2>1. \E g \in [1..Cardinality(T) -> T] : IsInjective(g)
    BY <1>3, <1>4, Zenon
  <2> HIDE DEF T
  <2>2. SetToSeq(T) \in [1..Cardinality(T) -> T] /\ IsInjective(SetToSeq(T))
    BY <2>1, Zenon DEF SetToSeq
  <2> QED
    BY <2>2, Zenon DEF Unique, T
<1>6. Cardinality(T) \in Nat /\ IsFiniteSet(1..Cardinality(T))
  BY <1>2, FS_CardinalityType, FS_Interval
<1>7. Unique(s) \in Surjection(1..Cardinality(T), T)
  <2>1. Cardinality(1..Cardinality(T)) = Cardinality(T)
    BY <1>6, FS_Interval
  <2>2. Unique(s) \in Injection(1..Cardinality(T), T)
    BY <1>5 DEF Injection
  <2> QED
    BY <1>2, <1>6, <2>1, <2>2, FS_Injection
<1> HIDE DEF T
<1>8. T \subseteq S
  BY <1>1 DEF T, ToSet
<1>9. PICK u : u = Unique(s)
  OBVIOUS
<1>10. u \in [1..Cardinality(T) -> T] /\ \A x \in T : \E i \in 1..Cardinality(T) : u[i] = x
  BY <1>7, <1>9 DEF Surjection
<1>11. u \in Seq(S) /\ Len(u) = Cardinality(T)
  <2>1. PICK c \in Nat : c = Cardinality(T)
    BY <1>6
  <2>2. u \in [1..c -> S]
    BY <1>8, <1>10, <2>1
  <2>3. u \in Seq(S) /\ Len(u) = c
    BY <2>1, <2>2
  <2> QED
    BY <2>1, <2>3
<1>12. \A x : x \in T <=> HasElement(s, x)
  BY <1>1 DEF T, ToSet, HasElement
<1>13. \A x : HasElement(u, x) <=> x \in T
  BY <1>10, <1>11 DEF HasElement
<1> QED
  BY <1>9, <1>11, <1>12, <1>13

\* Append adds one element at the end, and nothing else.
LEMMA AppendElements ==
  ASSUME NEW S, NEW s \in Seq(S), NEW e \in S
  PROVE  /\ Append(s, e) \in Seq(S) /\ Len(Append(s, e)) = Len(s) + 1
         /\ \A i \in 1..Len(s) : Append(s, e)[i] = s[i]
         /\ \A x : HasElement(Append(s, e), x) <=> HasElement(s, x) \/ x = e
<1>1. PICK t : t = Append(s, e)
  OBVIOUS
<1>2. /\ t \in Seq(S) /\ Len(t) = Len(s) + 1
      /\ \A i \in 1..Len(s) : t[i] = s[i]
      /\ t[Len(s) + 1] = e
  BY <1>1, AppendProperties
<1>3. Len(s) \in Nat
  OBVIOUS
<1>4. \A x : HasElement(t, x) <=> HasElement(s, x) \/ x = e
  BY <1>2, <1>3 DEF HasElement
<1> QED
  BY <1>1, <1>2, <1>4

\* Head and Tail split a list.
LEMMA TailElements ==
  ASSUME NEW S, NEW s \in Seq(S), Len(s) > 0
  PROVE  /\ Head(s) \in S /\ HasElement(s, Head(s))
         /\ Tail(s) \in Seq(S) /\ Len(Tail(s)) = Len(s) - 1
         /\ \A x : HasElement(Tail(s), x) => HasElement(s, x)
<1>1. Len(s) \in Nat /\ Len(s) # 0 /\ Head(s) = s[1]
  OBVIOUS
<1>2. PICK t : t = Tail(s)
  OBVIOUS
<1>3. t \in Seq(S) /\ Len(t) = Len(s) - 1 /\ \A i \in 1..Len(t) : t[i] = s[i + 1]
  BY <1>2
<1>4. \A x : HasElement(t, x) => HasElement(s, x)
  BY <1>1, <1>3 DEF HasElement
<1> QED
  BY <1>1, <1>2, <1>3, <1>4 DEF HasElement

\* Without one of its elements, a list has only the other ones.
LEMMA RemoveAtElements ==
  ASSUME NEW S, NEW s \in Seq(S), NEW i \in 1..Len(s)
  PROVE  /\ RemoveAt(s, i) \in Seq(S)
         /\ \A x : HasElement(RemoveAt(s, i), x) => \E k \in 1..Len(s) : k # i /\ s[k] = x
<1> DEFINE A == SubSeq(s, 1, i - 1)
           B == SubSeq(s, i + 1, Len(s))
<1>1. A \in Seq(S) /\ Len(A) = i - 1 /\ \A j \in 1..(i - 1) : A[j] = s[j]
  OBVIOUS
<1>2. B \in Seq(S) /\ Len(B) = Len(s) - i /\ \A j \in 1..(Len(s) - i) : B[j] = s[i + j]
  <2>1. Len(s) \in Nat /\ i \in Int /\ \A j \in (i + 1)..Len(s) : s[j] \in S
    OBVIOUS
  <2>2. /\ B \in Seq(S) /\ Len(B) = Len(s) - i
        /\ \A j \in 1..(Len(s) - i) : B[j] = s[(i + 1) + j - 1]
    BY <2>1, SubSeqProperties
  <2>3. \A j \in 1..(Len(s) - i) : (i + 1) + j - 1 = i + j
    BY <2>1
  <2> QED
    BY <2>2, <2>3
<1>3. RemoveAt(s, i) = A \o B
  BY DEF RemoveAt
<1> HIDE DEF A, B
<1>4. /\ A \o B \in Seq(S) /\ Len(A \o B) = Len(s) - 1
      /\ \A j \in 1..Len(A \o B) : (A \o B)[j] = IF j <= i - 1 THEN A[j] ELSE B[j - (i - 1)]
  <2>1. Len(s) \in Nat /\ i \in Int
    OBVIOUS
  <2>2. Len(A \o B) = Len(A) + Len(B) /\ A \o B \in Seq(S)
    BY <1>1, <1>2, ConcatProperties
  <2>3. \A j \in 1..(Len(A) + Len(B)) : (A \o B)[j] = IF j <= Len(A) THEN A[j] ELSE B[j - Len(A)]
    BY <1>1, <1>2, ConcatProperties
  <2> QED
    BY <1>1, <1>2, <2>1, <2>2, <2>3
<1>5. \A j \in 1..Len(A \o B) : \E k \in 1..Len(s) : k # i /\ (A \o B)[j] = s[k]
  <2> SUFFICES ASSUME NEW j \in 1..Len(A \o B)
               PROVE  \E k \in 1..Len(s) : k # i /\ (A \o B)[j] = s[k]
    OBVIOUS
  <2>1. CASE j <= i - 1
    <3>1. j \in 1..Len(s) /\ j # i /\ (A \o B)[j] = s[j]
      BY <1>1, <1>2, <1>4, <2>1
    <3> QED
      BY <3>1
  <2>2. CASE ~(j <= i - 1)
    <3>1. j + 1 \in 1..Len(s) /\ j + 1 # i
      BY <1>4, <2>2
    <3>2. (A \o B)[j] = B[j - (i - 1)]
      BY <1>4, <2>2
    <3>3. j - (i - 1) \in 1..(Len(s) - i) /\ i + (j - (i - 1)) = j + 1
      BY <1>4, <2>2
    <3>4. B[j - (i - 1)] = s[j + 1]
      BY <1>2, <3>3
    <3> QED
      BY <3>1, <3>2, <3>4
  <2> QED
    BY <2>1, <2>2
<1>6. \A x : HasElement(A \o B, x) => \E k \in 1..Len(s) : k # i /\ s[k] = x
  BY <1>5, Zenon DEF HasElement
<1> QED
  BY <1>3, <1>4, <1>6, Zenon

------------------------------------------------------------------------------
(* What each kind of step does *)

\* A node has finitely many predecessors.
LEMMA PrevFinite == \A n \in Node : IsFiniteSet(Prev[n]) /\ Prev[n] \subseteq Node
<1>1. \A n \in Node : Prev[n] \subseteq Node
  BY MultiWfAssumption
<1> QED
  BY <1>1, MultiWfAssumption, FS_Subset

\* The nodes and edges of the dags.
LEMMA Graph ==
  /\ \A n \in Node : dagOf[n] \in Dag
  /\ \A n \in Node : Prev[n] \subseteq Node /\ \A p \in Prev[n] : dagOf[p] = dagOf[n]
  /\ Nobody \notin Node /\ Nobody \notin Dag /\ "new dag" \notin Node
BY MultiWfAssumption

\* The variables have their types initially.
LEMMA TypesInit == Init => Types
<1> SUFFICES ASSUME Init PROVE Types
  OBVIOUS
<1>1. \A n \in Node : Cardinality(Prev[n]) \in Int
  BY PrevFinite, FS_CardinalityType
<1>2. state \in [Dag -> DagStates]
  BY DEF Init, DagStates
<1>3. Locals(lnch) /\ IsRound(round) /\ caller \in Calls
  BY DEF Init, Locals, IsLocal, LauncherPcs, Idle, IsRound, Fields, NoRound, Calls
<1> QED
  BY <1>1, <1>2, <1>3 DEF Init, Types, Pcs, QueueNames, Answers

\* Launcher n takes a step from p to q; the other launchers stay.
Steps(n, p, q) ==
  /\ Locals(lnch') /\ lnch[n].pc = p /\ lnch'[n].pc = q
  /\ \A m \in Node \ {n} : lnch'[m] = lnch[m]
Keeps(n) == lnch'[n].next = lnch[n].next /\ lnch'[n].cur = lnch[n].cur

\* Each step of a launcher: from where to where, and what it does to the record of its node.
LEMMA LauncherSteps ==
  ASSUME Types, NEW n \in Node
  PROVE  /\ Executed(n) => Steps(n, "call", "done") /\ Keeps(n)
         /\ NotExecuted(n) => Steps(n, "call", "failed") /\ Keeps(n)
         /\ setNodeDone(n) => /\ Steps(n, "done", "next")
                              /\ lnch'[n].next = IF cancelled[dagOf[n]] THEN {} ELSE NextNodes(n)
         /\ ReadCount(n) => Steps(n, "next", "dec") /\ \E m \in lnch[n].next :
              /\ m \in Node /\ lnch'[n].next = lnch[n].next \ {m} /\ lnch'[n].cur = m
              /\ lnch'[n].tmp = todoCount[m]
         /\ WriteCount(n) => Steps(n, "dec", "check") /\ Keeps(n)
         /\ setAsReady(n) =>
              \/ /\ Steps(n, "check", "push") /\ Keeps(n)
                 /\ isReady(lnch[n].cur) /\ myQueue[lnch[n].cur] = "wait"
              \/ Steps(n, "check", "next") /\ lnch'[n].next = lnch[n].next
         /\ notifyStateChange(n) /\ Alive' => Steps(n, "push", "ready") /\ Keeps(n)
         /\ CountReady(n) /\ Alive' => Steps(n, "ready", "wait") /\ Keeps(n)
         /\ CountWaiting(n) /\ Alive' => Steps(n, "wait", "next") /\ lnch'[n].next = lnch[n].next
         /\ LastOfDag(n) => Steps(n, "next", "finish") /\ Keeps(n) /\ lnch[n].next = {}
         /\ setNodeFailure(n) =>
              /\ Steps(n, "failed", IF cancelled[dagOf[n]] THEN "finish" ELSE "cancel") /\ Keeps(n)
         /\ setAsCancelled(n) => Steps(n, "cancel", "remove")
         /\ RemoveNode(n) => Steps(n, "remove", "remove")
         /\ CountRemoved(n) => Steps(n, "remove", "remove")
         /\ FailureListed(n) => Steps(n, "remove", "finish") /\ Keeps(n) /\ lnch[n].next = {}
         /\ finishNode(n) => Steps(n, "finish", "gone") /\ lnch'[n].next = {}
<1>1. Locals(lnch) /\ todoCount \in [Node -> Int]
  BY DEF Types
<1>2. /\ Executed(n) => Steps(n, "call", "done") /\ Keeps(n)
      /\ NotExecuted(n) => Steps(n, "call", "failed") /\ Keeps(n)
      /\ LastOfDag(n) => Steps(n, "next", "finish") /\ Keeps(n) /\ lnch[n].next = {}
      /\ FailureListed(n) => Steps(n, "remove", "finish") /\ Keeps(n) /\ lnch[n].next = {}
      /\ finishNode(n) => Steps(n, "finish", "gone") /\ lnch'[n].next = {}
      /\ setNodeFailure(n) =>
           /\ Steps(n, "failed", IF cancelled[dagOf[n]] THEN "finish" ELSE "cancel") /\ Keeps(n)
  BY <1>1 DEF Executed, NotExecuted, LastOfDag, FailureListed, CancelEnds, finishNode, setNodeFailure,
     At, Goto, Idle, Steps, Keeps, Locals, IsLocal, LauncherPcs
<1>3. setNodeDone(n) => /\ Steps(n, "done", "next")
                        /\ lnch'[n].next = IF cancelled[dagOf[n]] THEN {} ELSE NextNodes(n)
  BY <1>1 DEF setNodeDone, NextNodes, At, Steps, Locals, IsLocal, LauncherPcs
<1>4. ReadCount(n) => Steps(n, "next", "dec") /\ \E m \in lnch[n].next :
              /\ m \in Node /\ lnch'[n].next = lnch[n].next \ {m} /\ lnch'[n].cur = m
              /\ lnch'[n].tmp = todoCount[m]
  BY <1>1 DEF ReadCount, At, Steps, Locals, IsLocal, LauncherPcs, Notifying
<1>5. WriteCount(n) => Steps(n, "dec", "check") /\ Keeps(n)
  BY <1>1 DEF WriteCount, At, Steps, Keeps, Locals, IsLocal, LauncherPcs, Notifying
<1>6. setAsReady(n) =>
              \/ /\ Steps(n, "check", "push") /\ Keeps(n)
                 /\ isReady(lnch[n].cur) /\ myQueue[lnch[n].cur] = "wait"
              \/ Steps(n, "check", "next") /\ lnch'[n].next = lnch[n].next
  BY <1>1 DEF setAsReady, Goto, GotoNext, At, Steps, Keeps, Locals, IsLocal, LauncherPcs, Notifying
<1>7. /\ notifyStateChange(n) /\ Alive' => Steps(n, "push", "ready") /\ Keeps(n)
      /\ CountReady(n) /\ Alive' => Steps(n, "ready", "wait") /\ Keeps(n)
  BY <1>1 DEF notifyStateChange, CountReady, Dies, Alive, Goto, At, Steps, Keeps, Locals, IsLocal,
     LauncherPcs, Notifying
<1>8. CountWaiting(n) /\ Alive' => Steps(n, "wait", "next") /\ lnch'[n].next = lnch[n].next
  BY <1>1 DEF CountWaiting, Dies, Alive, GotoNext, At, Steps, Locals, IsLocal, LauncherPcs
<1>9. setAsCancelled(n) => Steps(n, "cancel", "remove")
  BY <1>1 DEF setAsCancelled, Nodes, At, Steps, Locals, IsLocal, LauncherPcs
<1>10. (RemoveNode(n) => Steps(n, "remove", "remove")) /\ (CountRemoved(n) => Steps(n, "remove", "remove"))
  BY <1>1 DEF RemoveNode, CountRemoved, nodeVars, At, Steps, Locals, IsLocal
<1> QED
  BY <1>2, <1>3, <1>4, <1>5, <1>6, <1>7, <1>8, <1>9, <1>10

\* The launchers run beside the scheduler thread and the remote calls.
LEMMA LauncherFrame ==
  ASSUME Types, NEW n \in Node, Launcher(n)
  PROVE  /\ Alive /\ pc' \in {pc, "dead"}
         /\ state' = state /\ told' = told /\ thread' = thread /\ round' = round /\ caller' = caller
         /\ ~Executed(n) => taskDone' = taskDone
         /\ ~WriteCount(n) => todoCount' = todoCount
         /\ ~setAsCancelled(n) => cancelled' = cancelled
         /\ ~notifyStateChange(n) /\ ~RemoveNode(n) => myQueue' = myQueue
         /\ ~setNodeFailure(n) /\ ~FailureListed(n) => dagLock' = dagLock
         /\ ~LastOfDag(n) /\ ~FailureListed(n) => myDagsTermList' = myDagsTermList
         /\ ~finishNode(n) => myWakeUpList' = myWakeUpList /\ mySem' = mySem
         /\ ~Alive' => \A m \in Node : lnch'[m].pc = lnch[m].pc
<1> USE DEF At, Alive, Dies, dagVars, queueVars, nodeVars, wakeVars, callVars
<1>1. CASE Executed(n)
  BY <1>1 DEF Executed
<1>2. CASE NotExecuted(n)
  BY <1>2 DEF NotExecuted
<1>3. CASE setNodeDone(n)
  BY <1>3 DEF setNodeDone
<1>4. CASE ReadCount(n)
  BY <1>4 DEF ReadCount
<1>5. CASE WriteCount(n)
  BY <1>5 DEF WriteCount
<1>6. CASE setAsReady(n)
  BY <1>6 DEF setAsReady
<1>7. CASE notifyStateChange(n)
  BY <1>7 DEF notifyStateChange
<1>8. CASE CountReady(n)
  BY <1>8 DEF CountReady
<1>9. CASE CountWaiting(n)
  BY <1>9 DEF CountWaiting
<1>10. CASE LastOfDag(n)
  BY <1>10 DEF LastOfDag
<1>11. CASE setNodeFailure(n)
  BY <1>11 DEF setNodeFailure
<1>12. CASE setAsCancelled(n)
  BY <1>12 DEF setAsCancelled
<1>13. CASE RemoveNode(n)
  <2>1. \A m \in Node : lnch'[m].pc = lnch[m].pc
    BY <1>13, LauncherSteps DEF Steps
  <2> QED
    BY <1>13, <2>1 DEF RemoveNode
<1>14. CASE CountRemoved(n)
  BY <1>14 DEF CountRemoved
<1>15. CASE FailureListed(n)
  BY <1>15 DEF FailureListed, CancelEnds
<1>16. CASE finishNode(n)
  BY <1>16 DEF finishNode
<1> QED
  BY <1>1, <1>2, <1>3, <1>4, <1>5, <1>6, <1>7, <1>8, <1>9, <1>10, <1>11, <1>12, <1>13, <1>14,
     <1>15, <1>16 DEF Launcher

\* The steps of the scheduler thread that touch no node,
Turn ==
  /\ UNCHANGED <<dagVars, myQueue, nodeVars, dagLock, wakeVars, myDagsTermList, callVars>>
  /\ pc \notin {"release", "delete"} /\ pc' \in Pcs /\ IsRound(round')
  /\ Alive' => \/ round'.node = round.node /\ (pc' \in Hands <=> pc \in Hands)
               \/ round'.node = Nobody /\ pc' \notin Hands
  /\ pc' \in {"check", "release", "delete"} => checkDagsRelease

\* that take node n out of a queue,
Takes(n) ==
  /\ UNCHANGED <<dagVars, nodeVars, dagLock, wakeVars, myDagsTermList, callVars>>
  /\ n \in Node /\ myQueue[n] \in {"ready", "exec"} /\ state[dagOf[n]] # "out"
  /\ myQueue' = [myQueue EXCEPT ![n] = "none"]
  /\ pc \in {"visit", "exec"} /\ pc' \in {"pop", "take"}
  /\ IsRound(round') /\ round'.node = n

\* that put the node of the round into a queue,
Gives(q) ==
  /\ UNCHANGED <<dagVars, nodeVars, dagLock, wakeVars, myDagsTermList, callVars>>
  /\ q \in {"ready", "exec"} /\ myQueue' = [myQueue EXCEPT ![round.node] = q]
  /\ pc \in Hands /\ pc' \in {"queue", "back"}
  /\ IsRound(round') /\ round'.node = Nobody

\* and that start it.
Starts ==
  /\ UNCHANGED <<dagVars, myQueue, todoCount, taskDone, dagLock, wakeVars, myDagsTermList, callVars>>
  /\ start(round.node)
  /\ pc \in {"start", "ask"} /\ pc' \in {"visit", "exec"}
  /\ IsRound(round') /\ round'.node = Nobody

\* These and four others are all steps of the scheduler thread.
LEMMA SchedulerSorts ==
  ASSUME Types, Scheduler
  PROVE  /\ Alive
         /\ \/ Turn \/ (\E n \in Node : Takes(n)) \/ (\E q : Gives(q)) \/ Starts
            \/ AskFails \/ WakeUp \/ releaseDag \/ DeleteDag
<1> USE DEF Alive, Dies, dagVars, queueVars, nodeVars, wakeVars, callVars, Pcs, Hands, IsRound, Fields
<1>1. IsRound(round) /\ IsRound(NoRound) /\ NoRound.node = Nobody
  BY DEF Types, NoRound
<1>2. ASSUME NEW d PROVE IsRound(visited(d)) /\ visited(d).node = round.node
  BY <1>1 DEF visited
<1> HIDE DEF Fields
<1>3. CASE NewRound \/ EndRound \/ Checked
  BY <1>1, <1>3 DEF NewRound, EndRound, Checked, Turn, Fields, NoRound
<1>4. CASE PoppedOne \/ Submit \/ PutBack
  BY <1>1, <1>4 DEF PoppedOne, Submit, PutBack, Turn
<1>5. CASE AskThrows \/ PopNothing
  BY <1>1, <1>5 DEF AskThrows, PopNothing, Turn
<1>6. CASE Queued
  <2>1. \/ round' = round
        \/ round' = visited(round.queue)
    BY <1>6 DEF Queued
  <2>2. IsRound(round') /\ round'.node = round.node
    BY <1>1, <1>2, <2>1
  <2> QED
    BY <1>6, <2>2 DEF Queued, Turn
<1>7. CASE Visited
  BY <1>1, <1>7 DEF Visited, Turn, Fields
<1>8. CASE checkDagsRelease
  BY <1>1, <1>8 DEF checkDagsRelease, Turn, Fields
<1>9. CASE \E d \in Dag : VisitDangling(d) \/ VisitEmpty(d)
  BY <1>1, <1>2, <1>9 DEF VisitDangling, VisitEmpty, Visiting, Turn
<1>10. CASE \E d \in Dag : Pop(d)
  <2>1. PICK d \in Dag : Pop(d)
    BY <1>10
  <2>2. PICK n \in In("ready", d) :
          /\ myQueue' = [myQueue EXCEPT ![n] = "none"]
          /\ round' = [round EXCEPT !.queue = d, !.node = n, !.queued = TRUE]
    BY <2>1, Zenon DEF Pop
  <2>3. /\ n \in Node /\ dagOf[n] = d /\ myQueue[n] = "ready"
        /\ state[d] # "out" /\ pc = "visit" /\ pc' = "pop"
        /\ UNCHANGED <<dagVars, nodeVars, dagLock, wakeVars, myDagsTermList, callVars>>
    BY <2>1, <2>2 DEF Pop, Visiting, PopDangling, In, Nodes
  <2>4. IsRound(round') /\ round'.node = n
    BY <1>1, <2>2, <2>3 DEF Fields
  <2> QED
    BY <2>2, <2>3, <2>4 DEF Takes
<1>11. CASE \E n \in Node : PopExec(n)
  <2>1. PICK n \in Node : PopExec(n)
    BY <1>11
  <2> QED
    BY <1>1, <2>1 DEF PopExec, Takes, Turn, Fields
<1>12. CASE Popped
  BY <1>1, <1>12 DEF Popped, Gives, Fields
<1>13. CASE Skip
  BY <1>1, <1>13 DEF Skip, PushBack, Gives, Turn, Fields
<1>14. CASE AskNone
  BY <1>1, <1>14 DEF AskNone, PushBack, Gives, Turn, Fields
<1>15. CASE StartPopped
  BY <1>1, <1>2, <1>15 DEF StartPopped, Starts, Fields
<1>16. CASE AskFound
  BY <1>1, <1>16 DEF AskFound, Starts, Fields
<1>17. CASE AskFails \/ WakeUp \/ releaseDag \/ DeleteDag
  BY <1>17 DEF AskFails, WakeUp, releaseDag, DeleteDag
<1> QED
  BY <1>3, <1>4, <1>5, <1>6, <1>7, <1>8, <1>9, <1>10, <1>11, <1>12, <1>13, <1>14, <1>15, <1>16,
     <1>17, Zenon DEF Scheduler

\* The remote calls and what they do beside the scheduler thread, but for a new dag.
Aside == Caller \/ (\E t \in Thread : Tear(t)) \/ \E d \in Dag : Call(d) /\ ~scheduleNewDag(d)

\* They move nodes out of queues only, and cancel, list or refuse one dag.
LEMMA AsideFrame ==
  ASSUME Types, Aside
  PROVE  /\ Alive /\ pc' \in {pc, "dead"} /\ UNCHANGED <<told, nodeVars, dagLock, round>>
         /\ myQueue' \in [Node -> QueueNames] /\ \A n \in Node :
              \/ myQueue'[n] \in {myQueue[n], "none"}
              \/ myQueue[n] \in {"ready", "exec"} /\ myQueue'[n] = "lost"
         /\ state' \in [Dag -> DagStates] /\ \A d \in Dag :
              state'[d] = state[d] \/ (state[d] = "new" /\ state'[d] = "refused")
         /\ \/ cancelled' = cancelled
            \/ caller.pc = "cancel" /\ cancelled' = [cancelled EXCEPT ![caller.dag] = TRUE]
         /\ caller' \in Calls
         /\ \/ caller' = NoCall \/ (caller'.pc = caller.pc /\ caller'.dag = caller.dag)
            \/ caller.pc = "cancel" /\ caller'.dag = caller.dag /\ cancelled'[caller.dag]
            \/ caller'.pc = "cancel" /\ state[caller'.dag] = "in"
         /\ \/ myDagsTermList' = myDagsTermList
            \/ cancelDag_List /\ caller.pc = "remove" /\ handlerDagDone(caller.dag)
         /\ UNCHANGED wakeVars \/ wakeUp("new dag")
<1> USE DEF Alive, Dies, dagVars, queueVars, nodeVars, wakeVars, callVars
<1>0. /\ caller \in Calls /\ myQueue \in [Node -> QueueNames] /\ state \in [Dag -> DagStates]
      /\ DOMAIN cancelled = Dag /\ "none" \in QueueNames /\ "lost" \in QueueNames
      /\ "refused" \in DagStates
  BY DEF Types, QueueNames, DagStates
<1>1. CASE WakeForDag
  BY <1>0, <1>1 DEF WakeForDag, WakeUpLockFree, NoCall, Calls
<1>2. CASE cancelDag_Flag
  <2>1. /\ caller.pc = "cancel" /\ caller' = [caller EXCEPT !.pc = "remove", !.next = Nodes(caller.dag)]
        /\ Nodes(caller.dag) \subseteq Node
    BY <1>2 DEF cancelDag_Flag, Cancelling, Nodes
  <2>2. caller \in [pc : {"wake", "cancel", "remove"}, dag : Dag, next : SUBSET Node]
    BY <1>0, <2>1 DEF NoCall, Calls
  <2>3. caller' \in Calls /\ caller'.dag = caller.dag /\ caller.dag \in Dag
    BY <2>1, <2>2 DEF Calls
  <2>4. /\ Alive /\ cancelled' = [cancelled EXCEPT ![caller.dag] = TRUE]
        /\ UNCHANGED <<state, told, queueVars, nodeVars, dagLock, pc, round, wakeVars, myDagsTermList>>
    BY <1>2 DEF cancelDag_Flag, Cancelling
  <2> QED
    BY <1>0, <2>1, <2>3, <2>4
<1>3. CASE cancelDag_Remove
  <2>1. caller' \in Calls /\ caller'.pc = caller.pc /\ caller'.dag = caller.dag
    BY <1>0, <1>3 DEF cancelDag_Remove, Cancelling, NoCall, Calls
  <2>2. \/ UNCHANGED myQueue
        \/ \E m : myQueue' = [myQueue EXCEPT ![m] = "none"]
    BY <1>3 DEF cancelDag_Remove, removeFromNodeQueue
  <2>3. /\ Alive /\ pc' \in {pc, "dead"}
        /\ UNCHANGED <<dagVars, nodeVars, dagLock, round, wakeVars, myDagsTermList>>
    BY <1>3 DEF cancelDag_Remove, Cancelling
  <2> QED
    BY <1>0, <2>1, <2>2, <2>3
<1>4. CASE cancelDag_Count
  BY <1>0, <1>4 DEF cancelDag_Count, Cancelling
<1>5. CASE cancelDag_List
  BY <1>0, <1>5 DEF cancelDag_List, Cancelling, NoCall, Calls
<1>6. CASE CallerDangles
  BY <1>0, <1>6 DEF CallerDangles
<1>7. CASE \E t \in Thread : Tear(t)
  <2>1. PICK t \in Thread : Tear(t)
    BY <1>7
  <2>2. \/ UNCHANGED myQueue
        \/ \E lost \in SUBSET {n \in Node : QueueOf(myQueue[n], dagOf[n]) = op[t].on} :
              myQueue' = [n \in Node |-> IF n \in lost THEN "lost" ELSE myQueue[n]]
    BY <2>1 DEF Tear
  <2>3. \A n \in Node : QueueOf(myQueue[n], dagOf[n]) = op[t].on => myQueue[n] \in {"ready", "exec"}
    BY <2>1 DEF Tear, QueueOf, ExecQueue
  <2>4. /\ Alive /\ pc' \in {pc, "dead"}
        /\ UNCHANGED <<dagVars, nodeVars, dagLock, round, wakeVars, myDagsTermList, callVars>>
    BY <2>1 DEF Tear
  <2> QED
    BY <1>0, <2>2, <2>3, <2>4
<1>8. ASSUME NEW d \in Dag, Call(d), ~scheduleNewDag(d)
      PROVE  /\ Alive /\ pc' \in {pc, "dead"}
             /\ UNCHANGED <<told, cancelled, myQueue, nodeVars, dagLock, round, wakeVars, myDagsTermList>>
             /\ \/ UNCHANGED state
                \/ state[d] = "new" /\ state' = [state EXCEPT ![d] = "refused"]
             /\ \/ caller' = caller
                \/ caller' = [NoCall EXCEPT !.pc = "cancel", !.dag = d] /\ state[d] = "in"
  BY <1>8 DEF Call, processDagWf, ClientUnknown, Refuse, MapsRace, cancelDag, MyLockFree
<1>9. CASE \E d \in Dag : Call(d) /\ ~scheduleNewDag(d)
  <2>1. PICK d \in Dag : Call(d) /\ ~scheduleNewDag(d)
    BY <1>9
  <2>2. CASE caller' = caller
    BY <1>0, <1>8, <2>1, <2>2
  <2>3. CASE caller' = [NoCall EXCEPT !.pc = "cancel", !.dag = d] /\ state[d] = "in"
    <3>1. caller' \in Calls /\ caller'.pc = "cancel" /\ caller'.dag = d
      BY <2>3 DEF Calls, NoCall
    <3> QED
      BY <1>0, <1>8, <2>1, <2>3, <3>1
  <2> QED
    BY <1>8, <2>1, <2>2, <2>3
<1> QED
  BY <1>1, <1>2, <1>3, <1>4, <1>5, <1>6, <1>7, <1>9, Zenon DEF Aside, Caller

------------------------------------------------------------------------------
(* The types *)

\* wakeUp() adds one name to the list, with a post.
LEMMA WakeUpTypes ==
  ASSUME Types, NEW info \in Node \cup {"new dag"}, wakeUp(info)
  PROVE  /\ myWakeUpList' \in Seq(Node \cup {"new dag"}) /\ mySem' = Len(myWakeUpList')
         /\ \A x : HasElement(myWakeUpList', x) <=> HasElement(myWakeUpList, x) \/ x = info
<1>1. /\ myWakeUpList \in Seq(Node \cup {"new dag"}) /\ mySem = Len(myWakeUpList)
      /\ myWakeUpList' = Append(myWakeUpList, info) /\ mySem' = mySem + 1
  BY DEF Types, wakeUp
<1>2. PICK S : S = Node \cup {"new dag"}
  OBVIOUS
<1>3. myWakeUpList \in Seq(S) /\ info \in S
  BY <1>1, <1>2
<1>4. /\ myWakeUpList' \in Seq(S) /\ Len(myWakeUpList') = Len(myWakeUpList) + 1
      /\ \A x : HasElement(myWakeUpList', x) <=> HasElement(myWakeUpList, x) \/ x = info
  BY <1>1, <1>3, AppendElements
<1> QED
  BY <1>1, <1>2, <1>4

\* The scheduler takes the head of its wake-up list,
LEMMA WakerTypes ==
  ASSUME Types, WakeUp
  PROVE  /\ Head(myWakeUpList) \in Node \cup {"new dag"}
         /\ HasElement(myWakeUpList, Head(myWakeUpList))
         /\ myWakeUpList' \in Seq(Node \cup {"new dag"}) /\ mySem' = Len(myWakeUpList')
         /\ \A x : HasElement(myWakeUpList', x) => HasElement(myWakeUpList, x)
<1>1. /\ myWakeUpList \in Seq(Node \cup {"new dag"}) /\ mySem = Len(myWakeUpList)
      /\ mySem > 0 /\ mySem' = mySem - 1 /\ myWakeUpList' = Tail(myWakeUpList)
  BY DEF Types, WakeUp
<1>2. PICK S : S = Node \cup {"new dag"}
  OBVIOUS
<1>3. myWakeUpList \in Seq(S) /\ Len(myWakeUpList) > 0
  BY <1>1, <1>2
<1>4. /\ Head(myWakeUpList) \in S /\ HasElement(myWakeUpList, Head(myWakeUpList))
      /\ myWakeUpList' \in Seq(S) /\ Len(myWakeUpList') = Len(myWakeUpList) - 1
      /\ \A x : HasElement(myWakeUpList', x) => HasElement(myWakeUpList, x)
  BY <1>1, <1>3, TailElements
<1> QED
  BY <1>1, <1>2, <1>4

\* and handlerDagDone() adds a dag at the end of the termination list.
LEMMA ListTypes ==
  ASSUME Types, NEW d \in Dag, handlerDagDone(d)
  PROVE  /\ myDagsTermList' \in Seq(Dag) /\ Len(myDagsTermList') = Len(myDagsTermList) + 1
         /\ \A i \in 1..Len(myDagsTermList) : myDagsTermList'[i] = myDagsTermList[i]
         /\ \A x : Listed(x)' <=> Listed(x) \/ x = d
<1>1. myDagsTermList \in Seq(Dag) /\ myDagsTermList' = Append(myDagsTermList, d)
  BY DEF Types, handlerDagDone
<1> QED
  BY <1>1, AppendElements DEF Listed

\* Every step of a launcher keeps the types,
LEMMA TypesLauncher ==
  ASSUME Types, NEW n \in Node, Launcher(n)
  PROVE  Types'
<1>1. UNCHANGED <<state, told, thread, round, caller>> /\ pc' \in Pcs
  BY LauncherFrame DEF Types, Pcs
<1>2. Locals(lnch')
  <2>1. UNCHANGED lnch \/ \E p, q : Steps(n, p, q)
    <3>1. CASE notifyStateChange(n) \/ CountReady(n) \/ CountWaiting(n)
      <4>1. notifyStateChange(n) => Alive' \/ UNCHANGED lnch
        BY DEF notifyStateChange, Alive, At
      <4>2. CountReady(n) \/ CountWaiting(n) => Alive' \/ UNCHANGED lnch
        BY DEF CountReady, CountWaiting, Alive, At
      <4> QED
        BY <3>1, <4>1, <4>2, LauncherSteps
    <3> QED
      BY <3>1, LauncherSteps, Zenon DEF Launcher
  <2> QED
    BY <2>1 DEF Types, Steps
<1>3. taskDone' \subseteq Node
  BY LauncherFrame DEF Types, Executed
<1>4. todoCount' \in [Node -> Int]
  <2>1. CASE WriteCount(n)
    <3>1. lnch[n].tmp \in Int
      BY DEF Types, Locals, IsLocal
    <3>2. todoCount' = [todoCount EXCEPT ![lnch[n].cur] = lnch[n].tmp - 1]
      BY <2>1 DEF WriteCount
    <3>3. PICK k \in Int : k = lnch[n].tmp - 1
      BY <3>1
    <3>4. todoCount \in [Node -> Int] /\ todoCount' = [todoCount EXCEPT ![lnch[n].cur] = k]
      BY <3>2, <3>3 DEF Types
    <3> QED
      BY <3>4
  <2> QED
    BY <2>1, LauncherFrame DEF Types
<1>5. cancelled' \in [Dag -> BOOLEAN]
  BY LauncherFrame DEF Types, setAsCancelled
<1>6. myQueue' \in [Node -> QueueNames]
  <2>1. \/ UNCHANGED myQueue
        \/ \E m, q : myQueue' = [myQueue EXCEPT ![m] = q] /\ q \in QueueNames
    <3>1. "ready" \in QueueNames /\ "none" \in QueueNames
      BY DEF QueueNames
    <3> QED
      BY <3>1, LauncherFrame DEF notifyStateChange, RemoveNode, removeFromNodeQueue
  <2> QED
    BY <2>1 DEF Types
<1>7. dagLock' \in [Dag -> Node \cup {Nobody}]
  <2>1. UNCHANGED dagLock \/ \E x \in {n, Nobody} : dagLock' = [dagLock EXCEPT ![dagOf[n]] = x]
    BY LauncherFrame DEF setNodeFailure, FailureListed
  <2> QED
    BY <2>1 DEF Types
<1>8. myDagsTermList' \in Seq(Dag)
  <2>1. UNCHANGED myDagsTermList \/ handlerDagDone(dagOf[n])
    BY LauncherFrame DEF LastOfDag, FailureListed
  <2> QED
    BY <2>1, ListTypes, Graph DEF Types
<1>9. myWakeUpList' \in Seq(Node \cup {"new dag"}) /\ mySem' = Len(myWakeUpList')
  BY LauncherFrame, WakeUpTypes DEF Types, finishNode
<1> QED
  BY <1>1, <1>2, <1>3, <1>4, <1>5, <1>6, <1>7, <1>8, <1>9 DEF Types

\* of the scheduler thread,
LEMMA TypesScheduler ==
  ASSUME Types, Walk, Scheduler
  PROVE  Types'
<1> USE DEF dagVars, queueVars, nodeVars, wakeVars, callVars
<1>1. CASE Turn
  BY <1>1 DEF Turn, Types
<1>2. CASE \E n \in Node : Takes(n)
  BY <1>2 DEF Takes, Types, QueueNames, Pcs, Hands
<1>3. CASE \E q : Gives(q)
  BY <1>3 DEF Gives, Types, QueueNames, Pcs
<1>4. CASE Starts
  <2>1. Locals(lnch')
    <3>1. Locals(lnch) /\ lnch' = [lnch EXCEPT ![round.node].pc = "call"]
      BY <1>4 DEF Starts, start, Goto, Types
    <3>2. CASE round.node \in Node
      BY <3>1, <3>2 DEF Locals, IsLocal, LauncherPcs
    <3>3. CASE round.node \notin Node
      BY <3>1, <3>3 DEF Locals
    <3> QED
      BY <3>2, <3>3
  <2> QED
    BY <1>4, <2>1 DEF Starts, start, Types, Pcs
<1>5. CASE AskFails
  <2>1. IsRound(round')
    BY <1>5 DEF AskFails, Types, IsRound, Fields
  <2> QED
    BY <1>5, <2>1 DEF AskFails, Types, Pcs
<1>6. CASE WakeUp
  <2>1. IsRound(round')
    BY <1>6 DEF WakeUp, NoRound, Types, IsRound, Fields
  <2>2. myDagsTermList' \in Seq(Dag)
    BY <1>6, UniqueKeepsElements DEF WakeUp, Types
  <2> QED
    BY <1>6, <2>1, <2>2, WakerTypes DEF WakeUp, terminate, Types, Pcs
<1>7. CASE releaseDag
  BY <1>7 DEF releaseDag, Types, Pcs, Answers
<1>8. CASE DeleteDag
  <2>1. round.at \in 1..Len(myDagsTermList) /\ myDagsTermList \in Seq(Dag)
    <3>1. round.at \in Nat /\ myDagsTermList \in Seq(Dag)
      BY DEF Types, IsRound
    <3>2. round.at >= 1 /\ round.at <= Len(myDagsTermList)
      BY <1>8 DEF DeleteDag, Walk
    <3> QED
      BY <3>1, <3>2
  <2>2. myDagsTermList' \in Seq(Dag)
    BY <1>8, <2>1, RemoveAtElements DEF DeleteDag
  <2> QED
    BY <1>8, <2>2 DEF DeleteDag, Types, Pcs, DagStates
<1> QED
  BY <1>1, <1>2, <1>3, <1>4, <1>5, <1>6, <1>7, <1>8, SchedulerSorts

\* A call that works on a dag has one.
LEMMA CallerDag ==
  ASSUME Types, caller.pc # "none"
  PROVE  caller.dag \in Dag
<1>1. caller \in Calls
  BY DEF Types
<1>2. caller \in [pc : {"wake", "cancel", "remove"}, dag : Dag, next : SUBSET Node]
  BY <1>1 DEF Calls, NoCall
<1> QED
  BY <1>2

\* and of the calls of clients.
LEMMA TypesCalls ==
  ASSUME Types, Aside \/ \E d \in Dag : scheduleNewDag(d)
  PROVE  Types'
<1> USE DEF dagVars, queueVars, nodeVars, wakeVars, callVars
<1>1. CASE Aside
  <2>1. myWakeUpList' \in Seq(Node \cup {"new dag"}) /\ mySem' = Len(myWakeUpList')
    BY <1>1, AsideFrame, WakeUpTypes DEF Types
  <2>2. myDagsTermList' \in Seq(Dag)
    <3> QED
      BY <1>1, AsideFrame, CallerDag, ListTypes DEF Types
  <2> QED
    BY <1>1, <2>1, <2>2, AsideFrame DEF Types, Pcs
<1>2. CASE \E d \in Dag : scheduleNewDag(d)
  <2>1. PICK d \in Dag : scheduleNewDag(d)
    BY <1>2
  <2>2. state' \in [Dag -> DagStates] /\ myQueue' \in [Node -> QueueNames]
    BY <2>1 DEF scheduleNewDag, firstQueue, Types, DagStates, QueueNames
  <2>3. caller' \in Calls
    BY <2>1 DEF scheduleNewDag, NoCall, Calls
  <2> QED
    BY <2>1, <2>2, <2>3 DEF scheduleNewDag, Types
<1> QED
  BY <1>1, <1>2
\* The kinds of steps.
LEMMA NextSorts ==
  Next <=> \/ Scheduler \/ Aside
           \/ \E n \in Node : Launcher(n)
           \/ \E d \in Dag : scheduleNewDag(d)
BY Zenon DEF Next, Aside, Call

\* So the types are an invariant, with the range of the walk.
LEMMA TypesNext == Types /\ Walk /\ [Next]_vars => Types'
<1> SUFFICES ASSUME Types, Walk, [Next]_vars PROVE Types'
  OBVIOUS
<1>1. CASE UNCHANGED vars
  BY <1>1 DEF vars, Types, dagVars, queueVars, nodeVars, wakeVars, callVars
<1>2. CASE Next
  BY <1>2, NextSorts, TypesLauncher, TypesScheduler, TypesCalls
<1> QED
  BY <1>1, <1>2

\* Once the process is dead, nothing changes any more.
LEMMA DeadStays ==
  ASSUME Types, Next PROVE Alive
<1>1. Scheduler => Alive
  BY SchedulerSorts
<1>2. \A d \in Dag : scheduleNewDag(d) => Alive
  BY DEF scheduleNewDag, MyLockFree, Alive
<1> QED
  BY <1>1, <1>2, NextSorts, LauncherFrame, AsideFrame

\* The walk over the termination list keeps its range.
LEMMA WalkNext ==
  ASSUME Types, Walk, [Next]_vars
  PROVE  Walk'
<1>1. myDagsTermList \in Seq(Dag) /\ round.at \in Nat /\ Len(myDagsTermList) \in Nat
  <2>1. myDagsTermList \in Seq(Dag) /\ round.at \in Nat
    BY DEF Types, IsRound
  <2> QED
    BY <2>1
<1>2. ASSUME pc' \in {pc, "dead"}, round' = round,
             myDagsTermList' = myDagsTermList \/ \E d \in Dag : handlerDagDone(d)
      PROVE  Walk'
  BY <1>1, <1>2, ListTypes DEF Walk
<1>3. ASSUME NEW n \in Node, Launcher(n) PROVE Walk'
  <2>1. UNCHANGED myDagsTermList \/ handlerDagDone(dagOf[n])
    BY <1>3, LauncherFrame DEF LastOfDag, FailureListed
  <2> QED
    BY <1>2, <1>3, <2>1, LauncherFrame, Graph
<1>4. CASE Aside
  <2>1. caller.pc = "remove" => caller.dag \in Dag
    BY CallerDag
  <2> QED
    BY <1>2, <1>4, <2>1, AsideFrame
<1>5. ASSUME NEW d \in Dag, scheduleNewDag(d) PROVE Walk'
  BY <1>2, <1>5 DEF scheduleNewDag
<1>6. CASE UNCHANGED vars
  BY <1>2, <1>6 DEF vars
<1>7. CASE Scheduler
  <2>1. CASE pc' \notin {"check", "release", "delete"}
    BY <2>1 DEF Walk
  <2>2. CASE WakeUp
    <3>1. round'.at = 1 /\ pc' = "check"
      BY <2>2 DEF WakeUp, NoRound
    <3> QED
      BY <3>1 DEF Walk
  <2>3. CASE checkDagsRelease
    <3>1. pc = "check" /\ round.at >= 1 /\ round.at <= Len(myDagsTermList)
      BY <2>3 DEF checkDagsRelease, Walk
    <3>2. myDagsTermList' = myDagsTermList
      BY <2>3 DEF checkDagsRelease
    <3>3. round' = round \/ (round'.at = round.at + 1 /\ pc' \in {"check", "dead"})
      BY <2>3 DEF checkDagsRelease, Dies, Types, IsRound, Fields
    <3> QED
      BY <1>1, <3>1, <3>2, <3>3 DEF Walk
  <2>4. CASE releaseDag
    BY <2>4 DEF releaseDag, Walk
  <2>5. CASE DeleteDag
    BY <2>5 DEF DeleteDag, Walk
  <2> QED
    BY <1>7, <2>1, <2>2, <2>3, <2>4, <2>5, SchedulerSorts DEF Turn, Takes, Gives, Starts, AskFails
<1> QED
  BY <1>3, <1>4, <1>5, <1>6, <1>7, NextSorts

------------------------------------------------------------------------------
(* The places of a node *)

\* No node has a place outside its dag initially.
LEMMA PlacesInit == Init => Places
<1> SUFFICES ASSUME Init PROVE Places
  OBVIOUS
<1>1. ThreadsMatch
  BY DEF Init, ThreadsMatch, Idle
<1>2. LaunchersKnow
  BY DEF Init, LaunchersKnow, Knows, Idle, Notifying
<1>3. WakersAreGone
  BY DEF Init, WakersAreGone, HasElement
<1>4. OnePlace
  <2>1. round.node = Nobody /\ pc = "round"
    BY DEF Init, NoRound
  <2>2. \A n \in Node : myQueue[n] = "none" /\ thread[n] = "none" /\ n # Nobody
    BY Graph DEF Init
  <2> QED
    BY <2>1, <2>2 DEF OnePlace, Hands
<1> QED
  BY <1>1, <1>2, <1>3, <1>4 DEF Places

\* A launcher that runs is neither new nor gone, nor restarted.
LEMMA LauncherMoves ==
  ASSUME Types, NEW n \in Node, Launcher(n), Alive'
  PROVE  /\ lnch[n].pc \notin {"none", "gone"} /\ lnch'[n].pc \notin {"none", "call"}
         /\ \A m \in Node \ {n} : lnch'[m] = lnch[m]
BY LauncherSteps DEF Launcher, Steps

\* A launcher keeps them in agreement, for its own node and for those it pushes.
LEMMA PlacesLauncher ==
  ASSUME Types, Places, NEW n \in Node, Launcher(n), Alive'
  PROVE  Places'
<1>1. thread' = thread /\ round' = round /\ pc' = pc /\ state' = state
  BY LauncherFrame DEF Alive
<1>2. thread[n] = "started" /\ state[dagOf[n]] \in {"in", "out"}
  <2>1. thread[n] \in {"none", "started", "terminated"}
    BY DEF Types
  <2> QED
    BY <2>1, LauncherMoves DEF Places, ThreadsMatch, OnePlace
<1>3. ThreadsMatch'
  <2>1. thread[n] = "started"
    BY <1>2
  <2> QED
    BY <1>1, <2>1, LauncherMoves DEF Places, ThreadsMatch
<1>4. LaunchersKnow'
  <2>1. \A m \in Node : Knows(m)
    BY DEF Places, LaunchersKnow
  <2>2. \A m \in Node \ {n} : lnch'[m] = lnch[m] /\ (m \in taskDone' <=> m \in taskDone)
    <3>1. taskDone' = taskDone \/ taskDone' = taskDone \cup {n}
      BY LauncherFrame DEF Executed
    <3> QED
      BY <3>1, LauncherMoves
  <2>3. \A m \in Node \ {n} : Knows(m)'
    BY <2>1, <2>2 DEF Knows
  <2>4. Knows(n)'
    <3>1. CASE Executed(n)
      BY <2>1, <3>1, LauncherSteps DEF Executed, Steps, Keeps, Knows, Notifying
    <3>2. CASE setNodeDone(n)
      BY <2>1, <3>2, LauncherSteps, LauncherFrame DEF setNodeDone, Steps, Knows, Notifying
    <3>3. CASE ReadCount(n)
      <4>1. taskDone' = taskDone
        BY <3>3 DEF ReadCount
      <4>2. PICK m \in lnch[n].next : /\ m \in Node /\ lnch'[n].next = lnch[n].next \ {m}
                                      /\ lnch'[n].cur = m
        BY <3>3, LauncherSteps
      <4>3. lnch[n].pc = "next" /\ lnch'[n].pc = "dec"
        BY <3>3, LauncherSteps DEF Steps
      <4> QED
        BY <2>1, <4>1, <4>2, <4>3 DEF Knows, Notifying
    <3>4. CASE ~Executed(n) /\ ~setNodeDone(n) /\ ~ReadCount(n)
      <4>1. taskDone' = taskDone
        BY <3>4, LauncherFrame
      <4>2. CASE \/ WriteCount(n) \/ LastOfDag(n) \/ NotExecuted(n) \/ setNodeFailure(n)
                 \/ FailureListed(n) \/ notifyStateChange(n) \/ CountReady(n)
        BY <2>1, <4>1, <4>2, LauncherSteps DEF Steps, Keeps, Knows, Notifying
      <4>3. CASE \/ setAsReady(n) \/ CountWaiting(n) \/ setAsCancelled(n) \/ RemoveNode(n)
                 \/ CountRemoved(n) \/ finishNode(n)
        BY <2>1, <4>1, <4>3, LauncherSteps DEF Steps, Keeps, Knows, Notifying
      <4> QED
        BY <3>4, <4>2, <4>3 DEF Launcher
    <3> QED
      BY <3>1, <3>2, <3>3, <3>4
  <2> QED
    BY <2>3, <2>4 DEF LaunchersKnow
<1>5. WakersAreGone'
  <2>1. \A x : HasElement(myWakeUpList', x) =>
          HasElement(myWakeUpList, x) \/ (x = n /\ lnch'[n].pc = "gone")
    <3>1. CASE finishNode(n)
      BY <3>1, WakeUpTypes, LauncherSteps DEF finishNode, Steps
    <3>2. CASE ~finishNode(n)
      <4>1. myWakeUpList' = myWakeUpList
        BY <3>2, LauncherFrame
      <4> QED
        BY <4>1
    <3> QED
      BY <3>1, <3>2
  <2> QED
    BY <2>1, LauncherMoves DEF Places, WakersAreGone
<1>6. OnePlace'
  <2>1. CASE ~notifyStateChange(n)
    <3>1. \A m \in Node : myQueue'[m] \in {"none", myQueue[m]}
      <4>1. UNCHANGED myQueue \/ \E m : myQueue' = [myQueue EXCEPT ![m] = "none"]
        BY <2>1, LauncherFrame DEF RemoveNode, removeFromNodeQueue
      <4> QED
        BY <4>1 DEF Types
    <3> QED
      BY <1>1, <3>1 DEF Places, OnePlace
  <2>2. CASE notifyStateChange(n)
    <3>1. PICK m \in Node : m = lnch[n].cur /\ dagOf[m] = dagOf[n]
      <4>1. lnch[n].cur \in NextNodes(n)
        BY <2>2, LauncherSteps DEF Places, LaunchersKnow, Knows, Steps, Notifying
      <4> QED
        BY <4>1, Graph DEF NextNodes
    <3>2. myQueue' = [myQueue EXCEPT ![m] = "ready"] /\ thread[m] = "none" /\ round.node # m
      BY <2>2, <3>1 DEF notifyStateChange, Dies, Alive
    <3>3. \A k \in Node : myQueue'[k] = IF k = m THEN "ready" ELSE myQueue[k]
      BY <3>2 DEF Types
    <3> QED
      BY <1>1, <1>2, <3>1, <3>2, <3>3 DEF Places, OnePlace
  <2> QED
    BY <2>1, <2>2
<1> QED
  BY <1>3, <1>4, <1>5, <1>6 DEF Places

\* The scheduler thread starts the node that it has in its hands.
LEMMA StartSteps ==
  ASSUME Types, Places, Starts
  PROVE  \E n \in Node :
           /\ n = round.node /\ thread[n] = "none" /\ state[dagOf[n]] = "in"
           /\ Steps(n, "none", "call") /\ Keeps(n) /\ thread'[n] = "started"
           /\ \A m \in Node \ {n} : thread'[m] = thread[m]
<1>1. pc \in Hands
  BY DEF Starts, Hands
<1>2. PICK n \in Node : n = round.node /\ thread[n] = "none" /\ state[dagOf[n]] = "in"
  BY <1>1 DEF Places, OnePlace
<1>3. /\ lnch' = [lnch EXCEPT ![n].pc = "call"] /\ thread' = [thread EXCEPT ![n] = "started"]
      /\ Locals(lnch) /\ thread \in [Node -> {"none", "started", "terminated"}]
      /\ lnch[n].pc = "none"
  BY <1>2 DEF Starts, start, Goto, Types, Places, ThreadsMatch
<1>4. Steps(n, "none", "call") /\ Keeps(n)
  BY <1>3 DEF Steps, Keeps, Locals, IsLocal, LauncherPcs
<1> QED
  BY <1>2, <1>3, <1>4

\* Queue, thread and launcher of that node agree.
LEMMA PlacesStart ==
  ASSUME Types, Places, Starts
  PROVE  Places'
<1>1. PICK n \in Node :
        /\ n = round.node /\ thread[n] = "none" /\ state[dagOf[n]] = "in"
        /\ Steps(n, "none", "call") /\ Keeps(n) /\ thread'[n] = "started"
        /\ \A m \in Node \ {n} : thread'[m] = thread[m]
  BY StartSteps
<1>2. /\ taskDone' = taskDone /\ state' = state /\ myQueue' = myQueue /\ myWakeUpList' = myWakeUpList
      /\ round'.node = Nobody /\ pc' \notin Hands
  BY DEF Starts, dagVars, wakeVars, Hands
<1>3. ThreadsMatch'
  BY <1>1 DEF Places, ThreadsMatch, Steps
<1>4. LaunchersKnow'
  BY <1>1, <1>2 DEF Places, LaunchersKnow, Knows, Steps, Keeps, Notifying
<1>5. WakersAreGone'
  BY <1>1, <1>2 DEF Places, WakersAreGone, Steps, HasElement
<1>6. OnePlace'
  <2>1. \A m \in Node : m # Nobody
    BY Graph
  <2>2. \A m \in Node : thread'[m] # "none" => thread[m] # "none" \/ m = n
    BY <1>1
  <2>3. \A m \in Node : thread[m] = "none" /\ m # n => thread'[m] = "none"
    BY <1>1
  <2>4. myQueue[n] = "none"
    BY <1>1 DEF Places, OnePlace
  <2> QED
    BY <1>1, <1>2, <2>1, <2>2, <2>3, <2>4 DEF Places, OnePlace
<1> QED
  BY <1>3, <1>4, <1>5, <1>6 DEF Places

\* It joins a launcher that has ended.
LEMMA JoinSteps ==
  ASSUME Types, Places, WakeUp
  PROVE  /\ lnch' = lnch /\ taskDone' = taskDone
         /\ \A n \in Node : \/ thread'[n] = thread[n]
                            \/ thread'[n] = "terminated" /\ lnch[n].pc = "gone" /\ thread[n] # "none"
<1>1. Head(myWakeUpList) \in Node => lnch[Head(myWakeUpList)].pc = "gone"
  BY WakerTypes DEF Places, WakersAreGone
<1>2. \A n \in Node : thread'[n] = IF n = Head(myWakeUpList) THEN "terminated" ELSE thread[n]
  BY DEF WakeUp, terminate
<1>3. lnch' = lnch /\ taskDone' = taskDone
  BY DEF WakeUp
<1> QED
  BY <1>1, <1>2, <1>3 DEF Places, ThreadsMatch

\* The other steps leave the launchers alone,
LEMMA PlacesKeepLaunchers ==
  ASSUME Places, lnch' = lnch, taskDone' = taskDone, thread' = thread,
         \A n \in Node : HasElement(myWakeUpList', n) => HasElement(myWakeUpList, n)
  PROVE  ThreadsMatch' /\ LaunchersKnow' /\ WakersAreGone'
BY DEF Places, ThreadsMatch, LaunchersKnow, Knows, WakersAreGone

\* and those that change no dag but to end it move nodes out of the queues only.
LEMMA PlacesKeepNodes ==
  ASSUME Types, Places,
         \A n \in Node : \/ thread'[n] = thread[n]
                         \/ thread'[n] # "none" /\ thread[n] # "none",
         \A n \in Node : myQueue'[n] # "none" => myQueue[n] # "none",
         \/ round'.node = round.node /\ (pc' \in Hands <=> pc \in Hands)
         \/ round'.node = Nobody /\ pc' \notin Hands,
         \A d \in Dag : \/ state'[d] = state[d]
                        \/ state[d] = "new" /\ state'[d] = "refused"
                        \/ state'[d] = "out" /\ pc \notin Hands /\ pc' \notin Hands
  PROVE  OnePlace'
<1>1. \A n \in Node : n # Nobody /\ dagOf[n] \in Dag
  BY Graph
<1> QED
  BY <1>1 DEF Places, OnePlace

\* The scheduler thread.
LEMMA PlacesScheduler ==
  ASSUME Types, Places, Scheduler, Alive'
  PROVE  Places'
<1> USE DEF dagVars, queueVars, nodeVars, wakeVars, callVars
<1>1. CASE Starts
  BY <1>1, PlacesStart
<1>2. CASE WakeUp
  <2>1. ThreadsMatch' /\ LaunchersKnow'
    BY <1>2, JoinSteps DEF Places, ThreadsMatch, LaunchersKnow, Knows
  <2>2. WakersAreGone'
    BY <1>2, JoinSteps, WakerTypes DEF Places, WakersAreGone
  <2>3. /\ myQueue' = myQueue /\ state' = state /\ round'.node = Nobody /\ pc' \notin Hands
    BY <1>2 DEF WakeUp, NoRound, Hands
  <2>4. OnePlace'
    BY <1>2, <2>3, JoinSteps, PlacesKeepNodes
  <2> QED
    BY <2>1, <2>2, <2>4 DEF Places
<1>3. CASE Turn
  <2>1. ThreadsMatch' /\ LaunchersKnow' /\ WakersAreGone'
    BY <1>3, PlacesKeepLaunchers DEF Turn, HasElement
  <2>2. OnePlace'
    BY <1>3, PlacesKeepNodes DEF Turn
  <2> QED
    BY <2>1, <2>2 DEF Places
<1>4. CASE AskFails \/ releaseDag
  <2>1. ThreadsMatch' /\ LaunchersKnow' /\ WakersAreGone'
    BY <1>4, PlacesKeepLaunchers DEF AskFails, releaseDag, HasElement
  <2>2. /\ myQueue' = myQueue /\ state' = state /\ thread' = thread
        /\ \/ round'.node = round.node /\ (pc' \in Hands <=> pc \in Hands)
           \/ round'.node = Nobody /\ pc' \notin Hands
    BY <1>4 DEF AskFails, releaseDag, Hands, Types, IsRound, Fields
  <2>3. OnePlace'
    BY <2>2, PlacesKeepNodes
  <2> QED
    BY <2>1, <2>3 DEF Places
<1>5. CASE DeleteDag
  <2>1. ThreadsMatch' /\ LaunchersKnow' /\ WakersAreGone'
    BY <1>5, PlacesKeepLaunchers DEF DeleteDag, HasElement
  <2>2. \A d \in Dag : state'[d] \in {state[d], "out"}
    BY <1>5 DEF DeleteDag, Types
  <2>3. OnePlace'
    BY <1>5, <2>2, PlacesKeepNodes DEF DeleteDag, Hands
  <2> QED
    BY <2>1, <2>3 DEF Places
<1>6. ASSUME NEW n \in Node, Takes(n) PROVE Places'
  <2>1. ThreadsMatch' /\ LaunchersKnow' /\ WakersAreGone'
    BY <1>6, PlacesKeepLaunchers DEF Takes, HasElement
  <2>2. \A m \in Node : myQueue'[m] = IF m = n THEN "none" ELSE myQueue[m]
    BY <1>6 DEF Takes, Types
  <2>3. pc \notin Hands /\ pc' \in Hands /\ myQueue[n] # "none"
    BY <1>6 DEF Takes, Hands
  <2>4. OnePlace'
    BY <1>6, <2>2, <2>3 DEF Takes, Places, OnePlace
  <2> QED
    BY <2>1, <2>4 DEF Places
<1>7. ASSUME NEW q, Gives(q) PROVE Places'
  <2>1. ThreadsMatch' /\ LaunchersKnow' /\ WakersAreGone'
    BY <1>7, PlacesKeepLaunchers DEF Gives, HasElement
  <2>2. PICK n \in Node : n = round.node
    BY <1>7 DEF Gives, Places, OnePlace
  <2>3. \A m \in Node : myQueue'[m] = IF m = n THEN q ELSE myQueue[m]
    BY <1>7, <2>2 DEF Gives, Types
  <2>4. pc' \notin Hands /\ \A m \in Node : m # Nobody
    BY <1>7, Graph DEF Gives, Hands
  <2>5. OnePlace'
    BY <1>7, <2>2, <2>3, <2>4 DEF Gives, Places, OnePlace
  <2> QED
    BY <2>1, <2>5 DEF Places
<1> QED
  BY <1>1, <1>2, <1>3, <1>4, <1>5, <1>6, <1>7, SchedulerSorts

\* The calls of clients move nodes only out of the queues, or those of a new dag into the first.
LEMMA PlacesCalls ==
  ASSUME Types, Places, Alive', Aside \/ \E d \in Dag : scheduleNewDag(d)
  PROVE  Places'
<1> USE DEF dagVars, queueVars, nodeVars, wakeVars, callVars
<1>1. CASE Aside
  <2>1. \A n \in Node : HasElement(myWakeUpList', n) => HasElement(myWakeUpList, n)
    BY <1>1, AsideFrame, WakeUpTypes, Graph
  <2>2. ThreadsMatch' /\ LaunchersKnow' /\ WakersAreGone'
    BY <1>1, <2>1, AsideFrame, PlacesKeepLaunchers
  <2>3. pc' = pc
    BY <1>1, AsideFrame DEF Alive
  <2>4. OnePlace'
    BY <1>1, <2>3, AsideFrame, PlacesKeepNodes
  <2> QED
    BY <2>2, <2>4 DEF Places
<1>2. ASSUME NEW d \in Dag, scheduleNewDag(d) PROVE Places'
  <2>1. /\ lnch' = lnch /\ taskDone' = taskDone /\ thread' = thread /\ round' = round /\ pc' = pc
        /\ myWakeUpList' = myWakeUpList
        /\ state[d] = "new" /\ state \in [Dag -> DagStates] /\ state' = [state EXCEPT ![d] = "in"]
    BY <1>2 DEF scheduleNewDag, Types
  <2>2. \A n \in Node : dagOf[n] # d => myQueue'[n] = myQueue[n]
    BY <1>2 DEF scheduleNewDag
  <2>3. \A n \in Node : state'[dagOf[n]] = IF dagOf[n] = d THEN "in" ELSE state[dagOf[n]]
    BY <2>1, Graph
  <2>4. ThreadsMatch' /\ LaunchersKnow' /\ WakersAreGone'
    BY <2>1, PlacesKeepLaunchers DEF HasElement
  <2>5. \A n \in Node : dagOf[n] = d => thread[n] = "none" /\ round.node # n
    BY <2>1 DEF Places, OnePlace
  <2>6. OnePlace'
    BY <2>1, <2>2, <2>3, <2>5 DEF Places, OnePlace
  <2> QED
    BY <2>4, <2>6 DEF Places
<1> QED
  BY <1>1, <1>2

\* So queue, launcher and marks of a node agree as long as the process lives.
LEMMA PlacesNext ==
  ASSUME Types, Alive => Places, [Next]_vars
  PROVE  Alive' => Places'
<1> SUFFICES ASSUME Alive' PROVE Places'
  OBVIOUS
<1>1. CASE UNCHANGED vars
  <2>1. pc' = pc /\ Alive
    BY <1>1 DEF vars, Alive
  <2> QED
    BY <1>1, <2>1 DEF vars, queueVars, nodeVars, wakeVars, dagVars, Places, ThreadsMatch, LaunchersKnow,
       Knows, WakersAreGone, OnePlace, HasElement
<1>2. CASE Next
  BY <1>2, NextSorts, DeadStays, PlacesLauncher, PlacesScheduler, PlacesCalls
<1> QED
  BY <1>1, <1>2

------------------------------------------------------------------------------
(* The order of the nodes *)

\* A set of predecessors and a part of it, counted.
LEMMA CountOfSome ==
  ASSUME NEW m \in Node, NEW T \in SUBSET Prev[m], NEW S \in SUBSET T
  PROVE  /\ Cardinality(S) \in Nat /\ Cardinality(T) \in Nat /\ Cardinality(S) <= Cardinality(T)
         /\ \A x \in T \ S : Cardinality(S) <= Cardinality(T) - 1
         /\ Cardinality(T) = 0 => T = {}
<1>1. IsFiniteSet(T)
  BY PrevFinite, FS_Subset
<1>2. IsFiniteSet(S) /\ Cardinality(S) <= Cardinality(T) /\ (Cardinality(S) = Cardinality(T) => S = T)
  BY <1>1, FS_Subset
<1>3. Cardinality(S) \in Nat /\ Cardinality(T) \in Nat /\ (Cardinality(T) = 0 => T = {})
  BY <1>1, <1>2, FS_CardinalityType, FS_EmptySet
<1> QED
  BY <1>2, <1>3


\* Nothing is done and nothing has started initially.
LEMMA InOrderInit == Init => InOrder
<1> SUFFICES ASSUME Init PROVE InOrder
  OBVIOUS
<1>1. \A n \in Node : lnch[n].pc = "none"
  BY DEF Init, Idle
<1>2. CountsSuffice
  <2> SUFFICES ASSUME NEW m \in Node PROVE todoCount[m] >= Cardinality(Owing(m))
    BY <1>1 DEF CountsSuffice
  <2>1. todoCount[m] = Cardinality(Prev[m])
    BY DEF Init
  <2>2. Owing(m) \in SUBSET Prev[m]
    BY DEF Owing
  <2> QED
    BY <2>1, <2>2, CountOfSome
<1>3. \A m \in Node : ~PastWaiting(m)
  <2>1. \A m \in Node : myQueue[m] = "none" /\ thread[m] = "none" /\ round.node # m
    BY Graph DEF Init, NoRound
  <2> QED
    BY <1>1, <2>1 DEF PastWaiting
<1> QED
  BY <1>2, <1>3 DEF InOrder


\* Only the launchers and their start and join touch what the order is about.
LEMMA OtherSteps ==
  ASSUME Types, [Next]_vars, \A n \in Node : ~Launcher(n), ~Starts
  PROVE  lnch' = lnch /\ taskDone' = taskDone /\ todoCount' = todoCount /\ (thread' = thread \/ WakeUp)
<1>1. CASE Scheduler
  BY <1>1, SchedulerSorts DEF Turn, Takes, Gives, AskFails, WakeUp, releaseDag, DeleteDag, nodeVars
<1>2. CASE Aside
  BY <1>2, AsideFrame DEF nodeVars
<1>3. CASE \E d \in Dag : scheduleNewDag(d)
  BY <1>3 DEF scheduleNewDag, nodeVars
<1>4. CASE UNCHANGED vars
  BY <1>4 DEF vars, nodeVars
<1> QED
  BY <1>1, <1>2, <1>3, <1>4, NextSorts

\* No step makes a predecessor owe again.
LEMMA OwingShrinks ==
  ASSUME Types, Places, [Next]_vars, Alive'
  PROVE  /\ \A m \in Node : Owing(m)' \subseteq Owing(m)
         /\ taskDone \subseteq taskDone'
<1>0. \A m \in Node : Prev[m] \subseteq Node
  BY Graph
<1>1. ASSUME NEW n \in Node, Launcher(n)
      PROVE  /\ \A m \in Node : Owing(m)' \subseteq Owing(m)
             /\ taskDone \subseteq taskDone'
  <2>1. \A p \in Node \ {n} : lnch'[p] = lnch[p]
    BY <1>1, LauncherMoves
  <2>2. taskDone \subseteq taskDone'
    BY <1>1, LauncherFrame DEF Executed
  <2>3. ASSUME NEW m \in Node, Owes(n, m)' PROVE Owes(n, m)
    <3>1. CASE lnch[n].pc \in {"call", "failed", "cancel", "remove", "done"}
      BY <3>1 DEF Places, LaunchersKnow, Knows, Owes
    <3>2. CASE ReadCount(n)
      <4>1. taskDone' = taskDone
        BY <3>2 DEF ReadCount
      <4>2. PICK k \in lnch[n].next :
              lnch'[n].pc = "dec" /\ lnch'[n].next = lnch[n].next \ {k} /\ lnch'[n].cur = k
        BY <3>2, LauncherSteps DEF Steps
      <4> QED
        BY <2>3, <4>1, <4>2 DEF Owes
    <3>3. CASE lnch[n].pc \notin {"call", "failed", "cancel", "remove", "done"} /\ ~ReadCount(n)
      <4>1. \/ WriteCount(n) \/ setAsReady(n) \/ notifyStateChange(n) \/ CountReady(n)
            \/ CountWaiting(n) \/ LastOfDag(n) \/ finishNode(n)
        BY <1>1, <3>3, LauncherSteps DEF Launcher, Steps
      <4>2. taskDone' = taskDone
        BY <1>1, <3>3, LauncherFrame, LauncherSteps DEF Steps
      <4>3. lnch'[n].next \in {lnch[n].next, {}} /\ lnch'[n].pc \notin {"done", "dec"}
        BY <4>1, LauncherSteps DEF Steps, Keeps
      <4> QED
        BY <2>3, <4>2, <4>3 DEF Owes
    <3> QED
      BY <3>1, <3>2, <3>3
  <2>4. ASSUME NEW m \in Node, NEW p \in Node \ {n}, Owes(p, m)' PROVE Owes(p, m)
    BY <2>1, <2>2, <2>4 DEF Owes
  <2> QED
    BY <1>0, <2>2, <2>3, <2>4 DEF Owing
<1>2. CASE Starts
  <2>1. PICK n \in Node : Steps(n, "none", "call") /\ Keeps(n)
    BY <1>2, StartSteps
  <2>2. taskDone' = taskDone
    BY <1>2 DEF Starts
  <2>3. \A m \in Node : \A p \in Node : Owes(p, m)' => Owes(p, m)
    BY <2>1, <2>2 DEF Owes, Steps, Keeps
  <2> QED
    BY <1>0, <2>2, <2>3 DEF Owing
<1>3. CASE lnch' = lnch /\ taskDone' = taskDone
  BY <1>3 DEF Owing, Owes
<1> QED
  BY <1>1, <1>2, <1>3, OtherSteps

\* The count of a node is never less than the predecessors still to be subtracted.
LEMMA CountsNext ==
  ASSUME Types, Places, CountsSuffice, [Next]_vars, Alive'
  PROVE  CountsSuffice'
<1>1. \A m \in Node : /\ Cardinality(Owing(m)) \in Nat /\ Cardinality(Owing(m)') \in Nat
                      /\ Cardinality(Owing(m)') <= Cardinality(Owing(m))
  <2> SUFFICES ASSUME NEW m \in Node
               PROVE  /\ Cardinality(Owing(m)) \in Nat /\ Cardinality(Owing(m)') \in Nat
                      /\ Cardinality(Owing(m)') <= Cardinality(Owing(m))
    OBVIOUS
  <2>1. Owing(m) \in SUBSET Prev[m] /\ Owing(m)' \in SUBSET Owing(m)
    BY OwingShrinks DEF Owing
  <2> QED
    BY <2>1, CountOfSome
<1>2. todoCount \in [Node -> Int] /\ Locals(lnch)
  BY DEF Types
<1>3. \A p \in Node : lnch[p].tmp \in Int
  BY <1>2 DEF Locals, IsLocal
<1>4. ASSUME todoCount' = todoCount,
             \A p \in Node : lnch'[p].pc = "dec" => lnch'[p] = lnch[p]
      PROVE  CountsSuffice'
  BY <1>1, <1>2, <1>3, <1>4 DEF CountsSuffice
<1>5. ASSUME NEW n \in Node, Launcher(n) PROVE CountsSuffice'
  <2>1. \A p \in Node \ {n} : lnch'[p] = lnch[p]
    BY <1>5, LauncherMoves
  <2>2. CASE ReadCount(n)
    <3>1. todoCount' = todoCount
      BY <2>2 DEF ReadCount
    <3>2. PICK k \in Node : lnch'[n].cur = k /\ lnch'[n].tmp = todoCount[k]
      BY <2>2, LauncherSteps
    <3> QED
      BY <1>1, <1>2, <1>3, <2>1, <3>1, <3>2 DEF CountsSuffice
  <2>3. CASE WriteCount(n)
    <3>1. lnch[n].pc = "dec" /\ lnch'[n].pc = "check" /\ lnch'[n].next = lnch[n].next
      BY <2>3, LauncherSteps DEF Steps, Keeps
    <3>2. PICK k \in Node : k = lnch[n].cur /\ n \in Prev[k] /\ k \notin lnch[n].next /\ n \in taskDone
      <4>1. lnch[n].cur \in NextNodes(n) \ lnch[n].next /\ n \in taskDone
        BY <3>1 DEF Places, LaunchersKnow, Knows, Notifying
      <4> QED
        BY <4>1 DEF NextNodes
    <3>3. n \in Owing(k) /\ n \notin Owing(k)'
      <4>1. taskDone' = taskDone
        BY <2>3 DEF WriteCount
      <4> QED
        BY <3>1, <3>2, <4>1 DEF Owing, Owes
    <3>4. Cardinality(Owing(k)') <= Cardinality(Owing(k)) - 1
      <4>1. Owing(k) \in SUBSET Prev[k] /\ Owing(k)' \in SUBSET Owing(k)
        BY OwingShrinks DEF Owing
      <4> QED
        BY <3>3, <4>1, CountOfSome
    <3>5. \A m \in Node : todoCount'[m] = IF m = k THEN lnch[n].tmp - 1 ELSE todoCount[m]
      BY <1>2, <2>3, <3>2 DEF WriteCount
    <3>6. lnch[n].tmp >= Cardinality(Owing(k))
      BY <3>1, <3>2 DEF CountsSuffice
    <3>7. \A m \in Node : todoCount'[m] >= Cardinality(Owing(m)')
      BY <1>1, <1>2, <1>3, <3>4, <3>5, <3>6 DEF CountsSuffice
    <3>8. \A p \in Node : lnch'[p].pc = "dec" => lnch'[p] = lnch[p]
      BY <2>1, <3>1
    <3> QED
      BY <1>1, <1>3, <3>7, <3>8 DEF CountsSuffice
  <2>4. CASE ~ReadCount(n) /\ ~WriteCount(n)
    <3>1. todoCount' = todoCount
      BY <1>5, <2>4, LauncherFrame
    <3>2. lnch'[n].pc # "dec"
      BY <1>5, <2>4, LauncherSteps DEF Launcher, Steps
    <3> QED
      BY <1>4, <2>1, <3>1, <3>2
  <2> QED
    BY <2>2, <2>3, <2>4
<1>6. CASE Starts
  <2>1. PICK n \in Node : Steps(n, "none", "call")
    BY <1>6, StartSteps
  <2>2. todoCount' = todoCount
    BY <1>6 DEF Starts
  <2> QED
    BY <1>4, <2>1, <2>2 DEF Steps
<1>7. CASE lnch' = lnch /\ todoCount' = todoCount
  BY <1>4, <1>7
<1> QED
  BY <1>5, <1>6, <1>7, OtherSteps

\* A node leaves the waiting queue when it is ready.
LEMMA PastWaitingNext ==
  ASSUME Types, Places, CountsSuffice, [Next]_vars, Alive', NEW m \in Node, PastWaiting(m)'
  PROVE  PastWaiting(m) \/ Owing(m) = {}
<1>1. ASSUME NEW n \in Node, Launcher(n) PROVE PastWaiting(m) \/ Owing(m) = {}
  <2>1. thread' = thread /\ round' = round /\ \A p \in Node \ {n} : lnch'[p] = lnch[p]
    BY <1>1, LauncherFrame, LauncherMoves
  <2>2. CASE notifyStateChange(n)
    <3>1. lnch[n].pc = "push" /\ lnch'[n].pc = "ready"
      BY <2>2, LauncherSteps DEF Steps
    <3>2. m = lnch[n].cur \/ myQueue'[m] = myQueue[m]
      BY <2>2 DEF notifyStateChange, Dies, Alive, Types
    <3> QED
      BY <2>1, <3>1, <3>2 DEF PastWaiting
  <2>3. CASE setAsReady(n)
    <3>1. myQueue' = myQueue
      BY <2>3 DEF setAsReady, queueVars
    <3>2. CASE Steps(n, "check", "push") /\ Keeps(n) /\ isReady(lnch[n].cur)
      <4>1. CASE m = lnch[n].cur
        <5>1. todoCount[m] = 0 /\ 0 >= Cardinality(Owing(m))
          BY <3>2, <4>1 DEF isReady, CountsSuffice
        <5>2. Owing(m) \in SUBSET Prev[m]
          BY DEF Owing
        <5> QED
          BY <5>1, <5>2, CountOfSome
      <4>2. CASE m # lnch[n].cur
        BY <2>1, <3>1, <3>2, <4>2 DEF PastWaiting, Steps, Keeps
      <4> QED
        BY <4>1, <4>2
    <3>3. CASE Steps(n, "check", "next")
      BY <2>1, <3>1, <3>3 DEF PastWaiting, Steps
    <3> QED
      BY <2>3, <3>2, <3>3, LauncherSteps
  <2>4. CASE ~notifyStateChange(n) /\ ~setAsReady(n)
    <3>1. lnch'[n].pc # "push"
      BY <1>1, <2>4, LauncherSteps DEF Launcher, Steps
    <3>2. myQueue'[m] \in {"none", myQueue[m]}
      <4>1. UNCHANGED myQueue \/ \E k : myQueue' = [myQueue EXCEPT ![k] = "none"]
        BY <1>1, <2>4, LauncherFrame DEF RemoveNode, removeFromNodeQueue
      <4> QED
        BY <4>1 DEF Types
    <3> QED
      BY <2>1, <3>1, <3>2 DEF PastWaiting
  <2> QED
    BY <2>2, <2>3, <2>4
<1>2. CASE Starts
  <2>1. PICK n \in Node : n = round.node /\ Steps(n, "none", "call") /\ thread'[n] = "started"
          /\ \A k \in Node \ {n} : thread'[k] = thread[k]
    BY <1>2, StartSteps
  <2>2. myQueue' = myQueue /\ round'.node # m
    BY <1>2, Graph DEF Starts
  <2> QED
    BY <2>1, <2>2 DEF PastWaiting, Steps
<1>3. ASSUME NEW n \in Node, Takes(n) PROVE PastWaiting(m)
  <2>1. /\ thread' = thread /\ lnch' = lnch /\ round'.node = n /\ myQueue[n] \in {"ready", "exec"}
        /\ \A k \in Node : myQueue'[k] = IF k = n THEN "none" ELSE myQueue[k]
    BY <1>3 DEF Takes, nodeVars, Types
  <2> QED
    BY <2>1 DEF PastWaiting
<1>4. ASSUME NEW q, Gives(q) PROVE PastWaiting(m)
  <2>1. thread' = thread /\ lnch' = lnch /\ round'.node # m
    BY <1>4, Graph DEF Gives, nodeVars
  <2>2. myQueue'[m] = myQueue[m] \/ round.node = m
    BY <1>4 DEF Gives, Types
  <2> QED
    BY <2>1, <2>2 DEF PastWaiting
<1>5. CASE Turn \/ AskFails \/ WakeUp \/ releaseDag \/ DeleteDag
  <2>1. /\ lnch' = lnch /\ myQueue' = myQueue
        /\ thread'[m] # "none" => thread[m] # "none"
    <3>1. CASE WakeUp
      BY <3>1, JoinSteps DEF WakeUp, queueVars
    <3>2. CASE ~WakeUp
      BY <1>5, <3>2 DEF Turn, AskFails, releaseDag, DeleteDag, nodeVars, queueVars
    <3> QED
      BY <3>1, <3>2
  <2>2. round'.node = m => round.node = m
    <3>1. m # Nobody
      BY Graph
    <3>2. CASE Turn
      BY <3>1, <3>2 DEF Turn
    <3>3. CASE AskFails
      BY <3>1, <3>3 DEF AskFails, Types, IsRound, Fields
    <3>4. CASE WakeUp \/ releaseDag \/ DeleteDag
      BY <3>1, <3>4 DEF WakeUp, NoRound, releaseDag, DeleteDag
    <3> QED
      BY <1>5, <3>2, <3>3, <3>4
  <2> QED
    BY <2>1, <2>2 DEF PastWaiting
<1>6. CASE Aside
  BY <1>6, AsideFrame DEF PastWaiting, nodeVars
<1>7. ASSUME NEW d \in Dag, scheduleNewDag(d) PROVE PastWaiting(m) \/ Owing(m) = {}
  <2>1. thread' = thread /\ round' = round /\ lnch' = lnch
    BY <1>7 DEF scheduleNewDag, nodeVars
  <2>2. \/ myQueue'[m] = myQueue[m]
        \/ Prev[m] # {} /\ myQueue'[m] = "wait"
        \/ Prev[m] = {}
    BY <1>7 DEF scheduleNewDag, firstQueue
  <2> QED
    BY <2>1, <2>2 DEF PastWaiting, Owing
<1>8. CASE UNCHANGED vars
  BY <1>8 DEF vars, queueVars, nodeVars, PastWaiting
<1> QED
  BY <1>1, <1>2, <1>3, <1>4, <1>5, <1>6, <1>7, <1>8, NextSorts, SchedulerSorts

\* So a node whose count is zero has no predecessor that is not done.
LEMMA InOrderNext ==
  ASSUME Types, Places, InOrder, [Next]_vars, Alive'
  PROVE  InOrder'
<1>1. CountsSuffice'
  BY CountsNext DEF InOrder
<1>2. ASSUME NEW m \in Node, PastWaiting(m)' PROVE Prev[m] \subseteq taskDone'
  <2>1. PastWaiting(m) \/ Owing(m) = {}
    BY <1>2, PastWaitingNext DEF InOrder
  <2>2. Prev[m] \subseteq taskDone
    BY <2>1 DEF InOrder, Owing, Owes
  <2> QED
    BY <2>2, OwingShrinks
<1> QED
  BY <1>1, <1>2 DEF InOrder


\* No thread starts, and no node is undone, in the step that ends the process.
LEMMA LastStep ==
  ASSUME Types, Next, ~Alive'
  PROVE  /\ thread' = thread /\ told' = told /\ taskDone \subseteq taskDone'
         /\ \A n \in Node : lnch'[n].pc = lnch[n].pc
<1>1. ASSUME NEW n \in Node, Launcher(n)
      PROVE  /\ thread' = thread /\ told' = told /\ taskDone \subseteq taskDone'
             /\ \A m \in Node : lnch'[m].pc = lnch[m].pc
  BY <1>1, LauncherFrame DEF Executed
<1>2. CASE Scheduler
  BY <1>2, SchedulerSorts DEF Turn, Takes, Gives, Starts, AskFails, WakeUp, releaseDag, DeleteDag, Alive,
     nodeVars, dagVars
<1>3. CASE Aside
  BY <1>3, AsideFrame DEF nodeVars
<1>4. ASSUME NEW d \in Dag, scheduleNewDag(d) PROVE FALSE
  BY <1>4 DEF scheduleNewDag, MyLockFree, Alive
<1> QED
  BY <1>1, <1>2, <1>3, <1>4, NextSorts

------------------------------------------------------------------------------
(* The first theorem *)

OrderInv == /\ Types /\ Walk /\ (Alive => Places /\ InOrder)
            /\ StartsInOrder

\* The first layer holds initially,
LEMMA OrderInvInit == Init => OrderInv
<1>1. Init => Walk /\ StartsInOrder
  BY DEF Init, Walk, StartsInOrder
<1> QED
  BY <1>1, TypesInit, PlacesInit, InOrderInit DEF OrderInv

\* every step keeps it,
LEMMA OrderInvNext == OrderInv /\ [Next]_vars => OrderInv'
<1> SUFFICES ASSUME OrderInv, [Next]_vars PROVE OrderInv'
  OBVIOUS
<1>1. Types' /\ Walk'
  BY TypesNext, WalkNext DEF OrderInv
<1>2. ASSUME Alive' PROVE Places' /\ InOrder'
  <2>1. Alive
    BY <1>2, DeadStays DEF OrderInv, vars, Alive
  <2>2. Places'
    BY <1>2, PlacesNext DEF OrderInv
  <2> QED
    BY <1>2, <2>1, <2>2, InOrderNext DEF OrderInv
<1>3. StartsInOrder'
  <2>1. CASE Alive'
    BY <1>2, <2>1 DEF InOrder, PastWaiting, StartsInOrder
  <2>2. CASE ~Alive'
    <3>1. thread' = thread /\ taskDone \subseteq taskDone'
      <4>1. CASE Next
        BY <2>2, <4>1, LastStep DEF OrderInv
      <4>2. CASE UNCHANGED vars
        BY <4>2 DEF vars, nodeVars
      <4> QED
        BY <4>1, <4>2
    <3> QED
      BY <3>1 DEF OrderInv, StartsInOrder
  <2> QED
    BY <2>1, <2>2
<1> QED
  BY <1>1, <1>2, <1>3 DEF OrderInv

\* and so it is an invariant.
LEMMA OrderInvariant == Spec => []OrderInv
<1> QED
  BY OrderInvInit, OrderInvNext, PTL DEF Spec

\* DagNode::start(), for any dags: a node runs only after the client has executed all
\* nodes that it depends on, whatever decrements of prevNodesTodoCount are lost.
THEOREM NodesStartInOrder == Spec => []StartsInOrder
<1>1. OrderInv => StartsInOrder
  BY DEF OrderInv
<1> QED
  BY <1>1, OrderInvariant, PTL
------------------------------------------------------------------------------
(* How the dags change *)

\* A dag is accepted or refused once, and leaves by DeleteDag only.
LEMMA StateMoves ==
  ASSUME Types, Next, NEW d \in Dag
  PROVE  \/ state'[d] = state[d]
         \/ state[d] = "new" /\ state'[d] \in {"in", "refused"}
         \/ DeleteDag /\ d = myDagsTermList[round.at] /\ state'[d] = "out"
<1>1. state \in [Dag -> DagStates]
  BY DEF Types
<1>2. CASE \E n \in Node : Launcher(n)
  BY <1>2, LauncherFrame
<1>3. CASE Scheduler
  <2>1. CASE DeleteDag
    BY <1>1, <2>1 DEF DeleteDag
  <2>2. CASE ~DeleteDag
    BY <1>3, <2>2, SchedulerSorts
    DEF Turn, Takes, Gives, Starts, AskFails, WakeUp, releaseDag, dagVars
  <2> QED
    BY <2>1, <2>2
<1>4. CASE Aside
  BY <1>4, AsideFrame
<1>5. CASE \E e \in Dag : scheduleNewDag(e)
  BY <1>1, <1>5 DEF scheduleNewDag
<1> QED
  BY <1>2, <1>3, <1>4, <1>5, NextSorts

\* The flag of a dag is set by its launchers, by cancelDag(), by a failed submission or
\* by a release that does not reach the client.  It is never cleared.
LEMMA CancelledMoves ==
  ASSUME Types, Next, NEW d \in Dag
  PROVE  \/ cancelled'[d] = cancelled[d]
         \/ cancelled'[d] /\ \/ \E n \in Nodes(d) : setAsCancelled(n)
                             \/ caller.pc = "cancel" /\ caller.dag = d
                             \/ AskFails /\ dagOf[round.node] = d
                             \/ releaseDag /\ myDagsTermList[round.at] = d
<1>1. cancelled \in [Dag -> BOOLEAN]
  BY DEF Types
<1>2. ASSUME NEW n \in Node, Launcher(n)
      PROVE  cancelled'[d] = cancelled[d] \/ (cancelled'[d] /\ n \in Nodes(d) /\ setAsCancelled(n))
  BY <1>1, <1>2, LauncherFrame DEF setAsCancelled, Nodes
<1>3. ASSUME Scheduler
      PROVE  \/ cancelled'[d] = cancelled[d]
             \/ cancelled'[d] /\ \/ AskFails /\ dagOf[round.node] = d
                                 \/ releaseDag /\ myDagsTermList[round.at] = d
  <2>1. CASE ~AskFails /\ ~releaseDag
    BY <1>3, <2>1, SchedulerSorts DEF Turn, Takes, Gives, Starts, WakeUp, DeleteDag, dagVars
  <2>2. CASE AskFails
    BY <1>1, <2>2 DEF AskFails
  <2>3. CASE releaseDag
    BY <1>1, <2>3 DEF releaseDag
  <2> QED
    BY <2>1, <2>2, <2>3
<1>4. ASSUME Aside
      PROVE  \/ cancelled'[d] = cancelled[d]
             \/ cancelled'[d] /\ caller.pc = "cancel" /\ caller.dag = d
  BY <1>1, <1>4, AsideFrame
<1>5. ASSUME NEW e \in Dag, scheduleNewDag(e) PROVE cancelled' = cancelled
  BY <1>5 DEF scheduleNewDag
<1> QED
  BY <1>2, <1>3, <1>4, <1>5, NextSorts

\* The walk over the termination list stays inside the list.
LEMMA WalkInRange ==
  ASSUME Types, Walk, pc \in {"release", "delete"}
  PROVE  round.at \in 1..Len(myDagsTermList) /\ myDagsTermList[round.at] \in Dag
<1>1. round.at \in Nat /\ myDagsTermList \in Seq(Dag)
  BY DEF Types, IsRound
<1> QED
  BY <1>1 DEF Walk

\* Who lists a dag for release.
LEMMA ListMoves ==
  ASSUME Types, Walk, Next, NEW d \in Dag, Listed(d)'
  PROVE  \/ Listed(d)
         \/ \E n \in Nodes(d) : \/ LastOfDag(n) /\ DagEnds(d)
                                \/ FailureListed(n)
         \/ cancelDag_List /\ caller.pc = "remove" /\ caller.dag = d
<1>1. myDagsTermList \in Seq(Dag)
  BY DEF Types
<1>2. myDagsTermList' = myDagsTermList => Listed(d)
  BY DEF Listed
<1>3. ASSUME NEW n \in Node, Launcher(n)
      PROVE  \/ Listed(d)
             \/ n \in Nodes(d) /\ ((LastOfDag(n) /\ DagEnds(d)) \/ FailureListed(n))
  <2>1. \/ myDagsTermList' = myDagsTermList
        \/ /\ handlerDagDone(dagOf[n])
           /\ (LastOfDag(n) /\ DagEnds(dagOf[n])) \/ FailureListed(n)
    BY <1>3, LauncherFrame DEF LastOfDag, FailureListed
  <2> QED
    BY <1>2, <2>1, ListTypes, Graph DEF Nodes
<1>4. ASSUME Scheduler PROVE Listed(d)
  <2>1. CASE WakeUp
    <3>1. myDagsTermList' = Unique(myDagsTermList)
      BY <2>1 DEF WakeUp
    <3> QED
      BY <1>1, <3>1, UniqueKeepsElements DEF Listed
  <2>2. CASE DeleteDag
    <3>1. myDagsTermList' = RemoveAt(myDagsTermList, round.at) /\ round.at \in 1..Len(myDagsTermList)
      BY <2>2, WalkInRange DEF DeleteDag
    <3>2. HasElement(RemoveAt(myDagsTermList, round.at), d)
      BY <3>1 DEF Listed
    <3>3. \E k \in 1..Len(myDagsTermList) : k # round.at /\ myDagsTermList[k] = d
      BY <1>1, <3>1, <3>2, RemoveAtElements
    <3> QED
      BY <3>3 DEF Listed, HasElement
  <2>3. CASE ~WakeUp /\ ~DeleteDag
    BY <1>2, <1>4, <2>3, SchedulerSorts DEF Turn, Takes, Gives, Starts, AskFails, releaseDag
  <2> QED
    BY <2>1, <2>2, <2>3
<1>5. ASSUME Aside PROVE Listed(d) \/ (cancelDag_List /\ caller.pc = "remove" /\ caller.dag = d)
  BY <1>2, <1>5, AsideFrame, CallerDag, ListTypes
<1>6. ASSUME NEW e \in Dag, scheduleNewDag(e) PROVE Listed(d)
  BY <1>2, <1>6 DEF scheduleNewDag
<1> QED
  BY <1>3, <1>4, <1>5, <1>6, NextSorts

\* The dag that the walk releases.
Walked == myDagsTermList[round.at]

\* How the dag that the scheduler is about to release changes.
LEMMA WalkedMoves ==
  ASSUME Types, Walk, Next, Alive'
  PROVE  /\ pc' \in {"release", "delete"} =>
              \/ /\ pc \in {"release", "delete"} /\ Walked' = Walked
                 /\ pc' = pc \/ releaseDag
              \/ /\ checkDagsRelease /\ Walked' = Walked /\ Walked \in Dag /\ Listed(Walked)
                 /\ state[Walked] = "in" /\ ~isRunning(Walked)
         /\ pc \in {"release", "delete"} => pc' \in {"release", "delete"} \/ DeleteDag
         /\ DeleteDag => pc' = "check"
<1>1. myDagsTermList \in Seq(Dag)
  BY DEF Types
<1>2. pc \in {"release", "delete"} => round.at \in 1..Len(myDagsTermList)
  BY WalkInRange
<1>3. CASE checkDagsRelease
  <2>1. /\ pc = "check" /\ myDagsTermList' = myDagsTermList /\ pc' \in {"check", "release"}
        /\ pc' = "release" => /\ round' = round /\ state[Walked] = "in" /\ ~isRunning(Walked)
    BY <1>3 DEF checkDagsRelease, Dies, Alive, Walked
  <2>2. round.at \in 1..Len(myDagsTermList)
    <3>1. round.at \in Nat /\ round.at >= 1 /\ round.at <= Len(myDagsTermList)
      BY <1>3 DEF checkDagsRelease, Walk, Types, IsRound
    <3>2. Len(myDagsTermList) \in Nat
      BY <1>1
    <3> QED
      BY <3>1, <3>2
  <2>3. Walked \in Dag /\ Listed(Walked)
    BY <1>1, <2>2 DEF Walked, Listed, HasElement
  <2> QED
    BY <1>3, <2>1, <2>3 DEF Walked, DeleteDag
<1>4. CASE releaseDag
  BY <1>4 DEF releaseDag, Walked, DeleteDag
<1>5. CASE DeleteDag
  BY <1>5 DEF DeleteDag
<1>6. CASE Scheduler /\ ~checkDagsRelease /\ ~releaseDag /\ ~DeleteDag
  <2>1. pc \notin {"release", "delete"}
    BY <1>6, SchedulerSorts DEF Turn, Takes, Gives, Hands, Starts, AskFails, WakeUp
  <2>2. pc' \notin {"release", "delete"}
    BY <1>6, SchedulerSorts DEF Turn, Takes, Gives, Starts, AskFails, WakeUp
  <2>3. ~DeleteDag
    BY <1>6
  <2> QED
    BY <2>1, <2>2, <2>3
<1>7. CASE ~Scheduler
  <2>1. pc' = pc /\ round' = round /\ ~DeleteDag
    BY <1>7, NextSorts, LauncherFrame, AsideFrame DEF scheduleNewDag, Scheduler, Alive
  <2>2. myDagsTermList' = myDagsTermList \/ \E d \in Dag : handlerDagDone(d)
    <3>1. \A n \in Node : Launcher(n) => myDagsTermList' = myDagsTermList \/ handlerDagDone(dagOf[n])
      BY LauncherFrame DEF LastOfDag, FailureListed
    <3>2. Aside => myDagsTermList' = myDagsTermList \/ \E d \in Dag : handlerDagDone(d)
      BY AsideFrame, CallerDag
    <3>3. \A d \in Dag : scheduleNewDag(d) => myDagsTermList' = myDagsTermList
      BY DEF scheduleNewDag
    <3> QED
      BY <1>7, <3>1, <3>2, <3>3, NextSorts, Graph
  <2>3. pc \in {"release", "delete"} => Walked' = Walked
    BY <1>2, <2>1, <2>2, ListTypes DEF Walked
  <2> QED
    BY <2>1, <2>3
<1> QED
  BY <1>3, <1>4, <1>5, <1>6, <1>7

\* A launcher is changed by itself or started by the scheduler thread.
LEMMA LnchMoves ==
  ASSUME Types, Places, Next, Alive', NEW n \in Node
  PROVE  /\ lnch'[n].pc = lnch[n].pc \/ Launcher(n) \/ (Starts /\ round.node = n /\ lnch'[n].pc = "call")
         /\ thread'[n] = "started" => thread[n] = "started" \/ (Starts /\ round.node = n)
<1>1. ASSUME NEW k \in Node, Launcher(k)
      PROVE  (k = n \/ lnch'[n] = lnch[n]) /\ thread' = thread
  BY <1>1, LauncherMoves, LauncherFrame
<1>2. CASE Starts
  BY <1>2, StartSteps DEF Steps
<1>3. WakeUp => thread'[n] \in {thread[n], "terminated"}
  BY DEF WakeUp, terminate
<1> QED
  BY <1>1, <1>2, <1>3, OtherSteps

\* A dag that has ended does not begin again.
LEMMA DagEndStays ==
  ASSUME Types, Places, Next, Alive', NEW d \in Dag
  PROVE  /\ isDone(d) => isDone(d)'
         /\ DagEnds(d) => DagEnds(d)'
<1>1. taskDone \subseteq taskDone'
  BY OwingShrinks
<1>2. cancelled[d] => cancelled'[d]
  BY CancelledMoves
<1> QED
  BY <1>1, <1>2 DEF isDone, DagEnds, Nodes
------------------------------------------------------------------------------
(* The release of a dag *)

\* Nothing is listed and nothing is told initially.
LEMMA ReleaseInit == Init => Release /\ ReleaseIsFinal
<1> SUFFICES ASSUME Init PROVE Release /\ ReleaseIsFinal
  OBVIOUS
<1>1. ListedHaveEnded
  BY DEF Init, ListedHaveEnded, Listed, HasElement
<1>2. CancelsCount
  BY Graph DEF Init, CancelsCount, Idle, NoCall
<1>3. WalkedIsIn
  BY DEF Init, WalkedIsIn
<1>4. ReleasedAtRest
  BY DEF Init, ReleasedAtRest, Released
<1>5. ToldAfterRelease /\ ReleaseIsFinal
  BY DEF Init, ToldAfterRelease, ReleaseIsFinal
<1> QED
  BY <1>1, <1>2, <1>3, <1>4, <1>5 DEF Release

\* A dag with a thread is, or was, in myDags.
LEMMA ThreadInDag ==
  ASSUME Types, Places, NEW n \in Node, lnch[n].pc # "none"
  PROVE  state[dagOf[n]] \in {"in", "out"}
BY DEF Places, ThreadsMatch, OnePlace

\* A dag is listed for its release when it has ended, or was cancelled.
LEMMA ListedNext ==
  ASSUME Types, Walk, Places, Release, Next, Alive'
  PROVE  ListedHaveEnded'
<1> SUFFICES ASSUME NEW d \in Dag, Listed(d)'
             PROVE  state'[d] \in {"in", "out"} /\ DagEnds(d)'
  BY DEF ListedHaveEnded
<1>1. state[d] \in {"in", "out"} /\ (DagEnds(d) \/ DagEnds(d)')
  <2>1. CASE Listed(d)
    BY <2>1 DEF Release, ListedHaveEnded
  <2>2. ASSUME NEW n \in Nodes(d), (LastOfDag(n) /\ DagEnds(d)) \/ FailureListed(n)
        PROVE  state[d] \in {"in", "out"} /\ DagEnds(d)
    <3>1. n \in Node /\ dagOf[n] = d
      BY DEF Nodes
    <3>2. lnch[n].pc # "none"
      BY <2>2 DEF LastOfDag, FailureListed, CancelEnds, At
    <3>3. FailureListed(n) => cancelled[d]
      BY <3>1 DEF FailureListed, CancelEnds, At, Release, CancelsCount
    <3> QED
      BY <2>2, <3>1, <3>2, <3>3, ThreadInDag DEF DagEnds
  <2>3. ASSUME caller.pc = "remove", caller.dag = d PROVE state[d] \in {"in", "out"} /\ DagEnds(d)
    BY <2>3 DEF Release, CancelsCount, DagEnds
  <2> QED
    BY <2>1, <2>2, <2>3, ListMoves
<1> QED
  BY <1>1, StateMoves, DagEndStays

\* A cancellation and the marks of its dag agree.
LEMMA CancelsNext ==
  ASSUME Types, Walk, Places, Release, Next, Alive'
  PROVE  CancelsCount'
<1>1. ASSUME NEW n \in Node, lnch'[n].pc = "remove" PROVE cancelled'[dagOf[n]]
  <2>1. dagOf[n] \in Dag
    BY Graph
  <2>2. CASE lnch[n].pc = "remove"
    <3>1. cancelled[dagOf[n]]
      BY <2>2 DEF Release, CancelsCount
    <3> QED
      BY <2>1, <3>1, CancelledMoves
  <2>3. CASE lnch[n].pc # "remove"
    <3>1. Launcher(n)
      BY <1>1, <2>3, LnchMoves
    <3>2. setAsCancelled(n)
      BY <1>1, <2>3, <3>1, LauncherSteps DEF Launcher, Steps
    <3>3. cancelled' = [cancelled EXCEPT ![dagOf[n]] = TRUE] /\ cancelled \in [Dag -> BOOLEAN]
      BY <3>2 DEF setAsCancelled, Types
    <3> QED
      BY <2>1, <3>3
  <2> QED
    BY <2>2, <2>3
<1>2. ASSUME NEW d \in Dag, cancelled'[d] PROVE state'[d] \in {"in", "out"}
  <2>1. state[d] \in {"in", "out"}
    <3>1. CASE cancelled[d]
      BY <3>1 DEF Release, CancelsCount
    <3>2. ASSUME NEW n \in Nodes(d), setAsCancelled(n) PROVE state[d] \in {"in", "out"}
      <4>1. n \in Node /\ dagOf[n] = d /\ lnch[n].pc # "none"
        BY <3>2 DEF Nodes, setAsCancelled, At
      <4> QED
        BY <4>1, ThreadInDag
    <3>3. ASSUME caller.dag = d PROVE state[d] \in {"in", "out"}
      BY <3>3 DEF Release, CancelsCount
    <3>4. ASSUME AskFails, dagOf[round.node] = d PROVE state[d] \in {"in", "out"}
      BY <3>4 DEF AskFails, Hands, Places, OnePlace
    <3>5. ASSUME releaseDag, myDagsTermList[round.at] = d PROVE state[d] \in {"in", "out"}
      BY <3>5 DEF releaseDag, Release, WalkedIsIn
    <3> QED
      BY <1>2, <3>1, <3>2, <3>3, <3>4, <3>5, CancelledMoves
  <2> QED
    BY <2>1, StateMoves
<1>3. ASSUME NEW d \in Dag, caller'.dag = d
      PROVE  /\ state'[d] \in {"in", "out"}
             /\ caller'.pc = "remove" => cancelled'[d]
  <2>1. d # Nobody
    BY Graph
  <2>2. CASE caller' = caller
    BY <1>3, <2>2, StateMoves, CancelledMoves DEF Release, CancelsCount
  <2>3. CASE Aside
    <3>1. CASE caller'.dag = caller.dag /\ (caller'.pc = caller.pc \/ cancelled'[caller.dag])
      BY <1>3, <3>1, StateMoves, CancelledMoves DEF Release, CancelsCount
    <3>2. CASE caller' = NoCall
      BY <1>3, <2>1, <3>2 DEF NoCall
    <3>3. CASE caller'.pc = "cancel" /\ state[caller'.dag] = "in"
      BY <1>3, <3>3, StateMoves
    <3> QED
      BY <2>3, <3>1, <3>2, <3>3, AsideFrame
  <2>4. ASSUME NEW e \in Dag, scheduleNewDag(e)
        PROVE  state'[d] = "in" /\ caller'.pc = "wake"
    <3>1. caller' = [NoCall EXCEPT !.pc = "wake", !.dag = e] /\ state' = [state EXCEPT ![e] = "in"]
      BY <2>4 DEF scheduleNewDag
    <3> QED
      BY <1>3, <3>1 DEF NoCall, Types
  <2>5. (\E n \in Node : Launcher(n)) => caller' = caller
    BY LauncherFrame
  <2>6. Scheduler => caller' = caller
    BY SchedulerSorts DEF Turn, Takes, Gives, Starts, AskFails, WakeUp, releaseDag, DeleteDag, callVars
  <2> QED
    BY <2>2, <2>3, <2>4, <2>5, <2>6, NextSorts
<1> QED
  BY <1>1, <1>2, <1>3 DEF CancelsCount

\* The dag being released is still known,
LEMMA WalkedIsInNext ==
  ASSUME Types, Walk, Places, Release, Next, Alive'
  PROVE  WalkedIsIn'
<1> SUFFICES ASSUME pc' \in {"release", "delete"} PROVE state'[Walked'] = "in"
  BY DEF WalkedIsIn, Walked
<1>1. Walked' = Walked /\ Walked \in Dag /\ state[Walked] = "in"
  <2>1. pc \in {"release", "delete"} => Walked \in Dag /\ state[Walked] = "in"
    BY WalkInRange DEF Walked, Release, WalkedIsIn
  <2> QED
    BY <2>1, WalkedMoves
<1>2. ~DeleteDag
  BY WalkedMoves
<1> QED
  BY <1>1, <1>2, StateMoves

\* nothing of it runs,
LEMMA ReleasedNext ==
  ASSUME Types, Walk, Places, Release, Next, Alive'
  PROVE  ReleasedAtRest'
<1> SUFFICES ASSUME NEW d \in Dag, Released(d)'
             PROVE  /\ \A n \in Nodes(d) : lnch'[n].pc \in {"none", "gone"} /\ thread'[n] # "started"
                    /\ DagEnds(d)'
  BY DEF ReleasedAtRest, Nodes
<1>1. /\ \A n \in Nodes(d) : lnch[n].pc \in {"none", "gone"} /\ thread[n] # "started"
      /\ DagEnds(d)
      /\ state[d] = "out" \/ pc \in {"check", "release", "delete"}
  <2>1. CASE Released(d)
    BY <2>1 DEF Release, ReleasedAtRest, Released
  <2>2. CASE ~Released(d)
    <3>1. state[d] # "out" /\ ~(pc \in {"release", "delete"} /\ Walked = d)
      BY <2>2 DEF Released, Walked
    <3>2. state'[d] # "out"
      BY <3>1, StateMoves DEF Walked, DeleteDag
    <3>3. pc' \in {"release", "delete"} /\ Walked' = d
      BY <3>2 DEF Released, Walked
    <3>4. pc = "check" /\ Listed(d) /\ ~isRunning(d)
      BY <3>1, <3>3, WalkedMoves DEF checkDagsRelease
    <3>5. \A n \in Nodes(d) : thread[n] # "started" /\ n \in Node
      BY <3>4 DEF isRunning, Nodes
    <3>6. \A n \in Nodes(d) : lnch[n].pc \in {"none", "gone"}
      BY <3>5 DEF Places, ThreadsMatch, Types
    <3> QED
      BY <3>4, <3>5, <3>6 DEF Release, ListedHaveEnded
  <2> QED
    BY <2>1, <2>2
<1>2. ASSUME NEW n \in Nodes(d)
      PROVE  lnch'[n].pc \in {"none", "gone"} /\ thread'[n] # "started"
  <2>1. n \in Node /\ dagOf[n] = d /\ lnch[n].pc \in {"none", "gone"} /\ thread[n] # "started"
    BY <1>1 DEF Nodes
  <2>2. ~(Starts /\ round.node = n)
    <3>1. Starts /\ round.node = n => pc \in {"start", "ask"} /\ state[d] = "in"
      BY <2>1 DEF Starts, Hands, Places, OnePlace
    <3> QED
      BY <1>1, <3>1
  <2>3. ~Launcher(n)
    BY <2>1, LauncherMoves
  <2> QED
    BY <2>1, <2>2, <2>3, LnchMoves
<1> QED
  BY <1>1, <1>2, DagEndStays

\* and the client is told after that, once.
LEMMA ToldNext ==
  ASSUME Types, Walk, Places, Release, Next, Alive'
  PROVE  ToldAfterRelease'
<1> SUFFICES ASSUME NEW d \in Dag, told'[d] # "nothing"
             PROVE  /\ \/ state'[d] = "out"
                       \/ pc' = "delete" /\ Walked' = d
                    /\ told'[d] = "success" => isDone(d)'
  BY DEF ToldAfterRelease, Walked
<1>1. told' = told \/ releaseDag
  <2>1. (\E n \in Node : Launcher(n)) \/ Aside => told' = told
    BY LauncherFrame, AsideFrame
  <2>2. Scheduler => told' = told \/ releaseDag
    BY SchedulerSorts DEF Turn, Takes, Gives, Starts, AskFails, WakeUp, DeleteDag, dagVars
  <2>3. \A e \in Dag : scheduleNewDag(e) => told' = told
    BY DEF scheduleNewDag
  <2> QED
    BY <2>1, <2>2, <2>3, NextSorts
<1>2. CASE told'[d] = told[d]
  <2>1. /\ \/ state[d] = "out"
           \/ pc = "delete" /\ Walked = d
        /\ told[d] = "success" => isDone(d)
    BY <1>2 DEF Release, ToldAfterRelease, Walked
  <2>2. CASE state[d] = "out"
    BY <1>2, <2>1, <2>2, StateMoves, DagEndStays
  <2>3. CASE pc = "delete" /\ Walked = d
    <3>1. CASE DeleteDag
      <4>1. state' = [state EXCEPT ![d] = "out"] /\ state \in [Dag -> DagStates]
        BY <2>3, <3>1 DEF DeleteDag, Walked, Types
      <4> QED
        BY <1>2, <2>1, <4>1, DagEndStays
    <3>2. CASE ~DeleteDag
      <4>1. pc' = "delete" /\ Walked' = Walked
        BY <2>3, <3>2, WalkedMoves DEF checkDagsRelease, releaseDag
      <4> QED
        BY <1>2, <2>1, <2>3, <4>1, DagEndStays
    <3> QED
      BY <3>1, <3>2
  <2> QED
    BY <2>1, <2>2, <2>3
<1>3. CASE told'[d] # told[d]
  <2>1. releaseDag /\ told \in [Dag -> {"nothing", "cancelled", "success", "unreachable"}]
    BY <1>1, <1>3 DEF Types, Answers
  <2>2. /\ pc = "release" /\ pc' = "delete" /\ Walked' = Walked
        /\ \/ told' = [told EXCEPT ![Walked] = IF cancelled[Walked] THEN "cancelled" ELSE "success"]
           \/ told' = [told EXCEPT ![Walked] = "unreachable"]
    BY <2>1 DEF releaseDag, Walked
  <2>3. Walked = d /\ (told'[d] = "success" => ~cancelled[d])
    BY <1>3, <2>1, <2>2
  <2>4. DagEnds(d)
    BY <2>2, <2>3 DEF Release, ReleasedAtRest, Released, Walked
  <2> QED
    BY <2>2, <2>3, <2>4, DagEndStays DEF DagEnds
<1> QED
  BY <1>2, <1>3

\* While the agent lives, what is told is told of a dag that is at rest.
LEMMA ReleaseMakesFinal == Types /\ Places /\ Release => ReleaseIsFinal
<1> SUFFICES ASSUME Types, Places, Release, NEW d \in Dag, told[d] # "nothing"
             PROVE  /\ ~isRunning(d) /\ \A n \in Nodes(d) : lnch[n].pc \in {"none", "gone"}
                    /\ told[d] = "success" => isDone(d)
  BY DEF ReleaseIsFinal
<1>1. Released(d) /\ (told[d] = "success" => isDone(d))
  BY DEF Release, ToldAfterRelease, Released
<1> QED
  BY <1>1 DEF Release, ReleasedAtRest, isRunning

\* The step that ends the process takes nothing back.
LEMMA FinalAtTheEnd ==
  ASSUME Types, ReleaseIsFinal, Next, ~Alive'
  PROVE  ReleaseIsFinal'
<1> SUFFICES ASSUME NEW d \in Dag, told'[d] # "nothing"
             PROVE  /\ ~isRunning(d)' /\ \A n \in Nodes(d) : lnch'[n].pc \in {"none", "gone"}
                    /\ told'[d] = "success" => isDone(d)'
  BY DEF ReleaseIsFinal, Nodes
<1>1. /\ thread' = thread /\ told' = told /\ taskDone \subseteq taskDone'
      /\ \A n \in Node : lnch'[n].pc = lnch[n].pc
  BY LastStep
<1>2. /\ ~isRunning(d) /\ \A n \in Nodes(d) : lnch[n].pc \in {"none", "gone"}
      /\ told[d] = "success" => isDone(d)
  BY <1>1 DEF ReleaseIsFinal
<1> QED
  BY <1>1, <1>2 DEF isRunning, isDone, Nodes

ReleaseInv == (Alive => Release) /\ ReleaseIsFinal

\* So every step keeps the second layer,
LEMMA ReleaseInvNext == OrderInv /\ ReleaseInv /\ [Next]_vars => ReleaseInv'
<1>0. (Types /\ Places /\ Release)' => ReleaseIsFinal'
  BY ReleaseMakesFinal, PTL
<1> SUFFICES ASSUME OrderInv, ReleaseInv, [Next]_vars PROVE ReleaseInv'
  OBVIOUS
<1>1. OrderInv'
  BY OrderInvNext
<1>2. CASE UNCHANGED vars
  BY <1>2 DEF vars, dagVars, nodeVars, callVars, ReleaseInv, Release, ReleaseIsFinal, ListedHaveEnded, CancelsCount,
     WalkedIsIn, ReleasedAtRest, ToldAfterRelease, Alive, Released, Listed, HasElement, DagEnds, isDone,
     isRunning, Nodes
<1>3. CASE Next /\ Alive'
  <2>1. Types /\ Walk /\ Places /\ Release
    BY <1>3, DeadStays DEF OrderInv, ReleaseInv
  <2>2. Release'
    BY <1>3, <2>1, ListedNext, CancelsNext, WalkedIsInNext, ReleasedNext, ToldNext DEF Release
  <2>3. Types' /\ Places'
    BY <1>1, <1>3 DEF OrderInv
  <2>4. ReleaseIsFinal'
    BY <1>0, <2>2, <2>3
  <2> QED
    BY <2>2, <2>4 DEF ReleaseInv
<1>4. CASE Next /\ ~Alive'
  BY <1>4, FinalAtTheEnd DEF OrderInv, ReleaseInv
<1> QED
  BY <1>2, <1>3, <1>4

\* which is an invariant.
LEMMA ReleaseInvariant == Spec => []ReleaseInv
<1>1. Init => ReleaseInv
  BY ReleaseInit DEF ReleaseInv
<1> QED
  BY <1>1, OrderInvariant, ReleaseInvNext, PTL DEF Spec

\* releaseDag(), for any dags: what the client is told stays true.  No node of the dag
\* runs or starts afterwards, and a success means that every node was executed.
THEOREM ReleasesAreFinal == Spec => []ReleaseIsFinal
<1>1. ReleaseInv => ReleaseIsFinal
  BY DEF ReleaseInv
<1> QED
  BY <1>1, ReleaseInvariant, PTL
------------------------------------------------------------------------------
(* The two locks *)

\* What went wrong for a dag is never forgotten.
LEMMA FaultsGrow ==
  ASSUME Next, NEW d \in Dag
  PROVE  faults[d] \subseteq faults'[d]
<1> DEFINE Grows == faults[d] \subseteq faults'[d]
<1>1. ASSUME NEW ds, NEW what PROVE faults[d] \subseteq Blame(ds, what)[d]
  BY DEF Blame, Also
<1>2. ASSUME NEW t, NEW m, NEW e, removeFromNodeQueue(t, m, e) PROVE Grows
  BY <1>2 DEF removeFromNodeQueue, Blame, Also
<1>3. ASSUME NEW t, NEW x, ChangeList(t, x) PROVE Grows
  BY <1>1, <1>3 DEF ChangeList
<1>4. ASSUME NEW r, PushBack(r) PROVE Grows
  BY <1>3, <1>4 DEF PushBack
<1>5. ASSUME NEW n \in Node, Launcher(n) PROVE Grows
  <2>1. CASE ReadCount(n) \/ notifyStateChange(n) \/ RemoveNode(n)
    BY <1>1, <1>2, <1>3, <2>1 DEF ReadCount, notifyStateChange, RemoveNode
  <2>2. CASE \/ Executed(n) \/ NotExecuted(n) \/ setNodeDone(n) \/ WriteCount(n) \/ setAsReady(n)
             \/ CountReady(n) \/ CountWaiting(n) \/ LastOfDag(n) \/ setNodeFailure(n)
             \/ setAsCancelled(n) \/ CountRemoved(n) \/ FailureListed(n) \/ finishNode(n)
    BY <2>2 DEF Executed, NotExecuted, setNodeDone, WriteCount, setAsReady, CountReady, CountWaiting,
       LastOfDag, setNodeFailure, setAsCancelled, CountRemoved, FailureListed, finishNode
  <2> QED
    BY <1>5, <2>1, <2>2 DEF Launcher
<1>6. CASE Scheduler
  <2>1. CASE Popped \/ Skip \/ AskNone
    BY <1>3, <1>4, <2>1 DEF Popped, Skip, AskNone
  <2>2. CASE AskFails \/ AskThrows \/ EndRound \/ DeleteDag
    BY <1>1, <2>2 DEF AskFails, AskThrows, EndRound, DeleteDag
  <2>3. ASSUME NEW e, VisitDangling(e) \/ VisitEmpty(e) \/ Pop(e) PROVE Grows
    BY <1>3, <2>3 DEF VisitDangling, VisitEmpty, Pop
  <2>4. ASSUME NEW n, PopExec(n) PROVE Grows
    BY <1>3, <2>4 DEF PopExec
  <2>5. CASE \/ NewRound \/ Queued \/ PoppedOne \/ StartPopped \/ Visited \/ Submit \/ PutBack
             \/ AskFound \/ PopNothing \/ WakeUp \/ checkDagsRelease \/ Checked \/ releaseDag
    BY <2>5 DEF NewRound, Queued, PoppedOne, StartPopped, Visited, Submit, PutBack, AskFound,
       PopNothing, WakeUp, checkDagsRelease, Checked, releaseDag
  <2> QED
    BY <1>6, <2>1, <2>2, <2>3, <2>4, <2>5, Zenon DEF Scheduler
<1>7. CASE Aside
  <2>1. CASE cancelDag_Remove \/ cancelDag_List
    BY <1>1, <1>2, <2>1 DEF cancelDag_Remove, cancelDag_List
  <2>2. CASE WakeForDag \/ cancelDag_Flag \/ cancelDag_Count \/ CallerDangles
    BY <2>2 DEF WakeForDag, cancelDag_Flag, cancelDag_Count, CallerDangles
  <2>3. ASSUME NEW t, Tear(t) PROVE Grows
    BY <2>3 DEF Tear
  <2>4. ASSUME NEW e, Call(e), ~scheduleNewDag(e) PROVE Grows
    BY <1>1, <2>4 DEF Call, processDagWf, ClientUnknown, Refuse, cancelDag, MapsRace
  <2> QED
    BY <1>7, <2>1, <2>2, <2>3, <2>4, Zenon DEF Aside, Caller
<1>8. ASSUME NEW e, scheduleNewDag(e) PROVE Grows
  BY <1>8 DEF scheduleNewDag
<1> QED
  BY <1>5, <1>6, <1>7, <1>8, NextSorts

\* No dag is locked initially.
LEMMA DagLocksInit == Init => DagLocks
<1> SUFFICES ASSUME Init PROVE DagLocks
  OBVIOUS
<1>1. \A n \in Node : lnch[n].pc = "none" /\ n # Nobody
  BY Graph DEF Init, Idle
<1>2. \A d \in Dag : dagLock[d] = Nobody
  BY DEF Init
<1> QED
  BY <1>1, <1>2 DEF DagLocks, LockPcs

\* The steps that take and give no lock of a dag.
LEMMA LocksKept ==
  ASSUME Types, Places, DagLocks, Next, dagLock' = dagLock,
         \A n \in Node : lnch'[n].pc \in LockPcs <=> lnch[n].pc \in LockPcs,
         \A d \in Dag : dagLock[d] # Nobody /\ Listed(d)' =>
            Listed(d) \/ "cancelled twice" \in faults'[d]
  PROVE  DagLocks'
<1>1. \A d \in Dag : dagLock'[d] # Nobody /\ Listed(d)' => "cancelled twice" \in faults'[d]
  BY FaultsGrow DEF DagLocks
<1> QED
  BY <1>1 DEF DagLocks

\* A dag that is locked by a launcher has not been listed, but by cancelDag().
LEMMA DagLocksNext ==
  ASSUME Types, Walk, Places, Release, DagLocks, Next, Alive'
  PROVE  DagLocks'
<1>1. \A d \in Dag : dagLock[d] \in Node \cup {Nobody}
  BY DEF Types
<1>2. ASSUME NEW n \in Node, Launcher(n) PROVE DagLocks'
  <2>1. dagOf[n] \in Dag /\ n # Nobody /\ \A m \in Node \ {n} : lnch'[m] = lnch[m]
    BY <1>2, Graph, LauncherMoves
  <2>2. CASE setNodeFailure(n) /\ ~cancelled[dagOf[n]]
    <3>1. /\ lnch[n].pc = "failed" /\ lnch'[n].pc = "cancel" /\ dagLock[dagOf[n]] = Nobody
          /\ \A d \in Dag : dagLock'[d] = IF d = dagOf[n] THEN n ELSE dagLock[d]
      BY <2>2, LauncherSteps DEF setNodeFailure, Steps, Types
    <3>2. myDagsTermList' = myDagsTermList
      BY <2>2 DEF setNodeFailure
    <3>3. ~Listed(dagOf[n])
      <4>1. n \notin taskDone
        BY <3>1 DEF Places, LaunchersKnow, Knows
      <4>2. ~DagEnds(dagOf[n])
        BY <2>2, <4>1 DEF DagEnds, isDone, Nodes
      <4> QED
        BY <2>1, <4>2 DEF Release, ListedHaveEnded
    <3>4. \A d \in Dag : Listed(d)' => Listed(d)
      BY <3>2 DEF Listed
    <3>5. \A d \in Dag : dagLock'[d] # Nobody /\ Listed(d)' => "cancelled twice" \in faults'[d]
      BY <3>1, <3>3, <3>4, FaultsGrow DEF DagLocks
    <3>6. \A m \in Node : lnch'[m].pc \in LockPcs => dagLock'[dagOf[m]] = m
      <4>1. \A m \in Node \ {n} : lnch[m].pc \in LockPcs => dagLock[dagOf[m]] = m /\ m # Nobody
        BY Graph DEF DagLocks
      <4>2. \A m \in Node \ {n} : lnch'[m].pc \in LockPcs => dagLock'[dagOf[m]] = m
        BY <2>1, <3>1, <4>1, Graph
      <4> QED
        BY <2>1, <3>1, <4>2
    <3>7. \A d \in Dag, m \in Node : dagLock'[d] = m => dagOf[m] = d /\ lnch'[m].pc \in LockPcs
      <4>1. \A d \in Dag, m \in Node : d # dagOf[n] /\ dagLock[d] = m =>
              m # n /\ dagOf[m] = d /\ lnch[m].pc \in LockPcs
        BY DEF DagLocks
      <4>2. \A d \in Dag, m \in Node : d # dagOf[n] /\ dagLock'[d] = m =>
              dagOf[m] = d /\ lnch'[m].pc \in LockPcs
        BY <2>1, <3>1, <4>1
      <4>3. lnch'[n].pc \in LockPcs
        BY <3>1 DEF LockPcs
      <4> QED
        BY <3>1, <4>2, <4>3
    <3> QED
      BY <3>5, <3>6, <3>7 DEF DagLocks
  <2>3. CASE FailureListed(n)
    <3>1. /\ lnch[n].pc = "remove" /\ lnch'[n].pc = "finish"
          /\ \A d \in Dag : dagLock'[d] = IF d = dagOf[n] THEN Nobody ELSE dagLock[d]
      BY <2>3, LauncherSteps DEF FailureListed, Steps, Types
    <3>2. \A d \in Dag : Listed(d)' => Listed(d) \/ d = dagOf[n]
      BY <2>1, <2>3, ListTypes DEF FailureListed
    <3>3. \A d \in Dag : dagLock'[d] # Nobody /\ Listed(d)' => "cancelled twice" \in faults'[d]
      BY <3>1, <3>2, FaultsGrow DEF DagLocks
    <3>4. dagLock[dagOf[n]] = n
      BY <3>1 DEF DagLocks, LockPcs
    <3>5. \A m \in Node : lnch'[m].pc \in LockPcs => dagLock'[dagOf[m]] = m
      <4>1. \A m \in Node \ {n} : lnch'[m].pc \in LockPcs => dagLock[dagOf[m]] = m
        BY <2>1 DEF DagLocks
      <4>2. \A m \in Node \ {n} : lnch'[m].pc \in LockPcs => dagOf[m] # dagOf[n]
        BY <3>4, <4>1
      <4>3. lnch'[n].pc \notin LockPcs
        BY <3>1 DEF LockPcs
      <4> QED
        BY <3>1, <4>1, <4>2, <4>3, Graph
    <3>6. \A d \in Dag, m \in Node : dagLock'[d] = m => dagOf[m] = d /\ lnch'[m].pc \in LockPcs
      <4>1. \A d \in Dag, m \in Node : d # dagOf[n] /\ dagLock[d] = m =>
              m # n /\ dagOf[m] = d /\ lnch[m].pc \in LockPcs
        BY DEF DagLocks
      <4>2. \A d \in Dag, m \in Node : d # dagOf[n] /\ dagLock'[d] = m =>
              dagOf[m] = d /\ lnch'[m].pc \in LockPcs
        BY <2>1, <3>1, <4>1
      <4>3. \A m \in Node : dagLock'[dagOf[n]] # m
        BY <2>1, <3>1, Graph
      <4> QED
        BY <4>2, <4>3
    <3> QED
      BY <3>3, <3>5, <3>6 DEF DagLocks
  <2>4. CASE ~FailureListed(n) /\ (setNodeFailure(n) => cancelled[dagOf[n]])
    <3>1. dagLock' = dagLock
      BY <1>2, <2>4, LauncherFrame DEF setNodeFailure
    <3>2. lnch'[n].pc \in LockPcs <=> lnch[n].pc \in LockPcs
      BY <1>2, <2>4, LauncherSteps DEF Launcher, Steps, LockPcs
    <3>3. \A d \in Dag : dagLock[d] # Nobody /\ Listed(d)' => Listed(d)
      <4>1. myDagsTermList' = myDagsTermList => \A d \in Dag : Listed(d)' => Listed(d)
        BY DEF Listed
      <4>2. \/ myDagsTermList' = myDagsTermList
            \/ handlerDagDone(dagOf[n]) /\ dagLock[dagOf[n]] = Nobody
        BY <1>2, <2>4, LauncherFrame DEF LastOfDag
      <4> QED
        BY <2>1, <4>1, <4>2, ListTypes
    <3> QED
      BY <2>1, <3>1, <3>2, <3>3, LocksKept
  <2> QED
    BY <2>2, <2>3, <2>4
<1>3. CASE \A n \in Node : ~Launcher(n)
  <2>1. dagLock' = dagLock
    <3>1. Scheduler => dagLock' = dagLock
      BY SchedulerSorts DEF Turn, Takes, Gives, Starts, AskFails, WakeUp, releaseDag, DeleteDag
    <3>2. \A d \in Dag : scheduleNewDag(d) => dagLock' = dagLock
      BY DEF scheduleNewDag
    <3> QED
      BY <1>3, <3>1, <3>2, NextSorts, AsideFrame
  <2>2. \A n \in Node : lnch'[n].pc \in LockPcs <=> lnch[n].pc \in LockPcs
    <3>1. CASE Starts
      BY <3>1, StartSteps DEF Steps, LockPcs
    <3>2. CASE ~Starts
      BY <1>3, <3>2, OtherSteps
    <3> QED
      BY <3>1, <3>2
  <2>3. ASSUME NEW d \in Dag, dagLock[d] # Nobody, Listed(d)', ~Listed(d)
        PROVE  "cancelled twice" \in faults'[d]
    <3>1. cancelDag_List /\ caller.dag = d
      BY <1>3, <2>3, ListMoves DEF Launcher, Nodes
    <3>2. PICK n \in Node : dagLock[d] = n /\ dagOf[n] = d /\ lnch[n].pc \in LockPcs
      BY <1>1, <2>3 DEF DagLocks
    <3>3. isRunning(d)
      <4>1. thread[n] = "started"
        BY <3>2 DEF LockPcs, Places, ThreadsMatch, Types
      <4> QED
        BY <3>2, <4>1 DEF isRunning, Nodes
    <3> QED
      BY <2>3, <3>1, <3>3 DEF cancelDag_List, Blame, Also
  <2> QED
    BY <2>1, <2>2, <2>3, LocksKept
<1> QED
  BY <1>2, <1>3

LocksInv == Alive => DagLocks

\* So the third layer is an invariant.
LEMMA LocksInvariant == Spec => []LocksInv
<1>1. Init => LocksInv
  BY DagLocksInit DEF LocksInv
<1>2. OrderInv /\ ReleaseInv /\ LocksInv /\ [Next]_vars => LocksInv'
  <2> SUFFICES ASSUME OrderInv, ReleaseInv, LocksInv, [Next]_vars, Alive' PROVE DagLocks'
    BY DEF LocksInv
  <2>1. CASE UNCHANGED vars
    BY <2>1 DEF vars, nodeVars, LocksInv, Alive, DagLocks, Listed, HasElement
  <2>2. CASE Next
    BY <2>2, DeadStays, DagLocksNext DEF OrderInv, ReleaseInv, LocksInv
  <2> QED
    BY <2>1, <2>2
<1> QED
  BY <1>1, <1>2, OrderInvariant, ReleaseInvariant, PTL DEF Spec

\* checkDagsRelease() and setNodeFailure(), for any dags: the scheduler thread waits for
\* the lock of a dag whose launcher waits for the scheduler's lock only if cancelDag() was
\* called for the dag while that launcher cancelled it.
THEOREM LocksAreExplained == Spec => []LocksExplained
<1>1. OrderInv /\ LocksInv => LocksExplained
  <2> SUFFICES ASSUME OrderInv, LocksInv, NEW d \in Dag, Crossed(d)
               PROVE  "cancelled twice" \in faults[d]
    BY DEF LocksExplained
  <2>1. /\ pc = "check" /\ round.at <= Len(myDagsTermList) /\ myDagsTermList[round.at] = d
        /\ dagLock[d] \in Node
    BY DEF Crossed
  <2>2. round.at \in Nat /\ round.at >= 1 /\ Len(myDagsTermList) \in Nat
    <3>1. round.at \in Nat /\ myDagsTermList \in Seq(Dag) /\ round.at >= 1
      BY <2>1 DEF OrderInv, Types, Walk, IsRound
    <3> QED
      BY <3>1
  <2>3. Listed(d)
    BY <2>1, <2>2 DEF Listed, HasElement
  <2>4. dagLock[d] # Nobody
    BY <2>1, Graph
  <2> QED
    BY <2>1, <2>3, <2>4 DEF LocksInv, DagLocks, Alive
<1> QED
  BY <1>1, OrderInvariant, LocksInvariant, PTL
=============================================================================
