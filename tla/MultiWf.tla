------------------------------- MODULE MultiWf -------------------------------
(***************************************************************************)
(* The workflow agent MaDag: the scheduler thread of MultiWfScheduler (or  *)
(* MultiWfBasicScheduler), one launcher thread per node that runs, and the *)
(* remote calls processDagWf() and cancelDag().                            *)
(*                                                                         *)
(* myLock protects the scheduler's rounds from the remote calls, but the   *)
(* launchers change nodes and queues without it; Dag::myLock, myWakeUpLock *)
(* and MaDag::myMutex are taken as in the code.                            *)
(*                                                                         *)
(* A queue is a list of nodes with a counter, without a lock.  A step goes *)
(* from the change of the list, with the read of the counter, to its       *)
(* write.  When two threads are between the two the list is torn: a count  *)
(* may be lost, nodes may be lost, or the process crashes.  What else is   *)
(* undefined in the code (the use of a deleted dag or queue, a node that   *)
(* is twice in a list, a std::map that one thread changes while another    *)
(* reads it) and an exception that leaves the scheduler thread end the     *)
(* behaviour: died says how.                                               *)
(*                                                                         *)
(* The priorities that order the nodes of a queue are left out: any node   *)
(* of the queue may be its first.                                          *)
(***************************************************************************)
EXTENDS Integers, Sequences, FiniteSets, SequencesExt

CONSTANTS
  Dag, Node,     \* the dags that clients submit, and their nodes
  dagOf,         \* the dag of a node
  Prev,          \* the predecessors of a node, all in the same dag
  Service,       \* the name of the problem that a node solves
  Schedulers,    \* which run() method, platform type and node policy may be configured
  Cancellable,   \* bound: the dags that clients cancel
  Workloads      \* for each of Schedulers, the sets of dags that clients submit together

Nobody == "nobody"

ASSUME MultiWfAssumption ==
  /\ IsFiniteSet(Node) /\ Nobody \notin Node \cup Dag
  /\ {"new dag", "scheduler", "caller"} \cap Node = {}
  /\ dagOf \in [Node -> Dag] /\ Prev \in [Node -> SUBSET Node]
  /\ \A n \in Node : \A p \in Prev[n] : dagOf[p] = dagOf[n] /\ p # n
  /\ DOMAIN Service = Node /\ Workloads \in [Schedulers -> SUBSET (SUBSET Dag)]
  /\ Schedulers \subseteq [basic : BOOLEAN, platform : {"any", "same"}, policy : {"node", "dag"}]

VARIABLES
  sched,      \* the configuration, one of Schedulers
  state,      \* state[d]: "unused", "new", "refused", "in" (it is in myDags) or "out" (deleted)
  cancelled,  \* cancelled[d]
  told,       \* told[d]: what release() told the client
  myQueue,    \* myQueue[n]: the queue that n is in, or "lost" by a torn list
  nodeCounter,  \* nodeCounter[x] of each queue
  op,         \* op[t]: the queue whose counter thread t has read, and the value read
  queues,     \* the dags whose two queues exist
  todoCount,  \* todoCount[n]: prevNodesTodoCount
  taskDone,   \* the nodes with task_done
  thread,     \* thread[n]: "none", "started" or "terminated" (isStarted, isTerminated)
  lnch,       \* lnch[n]: where the launcher thread of n is, and its local values
  dagLock,    \* dagLock[d]: the launcher that holds Dag::myLock across steps
  pc, round,  \* where the scheduler thread is, and the local values of run()
  mySem, myWakeUpList, myDagsTermList,
  myMutex,    \* the dag whose processDagWf() holds MaDag::myMutex
  caller,     \* the remote call that holds myLock: where it is, and its local values
  faults,     \* history: what went wrong for each dag
  died        \* how the agent died

dagVars == <<state, cancelled, told>>
queueVars == <<myQueue, nodeCounter, op, queues>>
nodeVars == <<todoCount, taskDone, thread, lnch>>
wakeVars == <<mySem, myWakeUpList>>
callVars == <<myMutex, caller>>
vars == <<sched, dagVars, queueVars, nodeVars, dagLock, pc, round, wakeVars, myDagsTermList,
          callVars, faults, died>>

Idle == [pc |-> "none", next |-> {}, cur |-> Nobody, tmp |-> 0]
NoCall == [pc |-> "none", dag |-> Nobody, next |-> {}]
NoRound == [todo |-> {}, queue |-> Nobody, node |-> Nobody, queued |-> FALSE, mapped |-> FALSE,
            asked |-> FALSE, avail |-> {}, at |-> 0]

Nodes(d) == {n \in Node : dagOf[n] = d}
NextNodes(n) == {m \in Node : n \in Prev[m]}
In(q, d) == {n \in Nodes(d) : myQueue[n] = q}
isDone(d) == Nodes(d) \subseteq taskDone
isRunning(d) == \E n \in Nodes(d) : thread[n] = "started"

\* The queues: two of each dag, and execQueue.
ExecQueue == <<"exec", Nobody>>
QueueOf(q, d) == IF q = "exec" THEN ExecQueue ELSE <<q, d>>
Queue == ({"wait", "ready"} \X Dag) \cup {ExecQueue}
Thread == Node \cup {"scheduler", "caller"}
NoOp == [on |-> <<"none", Nobody>>, tmp |-> 0]

\* The process runs.  Its death stops every thread of it.
Alive == pc # "dead"
Dies(how, d) == died' = <<how, d>> /\ pc' = "dead"

\* myLock is held during a round and during a cancelDag(), myWakeUpLock while
\* checkDagsRelease() walks its list.
InRound == {"visit", "pop", "queue", "start", "exec", "take", "ask", "back"}
MyLockFree == pc \notin InRound \cup {"dead"} /\ caller = NoCall
WakeUpLockFree == pc \notin {"check", "dead"}

Also(fs, ds, what) == [d \in Dag |-> IF d \in ds THEN fs[d] \cup {what} ELSE fs[d]]
Blame(ds, what) == Also(faults, ds, what)

Init ==
  /\ sched \in Schedulers
  /\ \E w \in Workloads[sched] : state = [d \in Dag |-> IF d \in w THEN "new" ELSE "unused"]
  /\ cancelled = [d \in Dag |-> FALSE]
  /\ told = [d \in Dag |-> "nothing"]
  /\ myQueue = [n \in Node |-> "none"] /\ queues = {}
  /\ nodeCounter = [x \in Queue |-> 0] /\ op = [t \in Thread |-> NoOp]
  /\ todoCount = [n \in Node |-> Cardinality(Prev[n])]
  /\ taskDone = {} /\ thread = [n \in Node |-> "none"] /\ lnch = [n \in Node |-> Idle]
  /\ dagLock = [d \in Dag |-> Nobody]
  /\ pc = "round" /\ round = NoRound
  /\ mySem = 0 /\ myWakeUpList = <<>> /\ myDagsTermList = <<>>
  /\ myMutex = Nobody /\ caller = NoCall
  /\ faults = [d \in Dag |-> {}] /\ died = <<"no", Nobody>>

------------------------------------------------------------------------------
(* Queues *)

InUse(x) == \E t \in Thread : op[t].on = x

\* Thread t reads the counter of queue x ...
ReadCounter(t, x) == op' = [op EXCEPT ![t] = [on |-> x, tmp |-> nodeCounter[x]]]

\* ... and writes it.
WriteCounter(t, k) ==
  /\ nodeCounter' = [nodeCounter EXCEPT ![op[t].on] = op[t].tmp + k]
  /\ op' = [op EXCEPT ![t] = NoOp]

\* The list of queue x is torn: the dags that have a node in it, or on its way.
TornDags(x) ==
  IF x # ExecQueue THEN {x[2]}
  ELSE {dagOf[n] : n \in {m \in Node : myQueue[m] = "exec" \/ round.node = m}}

\* Thread t changes the list of queue x.  A waiting queue has a counter only.
ChangeList(t, x) ==
  /\ ReadCounter(t, x)
  /\ faults' = IF x[1] # "wait" /\ InUse(x) THEN Blame(TornDags(x), "torn") ELSE faults

\* run() walks execQueue for the services of its nodes.
Walks(t, x) ==
  t = "scheduler" /\ x = ExecQueue /\ pc = "visit" /\ round.todo = {} /\ round.queued

\* Thread t is changing a std::list that another thread uses: nodes may be lost, or the
\* process crashes.
Tear(t) ==
  LET x == op[t].on
  IN /\ x[1] \in {"ready", "exec"} /\ Alive
     /\ \E u \in Thread \ {t} : op[u].on = x \/ Walks(u, x)
     /\ \/ \E lost \in SUBSET {n \in Node : QueueOf(myQueue[n], dagOf[n]) = x} :
             /\ lost # {}
             /\ myQueue' = [n \in Node |-> IF n \in lost THEN "lost" ELSE myQueue[n]]
             /\ UNCHANGED <<pc, died>>
        \/ Dies("torn", x[2]) /\ UNCHANGED myQueue
     /\ UNCHANGED <<sched, dagVars, nodeCounter, op, queues, nodeVars, dagLock, round,
                    wakeVars, myDagsTermList, callVars, faults>>

\* removeFromNodeQueue() by thread t of a node m of dag d, where t is at setAsCancelled().
\* The node of a torn list may have a pointer to the wrong queue.
removeFromNodeQueue(t, m, d) ==
  LET x == QueueOf(myQueue[m], d)
      found == myQueue[m] \in {"wait", "ready", "exec"}
      onItsWay == round.node = m \/ \E n \in Node : lnch[n].pc = "push" /\ lnch[n].cur = m
  IN /\ \/ found /\ myQueue' = [myQueue EXCEPT ![m] = "none"] /\ ReadCounter(t, x)
        \/ /\ ~found \/ (myQueue[m] # "wait" /\ "torn" \in faults[d])
           /\ UNCHANGED <<myQueue, op>>
     /\ faults' = Also(Blame(IF onItsWay THEN {d} ELSE {}, "loose"),
                       IF x = ExecQueue \/ (x[1] = "ready" /\ InUse(x)) THEN TornDags(x) ELSE {},
                       "torn")

\* The node, or the counter that t is to write, is of a deleted queue.
NodeDangles(m) == myQueue[m] \in {"wait", "ready", "lost"} /\ dagOf[m] \notin queues
CounterDangles(t) == op[t].on # ExecQueue /\ op[t].on[2] \notin queues

------------------------------------------------------------------------------
(* Remote calls *)

\* wakeUp() stores who wakes the scheduler up, then posts.
wakeUp(info) == myWakeUpList' = Append(myWakeUpList, info) /\ mySem' = mySem + 1

\* createNodeQueue() and setInputNodesReady(): a node without predecessors goes on
\* to the ready queue.
firstQueue(n) == IF Prev[n] = {} THEN "ready" ELSE "wait"

\* processDagWf(): the client's manager is registered, with MaDag::myMutex held.
processDagWf(d) ==
  /\ state[d] = "new" /\ myMutex = Nobody /\ Alive
  /\ myMutex' = d
  /\ UNCHANGED <<sched, dagVars, queueVars, nodeVars, dagLock, pc, round, wakeVars,
                 myDagsTermList, caller, faults, died>>

\* resolveObject() throws: the manager is not known, and the mutex stays locked.
ClientUnknown(d) ==
  /\ state[d] = "new" /\ myMutex = Nobody /\ Alive
  /\ myMutex' = d /\ state' = [state EXCEPT ![d] = "refused"]
  /\ UNCHANGED <<sched, cancelled, told, queueVars, nodeVars, dagLock, pc, round, wakeVars,
                 myDagsTermList, caller, faults, died>>

\* The dag is parsed and scheduled: it is stored, its nodes enter the waiting queue,
\* and those without predecessors are set as ready ...
scheduleNewDag(d) ==
  LET count == [q \in {"wait", "ready"} |-> Cardinality({n \in Nodes(d) : firstQueue(n) = q})]
  IN /\ state[d] = "new" /\ myMutex = d /\ MyLockFree
     /\ caller' = [NoCall EXCEPT !.pc = "wake", !.dag = d]
     /\ state' = [state EXCEPT ![d] = "in"]
     /\ queues' = queues \cup {d}
     /\ myQueue' = [n \in Node |-> IF dagOf[n] = d THEN firstQueue(n) ELSE myQueue[n]]
     /\ nodeCounter' = [x \in Queue |-> IF x[2] = d THEN count[x[1]] ELSE nodeCounter[x]]
     /\ UNCHANGED <<sched, cancelled, told, op, nodeVars, dagLock, pc, round, wakeVars,
                    myDagsTermList, myMutex, faults, died>>

\* ... and the scheduler is woken up.
WakeForDag ==
  /\ caller.pc = "wake" /\ WakeUpLockFree
  /\ wakeUp("new dag")
  /\ caller' = NoCall /\ myMutex' = Nobody
  /\ UNCHANGED <<sched, dagVars, queueVars, nodeVars, dagLock, pc, round, myDagsTermList,
                 faults, died>>

\* The parser or intraDagSchedule() throws: the client gets the exception and the dag is
\* not stored.
Refuse(d) ==
  /\ state[d] = "new" /\ myMutex = d /\ MyLockFree
  /\ state' = [state EXCEPT ![d] = "refused"] /\ myMutex' = Nobody
  /\ UNCHANGED <<sched, cancelled, told, queueVars, nodeVars, dagLock, pc, round, wakeVars,
                 myDagsTermList, caller, faults, died>>

\* A remote call uses a std::map of the agent beside the scheduler thread, and one of the
\* two changes it: processDagWf() registers the client while getCltMan() looks for one,
\* scheduleNewDag() stores its dag while getDag() looks for one or releaseDag() erases
\* one, cancelDag() looks for its dag while releaseDag() erases one.
MapsRace(d) ==
  /\ \/ state[d] = "new" /\ myMutex = Nobody /\ pc \in {"start", "ask", "release"}
     \/ /\ state[d] = "new" /\ myMutex = d /\ MyLockFree
        /\ pc = "delete" \/ (pc = "check" /\ round.at <= Len(myDagsTermList))
     \/ d \in Cancellable /\ state[d] = "in" /\ MyLockFree /\ pc = "delete"
  /\ Dies("map", d) /\ faults' = Blame({d}, "beside the scheduler")
  /\ UNCHANGED <<sched, dagVars, queueVars, nodeVars, dagLock, round, wakeVars,
                 myDagsTermList, callVars>>

handlerDagDone(d) == myDagsTermList' = Append(myDagsTermList, d)

\* cancelDag() finds the dag, and setAsCancelled() its flag not set.
cancelDag(d) ==
  /\ d \in Cancellable /\ state[d] = "in" /\ ~cancelled[d] /\ MyLockFree
  /\ caller' = [NoCall EXCEPT !.pc = "cancel", !.dag = d]
  /\ UNCHANGED <<sched, dagVars, queueVars, nodeVars, dagLock, pc, round, wakeVars,
                 myDagsTermList, myMutex, faults, died>>

\* The scheduler thread does not take myLock to delete a dag.
CallerDangles ==
  /\ caller.pc \in {"cancel", "remove"} /\ Alive /\ state[caller.dag] = "out"
  /\ Dies("freed", caller.dag)
  /\ UNCHANGED <<sched, dagVars, queueVars, nodeVars, dagLock, round, wakeVars,
                 myDagsTermList, callVars, faults>>

Cancelling(p) == caller.pc = p /\ Alive /\ state[caller.dag] # "out"

cancelDag_Flag ==
  /\ Cancelling("cancel")
  /\ cancelled' = [cancelled EXCEPT ![caller.dag] = TRUE]
  /\ caller' = [caller EXCEPT !.pc = "remove", !.next = Nodes(caller.dag)]
  /\ UNCHANGED <<sched, state, told, queueVars, nodeVars, dagLock, pc, round, wakeVars,
                 myDagsTermList, myMutex, faults, died>>

\* setAsCancelled() removes the nodes one by one, in the order of the map.
First(ns) == CHOOSE n \in ns : TRUE

cancelDag_Remove ==
  LET m == First(caller.next)
  IN /\ Cancelling("remove") /\ op["caller"] = NoOp /\ caller.next # {}
     /\ IF NodeDangles(m) THEN Dies("NoQueue", caller.dag) /\ UNCHANGED <<myQueue, op, faults>>
        ELSE removeFromNodeQueue("caller", m, caller.dag) /\ UNCHANGED <<pc, died>>
     /\ caller' = [caller EXCEPT !.next = @ \ {m}]
     /\ UNCHANGED <<sched, dagVars, nodeCounter, queues, nodeVars, dagLock, round, wakeVars,
                    myDagsTermList, myMutex>>

cancelDag_Count ==
  /\ Cancelling("remove") /\ op["caller"] # NoOp
  /\ IF CounterDangles("caller") THEN Dies("NoQueue", caller.dag) /\ UNCHANGED <<nodeCounter, op>>
     ELSE WriteCounter("caller", -1) /\ UNCHANGED <<pc, died>>
  /\ UNCHANGED <<sched, dagVars, myQueue, queues, nodeVars, dagLock, round, wakeVars,
                 myDagsTermList, callVars, faults>>

\* The dag is listed, but the scheduler is not woken up.
cancelDag_List ==
  LET d == caller.dag
  IN /\ Cancelling("remove") /\ op["caller"] = NoOp /\ caller.next = {} /\ WakeUpLockFree
     /\ handlerDagDone(d)
     /\ faults' = IF ~isRunning(d) THEN Blame({d}, "cancelled while idle")
                  ELSE IF dagLock[d] # Nobody THEN Blame({d}, "cancelled twice") ELSE faults
     /\ caller' = NoCall
     /\ UNCHANGED <<sched, dagVars, queueVars, nodeVars, dagLock, pc, round, wakeVars, myMutex,
                    died>>

------------------------------------------------------------------------------
(* The launcher thread of node n: DagNodeLauncher::run() *)

At(n, p) == Alive /\ lnch[n].pc = p
Goto(n, p) == lnch' = [lnch EXCEPT ![n].pc = p]
GotoNext(n) == lnch' = [lnch EXCEPT ![n].pc = "next", ![n].cur = Nobody]

\* The client has executed the node; setAsDone().
Executed(n) ==
  /\ At(n, "call") /\ Goto(n, "done")
  /\ taskDone' = taskDone \cup {n}
  /\ UNCHANGED <<sched, dagVars, queueVars, todoCount, thread, dagLock, pc, round, wakeVars,
                 myDagsTermList, callVars, faults, died>>

\* The client returns an error or cannot be reached.
NotExecuted(n) ==
  /\ At(n, "call") /\ Goto(n, "failed")
  /\ UNCHANGED <<sched, dagVars, queueVars, todoCount, taskDone, thread, dagLock, pc, round,
                 wakeVars, myDagsTermList, callVars, faults, died>>

\* setNodeDone() triggers the next nodes, unless the dag is cancelled.
setNodeDone(n) ==
  /\ At(n, "done")
  /\ lnch' = [lnch EXCEPT ![n].pc = "next",
                          ![n].next = IF cancelled[dagOf[n]] THEN {} ELSE NextNodes(n)]
  /\ UNCHANGED <<sched, dagVars, queueVars, todoCount, taskDone, thread, dagLock, pc, round,
                 wakeVars, myDagsTermList, callVars, faults, died>>

\* Another launcher is in prevNodeHasDone() of the same node.
Overlap(n, m) == \E k \in Node \ {n} : lnch[k].pc \in {"dec", "check", "push", "ready", "wait"} /\ lnch[k].cur = m

\* prevNodeHasDone(): prevNodesTodoCount-- is a read and a write.
ReadCount(n) ==
  /\ At(n, "next")
  /\ \E m \in lnch[n].next :
       /\ lnch' = [lnch EXCEPT ![n] = [pc |-> "dec", next |-> @.next \ {m}, cur |-> m,
                                       tmp |-> todoCount[m]]]
       /\ faults' = IF Overlap(n, m) THEN Blame({dagOf[n]}, "raced") ELSE faults
  /\ UNCHANGED <<sched, dagVars, queueVars, todoCount, taskDone, thread, dagLock, pc, round,
                 wakeVars, myDagsTermList, callVars, died>>

WriteCount(n) ==
  /\ At(n, "dec") /\ lnch' = [lnch EXCEPT ![n].pc = "check", ![n].tmp = 0]
  /\ todoCount' = [todoCount EXCEPT ![lnch[n].cur] = lnch[n].tmp - 1]
  /\ UNCHANGED <<sched, dagVars, queueVars, taskDone, thread, dagLock, pc, round, wakeVars,
                 myDagsTermList, callVars, faults, died>>

\* Mutant: one predecessor is enough.
isReady_One(m) == todoCount[m] <= 1

isReady(m) == todoCount[m] = 0

\* setAsReady() looks where the node is: only the waiting queue reacts.
setAsReady(n) ==
  /\ At(n, "check")
  /\ IF isReady(lnch[n].cur) /\ myQueue[lnch[n].cur] = "wait"
     THEN Goto(n, "push") ELSE GotoNext(n)
  /\ UNCHANGED <<sched, dagVars, queueVars, todoCount, taskDone, thread, dagLock, pc, round,
                 wakeVars, myDagsTermList, callVars, faults, died>>

\* ChainedNodeQueue::notifyStateChange() pushes the node on to the ready queue.  The node
\* may have been pushed by another launcher, or the queue deleted, since setAsReady() has
\* looked.
notifyStateChange(n) ==
  LET m == lnch[n].cur
      d == dagOf[n]
      pushed == \/ myQueue[m] \in {"ready", "exec", "lost"} \/ thread[m] # "none"
                \/ round.node = m
  IN /\ At(n, "push")
     /\ IF d \notin queues \/ pushed
        THEN /\ Dies(IF d \notin queues THEN "NoQueue" ELSE "twice", d)
             /\ UNCHANGED <<myQueue, op, lnch, faults>>
        ELSE /\ myQueue' = [myQueue EXCEPT ![m] = "ready"] /\ ChangeList(n, <<"ready", d>>)
             /\ Goto(n, "ready")
             /\ UNCHANGED <<pc, died>>
     /\ UNCHANGED <<sched, dagVars, nodeCounter, queues, todoCount, taskDone, thread, dagLock,
                    round, wakeVars, myDagsTermList, callVars>>

\* One more node is ready, and one less is waiting.
CountReady(n) ==
  LET x == <<"wait", dagOf[n]>>
  IN /\ At(n, "ready")
     /\ IF CounterDangles(n)
        THEN Dies("NoQueue", dagOf[n]) /\ UNCHANGED <<nodeCounter, op, lnch>>
        ELSE /\ nodeCounter' = [nodeCounter EXCEPT ![op[n].on] = op[n].tmp + 1]
             /\ ReadCounter(n, x) /\ Goto(n, "wait")
             /\ UNCHANGED <<pc, died>>
     /\ UNCHANGED <<sched, dagVars, myQueue, queues, todoCount, taskDone, thread, dagLock, round,
                    wakeVars, myDagsTermList, callVars, faults>>

CountWaiting(n) ==
  /\ At(n, "wait")
  /\ IF CounterDangles(n)
     THEN Dies("NoQueue", dagOf[n]) /\ UNCHANGED <<nodeCounter, op, lnch>>
     ELSE WriteCounter(n, -1) /\ GotoNext(n) /\ UNCHANGED <<pc, died>>
  /\ UNCHANGED <<sched, dagVars, myQueue, queues, todoCount, taskDone, thread, dagLock, round,
                 wakeVars, myDagsTermList, callVars, faults>>

\* The end of setNodeDone(): the dag is done or cancelled.  isDone() takes Dag::myLock.
DagEnds(d) == isDone(d) \/ cancelled[d]

LastOfDag(n) ==
  LET d == dagOf[n]
  IN /\ At(n, "next") /\ lnch[n].next = {} /\ dagLock[d] = Nobody
     /\ IF DagEnds(d) THEN WakeUpLockFree /\ handlerDagDone(d) ELSE UNCHANGED myDagsTermList
     /\ Goto(n, "finish")
     /\ UNCHANGED <<sched, dagVars, queueVars, todoCount, taskDone, thread, dagLock, pc, round,
                    wakeVars, callVars, faults, died>>

\* setNodeFailure() takes Dag::myLock, and keeps it if it has to cancel the dag.
setNodeFailure(n) ==
  LET d == dagOf[n]
  IN /\ At(n, "failed") /\ dagLock[d] = Nobody
     /\ IF cancelled[d] THEN Goto(n, "finish") /\ UNCHANGED dagLock
        ELSE Goto(n, "cancel") /\ dagLock' = [dagLock EXCEPT ![d] = n]
     /\ UNCHANGED <<sched, dagVars, queueVars, todoCount, taskDone, thread, pc, round, wakeVars,
                    myDagsTermList, callVars, faults, died>>

setAsCancelled(n) ==
  /\ At(n, "cancel")
  /\ cancelled' = [cancelled EXCEPT ![dagOf[n]] = TRUE]
  /\ lnch' = [lnch EXCEPT ![n].pc = "remove", ![n].next = Nodes(dagOf[n])]
  /\ UNCHANGED <<sched, state, told, queueVars, todoCount, taskDone, thread, dagLock, pc, round,
                 wakeVars, myDagsTermList, callVars, faults, died>>

RemoveNode(n) ==
  LET m == First(lnch[n].next)
      d == dagOf[n]
  IN /\ At(n, "remove") /\ op[n] = NoOp /\ lnch[n].next # {}
     /\ IF NodeDangles(m) THEN Dies("NoQueue", d) /\ UNCHANGED <<myQueue, op, faults>>
        ELSE removeFromNodeQueue(n, m, d) /\ UNCHANGED <<pc, died>>
     /\ lnch' = [lnch EXCEPT ![n].next = @ \ {m}]
     /\ UNCHANGED <<sched, dagVars, nodeCounter, queues, todoCount, taskDone, thread, dagLock,
                    round, wakeVars, myDagsTermList, callVars>>

CountRemoved(n) ==
  /\ At(n, "remove") /\ op[n] # NoOp
  /\ IF CounterDangles(n) THEN Dies("NoQueue", dagOf[n]) /\ UNCHANGED <<nodeCounter, op>>
     ELSE WriteCounter(n, -1) /\ UNCHANGED <<pc, died>>
  /\ UNCHANGED <<sched, dagVars, myQueue, queues, nodeVars, dagLock, round, wakeVars,
                 myDagsTermList, callVars, faults>>

\* All nodes are removed: the dag is listed, and Dag::myLock released.
CancelEnds(n) == At(n, "remove") /\ op[n] = NoOp /\ lnch[n].next = {}

FailureListed(n) ==
  /\ CancelEnds(n) /\ WakeUpLockFree /\ Goto(n, "finish")
  /\ handlerDagDone(dagOf[n])
  /\ dagLock' = [dagLock EXCEPT ![dagOf[n]] = Nobody]
  /\ UNCHANGED <<sched, dagVars, queueVars, todoCount, taskDone, thread, pc, round, wakeVars,
                 callVars, faults, died>>

\* Mutant: the post on the semaphore is forgotten.
finishNode_Silent(n) ==
  /\ At(n, "finish") /\ WakeUpLockFree
  /\ lnch' = [lnch EXCEPT ![n] = [Idle EXCEPT !.pc = "gone"]]
  /\ myWakeUpList' = Append(myWakeUpList, n)
  /\ UNCHANGED <<sched, dagVars, queueVars, todoCount, taskDone, thread, dagLock, pc, round,
                 mySem, myDagsTermList, callVars, faults, died>>

\* finishNode() wakes the scheduler up, and the thread ends.
finishNode(n) ==
  /\ At(n, "finish") /\ WakeUpLockFree
  /\ lnch' = [lnch EXCEPT ![n] = [Idle EXCEPT !.pc = "gone"]]
  /\ wakeUp(n)
  /\ UNCHANGED <<sched, dagVars, queueVars, todoCount, taskDone, thread, dagLock, pc, round,
                 myDagsTermList, callVars, faults, died>>

------------------------------------------------------------------------------
(* The scheduler thread: run() *)

\* A round locks myLock and visits the ready queues.
NewRound ==
  /\ pc = "round" /\ MyLockFree
  /\ pc' = "visit" /\ round' = [NoRound EXCEPT !.todo = queues]
  /\ UNCHANGED <<sched, dagVars, queueVars, nodeVars, dagLock, wakeVars, myDagsTermList,
                 callVars, faults, died>>

\* The queues are visited one after the other.
Visiting(d) == pc = "visit" /\ d \in round.todo /\ round.queue \in {Nobody, d}

\* Popping a node of a deleted dag uses freed memory.
PopDangling(d) == state[d] = "out" /\ In("ready", d) # {}

visited(d) == [round EXCEPT !.todo = @ \ {d}, !.queue = Nobody]

VisitDangling(d) ==
  /\ Visiting(d) /\ PopDangling(d)
  /\ Dies("freed", d)
  /\ UNCHANGED <<sched, dagVars, queueVars, nodeVars, dagLock, round, wakeVars,
                 myDagsTermList, callVars, faults>>

VisitEmpty(d) ==
  /\ Visiting(d) /\ In("ready", d) = {}
  /\ round' = visited(d)
  /\ UNCHANGED <<sched, dagVars, queueVars, nodeVars, dagLock, pc, wakeVars, myDagsTermList,
                 callVars, faults, died>>

\* popFirstNode() of a ready queue ...
Pop(d) ==
  /\ Visiting(d) /\ ~PopDangling(d)
  /\ \E n \in In("ready", d) :
       /\ myQueue' = [myQueue EXCEPT ![n] = "none"]
       /\ round' = [round EXCEPT !.queue = d, !.node = n, !.queued = TRUE]
  /\ ChangeList("scheduler", <<"ready", d>>)
  /\ pc' = "pop"
  /\ UNCHANGED <<sched, dagVars, nodeCounter, queues, nodeVars, dagLock, wakeVars,
                 myDagsTermList, callVars, died>>

\* ... is followed by a push on to execQueue in MultiWfScheduler ...
Popped ==
  /\ pc = "pop" /\ ~sched.basic
  /\ nodeCounter' = [nodeCounter EXCEPT ![op["scheduler"].on] = op["scheduler"].tmp - 1]
  /\ myQueue' = [myQueue EXCEPT ![round.node] = "exec"]
  /\ ChangeList("scheduler", ExecQueue)
  /\ pc' = "queue" /\ round' = [round EXCEPT !.node = Nobody]
  /\ UNCHANGED <<sched, dagVars, queues, nodeVars, dagLock, wakeVars, myDagsTermList, callVars,
                 died>>

\* ... which takes all ready nodes of the queue or one, by policy.
Queued ==
  /\ pc = "queue"
  /\ WriteCounter("scheduler", 1)
  /\ pc' = "visit" /\ round' = IF sched.policy = "node" THEN round ELSE visited(round.queue)
  /\ UNCHANGED <<sched, dagVars, myQueue, queues, nodeVars, dagLock, wakeVars, myDagsTermList,
                 callVars, faults, died>>

\* MultiWfBasicScheduler pops one node ...
PoppedOne ==
  /\ pc = "pop" /\ sched.basic
  /\ WriteCounter("scheduler", -1)
  /\ pc' = "start"
  /\ UNCHANGED <<sched, dagVars, myQueue, queues, nodeVars, dagLock, round, wakeVars,
                 myDagsTermList, callVars, faults, died>>

start(n) ==
  /\ thread' = [thread EXCEPT ![n] = "started"]
  /\ Goto(n, "call")

\* Both nodeCounters are 0: isEmpty().
EmptyQueues(ds) == {d \in ds : nodeCounter[<<"wait", d>>] = 0 /\ nodeCounter[<<"ready", d>>] = 0}

\* ... starts it, and deletes the queues of its dag if they are empty.
StartPopped ==
  /\ pc = "start"
  /\ start(round.node)
  /\ queues' = queues \ EmptyQueues({round.queue})
  /\ pc' = "visit" /\ round' = [visited(round.queue) EXCEPT !.node = Nobody]
  /\ UNCHANGED <<sched, dagVars, myQueue, nodeCounter, op, todoCount, taskDone, dagLock, wakeVars,
                 myDagsTermList, callVars, faults, died>>

\* All queues are visited: phase 2 begins, or the round ends.
ExecNodes == {n \in Node : myQueue[n] = "exec"}

Visited ==
  /\ pc = "visit" /\ round.todo = {}
  /\ pc' = IF ~round.queued THEN "sleep" ELSE IF sched.basic THEN "round" ELSE "exec"
  /\ round' = IF pc' = "exec" THEN [round EXCEPT !.avail = {Service[n] : n \in ExecNodes}]
              ELSE NoRound
  /\ UNCHANGED <<sched, dagVars, queueVars, nodeVars, dagLock, wakeVars, myDagsTermList,
                 callVars, faults, died>>

nodeSubmit(n) ==
  IF sched.platform = "any" THEN Service[n] \in round.avail ELSE ~round.asked

\* Phase 2: the counter of execQueue says that there is a next node ...
PopExec(n) ==
  /\ pc = "exec" /\ myQueue[n] = "exec" /\ nodeCounter[ExecQueue] # 0
  /\ IF state[dagOf[n]] = "out"
     THEN Dies("freed", dagOf[n]) /\ UNCHANGED <<myQueue, op, round, faults>>
     ELSE /\ myQueue' = [myQueue EXCEPT ![n] = "none"] /\ ChangeList("scheduler", ExecQueue)
          /\ pc' = "take" /\ round' = [round EXCEPT !.node = n]
          /\ UNCHANGED died
  /\ UNCHANGED <<sched, dagVars, nodeCounter, queues, nodeVars, dagLock, wakeVars,
                 myDagsTermList, callVars>>

\* ... where there may be none.
PopNothing ==
  /\ pc = "exec" /\ ExecNodes = {} /\ nodeCounter[ExecQueue] # 0
  /\ Dies("null", Nobody)
  /\ UNCHANGED <<sched, dagVars, queueVars, nodeVars, dagLock, round, wakeVars,
                 myDagsTermList, callVars, faults>>

\* The node is submitted to the master agent ...
Submit ==
  /\ pc = "take" /\ nodeSubmit(round.node)
  /\ WriteCounter("scheduler", -1)
  /\ pc' = "ask"
  /\ UNCHANGED <<sched, dagVars, myQueue, queues, nodeVars, dagLock, round, wakeVars,
                 myDagsTermList, callVars, faults, died>>

\* The node of the round is pushed back on to its ready queue.
PushBack(r) ==
  LET d == dagOf[round.node]
  IN IF d \notin queues
     THEN Dies("NoQueue", d) /\ UNCHANGED <<myQueue, op, round, faults>>
     ELSE /\ myQueue' = [myQueue EXCEPT ![round.node] = "ready"]
          /\ ChangeList("scheduler", <<"ready", d>>)
          /\ pc' = "back" /\ round' = [r EXCEPT !.node = Nobody]
          /\ UNCHANGED died

\* ... or skipped and put back.
Skip ==
  /\ pc = "take" /\ ~nodeSubmit(round.node)
  /\ nodeCounter' = [nodeCounter EXCEPT ![ExecQueue] = op["scheduler"].tmp - 1]
  /\ PushBack(round)
  /\ UNCHANGED <<sched, dagVars, queues, nodeVars, dagLock, wakeVars, myDagsTermList, callVars>>

PutBack ==
  /\ pc = "back"
  /\ WriteCounter("scheduler", 1)
  /\ pc' = "exec"
  /\ UNCHANGED <<sched, dagVars, myQueue, queues, nodeVars, dagLock, round, wakeVars,
                 myDagsTermList, callVars, faults, died>>

\* The answer has a server that is free: the node starts.
AskFound ==
  /\ pc = "ask"
  /\ start(round.node)
  /\ pc' = "exec" /\ round' = [round EXCEPT !.node = Nobody, !.mapped = TRUE, !.asked = TRUE]
  /\ UNCHANGED <<sched, dagVars, queueVars, todoCount, taskDone, dagLock, wakeVars,
                 myDagsTermList, callVars, faults, died>>

\* No server is free: the node goes back to the ready queue.
AskNone ==
  /\ pc = "ask"
  /\ PushBack([round EXCEPT !.asked = TRUE, !.avail = @ \ {Service[round.node]}])
  /\ UNCHANGED <<sched, dagVars, nodeCounter, queues, nodeVars, dagLock, wakeVars,
                 myDagsTermList, callVars>>

\* The name of a server in the answer does not resolve, outside any try.
AskThrows ==
  /\ pc = "ask"
  /\ Dies("resolve", dagOf[round.node])
  /\ faults' = Blame({dagOf[round.node]}, "server gone")
  /\ UNCHANGED <<sched, dagVars, queueVars, nodeVars, dagLock, round, wakeVars,
                 myDagsTermList, callVars>>

\* The submission fails: setAsFailed() without a scheduler only sets the flag.
AskFails ==
  /\ pc = "ask" /\ dagLock[dagOf[round.node]] = Nobody
  /\ cancelled' = [cancelled EXCEPT ![dagOf[round.node]] = TRUE]
  /\ faults' = Blame({dagOf[round.node]}, "not submitted")
  /\ pc' = "exec" /\ round' = [round EXCEPT !.node = Nobody]
  /\ UNCHANGED <<sched, state, told, queueVars, nodeVars, dagLock, wakeVars, myDagsTermList,
                 callVars, died>>

\* The end of phase 2: empty queues are deleted, myLock is released, and the
\* scheduler sleeps if there may be no more servers.
Sleeps == IF sched.platform = "any" THEN round.avail = {} ELSE ~round.mapped

EndRound ==
  /\ pc = "exec" /\ nodeCounter[ExecQueue] = 0
  /\ queues' = queues \ EmptyQueues(queues)
  /\ pc' = (IF Sleeps THEN "sleep" ELSE "round") /\ round' = NoRound
  /\ faults' = IF Sleeps /\ \A d \in Dag : ~isRunning(d)
               THEN Blame({d \in Dag : In("ready", d) # {}}, "no server") ELSE faults
  /\ UNCHANGED <<sched, dagVars, myQueue, nodeCounter, op, nodeVars, dagLock, wakeVars,
                 myDagsTermList, callVars, died>>

Unique(s) == SetToSeq(ToSet(s))

\* terminate() joins the thread, which has ended.  A new dag has no thread.
terminate(n) == thread' = [m \in Node |-> IF m = n THEN "terminated" ELSE thread[m]]

\* mySem.wait(), postWakeUp(), and the start of checkDagsRelease().
WakeUp ==
  /\ pc = "sleep" /\ mySem > 0
  /\ mySem' = mySem - 1
  /\ myWakeUpList' = Tail(myWakeUpList)
  /\ terminate(Head(myWakeUpList))
  /\ myDagsTermList' = Unique(myDagsTermList)
  /\ pc' = "check" /\ round' = [NoRound EXCEPT !.at = 1]
  /\ UNCHANGED <<sched, dagVars, queueVars, todoCount, taskDone, lnch, dagLock, callVars,
                 faults, died>>

\* Mutant: the dag is released without asking whether it still runs.
checkDagsRelease_Now ==
  /\ pc = "check" /\ round.at <= Len(myDagsTermList)
  /\ LET d == myDagsTermList[round.at]
     IN IF state[d] # "in" THEN Dies("InvalidDag", d)
        ELSE dagLock[d] = Nobody /\ pc' = "release" /\ UNCHANGED died
  /\ UNCHANGED <<sched, dagVars, queueVars, nodeVars, dagLock, round, wakeVars, myDagsTermList,
                 callVars, faults>>

\* One dag of the list, with myWakeUpLock held: isRunning() takes Dag::myLock.
checkDagsRelease ==
  /\ pc = "check" /\ round.at <= Len(myDagsTermList)
  /\ LET d == myDagsTermList[round.at]
     IN IF state[d] # "in"
        THEN Dies("InvalidDag", d) /\ UNCHANGED round
        ELSE /\ dagLock[d] = Nobody
             /\ IF isRunning(d)
                THEN round' = [round EXCEPT !.at = @ + 1] /\ UNCHANGED pc
                ELSE pc' = "release" /\ UNCHANGED round
             /\ UNCHANGED died
  /\ UNCHANGED <<sched, dagVars, queueVars, nodeVars, dagLock, wakeVars, myDagsTermList,
                 callVars, faults>>

Checked ==
  /\ pc = "check" /\ round.at > Len(myDagsTermList)
  /\ pc' = "round" /\ round' = NoRound
  /\ UNCHANGED <<sched, dagVars, queueVars, nodeVars, dagLock, wakeVars, myDagsTermList,
                 callVars, faults, died>>

\* releaseDag() tells the client; it may not be reachable.
releaseDag ==
  /\ pc = "release"
  /\ LET d == myDagsTermList[round.at]
     IN \/ /\ told' = [told EXCEPT ![d] = IF cancelled[d] THEN "cancelled" ELSE "success"]
           /\ UNCHANGED cancelled
        \/ /\ told' = [told EXCEPT ![d] = "unreachable"]
           /\ cancelled' = [cancelled EXCEPT ![d] = TRUE]
  /\ pc' = "delete"
  /\ UNCHANGED <<sched, state, queueVars, nodeVars, dagLock, round, wakeVars, myDagsTermList,
                 callVars, faults, died>>

\* The dag is deleted and the walk continues.  A cancelDag() that still has the dag
\* in its hands, or has listed it again, is too late.
DeleteDag ==
  LET d == myDagsTermList[round.at]
      again == \E i \in 1..Len(myDagsTermList) : i # round.at /\ myDagsTermList[i] = d
  IN /\ pc = "delete"
     /\ state' = [state EXCEPT ![d] = "out"]
     /\ myDagsTermList' = RemoveAt(myDagsTermList, round.at)
     /\ pc' = "check"
     /\ faults' = IF again \/ caller.dag = d THEN Blame({d}, "cancelled in release")
                  ELSE faults
     /\ UNCHANGED <<sched, cancelled, told, queueVars, nodeVars, dagLock, round, wakeVars,
                    callVars, died>>

------------------------------------------------------------------------------

Launcher(n) ==
  \/ Executed(n) \/ NotExecuted(n) \/ setNodeDone(n) \/ ReadCount(n) \/ WriteCount(n)
  \/ setAsReady(n) \/ notifyStateChange(n) \/ CountReady(n) \/ CountWaiting(n)
  \/ LastOfDag(n) \/ setNodeFailure(n) \/ setAsCancelled(n) \/ RemoveNode(n) \/ CountRemoved(n)
  \/ FailureListed(n) \/ finishNode(n)

Scheduler ==
  \/ NewRound \/ Popped \/ Queued \/ PoppedOne \/ StartPopped \/ Visited
  \/ Submit \/ Skip \/ PutBack \/ AskFound \/ AskNone \/ AskFails \/ AskThrows \/ PopNothing
  \/ EndRound \/ WakeUp \/ checkDagsRelease \/ Checked \/ releaseDag \/ DeleteDag
  \/ \E d \in Dag : VisitDangling(d) \/ VisitEmpty(d) \/ Pop(d)
  \/ \E n \in Node : PopExec(n)

Caller ==
  \/ WakeForDag \/ cancelDag_Flag \/ cancelDag_Remove \/ cancelDag_Count \/ cancelDag_List
  \/ CallerDangles

Call(d) ==
  \/ processDagWf(d) \/ ClientUnknown(d) \/ scheduleNewDag(d) \/ Refuse(d) \/ cancelDag(d)
  \/ MapsRace(d)

Next ==
  \/ Scheduler
  \/ Caller
  \/ \E n \in Node : Launcher(n)
  \/ \E d \in Dag : Call(d)
  \/ \E t \in Thread : Tear(t)

Spec == Init /\ [][Next]_vars

\* Every thread goes on while the agent lives: the client's calls return or fail.  A
\* launcher has finitely many steps, so that the fairness of all is that of each.
FairSpec ==
  /\ Spec
  /\ WF_vars(Scheduler) /\ WF_vars(Caller) /\ WF_vars(\E n \in Node : Launcher(n))

------------------------------------------------------------------------------
(* Properties *)

\* DagNode::start(): a node runs only after the client has executed all nodes that it
\* depends on, however the notifications of its predecessors interleave.
StartsInOrder ==
  \A n \in Node : thread[n] # "none" => Prev[n] \subseteq taskDone

\* releaseDag(): what the client is told is final.  The dag has no node that runs or that
\* has not been joined, and a success means that every node was executed.
ReleaseIsFinal ==
  \A d \in Dag : told[d] # "nothing" =>
    /\ ~isRunning(d) /\ \A n \in Nodes(d) : lnch[n].pc \in {"none", "gone"}
    /\ told[d] = "success" => isDone(d)

\* checkDagsRelease() holds myWakeUpLock and waits for Dag::myLock; a launcher that
\* cancels the dag holds that and waits for myWakeUpLock.
Crossed(d) ==
  /\ pc = "check" /\ round.at <= Len(myDagsTermList) /\ myDagsTermList[round.at] = d
  /\ \E n \in Node : dagLock[d] = n /\ CancelEnds(n)

Causes == [freed |-> {"cancelled in release", "loose", "not submitted", "torn"},
           InvalidDag |-> {"cancelled in release"},
           twice |-> {"raced"}, NoQueue |-> {"loose", "raced", "torn"},
           torn |-> {"torn"}, null |-> {"torn"},
           map |-> {"beside the scheduler"}, resolve |-> {"server gone"}]

\* The agent dies only for one of these causes.  It uses freed memory or its scheduler
\* thread ends with an exception after a cancelDag() that overlaps the release of its dag,
\* a setAsCancelled() that missed a node between two queues, a failed submission that
\* leaves the other nodes queued, two predecessors of one node that end together, two
\* threads in one list, a std::map used beside the scheduler, or a server whose name does
\* not resolve.
DeathExplained ==
  ~Alive => \E d \in Dag : died[2] \in {d, Nobody} /\ Causes[died[1]] \cap faults[d] # {}

\* setAsCancelled(): the agent deadlocks on the two locks only if a cancelDag() and a
\* setNodeFailure() both found the flag of the dag not set.  Of two launchers that fail,
\* the second sees the flag of the first.
LocksExplained == \A d \in Dag : Crossed(d) => "cancelled twice" \in faults[d]

\* The agent stops, by a death or by the two locks, only for one of these causes.
StopExplained == DeathExplained /\ LocksExplained

\* A dag is in the agent, and nothing has happened that may keep it there: a lost
\* decrement leaves a node waiting; a torn list loses a node, or the count that keeps its
\* queue; cancelDag() lists a dag of which nothing runs and wakes nobody up; a failed
\* submission cancels the dag without listing it; the scheduler sleeps with nothing
\* running because the servers were taken by others; the two locks are crossed.
Pending(d) ==
  /\ state[d] = "in" /\ Alive /\ \A x \in Dag : ~Crossed(x)
  /\ faults[d] \cap {"raced", "cancelled while idle", "not submitted", "no server", "torn"} = {}

\* MultiWfScheduler::run(): every dag that is accepted is released in the end, or the
\* agent dies, or something that Pending names has happened to it.
DagsEnd == []<>(\A d \in Dag : ~Pending(d))

=============================================================================
