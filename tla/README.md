# A verification project for DIET

DIET is a grid middleware: clients submit requests to a hierarchy of agents,
which find server daemons (SeDs) able to serve them; the client then calls the
chosen SeD, synchronously or asynchronously. All processes are CORBA objects
served by a multi-threaded ORB (omniORB): **every incoming call runs in a thread
of its own**, so nearly every handler below can interleave with every other
handler of the same process, itself included.

This directory holds TLA+ modules translated from `src/src/` (C++), the TLC
configurations that check them, and TLAPS proofs. `PROJECT.json` maps each
definition to the source lines it models, each property to a mutant of the code
that violates it, and each hazard to the properties that would catch it.

To run: `tlc -config X.cfg M` for the pairs in the table of runs, `tlapm M.tla`
for the modules whose name ends in `Proofs`.

## 1. Inventory

| Component | State | Operations | Hard part |
|---|---|---|---|
| Readers-writer lock (`utils/ReadersWriterLock.hh`) | `reader_count`, `writer_count`, `is_write_lock`, a condition variable | readLock, writeLock, unlock | wake-ups, who excludes whom |
| Access controller (`utils/AccessController.cc`) | semaphore, `numFreeSlots`, `numWaiting`, request numbers | waitForResource, releaseResource | books kept in two sections with a semaphore and unlocked tests between them |
| Job queue (`utils/JobQueue.cc`) | map of jobs, FIFO list, active counter | add, set started, set finished, delete, estimate | map, list and counter changed in separate sections |
| SeD, solving (`SeD/SeDImpl.cc`) | service table, and the two above | solve, solveAsync, parallel_solve, parallel_AsyncSolve, removeService | exits that skip the release; an index used after a wait |
| Client, asynchronous calls (`client/CallAsyncMgr.cc`, `DIET_client.cc`, `DIETCall.cc`, `CallbackImpl.cc`) | registered requests, wait rules, semaphores, error codes, failed sessions | start, wait / and / or / all / any, cancel, cancel all, finalize, callbacks | results and cancellations that race waits |
| Agent, children (`agent/AgentImpl.cc`, `utils/ts_container/ts_vector.hh`) | vectors of children, counters | subscribe, addServices, childRemoveService, childUnsubscribe, drop a failed child | several locks, each held for one call |
| Service table (`utils/nodes/ServiceTable.cc`) | services, their children and counts | lookup, addService, rmService, rmChild, rmChildService | unsigned counts, removal of what is not there |
| Agent, requests (`AgentImpl.cc`, `Request.cc`, `MasterAgentImpl.cc`) | requests, awaited responses | submit_local, findServer, sendRequest, getResponse | oneway calls, a count read after an unlock, no timeout |
| Local agent, propagation (`agent/LocalAgentImpl.cc`) | the agent's table and its parent's, its number there | addServices, childUnsubscribe, childRemoveService, bindParent, disconnect | two levels that must agree through separate calls |
| Schedulers (`agent/GlobalSchedulers.cc`, `Schedulers.cc`) | weights | aggregate, sort | merge of partial orders |
| Multi-MA federation (`MasterAgentImpl.cc`, `FloodRequest.cc`, `FloodRequestsList.cc`) | the request identifiers seen, the pending FloodRequests, per neighbour how far it is flooded, the answers still counted | submit, searchService, newFlood, stopFlooding, and the answers serviceFound, serviceNotFound, floodedArea, alreadyContacted | oneway calls that overtake each other, timed waits racing late answers, an object deleted under a waiting thread |
| Dagda (`utils/DAGDA/`) | the map of data, its status, two mutexes, memory used, the children | search, add, send, record, update, remove, evict | transfers between peers in both directions, check-then-use of the free space, pointers into a map that changes |
| Workflow agent (`agent/workflow/`, `utils/workflow/Dag.cc`, `DagNode.cc`, `NodeQueue.cc`) | dags, two queues per dag and one for execution, each a list and a counter, counts of predecessors, wake-up list, termination list | submit, cancel, the scheduler's rounds, launch, done, failed, release | the scheduler thread against one launcher thread per node and the cancellations, on lists, counters and maps without a lock |
| Workflow client (`client/workflow/`) | the client's dags, one callback object each | submit, execute, release | - |
| CORBA forwarders, log, CoRI, configuration, cloud, events | caches, figures | - | mostly I/O |

Interactions. The client submits to the master agent (`submit`), which runs
`findServer()` over its children; local agents run the same code one level down;
SeDs answer with `getResponse` (oneway). The client calls `solve` (blocking) or
`solveAsync` (oneway) on the SeD; the SeD calls back `notifyResults` /
`solveResults` on the client's callback object, whose ORB thread runs
`CallAsyncMgr::notifyRst()`. Children change the agent's tables by remote calls
at any time, and the agent drops a child when a ping raises. A master agent that
finds no server floods the request to its neighbours. Before and after a solve the
SeD asks its Dagda manager for the parameters, which searches the tree of managers
from the root and transfers replicas block by block. The workflow agent submits the
nodes of a dag to the master agent and calls the client to execute each of them.

What makes each modelled component correct:

* lock: writers are alone among writers, nobody sleeps for ever on a free lock;
* access controller and SeD: never more solves than configured; a slot comes
  back; the right solver runs; the client is answered after the release;
* job queue: counter, map and list agree;
* asynchronous calls: a wait returns once it is due, and not before; a rule is
  never reached after it was freed; each failure is reported, and nothing else;
* agent: the table says what the children offer; a request gets the responses of
  all the children it asked, and comes back;
* local agent: its parent lists it for what its own table has, and no other child
  of the parent loses a service by what it says;
* Dagda: a solver reads a whole parameter of one version; the memory counted is the
  memory stored; an update reaches every replica; a mutex comes back;
* federation: a search that finds nothing has asked everybody in reach; the count
  of awaited answers is right; afterwards no agent remembers the search;
* workflows: a node starts after its predecessors; what the client is told at the
  end is final; every accepted dag is released.

## 2. Modules

| Module | Models | State and actions against the code |
|---|---|---|
| `RWLock` | `ReadersWriterLock.hh` | One step per section of the internal mutex; the threads asleep on the condition variable are a set (only writers ever sleep). |
| `Slots` | nothing: the abstract promise | A set of holders bounded by the limit; enter and leave. |
| `AccessController` | `AccessController.cc` | Each thread goes through the first locked section, the semaphore, the two unlocked tests, the second locked section and the release. `ImplementsSlots` is the refinement. |
| `JobQueue` | `JobQueue.cc` | Operators over the map, the list and the counter, used by the actions of `SeD`. |
| `SeD` (EXTENDS both) | `SeDImpl.cc` | One action per stretch of `solve()` and its variants between two points where another thread can run. A transfer, a batch job or a callback may fail; services are added and removed meanwhile. |
| `AsyncCalls` | `CallAsyncMgr.cc` and its callers | One action per section of `callAsyncListLock`; the section of `notifyRst()` is two, since readers look in while it downloads the result (`loading`). `wait[w]` holds thread w's rule and its semaphore, `req[r]` where the call and its callback are, `returning[r]` what the call is about to return, which `set_req_error()` then stores. Operators keep the names of the functions. |
| `ServiceTable` | `ServiceTable.cc` | Pure operators on a sequence of entries; `nb_children` keeps its width (`% ULongSize`). |
| `Agent` (EXTENDS it) | `AgentImpl.cc`, children, `ts_vector.hh` | `kid[c]` holds the call a child has under way. `subscribe` is several steps because the counter and the vectors have locks of their own, and because `operator[]` returns a reference (`FindEntry`) that is written later (`SetChild`); `stale` are the entries that a `resize()` has moved in between. |
| `FindServer` (EXTENDS `Agent`) | `AgentImpl.cc`, `Request.cc`, requests | A thread per request and one per response; `calls` holds the oneway messages. |
| `LocalAgent` (EXTENDS `ServiceTable`) | `LocalAgentImpl.cc` | A thread per SeD and one for `bindParent()` or `disconnect()`; each section on the agent's table, each test and each call to the parent is a step. A call to the parent may raise before it has reached the parent (`Raises`) or after the parent has done it (`LosesReply`). `upT` is the parent's table, `Others` its other child. |
| `Dagda` | `DagdaImpl.cc`, `AdvancedDagdaComponent.cc`, the parameters in `DIET_Dagda.cc` | A thread per call; `walk[t]` is the frame of a search at the root, `add[t]` the frame of `lclAddData()` and of the `sendData()` it causes. `dataMutex` of each manager and `childrenMutex` of the root are taken and kept as in the code. |
| `Flooding` | `MasterAgentImpl.cc` (HAVE_MULTI_MA), `FloodRequest.cc`, `FloodRequestsList.cc` | One search. `msgs` holds the oneway calls, `newFloods` the threads inside `newFlood()`, `obj` the FloodRequest objects and `list` which of them `get()` can take. |
| `MultiWf` | `MultiWfScheduler.cc`, `MultiWfBasicScheduler.cc`, `Dag.cc`, `DagNode.cc`, `NodeQueue.cc`, `MaDag_impl.cc` | The scheduler thread, one launcher per node, `processDagWf()` and `cancelDag()`. An operation on a queue is the change of its list with the read of `nodeCounter`, then the write of the counter; `prevNodesTodoCount--` is a read and a write; `setAsCancelled()` takes the nodes out one by one. `op[t]` is the operation that thread t has begun. |
| `Ordering` | nothing: helpers | Sets of numbers in order and sequences without some elements, defined by what they are, so that proofs can reason about them. `AsyncCalls`, `JobQueue` and `Dagda` use it. |
| `RWLockProofs`, `SeDProofs`, `FindServerProofs`, `AsyncCallsProofs`, `OrderingProofs`, `MultiWfProofs`, `DagdaProofs`, `FloodingProofs` | - | Theorems and proofs. |
| `MCSeD`, `MCFindServer`, `MCLocalAgent`, `MCDagda`, `MCFlooding`, `MCMultiWf` | - | Constants for TLC. |

Composition: `SeD` drives the access controller and the job queue, and is proved
to implement the controller's own specification. `FindServer` runs requests
against an agent whose children change. `AsyncCalls` takes from `RWLock` what was
found there: writers exclude each other, readers do not wait for writers. Its
reader sections are therefore actions that need no lock.

Definitions whose comment begins with "Mutant" are plausible bugs of the code next
to them. They are used only to show that the properties can fail.

### Modelling decisions

* Assertions of the agent are compiled in, as in the default build; a failed one
  sets `crashed`. Touching a freed request, or leaving an array, is undefined
  behaviour: the model sets `crashed`, or takes one of the outcomes.
* `findServer()` is the build without `HAVE_ALT_BATCH`.
* A `std::vector::push_back` under a read lock by two threads (`wait_any`) may
  lose one of the two, or the process dies. So may a write past the end of the
  array that `wait_any` has made too short (`WaitAny`), or through a reference into
  a vector that has moved (`SetChild`).
* `deleteAllAsyncCall()` steps an erased iterator: it goes on, stops early or
  crashes.
* `Agent`: `sendRequest()` (`AgentImpl.cc:609`, `:648`) and `childUnsubscribe()`
  (`:244`) hold a reference to a vector entry, too, the first across its ping. That a
  `resize()` moves the entry under theirs is not modelled: the read of a freed entry
  would add causes to `AgentDiesOnlyWhen`.
* `ULongSize` stands for 2^32; 16 is enough for the wrap-around of a count that
  never exceeds 3.
* A child local agent answers as a SeD does: its own gathering is the same code.
* Remote calls may raise (a ping, a transfer, a callback); oneway calls may be
  lost.
* `LocalAgent`: one parent, so that `bindParent()` is an unsubscription and a new
  subscription at the same agent. `disturbed` is a history variable: it names the
  services whose calls overlapped in a way the code does not order (a removal with
  anything about the same service, two first subscriptions, a change of parent with
  any call), whose removal could not be told, or whose addition had no answer.
* `Dagda`: data are memory objects (vectors, matrices, strings); a byte is the
  number of the version it belongs to, so that a value mixed from two versions or
  not filled is told from a whole one. The entry that `map::operator[]` makes for
  an unknown identifier is an entry without description. A pointer into the map
  that a removal has erased gives any of the outcomes its use can have.
  `disturbed` is a history variable: it names the replicas that met a second
  writer, a removal under way, a broken source (the node itself, too, when it removed
  what it had offered) or a use of an entry that `getData()` made; no lock protects
  them from these.
* `Flooding`: `FloodRequestsList::get()` polls until the object is there (its
  counter `lp` is never stepped), so a handler that needs it waits in `msgs`. A
  thread that waits on an object `stopFlooding()` has deleted goes on with what it
  finds there, or the process dies. The identity of the request is left out, since
  there is one; a second FloodRequest of the same agent for it is a second object.
* `MultiWf`: the priorities that order a queue are left out, any node of it may be
  the first. Two threads in one `std::list` tear it (`Tear`): nodes are lost from it,
  or the process dies; a counter that two threads change loses one of the changes.
  What else is undefined (a deleted dag or queue, a node listed twice, a `std::map`
  that one thread changes while another uses it) and an exception that leaves the
  scheduler thread end the behaviour, and `died` says how. `faults` is a history
  variable that says what went wrong for each dag.

## 3. Runs

"Pass" runs have no error. "Violation" runs check one sentence the repository
states and TLC refutes (section 5).

| Run | Module / cfg | Shows |
|---|---|---|
| `rwlock` | `RWLock` / `RWLock.cfg` | Three threads, two operations each: a writer finds the lock empty, the counters count the holders, a sleeping writer has somebody to wake it, everybody finishes. Deadlock is checked. |
| `rwlock_readers` (violation) | `RWLock` / `RWLockReaders.cfg` | A reader enters beside a writer. |
| `sed_solve` | `MCSeD` / `MCSeD.cfg` | Two requests on any of the four entry points, one slot, a failure and two changes of the table: the limit, slots given back, the books of the controller, counter, map and list of the job queue, the right solver, termination, and the controller inside the SeD implements `Slots`. |
| `async_two_threads` | `AsyncCalls` / `AsyncCalls.cfg` | Two threads that wait for both of two requests, or for any, while these finish or are cancelled: every wait returns, no dangling rule, only a shared request can block, and `wait_any` waits for all that are open and returns each once, but for the named races. |
| `async_errors` | `AsyncCalls` / `AsyncCallsErrors.cfg` | One thread in any of the five kinds of wait, with a refused and a failing request, exceptions, losses, cancellations and finalize, through both interfaces: each failure is queued as often as its code is set, no thread sleeps on a rule that is due, and success means a stored result. That the last two hold for more threads is proved. |
| `agent_children` | `MCFindServer` / `AgentChildren.cfg` | A local agent and a SeD come, change, leave and come back during a request and a fault: the table says what children offer, and the request returns. |
| `agent_requests` | `MCFindServer` / `AgentRequests.cfg` | Two SeDs that subscribe together while the vector moves, two requests: listed children are reachable, responses are gathered, assertions hold, but for the named races. |
| `local_agent` | `MCLocalAgent` / `LocalAgent.cfg` | Two SeDs that share services come, change, leave and come back, the parent changes, two calls to it raise: at rest the two tables agree, and the parent's other child keeps its services, but for the named overlaps and losses. |
| `dagda` | `MCDagda` / `Dagda.cfg` | Two calls among IN, INOUT and remove on two SeDs, with a memory limit, evictions and one crash: parameters are read whole, the memory is counted, updates reach each replica, mutexes come back and calls end but for the named cases. |
| `flooding` | `MCFlooding` / `Flooding.cfg` | One search in three networks, timeouts that fire at any time, one crash: an undisturbed search is complete, counts right and leaves nothing behind, nobody waits on a deleted object, and the client's call returns. |
| `flooding_assert` (violation) | `MCFlooding` / `FloodingAssert.cfg` | In a ring, `assert(requestAdded)` fails. |
| `workflow` | `MCMultiWf` / `MultiWf.cfg` | Dags of two or three nodes or two dags of one, the basic and the general scheduler, failures, failed submissions, servers that are gone and cancellations: order of the nodes, finality of the release, termination, and the causes for which the agent may die or deadlock. |

Exceptions in the properties ("unless the table changed under the request", "unless
a download threw", `disturbed` in `LocalAgent` and `Dagda`, `Undisturbed` in `Flooding`, `Pending` and
`Causes` in `MultiWf`) are not there for convenience: TLC finds a behaviour that
violates the property without it. They name the races the code has. Where a property
says only that a race is the one cause of a failure, it does not show that the failure
cannot happen: the notes of the hazards in `PROJECT.json` say where this is so.
`stale` is reached in `agent_requests`, not in `agent_children`. Three exceptions need
a larger instance than the run's: that a failed submission leads to the use of a freed
node is reached with the dag of three parallel nodes under `SameDag`; that two returns
of one request make the counts of `wait_any` disagree, with two waits per thread
(`MaxWaits` 2, `Operators` {"ANY"}); `disturbed` in `UpdatesReachAll` by no instance
that we have tried: it is what the proof needs (section 4).

### Bounds

* `RWLock`: three threads make a holder, a sleeper and a passer-by; two
  operations each let a thread come back to a lock it left with sleepers.
* `SeD`: two requests on one slot make one wait during every step of the other;
  the controller's own properties are proved for every number of threads and slots;
  one failure (`MaxFailures`) and two table changes (`MaxChanges`) are enough to
  remove a service before and after a lookup and to add it again.
* `AsyncCalls`: a rule of two requests tells and from or; two threads share a
  request or do not, and one wait each (`MaxWaits`) lets the second in `wait_any` see
  what the first left. The run of errors has one thread, one request that may be
  refused (`MaxRefused`), one that fails and one loss (`MaxLost`): the errors of one
  request meet the waits on the other. It has every kind of wait and two interfaces; the
  run of two threads has the third interface, two kinds of wait and one way to cancel
  (`API`, `Operators`, `Cancels`).
* `Agent`, `FindServer`: three subscriptions (`MaxSubs`) let a child come back
  beside another one; one change and one fault (`MaxChanges`, `MaxFaults`) reach
  every named race. With two requests one finds a child dead while the other asks
  it.
* `LocalAgent`: two SeDs that begin with one service and may add a second, both of
  which the parent's other child has. They are symmetric, and the run has invariants
  only, so TLC takes two states that differ by a swap of them as one (`SameSeDs`).
  Five calls (`MaxCalls`) let one leave beside the other, come back and change, with
  a change of parent between; two calls to the parent raise (`MaxFaults`), so that a
  change of parent may fail in both its halves.
* `Dagda`: two data of sizes 2 and 1 with blocks of one byte (`MaxMsgSize`) make a
  transfer that another call meets half-way; a limit of 2 or 3 bytes makes the second
  datum evict the first; replicas at the root and on one SeD make the sources, the
  updates and a transfer in each direction. One crash can hit a source, a
  destination or the node of a call. The calls (`CallsOf`) are those whose pairs make
  two transfers to one node, two removals, an update beside a use, an eviction, a
  removal or another update. TLC's liveness check takes most of the time, and an update
  from `sedA` of the datum with two blocks, beside another call that transfers it,
  has more states than all these pairs together: the one that updates at `sedA` is the
  datum with one block. The four invariants are proved for all calls, `CallsEnd` is not.
* `Flooding`: three agents make a path (the origin reaches the last through the
  middle), a fork (two neighbours, one of which asks the other again) and a ring
  (the flood comes back). Two or three hops (`MaxHops`) stand for the code's 8:
  enough for a flood to begin, to be continued by `newFlood()` and to give up. Two
  objects per agent (`MaxObjects`) let the origin meet its own request.
* `MultiWf`: six dags of one to three nodes. Two predecessors of one node race (`d1`);
  a push of a launcher meets a pop of the scheduler (`d5`); a cancellation of
  `Cancellable` dags meets a chain (`d2`) and two parallel nodes (`d6`); two dags share
  the servers and the scheduler (`d3`, `d4`). The schedulers are the basic one with
  `d1`, `d2` and `d5`, the general one with platform "any" and policy "node" for the
  dags that compete for servers, and with platform "same" and policy "dag", where ready
  nodes are left for a later round, for those that are cancelled. The other
  combinations are left out for the time that the liveness check takes;
  `StartsInOrder`, `ReleaseIsFinal` and `LocksExplained` are proved for them too. Two
  launchers that push different nodes on to one ready queue need four nodes, and no
  run has them; a launcher and the scheduler tear the same list.

Deadlock checking is off where the system may stop: all clients done, a process
that died, or a bound reached.

### Fairness

Weak fairness only, for threads that can run: the operating system schedules
them, and a `post` or a `signal` makes the sleeper runnable.

* `RWLock`, `AccessController`, `SeD`: each thread's own steps; a solver that
  runs ends. Failures, table changes and wake-ups without a signal are not forced.
* `AsyncCalls`: each waiting thread, each call under way and its callback
  (a SeD that has a request answers it), and `release` once it is due. Starting,
  cancelling and losing are not forced.
* `FindServer`: one condition, some thread that can get on does. Every thread has
  finitely many steps, so it implies fairness for each of them, and it keeps TLC's
  liveness check small.
* `Dagda`: each thread's next step, wherever it runs. Calls are not forced to begin
  and nothing is forced to crash.
* `Flooding`: only the thread of the client's call. Its waits are timed, so it
  returns whatever the other agents do; their handlers need no fairness.
* `MultiWf`: the scheduler thread, the remote call that holds `myLock`, and the
  launchers; a launcher has finitely many steps, so that one condition for all of them
  is fairness for each. The client executes a node or fails to. Nobody is forced to
  submit or to cancel a dag, and no list is forced to tear.

## 4. Proofs

All theorems hold for every value of the constants that satisfies the named
assumptions (`...Assumption` in the module that declares the constants): any
number of threads, requests, services, and any bound.

**`RWLockProofs`**: `WritersExclude`, `CountersCountHolders`, `NoWakeupLost`,
`WriterEntersEmptyLock`. The inductive invariant `IInv` joins the type, the
holder count, writer exclusion and "a sleeper has a holder". None of the parts
is inductive alone: `unlock()` decides by the counters which role the caller
has, so exclusion needs the count. The set of threads is finite.

**`SeDProofs`**, first the controller alone: `BooksAgree`, `LimitHolds`,
`SelfTestsSilent`, `RefinesSlots`. `ACInv` is the type and `BooksHold`: semaphore plus
threads past it is the limit, and `numFreeSlots`, `numWaiting` count threads by
position. A lemma (`Move`) says how the cardinalities change when one thread changes
place; every action is an instance of it. The refinement maps the holders to the
threads past the semaphore.

Then the SeD: `SeDUsesController` (the SeD implements the controller's
specification, because each of its actions is an action of the controller or
leaves it alone), `SolvesLimited`, `SlotsNotLeaked`. `SeDInv` adds to `ACInv` the
link between where a request is in `solve()` and where its thread is in the
controller. `RightSolver` and `DeathsAreExplained` rest on `ServiceInv`: the index
that `lookupService()` returned names the service of the request unless an entry at
or before it was removed, and a request that has not run yet has not run a wrong
solver. `QueueStaysConsistent` rests on `JobInv`, which says for each place in
`solve()` what the map, the counter and the list hold for the request. It has the
hypothesis `IdsAreOwn` (no two requests of the SeD have the same identifier), which
one master agent guarantees by numbering them, and a federation does not
(section 5).

**`AsyncCallsProofs`**: `SleepersArePosted` and `RulesAreAlive`, the two facts
that make the wait rules safe, for any number of requests and threads and with
cancellations, losses and failures. `RuleInv` adds to the two properties what they
rest on: a sleeping thread has an entry in `rulesIDs` for each of its requests
(so `notifyRst()` finds it); `used` is positive for each (so
`deleteAsyncCallWithoutLock()` does not skip the posts); these requests were
started before (so that registering a request, which resets `used`, never meets
a sleeper). There is one lemma per kind of step: a thread awake, a thread that
falls asleep or wakes, a request that moves on, a registration, a notification,
a cancellation. Three more invariants make what the client is told true:
`FailInv` (how often a failed request was handed out or is in `failedSessions`, by
what its error code is and whether `set_req_error()` is still to come) for
`FailuresAreReported`; `StoredInv` (a request that is DONE has its result, or its
callback is between the status and the download, or the download threw) for
`DoneIsTrue`; `SpinInv` for `LoopsWhenShared`.

**`FindServerProofs`**, for any local agents, SeDs, services and requests:
`TableAgrees`, `ListedReached`, `GathersAll`, `DiesExplained`. The invariant has a part
for each piece of state that another thread may change between two steps.

* `KidInv`: a number is given to one child, which asks `resize()` for more than it.
* `TableInv`: a service has one entry, a child is in it once, `nb_children` is never
  less than what is listed and is exact as long as no service was removed for a child
  not listed; what is listed is offered by a subscribed child, and what is offered is
  listed while the mutex can be taken.
* `VectInv`: a number has no entry but that of its child, in the vector of its kind,
  from `SetChild()` until the child leaves or is dropped, or from nowhere on when its
  reference was `stale`.
* `ReachInv`: what is listed has an entry. It needs the three before: a number that is
  listed is a subscribed child's, which keeps its entry.
* `StillInv`: for a request under which the table has kept still, the copied list is
  what the table says, each contacted child has one call or one response, and a thread
  that waits counts no fewer responses than are to come. So no response finds a request
  that is gone or expects none.
* `CountInv`: the counters of the vectors are the numbers of their entries, so their
  assertions hold.

The table is a sequence that the loops of `addServices()` and `childUnsubscribe()`
change. The models write these as functions on 0 .. n, defined by their value for the
number before; the proofs find that such a function exists, and what holds after n
services, by the least n for which it would not.

**`OrderingProofs`**: what the two operators of `Ordering` return, by the one form
of induction that is in reach: a nonempty set of numbers has a least element. The
`SelectSeq` and `SetToSortSeq` that the models used before are recursive, and of those
nothing can be proved.

**`MultiWfProofs`**, for any dags, nodes and schedulers: `NodesStartInOrder`,
`ReleasesAreFinal`, `LocksAreExplained`. The steps of the scheduler thread are sorted
by what they do to a node (take it from a queue, give it back, start it, or none of
these), and those of remote calls and torn lists by what they leave alone, so that each
layer of the invariant is proved for a few kinds of steps. The layers are the types;
the places of a node, in at most one of the queues, the scheduler's hands and a
launcher; the order, where the count of a node is never less than the predecessors that
have not been taken off it, so that a lost decrement makes it too large, never too
small; the release, why a dag on `myDagsTermList` has come to rest, and that it stays
so; the locks, where a launcher that cancels its dag is the one that holds
`Dag::myLock`, and nobody has listed the dag but `cancelDag()`. The nodes are finitely
many.

**`DagdaProofs`**, for any tree of SeDs, any data, threads and crashes.
`LocksComeBack` rests on `LockInv`: each owner of a mutex is at a place of its walk
or its transfer from which it unlocks, or on one of the two paths that the property
names. `SolversReadWhole` rests on `ReadInv`: for a replica that nothing has disturbed,
one thread at most is at work on it, its status tells whether its bytes are whole, and
a transfer in the middle has a prefix of one version. `LockInv` alone is not enough for
it, because a pointer into the map outlives the lock. `SpaceAddsUp` rests on `SpaceInv`:
while a node is undisturbed and no process has crashed, `usedMemSpace` is the size of the
data that are whole and not being transferred, and of those whose buffer a solver has
(`Counted`), for a replica is counted only after its last block and a solver gives its
buffer back without counting it. It needs `FlowInv`, where a call stands in its frames,
to know that only calls with a parameter solve, and that the data are finitely many.
`UpdatesArrive` rests on `UpdateInv`: while no process has crashed, no child has left
the root's map, so that the walk meets every SeD; each data manager that it has been at
(`Covered`) has the new version or no replica, since an add copies it from the node that
wrote it and ends by counting what it has recorded; and a step elsewhere changes only
the replica of its own datum, or removes one, which counts as a disturbance when a
thread is at work on it. The proof showed that
`disturbed` missed cases that a run with two calls cannot reach: a transfer whose
source is an entry that `getData()` made, or the node itself, which had offered the
datum before it was removed. Both are in the model now.

**`FloodingProofs`**, in every network, for any number of agents, hops and crashes:
`WaitersAreSafe` and `CountsAreOutstanding`. The invariant, `Books`, holds
while no wait has given up and the flood has not come back to the origin. Between two
agents one thing at a time is under way (a request, its answer, or a thread in
`newFlood()`), and only as long as the one that asked floods. An agent counts a set of
agents, `Due`, that has all for which something is under way, and exactly these when
nothing has crashed. What an agent has flooded belongs to it (`Mine`): the agent there
has a live object for it, and nobody else will tell it to stop. Then a `stopFlooding()`
meets an agent without a thread, since an agent that is stopped counts nothing, and
one that counts nothing has nothing under way. `CountsAreOutstanding` counts the three
kinds of things by the agents at their other end. The master agents are finitely many.

What the theorems assume of the constants is what TLC evaluates in every run, and no
more than the code has: finite sets of threads, nodes or agents where something counts
them; `SeDOrder`, the order in which a tree is walked, is a sequence of the SeDs;
sizes of data and blocks are positive; a name for "nobody" is the name of no one.

Four theorems have no run of their own: `SelfTestsSilent` follows from `BooksHold`,
which `sed_solve` checks; `WritersExclude` is implied by `WriterEntersAlone`,
`LimitHolds` by `ImplementsSlots`, and `LocksAreExplained` by `StopExplained`.

Only model-checked:

* every liveness property, since fairness is out of the prover's reach;
* `SearchComplete` and `AllForgotten` of `Flooding`, which need an induction along the
  chains of agents (`Reach` is recursive);
* `ParentAgrees` of `LocalAgent`, which needs the lemmas of `FindServerProofs` on a
  table for two tables and for the calls between them;
* the `wait_any` properties of `AsyncCalls`;
* the first half of `StopExplained` of `MultiWf`, `DeathExplained`: that a death has one
  of the named causes is a case analysis over every pair of threads in every queue. Its
  other half, `LocksExplained`, is proved.

## 5. What disagrees with the repository

Two runs refute what the code says of itself; `findings` in `PROJECT.json` quotes
it.

1. `ReadersWriterLock.hh:43`: `readLock()` tests `writer_count`, which nothing
   increments, so readers do not wait for writers. Writers do wait for readers,
   and exclude each other (proved).
2. `MasterAgentImpl.cc:261`: `submit()` does not enter its own request in
   `reqIdList`; a flood that comes back to the agent is a new search for it, and
   `assert(requestAdded)` fails.

Met on the way, with no run of its own; most are exceptions that a property names
or hazards of `PROJECT.json`:

* `deleteWaitRule()` searches by request until nothing is found and erases only
  its own entries: with two threads waiting for one request it never ends, and
  keeps the write lock (`CallAsyncMgr.cc:359`, `SpinsOnlyWhenShared`).
* `notifyRst()` overwrites the status CANCEL of a rule with DONE
  (`CallAsyncMgr.cc:443`).
* `notifyRst()` sets the status DONE before it downloads the result
  (`CallAsyncMgr.cc:425`), and readers do not wait: `wait_or` and `wait_any` may return
  a request whose result is not there yet.
* `CallbackImpl::solveResults()` sets the error code after the waiters were woken.
* `diet_call_async()` stores the code of a refused submission a second time
  (`DIET_client.cc:706` after `DIETCall.cc:289`), so `get_failed_session` returns it
  twice; `set_req_error()` of a successful call may overwrite the code that the
  callback has set, and `grpc_call_async()` overwrites that of a refused one
  (`DIET_grpc.cc:601`).
* `findServer()` reads the number of children to wait for after it released the
  table (`AgentImpl.cc:459`).
* `rmChildService()` warns when the child is not listed and goes on
  (`ServiceTable.cc:391`).
* `ts_vector::operator[]` returns a reference that outlives its lock: a subscription
  may write its entry where the vector was before another one resized it, and its
  child is listed but cannot be reached (`AgentImpl.cc:180`, `:212`).
* Master agents of a federation number requests independently, so two jobs in one
  SeD may share an identifier (`JobQueue.cc:35`).
* `FloodRequestsList::get()` "waits a maximum of one second", but never steps its
  counter and waits for ever (`FloodRequestsList.cc:46`).
* `searchService()` looks its caller up by the bind name, where agents are registered
  under their own names (`MasterAgentImpl.cc:501`).
* `updateRefs()` keeps the mutex of `MAIds` across `handShake()`, which needs that of
  the other agent (`MasterAgentImpl.cc:422`).
* `sendData()` keeps its `dataMutex` across the remote `recordData()`: two transfers
  in opposite directions block each other, and a destination that dies leaves the
  mutex locked (`DagdaImpl.cc:381`).
* `lvlUpdateData()` leaves with `childrenMutex` locked on the exceptions it does not
  catch (`DagdaImpl.cc:828`).
* A look-up of an identifier removed meanwhile makes an empty entry that counts as
  present (`AdvancedDagdaComponent.cc:62`).
* `cancelDag()` during the release of its dag lists the dag again after duplicates
  were removed, and `getDag()` throws out of the scheduler thread
  (`MultiWfScheduler.cc:780`), although `handlerDagDone()` "can handle several calls
  for the same dag".
* Two SeDs that leave a local agent together both tell its parent that their common
  service is gone; the second call takes it from another child of the parent
  (`LocalAgentImpl.cc:341` with `ServiceTable.cc:391`). Two that come first together
  subscribe the agent twice (`LocalAgentImpl.cc:297`). So does an `agentSubscribe()`
  whose reply is lost (`LocalAgentImpl.cc:308`): the agent does not learn its number.
* A list of nodes and its counter have no lock, although launchers, cancellations and
  the scheduler change them together (`NodeQueue.cc:86`, `:110`, `:120`); a lost count
  deletes queues that still hold a node.
* `resolve()` of a server that is gone throws out of the scheduler thread, which keeps
  `myLock` (`MultiWfScheduler.cc:350`); `releaseDag()` erases from `myDags` without it
  (`:852`); a client manager that is not known leaves `MaDag::myMutex` locked
  (`MaDag_impl.cc:234`).
* `cancelDag()` of a dag of which nothing runs wakes nobody up
  (`MultiWfScheduler.cc:884`); a failed submission cancels the dag without listing
  it (`MultiWfScheduler.cc:330`); `prevNodesTodoCount--` has no lock
  (`DagNode.cc:872`).

## 6. Not modelled

`PROJECT.json` gives the reason for each part. In short:

* Data transformation without shared state: the profile API and argument parsing,
  estimation vectors, function handles, XML and expression evaluation of workflows,
  configuration, priorities and estimates of the workflow schedulers.
* I/O: job scripts of batch systems, log, CoRI, events, cloud back ends. The cloud
  back end (`utils/batch/EucaLib`) is generated SOAP code and alone more than a
  third of the implementation's lines; with the forwarders, the workflow language, the
  examples and the tests it is why the map covers a small share of the lines. What
  it covers is the part with shared state and concurrency.
* `removeElement()`, the recursive shutdown, which ends the process.
* Dagda: files (their sharing and disk limit), containers, scalars, replication
  rules, the put and get API and the saved state. A scalar is an entry of fixed size
  without a transfer of its own; files go through the same `lclAddData()` with the
  bytes on disk.
* Federation: how agents find each other (`updateRefs()`, `handShake()`, the bind
  service). The links are constants, and a link in one direction only stands for one
  that the other side has dropped.
* Workflow agent: metadags, `stop()`, and the client's own manager.
* Synchronous calls keep no state in the client.

Places where these parts can go wrong, for whoever models them: `JobQueue.cc:192`
(with no processor the estimation dereferences the end of a map);
`CallAsyncMgr.cc:230` (two threads in `wait_any` may return the same request, the
lock is held for reading only); `DagdaImpl.cc:1059` (`lvlGetDataDesc()` unlocks
`childrenMutex` twice); `AdvancedDagdaComponent.cc:263` (`shareData()` retries a
child that refuses a file for ever); `MultiWfScheduler.cc:867` (a metadag is deleted
whose pointer is kept); `DagNode.cc:248` (a predecessor in another dag that ends
between the test and the link); `AgentImpl.cc:609` and `:648` (a reference to a vector
entry across a ping, section 2).

## 7. Plan

In the order of importance.

1. **Proofs**: `ParentAgrees` of the local agent, with the lemmas of `FindServerProofs`
   on tables; `DeathExplained` of the workflow agent.
2. **Schedulers**: aggregation and sorting as operators against a sorted reference.
3. **Client and SeD composed**: `AsyncCalls` with the answers of `SeD`, so that a
   SeD that returns without a callback (`SeDImpl.cc:855`) is seen by the wait.
4. **Metadags and the client's workflow manager.**
