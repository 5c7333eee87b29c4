-------------------------------- MODULE Dagda --------------------------------
(***************************************************************************)
(* The data managers of a DIET platform: one Dagda object beside the root  *)
(* agent, one beside every SeD and one in the client, which calls on       *)
(* several threads make exchange replicas (DagdaImpl.cc,                   *)
(* AdvancedDagdaComponent.cc, the parameter handling of DIET_Dagda.cc).    *)
(*                                                                         *)
(* Data are memory objects (vectors, matrices, strings) of Size[d] bytes;  *)
(* a byte is the number of the version it belongs to, 0 when it is not     *)
(* initialised.  A call runs in the frames of several processes one after  *)
(* the other: call[t] says who called what, walk[t] is the frame of a      *)
(* search through the tree at the root, add[t] the frame of lclAddData()   *)
(* and of the sendData() it causes.  Files and containers are left out.    *)
(***************************************************************************)
EXTENDS Integers, Sequences, FiniteSets, Ordering

CONSTANTS
  Root, Client,  \* the data managers of the root agent and of the client
  SeDOrder,      \* the SeDs, in the order of the names in the children map
  Data, Size,    \* the data identifiers, and how long each datum is
  MaxMsgSize,    \* the bytes that one recordData() carries
  MemMax,        \* memMaxSpace of every data manager, 0 for no limit
  Evicts,        \* whether a cache algorithm is configured
  Thread,        \* the threads that call
  NoThread,      \* the owner of a free mutex
  Calls,         \* Calls[t]: the calls <<op, n, d>> that t may make: a solve on n
                 \* with an "IN" or "INOUT" parameter d, or a "remove" at the root
  Placed,        \* the replicas <<n, d>> that earlier calls have left
  MaxCrashes     \* bound on the SeDs that crash

SeDs == {SeDOrder[i] : i \in DOMAIN SeDOrder}
Node == SeDs \cup {Root, Client}

ASSUME DagdaAssumption ==
  /\ MaxMsgSize \in Nat \ {0}
  /\ MemMax \in [Node -> Nat]
  /\ Data # {} /\ IsFiniteSet(Data) /\ Size \in [Data -> Nat \ {0}]
  /\ SeDOrder \in Seq(SeDs)
  /\ {Root, Client} \cap SeDs = {} /\ Root # Client
  /\ NoThread \notin Thread
  /\ \A t \in Thread : Calls[t] \subseteq ({"IN", "INOUT"} \X SeDs \X Data)
                                         \cup ({"remove"} \X {Root} \X Data)
  /\ Placed \subseteq (SeDs \cup {Root}) \X Data

VARIABLES
  data,           \* data[n]: the map from identifiers to stored data
  status,         \* status[n][d]: dataStatus, "ready" when never set
  usedMem,        \* usedMem[n]: usedMemSpace
  dataMutex,      \* dataMutex[n]: the thread that owns it
  childrenMutex,  \* the owner of the root's childrenMutex
  children,       \* the children map of the root
  alive,          \* alive[n]: the process runs
  pc, call, walk, add,
  read,           \* read[t]: the bytes that the solver was given
  dangling,       \* threads whose pointer "inserted" was erased from its map
  disturbed       \* history: <<n, d>> that met what nothing protects it from:
                  \* a second writer, a removal under way, a broken source,
                  \* a use of an entry that getData() made

store == <<data, status, usedMem>>
locks == <<dataMutex, childrenMutex>>
frames == <<call, walk, add>>
platform == <<children, alive>>
history == <<read, dangling, disturbed>>
vars == <<store, locks, platform, pc, frames, history>>

------------------------------------------------------------------------------
(* One data manager *)

\* Mutant: an entry counts as present while it is downloaded.
AnyEntryPresent(n, d) == d \in DOMAIN data[n]

isDataPresent(n, d) == d \in DOMAIN data[n] /\ status[n][d] = "ready"

\* A stored datum: whether the entry has a description, and its bytes. The
\* entry that map::operator[] makes for an unknown identifier has none.
Entry(desc, value) == [desc |-> desc, value |-> value]
Store(n, d, e) == [data EXCEPT ![n] = [x \in DOMAIN data[n] \cup {d} |->
                                         IF x = d THEN e ELSE data[n][x]]]
Lookup(n, d) == IF d \in DOMAIN data[n] THEN data
                                        ELSE Store(n, d, Entry(FALSE, <<>>))
Erase(n, d) == [data EXCEPT ![n] = [x \in DOMAIN data[n] \ {d} |-> data[n][x]]]
SetStatus(n, d, s) == [status EXCEPT ![n][d] = s]

CanLock(n) == alive[n] /\ dataMutex[n] = NoThread

\* Mutant: a removal frees nothing.
FreeNothing(n, size) == usedMem

freeMemSpace(n, size) ==
  [usedMem EXCEPT ![n] = IF usedMem[n] < size THEN 0 ELSE usedMem[n] - size]

\* The threads that are between addData() and the last use of the pointer it
\* returned, for datum d of node n: lclAddData() and dagda_upload_data().
Writers(n, d) ==
  {t \in Thread : /\ call[t].dat = d
                  /\ \/ pc[t] \in {"getsrc", "sendLock", "block", "unlock", "count"}
                        /\ add[t].dest = n
                     \/ pc[t] \in {"replace", "uploaded"} /\ call[t].node = n}

\* The solvers that own the buffer of an INOUT datum, which the map still
\* lists as ready but without its bytes.
Borrowers(n, d) ==
  {t \in Thread : /\ pc[t] = "solve" /\ call[t].op = "INOUT"
                  /\ call[t].node = n /\ call[t].dat = d}

\* The threads that know the datum to be there and have not yet looked it up.
Users(n, d) ==
  {t \in Thread : pc[t] = "use" /\ call[t].node = n /\ call[t].dat = d}

AtWork(n, d) == Writers(n, d) \cup Borrowers(n, d) \cup Users(n, d)

Disturb(n, d, bad) ==
  disturbed' = IF bad THEN disturbed \cup {<<n, d>>} ELSE disturbed

addData(t, n, d) ==
  /\ CanLock(n)
  /\ data' = Store(n, d, Entry(TRUE, <<>>))
  /\ status' = SetStatus(n, d, "downloading")
  /\ dangling' = dangling \ {t}
  /\ Disturb(n, d, \/ AtWork(n, d) \ {t} # {}
                   \/ d \in DOMAIN data[n] /\ data[n][d].value # <<>>)

\* The status of the identifier is not erased with the entry.
remData(t, n, d) ==
  /\ CanLock(n)
  /\ IF d \in DOMAIN data[n]
       THEN /\ usedMem' = freeMemSpace(n, Len(data[n][d].value))
            /\ data' = Erase(n, d)
            /\ dangling' = dangling \cup Writers(n, d)
            /\ Disturb(n, d, AtWork(n, d) \ {t} # {})
       ELSE UNCHANGED <<usedMem, data, dangling, disturbed>>
  /\ UNCHANGED status

------------------------------------------------------------------------------
(* The beginning of a call *)

Over == {"idle", "done", "failed", "dead"}

Start(t) ==
  /\ pc[t] = "idle"
  /\ \E c \in Calls[t] :
       /\ alive[c[2]]
       /\ call' = [call EXCEPT ![t] = [op |-> c[1], node |-> c[2], dat |-> c[3],
                                       up |-> FALSE]]
       /\ pc' = [pc EXCEPT ![t] = IF c[1] = "remove" THEN "root" ELSE "lcl"]
  /\ UNCHANGED <<store, locks, platform, walk, add, history>>

Begin(t, why) ==
  /\ walk' = [walk EXCEPT ![t] = [why |-> why, todo |-> <<>>, found |-> <<>>]]
  /\ pc' = [pc EXCEPT ![t] = "root"]

\* lclAddData(src, d) on node dest, which comes back to ret
CallAdd(t, dest, src, ret) ==
  /\ add' = [add EXCEPT ![t] = [dest |-> dest, src |-> src, ret |-> ret,
                                blk |-> 0, retried |-> FALSE]]
  /\ pc' = [pc EXCEPT ![t] = "add"]

\* What follows a search that found the datum, or did not.
Present(t, found) ==
  LET c == call[t] IN
  CASE c.op = "remove" /\ found   -> Begin(t, "remove") /\ UNCHANGED add
    [] c.op = "remove" /\ ~found  -> /\ pc' = [pc EXCEPT ![t] = "done"]
                                     /\ UNCHANGED <<walk, add>>
    [] c.op # "remove" /\ c.up    -> IF found THEN Begin(t, "update") /\ UNCHANGED add
                                     ELSE /\ pc' = [pc EXCEPT ![t] = "done"]
                                          /\ UNCHANGED <<walk, add>>
    [] c.op # "remove" /\ ~c.up   -> IF found THEN Begin(t, "managers") /\ UNCHANGED add
                                     ELSE CallAdd(t, c.node, Client, "use")
                                          /\ UNCHANGED walk

\* pfmIsDataPresent() on the SeD looks at its own map first.
LclPresent(t) ==
  LET n == call[t].node IN
  /\ pc[t] = "lcl" /\ CanLock(n)
  /\ IF isDataPresent(n, call[t].dat)
       THEN Present(t, TRUE)
       ELSE Begin(t, "present") /\ UNCHANGED add
  /\ UNCHANGED <<store, locks, platform, call, history>>

------------------------------------------------------------------------------
(* The walk of the root over its own map and over those of its children,   *)
(* with childrenMutex held: lvlIsDataPresent(), lvlGetDataManagers(),      *)
(* lvlRemData() and lvlUpdateData().                                       *)

VisitRoot(t) ==
  LET w == walk[t]
      d == call[t].dat
      here == isDataPresent(Root, d)
      Lock == pc' = [pc EXCEPT ![t] = "lock"]
  IN
  /\ pc[t] = "root" /\ CanLock(Root)
  /\ CASE w.why = "present" ->
            /\ IF here THEN Present(t, TRUE) ELSE Lock /\ UNCHANGED <<walk, add>>
            /\ UNCHANGED <<store, history>>
       [] w.why = "managers" ->
            /\ Lock
            /\ walk' = [walk EXCEPT ![t].found = IF here THEN <<Root>> ELSE <<>>]
            /\ UNCHANGED <<store, add, history>>
       [] w.why = "remove" ->
            Lock /\ remData(t, Root, d) /\ UNCHANGED <<walk, add, read>>
       [] w.why = "update" ->
            /\ IF here /\ call[t].node # Root
                 THEN /\ add' = [add EXCEPT ![t].dest = Root, ![t].ret = "lock"]
                      /\ pc' = [pc EXCEPT ![t] = "refresh"]
                 ELSE Lock /\ UNCHANGED add
            /\ UNCHANGED <<store, walk, history>>
  /\ UNCHANGED <<locks, platform, call>>

\* Mutant: the loop over the children stops one too early.
LockButLast(t) ==
  /\ pc[t] = "lock" /\ alive[Root] /\ childrenMutex = NoThread
  /\ childrenMutex' = t
  /\ walk' = [walk EXCEPT ![t].todo =
       Only(SubSeq(SeDOrder, 1, Len(SeDOrder) - 1), children)]
  /\ pc' = [pc EXCEPT ![t] = "child"]
  /\ UNCHANGED <<store, dataMutex, platform, call, add, history>>

LockChildren(t) ==
  /\ pc[t] = "lock" /\ alive[Root] /\ childrenMutex = NoThread
  /\ childrenMutex' = t
  /\ walk' = [walk EXCEPT ![t].todo = Only(SeDOrder, children)]
  /\ pc' = [pc EXCEPT ![t] = "child"]
  /\ UNCHANGED <<store, dataMutex, platform, call, add, history>>

NextChild(t) == walk' = [walk EXCEPT ![t].todo = Tail(walk[t].todo)]

VisitChild(t) ==
  LET w == walk[t]
      c == Head(w.todo)
      d == call[t].dat
  IN
  /\ pc[t] = "child" /\ w.todo # <<>> /\ alive[Root] /\ CanLock(c)
  /\ CASE w.why = "present" /\ isDataPresent(c, d) ->
            Present(t, TRUE) /\ childrenMutex' = NoThread
       [] w.why = "managers" ->
            /\ walk' = [walk EXCEPT ![t].todo = Tail(w.todo),
                                    ![t].found = IF isDataPresent(c, d)
                                                   THEN Append(w.found, c) ELSE w.found]
            /\ UNCHANGED <<pc, add, childrenMutex>>
       [] w.why = "remove" /\ isDataPresent(c, d) ->
            /\ pc' = [pc EXCEPT ![t] = "childRem"]
            /\ UNCHANGED <<walk, add, childrenMutex>>
       [] w.why = "update" /\ isDataPresent(c, d) /\ c # call[t].node ->
            /\ add' = [add EXCEPT ![t].dest = c, ![t].ret = "child"]
            /\ pc' = [pc EXCEPT ![t] = "refresh"]
            /\ NextChild(t)
            /\ UNCHANGED childrenMutex
       [] OTHER -> NextChild(t) /\ UNCHANGED <<pc, add, childrenMutex>>
  /\ UNCHANGED <<store, dataMutex, platform, call, history>>

ChildRem(t) ==
  LET c == Head(walk[t].todo) IN
  /\ pc[t] = "childRem" /\ alive[Root]
  /\ remData(t, c, call[t].dat)
  /\ NextChild(t)
  /\ pc' = [pc EXCEPT ![t] = "child"]
  /\ UNCHANGED <<locks, platform, call, add, read>>

\* Mutant: the iterator stays on the child that failed.
ChildFailsAgain(t) ==
  /\ pc[t] \in {"child", "childRem"} /\ walk[t].todo # <<>>
  /\ alive[Root] /\ ~alive[Head(walk[t].todo)]
  /\ children' = children \ {Head(walk[t].todo)}
  /\ pc' = [pc EXCEPT ![t] = "child"]
  /\ UNCHANGED <<store, locks, alive, call, walk, add, history>>

\* COMM_FAILURE and TRANSIENT: the child is erased from the map.
ChildFails(t) ==
  /\ pc[t] \in {"child", "childRem"} /\ walk[t].todo # <<>>
  /\ alive[Root] /\ ~alive[Head(walk[t].todo)]
  /\ children' = children \ {Head(walk[t].todo)}
  /\ NextChild(t)
  /\ pc' = [pc EXCEPT ![t] = "child"]
  /\ UNCHANGED <<store, locks, alive, call, add, history>>

\* The fastest source by the transfers measured so far: any of them.
getBestSource(t, managers) ==
  \E i \in DOMAIN managers : add' = [add EXCEPT ![t].src = managers[i]]

\* The walk ends: childrenMutex is unlocked, and the caller goes on.
EndWalk(t) ==
  LET w == walk[t] IN
  /\ pc[t] = "child" /\ w.todo = <<>> /\ alive[Root]
  /\ childrenMutex' = NoThread
  /\ CASE w.why = "present" -> Present(t, FALSE)
       [] w.why = "managers" /\ w.found = <<>> ->       \* DataNotFound
            pc' = [pc EXCEPT ![t] = "failed"] /\ UNCHANGED <<walk, add>>
       [] w.why = "managers" /\ w.found # <<>> ->
            /\ pc' = [pc EXCEPT ![t] = "lcl2"]
            /\ getBestSource(t, w.found)
            /\ UNCHANGED walk
       [] OTHER -> pc' = [pc EXCEPT ![t] = "done"] /\ UNCHANGED <<walk, add>>
  /\ UNCHANGED <<store, dataMutex, platform, call, history>>

\* The root's process is gone: who called it gets a communication failure.
RootFails(t) ==
  /\ pc[t] \in {"root", "lock", "child", "childRem"} /\ ~alive[Root]
  /\ pc' = [pc EXCEPT ![t] = "failed"]
  /\ UNCHANGED <<store, locks, platform, frames, history>>

\* dagda_download_data() looks again at its own map once it has a source,
\* and asks the source for the description.
LclPresentAgain(t) ==
  LET n == call[t].node IN
  /\ pc[t] = "lcl2" /\ CanLock(n)
  /\ pc' = [pc EXCEPT ![t] = IF isDataPresent(n, call[t].dat) THEN "use" ELSE "desc"]
  /\ UNCHANGED <<store, locks, platform, frames, history>>

GetDesc(t) ==
  LET s == add[t].src IN
  /\ pc[t] = "desc" /\ (CanLock(s) \/ ~alive[s])
  /\ IF alive[s] /\ isDataPresent(s, call[t].dat)
       THEN CallAdd(t, call[t].node, s, "use")
       ELSE pc' = [pc EXCEPT ![t] = "failed"] /\ UNCHANGED add
  /\ UNCHANGED <<store, locks, platform, call, walk, history>>

\* lclUpdateData() removes the replica and adds it again from the SeD that
\* has the new version.
Refresh(t) ==
  /\ pc[t] = "refresh"
  /\ remData(t, add[t].dest, call[t].dat)
  /\ CallAdd(t, add[t].dest, call[t].node, add[t].ret)
  /\ UNCHANGED <<locks, platform, call, walk, read>>

------------------------------------------------------------------------------
(* lclAddData() on add[t].dest, and sendData() on add[t].src *)

\* An exception leaves lclAddData(). The walk of an update erases the child
\* when it is a communication failure; any other leaves lvlUpdateData() with
\* childrenMutex locked.
Raise(t, comm) ==
  IF add[t].ret = "child" /\ comm
    THEN /\ pc' = [pc EXCEPT ![t] = "child"]
         /\ children' = children \ {add[t].dest}
    ELSE /\ pc' = [pc EXCEPT ![t] = "failed"]
         /\ UNCHANGED children

\* The check of the space reads usedMemSpace without its mutex. A source that
\* is the data manager itself has the datum no more when it was removed since
\* GetDesc().
CheckSpace(t) ==
  LET a == add[t]
      d == call[t].dat
      fits == MemMax[a.dest] = 0 \/ usedMem[a.dest] + Size[d] <= MemMax[a.dest]
  IN
  /\ pc[t] = "add" /\ alive[a.dest]
  /\ IF ~alive[a.src] THEN Raise(t, TRUE)
     ELSE IF a.src = a.dest THEN pc' = [pc EXCEPT ![t] = a.ret] /\ UNCHANGED children
     ELSE IF fits THEN pc' = [pc EXCEPT ![t] = "insert"] /\ UNCHANGED children
     ELSE IF Evicts /\ ~a.retried
            THEN pc' = [pc EXCEPT ![t] = "evict"] /\ UNCHANGED children
     ELSE Raise(t, FALSE)
  /\ Disturb(a.dest, d, a.src = a.dest /\ ~isDataPresent(a.dest, d))
  /\ UNCHANGED <<store, locks, alive, frames, read, dangling>>

\* LRU(), LFU() and FIFO() remove one datum that is large enough, whoever
\* uses it; they differ in which, so any of them may go.
Victims(n, d) ==
  LET needed == IF usedMem[n] + Size[d] > MemMax[n]
                  THEN Size[d] + usedMem[n] - MemMax[n] ELSE Size[d]
  IN {v \in DOMAIN data[n] : data[n][v].desc /\ Size[v] >= needed}

Evict(t) ==
  LET n == add[t].dest IN
  /\ pc[t] = "evict" /\ CanLock(n)
  /\ IF Victims(n, call[t].dat) = {}
       THEN /\ Raise(t, FALSE)
            /\ UNCHANGED <<store, add, dangling, disturbed>>
       ELSE /\ \E v \in Victims(n, call[t].dat) : remData(t, n, v)
            /\ add' = [add EXCEPT ![t].retried = TRUE]
            /\ pc' = [pc EXCEPT ![t] = "add"]
            /\ UNCHANGED children
  /\ UNCHANGED <<locks, alive, call, walk, read>>

Insert(t) ==
  /\ pc[t] = "insert"
  /\ addData(t, add[t].dest, call[t].dat)
  /\ pc' = [pc EXCEPT ![t] = "getsrc"]
  /\ UNCHANGED <<usedMem, locks, platform, frames, read>>

\* AdvancedDagdaComponent::sendData() begins with getData(), which locks
\* nothing and makes the entry when there is none.
GetSource(t) ==
  LET s == add[t].src IN
  /\ pc[t] = "getsrc" /\ alive[add[t].dest] /\ alive[s]
  /\ data' = Lookup(s, call[t].dat)
  /\ pc' = [pc EXCEPT ![t] = "sendLock"]
  /\ UNCHANGED <<status, usedMem, locks, platform, frames, history>>

\* DagdaImpl::sendData() keeps its own dataMutex for the whole transfer. The
\* size of an entry without a description is not initialised: the transfer
\* carries nothing and names no datum, so that nobody unlocks d.
SendLock(t) ==
  LET s == add[t].src
      d == call[t].dat
  IN
  /\ pc[t] = "sendLock" /\ CanLock(s)
  /\ \/ /\ \/ d \notin DOMAIN data[s]                  \* DataNotFound
           \/ status[s][d] = "downloading"             \* UnavailableData
        /\ Raise(t, FALSE)
        /\ UNCHANGED <<add, dataMutex, disturbed>>
     \/ /\ d \in DOMAIN data[s] /\ status[s][d] # "downloading" /\ data[s][d].desc
        /\ dataMutex' = [dataMutex EXCEPT ![s] = t]
        /\ add' = [add EXCEPT ![t].blk = 0]
        /\ pc' = [pc EXCEPT ![t] = "block"]
        /\ UNCHANGED <<children, disturbed>>
     \/ /\ d \in DOMAIN data[s] /\ status[s][d] # "downloading" /\ ~data[s][d].desc
        /\ pc' = [pc EXCEPT ![t] = add[t].ret]
        /\ Disturb(add[t].dest, d, TRUE)
        /\ UNCHANGED <<add, dataMutex, children>>
  /\ UNCHANGED <<store, childrenMutex, alive, call, walk, read, dangling>>

nBlocks(d) == Size[d] \div MaxMsgSize + 1

\* The bytes that block b of datum d covers, counted from 1.
Block(d, b) == {i \in 1 .. Size[d] : (i - 1) \div MaxMsgSize = b}

\* recordData() on the destination, which makes the entry again when it was
\* removed. The first block sizes the value, keeping the bytes it has.
Recorded(t, n, bytes) ==
  LET d == call[t].dat
      b == add[t].blk
      old == IF d \in DOMAIN data[n] THEN data[n][d].value ELSE <<>>
      Byte(i) == IF i \in Block(d, b) THEN bytes[i]
                 ELSE IF i <= Len(old) THEN old[i] ELSE 0
  IN Entry(TRUE, [i \in 1 .. Size[d] |-> Byte(i)])

\* A block other than the first is copied into the buffer the value has: the
\* process dies on one that was removed or handed to a solver meanwhile. A
\* source whose buffer is with a solver sends what it finds.
RecordData(t) ==
  LET s == add[t].src
      n == add[t].dest
      d == call[t].dat
      b == add[t].blk
      from == data[s][d].value
      bytes == IF from = <<>> THEN [i \in 1 .. Size[d] |-> 0] ELSE from
      nowhere == (d \notin DOMAIN data[n] \/ data[n][d].value = <<>>)
                   /\ b > 0 /\ Block(d, b) # {}
      missing == d \notin DOMAIN data[n]
  IN
  /\ pc[t] = "block" /\ alive[s] /\ b < nBlocks(d) /\ CanLock(n)
  /\ IF nowhere
       THEN /\ alive' = [alive EXCEPT ![n] = FALSE]
            /\ UNCHANGED <<data, status, add, disturbed>>
       ELSE /\ data' = Store(n, d, Recorded(t, n, bytes))
            /\ status' = IF missing THEN SetStatus(n, d, "downloading") ELSE status
            /\ add' = [add EXCEPT ![t].blk = b + 1]
            /\ Disturb(n, d, from = <<>> \/ <<s, d>> \in disturbed)
            /\ UNCHANGED alive
  /\ UNCHANGED <<usedMem, locks, children, pc, call, walk, read, dangling>>

\* Mutant: sendData() returns with dataMutex locked.
SentStillLocked(t) ==
  LET a == add[t] IN
  /\ pc[t] = "block" /\ alive[a.src] /\ alive[a.dest] /\ a.blk = nBlocks(call[t].dat)
  /\ status' = SetStatus(a.dest, call[t].dat, "ready")
  /\ pc' = [pc EXCEPT ![t] = "unlock"]
  /\ UNCHANGED <<data, usedMem, locks, platform, frames, history>>

\* dest->unlockData(), and dataMutex is unlocked at last.
Sent(t) ==
  LET a == add[t] IN
  /\ pc[t] = "block" /\ alive[a.src] /\ alive[a.dest] /\ a.blk = nBlocks(call[t].dat)
  /\ status' = SetStatus(a.dest, call[t].dat, "ready")
  /\ dataMutex' = [dataMutex EXCEPT ![a.src] = NoThread]
  /\ pc' = [pc EXCEPT ![t] = "unlock"]
  /\ UNCHANGED <<data, usedMem, childrenMutex, platform, frames, history>>

UnlockData(t) ==
  /\ pc[t] = "unlock" /\ alive[add[t].dest]
  /\ status' = SetStatus(add[t].dest, call[t].dat, "ready")
  /\ pc' = [pc EXCEPT ![t] = "count"]
  /\ UNCHANGED <<data, usedMem, locks, platform, frames, history>>

\* useMemSpace(inserted->value.length()). A pointer into a map entry that
\* was erased reads an old length or none.
CountSpace(t) ==
  LET n == add[t].dest
      d == call[t].dat
      lengths == IF t \in dangling THEN {0, Size[d]} ELSE {Len(data[n][d].value)}
  IN
  /\ pc[t] = "count" /\ alive[n]
  /\ \E len \in lengths : usedMem' = [usedMem EXCEPT ![n] = @ + len]
  /\ pc' = [pc EXCEPT ![t] = add[t].ret]
  /\ UNCHANGED <<data, status, locks, platform, frames, history>>

\* The process that sends is gone: the destination's lclAddData() gets a
\* communication failure, and what it had inserted stays "downloading".
SourceFails(t) ==
  /\ pc[t] \in {"getsrc", "sendLock", "block"}
  /\ alive[add[t].dest] /\ ~alive[add[t].src]
  /\ Raise(t, TRUE)
  /\ UNCHANGED <<store, locks, alive, frames, history>>

\* The process that adds is gone. Its source, if it was sending, leaves
\* sendData() by an exception, with dataMutex locked; the walk of an update
\* erases the child.
DestFails(t) ==
  /\ pc[t] \in {"add", "insert", "evict", "refresh", "getsrc", "sendLock", "block",
                "unlock", "count"}
  /\ ~alive[add[t].dest]
  /\ IF add[t].ret = "use"
       THEN pc' = [pc EXCEPT ![t] = "dead"] /\ UNCHANGED children
       ELSE Raise(t, TRUE)
  /\ UNCHANGED <<store, locks, alive, frames, history>>

------------------------------------------------------------------------------
(* The solver, and dagda_upload_data() for an INOUT parameter *)

\* getData() locks nothing and makes the entry when there is none. The buffer
\* of an INOUT parameter is taken out of the map.
Use(t) ==
  LET n == call[t].node
      d == call[t].dat
      e == IF d \in DOMAIN data[n] THEN data[n][d] ELSE Entry(FALSE, <<>>)
  IN
  /\ pc[t] = "use" /\ alive[n]
  /\ read' = [read EXCEPT ![t] = e.value]
  /\ data' = Store(n, d, IF call[t].op = "INOUT" THEN Entry(e.desc, <<>>) ELSE e)
  /\ pc' = [pc EXCEPT ![t] = "solve"]
  /\ Disturb(n, d, \/ ~e.desc \/ Borrowers(n, d) # {}
                   \/ call[t].op = "INOUT" /\ AtWork(n, d) # {t})
  /\ UNCHANGED <<status, usedMem, locks, platform, frames, dangling>>

\* IN parameters are done; INOUT ones go back into the map with addData().
Solve(t) ==
  LET n == call[t].node IN
  /\ pc[t] = "solve" /\ alive[n]
  /\ IF call[t].op = "IN"
       THEN /\ pc' = [pc EXCEPT ![t] = "done"]
            /\ UNCHANGED <<data, status, dangling, disturbed>>
       ELSE /\ addData(t, n, call[t].dat)
            /\ pc' = [pc EXCEPT ![t] = "replace"]
  /\ UNCHANGED <<usedMem, locks, platform, frames, read>>

\* The new version is written through the pointer that addData() returned.
Replace(t) ==
  LET n == call[t].node
      d == call[t].dat
      old == IF read[t] = <<>> THEN 0 ELSE read[t][1]
  IN
  /\ pc[t] = "replace" /\ alive[n]
  /\ data' = IF t \in dangling THEN data
             ELSE Store(n, d, Entry(TRUE, [i \in 1 .. Size[d] |-> old + 1]))
  /\ pc' = [pc EXCEPT ![t] = "uploaded"]
  /\ UNCHANGED <<status, usedMem, locks, platform, frames, history>>

Uploaded(t) ==
  /\ pc[t] = "uploaded" /\ alive[call[t].node]
  /\ status' = SetStatus(call[t].node, call[t].dat, "ready")
  /\ call' = [call EXCEPT ![t].up = TRUE]
  /\ pc' = [pc EXCEPT ![t] = "lcl"]
  /\ UNCHANGED <<data, usedMem, locks, platform, walk, add, history>>

\* The process that called is gone; what it asked of the root goes on.
CallerFails(t) ==
  /\ pc[t] \in {"lcl", "lcl2", "desc", "use", "solve", "replace", "uploaded"}
  /\ ~alive[call[t].node]
  /\ pc' = [pc EXCEPT ![t] = "dead"]
  /\ UNCHANGED <<store, locks, platform, frames, history>>

Crash(n) ==
  /\ Cardinality({m \in SeDs : ~alive[m]}) < MaxCrashes
  /\ alive[n]
  /\ alive' = [alive EXCEPT ![n] = FALSE]
  /\ UNCHANGED <<store, locks, children, pc, frames, history>>

------------------------------------------------------------------------------
\* dagda_mrsh_profile() has put every datum in the client's map.
Held(n) == IF n = Client THEN Data ELSE {d \in Data : <<n, d>> \in Placed}

\* The bytes of the data in D, each with its place.
BytesOf(D) == UNION {{d} \X (1 .. Size[d]) : d \in D}

Init ==
  /\ data = [n \in Node |-> [d \in Held(n) |->
               Entry(TRUE, [i \in 1 .. Size[d] |-> 1])]]
  /\ status = [n \in Node |-> [d \in Data |-> "ready"]]
  /\ usedMem = [n \in Node |-> IF n = Client THEN 0 ELSE Cardinality(BytesOf(Held(n)))]
  /\ dataMutex = [n \in Node |-> NoThread]
  /\ childrenMutex = NoThread
  /\ children = SeDs
  /\ alive = [n \in Node |-> TRUE]
  /\ pc = [t \in Thread |-> "idle"]
  /\ call \in [Thread -> {[op |-> "none", node |-> Root, dat |-> d, up |-> FALSE]
                            : d \in {CHOOSE d \in Data : TRUE}}]
  /\ walk = [t \in Thread |-> [why |-> "present", todo |-> <<>>, found |-> <<>>]]
  /\ add = [t \in Thread |-> [dest |-> Root, src |-> Client, ret |-> "use", blk |-> 0,
                              retried |-> FALSE]]
  /\ read = [t \in Thread |-> <<>>]
  /\ dangling = {}
  /\ disturbed = {}

Walks(t) == \/ LclPresent(t) \/ VisitRoot(t) \/ LockChildren(t) \/ VisitChild(t)
            \/ ChildRem(t) \/ ChildFails(t) \/ RootFails(t) \/ EndWalk(t) \/ Refresh(t)
Adds(t) == \/ CheckSpace(t) \/ Evict(t) \/ Insert(t) \/ GetSource(t) \/ SendLock(t)
           \/ RecordData(t) \/ Sent(t) \/ UnlockData(t) \/ CountSpace(t)
           \/ SourceFails(t) \/ DestFails(t)
Uses(t) == \/ LclPresentAgain(t) \/ GetDesc(t) \/ Use(t) \/ Solve(t) \/ Replace(t)
           \/ Uploaded(t) \/ CallerFails(t)

Step(t) == Walks(t) \/ Adds(t) \/ Uses(t)

Next == \/ \E t \in Thread : Start(t) \/ Step(t)
        \/ \E n \in SeDs : Crash(n)

Spec == Init /\ [][Next]_vars
FairSpec == Spec /\ \A t \in Thread : WF_vars(Step(t))

------------------------------------------------------------------------------
(* Properties *)

Whole(value, d) == Len(value) = Size[d] /\ \A i \in 1 .. Size[d] :
                                             value[i] > 0 /\ value[i] = value[1]

\* A solver is given all the bytes of its parameter, and of one version, as
\* long as nothing disturbed the replica of its node: transfers read nothing
\* that is still "downloading", however calls and crashes interleave.
ReadsWhole ==
  \A t \in Thread : pc[t] = "solve" =>
    \/ Whole(read[t], call[t].dat)
    \/ <<call[t].node, call[t].dat>> \in disturbed

\* The bytes that the map of n holds.
Stored(n) == UNION {{d} \X DOMAIN data[n][d].value : d \in DOMAIN data[n]}

\* usedMemSpace is the memory that the map holds, when nobody is at work on
\* the node, nothing disturbed it and no process crashed: each add counts
\* what it stored, each removal and each eviction frees it once.
SpaceIsCounted ==
  \A n \in SeDs \cup {Root} :
    (/\ \A d \in Data : Writers(n, d) \cup Borrowers(n, d) = {}
     /\ \A d \in Data : <<n, d>> \notin disturbed
     /\ \A m \in Node : alive[m])
    => usedMem[n] = Cardinality(Stored(n))

Leaked(n) == \E t \in Thread : dataMutex[n] = t /\ ~(pc[t] = "block" /\ add[t].src = n)
ChildrenLeaked == childrenMutex # NoThread /\ pc[childrenMutex] \in Over

\* A mutex that nobody will unlock: sendData() keeps dataMutex only when the
\* process it sent to is gone, and a walk keeps childrenMutex only when the
\* replica that lvlUpdateData() removed could not be added again.
LocksAreReturned ==
  /\ \A n \in Node : alive[n] /\ Leaked(n) => \E m \in Node : ~alive[m]
  /\ alive[Root] /\ ChildrenLeaked => call[childrenMutex].up /\ pc[childrenMutex] = "failed"

\* Once an INOUT call is over, every replica has the version it wrote, unless
\* another call was about the datum, the replica was evicted while it was
\* refreshed or refreshed from one that was, or a process crashed:
\* pfmUpdateData() reaches every data manager.
UpdatesReachAll ==
  \A t \in Thread :
    LET d == call[t].dat IN
    (/\ pc[t] = "done" /\ call[t].op = "INOUT" /\ Whole(read[t], d)
     /\ \A u \in Thread \ {t} : pc[u] = "idle" \/ call[u].dat # d
     /\ \A m \in Node : alive[m])
    => \A m \in SeDs \cup {Root} :
         isDataPresent(m, d) /\ data[m][d].desc /\ <<m, d>> \notin disturbed
           => Whole(data[m][d].value, d) /\ data[m][d].value[1] = read[t][1] + 1

\* Two transfers in opposite directions: each holds the dataMutex of its
\* source and waits for that of its destination.
Crossed == \E t, u \in Thread :
  /\ t # u /\ pc[t] = "block" /\ pc[u] = "block"
  /\ add[t].src = add[u].dest /\ add[u].src = add[t].dest

\* Every call ends, unless a mutex is lost or two transfers cross: no other
\* order of the walks, the transfers and the evictions stops the platform.
CallsEnd ==
  \A t \in Thread : (pc[t] # "idle") ~>
    (pc[t] \in Over \/ Crossed \/ ChildrenLeaked \/ \E n \in Node : Leaked(n))
==============================================================================
