----------------------------- MODULE DagdaProofs -----------------------------
(***************************************************************************)
(* The data managers for any tree of SeDs, any data, any threads and any   *)
(* number of crashes.  FrameTypes says what the frames of the calls hold;  *)
(* LockInv adds who owns a mutex, ReadInv what is true of a replica that   *)
(* nothing has disturbed, and SpaceInv what usedMemSpace counts; FlowInv   *)
(* says where a call stands in its frames, and UpdateInv how far the       *)
(* replicas of its datum have been refreshed.                              *)
(***************************************************************************)
EXTENDS Dagda, OrderingProofs

Ops == {"none", "IN", "INOUT", "remove"}
Whys == {"present", "managers", "remove", "update"}
WalkPcs == {"root", "lock", "child", "childRem"}
AddPcs == {"add", "insert", "evict", "refresh", "getsrc", "sendLock", "block",
           "unlock", "count"}
UsePcs == {"lcl", "lcl2", "desc", "use", "solve", "replace", "uploaded"}
Rets == {"use", "lock", "child"}

Pcs == Over \cup WalkPcs \cup AddPcs \cup UsePcs
CallFrames == [op : Ops, node : Node, dat : Data, up : BOOLEAN]
WalkFrames == [why : Whys, todo : Seq(SeDs), found : Seq(Node)]
AddFrames == [dest : Node, src : Node, ret : Rets, blk : Nat, retried : BOOLEAN]

FrameTypes ==
  /\ pc \in [Thread -> Pcs]
  /\ call \in [Thread -> CallFrames]
  /\ walk \in [Thread -> WalkFrames]
  /\ add \in [Thread -> AddFrames]
  /\ dataMutex \in [Node -> Thread \cup {NoThread}]
  /\ childrenMutex \in Thread \cup {NoThread}
  /\ alive \in [Node -> BOOLEAN]

\* The nodes are the SeDs, the root and the client; blocks are numbers.
LEMMA Nodes ==
  /\ SeDs \subseteq Node /\ Root \in Node /\ Client \in Node
  /\ Root \notin SeDs /\ Client \notin SeDs /\ Root # Client
BY DagdaAssumption DEF Node

\* The frames have their types initially.
LEMMA FrameTypesInit == Init => FrameTypes
<1> SUFFICES ASSUME Init PROVE FrameTypes
  OBVIOUS
<1>1. call \in [Thread -> CallFrames]
  <2>1. PICK d \in Data : call \in [Thread -> {[op |-> "none", node |-> Root,
                                               dat |-> d, up |-> FALSE]}]
    <3>1. (CHOOSE d \in Data : TRUE) \in Data
      BY DagdaAssumption
    <3> QED
      BY <3>1 DEF Init
  <2>2. [op |-> "none", node |-> Root, dat |-> d, up |-> FALSE] \in CallFrames
    BY Nodes DEF CallFrames, Ops
  <2> QED
    BY <2>1, <2>2
<1>2. walk \in [Thread -> WalkFrames]
  BY DEF Init, WalkFrames, Whys
<1>3. add \in [Thread -> AddFrames]
  BY Nodes DEF Init, AddFrames, Rets
<1> QED
  BY <1>1, <1>2, <1>3 DEF Init, FrameTypes, Over, Pcs

\* What a step of t may do to each of the variables: it leaves the frames of
\* the other threads and the mutexes that others own alone, and no process
\* starts again.
PcStep(t) == /\ pc' \in [Thread -> Pcs]
             /\ \A u \in Thread \ {t} : pc'[u] = pc[u]
CallStep(t) == /\ call' \in [Thread -> CallFrames]
               /\ \A u \in Thread \ {t} : call'[u] = call[u]
WalkStep(t) == /\ walk' \in [Thread -> WalkFrames]
               /\ \A u \in Thread \ {t} : walk'[u] = walk[u]
AddStep(t) == /\ add' \in [Thread -> AddFrames]
              /\ \A u \in Thread \ {t} : add'[u] = add[u]
MutexStep(t) ==
  /\ dataMutex' \in [Node -> Thread \cup {NoThread}]
  /\ \A n \in Node : dataMutex'[n] # dataMutex[n]
                       => /\ dataMutex[n] \in {t, NoThread}
                          /\ dataMutex'[n] \in {t, NoThread}
ChildrenStep(t) == childrenMutex' \in {childrenMutex, t, NoThread}
AliveStep == /\ alive' \in [Node -> BOOLEAN]
             /\ \A n \in Node : alive'[n] => alive[n]

FramesStep(t) == PcStep(t) /\ CallStep(t) /\ WalkStep(t) /\ AddStep(t)
Footprint(t) == FramesStep(t) /\ MutexStep(t) /\ ChildrenStep(t) /\ AliveStep

\* A variable that does not change, or changes at t only, makes such a step.
LEMMA SmallSteps ==
  ASSUME FrameTypes, NEW t \in Thread
  PROVE  /\ \A s \in Pcs : pc' = [pc EXCEPT ![t] = s] => PcStep(t) /\ pc'[t] = s
         /\ pc' = pc => PcStep(t)
         /\ call' = call => CallStep(t)
         /\ walk' = walk => WalkStep(t)
         /\ \A w \in WalkFrames : walk' = [walk EXCEPT ![t] = w]
                                    => WalkStep(t) /\ walk'[t] = w
         /\ add' = add => AddStep(t)
         /\ \A a \in AddFrames : add' = [add EXCEPT ![t] = a]
                                    => AddStep(t) /\ add'[t] = a
         /\ dataMutex' = dataMutex => MutexStep(t)
         /\ childrenMutex' \in {childrenMutex, t, NoThread} => ChildrenStep(t)
         /\ alive' = alive => AliveStep
         /\ \A n \in Node : alive' = [alive EXCEPT ![n] = FALSE] => AliveStep
<1> USE DEF FrameTypes
<1>1. \A s \in Pcs : pc' = [pc EXCEPT ![t] = s] => PcStep(t) /\ pc'[t] = s
  BY DEF PcStep
<1>2. \A w \in WalkFrames : walk' = [walk EXCEPT ![t] = w]
                              => WalkStep(t) /\ walk'[t] = w
  BY DEF WalkStep
<1>3. \A a \in AddFrames : add' = [add EXCEPT ![t] = a] => AddStep(t) /\ add'[t] = a
  BY DEF AddStep
<1>4. /\ pc' = pc => PcStep(t)
      /\ call' = call => CallStep(t)
      /\ walk' = walk => WalkStep(t)
      /\ add' = add => AddStep(t)
  BY DEF PcStep, CallStep, WalkStep, AddStep
<1>5. /\ dataMutex' = dataMutex => MutexStep(t)
      /\ childrenMutex' \in {childrenMutex, t, NoThread} => ChildrenStep(t)
  BY DEF MutexStep, ChildrenStep
<1>6. /\ alive' = alive => AliveStep
      /\ \A n \in Node : alive' = [alive EXCEPT ![n] = FALSE] => AliveStep
  BY DEF AliveStep
<1> QED
  BY <1>1, <1>2, <1>3, <1>4, <1>5, <1>6

\* The frames of t, and one with a field changed.
LEMMA FrameFields ==
  ASSUME FrameTypes, NEW t \in Thread
  PROVE  /\ call[t].node \in Node /\ call[t].dat \in Data /\ call[t].up \in BOOLEAN
         /\ call[t].op \in Ops
         /\ add[t].dest \in Node /\ add[t].src \in Node /\ add[t].ret \in Rets
         /\ add[t].blk \in Nat
         /\ walk[t].why \in Whys /\ walk[t].found \in Seq(Node)
         /\ walk[t].todo \in Seq(SeDs)
         /\ walk[t].todo # <<>> => /\ Head(walk[t].todo) \in SeDs
                                   /\ Head(walk[t].todo) \in Node
                                   /\ Tail(walk[t].todo) \in Seq(SeDs)
<1>1. call[t] \in CallFrames /\ add[t] \in AddFrames /\ walk[t] \in WalkFrames
  BY DEF FrameTypes
<1>2. /\ call[t].node \in Node /\ call[t].dat \in Data /\ call[t].up \in BOOLEAN
      /\ call[t].op \in Ops
  BY <1>1 DEF CallFrames
<1>3. /\ add[t].dest \in Node /\ add[t].src \in Node /\ add[t].ret \in Rets
      /\ add[t].blk \in Nat
  BY <1>1 DEF AddFrames
<1>4. /\ walk[t].why \in Whys /\ walk[t].found \in Seq(Node)
      /\ walk[t].todo \in Seq(SeDs)
  BY <1>1 DEF WalkFrames
<1>5. walk[t].todo # <<>> => /\ Head(walk[t].todo) \in SeDs
                             /\ Tail(walk[t].todo) \in Seq(SeDs)
  BY <1>4
<1> QED
  BY <1>2, <1>3, <1>4, <1>5, Nodes

\* An add of dest from src that comes back to ret begins.
LEMMA CallAddSteps ==
  ASSUME FrameTypes, NEW t \in Thread, NEW n \in Node, NEW s \in Node,
         NEW ret \in Rets, CallAdd(t, n, s, ret)
  PROVE  /\ PcStep(t) /\ AddStep(t)
         /\ pc'[t] = "add" /\ add'[t].dest = n /\ add'[t].src = s
         /\ add'[t].ret = ret
<1> DEFINE a == [dest |-> n, src |-> s, ret |-> ret, blk |-> 0, retried |-> FALSE]
<1>1. a \in AddFrames /\ "add" \in Pcs
  BY DEF AddFrames, Pcs, AddPcs
<1>2. add' = [add EXCEPT ![t] = a] /\ pc' = [pc EXCEPT ![t] = "add"]
  BY DEF CallAdd
<1>3. a.dest = n /\ a.src = s /\ a.ret = ret
  OBVIOUS
<1> HIDE DEF a
<1>4. PcStep(t) /\ pc'[t] = "add" /\ AddStep(t) /\ add'[t] = a
  BY <1>1, <1>2, SmallSteps
<1> QED
  BY <1>3, <1>4

\* A search at the root begins.
LEMMA BeginSteps ==
  ASSUME FrameTypes, NEW t \in Thread, NEW why \in Whys, Begin(t, why)
  PROVE  /\ PcStep(t) /\ WalkStep(t)
         /\ pc'[t] = "root" /\ walk'[t].why = why
<1> DEFINE w == [why |-> why, todo |-> <<>>, found |-> <<>>]
<1>1. w \in WalkFrames /\ "root" \in Pcs
  BY DEF WalkFrames, Pcs, WalkPcs
<1>2. walk' = [walk EXCEPT ![t] = w] /\ pc' = [pc EXCEPT ![t] = "root"]
  BY DEF Begin
<1>3. w.why = why
  OBVIOUS
<1> HIDE DEF w
<1>4. PcStep(t) /\ pc'[t] = "root" /\ WalkStep(t) /\ walk'[t] = w
  BY <1>1, <1>2, SmallSteps
<1> QED
  BY <1>3, <1>4

\* What follows a search: the thread walks again, adds the replica or ends.
LEMMA PresentSteps ==
  ASSUME FrameTypes, NEW t \in Thread, NEW found \in BOOLEAN, Present(t, found)
  PROVE  /\ PcStep(t) /\ WalkStep(t) /\ AddStep(t)
         /\ \/ /\ pc'[t] = "root" /\ add' = add
               /\ walk'[t].why = "update" => call[t].up
            \/ pc'[t] = "done" /\ walk' = walk /\ add' = add
            \/ /\ pc'[t] = "add" /\ walk' = walk
               /\ add'[t].dest = call[t].node /\ add'[t].ret = "use"
<1>1. "done" \in Pcs /\ {"remove", "update", "managers"} \subseteq Whys
  BY DEF Pcs, Over, Whys
<1>2. CASE call[t].op = "remove" /\ found
  <2>1. Begin(t, "remove") /\ add' = add
    BY <1>2 DEF Present
  <2> QED
    BY <2>1, <1>1, BeginSteps, SmallSteps
<1>3. CASE call[t].op = "remove" /\ ~found
  <2>1. pc' = [pc EXCEPT ![t] = "done"] /\ walk' = walk /\ add' = add
    BY <1>3 DEF Present
  <2> QED
    BY <2>1, <1>1, SmallSteps
<1>4. CASE call[t].op # "remove" /\ call[t].up /\ found
  <2>1. Begin(t, "update") /\ add' = add
    BY <1>4 DEF Present
  <2> QED
    BY <2>1, <1>1, <1>4, BeginSteps, SmallSteps
<1>5. CASE call[t].op # "remove" /\ call[t].up /\ ~found
  <2>1. pc' = [pc EXCEPT ![t] = "done"] /\ walk' = walk /\ add' = add
    BY <1>5 DEF Present
  <2> QED
    BY <2>1, <1>1, SmallSteps
<1>6. CASE call[t].op # "remove" /\ ~call[t].up /\ found
  <2>1. Begin(t, "managers") /\ add' = add
    BY <1>6 DEF Present
  <2> QED
    BY <2>1, <1>1, BeginSteps, SmallSteps
<1>7. CASE call[t].op # "remove" /\ ~call[t].up /\ ~found
  <2>1. CallAdd(t, call[t].node, Client, "use") /\ walk' = walk
    BY <1>7 DEF Present
  <2>2. call[t].node \in Node /\ Client \in Node /\ "use" \in Rets
    BY FrameFields, Nodes DEF Rets
  <2> QED
    BY <2>1, <2>2, CallAddSteps, SmallSteps
<1> QED
  BY <1>2, <1>3, <1>4, <1>5, <1>6, <1>7

\* An exception leaves the thread in the walk or ends its call.
LEMMA RaiseSteps ==
  ASSUME FrameTypes, NEW t \in Thread, NEW comm \in BOOLEAN, Raise(t, comm)
  PROVE  /\ PcStep(t)
         /\ \/ pc'[t] = "child" /\ comm /\ add[t].ret = "child"
            \/ pc'[t] = "failed" /\ ~(comm /\ add[t].ret = "child")
<1>1. {"child", "failed"} \subseteq Pcs
  BY DEF Pcs, Over, WalkPcs
<1>2. \/ /\ pc' = [pc EXCEPT ![t] = "child"] /\ comm /\ add[t].ret = "child"
      \/ /\ pc' = [pc EXCEPT ![t] = "failed"] /\ ~(comm /\ add[t].ret = "child")
  BY DEF Raise
<1> QED
  BY <1>1, <1>2, SmallSteps

------------------------------------------------------------------------------
(* Who owns a mutex *)

SomeDead == \E m \in Node : ~alive[m]

\* A thread that sends owns the mutex of its source, and unless a process is
\* gone it owns no other.
HoldsSource(t) ==
  /\ pc[t] = "block" => dataMutex[add[t].src] = t
  /\ \A n \in Node :
       dataMutex[n] = t => (pc[t] = "block" /\ add[t].src = n) \/ SomeDead

\* The root adds a replica from within a walk only for a call that updates.
OnlyUpdates(t) ==
  walk[t].why = "update" \/ add[t].ret # "use" => pc[t] # "idle" /\ call[t].up

\* The owner of childrenMutex is in the loop over the children, or in an add
\* that comes back to it, or an update of it has failed.
InTheLoop(t) ==
  \/ ~alive[Root]
  \/ pc[t] \in {"child", "childRem"}
  \/ pc[t] \in AddPcs /\ add[t].ret = "child"
  \/ pc[t] = "failed" /\ call[t].up

LockAt(t) == /\ HoldsSource(t) /\ OnlyUpdates(t)
             /\ childrenMutex = t => InTheLoop(t)
             /\ pc[t] = "childRem" => walk[t].todo # <<>>

LockInv == FrameTypes /\ \A t \in Thread : LockAt(t)

\* No mutex is taken initially.
LEMMA LockInvInit == Init => LockInv
<1> SUFFICES ASSUME Init PROVE LockInv
  OBVIOUS
<1>1. FrameTypes
  BY FrameTypesInit
<1>2. ASSUME NEW t \in Thread PROVE LockAt(t)
  <2>1. /\ pc[t] = "idle" /\ walk[t].why = "present" /\ add[t].ret = "use"
        /\ childrenMutex = NoThread /\ \A n \in Node : dataMutex[n] = NoThread
    BY DEF Init
  <2>2. t # NoThread
    BY DagdaAssumption
  <2> QED
    BY <2>1, <2>2 DEF LockAt, HoldsSource, OnlyUpdates
<1> QED
  BY <1>1, <1>2 DEF LockInv

\* A footprint keeps the types of the frames.
LEMMA FootprintTypes ==
  ASSUME NEW t \in Thread, FrameTypes, Footprint(t)
  PROVE  FrameTypes'
BY DEF FrameTypes, Footprint, FramesStep, PcStep, CallStep, WalkStep, AddStep,
       MutexStep, ChildrenStep, AliveStep

\* A step of t keeps what the other threads own.
LEMMA OthersKeepLocks ==
  ASSUME LockInv, NEW t \in Thread, Footprint(t), NEW u \in Thread \ {t}
  PROVE  LockAt(u)'
<1>1. /\ pc'[u] = pc[u] /\ call'[u] = call[u] /\ walk'[u] = walk[u]
      /\ add'[u] = add[u]
  BY DEF Footprint, FramesStep, PcStep, CallStep, WalkStep, AddStep
<1>2. LockAt(u) /\ u # NoThread /\ u # t /\ add[u].src \in Node
  BY FrameFields, DagdaAssumption DEF LockInv
<1>3. /\ \A n \in Node : dataMutex[n] = u <=> dataMutex'[n] = u
      /\ childrenMutex' = u => childrenMutex = u
      /\ SomeDead => SomeDead' 
      /\ ~alive[Root] => ~alive'[Root]
  BY <1>2, Nodes DEF Footprint, MutexStep, ChildrenStep, AliveStep, SomeDead
<1>4. HoldsSource(u)'
  BY <1>1, <1>2, <1>3 DEF LockAt, HoldsSource
<1>5. OnlyUpdates(u)'
  BY <1>1, <1>2 DEF LockAt, OnlyUpdates
<1>6. (childrenMutex = u => InTheLoop(u))'
  BY <1>1, <1>2, <1>3 DEF LockAt, InTheLoop
<1>7. (pc[u] = "childRem" => walk[u].todo # <<>>)'
  BY <1>1, <1>2 DEF LockAt
<1> QED
  BY <1>4, <1>5, <1>6, <1>7 DEF LockAt

\* A step of t that neither locks nor unlocks a dataMutex.
LEMMA KeepsLocks ==
  ASSUME LockInv, NEW t \in Thread, Footprint(t), dataMutex' = dataMutex,
         pc[t] # "block" \/ SomeDead, pc'[t] \notin {"block", "idle"},
         pc'[t] = "childRem" => walk'[t].todo # <<>>,
         walk'[t].why = "update" \/ add'[t].ret # "use" => call'[t].up,
         childrenMutex' = t => InTheLoop(t)'
  PROVE  LockAt(t)'
<1>1. LockAt(t)
  BY DEF LockInv
<1>2. SomeDead => SomeDead'
  BY DEF Footprint, AliveStep, SomeDead
<1>3. HoldsSource(t)'
  BY <1>1, <1>2 DEF LockAt, HoldsSource
<1>4. OnlyUpdates(t)'
  BY DEF OnlyUpdates
<1> QED
  BY <1>3, <1>4 DEF LockAt

\* A step of t that changes nothing but pc[t], and not childrenMutex.
LEMMA GoKeepsLocks ==
  ASSUME LockInv, NEW t \in Thread, PcStep(t),
         pc[t] # "idle", pc[t] # "block" \/ SomeDead,
         pc'[t] \notin {"block", "idle"},
         pc'[t] = "childRem" => walk[t].todo # <<>>,
         dataMutex' = dataMutex, childrenMutex' = childrenMutex, alive' = alive,
         call' = call, walk' = walk, add' = add,
         childrenMutex = t => InTheLoop(t)'
  PROVE  Footprint(t) /\ LockAt(t)'
<1>2. Footprint(t)
  BY SmallSteps DEF Footprint, FramesStep, LockInv
<1>3. LockAt(t)
  BY DEF LockInv
<1>4. walk'[t].why = "update" \/ add'[t].ret # "use" => call'[t].up
  BY <1>3 DEF LockAt, OnlyUpdates
<1> HIDE DEF InTheLoop
<1>6. LockAt(t)'
  BY <1>2, <1>4, KeepsLocks
<1> QED
  BY <1>2, <1>6

\* A call begins.
LEMMA StartKeepsLocks ==
  ASSUME LockInv, NEW t \in Thread, Start(t)
  PROVE  Footprint(t) /\ LockAt(t)'
<1>1. FrameTypes /\ LockAt(t) /\ pc[t] = "idle"
  BY DEF LockInv, Start
<1>2. PICK c \in Calls[t] :
        /\ call' = [call EXCEPT ![t] = [op |-> c[1], node |-> c[2], dat |-> c[3],
                                        up |-> FALSE]]
        /\ pc' = [pc EXCEPT ![t] = IF c[1] = "remove" THEN "root" ELSE "lcl"]
  BY DEF Start
<1>3. [op |-> c[1], node |-> c[2], dat |-> c[3], up |-> FALSE] \in CallFrames
  <2>1. c[1] \in Ops /\ c[2] \in SeDs \cup {Root} /\ c[3] \in Data
    BY DagdaAssumption DEF Ops
  <2> QED
    BY <2>1, Nodes DEF CallFrames
<1>4. CallStep(t)
  BY <1>1, <1>2, <1>3 DEF CallStep, FrameTypes
<1>5. PcStep(t) /\ pc'[t] \in {"root", "lcl"}
  <2>1. {"root", "lcl"} \subseteq Pcs
    BY DEF Pcs, WalkPcs, UsePcs
  <2> QED
    BY <1>1, <1>2, <2>1, SmallSteps
<1>6. /\ dataMutex' = dataMutex /\ childrenMutex' = childrenMutex /\ alive' = alive
      /\ walk' = walk /\ add' = add
  BY DEF Start, locks, platform
<1>7. Footprint(t)
  BY <1>1, <1>4, <1>5, <1>6, SmallSteps DEF Footprint, FramesStep
<1>8. ~(walk[t].why = "update" \/ add[t].ret # "use")
  BY <1>1 DEF LockAt, OnlyUpdates
<1>9. childrenMutex = t => ~alive[Root]
  BY <1>1 DEF LockAt, InTheLoop, AddPcs
<1>10. childrenMutex' = t => InTheLoop(t)'
  BY <1>6, <1>9 DEF InTheLoop
<1> HIDE DEF InTheLoop
<1> QED
  BY <1>1, <1>5, <1>6, <1>7, <1>8, <1>10, KeepsLocks

\* A step of t that goes on from a search.
LEMMA PresentKeepsLocks ==
  ASSUME LockInv, NEW t \in Thread, NEW found \in BOOLEAN, Present(t, found),
         pc[t] \notin {"block", "idle"},
         call' = call, alive' = alive, dataMutex' = dataMutex,
         childrenMutex' \in {childrenMutex, NoThread},
         childrenMutex' = t => ~alive[Root]
  PROVE  Footprint(t) /\ LockAt(t)'
<1>1. FrameTypes /\ LockAt(t)
  BY DEF LockInv
<1>2. Footprint(t)
  BY <1>1, PresentSteps, SmallSteps DEF Footprint, FramesStep
<1>3. pc'[t] \notin {"block", "idle", "childRem"}
  BY <1>1, PresentSteps
<1>4. walk'[t].why = "update" \/ add'[t].ret # "use" => call'[t].up
  BY <1>1, PresentSteps DEF LockAt, OnlyUpdates
<1>5. childrenMutex' = t => InTheLoop(t)'
  BY DEF InTheLoop
<1> HIDE DEF InTheLoop
<1> QED
  BY <1>2, <1>3, <1>4, <1>5, KeepsLocks

\* The steps of a search at the root touch only the mutexes that their place allows.
LEMMA WalksKeepLocks ==
  ASSUME LockInv, NEW t \in Thread, Walks(t)
  PROVE  Footprint(t) /\ LockAt(t)'
<1>f. FrameTypes /\ LockAt(t) /\ t # NoThread
  BY DagdaAssumption DEF LockInv
<1>p. {"lock", "refresh", "child", "childRem", "failed", "lcl2", "done", "root"} \subseteq Pcs
  BY DEF Pcs, Over, WalkPcs, AddPcs, UsePcs
<1>o. ASSUME childrenMutex = t PROVE InTheLoop(t)
  BY <1>f, <1>o DEF LockAt
<1>u. walk[t].why = "update" \/ add[t].ret # "use" => call[t].up
  BY <1>f DEF LockAt, OnlyUpdates
<1>1. CASE LclPresent(t)
  <2>1. /\ pc[t] = "lcl" /\ call' = call /\ alive' = alive
        /\ dataMutex' = dataMutex /\ childrenMutex' = childrenMutex
    BY <1>1 DEF LclPresent, locks, platform
  <2>2. childrenMutex' = t => ~alive[Root]
    BY <2>1, <1>o DEF InTheLoop, AddPcs
  <2>3. CASE Present(t, TRUE)
    BY <2>1, <2>2, <2>3, PresentKeepsLocks
  <2>4. CASE Begin(t, "present") /\ add' = add
    <3>1. "present" \in Whys
      BY DEF Whys
    <3>2. /\ PcStep(t) /\ WalkStep(t) /\ pc'[t] = "root"
          /\ walk'[t].why = "present"
      BY <1>f, <2>4, <3>1, BeginSteps
    <3>3. Footprint(t)
      BY <1>f, <2>1, <2>4, <3>2, SmallSteps DEF Footprint, FramesStep
    <3>4. walk'[t].why = "update" \/ add'[t].ret # "use" => call'[t].up
      BY <1>u, <2>1, <2>4, <3>2
    <3>5. childrenMutex' = t => InTheLoop(t)'
      BY <2>1, <2>2 DEF InTheLoop
    <3> HIDE DEF InTheLoop
    <3> QED
      BY <2>1, <3>2, <3>3, <3>4, <3>5, KeepsLocks
  <2> QED
    BY <1>1, <2>3, <2>4 DEF LclPresent
<1>2. CASE VisitRoot(t)
  <2>1. /\ pc[t] = "root" /\ call' = call /\ alive' = alive
        /\ dataMutex' = dataMutex /\ childrenMutex' = childrenMutex
    BY <1>2 DEF VisitRoot, locks, platform
  <2>2. childrenMutex' = t => ~alive[Root]
    BY <2>1, <1>o DEF InTheLoop, AddPcs
  <2>3. CASE Present(t, TRUE)
    BY <2>1, <2>2, <2>3, PresentKeepsLocks
  <2>4. CASE /\ pc' = [pc EXCEPT ![t] = "lock"] /\ add' = add
             /\ \/ walk' = walk
                \/ \E q \in {<<Root>>, <<>>} : walk' = [walk EXCEPT ![t].found = q]
    <3>1. WalkStep(t) /\ walk'[t].why = walk[t].why
      <4>1. CASE walk' = walk
        BY <4>1, <1>f, SmallSteps
      <4>2. CASE \E q \in {<<Root>>, <<>>} : walk' = [walk EXCEPT ![t].found = q]
        <5>1. {<<Root>>, <<>>} \subseteq Seq(Node)
          BY Nodes
        <5> QED
          BY <4>2, <5>1, <1>f DEF WalkStep, WalkFrames, FrameTypes
      <4> QED
        BY <2>4, <4>1, <4>2
    <3>2. PcStep(t) /\ pc'[t] = "lock"
      BY <2>4, <1>f, <1>p, SmallSteps
    <3>3. Footprint(t)
      BY <1>f, <2>1, <2>4, <3>1, <3>2, SmallSteps DEF Footprint, FramesStep
    <3>4. walk'[t].why = "update" \/ add'[t].ret # "use" => call'[t].up
      BY <1>u, <2>1, <2>4, <3>1
    <3>5. childrenMutex' = t => InTheLoop(t)'
      BY <2>1, <2>2 DEF InTheLoop
    <3>6. pc[t] # "block" /\ pc'[t] \notin {"block", "idle", "childRem"}
      BY <2>1, <3>2
    <3> HIDE DEF InTheLoop
    <3> QED
      BY <2>1, <3>3, <3>4, <3>5, <3>6, KeepsLocks
  <2>5. CASE /\ walk[t].why = "update" /\ walk' = walk
             /\ add' = [add EXCEPT ![t].dest = Root, ![t].ret = "lock"]
             /\ pc' = [pc EXCEPT ![t] = "refresh"]
    <3>1. AddStep(t)
      <4>1. add[t] \in AddFrames
        BY <1>f DEF FrameTypes
      <4>2. [add[t] EXCEPT !.dest = Root, !.ret = "lock"] \in AddFrames
        BY <4>1, Nodes DEF AddFrames, Rets
      <4>3. add' = [add EXCEPT ![t] = [add[t] EXCEPT !.dest = Root, !.ret = "lock"]]
        BY <2>5
      <4> QED
        BY <1>f, <4>2, <4>3, SmallSteps
    <3>2. PcStep(t) /\ pc'[t] = "refresh"
      BY <2>5, <1>f, <1>p, SmallSteps
    <3>3. Footprint(t)
      BY <1>f, <2>1, <2>5, <3>1, <3>2, SmallSteps DEF Footprint, FramesStep
    <3>4. walk'[t].why = "update" \/ add'[t].ret # "use" => call'[t].up
      BY <1>u, <2>1, <2>5
    <3>5. childrenMutex' = t => InTheLoop(t)'
      BY <2>1, <2>2 DEF InTheLoop
    <3> HIDE DEF InTheLoop
    <3> QED
      BY <2>1, <3>2, <3>3, <3>4, <3>5, KeepsLocks
  <2>6. walk[t].why \in {"present", "managers", "remove", "update"}
    BY <1>f, FrameFields DEF Whys
  <2>7. \/ Present(t, TRUE)
        \/ /\ pc' = [pc EXCEPT ![t] = "lock"] /\ add' = add
           /\ \/ walk' = walk
              \/ \E q \in {<<Root>>, <<>>} : walk' = [walk EXCEPT ![t].found = q]
        \/ /\ walk[t].why = "update" /\ walk' = walk
           /\ add' = [add EXCEPT ![t].dest = Root, ![t].ret = "lock"]
           /\ pc' = [pc EXCEPT ![t] = "refresh"]
    <3>1. CASE walk[t].why = "present"
      BY <1>2, <3>1 DEF VisitRoot
    <3>2. CASE walk[t].why = "managers"
      BY <1>2, <3>2 DEF VisitRoot
    <3>3. CASE walk[t].why = "remove"
      BY <1>2, <3>3 DEF VisitRoot
    <3>4. CASE walk[t].why = "update"
      BY <1>2, <3>4 DEF VisitRoot
    <3> QED
      BY <2>6, <3>1, <3>2, <3>3, <3>4
  <2> QED
    BY <2>3, <2>4, <2>5, <2>7
<1>3. CASE LockChildren(t)
  <2>1. /\ pc[t] = "lock" /\ call' = call /\ alive' = alive /\ add' = add
        /\ dataMutex' = dataMutex /\ childrenMutex' = t
        /\ walk' = [walk EXCEPT ![t].todo = Only(SeDOrder, children)]
        /\ pc' = [pc EXCEPT ![t] = "child"]
    BY <1>3 DEF LockChildren, locks, platform
  <2>2. Only(SeDOrder, children) \in Seq(SeDs)
    BY DagdaAssumption, OnlyKeeps
  <2>3. WalkStep(t) /\ walk'[t].why = walk[t].why
    BY <1>f, <2>1, <2>2 DEF WalkStep, WalkFrames, FrameTypes
  <2>4. PcStep(t) /\ pc'[t] = "child"
    BY <1>f, <1>p, <2>1, SmallSteps
  <2>5. Footprint(t)
    BY <1>f, <2>1, <2>3, <2>4, SmallSteps DEF Footprint, FramesStep
  <2>6. walk'[t].why = "update" \/ add'[t].ret # "use" => call'[t].up
    BY <1>u, <2>1, <2>3
  <2>7. childrenMutex' = t => InTheLoop(t)'
    BY <2>4 DEF InTheLoop
  <2> HIDE DEF InTheLoop
  <2> QED
    BY <2>1, <2>4, <2>5, <2>6, <2>7, KeepsLocks
<1>4. CASE VisitChild(t)
  <2> DEFINE w == walk[t]
             c == Head(w.todo)
  <2>1. /\ pc[t] = "child" /\ w.todo # <<>> /\ call' = call /\ alive' = alive
        /\ dataMutex' = dataMutex
    BY <1>4 DEF VisitChild, platform
  <2>2. c \in Node /\ Tail(w.todo) \in Seq(SeDs) /\ c \in SeDs
    BY <1>f, <2>1, FrameFields
  <2>3. \/ Present(t, TRUE) /\ childrenMutex' = NoThread
        \/ /\ \/ NextChild(t)
              \/ \E q \in {w.found, Append(w.found, c)} :
                   walk' = [walk EXCEPT ![t].todo = Tail(w.todo), ![t].found = q]
           /\ UNCHANGED <<pc, add, childrenMutex>>
        \/ /\ pc' = [pc EXCEPT ![t] = "childRem"]
           /\ UNCHANGED <<walk, add, childrenMutex>>
        \/ /\ w.why = "update"
           /\ add' = [add EXCEPT ![t].dest = c, ![t].ret = "child"]
           /\ pc' = [pc EXCEPT ![t] = "refresh"]
           /\ NextChild(t) /\ childrenMutex' = childrenMutex
    <3> DEFINE d == call[t].dat
               A == w.why = "present" /\ isDataPresent(c, d)
               B == w.why = "managers"
               C == w.why = "remove" /\ isDataPresent(c, d)
               D == w.why = "update" /\ isDataPresent(c, d) /\ c # call[t].node
    <3>1. CASE A
      BY <1>4, <3>1, Zenon DEF VisitChild
    <3>2. CASE B
      <4>1. /\ walk' = [walk EXCEPT ![t].todo = Tail(w.todo),
                                    ![t].found = IF isDataPresent(c, d)
                                                   THEN Append(w.found, c) ELSE w.found]
            /\ UNCHANGED <<pc, add, childrenMutex>>
        BY <1>4, <3>2 DEF VisitChild
      <4>2. CASE isDataPresent(c, d)
        BY <4>1, <4>2
      <4>3. CASE ~isDataPresent(c, d)
        BY <4>1, <4>3
      <4> QED
        BY <4>2, <4>3
    <3>3. CASE C
      BY <1>4, <3>3 DEF VisitChild
    <3>4. CASE D
      BY <1>4, <3>4 DEF VisitChild
    <3>5. CASE ~A /\ ~B /\ ~C /\ ~D
      BY <1>4, <3>5 DEF VisitChild
    <3> QED
      BY <3>1, <3>2, <3>3, <3>4, <3>5
  <2>4. CASE Present(t, TRUE) /\ childrenMutex' = NoThread
    BY <1>f, <2>1, <2>4, PresentKeepsLocks
  <2>5. ASSUME NextChild(t)
        PROVE  WalkStep(t) /\ walk'[t].why = w.why
    BY <1>f, <2>2, <2>5 DEF NextChild, WalkStep, WalkFrames, FrameTypes
  <2>6. CASE /\ \/ NextChild(t)
                \/ \E q \in {w.found, Append(w.found, c)} :
                     walk' = [walk EXCEPT ![t].todo = Tail(w.todo), ![t].found = q]
             /\ UNCHANGED <<pc, add, childrenMutex>>
    <3>1. ASSUME NEW q \in {w.found, Append(w.found, c)},
                 walk' = [walk EXCEPT ![t].todo = Tail(w.todo), ![t].found = q]
          PROVE  WalkStep(t) /\ walk'[t].why = w.why
      <4>1. q \in Seq(Node)
        <5>1. w.found \in Seq(Node)
          BY <1>f, FrameFields
        <5>2. Append(w.found, c) \in Seq(Node)
          BY <2>2, <5>1
        <5> HIDE DEF c, w
        <5> QED
          BY <5>1, <5>2
      <4> HIDE DEF c
      <4> QED
        BY <1>f, <2>2, <3>1, <4>1 DEF WalkStep, WalkFrames, FrameTypes
    <3>2. WalkStep(t) /\ walk'[t].why = w.why
      BY <2>5, <2>6, <3>1
    <3>3. Footprint(t)
      BY <1>f, <2>1, <2>6, <3>2, SmallSteps DEF Footprint, FramesStep
    <3>4. walk'[t].why = "update" \/ add'[t].ret # "use" => call'[t].up
      BY <1>u, <2>1, <2>6, <3>2
    <3>5. childrenMutex' = t => InTheLoop(t)'
      BY <2>1, <2>6 DEF InTheLoop
    <3>6. pc'[t] = "child"
      BY <2>1, <2>6
    <3> HIDE DEF InTheLoop
    <3> QED
      BY <2>1, <3>3, <3>4, <3>5, <3>6, KeepsLocks
  <2>7. CASE /\ pc' = [pc EXCEPT ![t] = "childRem"]
             /\ UNCHANGED <<walk, add, childrenMutex>>
    <3>1. PcStep(t) /\ pc'[t] = "childRem"
      BY <1>f, <1>p, <2>7, SmallSteps
    <3>2. childrenMutex = t => InTheLoop(t)'
      BY <3>1 DEF InTheLoop
    <3>3. walk' = walk /\ add' = add /\ childrenMutex' = childrenMutex
      BY <2>7
    <3>4. walk[t].todo # <<>> /\ pc[t] \notin {"block", "idle"}
          /\ pc'[t] \notin {"block", "idle"}
      BY <2>1, <3>1
    <3> HIDE DEF c, w
    <3> HIDE DEF InTheLoop
    <3> QED
      BY <2>1, <3>1, <3>2, <3>3, <3>4, GoKeepsLocks
  <2>8. CASE /\ w.why = "update"
             /\ add' = [add EXCEPT ![t].dest = c, ![t].ret = "child"]
             /\ pc' = [pc EXCEPT ![t] = "refresh"]
             /\ NextChild(t) /\ childrenMutex' = childrenMutex
    <3>1. PcStep(t) /\ pc'[t] = "refresh"
      BY <1>f, <1>p, <2>8, SmallSteps
    <3>2. AddStep(t) /\ add'[t].ret = "child"
      <4> HIDE DEF c
      <4>1. add \in [Thread -> AddFrames] /\ c \in Node /\ "child" \in Rets
        BY <1>f, <2>2 DEF FrameTypes, Rets
      <4>2. add' = [add EXCEPT ![t].dest = c, ![t].ret = "child"]
        BY <2>8
      <4>3. add' \in [Thread -> AddFrames]
        BY <4>1, <4>2 DEF AddFrames
      <4>4. add'[t].ret = "child"
        BY <4>1, <4>2 DEF AddFrames
      <4>5. \A u \in Thread \ {t} : add'[u] = add[u]
        BY <4>1, <4>2
      <4> QED
        BY <4>3, <4>4, <4>5 DEF AddStep
    <3>3. Footprint(t)
      BY <1>f, <2>1, <2>5, <2>8, <3>1, <3>2, SmallSteps DEF Footprint, FramesStep
    <3>4. walk'[t].why = "update" \/ add'[t].ret # "use" => call'[t].up
      BY <1>u, <2>1, <2>8
    <3>5. childrenMutex' = t => InTheLoop(t)'
      BY <3>1, <3>2 DEF InTheLoop, AddPcs
    <3> HIDE DEF InTheLoop
    <3> QED
      BY <2>1, <3>1, <3>3, <3>4, <3>5, KeepsLocks
  <2> QED
    BY <2>3, <2>4, <2>6, <2>7, <2>8
<1>5. CASE ChildRem(t) \/ ChildFails(t)
  <2>1. /\ pc[t] \in {"child", "childRem"} /\ call' = call /\ alive' = alive
        /\ dataMutex' = dataMutex /\ childrenMutex' = childrenMutex /\ add' = add
        /\ NextChild(t) /\ pc' = [pc EXCEPT ![t] = "child"]
    BY <1>5 DEF ChildRem, ChildFails, locks, platform
  <2>2. WalkStep(t) /\ walk'[t].why = walk[t].why
    <3>1. walk[t].todo # <<>>
      BY <1>f, <1>5 DEF LockAt, ChildRem, ChildFails
    <3>2. Tail(walk[t].todo) \in Seq(SeDs)
      BY <1>f, <3>1, FrameFields
    <3> QED
      BY <1>f, <2>1, <3>2 DEF NextChild, WalkStep, WalkFrames, FrameTypes
  <2>3. PcStep(t) /\ pc'[t] = "child"
    BY <1>f, <1>p, <2>1, SmallSteps
  <2>4. Footprint(t)
    BY <1>f, <2>1, <2>2, <2>3, SmallSteps DEF Footprint, FramesStep
  <2>5. walk'[t].why = "update" \/ add'[t].ret # "use" => call'[t].up
    BY <1>u, <2>1, <2>2
  <2>6. childrenMutex' = t => InTheLoop(t)'
    BY <2>3 DEF InTheLoop
  <2> HIDE DEF InTheLoop
  <2> QED
    BY <2>1, <2>3, <2>4, <2>5, <2>6, KeepsLocks
<1>6. CASE RootFails(t)
  <2>1. /\ pc[t] \in WalkPcs /\ ~alive[Root] /\ pc' = [pc EXCEPT ![t] = "failed"]
        /\ dataMutex' = dataMutex /\ childrenMutex' = childrenMutex /\ alive' = alive
        /\ call' = call /\ walk' = walk /\ add' = add
    BY <1>6 DEF RootFails, locks, platform, frames, WalkPcs
  <2>2. PcStep(t) /\ pc'[t] = "failed"
    BY <1>f, <1>p, <2>1, SmallSteps
  <2>3. childrenMutex = t => InTheLoop(t)'
    BY <2>1 DEF InTheLoop
  <2>4. pc[t] \notin {"block", "idle"} /\ pc'[t] \notin {"block", "idle", "childRem"}
    BY <2>1, <2>2 DEF WalkPcs
  <2>5. /\ dataMutex' = dataMutex /\ childrenMutex' = childrenMutex /\ alive' = alive
        /\ call' = call /\ walk' = walk /\ add' = add
    BY <2>1
  <2> HIDE DEF InTheLoop
  <2> QED
    BY <2>2, <2>3, <2>4, <2>5, GoKeepsLocks
<1>7. CASE EndWalk(t)
  <2>1. /\ pc[t] = "child" /\ call' = call /\ alive' = alive
        /\ dataMutex' = dataMutex /\ childrenMutex' = NoThread
    BY <1>7 DEF EndWalk, platform
  <2>2. \/ Present(t, FALSE)
        \/ /\ \E s \in {"failed", "done"} : pc' = [pc EXCEPT ![t] = s]
           /\ UNCHANGED <<walk, add>>
        \/ /\ pc' = [pc EXCEPT ![t] = "lcl2"] /\ walk' = walk
           /\ getBestSource(t, walk[t].found)
    <3> DEFINE w == walk[t]
    <3>1. CASE w.why = "present"
      BY <1>7, <3>1 DEF EndWalk
    <3>2. CASE w.why = "managers" /\ w.found = <<>>
      BY <1>7, <3>2 DEF EndWalk
    <3>3. CASE w.why = "managers" /\ w.found # <<>>
      BY <1>7, <3>3 DEF EndWalk
    <3>4. CASE w.why \notin {"present", "managers"}
      BY <1>7, <3>4 DEF EndWalk
    <3> QED
      BY <3>1, <3>2, <3>3, <3>4
  <2>3. CASE Present(t, FALSE)
    BY <1>f, <2>1, <2>3, PresentKeepsLocks
  <2>4. CASE /\ \E s \in {"failed", "done"} : pc' = [pc EXCEPT ![t] = s]
             /\ UNCHANGED <<walk, add>>
    <3>1. PcStep(t) /\ pc'[t] \in {"failed", "done"}
      BY <1>f, <1>p, <2>4, SmallSteps
    <3>2. Footprint(t)
      BY <1>f, <2>1, <2>4, <3>1, SmallSteps DEF Footprint, FramesStep
    <3> HIDE DEF InTheLoop
    <3> QED
      BY <1>f, <1>u, <2>1, <2>4, <3>1, <3>2, KeepsLocks
  <2>5. CASE /\ pc' = [pc EXCEPT ![t] = "lcl2"] /\ walk' = walk
             /\ getBestSource(t, walk[t].found)
    <3>1. PcStep(t) /\ pc'[t] = "lcl2"
      BY <1>f, <1>p, <2>5, SmallSteps
    <3>2. PICK i \in DOMAIN walk[t].found : add' = [add EXCEPT ![t].src = walk[t].found[i]]
      BY <2>5 DEF getBestSource
    <3>3. walk[t].found[i] \in Node
      <4>1. walk[t].found \in Seq(Node)
        BY <1>f, FrameFields
      <4> QED
        BY <4>1, <3>2
    <3>4. AddStep(t) /\ add'[t].ret = add[t].ret
      BY <1>f, <3>2, <3>3 DEF AddStep, AddFrames, FrameTypes
    <3>5. Footprint(t)
      BY <1>f, <2>1, <2>5, <3>1, <3>4, SmallSteps DEF Footprint, FramesStep
    <3> HIDE DEF InTheLoop
    <3> QED
      BY <1>f, <1>u, <2>1, <2>5, <3>1, <3>4, <3>5, KeepsLocks
  <2> QED
    BY <2>2, <2>3, <2>4, <2>5
<1>8. CASE Refresh(t)
  <2>1. /\ pc[t] = "refresh" /\ call' = call /\ alive' = alive /\ walk' = walk
        /\ dataMutex' = dataMutex /\ childrenMutex' = childrenMutex
        /\ CallAdd(t, add[t].dest, call[t].node, add[t].ret)
    BY <1>8 DEF Refresh, locks, platform
  <2>2. add[t].dest \in Node /\ call[t].node \in Node /\ add[t].ret \in Rets
    BY <1>f, FrameFields
  <2>3. /\ PcStep(t) /\ AddStep(t) /\ pc'[t] = "add" /\ add'[t].ret = add[t].ret
    BY <1>f, <2>1, <2>2, CallAddSteps
  <2>4. Footprint(t)
    BY <1>f, <2>1, <2>3, SmallSteps DEF Footprint, FramesStep
  <2>5. childrenMutex' = t => InTheLoop(t)'
    BY <1>o, <2>1, <2>3 DEF InTheLoop, AddPcs
  <2> HIDE DEF InTheLoop
  <2> QED
    BY <1>u, <2>1, <2>3, <2>4, <2>5, KeepsLocks
<1> QED
  BY <1>1, <1>2, <1>3, <1>4, <1>5, <1>6, <1>7, <1>8 DEF Walks

\* A step of t that changes nothing but pc[t], and stays in the add or goes
\* back to where it was called from.
LEMMA AddGoKeepsLocks ==
  ASSUME LockInv, NEW t \in Thread, PcStep(t),
         pc[t] \in AddPcs, pc[t] # "block" \/ SomeDead,
         \/ pc'[t] \in AddPcs \ {"block"}
         \/ pc'[t] = add[t].ret
         \/ pc'[t] = "child" /\ add[t].ret = "child"
         \/ pc'[t] = "failed"
         \/ pc'[t] = "dead" /\ add[t].ret = "use",
         dataMutex' = dataMutex, childrenMutex' = childrenMutex, alive' = alive,
         call' = call, walk' = walk, add' = add
  PROVE  Footprint(t) /\ LockAt(t)'
<1>1. LockAt(t) /\ add[t].ret \in Rets
  BY FrameFields DEF LockInv
<1>2. pc[t] # "idle" /\ pc'[t] \notin {"block", "idle", "childRem"}
  BY <1>1 DEF AddPcs, Rets
<1>3. childrenMutex = t => ~alive[Root] \/ add[t].ret = "child"
  BY <1>1 DEF LockAt, InTheLoop, AddPcs
<1>4. ASSUME childrenMutex = t PROVE InTheLoop(t)'
  <2>1. CASE ~alive[Root]
    BY <2>1 DEF InTheLoop
  <2>2. CASE add[t].ret = "child"
    <3>1. call[t].up
      BY <1>1, <2>2 DEF LockAt, OnlyUpdates
    <3> QED
      BY <2>2, <3>1 DEF InTheLoop, AddPcs
  <2> QED
    BY <1>3, <1>4, <2>1, <2>2
<1> HIDE DEF InTheLoop
<1> QED
  BY <1>2, <1>4, GoKeepsLocks

\* The same of lclAddData() and sendData(),
LEMMA AddsKeepLocks ==
  ASSUME LockInv, NEW t \in Thread, Adds(t)
  PROVE  Footprint(t) /\ LockAt(t)'
<1>f. FrameTypes /\ LockAt(t) /\ t # NoThread
  BY DagdaAssumption DEF LockInv
<1>p. AddPcs \cup {"child", "failed", "dead", "use", "lock"} \subseteq Pcs
  BY DEF Pcs, Over, WalkPcs, AddPcs, UsePcs
<1>o. ASSUME childrenMutex = t PROVE InTheLoop(t)
  BY <1>f, <1>o DEF LockAt
<1>u. walk[t].why = "update" \/ add[t].ret # "use" => call[t].up
  BY <1>f DEF LockAt, OnlyUpdates
<1>a. /\ add[t].dest \in Node /\ add[t].src \in Node /\ add[t].ret \in Rets
      /\ add[t].blk \in Nat /\ add[t].ret \in Pcs
  <2>1. Rets \subseteq Pcs
    BY DEF Rets, Pcs, UsePcs, WalkPcs
  <2> QED
    BY <1>f, <2>1, FrameFields
<1>r. ASSUME NEW comm \in BOOLEAN, Raise(t, comm)
      PROVE  /\ PcStep(t)
             /\ \/ pc'[t] = "child" /\ add[t].ret = "child"
                \/ pc'[t] = "failed"
  BY <1>f, <1>r, RaiseSteps
<1>g. ASSUME NEW s \in AddPcs, s # "block", pc' = [pc EXCEPT ![t] = s]
      PROVE  PcStep(t) /\ pc'[t] \in AddPcs \ {"block"}
  <2>1. s \in Pcs
    BY <1>p
  <2> QED
    BY <1>f, <1>g, <2>1, SmallSteps
<1>w. {"add", "getsrc", "sendLock", "count"} \subseteq AddPcs
  BY DEF AddPcs
\* The steps that change nothing but the place of t.
<1>1. CASE \/ CheckSpace(t) \/ Insert(t) \/ GetSource(t) \/ UnlockData(t)
           \/ CountSpace(t) \/ SourceFails(t) \/ DestFails(t)
           \/ SendLock(t) /\ dataMutex' = dataMutex
           \/ Evict(t) /\ add' = add
  <2>1. /\ pc[t] \in AddPcs
        /\ dataMutex' = dataMutex /\ childrenMutex' = childrenMutex /\ alive' = alive
        /\ call' = call /\ walk' = walk /\ add' = add
        /\ pc[t] # "block" \/ SomeDead
        /\ PcStep(t)
        /\ \/ pc'[t] \in AddPcs \ {"block"}
           \/ pc'[t] = add[t].ret
           \/ pc'[t] = "child" /\ add[t].ret = "child"
           \/ pc'[t] = "failed"
           \/ pc'[t] = "dead" /\ add[t].ret = "use"
    <3>1. CASE CheckSpace(t)
      <4>1. /\ pc[t] = "add"
            /\ dataMutex' = dataMutex /\ childrenMutex' = childrenMutex /\ alive' = alive
            /\ call' = call /\ walk' = walk /\ add' = add
            /\ \/ Raise(t, TRUE) \/ Raise(t, FALSE)
               \/ \E s \in {add[t].ret, "insert", "evict"} : pc' = [pc EXCEPT ![t] = s]
        BY <3>1 DEF CheckSpace, locks, frames
      <4>2. {"insert", "evict"} \subseteq AddPcs \ {"block"}
        BY DEF AddPcs
      <4>3. ASSUME NEW s \in {add[t].ret, "insert", "evict"}, pc' = [pc EXCEPT ![t] = s]
            PROVE  PcStep(t) /\ (pc'[t] \in AddPcs \ {"block"} \/ pc'[t] = add[t].ret)
        BY <1>f, <1>p, <1>a, <4>2, <4>3, SmallSteps
      <4> QED
        BY <1>r, <4>1, <4>3 DEF AddPcs
    <3>2. CASE Insert(t)
      <4>1. /\ pc[t] = "insert" /\ pc' = [pc EXCEPT ![t] = "getsrc"]
            /\ dataMutex' = dataMutex /\ childrenMutex' = childrenMutex /\ alive' = alive
            /\ call' = call /\ walk' = walk /\ add' = add
        BY <3>2 DEF Insert, locks, platform, frames
      <4>2. PcStep(t) /\ pc'[t] \in AddPcs \ {"block"}
        BY <1>g, <1>w, <4>1
      <4> QED
        BY <4>1, <4>2 DEF AddPcs
    <3>3. CASE GetSource(t)
      <4>1. /\ pc[t] = "getsrc" /\ pc' = [pc EXCEPT ![t] = "sendLock"]
            /\ dataMutex' = dataMutex /\ childrenMutex' = childrenMutex /\ alive' = alive
            /\ call' = call /\ walk' = walk /\ add' = add
        BY <3>3 DEF GetSource, locks, platform, frames
      <4>2. PcStep(t) /\ pc'[t] \in AddPcs \ {"block"}
        BY <1>g, <1>w, <4>1
      <4> QED
        BY <4>1, <4>2 DEF AddPcs
    <3>4. CASE UnlockData(t)
      <4>1. /\ pc[t] = "unlock" /\ pc' = [pc EXCEPT ![t] = "count"]
            /\ dataMutex' = dataMutex /\ childrenMutex' = childrenMutex /\ alive' = alive
            /\ call' = call /\ walk' = walk /\ add' = add
        BY <3>4 DEF UnlockData, locks, platform, frames
      <4>2. PcStep(t) /\ pc'[t] \in AddPcs \ {"block"}
        BY <1>g, <1>w, <4>1
      <4> QED
        BY <4>1, <4>2 DEF AddPcs
    <3>5. CASE CountSpace(t)
      <4>1. /\ pc[t] = "count" /\ pc' = [pc EXCEPT ![t] = add[t].ret]
            /\ dataMutex' = dataMutex /\ childrenMutex' = childrenMutex /\ alive' = alive
            /\ call' = call /\ walk' = walk /\ add' = add
        BY <3>5 DEF CountSpace, locks, platform, frames
      <4>2. PcStep(t) /\ pc'[t] = add[t].ret
        BY <1>f, <1>a, <4>1, SmallSteps
      <4> QED
        BY <4>1, <4>2 DEF AddPcs
    <3>6. CASE SourceFails(t)
      <4>1. /\ pc[t] \in {"getsrc", "sendLock", "block"} /\ ~alive[add[t].src]
            /\ dataMutex' = dataMutex /\ childrenMutex' = childrenMutex /\ alive' = alive
            /\ call' = call /\ walk' = walk /\ add' = add
            /\ Raise(t, TRUE)
        BY <3>6 DEF SourceFails, locks, frames
      <4>2. SomeDead
        BY <1>a, <4>1 DEF SomeDead
      <4> QED
        BY <1>r, <4>1, <4>2 DEF AddPcs
    <3>7. CASE DestFails(t)
      <4>1. /\ pc[t] \in AddPcs /\ ~alive[add[t].dest]
            /\ dataMutex' = dataMutex /\ childrenMutex' = childrenMutex /\ alive' = alive
            /\ call' = call /\ walk' = walk /\ add' = add
            /\ \/ add[t].ret = "use" /\ pc' = [pc EXCEPT ![t] = "dead"]
               \/ Raise(t, TRUE)
        BY <3>7 DEF DestFails, locks, frames, AddPcs
      <4>2. SomeDead
        BY <1>a, <4>1 DEF SomeDead
      <4>3. CASE Raise(t, TRUE)
        BY <1>r, <4>1, <4>2, <4>3
      <4>4. CASE add[t].ret = "use" /\ pc' = [pc EXCEPT ![t] = "dead"]
        BY <1>f, <1>p, <4>1, <4>2, <4>4, SmallSteps
      <4> QED
        BY <4>1, <4>3, <4>4
    <3>8. CASE SendLock(t) /\ dataMutex' = dataMutex
      <4>1. /\ pc[t] = "sendLock" /\ dataMutex[add[t].src] = NoThread
            /\ dataMutex' = dataMutex /\ childrenMutex' = childrenMutex /\ alive' = alive
            /\ call' = call /\ walk' = walk
        BY <3>8 DEF SendLock, CanLock
      <4>2. dataMutex' # [dataMutex EXCEPT ![add[t].src] = t]
        BY <1>f, <1>a, <4>1 DEF FrameTypes
      <4>3. \/ Raise(t, FALSE) /\ add' = add
            \/ pc' = [pc EXCEPT ![t] = add[t].ret] /\ add' = add
        BY <3>8, <4>2 DEF SendLock
      <4>4. CASE Raise(t, FALSE) /\ add' = add
        BY <1>r, <4>1, <4>4 DEF AddPcs
      <4>5. CASE pc' = [pc EXCEPT ![t] = add[t].ret] /\ add' = add
        <5>1. PcStep(t) /\ pc'[t] = add[t].ret
          BY <1>f, <1>a, <4>5, SmallSteps
        <5> QED
          BY <4>1, <4>5, <5>1 DEF AddPcs
      <4> QED
        BY <4>3, <4>4, <4>5
    <3>9. CASE Evict(t) /\ add' = add
      <4>1. /\ pc[t] = "evict"
            /\ dataMutex' = dataMutex /\ childrenMutex' = childrenMutex /\ alive' = alive
            /\ call' = call /\ walk' = walk
            /\ Raise(t, FALSE) \/ pc' = [pc EXCEPT ![t] = "add"]
        BY <3>9 DEF Evict, locks
      <4>2. CASE Raise(t, FALSE)
        BY <1>r, <3>9, <4>1, <4>2 DEF AddPcs
      <4>3. CASE pc' = [pc EXCEPT ![t] = "add"]
        <5>1. PcStep(t) /\ pc'[t] \in AddPcs \ {"block"}
          BY <1>g, <1>w, <4>3
        <5> QED
          BY <3>9, <4>1, <5>1 DEF AddPcs
      <4> QED
        BY <4>1, <4>2, <4>3
    <3> QED
      BY <1>1, <3>1, <3>2, <3>3, <3>4, <3>5, <3>6, <3>7, <3>8, <3>9
  <2> QED
    BY <2>1, AddGoKeepsLocks
\* The steps that change the frame of the add, or lock and unlock.
<1>2. ASSUME NEW a \in AddFrames, add' = [add EXCEPT ![t] = a],
             a.src = add[t].src, a.dest = add[t].dest, a.ret = add[t].ret
      PROVE  /\ AddStep(t)
             /\ add'[t].src = add[t].src /\ add'[t].ret = add[t].ret
  BY <1>f, <1>2, SmallSteps
<1>i. (childrenMutex = t => InTheLoop(t)) /\ pc[t] \in AddPcs
         => (childrenMutex = t => ~alive[Root] \/ add[t].ret = "child")
  BY DEF InTheLoop, AddPcs
<1>3. CASE Evict(t) /\ add' # add
  <2>1. /\ pc[t] = "evict"
        /\ dataMutex' = dataMutex /\ childrenMutex' = childrenMutex /\ alive' = alive
        /\ call' = call /\ walk' = walk
        /\ add' = [add EXCEPT ![t].retried = TRUE] /\ pc' = [pc EXCEPT ![t] = "add"]
    BY <1>3 DEF Evict, locks
  <2>2. AddStep(t) /\ add'[t].ret = add[t].ret
    BY <1>f, <2>1 DEF AddStep, AddFrames, FrameTypes
  <2>3. PcStep(t) /\ pc'[t] = "add" /\ pc[t] \in AddPcs /\ "add" \in AddPcs
    BY <1>f, <1>p, <2>1, SmallSteps DEF AddPcs
  <2>4. Footprint(t)
    BY <1>f, <2>1, <2>2, <2>3, SmallSteps DEF Footprint, FramesStep
  <2>5. childrenMutex' = t => InTheLoop(t)'
    BY <1>i, <1>o, <2>1, <2>2, <2>3 DEF InTheLoop
  <2> HIDE DEF InTheLoop
  <2> QED
    BY <1>u, <2>1, <2>2, <2>3, <2>4, <2>5, KeepsLocks
<1>4. CASE SendLock(t) /\ dataMutex' # dataMutex
  <2>1. /\ pc[t] = "sendLock" /\ dataMutex[add[t].src] = NoThread
        /\ dataMutex' = [dataMutex EXCEPT ![add[t].src] = t]
        /\ childrenMutex' = childrenMutex /\ alive' = alive
        /\ call' = call /\ walk' = walk
        /\ add' = [add EXCEPT ![t].blk = 0] /\ pc' = [pc EXCEPT ![t] = "block"]
    BY <1>4 DEF SendLock, CanLock
  <2>2. /\ AddStep(t) /\ add'[t].ret = add[t].ret /\ add'[t].src = add[t].src
        /\ add'[t].blk = 0 /\ add'[t].dest = add[t].dest
    BY <1>f, <2>1 DEF AddStep, AddFrames, FrameTypes
  <2>3. PcStep(t) /\ pc'[t] = "block" /\ pc[t] \in AddPcs /\ "block" \in AddPcs
    BY <1>f, <1>p, <2>1, SmallSteps DEF AddPcs
  <2>4. MutexStep(t)
    BY <1>f, <1>a, <2>1 DEF MutexStep, FrameTypes
  <2>5. Footprint(t)
    BY <1>f, <2>1, <2>2, <2>3, <2>4, SmallSteps DEF Footprint, FramesStep
  <2>6. (childrenMutex = t => InTheLoop(t))'
    BY <1>i, <1>o, <2>1, <2>2, <2>3 DEF InTheLoop
  <2>7. HoldsSource(t)'
    <3>1. SomeDead' <=> SomeDead
      BY <2>1 DEF SomeDead
    <3>2. dataMutex'[add[t].src] = t
          /\ \A n \in Node \ {add[t].src} : dataMutex'[n] = dataMutex[n]
      BY <1>f, <1>a, <2>1 DEF FrameTypes
    <3>3. \A n \in Node : dataMutex[n] = t => SomeDead
      BY <1>f, <2>1 DEF LockAt, HoldsSource
    <3> QED
      BY <2>2, <2>3, <3>1, <3>2, <3>3 DEF HoldsSource
  <2>8. OnlyUpdates(t)'
    BY <1>u, <2>1, <2>2, <2>3 DEF OnlyUpdates
  <2> HIDE DEF InTheLoop
  <2> QED
    BY <2>3, <2>5, <2>6, <2>7, <2>8 DEF LockAt
<1>5. CASE RecordData(t)
  <2>1. /\ pc[t] = "block" /\ pc' = pc
        /\ dataMutex' = dataMutex /\ childrenMutex' = childrenMutex
        /\ call' = call /\ walk' = walk
        /\ \/ alive' = [alive EXCEPT ![add[t].dest] = FALSE] /\ add' = add
           \/ alive' = alive /\ add' = [add EXCEPT ![t].blk = add[t].blk + 1]
    BY <1>5 DEF RecordData, locks
  <2>2. AddStep(t) /\ add'[t].ret = add[t].ret /\ add'[t].src = add[t].src
    <3>1. CASE add' = add
      BY <1>f, <3>1, SmallSteps
    <3>2. CASE add' = [add EXCEPT ![t].blk = add[t].blk + 1]
      <4>1. add[t].blk + 1 \in Nat
        BY <1>a
      <4> QED
        BY <1>f, <3>2, <4>1 DEF AddStep, AddFrames, FrameTypes
    <3> QED
      BY <2>1, <3>1, <3>2
  <2>3. AliveStep
    BY <1>f, <1>a, <2>1, SmallSteps
  <2>4. Footprint(t) /\ PcStep(t)
    BY <1>f, <2>1, <2>2, <2>3, SmallSteps DEF Footprint, FramesStep
  <2>5. /\ SomeDead => SomeDead'
        /\ ~alive[Root] => ~alive'[Root]
    BY <2>3, Nodes DEF SomeDead, AliveStep
  <2>6. HoldsSource(t)'
    BY <1>f, <2>1, <2>2, <2>5 DEF HoldsSource, LockAt
  <2>7. OnlyUpdates(t)'
    BY <1>u, <2>1, <2>2 DEF OnlyUpdates
  <2>8. (childrenMutex = t => InTheLoop(t))'
    BY <1>o, <2>1, <2>2, <2>5 DEF InTheLoop
  <2> HIDE DEF InTheLoop
  <2> QED
    BY <2>1, <2>4, <2>6, <2>7, <2>8 DEF LockAt
<1>6. CASE Sent(t)
  <2>1. /\ pc[t] = "block" /\ pc' = [pc EXCEPT ![t] = "unlock"]
        /\ dataMutex' = [dataMutex EXCEPT ![add[t].src] = NoThread]
        /\ childrenMutex' = childrenMutex /\ alive' = alive
        /\ call' = call /\ walk' = walk /\ add' = add
    BY <1>6 DEF Sent, platform, frames
  <2>2. PcStep(t) /\ pc'[t] = "unlock" /\ pc[t] \in AddPcs /\ "unlock" \in AddPcs
    BY <1>f, <1>p, <2>1, SmallSteps DEF AddPcs
  <2>3. dataMutex[add[t].src] = t
    BY <1>f, <2>1 DEF LockAt, HoldsSource
  <2>4. MutexStep(t)
    BY <1>f, <1>a, <2>1, <2>3 DEF MutexStep, FrameTypes
  <2>5. Footprint(t)
    BY <1>f, <2>1, <2>2, <2>4, SmallSteps DEF Footprint, FramesStep
  <2>6. HoldsSource(t)'
    <3>1. SomeDead' <=> SomeDead
      BY <2>1 DEF SomeDead
    <3>2. dataMutex'[add[t].src] = NoThread
          /\ \A n \in Node \ {add[t].src} : dataMutex'[n] = dataMutex[n]
      BY <1>f, <1>a, <2>1 DEF FrameTypes
    <3>3. \A n \in Node : dataMutex[n] = t => n = add[t].src \/ SomeDead
      BY <1>f DEF LockAt, HoldsSource
    <3>4. ASSUME NEW n \in Node, dataMutex'[n] = t PROVE SomeDead
      BY <1>f, <3>2, <3>3, <3>4
    <3> QED
      BY <2>2, <3>1, <3>4 DEF HoldsSource
  <2>7. OnlyUpdates(t)'
    BY <1>u, <2>1, <2>2 DEF OnlyUpdates
  <2>8. (childrenMutex = t => InTheLoop(t))'
    BY <1>i, <1>o, <2>1, <2>2 DEF InTheLoop
  <2> HIDE DEF InTheLoop
  <2> QED
    BY <2>2, <2>5, <2>6, <2>7, <2>8 DEF LockAt
<1> QED
  BY <1>1, <1>3, <1>4, <1>5, <1>6 DEF Adds

\* and of the solver and the parameters around it.
LEMMA UsesKeepLocks ==
  ASSUME LockInv, NEW t \in Thread, Uses(t)
  PROVE  Footprint(t) /\ LockAt(t)'
<1>f. FrameTypes /\ LockAt(t)
  BY DEF LockInv
<1>p. {"use", "desc", "failed", "solve", "done", "replace", "uploaded", "lcl", "dead"}
         \subseteq Pcs
  BY DEF Pcs, Over, UsePcs
<1>o. childrenMutex = t /\ pc[t] \in UsePcs => ~alive[Root]
  BY <1>f DEF LockAt, InTheLoop, UsePcs, AddPcs
<1>u. walk[t].why = "update" \/ add[t].ret # "use" => call[t].up
  BY <1>f DEF LockAt, OnlyUpdates
<1>1. CASE LclPresentAgain(t) \/ Use(t) \/ Solve(t) \/ Replace(t) \/ CallerFails(t)
  <2>1. /\ pc[t] \in UsePcs
        /\ dataMutex' = dataMutex /\ childrenMutex' = childrenMutex /\ alive' = alive
        /\ call' = call /\ walk' = walk /\ add' = add
        /\ \E s \in {"use", "desc", "solve", "done", "replace", "uploaded", "dead"} :
             pc' = [pc EXCEPT ![t] = s]
    <3>1. CASE LclPresentAgain(t)
      BY <3>1 DEF LclPresentAgain, locks, platform, frames, UsePcs
    <3>2. CASE Use(t)
      BY <3>2 DEF Use, locks, platform, frames, UsePcs
    <3>3. CASE Solve(t)
      BY <3>3 DEF Solve, locks, platform, frames, UsePcs
    <3>4. CASE Replace(t)
      BY <3>4 DEF Replace, locks, platform, frames, UsePcs
    <3>5. CASE CallerFails(t)
      BY <3>5 DEF CallerFails, locks, platform, frames, UsePcs
    <3> QED
      BY <1>1, <3>1, <3>2, <3>3, <3>4, <3>5
  <2>2. PcStep(t) /\ pc'[t] \notin {"block", "idle", "childRem"}
    BY <1>f, <1>p, <2>1, SmallSteps
  <2>3. childrenMutex = t => InTheLoop(t)'
    BY <1>o, <2>1 DEF InTheLoop
  <2>4. pc[t] \notin {"block", "idle"}
    BY <2>1 DEF UsePcs
  <2> HIDE DEF InTheLoop
  <2> QED
    BY <2>1, <2>2, <2>3, <2>4, GoKeepsLocks
<1>2. CASE GetDesc(t)
  <2>1. /\ pc[t] = "desc" /\ pc[t] \in UsePcs
        /\ dataMutex' = dataMutex /\ childrenMutex' = childrenMutex /\ alive' = alive
        /\ call' = call /\ walk' = walk
        /\ \/ CallAdd(t, call[t].node, add[t].src, "use")
           \/ pc' = [pc EXCEPT ![t] = "failed"] /\ add' = add
    BY <1>2 DEF GetDesc, locks, platform, UsePcs
  <2>2. /\ PcStep(t) /\ pc'[t] \in {"add", "failed"}
        /\ AddStep(t) /\ add'[t].ret \in {"use", add[t].ret}
    <3>1. CASE CallAdd(t, call[t].node, add[t].src, "use")
      <4>1. call[t].node \in Node /\ add[t].src \in Node /\ "use" \in Rets
        BY <1>f, FrameFields DEF Rets
      <4> QED
        BY <1>f, <3>1, <4>1, CallAddSteps
    <3>2. CASE pc' = [pc EXCEPT ![t] = "failed"] /\ add' = add
      BY <1>f, <1>p, <3>2, SmallSteps
    <3> QED
      BY <2>1, <3>1, <3>2
  <2>3. Footprint(t)
    BY <1>f, <2>1, <2>2, SmallSteps DEF Footprint, FramesStep
  <2>4. childrenMutex' = t => InTheLoop(t)'
    BY <1>o, <2>1 DEF InTheLoop
  <2> HIDE DEF InTheLoop
  <2> QED
    BY <1>u, <2>1, <2>2, <2>3, <2>4, KeepsLocks
<1>3. CASE Uploaded(t)
  <2>1. /\ pc[t] = "uploaded" /\ pc[t] \in UsePcs
        /\ dataMutex' = dataMutex /\ childrenMutex' = childrenMutex /\ alive' = alive
        /\ call' = [call EXCEPT ![t].up = TRUE] /\ walk' = walk /\ add' = add
        /\ pc' = [pc EXCEPT ![t] = "lcl"]
    BY <1>3 DEF Uploaded, locks, platform, UsePcs
  <2>2. PcStep(t) /\ pc'[t] = "lcl"
    BY <1>f, <1>p, <2>1, SmallSteps
  <2>3. CallStep(t) /\ call'[t].up
    BY <1>f, <2>1 DEF CallStep, CallFrames, FrameTypes
  <2>4. Footprint(t)
    BY <1>f, <2>1, <2>2, <2>3, SmallSteps DEF Footprint, FramesStep
  <2>5. childrenMutex' = t => InTheLoop(t)'
    BY <1>o, <2>1 DEF InTheLoop
  <2> HIDE DEF InTheLoop
  <2> QED
    BY <2>1, <2>2, <2>3, <2>4, <2>5, KeepsLocks
<1> QED
  BY <1>1, <1>2, <1>3 DEF Uses

\* A crash moves no thread, and what it leaves locked is excepted by name.
LEMMA CrashKeepsLocks ==
  ASSUME LockInv, NEW n \in SeDs, Crash(n)
  PROVE  LockInv'
<1>1. /\ pc' = pc /\ call' = call /\ walk' = walk /\ add' = add
      /\ dataMutex' = dataMutex /\ childrenMutex' = childrenMutex
      /\ alive' = [alive EXCEPT ![n] = FALSE] /\ n \in Node
  BY Nodes DEF Crash, locks, frames
<1>2. FrameTypes'
  BY <1>1 DEF LockInv, FrameTypes
<1>3. /\ SomeDead => SomeDead'
      /\ ~alive[Root] => ~alive'[Root]
  BY <1>1, Nodes DEF LockInv, FrameTypes, SomeDead
<1>4. ASSUME NEW t \in Thread PROVE LockAt(t)'
  <2>1. LockAt(t)
    BY DEF LockInv
  <2>2. HoldsSource(t)' /\ OnlyUpdates(t)'
    BY <1>1, <1>3, <2>1 DEF LockAt, HoldsSource, OnlyUpdates
  <2>3. InTheLoop(t) => InTheLoop(t)'
    BY <1>1, <1>3 DEF InTheLoop
  <2> HIDE DEF InTheLoop
  <2> QED
    BY <1>1, <2>1, <2>2, <2>3 DEF LockAt
<1> QED
  BY <1>2, <1>4 DEF LockInv

\* Every step keeps the invariant of the mutexes, and a step of a thread
\* changes its own frames only.
LEMMA ThreadKeepsLocks ==
  ASSUME LockInv, NEW t \in Thread, Start(t) \/ Step(t)
  PROVE  LockInv' /\ Footprint(t)
<1>1. Footprint(t) /\ LockAt(t)'
  BY StartKeepsLocks, WalksKeepLocks, AddsKeepLocks, UsesKeepLocks DEF Step
<1>2. FrameTypes'
  BY <1>1, FootprintTypes DEF LockInv
<1>3. \A u \in Thread \ {t} : LockAt(u)'
  BY <1>1, OthersKeepLocks
<1> QED
  BY <1>1, <1>2, <1>3 DEF LockInv

\* Every step is one of these.
LEMMA LockInvNext == LockInv /\ [Next]_vars => LockInv'
<1> SUFFICES ASSUME LockInv, [Next]_vars PROVE LockInv'
  OBVIOUS
<1>1. CASE UNCHANGED vars
  <2>1. /\ pc' = pc /\ call' = call /\ walk' = walk /\ add' = add
        /\ dataMutex' = dataMutex /\ childrenMutex' = childrenMutex /\ alive' = alive
    BY <1>1 DEF vars, locks, platform, frames
  <2>2. FrameTypes'
    BY <2>1 DEF LockInv, FrameTypes
  <2>3. ASSUME NEW t \in Thread PROVE LockAt(t)'
    <3>1. LockAt(t)
      BY DEF LockInv
    <3> QED
      BY <2>1, <3>1 DEF LockAt, HoldsSource, OnlyUpdates, InTheLoop, SomeDead
  <2> QED
    BY <2>2, <2>3 DEF LockInv
<1> QED
  BY <1>1, ThreadKeepsLocks, CrashKeepsLocks DEF Next

\* The frames of the calls, and who owns a mutex, in every reachable state.
LEMMA AlwaysLockInv == Spec => []LockInv
BY LockInvInit, LockInvNext, PTL DEF Spec

\* A mutex that nobody will unlock: sendData() keeps dataMutex only when a
\* process is gone, and a walk keeps childrenMutex only when the replica that
\* lvlUpdateData() removed could not be added again.
THEOREM LocksComeBack == Spec => []LocksAreReturned
<1>1. LockInv => LocksAreReturned
  <2> SUFFICES ASSUME LockInv PROVE LocksAreReturned
    OBVIOUS
  <2>1. ASSUME NEW n \in Node, alive[n], Leaked(n) PROVE \E m \in Node : ~alive[m]
    BY <2>1 DEF Leaked, LockInv, LockAt, HoldsSource, SomeDead
  <2>2. ASSUME alive[Root], ChildrenLeaked
        PROVE  call[childrenMutex].up /\ pc[childrenMutex] = "failed"
    BY <2>2 DEF ChildrenLeaked, LockInv, FrameTypes, LockAt, InTheLoop, Over, AddPcs
  <2> QED
    BY <2>1, <2>2 DEF LocksAreReturned
<1> QED
  BY <1>1, AlwaysLockInv, PTL

------------------------------------------------------------------------------
(* The stored data *)

Item == [desc : BOOLEAN, value : Seq(Nat)]
Maps == UNION {[D -> Item] : D \in SUBSET Data}

\* A value is empty or as long as the datum is.
DataTypes ==
  /\ data \in [Node -> Maps]
  /\ \A n \in Node, d \in Data : d \in DOMAIN data[n] =>
       data[n][d].value = <<>> \/ Len(data[n][d].value) = Size[d]
  /\ status \in [Node -> [Data -> {"ready", "downloading"}]]
  /\ read \in [Thread -> Seq(Nat)]

SameEntry(n, d) ==
  /\ d \in DOMAIN data'[n] <=> d \in DOMAIN data[n]
  /\ d \in DOMAIN data[n] => data'[n][d] = data[n][d]

SameStatus(n, d) == status'[n][d] = status[n][d]

DataStep ==
  /\ data' \in [Node -> Maps]
  /\ \A n \in Node, d \in Data : d \in DOMAIN data'[n] =>
       data'[n][d].value = <<>> \/ Len(data'[n][d].value) = Size[d]
StatusStep == status' \in [Node -> [Data -> {"ready", "downloading"}]]

\* A map, and an entry of it.
LEMMA MapTypes ==
  ASSUME NEW m \in Maps
  PROVE  /\ DOMAIN m \subseteq Data
         /\ \A d \in DOMAIN m : m[d] \in Item
         /\ m = [d \in DOMAIN m |-> m[d]]
<1>1. PICK D \in SUBSET Data : m \in [D -> Item]
  BY DEF Maps
<1> QED
  BY <1>1

\* A record of entries is a map of the manager.
LEMMA MapMade ==
  ASSUME NEW D \in SUBSET Data, NEW f, f = [d \in D |-> f[d]],
         \A d \in D : f[d] \in Item
  PROVE  f \in Maps
<1>1. f \in [D -> Item]
  OBVIOUS
<1> QED
  BY <1>1 DEF Maps

\* An entry made of bytes.
LEMMA Bytes ==
  ASSUME NEW k \in Nat, NEW f \in [1 .. k -> Nat]
  PROVE  /\ Entry(TRUE, f) \in Item /\ Entry(TRUE, f).value = f
         /\ Len(f) = k
<1>1. f \in Seq(Nat) /\ Len(f) = k
  OBVIOUS
<1> QED
  BY <1>1 DEF Entry, Item

\* Storing an entry changes that entry only.
LEMMA StoreSteps ==
  ASSUME DataTypes, NEW n \in Node, NEW d \in Data, NEW e \in Item,
         e.value = <<>> \/ Len(e.value) = Size[d],
         data' = Store(n, d, e)
  PROVE  /\ DataStep
         /\ d \in DOMAIN data'[n] /\ data'[n][d] = e
         /\ \A m \in Node, x \in Data : <<m, x>> # <<n, d>> => SameEntry(m, x)
<1> DEFINE f == [x \in DOMAIN data[n] \cup {d} |-> IF x = d THEN e ELSE data[n][x]]
<1>1. data \in [Node -> Maps] /\ data[n] \in Maps
  BY DEF DataTypes
<1>2. data' = [data EXCEPT ![n] = f]
  BY DEF Store
<1>3. /\ DOMAIN f = DOMAIN data[n] \cup {d} /\ f[d] = e
      /\ \A x \in DOMAIN data[n] : x # d => f[x] = data[n][x]
      /\ f = [x \in DOMAIN f |-> f[x]]
  OBVIOUS
<1>4. f \in Maps
  <2>1. DOMAIN f \in SUBSET Data /\ \A x \in DOMAIN f : f[x] \in Item
    BY <1>1, <1>3, MapTypes
  <2> HIDE DEF f
  <2> QED
    BY <1>3, <2>1, MapMade
<1> HIDE DEF f
<1>5. data' \in [Node -> Maps] /\ data'[n] = f /\ \A m \in Node \ {n} : data'[m] = data[m]
  BY <1>1, <1>2, <1>4
<1>6. ASSUME NEW m \in Node, NEW x \in Data, <<m, x>> # <<n, d>>
      PROVE  SameEntry(m, x)
  <2>1. CASE m = n
    BY <1>3, <1>5, <1>6, <2>1 DEF SameEntry
  <2>2. CASE m # n
    BY <1>5, <2>2 DEF SameEntry
  <2> QED
    BY <2>1, <2>2
<1>7. ASSUME NEW m \in Node, NEW x \in Data, x \in DOMAIN data'[m]
      PROVE  data'[m][x].value = <<>> \/ Len(data'[m][x].value) = Size[x]
  <2>1. CASE m = n /\ x = d
    BY <1>3, <1>5, <2>1
  <2>2. CASE <<m, x>> # <<n, d>>
    BY <1>6, <1>7, <2>2 DEF SameEntry, DataTypes
  <2> QED
    BY <2>1, <2>2
<1> QED
  BY <1>3, <1>5, <1>6, <1>7 DEF DataStep

\* Erasing an entry takes that entry out only.
LEMMA EraseSteps ==
  ASSUME DataTypes, NEW n \in Node, NEW d \in Data, data' = Erase(n, d)
  PROVE  /\ DataStep
         /\ d \notin DOMAIN data'[n]
         /\ \A m \in Node, x \in Data : <<m, x>> # <<n, d>> => SameEntry(m, x)
<1> DEFINE f == [x \in DOMAIN data[n] \ {d} |-> data[n][x]]
<1>1. data \in [Node -> Maps] /\ data[n] \in Maps
  BY DEF DataTypes
<1>2. data' = [data EXCEPT ![n] = f]
  BY DEF Erase
<1>3. /\ DOMAIN f = DOMAIN data[n] \ {d}
      /\ \A x \in DOMAIN data[n] : x # d => f[x] = data[n][x]
      /\ f = [x \in DOMAIN f |-> f[x]]
  OBVIOUS
<1>4. f \in Maps
  <2>1. DOMAIN f \in SUBSET Data /\ \A x \in DOMAIN f : f[x] \in Item
    BY <1>1, <1>3, MapTypes
  <2> HIDE DEF f
  <2> QED
    BY <1>3, <2>1, MapMade
<1> HIDE DEF f
<1>5. data' \in [Node -> Maps] /\ data'[n] = f /\ \A m \in Node \ {n} : data'[m] = data[m]
  BY <1>1, <1>2, <1>4
<1>6. ASSUME NEW m \in Node, NEW x \in Data, <<m, x>> # <<n, d>>
      PROVE  SameEntry(m, x)
  <2>1. CASE m = n
    BY <1>3, <1>5, <1>6, <2>1 DEF SameEntry
  <2>2. CASE m # n
    BY <1>5, <2>2 DEF SameEntry
  <2> QED
    BY <2>1, <2>2
<1>7. ASSUME NEW m \in Node, NEW x \in Data, x \in DOMAIN data'[m]
      PROVE  data'[m][x].value = <<>> \/ Len(data'[m][x].value) = Size[x]
  <2>1. <<m, x>> # <<n, d>>
    BY <1>3, <1>5, <1>7
  <2> QED
    BY <1>6, <1>7, <2>1 DEF SameEntry, DataTypes
<1> QED
  BY <1>3, <1>5, <1>6, <1>7 DEF DataStep

\* A map that does not change.
LEMMA KeepSteps ==
  ASSUME DataTypes, data' = data
  PROVE  DataStep /\ \A m \in Node, x \in Data : SameEntry(m, x)
BY DEF DataTypes, DataStep, SameEntry

\* map::operator[] makes an entry when there is none, and changes no other.
LEMMA LookupSteps ==
  ASSUME DataTypes, NEW n \in Node, NEW d \in Data, data' = Lookup(n, d)
  PROVE  /\ DataStep
         /\ d \in DOMAIN data'[n]
         /\ d \in DOMAIN data[n] => SameEntry(n, d)
         /\ d \notin DOMAIN data[n] => data'[n][d] = Entry(FALSE, <<>>)
         /\ \A m \in Node, x \in Data : <<m, x>> # <<n, d>> => SameEntry(m, x)
<1>1. CASE d \in DOMAIN data[n]
  <2>1. data' = data
    BY <1>1 DEF Lookup
  <2> QED
    BY <1>1, <2>1, KeepSteps
<1>2. CASE d \notin DOMAIN data[n]
  <2> DEFINE e == Entry(FALSE, <<>>)
  <2>1. data' = Store(n, d, e)
    BY <1>2 DEF Lookup
  <2>2. e \in Item /\ e.value = <<>>
    BY DEF Entry, Item
  <2>3. e = Entry(FALSE, <<>>)
    OBVIOUS
  <2> HIDE DEF e
  <2>4. /\ DataStep
        /\ d \in DOMAIN data'[n] /\ data'[n][d] = e
        /\ \A m \in Node, x \in Data : <<m, x>> # <<n, d>> => SameEntry(m, x)
    BY <2>1, <2>2, StoreSteps
  <2> QED
    BY <1>2, <2>3, <2>4
<1> QED
  BY <1>1, <1>2

\* A status that is set, and those that are not.
LEMMA StatusSteps ==
  ASSUME DataTypes
  PROVE  /\ status' = status => StatusStep /\ \A m \in Node, x \in Data : SameStatus(m, x)
         /\ \A n \in Node, d \in Data, s \in {"ready", "downloading"} :
              status' = SetStatus(n, d, s) =>
                /\ StatusStep /\ status'[n][d] = s
                /\ \A m \in Node, x \in Data : <<m, x>> # <<n, d>> => SameStatus(m, x)
<1>1. status \in [Node -> [Data -> {"ready", "downloading"}]]
  BY DEF DataTypes
<1>2. ASSUME status' = status
      PROVE  StatusStep /\ \A m \in Node, x \in Data : SameStatus(m, x)
  BY <1>1, <1>2 DEF StatusStep, SameStatus
<1>3. ASSUME NEW n \in Node, NEW d \in Data, NEW s \in {"ready", "downloading"},
             status' = SetStatus(n, d, s)
      PROVE  /\ StatusStep /\ status'[n][d] = s
             /\ \A m \in Node, x \in Data : <<m, x>> # <<n, d>> => SameStatus(m, x)
  <2> DEFINE f == [status[n] EXCEPT ![d] = s]
  <2>1. status' = [status EXCEPT ![n] = f]
    BY <1>3 DEF SetStatus
  <2>2. /\ f \in [Data -> {"ready", "downloading"}] /\ f[d] = s
        /\ \A x \in Data : x # d => f[x] = status[n][x]
    BY <1>1
  <2> HIDE DEF f
  <2>3. StatusStep /\ status'[n] = f
    BY <1>1, <2>1, <2>2 DEF StatusStep
  <2>4. ASSUME NEW m \in Node, NEW x \in Data, <<m, x>> # <<n, d>>
        PROVE  SameStatus(m, x)
    <3>1. CASE m = n
      BY <2>2, <2>3, <2>4, <3>1 DEF SameStatus
    <3>2. CASE m # n
      BY <1>1, <2>1, <3>2 DEF SameStatus
    <3> QED
      BY <3>1, <3>2
  <2> QED
    BY <2>2, <2>3, <2>4
<1> QED
  BY <1>2, <1>3

------------------------------------------------------------------------------
(* What is true of a replica that nothing has disturbed *)

Clean(n, d) == <<n, d>> \notin disturbed

\* The blocks that have been recorded are full, and of one version.
Filled(t) ==
  LET d == call[t].dat
      v == data[add[t].dest][d].value
  IN  add[t].blk > 0 =>
        /\ Len(v) = Size[d]
        /\ \A i \in 1..Size[d] : (i - 1) \div MaxMsgSize < add[t].blk
                                   => v[i] > 0 /\ v[i] = v[1]

\* Between addData() and the last use of its pointer the entry is there, and
\* it is "downloading" until the transfer is over.
WriterAt(t, n, d) ==
  t \in Writers(n, d) =>
    /\ t \notin dangling
    /\ d \in DOMAIN data[n]
    /\ status[n][d] = IF pc[t] \in {"unlock", "count"} THEN "ready" ELSE "downloading"
    /\ pc[t] \in {"unlock", "count", "uploaded"} => Whole(data[n][d].value, d)
    /\ pc[t] = "block" => Filled(t)

UserAt(t, n, d) == t \in Users(n, d) /\ alive[n] => isDataPresent(n, d)

SolverAt(t, n, d) ==
  pc[t] = "solve" /\ call[t].node = n /\ call[t].dat = d => Whole(read[t], d)

ThreadAt(t, n, d) == WriterAt(t, n, d) /\ UserAt(t, n, d) /\ SolverAt(t, n, d)

Busy(n, d) == Writers(n, d) \cup Borrowers(n, d)

\* What a ready entry holds.
Readable(n, d) ==
  alive[n] /\ isDataPresent(n, d) /\ data[n][d].desc =>
    \/ Whole(data[n][d].value, d)
    \/ data[n][d].value = <<>> /\ Borrowers(n, d) # {}

PairInv(n, d) ==
  Clean(n, d) =>
    /\ \A t, u \in Busy(n, d) : t = u
    /\ Readable(n, d)
    /\ \A t \in Thread : ThreadAt(t, n, d)

\* What a transfer reads: the source is whole, and of the version that the
\* destination has so far, until it is disturbed or its value is taken away.
Transfer(t) ==
  LET d == call[t].dat
      s == add[t].src
      n == add[t].dest
      v == data[s][d].value
  IN  pc[t] = "block" =>
        /\ d \in DOMAIN data[s]
        /\ Clean(s, d) => /\ status[s][d] = "ready"
                          /\ v # <<>> => Whole(v, d)
        /\ Clean(s, d) /\ Clean(n, d) /\ add[t].blk > 0 /\ v # <<>>
             => data[n][d].value[1] = v[1]

\* An add that a solver waits for is one to the solver's node.
ReturnAt(t) ==
  pc[t] \in AddPcs /\ add[t].ret = "use" => add[t].dest = call[t].node

ReadInv ==
  /\ LockInv /\ DataTypes
  /\ \A n \in Node, d \in Data : PairInv(n, d)
  /\ \A t \in Thread : Transfer(t) /\ ReturnAt(t)

WritePcs == {"getsrc", "sendLock", "block", "unlock", "count"}

\* Who is at work on a replica.
LEMMA Roles ==
  ASSUME NEW t \in Thread, NEW n, NEW d
  PROVE  /\ t \in Writers(n, d) <=>
              /\ call[t].dat = d
              /\ \/ pc[t] \in WritePcs /\ add[t].dest = n
                 \/ pc[t] \in {"replace", "uploaded"} /\ call[t].node = n
         /\ t \in Borrowers(n, d) <=>
              /\ pc[t] = "solve" /\ call[t].op = "INOUT"
              /\ call[t].node = n /\ call[t].dat = d
         /\ t \in Users(n, d) <=>
              pc[t] = "use" /\ call[t].node = n /\ call[t].dat = d
         /\ t \in Writers(n, d)' <=>
              /\ call'[t].dat = d
              /\ \/ pc'[t] \in WritePcs /\ add'[t].dest = n
                 \/ pc'[t] \in {"replace", "uploaded"} /\ call'[t].node = n
         /\ t \in Borrowers(n, d)' <=>
              /\ pc'[t] = "solve" /\ call'[t].op = "INOUT"
              /\ call'[t].node = n /\ call'[t].dat = d
         /\ t \in Users(n, d)' <=>
              pc'[t] = "use" /\ call'[t].node = n /\ call'[t].dat = d
BY DEF Writers, Borrowers, Users, WritePcs

\* Only threads are at work.
LEMMA Workers ==
  ASSUME NEW n, NEW d
  PROVE  /\ Writers(n, d) \subseteq Thread /\ Borrowers(n, d) \subseteq Thread
         /\ Users(n, d) \subseteq Thread /\ Busy(n, d) \subseteq Thread
         /\ Writers(n, d)' \subseteq Thread /\ Borrowers(n, d)' \subseteq Thread
         /\ Busy(n, d)' \subseteq Thread
BY DEF Writers, Borrowers, Users, Busy

\* A step of t leaves the others at work where they were.
LEMMA OthersRoles ==
  ASSUME NEW t \in Thread, Footprint(t), NEW u \in Thread \ {t}, NEW n, NEW d
  PROVE  /\ u \in Writers(n, d)' <=> u \in Writers(n, d)
         /\ u \in Borrowers(n, d)' <=> u \in Borrowers(n, d)
         /\ u \in Users(n, d)' <=> u \in Users(n, d)
<1>1. pc'[u] = pc[u] /\ call'[u] = call[u] /\ add'[u] = add[u] /\ u \in Thread
  BY DEF Footprint, FramesStep, PcStep, CallStep, AddStep
<1> QED
  BY <1>1, Roles

\* What t leaves of the histories.
HistoryStep(t) ==
  /\ disturbed \subseteq disturbed'
  /\ read' \in [Thread -> Seq(Nat)]
  /\ \A u \in Thread \ {t} : read'[u] = read[u]

\* What a step of t keeps of another thread, at a replica that the step does
\* not change.
LEMMA OthersKept ==
  ASSUME NEW t \in Thread, Footprint(t), HistoryStep(t),
         NEW u \in Thread \ {t}, NEW n \in Node, NEW d \in Data, ThreadAt(u, n, d),
         SameEntry(n, d), SameStatus(n, d),
         u \in dangling' => u \in dangling \/ u \notin Writers(n, d)
  PROVE  ThreadAt(u, n, d)'
<1>1. /\ pc'[u] = pc[u] /\ call'[u] = call[u] /\ add'[u] = add[u]
      /\ read'[u] = read[u] /\ u \in Thread
      /\ alive'[n] => alive[n]
  BY DEF Footprint, FramesStep, PcStep, CallStep, AddStep, AliveStep, HistoryStep
<1>2. /\ u \in Writers(n, d)' <=> u \in Writers(n, d)
      /\ u \in Users(n, d)' <=> u \in Users(n, d)
  BY OthersRoles
<1>3. WriterAt(u, n, d)'
  <2> SUFFICES ASSUME u \in Writers(n, d)'
               PROVE  /\ u \notin dangling'
                      /\ d \in DOMAIN data'[n]
                      /\ status'[n][d] = IF pc'[u] \in {"unlock", "count"}
                                           THEN "ready" ELSE "downloading"
                      /\ pc'[u] \in {"unlock", "count", "uploaded"} => Whole(data'[n][d].value, d)
                      /\ pc'[u] = "block" => Filled(u)'
    BY DEF WriterAt
  <2>1. /\ u \in Writers(n, d) /\ u \notin dangling
        /\ d \in DOMAIN data[n]
        /\ status[n][d] = IF pc[u] \in {"unlock", "count"} THEN "ready" ELSE "downloading"
        /\ pc[u] \in {"unlock", "count", "uploaded"} => Whole(data[n][d].value, d)
        /\ pc[u] = "block" => Filled(u)
    BY <1>2 DEF ThreadAt, WriterAt
  <2>2. d \in DOMAIN data'[n] /\ data'[n][d] = data[n][d] /\ status'[n][d] = status[n][d]
    BY <2>1 DEF SameEntry, SameStatus
  <2>3. pc'[u] = "block" => Filled(u)'
    <3>1. pc[u] = "block" => add[u].dest = n /\ call[u].dat = d
      BY <2>1, Roles DEF WritePcs
    <3>2. pc[u] = "block" =>
            data'[add'[u].dest][call'[u].dat] = data[add[u].dest][call[u].dat]
      BY <1>1, <2>2, <3>1
    <3>3. SUFFICES ASSUME pc[u] = "block" PROVE Filled(u)'
      BY <1>1
    <3>4. Filled(u) /\ add'[u] = add[u] /\ call'[u] = call[u]
          /\ data'[add'[u].dest][call'[u].dat] = data[add[u].dest][call[u].dat]
      BY <1>1, <2>1, <3>2, <3>3
    <3> QED
      BY <3>4, Zenon DEF Filled
  <2> QED
    BY <1>1, <2>1, <2>2, <2>3
<1>4. UserAt(u, n, d)'
  BY <1>1, <1>2 DEF ThreadAt, UserAt, isDataPresent, SameEntry, SameStatus
<1>5. SolverAt(u, n, d)'
  BY <1>1 DEF ThreadAt, SolverAt
<1> QED
  BY <1>3, <1>4, <1>5 DEF ThreadAt

\* A replica that a step of t does not change.
LEMMA PairKept ==
  ASSUME ReadInv, NEW t \in Thread, Footprint(t), HistoryStep(t),
         NEW n \in Node, NEW d \in Data, SameEntry(n, d), SameStatus(n, d),
         \A u \in Thread \ {t} : u \in dangling' => u \in dangling \/ u \notin Writers(n, d),
         Clean(n, d)' => ThreadAt(t, n, d)',
         t \in Busy(n, d)' => t \in Busy(n, d),
         t \in Borrowers(n, d) => t \in Borrowers(n, d)' \/ ~alive'[n]
  PROVE  PairInv(n, d)'
<1> SUFFICES ASSUME Clean(n, d)'
             PROVE  /\ \A v, u \in Busy(n, d)' : v = u
                    /\ Readable(n, d)'
                    /\ \A u \in Thread : ThreadAt(u, n, d)'
  BY DEF PairInv
<1>1. Clean(n, d)
  BY DEF Clean, HistoryStep
<1>2. /\ \A v, u \in Busy(n, d) : v = u
      /\ Readable(n, d)
      /\ \A u \in Thread : ThreadAt(u, n, d)
  BY <1>1 DEF ReadInv, PairInv
<1>3. Busy(n, d)' \subseteq Busy(n, d)
  BY Workers, OthersRoles DEF Busy
<1>4. Readable(n, d)'
  <2> SUFFICES ASSUME alive'[n], isDataPresent(n, d)', data'[n][d].desc
               PROVE  \/ Whole(data'[n][d].value, d)
                      \/ data'[n][d].value = <<>> /\ Borrowers(n, d)' # {}
    BY DEF Readable
  <2>1. alive[n] /\ isDataPresent(n, d) /\ data'[n][d] = data[n][d]
    BY DEF isDataPresent, SameEntry, SameStatus, Footprint, AliveStep
  <2>2. \/ Whole(data[n][d].value, d)
        \/ data[n][d].value = <<>> /\ Borrowers(n, d) # {}
    BY <1>2, <2>1 DEF Readable
  <2>3. Borrowers(n, d) # {} => Borrowers(n, d)' # {}
    <3>1. ASSUME NEW b \in Borrowers(n, d) PROVE b \in Borrowers(n, d)'
      BY Workers, OthersRoles
    <3> QED
      BY <3>1
  <2> QED
    BY <2>1, <2>2, <2>3
<1>5. ASSUME NEW u \in Thread PROVE ThreadAt(u, n, d)'
  <2>1. CASE u = t
    BY <2>1
  <2>2. CASE u # t
    BY <1>2, <2>2, OthersKept
  <2> QED
    BY <2>1, <2>2
<1> QED
  BY <1>2, <1>3, <1>4, <1>5

\* What must stay of the source and of the destination of a transfer.
SourceSteady(s, d) ==
  d \in DOMAIN data[s] =>
    /\ d \in DOMAIN data'[s]
    /\ <<s, d>> \notin disturbed' =>
         /\ status[s][d] = "ready" => status'[s][d] = "ready"
         /\ \/ data'[s][d].value = <<>>
            \/ data'[s][d].value = data[s][d].value
DestSteady(n, d) ==
  d \in DOMAIN data[n] /\ <<n, d>> \notin disturbed'
    => data'[n][d].value = data[n][d].value

\* A step that leaves an entry alone cannot hurt a transfer from it or to it.
LEMMA SameIsSteady ==
  ASSUME NEW n, NEW d, SameEntry(n, d), SameStatus(n, d)
  PROVE  SourceSteady(n, d) /\ DestSteady(n, d)
BY DEF SameEntry, SameStatus, SourceSteady, DestSteady

\* The transfer of another thread, when its two replicas stay as they are.
LEMMA TransferKept ==
  ASSUME ReadInv, NEW t \in Thread, Footprint(t), HistoryStep(t),
         NEW u \in Thread \ {t},
         pc[u] = "block" => /\ SourceSteady(add[u].src, call[u].dat)
                            /\ DestSteady(add[u].dest, call[u].dat)
  PROVE  Transfer(u)'
<1>1. pc'[u] = pc[u] /\ call'[u] = call[u] /\ add'[u] = add[u]
  BY DEF Footprint, FramesStep, PcStep, CallStep, AddStep
<1> SUFFICES ASSUME pc[u] = "block" PROVE Transfer(u)'
  BY <1>1 DEF Transfer
<1>3. PICK s \in Node, n \in Node, d \in Data :
        s = add[u].src /\ n = add[u].dest /\ d = call[u].dat
  BY FrameFields DEF ReadInv, LockInv
<1>4. /\ d \in DOMAIN data[s]
      /\ Clean(s, d) => /\ status[s][d] = "ready"
                        /\ data[s][d].value # <<>> => Whole(data[s][d].value, d)
      /\ Clean(s, d) /\ Clean(n, d) /\ add[u].blk > 0 /\ data[s][d].value # <<>>
             => data[n][d].value[1] = data[s][d].value[1]
  <2>1. Transfer(u)
    BY DEF ReadInv
  <2> QED
    BY <1>3, <2>1 DEF Transfer
<1>5. Clean(n, d) => d \in DOMAIN data[n]
  <2>1. u \in Writers(n, d)
    BY <1>3, Roles DEF WritePcs
  <2> QED
    BY <1>3, <2>1 DEF ReadInv, PairInv, ThreadAt, WriterAt
<1>6. SourceSteady(s, d) /\ DestSteady(n, d)
  BY <1>3
<1>7. /\ Clean(s, d)' <=> <<s, d>> \notin disturbed'
      /\ Clean(n, d)' <=> <<n, d>> \notin disturbed'
      /\ Clean(s, d)' => Clean(s, d)
      /\ Clean(n, d)' => Clean(n, d)
  BY DEF Clean, HistoryStep
<1>8. /\ d \in DOMAIN data'[s]
      /\ Clean(s, d)' => /\ status'[s][d] = "ready"
                         /\ \/ data'[s][d].value = <<>>
                            \/ data'[s][d].value = data[s][d].value
  BY <1>4, <1>6, <1>7 DEF SourceSteady
<1>9. Clean(n, d)' => data'[n][d].value = data[n][d].value
  BY <1>5, <1>6, <1>7 DEF DestSteady
<1>10. Clean(s, d)' => (data'[s][d].value # <<>> => Whole(data'[s][d].value, d))
  BY <1>4, <1>7, <1>8
<1>11. ASSUME Clean(s, d)', Clean(n, d)', add[u].blk > 0, data'[s][d].value # <<>>
       PROVE  data'[n][d].value[1] = data'[s][d].value[1]
  <2>1. /\ Clean(s, d) /\ Clean(n, d) /\ data'[s][d].value = data[s][d].value
        /\ data'[n][d].value = data[n][d].value
    BY <1>7, <1>8, <1>9, <1>11
  <2> QED
    BY <1>4, <1>11, <2>1
<1> QED
  BY <1>1, <1>3, <1>8, <1>10, <1>11 DEF Transfer

\* What t is at a replica that its step does not change.
OwnRoles(t, n, d) ==
  /\ Clean(n, d)' => ThreadAt(t, n, d)'
  /\ t \in Busy(n, d)' => t \in Busy(n, d)
  /\ t \in Borrowers(n, d) => t \in Borrowers(n, d)' \/ ~alive'[n]

Undangled(t, n, d) ==
  \A u \in Thread \ {t} : u \in dangling' => u \in dangling \/ u \notin Writers(n, d)

\* A step that changes at most the replica of x on m.
LEMMA FocalStep ==
  ASSUME ReadInv, NEW t \in Thread, LockInv', Footprint(t), HistoryStep(t),
         DataStep, StatusStep,
         NEW m \in Node, NEW x \in Data,
         \A n \in Node, d \in Data : <<n, d>> # <<m, x>> =>
           SameEntry(n, d) /\ SameStatus(n, d) /\ Undangled(t, n, d) /\ OwnRoles(t, n, d),
         PairInv(m, x)',
         \A u \in Thread \ {t} : pc[u] = "block" /\ call[u].dat = x =>
           /\ add[u].src = m => SourceSteady(m, x)
           /\ add[u].dest = m => DestSteady(m, x),
         Transfer(t)', ReturnAt(t)'
  PROVE  ReadInv'
<1>1. DataTypes'
  BY DEF DataTypes, DataStep, StatusStep, HistoryStep
<1>2. ASSUME NEW n \in Node, NEW d \in Data PROVE PairInv(n, d)'
  <2>1. CASE <<n, d>> = <<m, x>>
    BY <2>1
  <2>2. CASE <<n, d>> # <<m, x>>
    BY <2>2, PairKept DEF Undangled, OwnRoles
  <2> QED
    BY <2>1, <2>2
<1>3. ASSUME NEW u \in Thread PROVE Transfer(u)'
  <2>1. CASE u = t
    BY <2>1
  <2>2. CASE u # t
    <3>1. ASSUME pc[u] = "block"
          PROVE  /\ SourceSteady(add[u].src, call[u].dat)
                 /\ DestSteady(add[u].dest, call[u].dat)
      <4>1. add[u].src \in Node /\ add[u].dest \in Node /\ call[u].dat \in Data
        BY FrameFields DEF ReadInv, LockInv
      <4>2. SourceSteady(add[u].src, call[u].dat)
        <5>1. CASE <<add[u].src, call[u].dat>> = <<m, x>>
          BY <2>2, <3>1, <5>1
        <5>2. CASE <<add[u].src, call[u].dat>> # <<m, x>>
          BY <4>1, <5>2, SameIsSteady
        <5> QED
          BY <5>1, <5>2
      <4>3. DestSteady(add[u].dest, call[u].dat)
        <5>1. CASE <<add[u].dest, call[u].dat>> = <<m, x>>
          BY <2>2, <3>1, <5>1
        <5>2. CASE <<add[u].dest, call[u].dat>> # <<m, x>>
          BY <4>1, <5>2, SameIsSteady
        <5> QED
          BY <5>1, <5>2
      <4> QED
        BY <4>2, <4>3
    <3> QED
      BY <2>2, <3>1, TransferKept
  <2> QED
    BY <2>1, <2>2
<1>4. ASSUME NEW u \in Thread PROVE ReturnAt(u)'
  <2>1. CASE u = t
    BY <2>1
  <2>2. CASE u # t
    <3>1. pc'[u] = pc[u] /\ call'[u] = call[u] /\ add'[u] = add[u] /\ ReturnAt(u)
      BY <2>2 DEF Footprint, FramesStep, PcStep, CallStep, AddStep, ReadInv
    <3> QED
      BY <3>1 DEF ReturnAt
  <2> QED
    BY <2>1, <2>2
<1> QED
  BY <1>1, <1>2, <1>3, <1>4 DEF ReadInv

\* A step that changes no replica.
LEMMA QuietStep ==
  ASSUME ReadInv, NEW t \in Thread, LockInv', Footprint(t), HistoryStep(t),
         data' = data, status' = status, dangling' = dangling,
         \A n \in Node, d \in Data : OwnRoles(t, n, d),
         Transfer(t)', ReturnAt(t)'
  PROVE  ReadInv'
<1>1. /\ DataStep /\ StatusStep
      /\ \A n \in Node, d \in Data : /\ SameEntry(n, d) /\ SameStatus(n, d)
                                     /\ Undangled(t, n, d)
  BY KeepSteps, StatusSteps DEF ReadInv, Undangled
<1>2. PICK x \in Data : TRUE
  BY DagdaAssumption
<1>3. Root \in Node
  BY Nodes
<1>4. PairInv(Root, x)'
  BY <1>1, <1>3, PairKept DEF Undangled, OwnRoles
<1>5. SourceSteady(Root, x) /\ DestSteady(Root, x)
  BY <1>1, <1>3, SameIsSteady
<1> QED
  BY <1>1, <1>3, <1>4, <1>5, FocalStep

\* A thread that is not at work on any replica.
OffWork == Pcs \ (WritePcs \cup {"replace", "uploaded", "solve", "use"})

\* A thread that leaves the work on a replica gives its role up, and has no transfer.
LEMMA OffWorkRoles ==
  ASSUME ReadInv, NEW t \in Thread, pc'[t] \in OffWork,
         pc[t] = "solve" /\ call[t].op = "INOUT" => ~alive'[call[t].node],
         NEW n \in Node, NEW d \in Data
  PROVE  OwnRoles(t, n, d) /\ Transfer(t)'
<1>1. /\ t \notin Writers(n, d)' /\ t \notin Borrowers(n, d)' /\ t \notin Users(n, d)'
      /\ pc'[t] # "solve" /\ pc'[t] # "block"
  BY Roles DEF OffWork, WritePcs
<1>2. ThreadAt(t, n, d)'
  BY <1>1 DEF ThreadAt, WriterAt, UserAt, SolverAt
<1>3. t \in Borrowers(n, d) => ~alive'[n]
  BY Roles
<1> QED
  BY <1>1, <1>2, <1>3 DEF OwnRoles, Busy, Transfer

\* A step that changes no replica and ends off work.
LEMMA OffWorkStep ==
  ASSUME ReadInv, NEW t \in Thread, LockInv', Footprint(t),
         data' = data, status' = status, dangling' = dangling, read' = read,
         disturbed \subseteq disturbed',
         pc'[t] \in OffWork,
         pc[t] = "solve" /\ call[t].op = "INOUT" => ~alive'[call[t].node],
         pc'[t] \in AddPcs /\ add'[t].ret = "use" => add'[t].dest = call'[t].node
  PROVE  ReadInv'
<1>1. HistoryStep(t)
  BY DEF HistoryStep, ReadInv, DataTypes
<1>2. PICK n \in Node, d \in Data : TRUE
  BY DagdaAssumption, Nodes
<1>3. Transfer(t)' /\ \A m \in Node, x \in Data : OwnRoles(t, m, x)
  BY <1>2, OffWorkRoles
<1>4. ReturnAt(t)'
  BY DEF ReturnAt
<1> QED
  BY <1>1, <1>3, <1>4, QuietStep

\* A step that stores nothing, before and after which t is at work on no replica.
OffStep(t) ==
  /\ pc[t] \in OffWork /\ pc'[t] \in OffWork
  /\ pc'[t] \in AddPcs => \/ add'[t].ret # "use"
                          \/ add'[t].dest = call'[t].node
  /\ data' = data /\ status' = status /\ usedMem' = usedMem
  /\ dangling' = dangling /\ read' = read /\ disturbed' = disturbed

\* The search touches no entry but by the removal, which is apart,
LEMMA WalksAreOff ==
  ASSUME ReadInv, NEW t \in Thread,
         \/ Start(t) \/ LclPresent(t) \/ LockChildren(t) \/ VisitChild(t)
         \/ ChildFails(t) \/ RootFails(t) \/ EndWalk(t)
         \/ VisitRoot(t) /\ walk[t].why # "remove"
  PROVE  OffStep(t)
<1>f. FrameTypes
  BY DEF ReadInv, LockInv
<1>p. {"root", "lcl", "add", "lock", "refresh", "child", "childRem", "failed", "lcl2",
       "done", "idle"} \subseteq OffWork
  BY DEF OffWork, Pcs, Over, WalkPcs, AddPcs, UsePcs, WritePcs
<1>q. ASSUME NEW found \in BOOLEAN, Present(t, found)
      PROVE  /\ pc'[t] \in {"root", "done", "add"}
             /\ pc'[t] \in AddPcs => add'[t].dest = call[t].node
  BY <1>f, <1>q, PresentSteps DEF AddPcs
<1> DEFINE Off == /\ pc'[t] \in {"root", "lcl", "add", "lock", "refresh", "child",
                                 "childRem", "failed", "lcl2", "done"}
                  /\ pc'[t] \in AddPcs => \/ add'[t].ret # "use"
                                          \/ add'[t].dest = call'[t].node
                  /\ pc[t] \in {"idle", "lcl", "root", "lock", "child", "childRem"}
                  /\ data' = data /\ status' = status /\ usedMem' = usedMem
                  /\ dangling' = dangling
                  /\ read' = read /\ disturbed' = disturbed
<1>g. ASSUME NEW s, s \in {"root", "lcl", "lock", "child", "childRem", "failed",
                           "lcl2", "done"},
             pc' = [pc EXCEPT ![t] = s]
      PROVE  /\ pc'[t] \in {"root", "lcl", "add", "lock", "refresh", "child",
                            "childRem", "failed", "lcl2", "done"}
             /\ pc'[t] \notin AddPcs
  BY <1>f, <1>g DEF FrameTypes, AddPcs
<1>1. CASE Start(t)
  <2>1. PICK c \in Calls[t] : pc' = [pc EXCEPT ![t] = IF c[1] = "remove" THEN "root" ELSE "lcl"]
    BY <1>1 DEF Start
  <2>2. pc[t] = "idle"
    BY <1>1 DEF Start
  <2>3. Off
    BY <1>1, <1>g, <2>1, <2>2 DEF Start, store, history
  <2> QED
    BY <1>p, <2>3 DEF OffStep
<1>2. CASE LclPresent(t)
  <2>1. pc[t] = "lcl" /\ call' = call
    BY <1>2 DEF LclPresent
  <2>2. /\ data' = data /\ status' = status /\ usedMem' = usedMem
        /\ dangling' = dangling /\ read' = read /\ disturbed' = disturbed
    BY <1>2 DEF LclPresent, store, history
  <2>3. Present(t, TRUE) \/ Begin(t, "present")
    BY <1>2 DEF LclPresent
  <2>4. CASE Present(t, TRUE)
    <3>1. Off
      BY <1>q, <2>1, <2>2, <2>4
    <3> QED
      BY <1>p, <3>1 DEF OffStep
  <2>5. CASE Begin(t, "present")
    <3>1. Off
      BY <1>g, <2>1, <2>2, <2>5 DEF Begin
    <3> QED
      BY <1>p, <3>1 DEF OffStep
  <2> QED
    BY <2>3, <2>4, <2>5
<1>3. CASE LockChildren(t)
  <2>1. Off
    BY <1>3, <1>g DEF LockChildren, store, history
  <2> QED
    BY <1>p, <2>1 DEF OffStep
<1>4. CASE VisitChild(t)
  <2>1. /\ pc[t] = "child" /\ call' = call
        /\ data' = data /\ status' = status /\ usedMem' = usedMem
        /\ dangling' = dangling /\ read' = read /\ disturbed' = disturbed
    BY <1>4 DEF VisitChild, store, history
  <2>2. \/ Present(t, TRUE)
        \/ pc' = pc
        \/ pc' = [pc EXCEPT ![t] = "childRem"]
        \/ /\ pc' = [pc EXCEPT ![t] = "refresh"]
           /\ add' = [add EXCEPT ![t].dest = Head(walk[t].todo), ![t].ret = "child"]
    <3> DEFINE w == walk[t]
               c == Head(w.todo)
               d == call[t].dat
               A == w.why = "present" /\ isDataPresent(c, d)
               B == w.why = "managers"
               C == w.why = "remove" /\ isDataPresent(c, d)
               D == w.why = "update" /\ isDataPresent(c, d) /\ c # call[t].node
    <3>1. CASE A
      BY <1>4, <3>1, Zenon DEF VisitChild
    <3>2. CASE B
      BY <1>4, <3>2 DEF VisitChild
    <3>3. CASE C
      BY <1>4, <3>3 DEF VisitChild
    <3>4. CASE D
      BY <1>4, <3>4 DEF VisitChild
    <3>5. CASE ~A /\ ~B /\ ~C /\ ~D
      BY <1>4, <3>5 DEF VisitChild
    <3> QED
      BY <3>1, <3>2, <3>3, <3>4, <3>5
  <2>3. CASE Present(t, TRUE)
    <3>1. Off
      BY <1>q, <2>1, <2>3
    <3> QED
      BY <1>p, <3>1 DEF OffStep
  <2>4. CASE pc' = pc
    <3>1. Off
      BY <2>1, <2>4 DEF AddPcs
    <3> QED
      BY <1>p, <3>1 DEF OffStep
  <2>5. CASE pc' = [pc EXCEPT ![t] = "childRem"]
    <3>1. Off
      BY <1>g, <2>1, <2>5
    <3> QED
      BY <1>p, <3>1 DEF OffStep
  <2>6. CASE /\ pc' = [pc EXCEPT ![t] = "refresh"]
             /\ add' = [add EXCEPT ![t].dest = Head(walk[t].todo), ![t].ret = "child"]
    <3>1. pc'[t] = "refresh" /\ add'[t].ret = "child"
      <4> DEFINE c == Head(walk[t].todo)
      <4>1. add' = [add EXCEPT ![t].dest = c, ![t].ret = "child"]
        BY <2>6
      <4> HIDE DEF c
      <4> QED
        BY <1>f, <2>6, <4>1 DEF FrameTypes, AddFrames
    <3>2. Off
      BY <2>1, <3>1
    <3> QED
      BY <1>p, <3>2 DEF OffStep
  <2> QED
    BY <2>2, <2>3, <2>4, <2>5, <2>6
<1>5. CASE ChildFails(t)
  <2>1. Off
    BY <1>5, <1>g DEF ChildFails, store, history
  <2> QED
    BY <1>p, <2>1 DEF OffStep
<1>6. CASE RootFails(t)
  <2>1. Off
    BY <1>6, <1>g DEF RootFails, store, history
  <2> QED
    BY <1>p, <2>1 DEF OffStep
<1>7. CASE EndWalk(t)
  <2>1. /\ pc[t] = "child" /\ call' = call
        /\ data' = data /\ status' = status /\ usedMem' = usedMem
        /\ dangling' = dangling /\ read' = read /\ disturbed' = disturbed
    BY <1>7 DEF EndWalk, store, history
  <2>2. \/ Present(t, FALSE)
        \/ \E s \in {"failed", "done", "lcl2"} : pc' = [pc EXCEPT ![t] = s]
    <3> DEFINE w == walk[t]
    <3>1. CASE w.why = "present"
      BY <1>7, <3>1 DEF EndWalk
    <3>2. CASE w.why = "managers" /\ w.found = <<>>
      BY <1>7, <3>2 DEF EndWalk
    <3>3. CASE w.why = "managers" /\ w.found # <<>>
      BY <1>7, <3>3 DEF EndWalk
    <3>4. CASE w.why \notin {"present", "managers"}
      BY <1>7, <3>4 DEF EndWalk
    <3> QED
      BY <3>1, <3>2, <3>3, <3>4
  <2>3. CASE Present(t, FALSE)
    <3>1. Off
      BY <1>q, <2>1, <2>3
    <3> QED
      BY <1>p, <3>1 DEF OffStep
  <2>4. CASE \E s \in {"failed", "done", "lcl2"} : pc' = [pc EXCEPT ![t] = s]
    <3>1. Off
      BY <1>g, <2>1, <2>4
    <3> QED
      BY <1>p, <3>1 DEF OffStep
  <2> QED
    BY <2>2, <2>3, <2>4
<1>8. CASE VisitRoot(t) /\ walk[t].why # "remove"
  <2>1. pc[t] = "root" /\ call' = call
    BY <1>8 DEF VisitRoot
  <2>2. walk[t].why \in {"present", "managers", "update"}
    BY <1>f, <1>8, FrameFields DEF Whys
  <2>3. /\ data' = data /\ status' = status /\ usedMem' = usedMem
        /\ dangling' = dangling /\ read' = read /\ disturbed' = disturbed
        /\ \/ Present(t, TRUE)
           \/ pc' = [pc EXCEPT ![t] = "lock"]
           \/ /\ add' = [add EXCEPT ![t].dest = Root, ![t].ret = "lock"]
              /\ pc' = [pc EXCEPT ![t] = "refresh"]
    <3>1. CASE walk[t].why = "present"
      BY <1>8, <3>1 DEF VisitRoot, store, history
    <3>2. CASE walk[t].why = "managers"
      BY <1>8, <3>2 DEF VisitRoot, store, history
    <3>3. CASE walk[t].why = "update"
      BY <1>8, <3>3 DEF VisitRoot, store, history
    <3> QED
      BY <2>2, <3>1, <3>2, <3>3
  <2>4. CASE Present(t, TRUE)
    <3>1. Off
      BY <1>q, <2>1, <2>3, <2>4
    <3> QED
      BY <1>p, <3>1 DEF OffStep
  <2>5. CASE pc' = [pc EXCEPT ![t] = "lock"]
    <3>1. Off
      BY <1>g, <2>1, <2>3, <2>5
    <3> QED
      BY <1>p, <3>1 DEF OffStep
  <2>6. CASE /\ add' = [add EXCEPT ![t].dest = Root, ![t].ret = "lock"]
             /\ pc' = [pc EXCEPT ![t] = "refresh"]
    <3>1. pc'[t] = "refresh" /\ add'[t].ret = "lock"
      BY <1>f, <2>6 DEF FrameTypes, AddFrames
    <3>2. Off
      BY <2>1, <2>3, <3>1
    <3> QED
      BY <1>p, <3>2 DEF OffStep
  <2> QED
    BY <2>3, <2>4, <2>5, <2>6
<1> QED
  BY <1>1, <1>2, <1>3, <1>4, <1>5, <1>6, <1>7, <1>8

\* so that it keeps the invariant,
LEMMA WalksKeepReads ==
  ASSUME ReadInv, NEW t \in Thread, LockInv', Footprint(t),
         \/ Start(t) \/ LclPresent(t) \/ LockChildren(t) \/ VisitChild(t)
         \/ ChildFails(t) \/ RootFails(t) \/ EndWalk(t)
         \/ VisitRoot(t) /\ walk[t].why # "remove"
  PROVE  ReadInv'
<1>1. OffStep(t)
  BY WalksAreOff
<1>2. pc[t] # "solve"
  BY <1>1 DEF OffStep, OffWork
<1> QED
  BY <1>1, <1>2, OffWorkStep DEF OffStep

\* A step that changes no replica, after which t knows its datum to be there.
LEMMA ToUseStep ==
  ASSUME ReadInv, NEW t \in Thread, LockInv', Footprint(t),
         data' = data, status' = status, dangling' = dangling, read' = read,
         disturbed \subseteq disturbed', call' = call,
         pc'[t] = "use", pc[t] # "solve",
         <<call[t].node, call[t].dat>> \notin disturbed' /\ alive[call[t].node]
           => isDataPresent(call[t].node, call[t].dat)
  PROVE  ReadInv'
<1>1. HistoryStep(t)
  BY DEF HistoryStep, ReadInv, DataTypes
<1>2. Transfer(t)' /\ ReturnAt(t)'
  BY DEF Transfer, ReturnAt, AddPcs
<1>3. ASSUME NEW n \in Node, NEW d \in Data PROVE OwnRoles(t, n, d)
  <2>1. /\ t \notin Writers(n, d)' /\ t \notin Borrowers(n, d)'
        /\ t \notin Borrowers(n, d)
        /\ t \in Users(n, d)' => n = call[t].node /\ d = call[t].dat
    BY Roles DEF WritePcs
  <2>2. ASSUME Clean(n, d)' PROVE UserAt(t, n, d)'
    <3>1. alive'[n] => alive[n]
      BY DEF Footprint, AliveStep
    <3> QED
      BY <2>1, <2>2, <3>1 DEF UserAt, Clean, isDataPresent
  <2>3. WriterAt(t, n, d)' /\ SolverAt(t, n, d)'
    BY <2>1 DEF WriterAt, SolverAt
  <2> QED
    BY <2>1, <2>2, <2>3 DEF OwnRoles, ThreadAt, Busy
<1> QED
  BY <1>1, <1>2, <1>3, QuietStep

\* The replica that an add writes.
LEMMA WriterFacts ==
  ASSUME ReadInv, NEW t \in Thread, pc[t] \in WritePcs,
         Clean(add[t].dest, call[t].dat)
  PROVE  WriterAt(t, add[t].dest, call[t].dat) /\ t \in Writers(add[t].dest, call[t].dat)
<1>1. add[t].dest \in Node /\ call[t].dat \in Data
  BY FrameFields DEF ReadInv, LockInv
<1> QED
  BY <1>1, Roles DEF ReadInv, PairInv, ThreadAt

\* as do the steps of a transfer that move no byte,
LEMMA AddsKeepReads ==
  ASSUME ReadInv, NEW t \in Thread, LockInv', Footprint(t),
         \/ CheckSpace(t) \/ CountSpace(t) \/ SourceFails(t) \/ DestFails(t)
         \/ SendLock(t) /\ dataMutex' = dataMutex
         \/ Evict(t) /\ Victims(add[t].dest, call[t].dat) = {}
  PROVE  ReadInv'
<1>f. FrameTypes /\ ReturnAt(t) /\ add[t].ret \in Rets
  BY FrameFields DEF ReadInv, LockInv
<1>p. {"child", "failed", "insert", "evict", "dead", "lock"} \subseteq OffWork
  BY DEF OffWork, Pcs, Over, WalkPcs, AddPcs, UsePcs, WritePcs
<1>1. /\ pc[t] \in AddPcs
      /\ data' = data /\ status' = status /\ dangling' = dangling /\ read' = read
      /\ disturbed \subseteq disturbed' /\ call' = call /\ add' = add
      /\ \/ \E comm \in BOOLEAN : Raise(t, comm)
         \/ \E s \in {"insert", "evict", "dead"} : pc' = [pc EXCEPT ![t] = s]
         \/ /\ pc' = [pc EXCEPT ![t] = add[t].ret]
            /\ <<add[t].dest, call[t].dat>> \notin disturbed'
                 => isDataPresent(add[t].dest, call[t].dat)
  <2>1. CASE CheckSpace(t)
    <3>1. /\ pc[t] = "add" /\ call' = call /\ add' = add
          /\ data' = data /\ status' = status /\ dangling' = dangling /\ read' = read
          /\ disturbed' = IF add[t].src = add[t].dest
                               /\ ~isDataPresent(add[t].dest, call[t].dat)
                            THEN disturbed \cup {<<add[t].dest, call[t].dat>>}
                            ELSE disturbed
          /\ \/ Raise(t, TRUE) \/ Raise(t, FALSE)
             \/ \E s \in {"insert", "evict"} : pc' = [pc EXCEPT ![t] = s]
             \/ add[t].src = add[t].dest /\ pc' = [pc EXCEPT ![t] = add[t].ret]
      BY <2>1 DEF CheckSpace, Disturb, store, frames
    <3> QED
      BY <3>1 DEF AddPcs
  <2>2. CASE CountSpace(t)
    <3>1. /\ pc[t] = "count" /\ call' = call /\ add' = add
          /\ data' = data /\ status' = status /\ dangling' = dangling /\ read' = read
          /\ disturbed' = disturbed /\ pc' = [pc EXCEPT ![t] = add[t].ret]
      BY <2>2 DEF CountSpace, frames, history
    <3>2. Clean(add[t].dest, call[t].dat) => isDataPresent(add[t].dest, call[t].dat)
      BY <3>1, WriterFacts DEF WriterAt, WritePcs, isDataPresent
    <3> QED
      BY <3>1, <3>2 DEF Clean, AddPcs
  <2>3. CASE SourceFails(t)
    BY <2>3 DEF SourceFails, store, frames, history, AddPcs
  <2>4. CASE DestFails(t)
    BY <2>4 DEF DestFails, store, frames, history, AddPcs
  <2>5. CASE SendLock(t) /\ dataMutex' = dataMutex
    <3>1. /\ pc[t] = "sendLock" /\ dataMutex[add[t].src] = NoThread
          /\ data' = data /\ status' = status /\ dangling' = dangling /\ read' = read
          /\ call' = call
      BY <2>5 DEF SendLock, CanLock, store
    <3>2. dataMutex' # [dataMutex EXCEPT ![add[t].src] = t]
      <4>1. t # NoThread /\ add[t].src \in Node
        BY <1>f, DagdaAssumption, FrameFields
      <4> QED
        BY <1>f, <2>5, <3>1, <4>1 DEF FrameTypes
    <3>3. \/ Raise(t, FALSE) /\ add' = add /\ disturbed' = disturbed
          \/ /\ pc' = [pc EXCEPT ![t] = add[t].ret] /\ add' = add
             /\ disturbed' = disturbed \cup {<<add[t].dest, call[t].dat>>}
      BY <2>5, <3>2 DEF SendLock, Disturb
    <3> QED
      BY <3>1, <3>3 DEF AddPcs
  <2>6. CASE Evict(t) /\ Victims(add[t].dest, call[t].dat) = {}
    BY <2>6 DEF Evict, store, AddPcs
  <2> QED
    BY <2>1, <2>2, <2>3, <2>4, <2>5, <2>6
<1>2. pc[t] # "solve" /\ PcStep(t)
  BY <1>1 DEF AddPcs, Footprint, FramesStep
<1>3. ASSUME pc'[t] \in OffWork PROVE ReadInv'
  <2>1. pc'[t] \in AddPcs /\ add'[t].ret = "use" => add'[t].dest = call'[t].node
    BY <1>f, <1>1 DEF ReturnAt
  <2> QED
    BY <1>1, <1>2, <1>3, <2>1, OffWorkStep
<1>4. CASE \E comm \in BOOLEAN : Raise(t, comm)
  <2>1. pc'[t] \in {"child", "failed"}
    BY <1>f, <1>4, RaiseSteps
  <2> QED
    BY <1>p, <1>3, <2>1
<1>5. CASE \E s \in {"insert", "evict", "dead"} : pc' = [pc EXCEPT ![t] = s]
  <2>1. pc'[t] \in {"insert", "evict", "dead"}
    BY <1>f, <1>5 DEF FrameTypes
  <2> QED
    BY <1>p, <1>3, <2>1
<1>6. CASE /\ pc' = [pc EXCEPT ![t] = add[t].ret]
           /\ <<add[t].dest, call[t].dat>> \notin disturbed'
                => isDataPresent(add[t].dest, call[t].dat)
  <2>1. pc'[t] = add[t].ret
    BY <1>f, <1>6 DEF FrameTypes
  <2>2. CASE add[t].ret = "use"
    <3>1. add[t].dest = call[t].node
      BY <1>f, <1>1, <2>2 DEF ReturnAt
    <3> QED
      BY <1>1, <1>2, <1>6, <2>1, <2>2, <3>1, ToUseStep
  <2>3. CASE add[t].ret # "use"
    <3>1. pc'[t] \in {"lock", "child"}
      BY <1>f, <2>1, <2>3 DEF Rets
    <3> QED
      BY <1>p, <1>3, <3>1
  <2> QED
    BY <2>2, <2>3
<1> QED
  BY <1>1, <1>4, <1>5, <1>6

\* The transfer begins: the source is ready, and its mutex is taken.
LEMMA SendLockKeepsReads ==
  ASSUME ReadInv, NEW t \in Thread, LockInv', Footprint(t),
         SendLock(t), dataMutex' # dataMutex
  PROVE  ReadInv'
<1>1. FrameTypes
  BY DEF ReadInv, LockInv
<1>2. PICK s \in Node, n \in Node, d \in Data :
        s = add[t].src /\ n = add[t].dest /\ d = call[t].dat
  BY <1>1, FrameFields
<1>3. /\ pc[t] = "sendLock" /\ alive[s]
      /\ d \in DOMAIN data[s] /\ status[s][d] # "downloading" /\ data[s][d].desc
      /\ add' = [add EXCEPT ![t].blk = 0] /\ pc' = [pc EXCEPT ![t] = "block"]
      /\ data' = data /\ status' = status /\ dangling' = dangling /\ read' = read
      /\ disturbed' = disturbed /\ call' = call
  BY <1>2 DEF SendLock, CanLock, store
<1>4. /\ pc'[t] = "block" /\ add'[t].blk = 0 /\ add'[t].dest = n /\ add'[t].src = s
      /\ add'[t].ret = add[t].ret
  BY <1>1, <1>2, <1>3 DEF FrameTypes, AddFrames
<1>5. HistoryStep(t)
  BY <1>3 DEF HistoryStep, ReadInv, DataTypes
<1>6. Transfer(t)'
  <2>1. status[s][d] = "ready"
    BY <1>3 DEF ReadInv, DataTypes
  <2>2. Clean(s, d) /\ data[s][d].value # <<>> => Whole(data[s][d].value, d)
    BY <1>3, <2>1 DEF ReadInv, PairInv, Readable, isDataPresent
  <2>3. Clean(s, d)' <=> Clean(s, d)
    BY <1>3 DEF Clean
  <2>4. /\ add'[t].src = s /\ add'[t].dest = n /\ call'[t].dat = d
        /\ ~(add'[t].blk > 0)
    BY <1>2, <1>3, <1>4
  <2>5. /\ data'[s][d] = data[s][d] /\ status'[s][d] = "ready" /\ d \in DOMAIN data'[s]
    BY <1>3, <2>1
  <2>6. Clean(s, d)' /\ data'[s][d].value # <<>> => Whole(data'[s][d].value, d)
    BY <2>2, <2>3, <2>5
  <2> QED
    BY <2>4, <2>5, <2>6 DEF Transfer, Whole
<1>7. ReturnAt(t)'
  BY <1>2, <1>3, <1>4 DEF ReadInv, ReturnAt, AddPcs
<1>8. ASSUME NEW m \in Node, NEW x \in Data PROVE OwnRoles(t, m, x)
  <2>1. /\ t \in Writers(m, x)' <=> t \in Writers(m, x)
        /\ t \notin Borrowers(m, x) /\ t \notin Borrowers(m, x)' /\ t \notin Users(m, x)'
    BY <1>2, <1>3, <1>4, Roles DEF WritePcs
  <2>2. ASSUME Clean(m, x)', t \in Writers(m, x)' PROVE WriterAt(t, m, x)'
    <3>1. Clean(m, x)
      BY <1>3, <2>2 DEF Clean
    <3>2. WriterAt(t, m, x) /\ t \in Writers(m, x)
      BY <2>1, <2>2, <3>1 DEF ReadInv, PairInv, ThreadAt
    <3>3. Filled(t)'
      BY <1>4 DEF Filled
    <3> QED
      BY <1>3, <1>4, <3>2, <3>3 DEF WriterAt
  <2>3. UserAt(t, m, x)' /\ SolverAt(t, m, x)'
    BY <1>4, <2>1 DEF UserAt, SolverAt
  <2> QED
    BY <2>1, <2>2, <2>3 DEF OwnRoles, ThreadAt, Busy, WriterAt
<1> QED
  BY <1>3, <1>5, <1>6, <1>7, <1>8, QuietStep

\* and those of a parameter that write nothing.
LEMMA UsesKeepReads ==
  ASSUME ReadInv, NEW t \in Thread, LockInv', Footprint(t),
         \/ LclPresentAgain(t) \/ GetDesc(t) \/ CallerFails(t)
         \/ Solve(t) /\ call[t].op = "IN"
  PROVE  ReadInv'
<1>f. FrameTypes
  BY DEF ReadInv, LockInv
<1>p. {"desc", "add", "failed", "dead", "done"} \subseteq OffWork
  BY DEF OffWork, Pcs, Over, WalkPcs, AddPcs, UsePcs, WritePcs
<1>1. CASE LclPresentAgain(t)
  <2>1. /\ pc[t] = "lcl2" /\ call' = call /\ add' = add
        /\ data' = data /\ status' = status /\ dangling' = dangling /\ read' = read
        /\ disturbed' = disturbed
        /\ pc' = [pc EXCEPT ![t] = IF isDataPresent(call[t].node, call[t].dat)
                                     THEN "use" ELSE "desc"]
    BY <1>1 DEF LclPresentAgain, store, frames, history
  <2>2. CASE isDataPresent(call[t].node, call[t].dat)
    <3>1. pc'[t] = "use"
      BY <1>f, <2>1, <2>2 DEF FrameTypes
    <3> QED
      BY <2>1, <2>2, <3>1, ToUseStep
  <2>3. CASE ~isDataPresent(call[t].node, call[t].dat)
    <3>1. pc'[t] = "desc" /\ pc'[t] \notin AddPcs
      BY <1>f, <2>1, <2>3 DEF FrameTypes, AddPcs
    <3> QED
      BY <1>p, <2>1, <3>1, OffWorkStep
  <2> QED
    BY <2>2, <2>3
<1>2. CASE GetDesc(t)
  <2>1. /\ pc[t] = "desc" /\ call' = call
        /\ data' = data /\ status' = status /\ dangling' = dangling /\ read' = read
        /\ disturbed' = disturbed
        /\ \/ CallAdd(t, call[t].node, add[t].src, "use")
           \/ pc' = [pc EXCEPT ![t] = "failed"]
    BY <1>2 DEF GetDesc, store, history
  <2>2. /\ pc'[t] \in {"add", "failed"}
        /\ pc'[t] \in AddPcs => add'[t].dest = call[t].node
    <3>1. CASE CallAdd(t, call[t].node, add[t].src, "use")
      <4>1. call[t].node \in Node /\ add[t].src \in Node /\ "use" \in Rets
        BY <1>f, FrameFields DEF Rets
      <4> QED
        BY <1>f, <3>1, <4>1, CallAddSteps
    <3>2. CASE pc' = [pc EXCEPT ![t] = "failed"]
      BY <1>f, <3>2 DEF FrameTypes, AddPcs
    <3> QED
      BY <2>1, <3>1, <3>2
  <2> QED
    BY <1>p, <2>1, <2>2, OffWorkStep
<1>3. CASE CallerFails(t)
  <2>1. /\ pc' = [pc EXCEPT ![t] = "dead"] /\ ~alive[call[t].node] /\ alive' = alive
        /\ data' = data /\ status' = status /\ dangling' = dangling /\ read' = read
        /\ disturbed' = disturbed
    BY <1>3 DEF CallerFails, store, platform, history
  <2>2. pc'[t] = "dead" /\ pc'[t] \notin AddPcs
    BY <1>f, <2>1 DEF FrameTypes, AddPcs
  <2> QED
    BY <1>p, <2>1, <2>2, OffWorkStep
<1>4. CASE Solve(t) /\ call[t].op = "IN"
  <2>1. /\ pc' = [pc EXCEPT ![t] = "done"]
        /\ data' = data /\ status' = status /\ dangling' = dangling /\ read' = read
        /\ disturbed' = disturbed
    BY <1>4 DEF Solve
  <2>2. pc'[t] = "done" /\ pc'[t] \notin AddPcs
    BY <1>f, <1>4, <2>1 DEF FrameTypes, AddPcs, Solve
  <2> QED
    BY <1>p, <1>4, <2>1, <2>2, OffWorkStep
<1> QED
  BY <1>1, <1>2, <1>3, <1>4

\* The others do no work on a replica where only t may be at work.
LEMMA Alone ==
  ASSUME ReadInv, NEW t \in Thread, Footprint(t), HistoryStep(t),
         NEW m \in Node, NEW x \in Data, Clean(m, x), AtWork(m, x) \ {t} = {}
  PROVE  /\ Busy(m, x)' \subseteq {t}
         /\ \A u \in Thread \ {t} : ThreadAt(u, m, x)'
<1>1. ASSUME NEW u \in Thread \ {t}
      PROVE  u \notin Writers(m, x)' /\ u \notin Borrowers(m, x)' /\ u \notin Users(m, x)'
  BY OthersRoles DEF AtWork
<1>2. Busy(m, x)' \subseteq {t}
  BY <1>1, Workers DEF Busy
<1>3. ASSUME NEW u \in Thread \ {t} PROVE ThreadAt(u, m, x)'
  <2>1. SolverAt(u, m, x)
    BY DEF ReadInv, PairInv, ThreadAt
  <2>2. pc'[u] = pc[u] /\ call'[u] = call[u] /\ read'[u] = read[u]
    BY DEF Footprint, FramesStep, PcStep, CallStep, HistoryStep
  <2>3. SolverAt(u, m, x)'
    BY <2>1, <2>2 DEF SolverAt
  <2> QED
    BY <1>1, <2>3 DEF ThreadAt, WriterAt, UserAt
<1> QED
  BY <1>2, <1>3

\* While dataMutex is free nobody sends from the node.
LEMMA NobodySends ==
  ASSUME ReadInv, NEW m \in Node, dataMutex[m] = NoThread,
         NEW u \in Thread, pc[u] = "block"
  PROVE  add[u].src # m
BY DagdaAssumption DEF ReadInv, LockInv, LockAt, HoldsSource

\* A removal, whoever asks for it.
LEMMA RemovalStep ==
  ASSUME ReadInv, NEW t \in Thread, LockInv', Footprint(t),
         NEW m \in Node, NEW x \in Data, remData(t, m, x), read' = read,
         pc[t] # "solve", pc'[t] \in OffWork, ReturnAt(t)'
  PROVE  ReadInv'
<1>1. /\ dataMutex[m] = NoThread /\ status' = status
      /\ x \in DOMAIN data[m] =>
           /\ data' = Erase(m, x) /\ dangling' = dangling \cup Writers(m, x)
           /\ disturbed' = IF AtWork(m, x) \ {t} # {} THEN disturbed \cup {<<m, x>>}
                                                      ELSE disturbed
      /\ x \notin DOMAIN data[m] =>
           data' = data /\ dangling' = dangling /\ disturbed' = disturbed
  BY DEF remData, CanLock, Disturb
<1>2. HistoryStep(t)
  BY <1>1 DEF HistoryStep, ReadInv, DataTypes
<1>3. /\ DataStep /\ x \notin DOMAIN data'[m]
      /\ \A n \in Node, d \in Data : <<n, d>> # <<m, x>> => SameEntry(n, d)
      /\ x \notin DOMAIN data[m] => SameEntry(m, x)
  <2>1. CASE x \in DOMAIN data[m]
    BY <1>1, <2>1, EraseSteps DEF ReadInv
  <2>2. CASE x \notin DOMAIN data[m]
    BY <1>1, <2>2, KeepSteps DEF ReadInv
  <2> QED
    BY <2>1, <2>2
<1>4. StatusStep /\ \A n \in Node, d \in Data : SameStatus(n, d)
  BY <1>1, StatusSteps DEF ReadInv
<1>5. Transfer(t)' /\ \A n \in Node, d \in Data : OwnRoles(t, n, d)
  BY OffWorkRoles
<1>6. ASSUME NEW n \in Node, NEW d \in Data, <<n, d>> # <<m, x>>
      PROVE  Undangled(t, n, d)
  <2>1. ASSUME NEW u \in Thread, u \in Writers(m, x) PROVE u \notin Writers(n, d)
    BY <1>6, <2>1, Roles DEF WritePcs
  <2> QED
    BY <1>1, <2>1 DEF Undangled
<1>7. PairInv(m, x)'
  <2> SUFFICES ASSUME Clean(m, x)' PROVE PairInv(m, x)'
    BY DEF PairInv
  <2>1. Clean(m, x)
    BY <1>2 DEF Clean, HistoryStep
  <2>2. CASE x \in DOMAIN data[m]
    <3>1. AtWork(m, x) \ {t} = {}
      BY <1>1, <2>2 DEF Clean
    <3>2. /\ Busy(m, x)' \subseteq {t}
          /\ \A u \in Thread \ {t} : ThreadAt(u, m, x)'
      BY <1>2, <2>1, <3>1, Alone
    <3>3. Readable(m, x)'
      BY <1>3 DEF Readable, isDataPresent
    <3>4. ThreadAt(t, m, x)'
      BY <1>5 DEF OwnRoles
    <3> QED
      BY <3>2, <3>3, <3>4 DEF PairInv
  <2>3. CASE x \notin DOMAIN data[m]
    BY <1>1, <1>2, <1>3, <1>4, <1>5, <2>3, PairKept DEF OwnRoles
  <2> QED
    BY <2>2, <2>3
<1>8. ASSUME NEW u \in Thread \ {t}, pc[u] = "block", call[u].dat = x
      PROVE  add[u].src # m /\ (add[u].dest = m => DestSteady(m, x))
  <2>1. add[u].src # m
    BY <1>1, <1>8, NobodySends
  <2>2. ASSUME add[u].dest = m, x \in DOMAIN data[m] PROVE <<m, x>> \in disturbed'
    <3>1. u \in AtWork(m, x) \ {t}
      BY <1>8, <2>2, Roles DEF AtWork, WritePcs
    <3> QED
      BY <1>1, <2>2, <3>1
  <2> QED
    BY <2>1, <2>2 DEF DestSteady
<1> QED
  BY <1>2, <1>3, <1>4, <1>5, <1>6, <1>7, <1>8, FocalStep

\* An insertion: a new entry, "downloading", that t writes.
LEMMA AddDataStep ==
  ASSUME ReadInv, NEW t \in Thread, LockInv', Footprint(t),
         NEW m \in Node, NEW x \in Data, addData(t, m, x), read' = read,
         call' = call, add' = add, call[t].dat = x,
         \/ pc[t] = "insert" /\ pc'[t] = "getsrc" /\ add[t].dest = m
         \/ pc[t] = "solve" /\ pc'[t] = "replace" /\ call[t].node = m
  PROVE  ReadInv'
<1> DEFINE e == Entry(TRUE, <<>>)
<1>0. e \in Item /\ e.value = <<>>
  BY DEF Entry, Item
<1>1. /\ dataMutex[m] = NoThread
      /\ data' = Store(m, x, e) /\ status' = SetStatus(m, x, "downloading")
      /\ dangling' = dangling \ {t}
      /\ disturbed' = IF \/ AtWork(m, x) \ {t} # {}
                         \/ x \in DOMAIN data[m] /\ data[m][x].value # <<>>
                        THEN disturbed \cup {<<m, x>>} ELSE disturbed
  BY DEF addData, CanLock, Disturb
<1> HIDE DEF e
<1>2. HistoryStep(t)
  BY <1>1 DEF HistoryStep, ReadInv, DataTypes
<1>3. /\ DataStep /\ x \in DOMAIN data'[m] /\ data'[m][x] = e
      /\ \A n \in Node, d \in Data : <<n, d>> # <<m, x>> => SameEntry(n, d)
  BY <1>0, <1>1, StoreSteps DEF ReadInv
<1>4. /\ StatusStep /\ status'[m][x] = "downloading"
      /\ \A n \in Node, d \in Data : <<n, d>> # <<m, x>> => SameStatus(n, d)
  BY <1>1, StatusSteps DEF ReadInv
<1>5. \A n \in Node, d \in Data : Undangled(t, n, d)
  BY <1>1 DEF Undangled
<1>6. ASSUME NEW n \in Node, NEW d \in Data, <<n, d>> # <<m, x>>
      PROVE  OwnRoles(t, n, d)
  <2>1. /\ t \notin Writers(n, d)' /\ t \notin Borrowers(n, d)' /\ t \notin Users(n, d)'
        /\ t \notin Borrowers(n, d) /\ pc'[t] # "solve"
    BY <1>6, Roles DEF WritePcs
  <2> QED
    BY <2>1 DEF OwnRoles, ThreadAt, WriterAt, UserAt, SolverAt, Busy
<1>7. PairInv(m, x)'
  <2> SUFFICES ASSUME Clean(m, x)' PROVE PairInv(m, x)'
    BY DEF PairInv
  <2>1. Clean(m, x) /\ AtWork(m, x) \ {t} = {}
    BY <1>1 DEF Clean
  <2>2. /\ Busy(m, x)' \subseteq {t}
        /\ \A u \in Thread \ {t} : ThreadAt(u, m, x)'
    BY <1>2, <2>1, Alone
  <2>3. Readable(m, x)'
    BY <1>4 DEF Readable, isDataPresent
  <2>4. ThreadAt(t, m, x)'
    <3>1. pc'[t] \in {"getsrc", "replace"} /\ t \notin dangling'
      BY <1>1
    <3>2. t \notin Users(m, x)'
      BY <3>1, Roles
    <3> QED
      BY <1>3, <1>4, <3>1, <3>2 DEF ThreadAt, WriterAt, UserAt, SolverAt
  <2> QED
    BY <2>2, <2>3, <2>4 DEF PairInv
<1>8. ASSUME NEW u \in Thread \ {t}, pc[u] = "block", call[u].dat = x
      PROVE  add[u].src # m /\ (add[u].dest = m => DestSteady(m, x))
  <2>1. add[u].src # m
    BY <1>1, <1>8, NobodySends
  <2>2. ASSUME add[u].dest = m PROVE <<m, x>> \in disturbed'
    <3>1. u \in AtWork(m, x) \ {t}
      BY <1>8, <2>2, Roles DEF AtWork, WritePcs
    <3> QED
      BY <1>1, <3>1
  <2> QED
    BY <2>1, <2>2 DEF DestSteady
<1>9. Transfer(t)' /\ ReturnAt(t)'
  BY DEF Transfer, ReturnAt, ReadInv, AddPcs
<1> QED
  BY <1>2, <1>3, <1>4, <1>5, <1>6, <1>7, <1>8, <1>9, FocalStep

\* The four places that remove a replica.
LEMMA RemovalsKeepReads ==
  ASSUME ReadInv, NEW t \in Thread, LockInv', Footprint(t),
         \/ VisitRoot(t) /\ walk[t].why = "remove"
         \/ ChildRem(t) \/ Refresh(t)
         \/ Evict(t) /\ Victims(add[t].dest, call[t].dat) # {}
  PROVE  ReadInv'
<1>f. FrameTypes /\ ReturnAt(t) /\ LockAt(t) /\ call[t].dat \in Data /\ add[t].dest \in Node
  BY FrameFields DEF ReadInv, LockInv
<1>p. {"lock", "child", "add"} \subseteq OffWork
  BY DEF OffWork, Pcs, Over, WalkPcs, AddPcs, UsePcs, WritePcs
<1>1. CASE VisitRoot(t) /\ walk[t].why = "remove"
  <2>1. /\ pc[t] = "root" /\ pc' = [pc EXCEPT ![t] = "lock"]
        /\ remData(t, Root, call[t].dat) /\ read' = read
    BY <1>1 DEF VisitRoot
  <2>2. pc'[t] = "lock" /\ ReturnAt(t)'
    BY <1>f, <2>1 DEF FrameTypes, ReturnAt, AddPcs
  <2> QED
    BY <1>f, <1>p, <2>1, <2>2, Nodes, RemovalStep
<1>2. CASE ChildRem(t)
  <2>1. /\ pc[t] = "childRem" /\ pc' = [pc EXCEPT ![t] = "child"]
        /\ remData(t, Head(walk[t].todo), call[t].dat) /\ read' = read
    BY <1>2 DEF ChildRem
  <2>2. pc'[t] = "child" /\ ReturnAt(t)'
    BY <1>f, <2>1 DEF FrameTypes, ReturnAt, AddPcs
  <2>3. Head(walk[t].todo) \in Node
    BY <1>f, <2>1, FrameFields DEF LockAt
  <2> HIDE DEF ReturnAt
  <2> QED
    BY <1>f, <1>p, <2>1, <2>2, <2>3, RemovalStep
<1>3. CASE Refresh(t)
  <2>1. /\ pc[t] = "refresh" /\ remData(t, add[t].dest, call[t].dat) /\ read' = read
        /\ CallAdd(t, add[t].dest, call[t].node, add[t].ret) /\ call' = call
    BY <1>3 DEF Refresh
  <2>2. call[t].node \in Node /\ add[t].ret \in Rets
    BY <1>f, FrameFields
  <2>3. pc'[t] = "add" /\ add'[t].dest = add[t].dest /\ add'[t].ret = add[t].ret
    BY <1>f, <2>1, <2>2, CallAddSteps
  <2>4. ReturnAt(t)'
    BY <1>f, <2>1, <2>3 DEF ReturnAt, AddPcs
  <2> QED
    BY <1>f, <1>p, <2>1, <2>3, <2>4, RemovalStep
<1>4. CASE Evict(t) /\ Victims(add[t].dest, call[t].dat) # {}
  <2>1. /\ pc[t] = "evict" /\ pc' = [pc EXCEPT ![t] = "add"]
        /\ add' = [add EXCEPT ![t].retried = TRUE] /\ call' = call /\ read' = read
        /\ \E v \in Victims(add[t].dest, call[t].dat) : remData(t, add[t].dest, v)
    BY <1>4 DEF Evict
  <2>2. PICK v \in DOMAIN data[add[t].dest] : remData(t, add[t].dest, v)
    BY <2>1 DEF Victims
  <2>3. v \in Data
    <3>1. data[add[t].dest] \in Maps
      BY <1>f DEF ReadInv, DataTypes
    <3> QED
      BY <3>1, MapTypes
  <2>4. pc'[t] = "add" /\ add'[t].dest = add[t].dest /\ add'[t].ret = add[t].ret
    BY <1>f, <2>1 DEF FrameTypes, AddFrames
  <2>5. ReturnAt(t)'
    BY <1>f, <2>1, <2>4 DEF ReturnAt, AddPcs
  <2> QED
    BY <1>f, <1>p, <2>1, <2>2, <2>3, <2>4, <2>5, RemovalStep
<1> QED
  BY <1>1, <1>2, <1>3, <1>4

\* The two places that insert an entry.
LEMMA InsertsKeepReads ==
  ASSUME ReadInv, NEW t \in Thread, LockInv', Footprint(t),
         \/ Insert(t)
         \/ Solve(t) /\ call[t].op # "IN"
  PROVE  ReadInv'
<1>f. FrameTypes /\ call[t].dat \in Data /\ add[t].dest \in Node /\ call[t].node \in Node
  BY FrameFields DEF ReadInv, LockInv
<1>1. CASE Insert(t)
  <2>1. /\ pc[t] = "insert" /\ pc' = [pc EXCEPT ![t] = "getsrc"]
        /\ addData(t, add[t].dest, call[t].dat) /\ read' = read
        /\ call' = call /\ add' = add
    BY <1>1 DEF Insert, frames
  <2>2. pc'[t] = "getsrc"
    BY <1>f, <2>1 DEF FrameTypes
  <2> QED
    BY <1>f, <2>1, <2>2, AddDataStep
<1>2. CASE Solve(t) /\ call[t].op # "IN"
  <2>1. /\ pc[t] = "solve" /\ pc' = [pc EXCEPT ![t] = "replace"]
        /\ addData(t, call[t].node, call[t].dat) /\ read' = read
        /\ call' = call /\ add' = add
    BY <1>2 DEF Solve, frames
  <2>2. pc'[t] = "replace"
    BY <1>f, <2>1 DEF FrameTypes
  <2> QED
    BY <1>f, <2>1, <2>2, AddDataStep
<1> QED
  BY <1>1, <1>2

\* getData() of the source makes an entry without a description, which a
\* replica that nothing disturbed may have: nobody reads it.
LEMMA GetSourceKeepsReads ==
  ASSUME ReadInv, NEW t \in Thread, LockInv', Footprint(t), GetSource(t)
  PROVE  ReadInv'
<1>1. PICK s \in Node, d \in Data : s = add[t].src /\ d = call[t].dat
  BY FrameFields DEF ReadInv, LockInv
<1>2. /\ pc[t] = "getsrc" /\ pc' = [pc EXCEPT ![t] = "sendLock"]
      /\ data' = Lookup(s, d) /\ status' = status /\ call' = call /\ add' = add
      /\ read' = read /\ dangling' = dangling /\ disturbed' = disturbed
      /\ alive' = alive
  BY <1>1 DEF GetSource, frames, history, platform
<1>3. pc'[t] = "sendLock"
  BY <1>2 DEF ReadInv, LockInv, FrameTypes
<1>4. HistoryStep(t)
  BY <1>2 DEF HistoryStep, ReadInv, DataTypes
<1>5. /\ DataStep
      /\ d \in DOMAIN data[s] => SameEntry(s, d)
      /\ d \notin DOMAIN data[s] => data'[s][d] = Entry(FALSE, <<>>)
      /\ \A n \in Node, x \in Data : <<n, x>> # <<s, d>> => SameEntry(n, x)
  BY <1>2, LookupSteps DEF ReadInv
<1>6. StatusStep /\ \A n \in Node, x \in Data : SameStatus(n, x)
  BY <1>2, StatusSteps DEF ReadInv
<1>7. \A n \in Node, x \in Data : Undangled(t, n, x)
  BY <1>2 DEF Undangled
<1>8. ASSUME NEW n \in Node, NEW x \in Data PROVE OwnRoles(t, n, x)
  <2>1. /\ t \in Writers(n, x)' <=> t \in Writers(n, x)
        /\ t \notin Borrowers(n, x) /\ t \notin Borrowers(n, x)' /\ t \notin Users(n, x)'
    BY <1>2, <1>3, Roles DEF WritePcs
  <2>2. ASSUME Clean(n, x)', t \in Writers(n, x)' PROVE WriterAt(t, n, x)'
    <3>1. Clean(n, x)
      BY <1>2, <2>2 DEF Clean
    <3>2. WriterAt(t, n, x) /\ t \in Writers(n, x)
      BY <2>1, <2>2, <3>1 DEF ReadInv, PairInv, ThreadAt
    <3>3. /\ t \notin dangling /\ x \in DOMAIN data[n] /\ status[n][x] = "downloading"
      BY <1>2, <3>2 DEF WriterAt
    <3>4. SameEntry(n, x)
      BY <1>5, <3>3
    <3> QED
      BY <1>2, <1>3, <3>3, <3>4 DEF WriterAt, SameEntry
  <2>3. UserAt(t, n, x)' /\ SolverAt(t, n, x)'
    BY <1>3, <2>1 DEF UserAt, SolverAt
  <2> QED
    BY <2>1, <2>2, <2>3 DEF OwnRoles, ThreadAt, Busy, WriterAt
<1>9. PairInv(s, d)'
  <2>1. CASE d \in DOMAIN data[s]
    BY <1>4, <1>5, <1>6, <1>7, <1>8, <2>1, PairKept DEF Undangled, OwnRoles
  <2>2. CASE d \notin DOMAIN data[s]
    <3> SUFFICES ASSUME Clean(s, d)' PROVE PairInv(s, d)'
      BY DEF PairInv
    <3>1. Clean(s, d)
      BY <1>2 DEF Clean
    <3>2. /\ \A v, u \in Busy(s, d) : v = u
          /\ \A u \in Thread : ThreadAt(u, s, d)
      BY <3>1 DEF ReadInv, PairInv
    <3>3. Busy(s, d)' \subseteq Busy(s, d)
      BY <1>8, Workers, OthersRoles DEF Busy, OwnRoles
    <3>4. Readable(s, d)'
      BY <1>5, <2>2 DEF Readable, Entry
    <3>5. ASSUME NEW u \in Thread \ {t} PROVE ThreadAt(u, s, d)'
      <4>1. u \notin Writers(s, d) /\ (u \in Users(s, d) => ~alive[s]) /\ SolverAt(u, s, d)
        BY <2>2, <3>2 DEF ThreadAt, WriterAt, UserAt, isDataPresent
      <4>2. u \notin Writers(s, d)' /\ (u \in Users(s, d)' => ~alive'[s])
        BY <1>2, <4>1, OthersRoles
      <4>3. pc'[u] = pc[u] /\ call'[u] = call[u] /\ read'[u] = read[u]
        BY <1>2 DEF Footprint, FramesStep, PcStep
      <4>4. SolverAt(u, s, d)'
        BY <4>1, <4>3 DEF SolverAt
      <4> QED
        BY <4>2, <4>4 DEF ThreadAt, WriterAt, UserAt
    <3>6. ThreadAt(t, s, d)'
      BY <1>8 DEF OwnRoles
    <3> QED
      BY <3>2, <3>3, <3>4, <3>5, <3>6 DEF PairInv
  <2> QED
    BY <2>1, <2>2
<1>10. SourceSteady(s, d) /\ DestSteady(s, d)
  BY <1>5, <1>6, SameIsSteady DEF SourceSteady, DestSteady
<1>11. Transfer(t)' /\ ReturnAt(t)'
  BY <1>2, <1>3 DEF Transfer, ReturnAt, ReadInv, AddPcs
<1> QED
  BY <1>4, <1>5, <1>6, <1>7, <1>8, <1>9, <1>10, <1>11, FocalStep

\* A status that t sets to "ready" on the replica it writes, which is whole.
LEMMA ReadyStep ==
  ASSUME ReadInv, NEW t \in Thread, LockInv', Footprint(t),
         NEW n \in Node, NEW d \in Data, t \in Writers(n, d), pc[t] # "replace",
         data' = data, status' = SetStatus(n, d, "ready"),
         read' = read, dangling' = dangling, disturbed' = disturbed, alive' = alive,
         \/ pc'[t] = "lcl"
         \/ pc'[t] \in {"unlock", "count"} /\ call' = call /\ add' = add /\ pc[t] \in WritePcs,
         Clean(n, d) => Whole(data[n][d].value, d)
  PROVE  ReadInv'
<1>1. HistoryStep(t)
  BY DEF HistoryStep, ReadInv, DataTypes
<1>2. DataStep /\ \A m \in Node, x \in Data : SameEntry(m, x)
  BY KeepSteps DEF ReadInv
<1>3. /\ StatusStep /\ status'[n][d] = "ready"
      /\ \A m \in Node, x \in Data : <<m, x>> # <<n, d>> => SameStatus(m, x)
  BY StatusSteps DEF ReadInv
<1>4. /\ pc[t] # "solve" /\ pc'[t] # "solve" /\ pc'[t] # "use" /\ pc'[t] # "block"
      /\ call[t].dat = d
  BY Roles DEF WritePcs
<1>5. \A m \in Node, x \in Data : t \in Writers(m, x)' => m = n /\ x = d
  BY Roles DEF WritePcs
<1>6. ASSUME NEW m \in Node, NEW x \in Data
      PROVE  t \notin Borrowers(m, x) /\ t \notin Borrowers(m, x)' /\ t \notin Users(m, x)'
  BY <1>4, Roles
<1>7. \A m \in Node, x \in Data : Undangled(t, m, x)
  BY DEF Undangled
<1>8. ASSUME NEW m \in Node, NEW x \in Data, <<m, x>> # <<n, d>>
      PROVE  OwnRoles(t, m, x)
  <2>1. t \notin Writers(m, x)'
    BY <1>5, <1>8
  <2> QED
    BY <1>4, <1>6, <2>1 DEF OwnRoles, ThreadAt, WriterAt, UserAt, SolverAt, Busy
<1>9. PairInv(n, d)'
  <2> SUFFICES ASSUME Clean(n, d)' PROVE PairInv(n, d)'
    BY DEF PairInv
  <2>1. Clean(n, d)
    BY DEF Clean
  <2>2. /\ \A v, u \in Busy(n, d) : v = u
        /\ \A u \in Thread : ThreadAt(u, n, d)
    BY <2>1 DEF ReadInv, PairInv
  <2>3. t \in Busy(n, d)
    BY DEF Busy
  <2>4. Busy(n, d)' \subseteq {t}
    BY <2>2, <2>3, Workers, OthersRoles DEF Busy
  <2>5. Readable(n, d)'
    BY <2>1 DEF Readable
  <2>6. ASSUME NEW u \in Thread \ {t} PROVE ThreadAt(u, n, d)'
    <3>1. u \notin Writers(n, d)'
      BY <2>4 DEF Busy
    <3>2. UserAt(u, n, d)'
      BY <1>2, <1>3, <2>2, OthersRoles DEF UserAt, ThreadAt, isDataPresent, SameEntry
    <3>3. SolverAt(u, n, d) /\ pc'[u] = pc[u] /\ call'[u] = call[u]
      BY <2>2 DEF ThreadAt, Footprint, FramesStep, PcStep, CallStep
    <3>4. SolverAt(u, n, d)'
      BY <3>3 DEF SolverAt
    <3> QED
      BY <3>1, <3>2, <3>4 DEF ThreadAt, WriterAt
  <2>7. ThreadAt(t, n, d)'
    <3>1. WriterAt(t, n, d)
      BY <2>2 DEF ThreadAt
    <3>2. t \in Writers(n, d)' => pc'[t] \in {"unlock", "count"}
      BY Roles DEF WritePcs
    <3>3. WriterAt(t, n, d)'
      BY <1>3, <2>1, <3>1, <3>2 DEF WriterAt
    <3> QED
      BY <1>4, <1>6, <3>3 DEF ThreadAt, UserAt, SolverAt
  <2> QED
    BY <2>4, <2>5, <2>6, <2>7 DEF PairInv
<1>10. SourceSteady(n, d) /\ DestSteady(n, d)
  BY <1>2, <1>3 DEF SameEntry, SourceSteady, DestSteady
<1>11. Transfer(t)' /\ ReturnAt(t)'
  BY <1>4 DEF Transfer, ReturnAt, ReadInv, AddPcs, WritePcs
<1> QED
  BY <1>1, <1>2, <1>3, <1>7, <1>8, <1>9, <1>10, <1>11, FocalStep

\* Blocks are counted by a division, which grows with the bytes.
LEMMA DivFacts ==
  ASSUME NEW M \in Nat \ {0}
  PROVE  /\ 0 \div M = 0
         /\ \A a \in Nat : a \div M \in Nat
         /\ \A a, b \in Nat : a <= b => a \div M <= b \div M
<1>1. 0 \div M = 0
  BY SMT
<1>2. \A a \in Nat : a \div M \in Nat
  BY SMT
<1>3. \A a, b \in Nat : a <= b => a \div M <= b \div M
  BY SMT
<1> QED
  BY <1>1, <1>2, <1>3

\* The last block holds the last byte: a value with all its blocks is whole.
LEMMA AllBlocks ==
  ASSUME ReadInv, NEW t \in Thread, Filled(t), add[t].blk = nBlocks(call[t].dat)
  PROVE  Whole(data[add[t].dest][call[t].dat].value, call[t].dat)
<1>1. PICK d \in Data : d = call[t].dat
  BY FrameFields DEF ReadInv, LockInv
<1>2. Size[d] \in Nat /\ MaxMsgSize \in Nat \ {0}
  BY DagdaAssumption
<1>3. /\ Size[d] \div MaxMsgSize \in Nat
      /\ \A i \in 1 .. Size[d] : (i - 1) \div MaxMsgSize <= Size[d] \div MaxMsgSize
      /\ \A i \in 1 .. Size[d] : (i - 1) \div MaxMsgSize \in Nat
  <2>1. ASSUME NEW i \in 1 .. Size[d] PROVE i - 1 \in Nat /\ i - 1 <= Size[d]
    BY <1>2
  <2> QED
    BY <1>2, <2>1, DivFacts
<1> DEFINE v == data[add[t].dest][call[t].dat].value
           q == Size[d] \div MaxMsgSize
<1>4. add[t].blk = q + 1 /\ q \in Nat
  BY <1>1, <1>3 DEF nBlocks
<1>5. add[t].blk > 0
  BY <1>4
<1>6. /\ Len(v) = Size[d]
      /\ \A i \in 1 .. Size[d] : (i - 1) \div MaxMsgSize < q + 1 => v[i] > 0 /\ v[i] = v[1]
  BY <1>1, <1>4, <1>5 DEF Filled
<1>7. ASSUME NEW i \in 1 .. Size[d] PROVE v[i] > 0 /\ v[i] = v[1]
  <2> DEFINE p == (i - 1) \div MaxMsgSize
  <2>1. p <= q /\ p \in Nat
    BY <1>3
  <2> HIDE DEF p, q
  <2>2. p < q + 1
    BY <1>4, <2>1
  <2> USE DEF p, q
  <2> HIDE DEF v
  <2> QED
    BY <1>6, <2>2
<1> HIDE DEF v
<1>8. Whole(v, d)
  BY <1>6, <1>7 DEF Whole
<1> QED
  BY <1>1, <1>8 DEF v

\* The three places that make a replica ready.
LEMMA ReadiesKeepReads ==
  ASSUME ReadInv, NEW t \in Thread, LockInv', Footprint(t),
         Sent(t) \/ UnlockData(t) \/ Uploaded(t)
  PROVE  ReadInv'
<1>f. FrameTypes /\ call[t].dat \in Data /\ add[t].dest \in Node /\ call[t].node \in Node
  BY FrameFields DEF ReadInv, LockInv
<1>1. CASE Sent(t)
  <2>1. /\ pc[t] = "block" /\ pc' = [pc EXCEPT ![t] = "unlock"]
        /\ add[t].blk = nBlocks(call[t].dat)
        /\ data' = data /\ status' = SetStatus(add[t].dest, call[t].dat, "ready")
        /\ read' = read /\ dangling' = dangling /\ disturbed' = disturbed
        /\ alive' = alive /\ call' = call /\ add' = add
    BY <1>1 DEF Sent, frames, history, platform
  <2>2. pc'[t] = "unlock" /\ t \in Writers(add[t].dest, call[t].dat) /\ pc[t] \in WritePcs
    BY <1>f, <2>1, Roles DEF FrameTypes, WritePcs
  <2>3. ASSUME Clean(add[t].dest, call[t].dat)
        PROVE  Whole(data[add[t].dest][call[t].dat].value, call[t].dat)
    BY <2>1, <2>2, <2>3, WriterFacts, AllBlocks DEF WriterAt
  <2> QED
    BY <1>f, <2>1, <2>2, <2>3, ReadyStep
<1>2. CASE UnlockData(t)
  <2>1. /\ pc[t] = "unlock" /\ pc' = [pc EXCEPT ![t] = "count"]
        /\ alive[add[t].dest]
        /\ data' = data /\ status' = SetStatus(add[t].dest, call[t].dat, "ready")
        /\ read' = read /\ dangling' = dangling /\ disturbed' = disturbed
        /\ alive' = alive /\ call' = call /\ add' = add
    BY <1>2 DEF UnlockData, frames, history, platform
  <2>2. pc'[t] = "count" /\ t \in Writers(add[t].dest, call[t].dat) /\ pc[t] \in WritePcs
    BY <1>f, <2>1, Roles DEF FrameTypes, WritePcs
  <2>3. ASSUME Clean(add[t].dest, call[t].dat)
        PROVE  Whole(data[add[t].dest][call[t].dat].value, call[t].dat)
    BY <2>1, <2>2, <2>3, WriterFacts DEF WriterAt
  <2> QED
    BY <1>f, <2>1, <2>2, <2>3, ReadyStep
<1>3. CASE Uploaded(t)
  <2>1. /\ pc[t] = "uploaded" /\ pc' = [pc EXCEPT ![t] = "lcl"]
        /\ data' = data /\ status' = SetStatus(call[t].node, call[t].dat, "ready")
        /\ read' = read /\ dangling' = dangling /\ disturbed' = disturbed
        /\ alive' = alive
    BY <1>3 DEF Uploaded, history, platform
  <2>2. pc'[t] = "lcl" /\ t \in Writers(call[t].node, call[t].dat)
    BY <1>f, <2>1, Roles DEF FrameTypes
  <2>3. ASSUME Clean(call[t].node, call[t].dat)
        PROVE  Whole(data[call[t].node][call[t].dat].value, call[t].dat)
    BY <1>f, <2>1, <2>2, <2>3 DEF ReadInv, PairInv, ThreadAt, WriterAt
  <2> QED
    BY <1>f, <2>1, <2>2, <2>3, ReadyStep
<1> QED
  BY <1>1, <1>2, <1>3

\* The solver gets the datum, and an INOUT one is taken out of the map.
LEMMA UseKeepsReads ==
  ASSUME ReadInv, NEW t \in Thread, LockInv', Footprint(t), Use(t)
  PROVE  ReadInv'
<1>1. PICK n \in Node, d \in Data : n = call[t].node /\ d = call[t].dat
  BY FrameFields DEF ReadInv, LockInv
<1> DEFINE e == IF d \in DOMAIN data[n] THEN data[n][d] ELSE Entry(FALSE, <<>>)
           f == IF call[t].op = "INOUT" THEN Entry(e.desc, <<>>) ELSE e
<1>2. /\ pc[t] = "use" /\ pc' = [pc EXCEPT ![t] = "solve"] /\ alive[n]
      /\ read' = [read EXCEPT ![t] = e.value]
      /\ data' = Store(n, d, f)
      /\ disturbed' = IF \/ ~e.desc \/ Borrowers(n, d) # {}
                         \/ call[t].op = "INOUT" /\ AtWork(n, d) # {t}
                        THEN disturbed \cup {<<n, d>>} ELSE disturbed
      /\ status' = status /\ call' = call /\ add' = add /\ alive' = alive
      /\ dangling' = dangling
  BY <1>1 DEF Use, Disturb, frames, platform
<1>3. /\ e \in Item /\ f \in Item
      /\ e.value = <<>> \/ Len(e.value) = Size[d]
      /\ f.value = <<>> \/ Len(f.value) = Size[d]
  <2>1. e \in Item /\ (e.value = <<>> \/ Len(e.value) = Size[d])
    <3>1. CASE d \in DOMAIN data[n]
      <4>1. data[n] \in Maps
        BY DEF ReadInv, DataTypes
      <4> QED
        BY <3>1, <4>1, MapTypes DEF ReadInv, DataTypes
    <3>2. CASE d \notin DOMAIN data[n]
      BY <3>2 DEF Entry, Item
    <3> QED
      BY <3>1, <3>2
  <2> HIDE DEF e
  <2> QED
    BY <2>1 DEF Entry, Item
<1>4. /\ d \in DOMAIN data[n] => e = data[n][d]
      /\ call[t].op = "INOUT" => f.value = <<>>
      /\ call[t].op # "INOUT" => f = e
  BY DEF Entry
<1> HIDE DEF e, f
<1>5. pc'[t] = "solve" /\ read'[t] = e.value
  BY <1>2 DEF ReadInv, LockInv, FrameTypes, DataTypes
<1>6. HistoryStep(t)
  <2>1. e.value \in Seq(Nat)
    BY <1>3 DEF Item
  <2> QED
    BY <1>2, <2>1 DEF HistoryStep, ReadInv, DataTypes
<1>7. /\ DataStep /\ d \in DOMAIN data'[n] /\ data'[n][d] = f
      /\ \A m \in Node, x \in Data : <<m, x>> # <<n, d>> => SameEntry(m, x)
  BY <1>2, <1>3, StoreSteps DEF ReadInv
<1>8. StatusStep /\ \A m \in Node, x \in Data : SameStatus(m, x)
  BY <1>2, StatusSteps DEF ReadInv
<1>9. \A m \in Node, x \in Data : Undangled(t, m, x)
  BY <1>2 DEF Undangled
<1>10. ASSUME NEW m \in Node, NEW x \in Data
       PROVE  /\ t \notin Writers(m, x)' /\ t \notin Users(m, x)' /\ t \notin Borrowers(m, x)
              /\ t \in Borrowers(m, x)' <=> m = n /\ x = d /\ call[t].op = "INOUT"
  BY <1>1, <1>2, <1>5, Roles DEF WritePcs
<1>11. ASSUME NEW m \in Node, NEW x \in Data, <<m, x>> # <<n, d>>
       PROVE  OwnRoles(t, m, x)
  <2>1. SolverAt(t, m, x)'
    BY <1>1, <1>2, <1>11 DEF SolverAt
  <2> QED
    BY <1>10, <1>11, <2>1 DEF OwnRoles, ThreadAt, WriterAt, UserAt, Busy
<1>12. ASSUME Clean(n, d)'
       PROVE  /\ Clean(n, d) /\ Borrowers(n, d) = {}
              /\ call[t].op = "INOUT" => AtWork(n, d) \ {t} = {}
              /\ d \in DOMAIN data[n] /\ status[n][d] = "ready"
              /\ e.desc /\ Whole(e.value, d)
  <2>1. /\ Clean(n, d) /\ Borrowers(n, d) = {} /\ e.desc
        /\ call[t].op = "INOUT" => AtWork(n, d) = {t}
    BY <1>2, <1>12 DEF Clean
  <2>2. t \in Users(n, d)
    BY <1>1, <1>2, Roles
  <2>3. isDataPresent(n, d)
    BY <1>2, <2>1, <2>2 DEF ReadInv, PairInv, ThreadAt, UserAt
  <2>4. d \in DOMAIN data[n] /\ status[n][d] = "ready"
    BY <2>3 DEF isDataPresent
  <2>5. Whole(e.value, d)
    BY <1>2, <1>4, <2>1, <2>3, <2>4 DEF ReadInv, PairInv, Readable
  <2> QED
    BY <2>1, <2>4, <2>5
<1>13. PairInv(n, d)'
  <2> SUFFICES ASSUME Clean(n, d)' PROVE PairInv(n, d)'
    BY DEF PairInv
  <2>1. ThreadAt(t, n, d)'
    BY <1>5, <1>10, <1>12 DEF ThreadAt, WriterAt, UserAt, SolverAt
  <2>2. CASE call[t].op # "INOUT"
    <3>1. SameEntry(n, d)
      BY <1>4, <1>7, <1>12, <2>2 DEF SameEntry
    <3> QED
      BY <1>6, <1>8, <1>9, <1>10, <2>1, <2>2, <3>1, PairKept DEF Undangled, Busy
  <2>3. CASE call[t].op = "INOUT"
    <3>1. /\ Busy(n, d)' \subseteq {t}
          /\ \A u \in Thread \ {t} : ThreadAt(u, n, d)'
      BY <1>6, <1>12, <2>3, Alone
    <3>2. Readable(n, d)'
      BY <1>4, <1>7, <1>10, <2>3 DEF Readable
    <3> QED
      BY <2>1, <3>1, <3>2 DEF PairInv
  <2> QED
    BY <2>2, <2>3
<1>14. ASSUME NEW u \in Thread \ {t}, pc[u] = "block", call[u].dat = d
       PROVE  SourceSteady(n, d) /\ (add[u].dest = n => DestSteady(n, d))
  <2>1. d \in DOMAIN data[n] => f.value = <<>> \/ f.value = data[n][d].value
    BY <1>4
  <2>2. SourceSteady(n, d)
    BY <1>7, <1>8, <2>1 DEF SourceSteady, SameStatus
  <2>3. ASSUME add[u].dest = n, d \in DOMAIN data[n], <<n, d>> \notin disturbed'
        PROVE  data'[n][d].value = data[n][d].value
    <3>1. u \in AtWork(n, d) \ {t}
      BY <1>14, <2>3, Roles DEF AtWork, WritePcs
    <3>2. call[t].op # "INOUT"
      BY <1>12, <2>3, <3>1 DEF Clean
    <3> QED
      BY <1>4, <1>7, <2>3, <3>2
  <2> QED
    BY <2>2, <2>3 DEF DestSteady
<1>15. Transfer(t)' /\ ReturnAt(t)'
  BY <1>5 DEF Transfer, ReturnAt, AddPcs
<1> QED
  BY <1>6, <1>7, <1>8, <1>9, <1>11, <1>13, <1>14, <1>15, FocalStep

\* A replica that stays "downloading", with the writer that works on it.
LEMMA SoleWriter ==
  ASSUME ReadInv, NEW t \in Thread, Footprint(t), HistoryStep(t),
         NEW n \in Node, NEW d \in Data, t \in Writers(n, d),
         Clean(n, d), status[n][d] = "downloading", status'[n][d] = "downloading"
  PROVE  /\ Busy(n, d)' \subseteq {t} /\ Readable(n, d)'
         /\ \A u \in Thread \ {t} : u \notin Busy(n, d) /\ ThreadAt(u, n, d)'
<1>1. /\ \A v, u \in Busy(n, d) : v = u
      /\ \A u \in Thread : ThreadAt(u, n, d)
  BY DEF ReadInv, PairInv
<1>2. \A u \in Thread \ {t} : u \notin Busy(n, d)
  BY <1>1 DEF Busy
<1>3. Busy(n, d)' \subseteq {t}
  BY <1>2, Workers, OthersRoles DEF Busy
<1>4. Readable(n, d)'
  BY DEF Readable, isDataPresent
<1>5. ASSUME NEW u \in Thread \ {t} PROVE ThreadAt(u, n, d)'
  <2>1. u \notin Writers(n, d)'
    BY <1>3 DEF Busy
  <2>2. UserAt(u, n, d) /\ SolverAt(u, n, d)
    BY <1>1 DEF ThreadAt
  <2>3. /\ pc'[u] = pc[u] /\ call'[u] = call[u] /\ read'[u] = read[u]
        /\ alive'[n] => alive[n]
    BY DEF Footprint, FramesStep, PcStep, CallStep, AliveStep, HistoryStep
  <2>4. UserAt(u, n, d)'
    BY <2>2, <2>3, OthersRoles DEF UserAt, isDataPresent
  <2>5. SolverAt(u, n, d)'
    BY <2>2, <2>3 DEF SolverAt
  <2> QED
    BY <2>1, <2>4, <2>5 DEF ThreadAt, WriterAt
<1> QED
  BY <1>2, <1>3, <1>4, <1>5

\* The new version goes through the pointer that addData() returned, which is
\* good as long as nothing disturbed the replica.
LEMMA ReplaceKeepsReads ==
  ASSUME ReadInv, NEW t \in Thread, LockInv', Footprint(t), Replace(t)
  PROVE  ReadInv'
<1>1. PICK n \in Node, d \in Data : n = call[t].node /\ d = call[t].dat
  BY FrameFields DEF ReadInv, LockInv
<1> DEFINE old == IF read[t] = <<>> THEN 0 ELSE read[t][1]
           e == Entry(TRUE, [i \in 1 .. Size[d] |-> old + 1])
<1>2. /\ pc[t] = "replace" /\ pc' = [pc EXCEPT ![t] = "uploaded"]
      /\ t \in dangling => data' = data
      /\ t \notin dangling => data' = Store(n, d, e)
      /\ status' = status /\ call' = call /\ add' = add /\ alive' = alive
      /\ dangling' = dangling /\ disturbed' = disturbed /\ read' = read
  BY <1>1 DEF Replace, frames, platform, history
<1>3. e \in Item /\ Len(e.value) = Size[d] /\ Whole(e.value, d)
  <2> DEFINE f == [i \in 1 .. Size[d] |-> old + 1]
  <2>1. old \in Nat
    BY DEF ReadInv, DataTypes
  <2>2. Size[d] \in Nat
    BY DagdaAssumption
  <2> HIDE DEF old
  <2>3. f \in [1 .. Size[d] -> Nat] /\ \A i \in 1 .. Size[d] : f[i] = old + 1
    BY <2>1
  <2>4. e = Entry(TRUE, f)
    OBVIOUS
  <2> HIDE DEF e, f
  <2>5. e \in Item /\ e.value = f /\ Len(f) = Size[d]
    BY <2>2, <2>3, <2>4, Bytes
  <2>6. \A i \in 1 .. Size[d] : f[i] > 0 /\ f[i] = f[1]
    <3>1. ASSUME NEW i \in 1 .. Size[d] PROVE 1 \in 1 .. Size[d]
      BY <2>2
    <3> QED
      BY <2>1, <2>3, <3>1
  <2> QED
    BY <2>5, <2>6 DEF Whole
<1> HIDE DEF e
<1>4. pc'[t] = "uploaded"
  BY <1>2 DEF ReadInv, LockInv, FrameTypes
<1>5. HistoryStep(t)
  BY <1>2 DEF HistoryStep, ReadInv, DataTypes
<1>6. /\ DataStep
      /\ d \in DOMAIN data[n] => d \in DOMAIN data'[n]
      /\ t \notin dangling => d \in DOMAIN data'[n] /\ data'[n][d] = e
      /\ \A m \in Node, x \in Data : <<m, x>> # <<n, d>> => SameEntry(m, x)
  <2>1. CASE t \in dangling
    BY <1>2, <2>1, KeepSteps DEF ReadInv
  <2>2. CASE t \notin dangling
    BY <1>2, <1>3, <2>2, StoreSteps DEF ReadInv
  <2> QED
    BY <2>1, <2>2
<1>7. StatusStep /\ \A m \in Node, x \in Data : SameStatus(m, x)
  BY <1>2, StatusSteps DEF ReadInv
<1>8. \A m \in Node, x \in Data : Undangled(t, m, x)
  BY <1>2 DEF Undangled
<1>9. ASSUME NEW m \in Node, NEW x \in Data
      PROVE  /\ t \notin Users(m, x)' /\ t \notin Borrowers(m, x) /\ t \notin Borrowers(m, x)'
             /\ t \in Writers(m, x)' <=> m = n /\ x = d
             /\ t \in Writers(m, x) <=> m = n /\ x = d
  BY <1>1, <1>2, <1>4, Roles DEF WritePcs
<1>10. ASSUME NEW m \in Node, NEW x \in Data, <<m, x>> # <<n, d>>
       PROVE  OwnRoles(t, m, x)
  BY <1>4, <1>9, <1>10 DEF OwnRoles, ThreadAt, WriterAt, UserAt, SolverAt, Busy
<1>11. ASSUME Clean(n, d)'
       PROVE  /\ Clean(n, d) /\ t \notin dangling /\ status[n][d] = "downloading"
              /\ \A u \in Busy(n, d) : u = t
              /\ \A u \in Thread : ThreadAt(u, n, d)
  <2>1. Clean(n, d)
    BY <1>2, <1>11 DEF Clean
  <2>2. /\ \A v, u \in Busy(n, d) : v = u
        /\ \A u \in Thread : ThreadAt(u, n, d)
    BY <2>1 DEF ReadInv, PairInv
  <2>3. t \in Writers(n, d)
    BY <1>9
  <2>4. t \notin dangling /\ status[n][d] = "downloading"
    BY <1>2, <2>2, <2>3 DEF ThreadAt, WriterAt
  <2> QED
    BY <2>1, <2>2, <2>3, <2>4 DEF Busy
<1>12. PairInv(n, d)'
  <2> SUFFICES ASSUME Clean(n, d)' PROVE PairInv(n, d)'
    BY DEF PairInv
  <2>1. status'[n][d] = "downloading"
    BY <1>2, <1>11
  <2>2. /\ Busy(n, d)' \subseteq {t} /\ Readable(n, d)'
        /\ \A u \in Thread \ {t} : ThreadAt(u, n, d)'
    BY <1>5, <1>9, <1>11, <2>1, SoleWriter
  <2>3. ThreadAt(t, n, d)'
    BY <1>2, <1>3, <1>4, <1>6, <1>9, <1>11, <2>1 DEF ThreadAt, WriterAt, UserAt, SolverAt
  <2> QED
    BY <2>2, <2>3 DEF PairInv
<1>13. ASSUME NEW u \in Thread \ {t}, pc[u] = "block", call[u].dat = d
       PROVE  /\ add[u].src = n => SourceSteady(n, d)
              /\ add[u].dest = n => DestSteady(n, d)
  <2>1. ASSUME add[u].src = n PROVE ~Clean(n, d)'
    <3>1. Clean(n, d) => status[n][d] = "ready"
      BY <1>13, <2>1 DEF ReadInv, Transfer
    <3> QED
      BY <1>11, <3>1
  <2>2. ASSUME add[u].dest = n PROVE ~Clean(n, d)'
    <3>1. u \in Busy(n, d)
      BY <1>13, <2>2, Roles DEF Busy, WritePcs
    <3> QED
      BY <1>11, <3>1
  <2> QED
    BY <1>6, <2>1, <2>2 DEF SourceSteady, DestSteady, Clean
<1>14. Transfer(t)' /\ ReturnAt(t)'
  BY <1>4 DEF Transfer, ReturnAt, AddPcs
<1> QED
  BY <1>5, <1>6, <1>7, <1>8, <1>10, <1>12, <1>13, <1>14, FocalStep

\* A block of a whole value goes over one that has the blocks before it.
RecordedRight(t, n, d, from, bytes) ==
  /\ Recorded(t, n, bytes) \in Item
  /\ Len(Recorded(t, n, bytes).value) = Size[d]
  /\ (/\ from # <<>> /\ Whole(from, d) /\ Filled(t) /\ d \in DOMAIN data[n]
      /\ add[t].blk > 0 => data[n][d].value[1] = from[1])
     => \A i \in 1 .. Size[d] : (i - 1) \div MaxMsgSize < add[t].blk + 1
          => Recorded(t, n, bytes).value[i] = from[1] /\ from[1] > 0

\* That is what recordData() writes.
LEMMA RecordedFacts ==
  ASSUME ReadInv, NEW t \in Thread, NEW n \in Node, NEW d \in Data, NEW from \in Seq(Nat),
         NEW bytes,
         d = call[t].dat, n = add[t].dest, from = <<>> \/ Len(from) = Size[d],
         from = <<>> => bytes = [i \in 1 .. Size[d] |-> 0],
         from # <<>> => bytes = from
  PROVE  RecordedRight(t, n, d, from, bytes)
<1> DEFINE b == add[t].blk
           old == IF d \in DOMAIN data[n] THEN data[n][d].value ELSE <<>>
           f == [i \in 1 .. Size[d] |-> IF i \in Block(d, b) THEN bytes[i]
                                        ELSE IF i <= Len(old) THEN old[i] ELSE 0]
<1>1. b \in Nat /\ Size[d] \in Nat /\ MaxMsgSize \in Nat \ {0}
  BY FrameFields, DagdaAssumption DEF ReadInv, LockInv
<1>2. old \in Seq(Nat)
  <2>1. CASE d \in DOMAIN data[n]
    <3>1. data[n] \in Maps
      BY DEF ReadInv, DataTypes
    <3>2. data[n][d] \in Item
      BY <2>1, <3>1, MapTypes
    <3> QED
      BY <2>1, <3>2 DEF Item
  <2>2. CASE d \notin DOMAIN data[n]
    BY <2>2
  <2> QED
    BY <2>1, <2>2
<1>3. \A i \in 1 .. Size[d] : bytes[i] \in Nat
  <2>1. ASSUME NEW i \in 1 .. Size[d] PROVE bytes[i] \in Nat
    <3>1. CASE from = <<>>
      BY <3>1
    <3>2. CASE from # <<>>
      BY <3>2
    <3> QED
      BY <3>1, <3>2
  <2> QED
    BY <2>1
<1>4. Recorded(t, n, bytes) = Entry(TRUE, f)
  BY DEF Recorded
<1> HIDE DEF old
<1>5. f \in [1 .. Size[d] -> Nat]
  <2>1. ASSUME NEW i \in 1 .. Size[d], i <= Len(old) PROVE old[i] \in Nat
    <3>1. i \in 1 .. Len(old)
      BY <1>1, <1>2, <2>1
    <3> QED
      BY <1>2, <3>1
  <2> HIDE DEF b
  <2> QED
    BY <1>3, <2>1
<1>6. \A i \in 1 .. Size[d] : f[i] = IF i \in Block(d, b) THEN bytes[i]
                                     ELSE IF i <= Len(old) THEN old[i] ELSE 0
  OBVIOUS
<1>b. b = add[t].blk
  OBVIOUS
<1> HIDE DEF f, b
<1>7. Entry(TRUE, f) \in Item /\ Entry(TRUE, f).value = f /\ Len(f) = Size[d]
  BY <1>1, <1>5, Bytes
<1>8. ASSUME from # <<>>, Whole(from, d), Filled(t), d \in DOMAIN data[n],
             b > 0 => data[n][d].value[1] = from[1],
             NEW i \in 1 .. Size[d], (i - 1) \div MaxMsgSize < b + 1
      PROVE  f[i] = from[1] /\ from[1] > 0
  <2>1. from[i] = from[1] /\ from[i] > 0
    BY <1>8 DEF Whole
  <2>2. CASE i \in Block(d, b)
    BY <1>6, <1>8, <2>1, <2>2
  <2>3. CASE i \notin Block(d, b)
    <3> DEFINE p == (i - 1) \div MaxMsgSize
    <3>1. p \in Nat /\ p # b
      <4>1. i - 1 \in Nat
        BY <1>1
      <4> QED
        BY <1>1, <2>3, <4>1, DivFacts DEF Block
    <3>2. p < b + 1
      BY <1>8
    <3> HIDE DEF p
    <3>3. p < b /\ b > 0
      BY <1>1, <3>1, <3>2
    <3>4. old = data[n][d].value
      BY <1>8 DEF old
    <3>5. /\ Len(old) = Size[d]
          /\ \A j \in 1 .. Size[d] : (j - 1) \div MaxMsgSize < b
                                       => old[j] > 0 /\ old[j] = old[1]
      BY <1>8, <1>b, <3>3, <3>4 DEF Filled
    <3>6. old[i] = old[1]
      BY <3>3, <3>5 DEF p
    <3>7. old[1] = from[1]
      BY <1>8, <3>3, <3>4
    <3>8. i <= Len(old)
      BY <1>1, <3>5
    <3> QED
      BY <1>6, <2>1, <2>3, <3>6, <3>7, <3>8
  <2> QED
    BY <2>2, <2>3
<1> QED
  BY <1>4, <1>7, <1>8, <1>b DEF RecordedRight

\* A block is recorded.
LEMMA RecordStep ==
  ASSUME ReadInv, NEW t \in Thread, LockInv', Footprint(t), RecordData(t),
         add'[t].blk # add[t].blk
  PROVE  ReadInv'
<1>1. PICK s \in Node, n \in Node, d \in Data :
        s = add[t].src /\ n = add[t].dest /\ d = call[t].dat
  BY FrameFields DEF ReadInv, LockInv
<1> DEFINE from == data[s][d].value
           bytes == IF from = <<>> THEN [i \in 1 .. Size[d] |-> 0] ELSE from
           e == Recorded(t, n, bytes)
<1>2. /\ pc[t] = "block" /\ pc' = pc /\ call' = call
      /\ dataMutex[n] = NoThread
      /\ data' = Store(n, d, e)
      /\ status' = IF d \notin DOMAIN data[n] THEN SetStatus(n, d, "downloading") ELSE status
      /\ add' = [add EXCEPT ![t].blk = add[t].blk + 1]
      /\ disturbed' = IF from = <<>> \/ <<s, d>> \in disturbed
                        THEN disturbed \cup {<<n, d>>} ELSE disturbed
      /\ dangling' = dangling /\ read' = read
  BY <1>1 DEF RecordData, CanLock, Disturb
<1>f. from = data[s][d].value
  OBVIOUS
<1>3. Transfer(t) /\ HoldsSource(t)
  BY DEF ReadInv, LockInv, LockAt
<1>4. /\ d \in DOMAIN data[s]
      /\ Clean(s, d) => status[s][d] = "ready" /\ (from # <<>> => Whole(from, d))
      /\ Clean(s, d) /\ Clean(n, d) /\ add[t].blk > 0 /\ from # <<>>
           => data[n][d].value[1] = from[1]
  BY <1>1, <1>2, <1>3 DEF Transfer
<1>5. s # n
  BY <1>1, <1>2, <1>3, DagdaAssumption DEF HoldsSource
<1>6. from \in Seq(Nat) /\ (from = <<>> \/ Len(from) = Size[d])
  <2>1. data[s] \in Maps
    BY DEF ReadInv, DataTypes
  <2>2. data[s][d] \in Item
    BY <1>4, <2>1, MapTypes
  <2> QED
    BY <1>4, <2>2 DEF ReadInv, DataTypes, Item
<1>b. bytes = IF from = <<>> THEN [i \in 1 .. Size[d] |-> 0] ELSE from
  OBVIOUS
<1>e. e = Recorded(t, n, bytes)
  OBVIOUS
<1> HIDE DEF from, bytes, e
<1>7. /\ e \in Item /\ Len(e.value) = Size[d]
      /\ (/\ from # <<>> /\ Whole(from, d) /\ Filled(t) /\ d \in DOMAIN data[n]
          /\ add[t].blk > 0 => data[n][d].value[1] = from[1])
         => \A i \in 1 .. Size[d] : (i - 1) \div MaxMsgSize < add[t].blk + 1
              => e.value[i] = from[1] /\ from[1] > 0
  <2>0. PICK f \in Seq(Nat) : f = from
    BY <1>6
  <2>1. PICK g : f = from /\ g = bytes
    BY <2>0
  <2>2. /\ Recorded(t, n, g) \in Item /\ Len(Recorded(t, n, g).value) = Size[d]
        /\ (/\ f # <<>> /\ Whole(f, d) /\ Filled(t) /\ d \in DOMAIN data[n]
            /\ add[t].blk > 0 => data[n][d].value[1] = f[1])
           => \A i \in 1 .. Size[d] : (i - 1) \div MaxMsgSize < add[t].blk + 1
                => Recorded(t, n, g).value[i] = f[1] /\ f[1] > 0
    <3>1. f = <<>> \/ Len(f) = Size[d]
      BY <1>6, <2>1
    <3>2. /\ f = <<>> => g = [i \in 1 .. Size[d] |-> 0]
          /\ f # <<>> => g = f
      BY <1>b, <2>1
    <3>3. d = call[t].dat /\ n = add[t].dest
      BY <1>1
    <3>4. RecordedRight(t, n, d, f, g)
      BY <3>1, <3>2, <3>3, RecordedFacts
    <3> QED
      BY <3>4 DEF RecordedRight
  <2> QED
    BY <1>e, <2>1, <2>2
<1>8. /\ pc'[t] = "block" /\ add'[t].blk = add[t].blk + 1 /\ add'[t].dest = n
      /\ add'[t].src = s /\ add'[t].ret = add[t].ret
  BY <1>1, <1>2 DEF ReadInv, LockInv, FrameTypes, AddFrames
<1>9. HistoryStep(t)
  BY <1>2 DEF HistoryStep, ReadInv, DataTypes
<1>10. /\ DataStep /\ d \in DOMAIN data'[n] /\ data'[n][d] = e
       /\ \A m \in Node, x \in Data : <<m, x>> # <<n, d>> => SameEntry(m, x)
  BY <1>2, <1>7, StoreSteps DEF ReadInv
<1>11. /\ StatusStep
       /\ d \in DOMAIN data[n] => status' = status
       /\ \A m \in Node, x \in Data : <<m, x>> # <<n, d>> => SameStatus(m, x)
  <2>1. CASE d \in DOMAIN data[n]
    BY <1>2, <2>1, StatusSteps DEF ReadInv
  <2>2. CASE d \notin DOMAIN data[n]
    BY <1>2, <2>2, StatusSteps DEF ReadInv
  <2> QED
    BY <2>1, <2>2
<1>12. \A m \in Node, x \in Data : Undangled(t, m, x)
  BY <1>2 DEF Undangled
<1>13. ASSUME NEW m \in Node, NEW x \in Data
       PROVE  /\ t \notin Users(m, x)' /\ t \notin Borrowers(m, x) /\ t \notin Borrowers(m, x)'
              /\ t \in Writers(m, x)' <=> m = n /\ x = d
              /\ t \in Writers(m, x) <=> m = n /\ x = d
  BY <1>1, <1>2, <1>8, Roles DEF WritePcs
<1>14. ASSUME NEW m \in Node, NEW x \in Data, <<m, x>> # <<n, d>>
       PROVE  OwnRoles(t, m, x)
  BY <1>8, <1>13, <1>14 DEF OwnRoles, ThreadAt, WriterAt, UserAt, SolverAt, Busy
<1>15. ASSUME Clean(n, d)'
       PROVE  /\ Clean(n, d) /\ t \notin dangling /\ d \in DOMAIN data[n]
              /\ status[n][d] = "downloading" /\ status'[n][d] = "downloading"
              /\ \A i \in 1 .. Size[d] : (i - 1) \div MaxMsgSize < add[t].blk + 1
                   => e.value[i] = from[1] /\ from[1] > 0
  <2>1. Clean(n, d) /\ from # <<>> /\ Clean(s, d)
    BY <1>2, <1>15 DEF Clean
  <2>2. WriterAt(t, n, d) /\ t \in Writers(n, d)
    BY <1>13, <2>1 DEF ReadInv, PairInv, ThreadAt
  <2>3. /\ t \notin dangling /\ d \in DOMAIN data[n] /\ status[n][d] = "downloading"
        /\ Filled(t)
    BY <1>2, <2>2 DEF WriterAt
  <2>4. status'[n][d] = "downloading"
    BY <1>11, <2>3
  <2> QED
    BY <1>4, <1>7, <2>1, <2>3, <2>4
<1>16. Size[d] \in Nat \ {0} /\ 1 \in 1 .. Size[d] /\ add[t].blk \in Nat
       /\ 0 \div MaxMsgSize = 0
  BY DagdaAssumption, FrameFields, DivFacts DEF ReadInv, LockInv
<1>17. ASSUME Clean(n, d)' PROVE e.value[1] = from[1]
  <2>1. (1 - 1) \div MaxMsgSize < add[t].blk + 1
    BY <1>16
  <2> QED
    BY <1>15, <1>16, <1>17, <2>1
<1>18. PairInv(n, d)'
  <2> SUFFICES ASSUME Clean(n, d)' PROVE PairInv(n, d)'
    BY DEF PairInv
  <2>1. t \in Writers(n, d)
    BY <1>13
  <2>2. /\ Busy(n, d)' \subseteq {t} /\ Readable(n, d)'
        /\ \A u \in Thread \ {t} : ThreadAt(u, n, d)'
    BY <1>9, <1>15, <2>1, SoleWriter
  <2>3. Filled(t)'
    <3>1. ASSUME NEW i \in 1 .. Size[d], (i - 1) \div MaxMsgSize < add'[t].blk
          PROVE  e.value[i] > 0 /\ e.value[i] = e.value[1]
      BY <1>8, <1>15, <1>17, <3>1
    <3>2. data'[add'[t].dest][call'[t].dat] = e /\ call'[t].dat = d
      BY <1>1, <1>2, <1>8, <1>10
    <3> QED
      BY <1>7, <3>1, <3>2 DEF Filled
  <2>4. ThreadAt(t, n, d)'
    BY <1>2, <1>8, <1>10, <1>13, <1>15, <2>3 DEF ThreadAt, WriterAt, UserAt, SolverAt
  <2> QED
    BY <2>2, <2>4 DEF PairInv
<1>19. ASSUME NEW u \in Thread \ {t}, pc[u] = "block", call[u].dat = d
       PROVE  /\ add[u].src # n
              /\ add[u].dest = n => DestSteady(n, d)
  <2>1. add[u].src # n
    BY <1>2, <1>19, NobodySends
  <2>2. ASSUME add[u].dest = n PROVE ~Clean(n, d)'
    <3>1. u \in Busy(n, d) /\ t \in Writers(n, d)
      BY <1>13, <1>19, <2>2, Roles DEF Busy, WritePcs
    <3>2. Clean(n, d)' => u \notin Busy(n, d)
      BY <1>9, <1>15, <3>1, SoleWriter
    <3> QED
      BY <3>1, <3>2
  <2> QED
    BY <2>1, <2>2 DEF DestSteady, Clean
<1>20. Transfer(t)'
  <2>1. SameEntry(s, d) /\ SameStatus(s, d)
    BY <1>5, <1>10, <1>11
  <2>2. d \in DOMAIN data'[s] /\ data'[s][d].value = from /\ status'[s][d] = status[s][d]
    BY <1>4, <1>f, <2>1 DEF SameEntry, SameStatus
  <2>3. Clean(s, d)' => Clean(s, d)
    BY <1>9 DEF Clean, HistoryStep
  <2>4. Clean(n, d)' => data'[n][d].value[1] = from[1]
    BY <1>10, <1>17
  <2> QED
    BY <1>1, <1>2, <1>4, <1>8, <2>2, <2>3, <2>4 DEF Transfer
<1>21. ReturnAt(t)'
  BY <1>1, <1>2, <1>8 DEF ReturnAt, ReadInv
<1> QED
  BY <1>9, <1>10, <1>11, <1>12, <1>14, <1>18, <1>19, <1>20, <1>21, FocalStep

\* A block that kills the process of the destination.
LEMMA RecordDies ==
  ASSUME ReadInv, NEW t \in Thread, LockInv', Footprint(t), RecordData(t),
         add'[t].blk = add[t].blk
  PROVE  ReadInv'
<1>1. add' = add
  <2>1. add[t].blk \in Nat /\ add \in [Thread -> AddFrames]
    BY FrameFields DEF ReadInv, LockInv, FrameTypes
  <2>2. add' = add \/ add' = [add EXCEPT ![t].blk = add[t].blk + 1]
    BY DEF RecordData
  <2>3. add' # [add EXCEPT ![t].blk = add[t].blk + 1]
    BY <2>1 DEF AddFrames
  <2> QED
    BY <2>2, <2>3
<1>2. /\ pc[t] = "block" /\ pc' = pc /\ call' = call
      /\ data' = data /\ status' = status /\ disturbed' = disturbed
      /\ dangling' = dangling /\ read' = read
  <2>1. add[t].blk \in Nat /\ add \in [Thread -> AddFrames]
    BY FrameFields DEF ReadInv, LockInv, FrameTypes
  <2>2. add' # [add EXCEPT ![t].blk = add[t].blk + 1]
    BY <1>1, <2>1 DEF AddFrames
  <2> QED
    BY <2>2 DEF RecordData
<1>3. HistoryStep(t)
  BY <1>2 DEF HistoryStep, ReadInv, DataTypes
<1>4. Transfer(t)'
  <2>1. Transfer(t)
    BY DEF ReadInv
  <2> QED
    BY <1>1, <1>2, <2>1 DEF Transfer, Clean
<1>5. ReturnAt(t)'
  BY <1>1, <1>2 DEF ReturnAt, ReadInv
<1>6. ASSUME NEW n \in Node, NEW d \in Data PROVE OwnRoles(t, n, d)
  <2>1. /\ t \in Writers(n, d)' <=> t \in Writers(n, d)
        /\ t \notin Borrowers(n, d) /\ t \notin Borrowers(n, d)' /\ t \notin Users(n, d)'
    BY <1>1, <1>2, Roles DEF WritePcs
  <2>2. ASSUME Clean(n, d)', t \in Writers(n, d)' PROVE WriterAt(t, n, d)'
    <3>1. Clean(n, d)
      BY <1>2, <2>2 DEF Clean
    <3>2. WriterAt(t, n, d) /\ t \in Writers(n, d)
      BY <2>1, <2>2, <3>1 DEF ReadInv, PairInv, ThreadAt
    <3>3. Filled(t)'
      BY <1>1, <1>2, <3>2 DEF WriterAt, Filled
    <3> QED
      BY <1>2, <3>2, <3>3 DEF WriterAt
  <2>3. UserAt(t, n, d)' /\ SolverAt(t, n, d)'
    BY <1>2, <2>1 DEF UserAt, SolverAt
  <2> QED
    BY <2>1, <2>2, <2>3 DEF OwnRoles, ThreadAt, Busy, WriterAt
<1> QED
  BY <1>2, <1>3, <1>4, <1>5, <1>6, QuietStep

\* A step that changes nothing but, for a crash, who is alive.
LEMMA CrashKeepsReads ==
  ASSUME ReadInv, LockInv',
         data' = data, status' = status, pc' = pc, call' = call, add' = add,
         read' = read, dangling' = dangling, disturbed' = disturbed,
         \A n \in Node : alive'[n] => alive[n]
  PROVE  ReadInv'
<1>1. DataTypes'
  BY DEF ReadInv, DataTypes
<1>2. ASSUME NEW n \in Node, NEW d \in Data PROVE PairInv(n, d)'
  <2> SUFFICES ASSUME Clean(n, d)' PROVE PairInv(n, d)'
    BY DEF PairInv
  <2>1. /\ \A v, u \in Busy(n, d) : v = u
        /\ Readable(n, d)
        /\ \A u \in Thread : ThreadAt(u, n, d)
    BY DEF ReadInv, PairInv, Clean
  <2>2. \A u \in Thread : /\ u \in Writers(n, d)' <=> u \in Writers(n, d)
                          /\ u \in Borrowers(n, d)' <=> u \in Borrowers(n, d)
                          /\ u \in Users(n, d)' <=> u \in Users(n, d)
    BY Roles
  <2>3. \A v, u \in Busy(n, d)' : v = u
    BY <2>1, <2>2, Workers DEF Busy
  <2>4. Borrowers(n, d)' = Borrowers(n, d)
    BY <2>2, Workers
  <2>5. Readable(n, d)'
    BY <2>1, <2>4 DEF Readable, isDataPresent
  <2>6. ASSUME NEW u \in Thread PROVE ThreadAt(u, n, d)'
    <3>1. WriterAt(u, n, d)'
      BY <2>1, <2>2 DEF ThreadAt, WriterAt, Filled
    <3>2. UserAt(u, n, d)'
      BY <2>1, <2>2 DEF ThreadAt, UserAt, isDataPresent
    <3>3. SolverAt(u, n, d)'
      BY <2>1 DEF ThreadAt, SolverAt
    <3> QED
      BY <3>1, <3>2, <3>3 DEF ThreadAt
  <2> QED
    BY <2>3, <2>5, <2>6 DEF PairInv
<1>3. ASSUME NEW t \in Thread PROVE Transfer(t)' /\ ReturnAt(t)'
  <2>1. Transfer(t) /\ ReturnAt(t)
    BY DEF ReadInv
  <2> QED
    BY <2>1 DEF Transfer, ReturnAt, Clean
<1> QED
  BY <1>1, <1>2, <1>3 DEF ReadInv

\* Initially every replica is whole and nothing is under way.
LEMMA ReadInvInit == Init => ReadInv
<1> SUFFICES ASSUME Init PROVE ReadInv
  OBVIOUS
<1>1. \A t \in Thread : pc[t] = "idle"
  BY DEF Init
<1>2. \A d \in Data : Size[d] \in Nat
  BY DagdaAssumption
<1> DEFINE e(d) == Entry(TRUE, [i \in 1 .. Size[d] |-> 1])
<1>3. ASSUME NEW d \in Data
      PROVE  e(d) \in Item /\ Len(e(d).value) = Size[d] /\ Whole(e(d).value, d)
  <2> DEFINE f == [i \in 1 .. Size[d] |-> 1]
  <2>1. f \in [1 .. Size[d] -> Nat] /\ \A i \in 1 .. Size[d] : f[i] = 1
    OBVIOUS
  <2>2. e(d) = Entry(TRUE, f)
    OBVIOUS
  <2> HIDE DEF f, e
  <2>3. e(d) \in Item /\ e(d).value = f /\ Len(f) = Size[d]
    BY <1>2, <2>1, <2>2, Bytes
  <2>4. \A i \in 1 .. Size[d] : f[i] > 0 /\ f[i] = f[1]
    <3>1. ASSUME NEW i \in 1 .. Size[d] PROVE 1 \in 1 .. Size[d]
      BY <1>2
    <3> QED
      BY <2>1, <3>1
  <2> QED
    BY <2>3, <2>4 DEF Whole
<1>4. /\ data = [n \in Node |-> [d \in Held(n) |-> e(d)]]
      /\ status = [n \in Node |-> [d \in Data |-> "ready"]]
      /\ read = [t \in Thread |-> <<>>]
  BY DEF Init
<1> HIDE DEF e
<1>5. \A n \in Node : Held(n) \subseteq Data
  BY DEF Held
<1>6. /\ \A n \in Node, d \in Data : d \in DOMAIN data[n] => data[n][d] = e(d)
      /\ \A n \in Node : data[n] = [d \in Held(n) |-> e(d)]
  BY <1>4
<1>7. data \in [Node -> Maps]
  <2>1. ASSUME NEW n \in Node PROVE data[n] \in Maps
    <3>1. data[n] \in [Held(n) -> Item] /\ Held(n) \in SUBSET Data
      BY <1>3, <1>5, <1>6
    <3> QED
      BY <3>1 DEF Maps
  <2> QED
    BY <1>4, <2>1
<1>8. DataTypes
  BY <1>3, <1>4, <1>6, <1>7 DEF DataTypes
<1>9. ASSUME NEW n \in Node, NEW d \in Data PROVE PairInv(n, d)
  <2>1. ASSUME NEW t \in Thread
        PROVE  t \notin Writers(n, d) /\ t \notin Borrowers(n, d) /\ t \notin Users(n, d)
    BY <1>1, Roles DEF WritePcs
  <2>2. Busy(n, d) = {}
    BY <2>1, Workers DEF Busy
  <2>3. Readable(n, d)
    BY <1>3, <1>6 DEF Readable, isDataPresent
  <2>4. \A t \in Thread : ThreadAt(t, n, d)
    BY <1>1, <2>1 DEF ThreadAt, WriterAt, UserAt, SolverAt
  <2> QED
    BY <2>2, <2>3, <2>4 DEF PairInv
<1>10. \A t \in Thread : Transfer(t) /\ ReturnAt(t)
  BY <1>1 DEF Transfer, ReturnAt, AddPcs
<1> QED
  BY <1>8, <1>9, <1>10, LockInvInit DEF ReadInv

\* Every step keeps the invariant.
LEMMA ReadInvNext == ReadInv /\ [Next]_vars => ReadInv'
<1> SUFFICES ASSUME ReadInv, [Next]_vars PROVE ReadInv'
  OBVIOUS
<1>1. LockInv /\ LockInv'
  BY LockInvNext DEF ReadInv
<1>2. CASE UNCHANGED vars
  <2>1. /\ data' = data /\ status' = status /\ pc' = pc /\ call' = call /\ add' = add
        /\ read' = read /\ dangling' = dangling /\ disturbed' = disturbed
        /\ alive' = alive
    BY <1>2 DEF vars, store, platform, frames, history
  <2> QED
    BY <1>1, <2>1, CrashKeepsReads
<1>3. ASSUME NEW n \in SeDs, Crash(n) PROVE ReadInv'
  <2>1. /\ data' = data /\ status' = status /\ pc' = pc /\ call' = call /\ add' = add
        /\ read' = read /\ dangling' = dangling /\ disturbed' = disturbed
        /\ alive' = [alive EXCEPT ![n] = FALSE]
    BY <1>3 DEF Crash, store, frames, history
  <2>2. \A m \in Node : alive'[m] => alive[m]
    BY <1>1, <2>1 DEF LockInv, FrameTypes
  <2> QED
    BY <1>1, <2>1, <2>2, CrashKeepsReads
<1>4. ASSUME NEW t \in Thread, Start(t) \/ Step(t) PROVE ReadInv'
  <2>1. Footprint(t)
    BY <1>1, <1>4, ThreadKeepsLocks
  <2>2. CASE Start(t) \/ Walks(t)
    BY <1>1, <2>1, <2>2, WalksKeepReads, RemovalsKeepReads DEF Walks
  <2>3. CASE Adds(t)
    <3>1. CASE RecordData(t)
      BY <1>1, <2>1, <3>1, RecordStep, RecordDies
    <3>2. CASE SendLock(t)
      BY <1>1, <2>1, <3>2, AddsKeepReads, SendLockKeepsReads
    <3>3. CASE Evict(t)
      BY <1>1, <2>1, <3>3, AddsKeepReads, RemovalsKeepReads
    <3>4. CASE CheckSpace(t) \/ CountSpace(t) \/ SourceFails(t) \/ DestFails(t)
      BY <1>1, <2>1, <3>4, AddsKeepReads
    <3>5. CASE Insert(t)
      BY <1>1, <2>1, <3>5, InsertsKeepReads
    <3>6. CASE GetSource(t)
      BY <1>1, <2>1, <3>6, GetSourceKeepsReads
    <3>7. CASE Sent(t) \/ UnlockData(t)
      BY <1>1, <2>1, <3>7, ReadiesKeepReads
    <3> QED
      BY <2>3, <3>1, <3>2, <3>3, <3>4, <3>5, <3>6, <3>7 DEF Adds
  <2>4. CASE Uses(t)
    BY <1>1, <2>1, <2>4, UsesKeepReads, UseKeepsReads, InsertsKeepReads,
       ReplaceKeepsReads, ReadiesKeepReads DEF Uses
  <2> QED
    BY <1>4, <2>2, <2>3, <2>4 DEF Step
<1> QED
  BY <1>2, <1>3, <1>4 DEF Next

\* A solver is given all the bytes of its parameter, and of one version, as
\* long as nothing disturbed the replica of its node: transfers read nothing
\* that is still "downloading", however calls and crashes interleave.
THEOREM SolversReadWhole == Spec => []ReadsWhole
<1>1. ReadInv => ReadsWhole
  <2> SUFFICES ASSUME ReadInv, NEW t \in Thread, pc[t] = "solve",
                      Clean(call[t].node, call[t].dat)
               PROVE  Whole(read[t], call[t].dat)
    BY DEF ReadsWhole, Clean
  <2>1. PICK n \in Node, d \in Data : n = call[t].node /\ d = call[t].dat
    BY FrameFields DEF ReadInv, LockInv
  <2>2. SolverAt(t, n, d)
    BY <2>1 DEF ReadInv, PairInv, ThreadAt
  <2> QED
    BY <2>1, <2>2 DEF SolverAt
<1> QED
  BY <1>1, ReadInvInit, ReadInvNext, PTL DEF Spec

------------------------------------------------------------------------------
(* Counting bytes *)

\* A singleton, and the numbers up to k.
LEMMA SmallSets ==
  ASSUME NEW k \in Nat, NEW d
  PROVE  /\ IsFiniteSet({d}) /\ Cardinality({d}) = 1
         /\ IsFiniteSet(1 .. k) /\ Cardinality(1 .. k) = k
<1>1. IsFiniteSet({d}) /\ Cardinality({d}) = 1
  BY FS_Singleton
<1>2. 1 \in Int /\ k \in Int
  OBVIOUS
<1>3. /\ IsFiniteSet(1 .. k)
      /\ Cardinality(1 .. k) = IF 1 > k THEN 0 ELSE k - 1 + 1
  BY <1>2, FS_Interval
<1> QED
  BY <1>1, <1>3

\* The bytes of some data are finitely many.
LEMMA BytesFinite ==
  ASSUME NEW S \in SUBSET Data
  PROVE  IsFiniteSet(BytesOf(S)) /\ Cardinality(BytesOf(S)) \in Nat
<1> DEFINE F == {{d} \X (1 .. Size[d]) : d \in S}
           f == [d \in S |-> {d} \X (1 .. Size[d])]
<1>1. f \in Surjection(S, F)
  <2>1. f \in [S -> F] /\ \A T \in F : \E d \in S : f[d] = T
    OBVIOUS
  <2> HIDE DEF f, F
  <2> QED
    BY <2>1 DEF Surjection
<1>2. IsFiniteSet(F)
  <2>1. IsFiniteSet(S)
    BY DagdaAssumption, FS_Subset
  <2> HIDE DEF f, F
  <2> QED
    BY <1>1, <2>1, FS_Surjection
<1>3. ASSUME NEW T \in F PROVE IsFiniteSet(T)
  <2>1. PICK d \in S : T = {d} \X (1 .. Size[d])
    OBVIOUS
  <2>2. Size[d] \in Nat
    BY DagdaAssumption
  <2>3. IsFiniteSet({d}) /\ IsFiniteSet(1 .. Size[d])
    BY <2>2, SmallSets
  <2> QED
    BY <2>1, <2>3, FS_Product
<1>4. BytesOf(S) = UNION F
  BY DEF BytesOf
<1> HIDE DEF F
<1>5. IsFiniteSet(UNION F)
  BY <1>2, <1>3, FS_UNION
<1> QED
  BY <1>4, <1>5, FS_CardinalityType

\* One datum more has Size[d] bytes more.
LEMMA BytesAdd ==
  ASSUME NEW S \in SUBSET Data, NEW d \in Data, d \notin S
  PROVE  Cardinality(BytesOf(S \cup {d})) = Cardinality(BytesOf(S)) + Size[d]
<1> DEFINE T == {d} \X (1 .. Size[d])
<1>1. Size[d] \in Nat
  BY DagdaAssumption
<1>2. IsFiniteSet(T) /\ Cardinality(T) = Size[d]
  <2>1. /\ IsFiniteSet({d}) /\ Cardinality({d}) = 1
        /\ IsFiniteSet(1 .. Size[d]) /\ Cardinality(1 .. Size[d]) = Size[d]
    BY <1>1, SmallSets
  <2>2. IsFiniteSet(T) /\ Cardinality(T) = Cardinality({d}) * Cardinality(1 .. Size[d])
    BY <2>1, FS_Product
  <2> QED
    BY <1>1, <2>1, <2>2
<1>3. BytesOf(S \cup {d}) = BytesOf(S) \cup T
  <2>1. \A b : b \in BytesOf(S \cup {d}) <=> \E x \in S \cup {d} : b \in {x} \X (1 .. Size[x])
    BY DEF BytesOf
  <2>2. \A b : b \in BytesOf(S) <=> \E x \in S : b \in {x} \X (1 .. Size[x])
    BY DEF BytesOf
  <2>3. \A b : b \in T <=> b \in {d} \X (1 .. Size[d])
    OBVIOUS
  <2> HIDE DEF T
  <2> QED
    BY <2>1, <2>2, <2>3, Zenon
<1>4. BytesOf(S) \cap T = {}
  BY DEF BytesOf
<1> HIDE DEF T
<1>5. IsFiniteSet(BytesOf(S)) /\ Cardinality(BytesOf(S)) \in Nat
  BY BytesFinite
<1>6. Cardinality(BytesOf(S) \cup T)
        = Cardinality(BytesOf(S)) + Cardinality(T) - Cardinality({})
  BY <1>2, <1>4, <1>5, FS_Union
<1>7. Cardinality({}) = 0
  BY FS_EmptySet
<1> DEFINE a == Cardinality(BytesOf(S))
           k == Size[d]
           u == Cardinality(BytesOf(S) \cup T)
<1>8. u = a + k - 0 /\ a \in Nat /\ k \in Nat
  BY <1>1, <1>2, <1>5, <1>6, <1>7, Zenon
<1> HIDE DEF a, k, u
<1>9. u = a + k
  BY <1>8
<1> USE DEF a, k, u
<1> QED
  BY <1>3, <1>9

\* What the map holds, when each of its values is empty or whole.
LEMMA StoredBytes ==
  ASSUME DataTypes, NEW n \in Node
  PROVE  Stored(n) = BytesOf({d \in Data : d \in DOMAIN data[n] /\ data[n][d].value # <<>>})
<1> DEFINE D == {d \in Data : d \in DOMAIN data[n] /\ data[n][d].value # <<>>}
<1>1. DOMAIN data[n] \subseteq Data /\ \A d \in DOMAIN data[n] : data[n][d] \in Item
  BY MapTypes DEF DataTypes
<1>2. ASSUME NEW d \in DOMAIN data[n], data[n][d].value # <<>>
      PROVE  DOMAIN data[n][d].value = 1 .. Size[d]
  <2>1. data[n][d].value \in Seq(Nat) /\ Len(data[n][d].value) = Size[d]
    BY <1>1, <1>2 DEF Item, DataTypes
  <2> QED
    BY <2>1
<1>3. ASSUME NEW b PROVE b \in Stored(n) <=> b \in BytesOf(D)
  <2>1. b \in Stored(n) <=> \E d \in DOMAIN data[n] : b \in {d} \X DOMAIN data[n][d].value
    BY DEF Stored
  <2>2. b \in BytesOf(D) <=> \E d \in D : b \in {d} \X (1 .. Size[d])
    BY DEF BytesOf
  <2>3. ASSUME NEW d \in DOMAIN data[n], b \in {d} \X DOMAIN data[n][d].value
        PROVE  d \in D /\ b \in {d} \X (1 .. Size[d])
    <3>1. data[n][d].value # <<>>
      BY <2>3
    <3> QED
      BY <1>1, <1>2, <2>3, <3>1
  <2>4. ASSUME NEW d \in D, b \in {d} \X (1 .. Size[d])
        PROVE  d \in DOMAIN data[n] /\ b \in {d} \X DOMAIN data[n][d].value
    BY <1>2, <2>4
  <2> HIDE DEF D
  <2> QED
    BY <2>1, <2>2, <2>3, <2>4
<1> QED
  BY <1>3

------------------------------------------------------------------------------
(* What usedMemSpace counts *)

Calm(n) == (\A d \in Data : Clean(n, d)) /\ \A m \in Node : alive[m]

\* A solver that owns the buffer of an INOUT datum, or puts it back: its bytes
\* stay counted although the map does not have them.
Holder(t, n, d) ==
  \/ t \in Borrowers(n, d)
  \/ t \in Writers(n, d) /\ pc[t] \in {"replace", "uploaded"}

\* A transfer counts its bytes when it is over.
Counted(n, d) ==
  \/ \E t \in Thread : Holder(t, n, d)
  \/ Writers(n, d) = {} /\ d \in DOMAIN data[n] /\ data[n][d].value # <<>>

CountedData(n) == {d \in Data : Counted(n, d)}

SpaceAt(n) == Calm(n) => usedMem[n] = Cardinality(BytesOf(CountedData(n)))

\* Before the first block an entry has no bytes.
EmptyAt(t, n, d) ==
  Clean(n, d) /\ t \in Writers(n, d) /\ pc[t] \in {"getsrc", "sendLock"}
    => data[n][d].value = <<>>

SpaceInv ==
  /\ ReadInv
  /\ DOMAIN usedMem = Node
  /\ \A n \in SeDs \cup {Root} : SpaceAt(n)
  /\ \A t \in Thread, n \in Node, d \in Data : EmptyAt(t, n, d)

\* Who holds the bytes.
LEMMA Holders ==
  ASSUME NEW t \in Thread, NEW n, NEW d
  PROVE  /\ Holder(t, n, d) <=>
              /\ call[t].dat = d /\ call[t].node = n
              /\ pc[t] \in {"replace", "uploaded"} \/ (pc[t] = "solve" /\ call[t].op = "INOUT")
         /\ Holder(t, n, d)' <=>
              /\ call'[t].dat = d /\ call'[t].node = n
              /\ pc'[t] \in {"replace", "uploaded"} \/ (pc'[t] = "solve" /\ call'[t].op = "INOUT")
BY Roles DEF Holder, WritePcs

\* t is as much at work on a replica as before.
OwnPart(t, n, d) == /\ t \in Writers(n, d)' <=> t \in Writers(n, d)
                    /\ Holder(t, n, d)' <=> Holder(t, n, d)

\* Then a replica that keeps its entry stays counted or not.
LEMMA CountedSame ==
  ASSUME NEW t \in Thread, Footprint(t), NEW n \in Node, NEW d \in Data,
         SameEntry(n, d), OwnPart(t, n, d)
  PROVE  Counted(n, d)' <=> Counted(n, d)
<1>1. ASSUME NEW u \in Thread
      PROVE  /\ u \in Writers(n, d)' <=> u \in Writers(n, d)
             /\ Holder(u, n, d)' <=> Holder(u, n, d)
  <2>1. CASE u = t
    BY <2>1 DEF OwnPart
  <2>2. CASE u # t
    <3>1. pc'[u] = pc[u] /\ call'[u] = call[u]
      BY <2>2 DEF Footprint, FramesStep, PcStep, CallStep
    <3> QED
      BY <2>2, <3>1, OthersRoles, Holders
  <2> QED
    BY <2>1, <2>2
<1>2. Writers(n, d)' = Writers(n, d)
  BY <1>1, Workers
<1> QED
  BY <1>1, <1>2 DEF Counted, SameEntry

\* What a step does to the space of m by what it does to the replica of x.
Focal(m, x) ==
  \/ usedMem'[m] = usedMem[m] /\ (Counted(m, x)' <=> Counted(m, x))
  \/ usedMem'[m] = usedMem[m] + Size[x] /\ ~Counted(m, x) /\ Counted(m, x)'
  \/ /\ usedMem'[m] = IF usedMem[m] < Size[x] THEN 0 ELSE usedMem[m] - Size[x]
     /\ Counted(m, x) /\ ~Counted(m, x)'

\* The space goes with the data that are counted.
LEMMA FocalSpace ==
  ASSUME SpaceInv, NEW m \in SeDs \cup {Root}, NEW x \in Data, Focal(m, x),
         Calm(m)' => Calm(m),
         \A d \in Data \ {x} : Counted(m, d)' <=> Counted(m, d)
  PROVE  SpaceAt(m)'
<1> SUFFICES ASSUME Calm(m)'
             PROVE  usedMem'[m] = Cardinality(BytesOf(CountedData(m)'))
  BY DEF SpaceAt
<1> DEFINE D == CountedData(m)
           E == CountedData(m)'
           c == Cardinality(BytesOf(D))
           k == Size[x]
<1>1. usedMem[m] = c
  BY DEF SpaceInv, SpaceAt
<1>2. D \in SUBSET Data /\ E \in SUBSET Data /\ k \in Nat
  BY DagdaAssumption DEF CountedData
<1>3. \A d \in Data \ {x} : d \in E <=> d \in D
  BY DEF CountedData
<1>4. /\ x \in D <=> Counted(m, x)
      /\ x \in E <=> Counted(m, x)'
  BY DEF CountedData
<1>5. c \in Nat
  BY <1>2, BytesFinite
<1> HIDE DEF D, E
<1>6. CASE usedMem'[m] = usedMem[m] /\ (Counted(m, x)' <=> Counted(m, x))
  <2>1. E = D
    BY <1>2, <1>3, <1>4, <1>6
  <2> QED
    BY <1>1, <1>6, <2>1 DEF D, E
<1>7. CASE usedMem'[m] = usedMem[m] + Size[x] /\ ~Counted(m, x) /\ Counted(m, x)'
  <2>1. E = D \cup {x} /\ x \notin D
    BY <1>2, <1>3, <1>4, <1>7
  <2>2. Cardinality(BytesOf(D \cup {x})) = c + k
    BY <1>2, <2>1, BytesAdd
  <2> HIDE DEF c
  <2> QED
    BY <1>1, <1>7, <2>1, <2>2 DEF E
<1>8. CASE /\ usedMem'[m] = IF usedMem[m] < Size[x] THEN 0 ELSE usedMem[m] - Size[x]
           /\ Counted(m, x) /\ ~Counted(m, x)'
  <2> DEFINE e == Cardinality(BytesOf(E))
  <2>1. D = E \cup {x} /\ x \notin E
    BY <1>2, <1>3, <1>4, <1>8
  <2>2. Cardinality(BytesOf(E \cup {x})) = e + k /\ e \in Nat
    BY <1>2, <2>1, BytesAdd, BytesFinite
  <2>3. c = e + k
    BY <2>1, <2>2
  <2>4. usedMem'[m] = IF c < k THEN 0 ELSE c - k
    BY <1>1, <1>8
  <2>5. e \in Nat
    BY <2>2
  <2>6. usedMem'[m] = e
    <3> HIDE DEF c, e, k
    <3> QED
      BY <1>2, <2>3, <2>4, <2>5
  <2> QED
    BY <2>6 DEF E
<1> QED
  BY <1>6, <1>7, <1>8 DEF Focal

\* A step that changes at most the replica of x on m.
LEMMA SpaceStep ==
  ASSUME SpaceInv, ReadInv', NEW t \in Thread, Footprint(t), HistoryStep(t),
         NEW m \in Node, NEW x \in Data,
         DOMAIN usedMem' = Node, \A n \in Node \ {m} : usedMem'[n] = usedMem[n],
         \A n \in Node, d \in Data : <<n, d>> # <<m, x>> =>
           SameEntry(n, d) /\ (Calm(n)' => OwnPart(t, n, d)),
         m # Client /\ Calm(m)' => Focal(m, x),
         \A n \in Node, d \in Data : EmptyAt(t, n, d)',
         Clean(m, x)' /\ Writers(m, x) \ {t} # {} =>
           data'[m][x].value \in {<<>>, data[m][x].value}
  PROVE  SpaceInv'
<1>1. ASSUME NEW n \in Node, Calm(n)' PROVE Calm(n)
  BY <1>1 DEF Calm, Clean, HistoryStep, Footprint, AliveStep
<1>2. ASSUME NEW n \in SeDs \cup {Root} PROVE SpaceAt(n)'
  <2> SUFFICES ASSUME Calm(n)' PROVE SpaceAt(n)'
    BY DEF SpaceAt
  <2>1. n \in Node
    BY Nodes
  <2>2. \A d \in Data : <<n, d>> # <<m, x>> => (Counted(n, d)' <=> Counted(n, d))
    BY <2>1, CountedSame
  <2>3. CASE n = m
    BY <1>1, <2>1, <2>2, <2>3, Nodes, FocalSpace
  <2>4. CASE n # m
    <3>1. PICK d \in Data : TRUE
      BY DagdaAssumption
    <3>2. Focal(n, d) /\ \A y \in Data : Counted(n, y)' <=> Counted(n, y)
      BY <2>1, <2>2, <2>4 DEF Focal
    <3> QED
      BY <1>1, <2>1, <3>2, FocalSpace
  <2> QED
    BY <2>3, <2>4
<1>3. ASSUME NEW u \in Thread, NEW n \in Node, NEW d \in Data PROVE EmptyAt(u, n, d)'
  <2>1. CASE u = t
    BY <2>1
  <2>2. CASE u # t
    <3> SUFFICES ASSUME Clean(n, d)', u \in Writers(n, d)', pc'[u] \in {"getsrc", "sendLock"}
                 PROVE  data'[n][d].value = <<>>
      BY DEF EmptyAt
    <3>1. Clean(n, d) /\ pc'[u] = pc[u] /\ u \in Writers(n, d)
      BY <2>2, OthersRoles DEF Clean, HistoryStep, Footprint, FramesStep, PcStep
    <3>2. data[n][d].value = <<>>
      BY <3>1 DEF SpaceInv, EmptyAt
    <3>3. d \in DOMAIN data[n]
      BY <3>1 DEF SpaceInv, ReadInv, PairInv, ThreadAt, WriterAt
    <3>4. CASE <<n, d>> = <<m, x>>
      BY <2>2, <3>1, <3>2, <3>4
    <3>5. CASE <<n, d>> # <<m, x>>
      BY <3>2, <3>3, <3>5 DEF SameEntry
    <3> QED
      BY <3>4, <3>5
  <2> QED
    BY <2>1, <2>2
<1> QED
  BY <1>2, <1>3 DEF SpaceInv

\* A step that stores nothing and counts nothing.
LEMMA SpaceQuiet ==
  ASSUME SpaceInv, ReadInv', NEW t \in Thread, Footprint(t), HistoryStep(t),
         data' = data, usedMem' = usedMem,
         \A n \in Node, d \in Data : Calm(n)' => OwnPart(t, n, d),
         \A n \in Node, d \in Data : EmptyAt(t, n, d)'
  PROVE  SpaceInv'
<1>1. PICK m \in Node, x \in Data : TRUE
  BY DagdaAssumption, Nodes
<1>2. \A n \in Node, d \in Data : SameEntry(n, d)
  BY DEF SameEntry
<1>3. Calm(m)' => Focal(m, x)
  BY <1>2, CountedSame DEF Focal
<1>4. DOMAIN usedMem' = Node
  BY DEF SpaceInv
<1> QED
  BY <1>1, <1>2, <1>3, <1>4, SpaceStep

\* A thread that neither transfers a replica nor holds one.
Workless(t) == /\ pc[t] \notin WritePcs \cup {"replace", "uploaded"}
               /\ pc[t] = "solve" => call[t].op # "INOUT"

LEMMA WorklessStep ==
  ASSUME NEW t \in Thread, Workless(t), Workless(t)', NEW n \in Node, NEW d \in Data
  PROVE  OwnPart(t, n, d) /\ EmptyAt(t, n, d)'
<1>1. /\ t \notin Writers(n, d) /\ t \notin Writers(n, d)'
      /\ ~Holder(t, n, d) /\ ~Holder(t, n, d)'
  BY Roles, Holders DEF Workless
<1> QED
  BY <1>1 DEF OwnPart, EmptyAt

\* The search stores nothing but by the removal, which is apart,
LEMMA WalksKeepSpace ==
  ASSUME SpaceInv, ReadInv', NEW t \in Thread, Footprint(t),
         \/ Start(t) \/ LclPresent(t) \/ LockChildren(t) \/ VisitChild(t)
         \/ ChildFails(t) \/ RootFails(t) \/ EndWalk(t)
         \/ VisitRoot(t) /\ walk[t].why # "remove"
  PROVE  SpaceInv'
<1>1. ReadInv
  BY DEF SpaceInv
<1>2. OffStep(t)
  BY <1>1, WalksAreOff
<1>3. Workless(t) /\ Workless(t)'
  BY <1>2 DEF OffStep, OffWork, Workless
<1>4. HistoryStep(t)
  BY <1>1, <1>2 DEF OffStep, HistoryStep, ReadInv, DataTypes
<1> QED
  BY <1>2, <1>3, <1>4, WorklessStep, SpaceQuiet DEF OffStep

\* nor does an add before it inserts,
LEMMA ChecksKeepSpace ==
  ASSUME SpaceInv, ReadInv', NEW t \in Thread, Footprint(t),
         CheckSpace(t) \/ (Evict(t) /\ Victims(add[t].dest, call[t].dat) = {})
  PROVE  SpaceInv'
<1>1. ReadInv /\ FrameTypes /\ add[t].ret \in Rets
  BY FrameFields DEF SpaceInv, ReadInv, LockInv
<1>2. /\ pc[t] \in {"add", "evict"}
      /\ data' = data /\ usedMem' = usedMem /\ read' = read
      /\ disturbed \subseteq disturbed'
      /\ \/ Raise(t, TRUE) \/ Raise(t, FALSE)
         \/ \E s \in {"insert", "evict", add[t].ret} : pc' = [pc EXCEPT ![t] = s]
  <2>1. CASE CheckSpace(t)
    <3>1. /\ pc[t] = "add" /\ data' = data /\ usedMem' = usedMem /\ read' = read
          /\ \/ Raise(t, TRUE) \/ Raise(t, FALSE)
             \/ \E s \in {"insert", "evict", add[t].ret} : pc' = [pc EXCEPT ![t] = s]
      BY <2>1 DEF CheckSpace, store
    <3>2. disturbed \subseteq disturbed'
      BY <2>1 DEF CheckSpace, Disturb
    <3> QED
      BY <3>1, <3>2
  <2>2. CASE Evict(t) /\ Victims(add[t].dest, call[t].dat) = {}
    BY <2>2 DEF Evict, store
  <2> QED
    BY <2>1, <2>2
<1>3. pc'[t] \in {"insert", "evict", "child", "failed", "use", "lock"}
  <2>1. CASE Raise(t, TRUE) \/ Raise(t, FALSE)
    BY <1>1, <2>1, RaiseSteps
  <2>2. CASE \E s \in {"insert", "evict", add[t].ret} : pc' = [pc EXCEPT ![t] = s]
    BY <1>1, <2>2 DEF FrameTypes, Rets
  <2> QED
    BY <1>2, <2>1, <2>2
<1>4. Workless(t) /\ Workless(t)'
  BY <1>2, <1>3 DEF Workless, WritePcs
<1>5. HistoryStep(t)
  BY <1>1, <1>2 DEF HistoryStep, ReadInv, DataTypes
<1> QED
  BY <1>2, <1>4, <1>5, WorklessStep, SpaceQuiet

\* nor the preparation of a call, nor the end of one with an IN parameter.
LEMMA UsesKeepSpace ==
  ASSUME SpaceInv, ReadInv', NEW t \in Thread, Footprint(t),
         \/ LclPresentAgain(t) \/ GetDesc(t)
         \/ Solve(t) /\ call[t].op = "IN"
  PROVE  SpaceInv'
<1>1. ReadInv /\ FrameTypes /\ add[t].src \in Node /\ call[t].node \in Node
  BY FrameFields DEF SpaceInv, ReadInv, LockInv
<1>2. /\ pc[t] \in {"lcl2", "desc"} \/ (pc[t] = "solve" /\ call[t].op = "IN")
      /\ data' = data /\ usedMem' = usedMem /\ read' = read /\ disturbed' = disturbed
      /\ \/ CallAdd(t, call[t].node, add[t].src, "use")
         \/ pc'[t] \in {"use", "desc", "failed", "done"}
  <2>1. CASE LclPresentAgain(t)
    BY <1>1, <2>1 DEF LclPresentAgain, store, history, FrameTypes
  <2>2. CASE GetDesc(t)
    BY <1>1, <2>2 DEF GetDesc, store, history, FrameTypes
  <2>3. CASE Solve(t) /\ call[t].op = "IN"
    BY <1>1, <2>3 DEF Solve, FrameTypes
  <2> QED
    BY <2>1, <2>2, <2>3
<1>3. pc'[t] \in {"add", "use", "desc", "failed", "done"}
  <2>1. CASE CallAdd(t, call[t].node, add[t].src, "use")
    <3>1. "use" \in Rets
      BY DEF Rets
    <3> QED
      BY <1>1, <2>1, <3>1, CallAddSteps
  <2> QED
    BY <1>2, <2>1
<1>4. Workless(t) /\ Workless(t)'
  BY <1>2, <1>3 DEF Workless, WritePcs
<1>5. HistoryStep(t)
  BY <1>1, <1>2 DEF HistoryStep, ReadInv, DataTypes
<1> QED
  BY <1>2, <1>4, <1>5, WorklessStep, SpaceQuiet

\* A step after which some process is gone.
LEMMA FailuresKeepSpace ==
  ASSUME SpaceInv, ReadInv', NEW t \in Thread, Footprint(t),
         \/ SourceFails(t) \/ DestFails(t) \/ CallerFails(t)
         \/ RecordData(t) /\ add'[t].blk = add[t].blk
  PROVE  SpaceInv'
<1>1. ReadInv /\ FrameTypes
  BY DEF SpaceInv, ReadInv, LockInv
<1>2. PICK m \in Node, s \in Node, n \in Node :
        m = add[t].dest /\ s = add[t].src /\ n = call[t].node
  BY <1>1, FrameFields
<1>3. /\ data' = data /\ usedMem' = usedMem /\ read' = read /\ disturbed' = disturbed
      /\ \E p \in Node : ~alive'[p]
      /\ \/ \/ pc' = pc /\ add' = add /\ call' = call
         \/ \/ Raise(t, TRUE)
            \/ pc' = [pc EXCEPT ![t] = "dead"]
  <2>1. CASE SourceFails(t)
    BY <1>2, <2>1 DEF SourceFails, store, history
  <2>2. CASE DestFails(t)
    BY <1>2, <2>2 DEF DestFails, store, history
  <2>3. CASE CallerFails(t)
    BY <1>2, <2>3 DEF CallerFails, store, platform, history
  <2>4. CASE RecordData(t) /\ add'[t].blk = add[t].blk
    <3>1. add[t].blk \in Nat /\ add \in [Thread -> AddFrames]
      BY <1>1, FrameFields DEF FrameTypes
    <3>2. add' # [add EXCEPT ![t].blk = add[t].blk + 1]
      BY <2>4, <3>1 DEF AddFrames
    <3>3. /\ data' = data /\ usedMem' = usedMem /\ read' = read /\ disturbed' = disturbed
          /\ alive' = [alive EXCEPT ![m] = FALSE]
          /\ pc' = pc /\ add' = add /\ call' = call
      BY <1>2, <2>4, <3>2 DEF RecordData
    <3> QED
      BY <1>1, <3>3 DEF FrameTypes
  <2> QED
    BY <2>1, <2>2, <2>3, <2>4
<1>4. ASSUME NEW p \in Node, NEW d \in Data PROVE EmptyAt(t, p, d)'
  <2>1. CASE pc' = pc /\ add' = add /\ call' = call
    <3>1. EmptyAt(t, p, d)
      BY DEF SpaceInv
    <3> QED
      BY <1>3, <2>1, <3>1, Roles DEF EmptyAt, Clean
  <2>2. CASE Raise(t, TRUE) \/ pc' = [pc EXCEPT ![t] = "dead"]
    <3>1. pc'[t] \in {"child", "failed", "dead"}
      BY <1>1, <2>2, RaiseSteps DEF FrameTypes
    <3> QED
      BY <3>1 DEF EmptyAt
  <2> QED
    BY <1>3, <2>1, <2>2
<1>5. HistoryStep(t)
  BY <1>1, <1>3 DEF HistoryStep, ReadInv, DataTypes
<1>6. ASSUME NEW p \in Node PROVE ~Calm(p)'
  BY <1>3 DEF Calm
<1> QED
  BY <1>3, <1>4, <1>5, <1>6, SpaceQuiet

\* A replica where at most t is at work.
LEMMA AloneCounts ==
  ASSUME NEW t \in Thread, Footprint(t), NEW n \in Node, NEW d \in Data,
         Busy(n, d) \subseteq {t}
  PROVE  /\ Counted(n, d) <=>
              \/ Holder(t, n, d)
              \/ t \notin Writers(n, d) /\ d \in DOMAIN data[n] /\ data[n][d].value # <<>>
         /\ Counted(n, d)' <=>
              \/ Holder(t, n, d)'
              \/ /\ t \notin Writers(n, d)'
                 /\ d \in DOMAIN data'[n] /\ data'[n][d].value # <<>>
<1>1. ASSUME NEW u \in Thread \ {t}
      PROVE  /\ u \notin Writers(n, d) /\ u \notin Writers(n, d)'
             /\ ~Holder(u, n, d) /\ ~Holder(u, n, d)'
  <2>1. u \notin Writers(n, d) /\ u \notin Borrowers(n, d)
    BY DEF Busy
  <2>2. u \notin Writers(n, d)' /\ u \notin Borrowers(n, d)'
    BY <2>1, OthersRoles
  <2> QED
    BY <2>1, <2>2 DEF Holder
<1>2. /\ Writers(n, d) = {} <=> t \notin Writers(n, d)
      /\ Writers(n, d)' = {} <=> t \notin Writers(n, d)'
  BY <1>1, Workers
<1> QED
  BY <1>1, <1>2 DEF Counted

\* Who is at work on a replica that nothing disturbed is alone.
LEMMA Sole ==
  ASSUME ReadInv, NEW t \in Thread, NEW n \in Node, NEW d \in Data,
         Clean(n, d), t \in Busy(n, d)
  PROVE  Busy(n, d) \subseteq {t} /\ ThreadAt(t, n, d)
BY DEF ReadInv, PairInv

\* The space of a node that is calm is a number.
LEMMA SpaceType ==
  ASSUME SpaceInv, NEW n \in Node, n # Client, Calm(n)
  PROVE  usedMem[n] \in Nat
<1>1. CountedData(n) \in SUBSET Data
  BY DEF CountedData
<1>2. SpaceAt(n)
  BY DEF SpaceInv, Node
<1> QED
  BY <1>1, <1>2, BytesFinite DEF SpaceAt

LEMMA CalmBefore ==
  ASSUME NEW t \in Thread, Footprint(t), HistoryStep(t), NEW n \in Node, Calm(n)'
  PROVE  Calm(n) /\ \A d \in Data : Clean(n, d) /\ Clean(n, d)'
BY DEF Calm, Clean, HistoryStep, Footprint, AliveStep

\* A removal frees what it erases.
LEMMA RemovalSpace ==
  ASSUME SpaceInv, ReadInv', NEW t \in Thread, Footprint(t),
         NEW m \in Node, NEW x \in Data, remData(t, m, x), read' = read,
         Workless(t), Workless(t)'
  PROVE  SpaceInv'
<1>1. /\ x \in DOMAIN data[m] =>
           /\ usedMem' = freeMemSpace(m, Len(data[m][x].value))
           /\ data' = Erase(m, x)
           /\ disturbed' = IF AtWork(m, x) \ {t} # {} THEN disturbed \cup {<<m, x>>}
                                                      ELSE disturbed
      /\ x \notin DOMAIN data[m] =>
           usedMem' = usedMem /\ data' = data /\ disturbed' = disturbed
  BY DEF remData, Disturb
<1>2. HistoryStep(t) /\ ReadInv
  BY <1>1 DEF HistoryStep, SpaceInv, ReadInv, DataTypes
<1>3. CASE x \notin DOMAIN data[m]
  BY <1>1, <1>2, <1>3, WorklessStep, SpaceQuiet
<1>4. CASE x \in DOMAIN data[m]
  <2>1. /\ x \notin DOMAIN data'[m]
        /\ \A n \in Node, d \in Data : <<n, d>> # <<m, x>> => SameEntry(n, d)
    BY <1>1, <1>2, <1>4, EraseSteps DEF ReadInv
  <2> DEFINE l == Len(data[m][x].value)
  <2>2. /\ DOMAIN usedMem' = Node
        /\ \A n \in Node \ {m} : usedMem'[n] = usedMem[n]
        /\ usedMem'[m] = IF usedMem[m] < l THEN 0 ELSE usedMem[m] - l
    <3>1. usedMem' = freeMemSpace(m, l)
      BY <1>1, <1>4
    <3> HIDE DEF l
    <3> QED
      BY <3>1 DEF SpaceInv, freeMemSpace
  <2>3. Clean(m, x)' => AtWork(m, x) \ {t} = {}
    BY <1>1, <1>4 DEF Clean
  <2>4. ASSUME m # Client, Calm(m)' PROVE Focal(m, x)
    <3>1. Busy(m, x) \subseteq {t} /\ Calm(m)
      BY <1>2, <2>3, <2>4, CalmBefore DEF Busy, AtWork
    <3>2. /\ ~Holder(t, m, x) /\ ~Holder(t, m, x)' /\ t \notin Writers(m, x)
      BY Roles, Holders DEF Workless
    <3>3. /\ Counted(m, x) <=> data[m][x].value # <<>>
          /\ ~Counted(m, x)'
      BY <1>4, <2>1, <3>1, <3>2, AloneCounts
    <3>4. usedMem[m] \in Nat
      BY <2>4, <3>1, SpaceType
    <3>5. CASE data[m][x].value = <<>>
      <4>1. l = 0
        BY <3>5
      <4>2. usedMem'[m] = usedMem[m]
        BY <2>2, <3>4, <4>1
      <4> QED
        BY <3>3, <3>5, <4>2 DEF Focal
    <3>6. CASE data[m][x].value # <<>>
      <4>1. l = Size[x]
        BY <1>2, <1>4, <3>6 DEF ReadInv, DataTypes
      <4> QED
        BY <2>2, <3>3, <3>6, <4>1 DEF Focal
    <3> QED
      BY <3>5, <3>6
  <2>5. Clean(m, x)' => Writers(m, x) \ {t} = {}
    BY <2>3 DEF AtWork
  <2> QED
    BY <1>2, <2>1, <2>2, <2>4, <2>5, WorklessStep, SpaceStep
<1> QED
  BY <1>3, <1>4

\* The four places that remove a replica.
LEMMA RemovalsKeepSpace ==
  ASSUME SpaceInv, ReadInv', NEW t \in Thread, Footprint(t),
         \/ VisitRoot(t) /\ walk[t].why = "remove"
         \/ ChildRem(t) \/ Refresh(t)
         \/ Evict(t) /\ Victims(add[t].dest, call[t].dat) # {}
  PROVE  SpaceInv'
<1>f. /\ ReadInv /\ FrameTypes /\ LockAt(t)
      /\ call[t].dat \in Data /\ call[t].node \in Node
      /\ add[t].dest \in Node /\ add[t].ret \in Rets
  BY FrameFields DEF SpaceInv, ReadInv, LockInv
<1>1. CASE VisitRoot(t) /\ walk[t].why = "remove"
  <2>1. /\ pc[t] = "root" /\ pc' = [pc EXCEPT ![t] = "lock"]
        /\ remData(t, Root, call[t].dat) /\ read' = read
    BY <1>1 DEF VisitRoot
  <2>2. Workless(t) /\ Workless(t)'
    BY <1>f, <2>1 DEF FrameTypes, Workless, WritePcs
  <2> QED
    BY <1>f, <2>1, <2>2, Nodes, RemovalSpace
<1>2. CASE ChildRem(t)
  <2>1. /\ pc[t] = "childRem" /\ pc' = [pc EXCEPT ![t] = "child"]
        /\ remData(t, Head(walk[t].todo), call[t].dat) /\ read' = read
    BY <1>2 DEF ChildRem
  <2>2. Workless(t) /\ Workless(t)'
    BY <1>f, <2>1 DEF FrameTypes, Workless, WritePcs
  <2>3. Head(walk[t].todo) \in Node
    BY <1>f, <2>1, FrameFields DEF LockAt
  <2> QED
    BY <1>f, <2>1, <2>2, <2>3, RemovalSpace
<1>3. CASE Refresh(t)
  <2>1. /\ pc[t] = "refresh" /\ remData(t, add[t].dest, call[t].dat) /\ read' = read
        /\ CallAdd(t, add[t].dest, call[t].node, add[t].ret)
    BY <1>3 DEF Refresh
  <2>2. pc'[t] = "add"
    BY <1>f, <2>1, CallAddSteps
  <2>3. Workless(t) /\ Workless(t)'
    BY <2>1, <2>2 DEF Workless, WritePcs
  <2> QED
    BY <1>f, <2>1, <2>3, RemovalSpace
<1>4. CASE Evict(t) /\ Victims(add[t].dest, call[t].dat) # {}
  <2>1. /\ pc[t] = "evict" /\ pc' = [pc EXCEPT ![t] = "add"] /\ read' = read
        /\ \E v \in Victims(add[t].dest, call[t].dat) : remData(t, add[t].dest, v)
    BY <1>4 DEF Evict
  <2>2. PICK v \in DOMAIN data[add[t].dest] : remData(t, add[t].dest, v)
    BY <2>1 DEF Victims
  <2>3. v \in Data
    <3>1. data[add[t].dest] \in Maps
      BY <1>f DEF ReadInv, DataTypes
    <3> QED
      BY <3>1, MapTypes
  <2>4. Workless(t) /\ Workless(t)'
    BY <1>f, <2>1 DEF FrameTypes, Workless, WritePcs
  <2> QED
    BY <1>f, <2>1, <2>2, <2>3, <2>4, RemovalSpace
<1> QED
  BY <1>1, <1>2, <1>3, <1>4

\* An insertion counts nothing yet: what t inserts has no bytes, and those of
\* a solver are counted already.
LEMMA AddDataSpace ==
  ASSUME SpaceInv, ReadInv', NEW t \in Thread, Footprint(t),
         NEW m \in Node, NEW x \in Data, addData(t, m, x), read' = read,
         usedMem' = usedMem, call' = call, add' = add, call[t].dat = x,
         \/ pc[t] = "insert" /\ pc'[t] = "getsrc" /\ add[t].dest = m
         \/ /\ pc[t] = "solve" /\ pc'[t] = "replace" /\ call[t].node = m
            /\ call[t].op = "INOUT"
  PROVE  SpaceInv'
<1> DEFINE e == Entry(TRUE, <<>>)
<1>0. e \in Item /\ e.value = <<>>
  BY DEF Entry, Item
<1>1. /\ data' = Store(m, x, e)
      /\ disturbed' = IF \/ AtWork(m, x) \ {t} # {}
                         \/ x \in DOMAIN data[m] /\ data[m][x].value # <<>>
                        THEN disturbed \cup {<<m, x>>} ELSE disturbed
  BY DEF addData, Disturb
<1> HIDE DEF e
<1>2. HistoryStep(t) /\ ReadInv
  BY <1>1 DEF HistoryStep, SpaceInv, ReadInv, DataTypes
<1>3. /\ x \in DOMAIN data'[m] /\ data'[m][x].value = <<>>
      /\ \A n \in Node, d \in Data : <<n, d>> # <<m, x>> => SameEntry(n, d)
  BY <1>0, <1>1, <1>2, StoreSteps DEF ReadInv
<1>4. ASSUME NEW n \in Node, NEW d \in Data
      PROVE  /\ t \notin Writers(n, d)
             /\ t \in Writers(n, d)' <=> n = m /\ d = x
             /\ Holder(t, n, d)' <=> Holder(t, n, d)
             /\ Holder(t, n, d) <=> pc[t] = "solve" /\ n = m /\ d = x
  BY Roles, Holders DEF WritePcs
<1>5. ASSUME NEW n \in Node, NEW d \in Data, <<n, d>> # <<m, x>>
      PROVE  OwnPart(t, n, d)
  BY <1>4, <1>5 DEF OwnPart
<1>6. Clean(m, x)' => /\ AtWork(m, x) \ {t} = {}
                      /\ x \in DOMAIN data[m] => data[m][x].value = <<>>
  BY <1>1 DEF Clean
<1>7. ASSUME Calm(m)' PROVE Focal(m, x)
  <2>1. Clean(m, x)'
    BY <1>7 DEF Calm
  <2>2. Busy(m, x) \subseteq {t}
    BY <1>6, <2>1 DEF Busy, AtWork
  <2>3. Counted(m, x)' <=> Counted(m, x)
    BY <1>3, <1>4, <1>6, <2>1, <2>2, AloneCounts
  <2> QED
    BY <2>3 DEF Focal
<1>8. ASSUME NEW n \in Node, NEW d \in Data PROVE EmptyAt(t, n, d)'
  BY <1>3, <1>4 DEF EmptyAt
<1>9. Clean(m, x)' => Writers(m, x) \ {t} = {}
  BY <1>6 DEF AtWork
<1>10. DOMAIN usedMem' = Node /\ \A n \in Node : usedMem'[n] = usedMem[n]
  BY DEF SpaceInv
<1> QED
  BY <1>2, <1>3, <1>5, <1>7, <1>8, <1>9, <1>10, SpaceStep

\* The two places that insert an entry.
LEMMA InsertsKeepSpace ==
  ASSUME SpaceInv, ReadInv', NEW t \in Thread, Footprint(t),
         \/ Insert(t)
         \/ Solve(t) /\ call[t].op = "INOUT"
  PROVE  SpaceInv'
<1>f. /\ FrameTypes /\ call[t].dat \in Data /\ add[t].dest \in Node
      /\ call[t].node \in Node
  BY FrameFields DEF SpaceInv, ReadInv, LockInv
<1>1. CASE Insert(t)
  <2>1. /\ pc[t] = "insert" /\ pc' = [pc EXCEPT ![t] = "getsrc"]
        /\ addData(t, add[t].dest, call[t].dat) /\ read' = read
        /\ call' = call /\ add' = add /\ usedMem' = usedMem
    BY <1>1 DEF Insert, frames
  <2>2. pc'[t] = "getsrc"
    BY <1>f, <2>1 DEF FrameTypes
  <2> QED
    BY <1>f, <2>1, <2>2, AddDataSpace
<1>2. CASE Solve(t) /\ call[t].op = "INOUT"
  <2>1. /\ pc[t] = "solve" /\ pc' = [pc EXCEPT ![t] = "replace"]
        /\ addData(t, call[t].node, call[t].dat) /\ read' = read
        /\ call' = call /\ add' = add /\ usedMem' = usedMem
    BY <1>2 DEF Solve, frames
  <2>2. pc'[t] = "replace"
    BY <1>f, <2>1 DEF FrameTypes
  <2> QED
    BY <1>f, <1>2, <2>1, <2>2, AddDataSpace
<1> QED
  BY <1>1, <1>2

\* getData() of the source stores no bytes.
LEMMA GetSourceKeepsSpace ==
  ASSUME SpaceInv, ReadInv', NEW t \in Thread, Footprint(t), GetSource(t)
  PROVE  SpaceInv'
<1>1. PICK s \in Node, d \in Data : s = add[t].src /\ d = call[t].dat
  BY FrameFields DEF SpaceInv, ReadInv, LockInv
<1>2. /\ pc[t] = "getsrc" /\ pc' = [pc EXCEPT ![t] = "sendLock"]
      /\ data' = Lookup(s, d) /\ usedMem' = usedMem /\ call' = call /\ add' = add
      /\ read' = read /\ disturbed' = disturbed
  BY <1>1 DEF GetSource, frames, history
<1>3. pc'[t] = "sendLock" /\ ReadInv
  BY <1>2 DEF SpaceInv, ReadInv, LockInv, FrameTypes
<1>4. HistoryStep(t)
  BY <1>2, <1>3 DEF HistoryStep, ReadInv, DataTypes
<1>5. /\ d \in DOMAIN data[s] => SameEntry(s, d)
      /\ d \notin DOMAIN data[s] => data'[s][d].value = <<>>
      /\ \A n \in Node, x \in Data : <<n, x>> # <<s, d>> => SameEntry(n, x)
  BY <1>2, <1>3, LookupSteps DEF ReadInv, Entry
<1>6. ASSUME NEW n \in Node, NEW x \in Data
      PROVE  OwnPart(t, n, x) /\ (t \in Writers(n, x)' <=> t \in Writers(n, x))
  BY <1>2, <1>3, Roles, Holders DEF OwnPart, WritePcs
<1>7. ASSUME NEW n \in Node, NEW x \in Data, Clean(n, x), NEW u \in Writers(n, x)
      PROVE  x \in DOMAIN data[n] /\ SameEntry(n, x)
  <2>1. u \in Thread
    BY Workers
  <2>2. x \in DOMAIN data[n]
    BY <1>3, <1>7, <2>1 DEF ReadInv, PairInv, ThreadAt, WriterAt
  <2> QED
    BY <1>5, <2>2
<1>8. ASSUME NEW n \in Node, NEW x \in Data PROVE EmptyAt(t, n, x)'
  <2> SUFFICES ASSUME Clean(n, x)', t \in Writers(n, x)' PROVE data'[n][x].value = <<>>
    BY DEF EmptyAt
  <2>1. Clean(n, x) /\ t \in Writers(n, x)
    BY <1>2, <1>6 DEF Clean
  <2>2. data[n][x].value = <<>>
    BY <1>2, <2>1 DEF SpaceInv, EmptyAt
  <2> QED
    BY <1>7, <2>1, <2>2 DEF SameEntry
<1>9. Focal(s, d)
  <2>1. CASE d \in DOMAIN data[s]
    BY <1>2, <1>5, <1>6, <2>1, CountedSame DEF Focal
  <2>2. CASE d \notin DOMAIN data[s]
    <3>1. \A u \in Thread : Holder(u, s, d)' <=> Holder(u, s, d)
      <4>1. ASSUME NEW u \in Thread \ {t} PROVE Holder(u, s, d)' <=> Holder(u, s, d)
        <5>1. pc'[u] = pc[u] /\ call'[u] = call[u]
          BY DEF Footprint, FramesStep, PcStep, CallStep
        <5> QED
          BY <5>1, Holders
      <4> QED
        BY <1>6, <4>1 DEF OwnPart
    <3>2. Counted(s, d)' <=> Counted(s, d)
      BY <1>5, <2>2, <3>1 DEF Counted
    <3> QED
      BY <1>2, <3>2 DEF Focal
  <2> QED
    BY <2>1, <2>2
<1>10. ASSUME Clean(s, d)', Writers(s, d) \ {t} # {}
       PROVE  data'[s][d].value = data[s][d].value
  BY <1>2, <1>7, <1>10 DEF Clean, SameEntry
<1>11. DOMAIN usedMem' = Node /\ \A n \in Node : usedMem'[n] = usedMem[n]
  BY <1>2 DEF SpaceInv
<1> QED
  BY <1>3, <1>4, <1>5, <1>6, <1>8, <1>9, <1>10, <1>11, SpaceStep

\* A transfer begins, or ends before its first byte.
LEMMA SendLockKeepsSpace ==
  ASSUME SpaceInv, ReadInv', NEW t \in Thread, Footprint(t), SendLock(t)
  PROVE  SpaceInv'
<1>1. PICK m \in Node, d \in Data : m = add[t].dest /\ d = call[t].dat
  BY FrameFields DEF SpaceInv, ReadInv, LockInv
<1>r. ReadInv /\ FrameTypes
  BY DEF SpaceInv, ReadInv, LockInv
<1>2. /\ pc[t] = "sendLock" /\ data' = data /\ usedMem' = usedMem
      /\ read' = read /\ call' = call
      /\ \/ Raise(t, FALSE) /\ add' = add /\ disturbed' = disturbed
         \/ /\ add' = [add EXCEPT ![t].blk = 0] /\ pc' = [pc EXCEPT ![t] = "block"]
            /\ disturbed' = disturbed
         \/ /\ pc' = [pc EXCEPT ![t] = add[t].ret] /\ add' = add
            /\ disturbed' = disturbed \cup {<<m, d>>}
  BY <1>1 DEF SendLock, Disturb, store
<1>3. HistoryStep(t)
  BY <1>2, <1>r DEF HistoryStep, ReadInv, DataTypes
<1>4. /\ \A n \in Node, x \in Data : SameEntry(n, x)
      /\ DOMAIN usedMem' = Node /\ \A n \in Node : usedMem'[n] = usedMem[n]
      /\ data'[m][d].value = data[m][d].value
  BY <1>2 DEF SameEntry, SpaceInv
<1>5. ASSUME NEW n \in Node, NEW x \in Data
      PROVE  /\ t \in Writers(n, x) <=> n = m /\ x = d
             /\ ~Holder(t, n, x)
  BY <1>1, <1>2, Roles, Holders DEF WritePcs
<1>6. CASE pc'[t] \in {"failed", "child", "lock", "use"}
  <2>1. ASSUME NEW n \in Node, NEW x \in Data
        PROVE  /\ t \notin Writers(n, x)' /\ ~Holder(t, n, x)'
               /\ EmptyAt(t, n, x)'
    BY <1>6, Roles, Holders DEF WritePcs, EmptyAt
  <2>2. ASSUME NEW n \in Node, NEW x \in Data, <<n, x>> # <<m, d>>
        PROVE  OwnPart(t, n, x)
    BY <1>5, <2>1, <2>2 DEF OwnPart
  <2>3. ASSUME Calm(m)' PROVE Focal(m, d)
    <3>1. Clean(m, d)
      BY <1>3, <2>3, CalmBefore
    <3>2. t \in Busy(m, d) /\ t \in Writers(m, d)
      BY <1>5 DEF Busy
    <3>3. Busy(m, d) \subseteq {t}
      BY <1>r, <3>1, <3>2, Sole
    <3>4. data[m][d].value = <<>>
      BY <1>2, <3>1, <3>2 DEF SpaceInv, EmptyAt
    <3>5. Counted(m, d)' <=> Counted(m, d)
      BY <1>4, <1>5, <2>1, <3>2, <3>3, <3>4, AloneCounts
    <3> QED
      BY <1>4, <3>5 DEF Focal
  <2> QED
    BY <1>3, <1>4, <2>1, <2>2, <2>3, SpaceStep
<1>7. CASE pc'[t] = "block" /\ add'[t].dest = m
  <2>1. ASSUME NEW n \in Node, NEW x \in Data
        PROVE  OwnPart(t, n, x) /\ EmptyAt(t, n, x)'
    BY <1>1, <1>2, <1>5, <1>7, Roles, Holders DEF OwnPart, EmptyAt, WritePcs
  <2> QED
    BY <1>2, <1>3, <2>1, SpaceQuiet
<1>8. pc'[t] \in {"failed", "child", "lock", "use"} \/ (pc'[t] = "block" /\ add'[t].dest = m)
  <2>1. CASE Raise(t, FALSE)
    BY <1>r, <2>1, RaiseSteps
  <2>2. CASE add' = [add EXCEPT ![t].blk = 0] /\ pc' = [pc EXCEPT ![t] = "block"]
    BY <1>1, <1>r, <2>2 DEF FrameTypes, AddFrames
  <2>3. CASE pc' = [pc EXCEPT ![t] = add[t].ret]
    BY <1>r, <2>3, FrameFields DEF FrameTypes, Rets
  <2> QED
    BY <1>2, <2>1, <2>2, <2>3
<1> QED
  BY <1>6, <1>7, <1>8

\* The transfer of the blocks counts nothing yet.
LEMMA RecordKeepsSpace ==
  ASSUME SpaceInv, ReadInv', NEW t \in Thread, Footprint(t), RecordData(t),
         add'[t].blk # add[t].blk
  PROVE  SpaceInv'
<1>1. PICK s \in Node, n \in Node, d \in Data :
        s = add[t].src /\ n = add[t].dest /\ d = call[t].dat
  BY FrameFields DEF SpaceInv, ReadInv, LockInv
<1>r. ReadInv /\ FrameTypes
  BY DEF SpaceInv, ReadInv, LockInv
<1> DEFINE from == data[s][d].value
           bytes == IF from = <<>> THEN [i \in 1 .. Size[d] |-> 0] ELSE from
           e == Recorded(t, n, bytes)
<1>2. /\ pc[t] = "block" /\ pc' = pc /\ call' = call
      /\ data' = Store(n, d, e) /\ usedMem' = usedMem
      /\ add' = [add EXCEPT ![t].blk = add[t].blk + 1]
      /\ disturbed \subseteq disturbed' /\ read' = read
  BY <1>1 DEF RecordData, Disturb
<1>3. HistoryStep(t)
  BY <1>2, <1>r DEF HistoryStep, ReadInv, DataTypes
<1>4. \A m \in Node, x \in Data : <<m, x>> # <<n, d>> => SameEntry(m, x)
  <2> HIDE DEF e
  <2> DEFINE f == [x \in DOMAIN data[n] \cup {d} |-> IF x = d THEN e ELSE data[n][x]]
  <2>1. data' = [data EXCEPT ![n] = f] /\ data \in [Node -> Maps]
    BY <1>2, <1>r DEF Store, ReadInv, DataTypes
  <2>2. /\ DOMAIN f = DOMAIN data[n] \cup {d}
        /\ \A x \in DOMAIN data[n] : x # d => f[x] = data[n][x]
    OBVIOUS
  <2> HIDE DEF f
  <2>3. ASSUME NEW m \in Node, NEW x \in Data, <<m, x>> # <<n, d>> PROVE SameEntry(m, x)
    BY <2>1, <2>2, <2>3 DEF SameEntry
  <2> QED
    BY <2>3
<1>5. add'[t].dest = n /\ pc'[t] = "block"
  BY <1>1, <1>2, <1>r DEF FrameTypes, AddFrames
<1>6. ASSUME NEW m \in Node, NEW x \in Data
      PROVE  /\ t \in Writers(m, x) <=> m = n /\ x = d
             /\ t \in Writers(m, x)' <=> m = n /\ x = d
             /\ ~Holder(t, m, x) /\ ~Holder(t, m, x)'
             /\ EmptyAt(t, m, x)'
  <2>1. EmptyAt(t, m, x)'
    BY <1>5 DEF EmptyAt
  <2> HIDE DEF e
  <2> QED
    BY <1>1, <1>2, <1>5, <2>1, Roles, Holders DEF WritePcs
<1>7. ASSUME Clean(n, d)'
      PROVE  Busy(n, d) \subseteq {t} /\ Writers(n, d) \ {t} = {}
  <2>1. Clean(n, d) /\ t \in Busy(n, d)
    BY <1>3, <1>6, <1>7 DEF Clean, HistoryStep, Busy
  <2>2. Busy(n, d) \subseteq {t}
    BY <1>r, <2>1, Sole
  <2> QED
    BY <2>2 DEF Busy
<1>8. ASSUME Calm(n)' PROVE Focal(n, d)
  <2>1. Clean(n, d)'
    BY <1>8 DEF Calm
  <2>2. Busy(n, d) \subseteq {t}
    BY <1>7, <2>1
  <2>3. Counted(n, d)' <=> Counted(n, d)
    BY <1>6, <2>2, AloneCounts
  <2> QED
    BY <1>2, <2>3 DEF Focal
<1>9. DOMAIN usedMem' = Node /\ \A m \in Node : usedMem'[m] = usedMem[m]
  BY <1>2 DEF SpaceInv
<1>10. \A m \in Node, x \in Data : <<m, x>> # <<n, d>> => OwnPart(t, m, x)
  BY <1>6 DEF OwnPart
<1>11. Clean(n, d)' /\ Writers(n, d) \ {t} # {} =>
         data'[n][d].value \in {<<>>, data[n][d].value}
  BY <1>7
<1> HIDE DEF e
<1> QED
  BY <1>3, <1>4, <1>6, <1>8, <1>9, <1>10, <1>11, SpaceStep

\* A replica that becomes ready is not counted for that.
LEMMA ReadiesKeepSpace ==
  ASSUME SpaceInv, ReadInv', NEW t \in Thread, Footprint(t),
         Sent(t) \/ UnlockData(t)
  PROVE  SpaceInv'
<1>1. ReadInv /\ FrameTypes
  BY DEF SpaceInv, ReadInv, LockInv
<1>2. /\ pc[t] \in {"block", "unlock"} /\ pc'[t] \in {"unlock", "count"}
      /\ call' = call /\ add' = add /\ data' = data /\ usedMem' = usedMem
      /\ disturbed' = disturbed /\ read' = read
  BY <1>1 DEF Sent, UnlockData, frames, history, FrameTypes
<1>3. HistoryStep(t)
  BY <1>1, <1>2 DEF HistoryStep, ReadInv, DataTypes
<1>4. ASSUME NEW n \in Node, NEW d \in Data
      PROVE  OwnPart(t, n, d) /\ EmptyAt(t, n, d)'
  BY <1>2, Roles, Holders DEF OwnPart, EmptyAt, WritePcs
<1> QED
  BY <1>2, <1>3, <1>4, SpaceQuiet

\* At last the transfer is counted.
LEMMA CountKeepsSpace ==
  ASSUME SpaceInv, ReadInv', NEW t \in Thread, Footprint(t), CountSpace(t)
  PROVE  SpaceInv'
<1>1. PICK m \in Node, d \in Data : m = add[t].dest /\ d = call[t].dat
  BY FrameFields DEF SpaceInv, ReadInv, LockInv
<1>r. ReadInv /\ FrameTypes /\ add[t].ret \in Rets
  BY FrameFields DEF SpaceInv, ReadInv, LockInv
<1> DEFINE l == Len(data[m][d].value)
<1>2. /\ pc[t] = "count" /\ pc' = [pc EXCEPT ![t] = add[t].ret]
      /\ data' = data /\ read' = read /\ disturbed' = disturbed
      /\ t \notin dangling => usedMem' = [usedMem EXCEPT ![m] = @ + l]
      /\ \E q : usedMem' = [usedMem EXCEPT ![m] = q]
  BY <1>1 DEF CountSpace, history
<1> HIDE DEF l
<1>3. HistoryStep(t)
  BY <1>2, <1>r DEF HistoryStep, ReadInv, DataTypes
<1>4. /\ \A n \in Node, x \in Data : SameEntry(n, x)
      /\ DOMAIN usedMem' = Node /\ \A n \in Node \ {m} : usedMem'[n] = usedMem[n]
  BY <1>2 DEF SameEntry, SpaceInv
<1>5. pc'[t] \in {"use", "lock", "child"}
  BY <1>2, <1>r DEF FrameTypes, Rets
<1>6. ASSUME NEW n \in Node, NEW x \in Data
      PROVE  /\ t \in Writers(n, x) <=> n = m /\ x = d
             /\ t \notin Writers(n, x)'
             /\ ~Holder(t, n, x) /\ ~Holder(t, n, x)'
             /\ EmptyAt(t, n, x)'
  <2>1. EmptyAt(t, n, x)'
    BY <1>5 DEF EmptyAt
  <2> QED
    BY <1>1, <1>2, <1>5, <2>1, Roles, Holders DEF WritePcs
<1>7. ASSUME NEW n \in Node, NEW x \in Data, <<n, x>> # <<m, d>>
      PROVE  OwnPart(t, n, x)
  BY <1>6, <1>7 DEF OwnPart
<1>8. ASSUME Calm(m)' PROVE Focal(m, d)
  <2>1. Clean(m, d)
    BY <1>3, <1>8, CalmBefore
  <2>2. t \in Busy(m, d) /\ t \in Writers(m, d)
    BY <1>6 DEF Busy
  <2>3. Busy(m, d) \subseteq {t} /\ ThreadAt(t, m, d)
    BY <1>r, <2>1, <2>2, Sole
  <2>4. t \notin dangling /\ d \in DOMAIN data[m] /\ Whole(data[m][d].value, d)
    BY <1>2, <2>2, <2>3 DEF ThreadAt, WriterAt
  <2>5. l = Size[d] /\ Size[d] # 0
    BY <2>4, DagdaAssumption DEF Whole, l
  <2>6. data[m][d].value # <<>>
    BY <2>5 DEF l
  <2>7. ~Counted(m, d) /\ Counted(m, d)'
    BY <1>2, <1>6, <2>2, <2>3, <2>4, <2>6, AloneCounts
  <2>8. usedMem'[m] = usedMem[m] + Size[d]
    BY <1>2, <2>4, <2>5 DEF SpaceInv
  <2> QED
    BY <2>7, <2>8 DEF Focal
<1> QED
  BY <1>2, <1>3, <1>4, <1>6, <1>7, <1>8, SpaceStep

\* The solver takes the buffer of an INOUT parameter out of the map, where it
\* stays counted.
LEMMA UseKeepsSpace ==
  ASSUME SpaceInv, ReadInv', NEW t \in Thread, Footprint(t), Use(t)
  PROVE  SpaceInv'
<1>1. PICK n \in Node, d \in Data : n = call[t].node /\ d = call[t].dat
  BY FrameFields DEF SpaceInv, ReadInv, LockInv
<1>r. ReadInv /\ FrameTypes
  BY DEF SpaceInv, ReadInv, LockInv
<1> DEFINE e == IF d \in DOMAIN data[n] THEN data[n][d] ELSE Entry(FALSE, <<>>)
           f == IF call[t].op = "INOUT" THEN Entry(e.desc, <<>>) ELSE e
<1>2. /\ pc[t] = "use" /\ pc' = [pc EXCEPT ![t] = "solve"] /\ alive[n]
      /\ read' = [read EXCEPT ![t] = e.value]
      /\ data' = Store(n, d, f) /\ usedMem' = usedMem
      /\ disturbed' = IF \/ ~e.desc \/ Borrowers(n, d) # {}
                         \/ call[t].op = "INOUT" /\ AtWork(n, d) # {t}
                        THEN disturbed \cup {<<n, d>>} ELSE disturbed
      /\ call' = call /\ add' = add
  BY <1>1 DEF Use, Disturb, frames
<1>3. /\ e \in Item /\ f \in Item
      /\ f.value = <<>> \/ Len(f.value) = Size[d]
  <2>1. e \in Item /\ (e.value = <<>> \/ Len(e.value) = Size[d])
    <3>1. CASE d \in DOMAIN data[n]
      <4>1. data[n] \in Maps
        BY <1>r DEF ReadInv, DataTypes
      <4> QED
        BY <1>r, <3>1, <4>1, MapTypes DEF ReadInv, DataTypes
    <3>2. CASE d \notin DOMAIN data[n]
      BY <3>2 DEF Entry, Item
    <3> QED
      BY <3>1, <3>2
  <2> HIDE DEF e
  <2> QED
    BY <2>1 DEF Entry, Item
<1>4. /\ d \in DOMAIN data[n] => e = data[n][d]
      /\ d \notin DOMAIN data[n] => ~e.desc
      /\ call[t].op = "INOUT" => f.value = <<>>
      /\ call[t].op # "INOUT" => f = e
  BY DEF Entry
<1> HIDE DEF e, f
<1>5. pc'[t] = "solve"
  BY <1>2, <1>r DEF FrameTypes
<1>6. HistoryStep(t)
  <2>1. e.value \in Seq(Nat)
    BY <1>3 DEF Item
  <2> QED
    BY <1>2, <1>r, <2>1 DEF HistoryStep, ReadInv, DataTypes
<1>7. /\ d \in DOMAIN data'[n] /\ data'[n][d] = f
      /\ \A m \in Node, x \in Data : <<m, x>> # <<n, d>> => SameEntry(m, x)
  BY <1>2, <1>3, <1>r, StoreSteps DEF ReadInv
<1>8. ASSUME NEW m \in Node, NEW x \in Data
      PROVE  /\ t \notin Writers(m, x) /\ t \notin Writers(m, x)'
             /\ ~Holder(t, m, x)
             /\ Holder(t, m, x)' <=> m = n /\ x = d /\ call[t].op = "INOUT"
             /\ EmptyAt(t, m, x)'
  <2>1. EmptyAt(t, m, x)'
    BY <1>5 DEF EmptyAt
  <2> QED
    BY <1>1, <1>2, <1>5, <2>1, Roles, Holders DEF WritePcs
<1>9. ASSUME NEW m \in Node, NEW x \in Data, <<m, x>> # <<n, d>>
      PROVE  OwnPart(t, m, x)
  BY <1>8, <1>9 DEF OwnPart
<1>10. ASSUME Clean(n, d)'
       PROVE  /\ Clean(n, d) /\ e.desc /\ Borrowers(n, d) = {} /\ d \in DOMAIN data[n]
              /\ call[t].op = "INOUT" => AtWork(n, d) = {t}
              /\ call[t].op # "INOUT" => SameEntry(n, d)
  <2>1. /\ Clean(n, d) /\ Borrowers(n, d) = {} /\ e.desc
        /\ call[t].op = "INOUT" => AtWork(n, d) = {t}
    BY <1>2, <1>10 DEF Clean
  <2>2. d \in DOMAIN data[n]
    BY <1>4, <2>1
  <2> QED
    BY <1>4, <1>7, <2>1, <2>2 DEF SameEntry
<1>11. ASSUME Calm(n)' PROVE Focal(n, d)
  <2>1. Clean(n, d)'
    BY <1>11 DEF Calm
  <2>2. CASE call[t].op # "INOUT"
    <3>1. OwnPart(t, n, d)
      BY <1>8, <2>2 DEF OwnPart
    <3>2. Counted(n, d)' <=> Counted(n, d)
      BY <1>10, <2>1, <2>2, <3>1, CountedSame
    <3> QED
      BY <1>2, <3>2 DEF Focal
  <2>3. CASE call[t].op = "INOUT"
    <3>1. Busy(n, d) \subseteq {t}
      BY <1>10, <2>1, <2>3 DEF AtWork, Busy
    <3>2. Counted(n, d)'
      BY <1>8, <2>3, <3>1, AloneCounts
    <3>3. data[n][d].value # <<>>
      <4>1. t \in Users(n, d)
        BY <1>1, <1>2, Roles
      <4>2. isDataPresent(n, d)
        BY <1>2, <1>10, <1>r, <2>1, <4>1 DEF ReadInv, PairInv, ThreadAt, UserAt
      <4>3. Whole(data[n][d].value, d)
        BY <1>2, <1>4, <1>10, <1>r, <2>1, <4>2 DEF ReadInv, PairInv, Readable
      <4> QED
        BY <4>3, DagdaAssumption DEF Whole
    <3>4. Counted(n, d)
      BY <1>8, <1>10, <2>1, <3>1, <3>3, AloneCounts
    <3> QED
      BY <1>2, <3>2, <3>4 DEF Focal
  <2> QED
    BY <2>2, <2>3
<1>12. ASSUME Clean(n, d)', Writers(n, d) \ {t} # {}
       PROVE  data'[n][d].value \in {<<>>, data[n][d].value}
  BY <1>4, <1>7, <1>10, <1>12
<1>13. DOMAIN usedMem' = Node /\ \A m \in Node : usedMem'[m] = usedMem[m]
  BY <1>2 DEF SpaceInv
<1> QED
  BY <1>6, <1>7, <1>8, <1>9, <1>11, <1>12, <1>13, <1>r, SpaceStep

\* The new version takes the space of the old one,
LEMMA ReplaceKeepsSpace ==
  ASSUME SpaceInv, ReadInv', NEW t \in Thread, Footprint(t), Replace(t)
  PROVE  SpaceInv'
<1>1. PICK n \in Node, d \in Data : n = call[t].node /\ d = call[t].dat
  BY FrameFields DEF SpaceInv, ReadInv, LockInv
<1>r. ReadInv /\ FrameTypes
  BY DEF SpaceInv, ReadInv, LockInv
<1> DEFINE old == IF read[t] = <<>> THEN 0 ELSE read[t][1]
           e == Entry(TRUE, [i \in 1 .. Size[d] |-> old + 1])
<1>2. /\ pc[t] = "replace" /\ pc' = [pc EXCEPT ![t] = "uploaded"]
      /\ data' = data \/ data' = Store(n, d, e)
      /\ call' = call /\ add' = add /\ usedMem' = usedMem
      /\ disturbed' = disturbed /\ read' = read
  BY <1>1 DEF Replace, frames, history
<1> HIDE DEF e
<1>3. HistoryStep(t)
  BY <1>2, <1>r DEF HistoryStep, ReadInv, DataTypes
<1>4. pc'[t] = "uploaded"
  BY <1>2, <1>r DEF FrameTypes
<1>5. \A m \in Node, x \in Data : <<m, x>> # <<n, d>> => SameEntry(m, x)
  <2>1. CASE data' = data
    BY <2>1 DEF SameEntry
  <2>2. CASE data' = Store(n, d, e)
    <3> DEFINE f == [x \in DOMAIN data[n] \cup {d} |-> IF x = d THEN e ELSE data[n][x]]
    <3>1. data' = [data EXCEPT ![n] = f] /\ data \in [Node -> Maps]
      BY <1>r, <2>2 DEF Store, ReadInv, DataTypes
    <3>2. /\ DOMAIN f = DOMAIN data[n] \cup {d}
          /\ \A x \in DOMAIN data[n] : x # d => f[x] = data[n][x]
      OBVIOUS
    <3> HIDE DEF f
    <3>3. ASSUME NEW m \in Node, NEW x \in Data, <<m, x>> # <<n, d>> PROVE SameEntry(m, x)
      BY <3>1, <3>2, <3>3 DEF SameEntry
    <3> QED
      BY <3>3
  <2> QED
    BY <1>2, <2>1, <2>2
<1>6. ASSUME NEW m \in Node, NEW x \in Data
      PROVE  /\ OwnPart(t, m, x) /\ EmptyAt(t, m, x)'
             /\ t \in Writers(m, x) <=> m = n /\ x = d
             /\ Holder(t, m, x) <=> m = n /\ x = d
  <2>1. EmptyAt(t, m, x)'
    BY <1>4 DEF EmptyAt
  <2> QED
    BY <1>1, <1>2, <1>4, <2>1, Roles, Holders DEF OwnPart, WritePcs
<1>7. ASSUME Clean(n, d)'
      PROVE  Busy(n, d) \subseteq {t} /\ Writers(n, d) \ {t} = {}
  <2>1. Clean(n, d) /\ t \in Busy(n, d)
    BY <1>3, <1>6, <1>7 DEF Clean, HistoryStep, Busy
  <2>2. Busy(n, d) \subseteq {t}
    BY <1>r, <2>1, Sole
  <2> QED
    BY <2>2 DEF Busy
<1>8. ASSUME Calm(n)' PROVE Focal(n, d)
  <2>1. Clean(n, d)'
    BY <1>8 DEF Calm
  <2>2. Busy(n, d) \subseteq {t}
    BY <1>7, <2>1
  <2>3. Counted(n, d)' <=> Counted(n, d)
    BY <1>6, <2>2, AloneCounts DEF OwnPart
  <2> QED
    BY <1>2, <2>3 DEF Focal
<1>9. DOMAIN usedMem' = Node /\ \A m \in Node : usedMem'[m] = usedMem[m]
  BY <1>2 DEF SpaceInv
<1>10. Clean(n, d)' /\ Writers(n, d) \ {t} # {} =>
         data'[n][d].value \in {<<>>, data[n][d].value}
  BY <1>7
<1> QED
  BY <1>3, <1>5, <1>6, <1>8, <1>9, <1>10, SpaceStep

\* and is whole when it is uploaded.
LEMMA UploadedKeepsSpace ==
  ASSUME SpaceInv, ReadInv', NEW t \in Thread, Footprint(t), Uploaded(t)
  PROVE  SpaceInv'
<1>1. PICK n \in Node, d \in Data : n = call[t].node /\ d = call[t].dat
  BY FrameFields DEF SpaceInv, ReadInv, LockInv
<1>r. ReadInv /\ FrameTypes
  BY DEF SpaceInv, ReadInv, LockInv
<1>2. /\ pc[t] = "uploaded" /\ pc' = [pc EXCEPT ![t] = "lcl"]
      /\ data' = data /\ usedMem' = usedMem /\ disturbed' = disturbed /\ read' = read
  BY DEF Uploaded, history
<1>3. HistoryStep(t)
  BY <1>2, <1>r DEF HistoryStep, ReadInv, DataTypes
<1>4. pc'[t] = "lcl"
  BY <1>2, <1>r DEF FrameTypes
<1>5. /\ \A m \in Node, x \in Data : SameEntry(m, x)
      /\ DOMAIN usedMem' = Node /\ \A m \in Node : usedMem'[m] = usedMem[m]
  BY <1>2 DEF SameEntry, SpaceInv
<1>6. ASSUME NEW m \in Node, NEW x \in Data
      PROVE  /\ t \in Writers(m, x) <=> m = n /\ x = d
             /\ Holder(t, m, x) <=> m = n /\ x = d
             /\ t \notin Writers(m, x)' /\ ~Holder(t, m, x)' /\ EmptyAt(t, m, x)'
  <2>1. EmptyAt(t, m, x)'
    BY <1>4 DEF EmptyAt
  <2> QED
    BY <1>1, <1>2, <1>4, <2>1, Roles, Holders DEF WritePcs
<1>7. ASSUME NEW m \in Node, NEW x \in Data, <<m, x>> # <<n, d>>
      PROVE  OwnPart(t, m, x)
  BY <1>6, <1>7 DEF OwnPart
<1>8. ASSUME Calm(n)' PROVE Focal(n, d)
  <2>1. Clean(n, d)
    BY <1>3, <1>8, CalmBefore
  <2>2. t \in Busy(n, d) /\ t \in Writers(n, d)
    BY <1>6 DEF Busy
  <2>3. Busy(n, d) \subseteq {t} /\ ThreadAt(t, n, d)
    BY <1>r, <2>1, <2>2, Sole
  <2>4. d \in DOMAIN data[n] /\ Whole(data[n][d].value, d)
    BY <1>2, <2>2, <2>3 DEF ThreadAt, WriterAt
  <2>5. data[n][d].value # <<>>
    BY <2>4, DagdaAssumption DEF Whole
  <2>6. Counted(n, d)' <=> Counted(n, d)
    BY <1>2, <1>6, <2>3, <2>4, <2>5, AloneCounts
  <2> QED
    BY <1>5, <2>6 DEF Focal
<1>9. data'[n][d].value = data[n][d].value
  BY <1>2
<1> QED
  BY <1>3, <1>5, <1>6, <1>7, <1>8, <1>9, SpaceStep

\* The state that is about to change is the one that was: a crash makes no
\* node calm, and a stutter changes nothing.
LEMMA CrashKeepsSpace ==
  ASSUME SpaceInv, ReadInv',
         data' = data, usedMem' = usedMem, pc' = pc, call' = call, add' = add,
         disturbed' = disturbed, \A n \in Node : alive'[n] => alive[n]
  PROVE  SpaceInv'
<1>1. ASSUME NEW n \in Node, NEW d \in Data, NEW t \in Thread
      PROVE  /\ t \in Writers(n, d)' <=> t \in Writers(n, d)
             /\ Holder(t, n, d)' <=> Holder(t, n, d)
  BY Roles, Holders
<1>2. ASSUME NEW n \in Node, NEW d \in Data PROVE Counted(n, d)' <=> Counted(n, d)
  <2>1. Writers(n, d)' = Writers(n, d)
    BY <1>1, Workers
  <2> QED
    BY <1>1, <2>1 DEF Counted
<1>3. ASSUME NEW n \in SeDs \cup {Root} PROVE SpaceAt(n)'
  <2>1. n \in Node
    BY Nodes
  <2>2. CountedData(n)' = CountedData(n)
    BY <1>2, <2>1 DEF CountedData
  <2>3. Calm(n)' => Calm(n)
    BY DEF Calm, Clean
  <2> QED
    BY <2>2, <2>3 DEF SpaceInv, SpaceAt
<1>4. ASSUME NEW t \in Thread, NEW n \in Node, NEW d \in Data PROVE EmptyAt(t, n, d)'
  BY <1>1 DEF SpaceInv, EmptyAt, Clean
<1>5. DOMAIN usedMem' = Node
  BY DEF SpaceInv
<1> QED
  BY <1>3, <1>4, <1>5 DEF SpaceInv

\* Initially each node has the bytes of what it holds.
LEMMA SpaceInvInit == Init => SpaceInv
<1> SUFFICES ASSUME Init PROVE SpaceInv
  OBVIOUS
<1>1. /\ \A t \in Thread : pc[t] = "idle"
      /\ DOMAIN usedMem = Node
      /\ \A n \in SeDs \cup {Root} : usedMem[n] = Cardinality(BytesOf(Held(n)))
  BY Nodes DEF Init
<1>2. ASSUME NEW t \in Thread, NEW n, NEW d PROVE t \notin Writers(n, d) /\ ~Holder(t, n, d)
  BY <1>1, Roles, Holders DEF WritePcs
<1>3. ASSUME NEW n \in SeDs \cup {Root} PROVE CountedData(n) = Held(n)
  <2>1. Held(n) \subseteq Data
    BY DEF Held
  <2>2. ASSUME NEW d \in Data PROVE Counted(n, d) <=> d \in Held(n)
    <3>1. Writers(n, d) = {} /\ n \in Node
      BY <1>2, Workers, Nodes
    <3> DEFINE e == Entry(TRUE, [i \in 1 .. Size[d] |-> 1])
    <3>2. DOMAIN data[n] = Held(n) /\ (d \in Held(n) => data[n][d] = e)
      BY <3>1 DEF Init
    <3>3. e.value # <<>>
      <4> DEFINE f == [i \in 1 .. Size[d] |-> 1]
      <4>1. Size[d] \in Nat \ {0} /\ f \in [1 .. Size[d] -> Nat]
        BY DagdaAssumption
      <4>2. e = Entry(TRUE, f)
        OBVIOUS
      <4> HIDE DEF e, f
      <4>3. e.value = f /\ Len(f) = Size[d]
        BY <4>1, <4>2, Bytes
      <4> QED
        BY <4>1, <4>3
    <3> HIDE DEF e
    <3> QED
      BY <1>2, <3>1, <3>2, <3>3 DEF Counted
  <2> QED
    BY <2>1, <2>2 DEF CountedData
<1>4. \A n \in SeDs \cup {Root} : SpaceAt(n)
  BY <1>1, <1>3 DEF SpaceAt
<1>5. \A t \in Thread, n \in Node, d \in Data : EmptyAt(t, n, d)
  BY <1>2 DEF EmptyAt
<1> QED
  BY <1>1, <1>4, <1>5, ReadInvInit DEF SpaceInv
------------------------------------------------------------------------------
(* What each action does to the frames of its thread *)

\* A step that leaves the stored data, their space and who is alive alone.
Quiet ==
  /\ data' = data /\ status' = status /\ usedMem' = usedMem /\ read' = read
  /\ dangling' = dangling /\ disturbed \subseteq disturbed' /\ alive' = alive

\* How far the walk and the add of a thread have come does not change.
SameWalk(t) == walk'[t].why = walk[t].why /\ walk'[t].todo = walk[t].todo
SameAdd(t) == /\ add'[t].dest = add[t].dest /\ add'[t].src = add[t].src
              /\ add'[t].ret = add[t].ret

\* A frame that does not change.
LEMMA SameFrames ==
  ASSUME NEW t
  PROVE  /\ walk' = walk => SameWalk(t)
         /\ add' = add => SameAdd(t)
BY DEF SameWalk, SameAdd

\* A call begins.
LEMMA StartIs ==
  ASSUME FrameTypes, NEW t \in Thread, Start(t)
  PROVE  /\ pc[t] = "idle" /\ call'[t].op \in {"IN", "INOUT", "remove"}
         /\ ~call'[t].up
         /\ pc'[t] = IF call'[t].op = "remove" THEN "root" ELSE "lcl"
         /\ walk' = walk /\ add' = add /\ children' = children /\ Quiet
<1>1. PICK c \in Calls[t] :
        /\ call' = [call EXCEPT ![t] = [op |-> c[1], node |-> c[2], dat |-> c[3],
                                        up |-> FALSE]]
        /\ pc' = [pc EXCEPT ![t] = IF c[1] = "remove" THEN "root" ELSE "lcl"]
  BY DEF Start
<1>2. c[1] \in {"IN", "INOUT", "remove"}
  BY DagdaAssumption
<1>3. call'[t] = [op |-> c[1], node |-> c[2], dat |-> c[3], up |-> FALSE]
  BY <1>1 DEF FrameTypes
<1>4. pc'[t] = IF c[1] = "remove" THEN "root" ELSE "lcl"
  BY <1>1 DEF FrameTypes
<1>5. /\ pc[t] = "idle" /\ walk' = walk /\ add' = add /\ children' = children /\ Quiet
  BY DEF Start, Quiet, store, platform, history
<1> QED
  BY <1>2, <1>3, <1>4, <1>5

\* What follows a search.
LEMMA PresentIs ==
  ASSUME FrameTypes, NEW t \in Thread, NEW found \in BOOLEAN, Present(t, found)
  PROVE  \/ /\ found /\ pc'[t] = "root" /\ add' = add
            /\ walk'[t].why = IF call[t].op = "remove" THEN "remove"
                              ELSE IF call[t].up THEN "update" ELSE "managers"
         \/ /\ ~found /\ pc'[t] = "done" /\ walk' = walk /\ add' = add
            /\ call[t].op = "remove" \/ call[t].up
         \/ /\ ~found /\ call[t].op # "remove" /\ ~call[t].up
            /\ pc'[t] = "add" /\ walk' = walk
            /\ add'[t].dest = call[t].node /\ add'[t].src = Client
            /\ add'[t].ret = "use"
<1>1. "done" \in Pcs /\ {"remove", "update", "managers"} \subseteq Whys
  BY DEF Pcs, Over, Whys
<1>2. CASE call[t].op = "remove" /\ found
  <2>1. Begin(t, "remove") /\ add' = add
    BY <1>2 DEF Present
  <2> QED
    BY <2>1, <1>1, <1>2, BeginSteps
<1>3. CASE call[t].op = "remove" /\ ~found
  <2>1. pc' = [pc EXCEPT ![t] = "done"] /\ walk' = walk /\ add' = add
    BY <1>3 DEF Present
  <2> QED
    BY <2>1, <1>3 DEF FrameTypes
<1>4. CASE call[t].op # "remove" /\ call[t].up /\ found
  <2>1. Begin(t, "update") /\ add' = add
    BY <1>4 DEF Present
  <2> QED
    BY <2>1, <1>1, <1>4, BeginSteps
<1>5. CASE call[t].op # "remove" /\ call[t].up /\ ~found
  <2>1. pc' = [pc EXCEPT ![t] = "done"] /\ walk' = walk /\ add' = add
    BY <1>5 DEF Present
  <2> QED
    BY <2>1, <1>5 DEF FrameTypes
<1>6. CASE call[t].op # "remove" /\ ~call[t].up /\ found
  <2>1. Begin(t, "managers") /\ add' = add
    BY <1>6 DEF Present
  <2> QED
    BY <2>1, <1>1, <1>6, BeginSteps
<1>7. CASE call[t].op # "remove" /\ ~call[t].up /\ ~found
  <2>1. CallAdd(t, call[t].node, Client, "use") /\ walk' = walk
    BY <1>7 DEF Present
  <2>2. call[t].node \in Node /\ Client \in Node /\ "use" \in Rets
    BY FrameFields, Nodes DEF Rets
  <2> QED
    BY <2>1, <2>2, <1>7, CallAddSteps
<1> QED
  BY <1>2, <1>3, <1>4, <1>5, <1>6, <1>7

\* The search on the node itself.
LEMMA LclPresentIs ==
  ASSUME FrameTypes, NEW t \in Thread, LclPresent(t)
  PROVE  /\ pc[t] = "lcl" /\ call' = call /\ children' = children /\ Quiet
         /\ IF isDataPresent(call[t].node, call[t].dat) THEN Present(t, TRUE)
            ELSE /\ pc'[t] = "root" /\ walk'[t].why = "present" /\ add' = add
<1>1. /\ pc[t] = "lcl" /\ call' = call /\ children' = children /\ Quiet
      /\ IF isDataPresent(call[t].node, call[t].dat) THEN Present(t, TRUE)
         ELSE Begin(t, "present") /\ add' = add
  BY DEF LclPresent, Quiet, store, platform, history
<1>2. "present" \in Whys
  BY DEF Whys
<1> QED
  BY <1>1, <1>2, BeginSteps

\* The root looks at its own map.
LEMMA VisitRootIs ==
  ASSUME FrameTypes, NEW t \in Thread, VisitRoot(t)
  PROVE  LET here == isDataPresent(Root, call[t].dat) IN
         /\ pc[t] = "root" /\ call' = call /\ children' = children /\ alive' = alive
         /\ walk[t].why # "remove" => Quiet
         /\ \/ walk[t].why = "present" /\ here /\ Present(t, TRUE)
            \/ /\ pc'[t] = "lock" /\ SameWalk(t) /\ add' = add
               /\ walk[t].why = "present" => ~here
               /\ walk[t].why = "update" => ~here \/ call[t].node = Root
               /\ walk[t].why = "remove" => remData(t, Root, call[t].dat) /\ read' = read
            \/ /\ walk[t].why = "update" /\ call[t].node # Root /\ walk' = walk
               /\ pc'[t] = "refresh" /\ add'[t].dest = Root /\ add'[t].ret = "lock"
<1> DEFINE here == isDataPresent(Root, call[t].dat)
<1>1. pc[t] = "root" /\ call' = call /\ children' = children /\ alive' = alive
  BY DEF VisitRoot, platform
<1>2. walk[t].why \in {"present", "managers", "remove", "update"}
  BY FrameFields DEF Whys
<1>3. CASE walk[t].why = "present"
  <2>1. /\ IF here THEN Present(t, TRUE)
           ELSE pc' = [pc EXCEPT ![t] = "lock"] /\ walk' = walk /\ add' = add
        /\ Quiet
    BY <1>3 DEF VisitRoot, Quiet, store, history, platform
  <2> HIDE DEF here
  <2>2. ~here => pc'[t] = "lock" /\ SameWalk(t) /\ add' = add
    BY <2>1, SameFrames DEF FrameTypes
  <2> QED
    BY <1>1, <1>3, <2>1, <2>2 DEF here
<1>4. CASE walk[t].why = "managers"
  <2>1. /\ pc' = [pc EXCEPT ![t] = "lock"] /\ add' = add /\ Quiet
        /\ \E q : walk' = [walk EXCEPT ![t].found = q]
    BY <1>4 DEF VisitRoot, Quiet, store, history, platform
  <2>2. pc'[t] = "lock" /\ SameWalk(t)
    BY <2>1 DEF FrameTypes, WalkFrames, SameWalk
  <2> QED
    BY <1>1, <1>4, <2>1, <2>2
<1>5. CASE walk[t].why = "remove"
  <2>1. /\ pc' = [pc EXCEPT ![t] = "lock"] /\ walk' = walk /\ add' = add /\ read' = read
        /\ remData(t, Root, call[t].dat)
    BY <1>5 DEF VisitRoot
  <2>2. pc'[t] = "lock" /\ SameWalk(t)
    BY <2>1, SameFrames DEF FrameTypes
  <2> QED
    BY <1>1, <1>5, <2>1, <2>2
<1>6. CASE walk[t].why = "update"
  <2>1. /\ IF here /\ call[t].node # Root
             THEN /\ add' = [add EXCEPT ![t].dest = Root, ![t].ret = "lock"]
                  /\ pc' = [pc EXCEPT ![t] = "refresh"]
             ELSE pc' = [pc EXCEPT ![t] = "lock"] /\ add' = add
        /\ walk' = walk /\ Quiet
    BY <1>6 DEF VisitRoot, Quiet, store, history, platform
  <2> HIDE DEF here
  <2>2. CASE here /\ call[t].node # Root
    <3>1. pc'[t] = "refresh"
      BY <2>1, <2>2 DEF FrameTypes
    <3>2. add'[t].dest = Root /\ add'[t].ret = "lock"
      BY <2>1, <2>2 DEF FrameTypes, AddFrames
    <3> QED
      BY <1>1, <1>6, <2>1, <2>2, <3>1, <3>2
  <2>3. CASE ~(here /\ call[t].node # Root)
    <3>1. pc'[t] = "lock" /\ SameWalk(t) /\ add' = add
      BY <2>1, <2>3, SameFrames DEF FrameTypes
    <3> QED
      BY <1>1, <1>6, <2>1, <2>3, <3>1 DEF here
  <2> QED
    BY <2>2, <2>3
<1> QED
  BY <1>2, <1>3, <1>4, <1>5, <1>6

\* The root takes the mutex of its children.
LEMMA LockChildrenIs ==
  ASSUME FrameTypes, NEW t \in Thread, LockChildren(t)
  PROVE  /\ pc[t] = "lock" /\ pc'[t] = "child" /\ call' = call /\ add' = add
         /\ walk'[t].why = walk[t].why
         /\ walk'[t].todo = Only(SeDOrder, children)
         /\ children' = children /\ Quiet
<1>1. /\ pc[t] = "lock" /\ call' = call /\ add' = add
      /\ walk' = [walk EXCEPT ![t].todo = Only(SeDOrder, children)]
      /\ pc' = [pc EXCEPT ![t] = "child"] /\ children' = children /\ Quiet
  BY DEF LockChildren, Quiet, store, platform, history
<1>2. pc'[t] = "child"
  BY <1>1 DEF FrameTypes
<1> DEFINE q == Only(SeDOrder, children)
<1>3. walk' = [walk EXCEPT ![t].todo = q]
  BY <1>1
<1> HIDE DEF q
<1>4. walk'[t].why = walk[t].why /\ walk'[t].todo = q
  BY <1>3 DEF FrameTypes, WalkFrames
<1> QED
  BY <1>1, <1>2, <1>4 DEF q

\* The root asks a child.
LEMMA VisitChildIs ==
  ASSUME FrameTypes, NEW t \in Thread, VisitChild(t)
  PROVE  LET w == walk[t]
             c == Head(walk[t].todo)
             here == isDataPresent(c, call[t].dat)
             Passed == walk'[t].why = w.why /\ walk'[t].todo = Tail(w.todo)
         IN
         /\ pc[t] = "child" /\ w.todo # <<>>
         /\ call' = call /\ children' = children /\ Quiet
         /\ \/ w.why = "present" /\ here /\ Present(t, TRUE)
            \/ w.why = "remove" /\ pc'[t] = "childRem" /\ walk' = walk /\ add' = add
            \/ /\ w.why = "update" /\ c # call[t].node /\ Passed
               /\ pc'[t] = "refresh" /\ add'[t].dest = c /\ add'[t].ret = "child"
            \/ /\ pc'[t] = "child" /\ Passed /\ add' = add
               /\ w.why = "present" => ~here
               /\ w.why = "update" => ~here \/ c = call[t].node
<1> DEFINE w == walk[t]
           c == Head(walk[t].todo)
           here == isDataPresent(c, call[t].dat)
           Passed == walk'[t].why = w.why /\ walk'[t].todo = Tail(w.todo)
<1>1. /\ pc[t] = "child" /\ w.todo # <<>>
      /\ call' = call /\ children' = children /\ Quiet
  BY DEF VisitChild, Quiet, store, history, platform
<1>2. w.why \in {"present", "managers", "remove", "update"} /\ c \in Node
  BY <1>1, FrameFields DEF Whys
<1>3. NextChild(t) => Passed
  BY DEF NextChild, FrameTypes, WalkFrames
<1>4. CASE w.why = "present" /\ here
  BY <1>1, <1>4 DEF VisitChild
<1>5. CASE w.why = "managers"
  <2> DEFINE q == IF here THEN Append(w.found, c) ELSE w.found
  <2>1. /\ walk' = [walk EXCEPT ![t].todo = Tail(w.todo), ![t].found = q]
        /\ pc' = pc /\ add' = add
    BY <1>5 DEF VisitChild
  <2> HIDE DEF q
  <2>2. Passed
    BY <2>1 DEF FrameTypes, WalkFrames
  <2> QED
    BY <1>1, <1>5, <2>1, <2>2
<1>6. CASE w.why = "remove" /\ here
  <2>1. pc' = [pc EXCEPT ![t] = "childRem"] /\ walk' = walk /\ add' = add
    BY <1>6 DEF VisitChild
  <2>2. pc'[t] = "childRem"
    BY <2>1 DEF FrameTypes
  <2> QED
    BY <1>1, <1>6, <2>1, <2>2
<1>7. CASE w.why = "update" /\ here /\ c # call[t].node
  <2>1. /\ add' = [add EXCEPT ![t].dest = c, ![t].ret = "child"]
        /\ pc' = [pc EXCEPT ![t] = "refresh"] /\ NextChild(t)
    BY <1>7 DEF VisitChild
  <2>2. pc'[t] = "refresh"
    BY <2>1 DEF FrameTypes
  <2> HIDE DEF c
  <2>3. add'[t].dest = c /\ add'[t].ret = "child"
    BY <2>1 DEF FrameTypes, AddFrames
  <2> QED
    BY <1>1, <1>3, <1>7, <2>1, <2>2, <2>3 DEF c
<1>8. CASE /\ ~(w.why = "present" /\ here) /\ w.why # "managers"
           /\ ~(w.why = "remove" /\ here)
           /\ ~(w.why = "update" /\ here /\ c # call[t].node)
  <2>1. NextChild(t) /\ pc' = pc /\ add' = add
    BY <1>8 DEF VisitChild
  <2> QED
    BY <1>1, <1>3, <1>8, <2>1
<1> QED
  BY <1>4, <1>5, <1>6, <1>7, <1>8

\* The removal on a child, and the end of a child.
LEMMA ChildLeft ==
  ASSUME FrameTypes, NEW t \in Thread, ChildRem(t) \/ ChildFails(t)
  PROVE  /\ pc[t] \in {"child", "childRem"} /\ pc'[t] = "child"
         /\ ChildRem(t) => pc[t] = "childRem" /\ alive' = alive /\ children' = children
         /\ ChildFails(t) => Quiet /\ \E m \in Node : ~alive[m]
         /\ call' = call /\ add' = add
         /\ walk'[t].why = walk[t].why /\ walk'[t].todo = Tail(walk[t].todo)
<1>1. /\ pc[t] \in {"child", "childRem"} /\ call' = call /\ add' = add
      /\ ChildRem(t) => pc[t] = "childRem" /\ alive' = alive /\ children' = children
      /\ pc' = [pc EXCEPT ![t] = "child"] /\ NextChild(t)
  BY DEF ChildRem, ChildFails, platform
<1>2. ChildFails(t) => Quiet /\ \E m \in Node : ~alive[m]
  <2> SUFFICES ASSUME ChildFails(t) PROVE Quiet /\ \E m \in Node : ~alive[m]
    OBVIOUS
  <2>1. Quiet /\ walk[t].todo # <<>> /\ ~alive[Head(walk[t].todo)]
    BY DEF ChildFails, Quiet, store, history
  <2> QED
    BY <2>1, FrameFields
<1>3. walk'[t].why = walk[t].why /\ walk'[t].todo = Tail(walk[t].todo)
  BY <1>1 DEF NextChild, FrameTypes, WalkFrames
<1>4. pc'[t] = "child"
  BY <1>1 DEF FrameTypes
<1> QED
  BY <1>1, <1>2, <1>3, <1>4

\* The end of a walk, and of the root.
LEMMA EndWalkIs ==
  ASSUME FrameTypes, NEW t \in Thread, EndWalk(t)
  PROVE  /\ pc[t] = "child" /\ walk[t].todo = <<>>
         /\ call' = call /\ children' = children /\ Quiet
         /\ \/ walk[t].why = "present" /\ Present(t, FALSE)
            \/ /\ walk[t].why = "managers" /\ pc'[t] \in {"failed", "lcl2"}
               /\ walk' = walk
               /\ add'[t].dest = add[t].dest /\ add'[t].ret = add[t].ret
            \/ /\ walk[t].why \in {"remove", "update"} /\ pc'[t] = "done"
               /\ walk' = walk /\ add' = add
<1>1. /\ pc[t] = "child" /\ walk[t].todo = <<>>
      /\ call' = call /\ children' = children /\ Quiet
  BY DEF EndWalk, Quiet, store, history, platform
<1>2. walk[t].why \in {"present", "managers", "remove", "update"}
  BY FrameFields DEF Whys
<1>3. CASE walk[t].why = "present"
  BY <1>1, <1>3 DEF EndWalk
<1>4. CASE walk[t].why = "managers" /\ walk[t].found = <<>>
  <2>1. pc' = [pc EXCEPT ![t] = "failed"] /\ walk' = walk /\ add' = add
    BY <1>4 DEF EndWalk
  <2>2. pc'[t] = "failed"
    BY <2>1 DEF FrameTypes
  <2> QED
    BY <1>1, <1>4, <2>1, <2>2
<1>5. CASE walk[t].why = "managers" /\ walk[t].found # <<>>
  <2>1. /\ pc' = [pc EXCEPT ![t] = "lcl2"] /\ walk' = walk
        /\ \E q : add' = [add EXCEPT ![t].src = q]
    BY <1>5 DEF EndWalk, getBestSource
  <2>2. pc'[t] = "lcl2"
    BY <2>1 DEF FrameTypes
  <2>3. add'[t].dest = add[t].dest /\ add'[t].ret = add[t].ret
    BY <2>1 DEF FrameTypes, AddFrames
  <2> QED
    BY <1>1, <1>5, <2>1, <2>2, <2>3
<1>6. CASE walk[t].why \in {"remove", "update"}
  <2>1. pc' = [pc EXCEPT ![t] = "done"] /\ walk' = walk /\ add' = add
    BY <1>6 DEF EndWalk
  <2>2. pc'[t] = "done"
    BY <2>1 DEF FrameTypes
  <2> QED
    BY <1>1, <1>6, <2>1, <2>2
<1> QED
  BY <1>2, <1>3, <1>4, <1>5, <1>6

\* The root is gone, or the caller.
LEMMA FailsIs ==
  ASSUME FrameTypes, NEW t \in Thread, RootFails(t) \/ CallerFails(t)
  PROVE  /\ RootFails(t) => pc[t] \in {"root", "lock", "child", "childRem"}
         /\ CallerFails(t) => pc[t] \in UsePcs
         /\ pc'[t] \in {"failed", "dead"} /\ call' = call /\ walk' = walk /\ add' = add
         /\ \E m \in Node : ~alive[m]
         /\ alive' = alive
<1>1. /\ RootFails(t) => pc[t] \in {"root", "lock", "child", "childRem"}
      /\ CallerFails(t) => pc[t] \in UsePcs
      /\ pc' = [pc EXCEPT ![t] = "failed"] \/ pc' = [pc EXCEPT ![t] = "dead"]
      /\ call' = call /\ walk' = walk /\ add' = add /\ alive' = alive
      /\ ~alive[Root] \/ ~alive[call[t].node]
  BY DEF RootFails, CallerFails, frames, platform, UsePcs
<1>2. pc'[t] \in {"failed", "dead"}
  BY <1>1 DEF FrameTypes
<1>3. Root \in Node /\ call[t].node \in Node
  BY FrameFields, Nodes
<1> QED
  BY <1>1, <1>2, <1>3

\* A refreshed replica is added again.
LEMMA RefreshIs ==
  ASSUME FrameTypes, NEW t \in Thread, Refresh(t)
  PROVE  /\ pc[t] = "refresh" /\ remData(t, add[t].dest, call[t].dat)
         /\ pc'[t] = "add" /\ call' = call /\ walk' = walk
         /\ add'[t].dest = add[t].dest /\ add'[t].src = call[t].node
         /\ add'[t].ret = add[t].ret
         /\ children' = children /\ alive' = alive /\ read' = read
<1>1. /\ pc[t] = "refresh" /\ remData(t, add[t].dest, call[t].dat)
      /\ CallAdd(t, add[t].dest, call[t].node, add[t].ret)
      /\ call' = call /\ walk' = walk
      /\ children' = children /\ alive' = alive /\ read' = read
  BY DEF Refresh, platform
<1>2. add[t].dest \in Node /\ call[t].node \in Node /\ add[t].ret \in Rets
  BY FrameFields
<1> QED
  BY <1>1, <1>2, CallAddSteps

\* An add goes on, comes back, or fails.
LEMMA AddsIs ==
  ASSUME FrameTypes, NEW t \in Thread, Adds(t)
  PROVE  /\ pc[t] \in AddPcs /\ call' = call /\ walk' = walk /\ SameAdd(t)
         /\ pc'[t] \in (AddPcs \ {"refresh"}) \cup {add[t].ret, "failed", "dead"}
         /\ pc[t] = "refresh" => pc'[t] \in {"child", "failed", "dead"}
<1> DEFINE Out == (AddPcs \ {"refresh"}) \cup {add[t].ret, "failed", "dead"}
<1>a. {"add", "insert", "evict", "getsrc", "sendLock", "block", "unlock", "count",
       add[t].ret, "failed", "dead"} \subseteq Out
  BY DEF AddPcs
<1>b. /\ pc[t] \in AddPcs /\ call' = call /\ walk' = walk
      /\ add' = add \/ CheckSpace(t) \/ Evict(t) \/ SendLock(t) \/ RecordData(t)
  BY DEF Adds, CheckSpace, Evict, Insert, GetSource, SendLock, RecordData, Sent,
         UnlockData, CountSpace, SourceFails, DestFails, frames, AddPcs
<1>c. ASSUME Raise(t, TRUE) \/ Raise(t, FALSE) PROVE pc'[t] \in Out
  BY <1>a, <1>c, RaiseSteps
<1>d. ASSUME NEW s \in Out, pc' = [pc EXCEPT ![t] = s] PROVE pc'[t] \in Out
  BY <1>d DEF FrameTypes
<1>e. pc[t] = "refresh" => pc'[t] \in {"child", "failed", "dead"}
  <2> SUFFICES ASSUME pc[t] = "refresh" PROVE pc'[t] \in {"child", "failed", "dead"}
    OBVIOUS
  <2>1. DestFails(t)
    BY DEF Adds, CheckSpace, Evict, Insert, GetSource, SendLock, RecordData, Sent,
           UnlockData, CountSpace, SourceFails
  <2>2. Raise(t, TRUE) \/ pc' = [pc EXCEPT ![t] = "dead"]
    BY <2>1 DEF DestFails
  <2>3. CASE pc' = [pc EXCEPT ![t] = "dead"]
    BY <2>3 DEF FrameTypes
  <2> QED
    BY <2>2, <2>3, RaiseSteps
<1>f. /\ \A x : add' = [add EXCEPT ![t].retried = x] => SameAdd(t)
      /\ \A x : add' = [add EXCEPT ![t].blk = x] => SameAdd(t)
      /\ add' = add => SameAdd(t)
  <2>1. ASSUME NEW x, add' = [add EXCEPT ![t].retried = x] PROVE SameAdd(t)
    BY <2>1 DEF SameAdd, FrameTypes, AddFrames
  <2>2. ASSUME NEW x, add' = [add EXCEPT ![t].blk = x] PROVE SameAdd(t)
    BY <2>2 DEF SameAdd, FrameTypes, AddFrames
  <2> QED
    BY <2>1, <2>2, SameFrames
<1> HIDE DEF Out
<1>1. CASE CheckSpace(t)
  <2>1. /\ add' = add
        /\ \/ Raise(t, TRUE) \/ Raise(t, FALSE)
           \/ \E s \in {"insert", "evict", add[t].ret} : pc' = [pc EXCEPT ![t] = s]
    BY <1>1 DEF CheckSpace, frames
  <2> QED
    BY <1>a, <1>b, <1>c, <1>d, <1>e, <2>1, SameFrames DEF Out
<1>2. CASE Evict(t)
  <2>1. \/ Raise(t, FALSE) /\ add' = add
        \/ pc' = [pc EXCEPT ![t] = "add"] /\ add' = [add EXCEPT ![t].retried = TRUE]
    BY <1>2 DEF Evict
  <2>2. SameAdd(t)
    BY <1>f, <2>1
  <2> QED
    BY <1>a, <1>b, <1>c, <1>d, <1>e, <2>1, <2>2 DEF Out
<1>3. CASE SendLock(t)
  <2>1. \/ Raise(t, FALSE) /\ add' = add
        \/ pc' = [pc EXCEPT ![t] = "block"] /\ add' = [add EXCEPT ![t].blk = 0]
        \/ pc' = [pc EXCEPT ![t] = add[t].ret] /\ add' = add
    BY <1>3 DEF SendLock
  <2>2. SameAdd(t)
    BY <1>f, <2>1
  <2> QED
    BY <1>a, <1>b, <1>c, <1>d, <1>e, <2>1, <2>2 DEF Out
<1>4. CASE RecordData(t)
  <2>1. pc' = pc /\ pc[t] = "block"
    BY <1>4 DEF RecordData
  <2>2. add' = add \/ add' = [add EXCEPT ![t].blk = add[t].blk + 1]
    BY <1>4 DEF RecordData
  <2>3. SameAdd(t)
    BY <1>f, <2>2
  <2> QED
    BY <1>a, <1>b, <1>e, <2>1, <2>3 DEF Out
<1>5. CASE Insert(t) \/ GetSource(t) \/ Sent(t) \/ UnlockData(t) \/ CountSpace(t)
  <2>1. \E s \in {"getsrc", "sendLock", "unlock", "count", add[t].ret} :
          pc' = [pc EXCEPT ![t] = s]
    BY <1>5 DEF Insert, GetSource, Sent, UnlockData, CountSpace
  <2>2. add' = add
    BY <1>5 DEF Insert, GetSource, Sent, UnlockData, CountSpace, frames
  <2> QED
    BY <1>a, <1>b, <1>d, <1>e, <2>1, <2>2, SameFrames DEF Out
<1>6. CASE SourceFails(t) \/ DestFails(t)
  <2>1. Raise(t, TRUE) \/ pc' = [pc EXCEPT ![t] = "dead"]
    BY <1>6 DEF SourceFails, DestFails
  <2>2. add' = add
    BY <1>6 DEF SourceFails, DestFails, frames
  <2> QED
    BY <1>a, <1>b, <1>c, <1>d, <1>e, <2>1, <2>2, SameFrames DEF Out
<1> QED
  BY <1>1, <1>2, <1>3, <1>4, <1>5, <1>6 DEF Adds

\* The call before and after the solver.
LEMMA UsesIs ==
  ASSUME FrameTypes, NEW t \in Thread, Uses(t)
  PROVE  /\ pc[t] \in UsePcs /\ walk' = walk
         /\ Uploaded(t) => /\ pc[t] = "uploaded" /\ pc'[t] = "lcl" /\ add' = add
                           /\ call'[t].op = call[t].op /\ call'[t].up
                           /\ call'[t].node = call[t].node /\ call'[t].dat = call[t].dat
         /\ ~Uploaded(t) => call' = call
         /\ \/ Uploaded(t)
            \/ pc[t] = "lcl2" /\ pc'[t] \in {"use", "desc"} /\ add' = add
            \/ pc[t] = "desc" /\ pc'[t] = "failed" /\ add' = add
            \/ pc[t] = "desc" /\ pc'[t] = "add" /\ add'[t].ret = "use"
            \/ pc[t] = "use" /\ pc'[t] = "solve" /\ add' = add
            \/ pc[t] = "solve" /\ call[t].op = "IN" /\ pc'[t] = "done" /\ add' = add
            \/ pc[t] = "solve" /\ call[t].op # "IN" /\ pc'[t] = "replace" /\ add' = add
            \/ pc[t] = "replace" /\ pc'[t] = "uploaded" /\ add' = add
            \/ CallerFails(t) /\ pc'[t] = "dead" /\ add' = add
<1>1. CASE Uploaded(t)
  <2>1. /\ pc[t] = "uploaded" /\ pc' = [pc EXCEPT ![t] = "lcl"]
        /\ walk' = walk /\ add' = add /\ call' = [call EXCEPT ![t].up = TRUE]
    BY <1>1 DEF Uploaded
  <2>2. pc'[t] = "lcl"
    BY <2>1 DEF FrameTypes
  <2>3. /\ call'[t].op = call[t].op /\ call'[t].up
        /\ call'[t].node = call[t].node /\ call'[t].dat = call[t].dat
    BY <2>1 DEF FrameTypes, CallFrames
  <2> QED
    BY <1>1, <2>1, <2>2, <2>3 DEF UsePcs
<1>2. CASE ~Uploaded(t)
  <2>1. /\ pc[t] \in UsePcs /\ walk' = walk /\ call' = call
    BY <1>2 DEF Uses, LclPresentAgain, GetDesc, Use, Solve, Replace, CallerFails,
                frames, UsePcs
  <2>2. CASE LclPresentAgain(t)
    <3>1. /\ pc[t] = "lcl2" /\ add' = add
          /\ \E s \in {"use", "desc"} : pc' = [pc EXCEPT ![t] = s]
      BY <2>2 DEF LclPresentAgain, frames
    <3>2. pc'[t] \in {"use", "desc"}
      BY <3>1 DEF FrameTypes
    <3> QED
      BY <1>2, <2>1, <3>1, <3>2
  <2>3. CASE GetDesc(t)
    <3>1. /\ pc[t] = "desc"
          /\ \/ CallAdd(t, call[t].node, add[t].src, "use")
             \/ pc' = [pc EXCEPT ![t] = "failed"] /\ add' = add
      BY <2>3 DEF GetDesc
    <3>2. call[t].node \in Node /\ add[t].src \in Node /\ "use" \in Rets
      BY FrameFields DEF Rets
    <3>3. CASE CallAdd(t, call[t].node, add[t].src, "use")
      BY <1>2, <2>1, <3>1, <3>2, <3>3, CallAddSteps
    <3>4. CASE pc' = [pc EXCEPT ![t] = "failed"] /\ add' = add
      <4>1. pc'[t] = "failed"
        BY <3>4 DEF FrameTypes
      <4> QED
        BY <1>2, <2>1, <3>1, <3>4, <4>1
    <3> QED
      BY <3>1, <3>3, <3>4
  <2>4. CASE Use(t)
    <3>1. pc[t] = "use" /\ add' = add /\ pc' = [pc EXCEPT ![t] = "solve"]
      BY <2>4 DEF Use, frames
    <3>2. pc'[t] = "solve"
      BY <3>1 DEF FrameTypes
    <3> QED
      BY <1>2, <2>1, <3>1, <3>2
  <2>5. CASE Solve(t)
    <3>1. /\ pc[t] = "solve" /\ add' = add
          /\ IF call[t].op = "IN" THEN pc' = [pc EXCEPT ![t] = "done"]
                                  ELSE pc' = [pc EXCEPT ![t] = "replace"]
      BY <2>5 DEF Solve, frames
    <3>2. pc'[t] = IF call[t].op = "IN" THEN "done" ELSE "replace"
      BY <3>1 DEF FrameTypes
    <3> QED
      BY <1>2, <2>1, <3>1, <3>2
  <2>6. CASE Replace(t)
    <3>1. pc[t] = "replace" /\ add' = add /\ pc' = [pc EXCEPT ![t] = "uploaded"]
      BY <2>6 DEF Replace, frames
    <3>2. pc'[t] = "uploaded"
      BY <3>1 DEF FrameTypes
    <3> QED
      BY <1>2, <2>1, <3>1, <3>2
  <2>7. CASE CallerFails(t)
    <3>1. add' = add /\ pc' = [pc EXCEPT ![t] = "dead"]
      BY <2>7 DEF CallerFails, frames
    <3>2. pc'[t] = "dead"
      BY <3>1 DEF FrameTypes
    <3> QED
      BY <1>2, <2>1, <2>7, <3>1, <3>2
  <2> QED
    BY <1>2, <2>2, <2>3, <2>4, <2>5, <2>6, <2>7 DEF Uses
<1> QED
  BY <1>1, <1>2

------------------------------------------------------------------------------
(* Where a call stands in its frames *)

\* A removal only searches and removes; a call with a parameter looks for the
\* datum and its replicas and adds one for its own use, and afterwards, when
\* the new version is there, updates the others.
FlowAt(t) ==
  LET op == call[t].op
      why == walk[t].why
      ret == add[t].ret
  IN
  /\ pc[t] = "idle" <=> op = "none"
  /\ pc[t] = "idle" => why = "present" /\ ~call[t].up
  /\ op = "remove" => /\ pc[t] \in Over \cup WalkPcs /\ ~call[t].up
                      /\ why \in {"present", "remove"}
  /\ op \in {"IN", "INOUT"} /\ ~call[t].up =>
       /\ why \in {"present", "managers"}
       /\ pc[t] = "done" => op = "IN"
       /\ pc[t] \in AddPcs => ret = "use" /\ pc[t] # "refresh"
       /\ pc[t] # "childRem"
  /\ pc[t] \in {"replace", "uploaded"} => op = "INOUT"
  /\ call[t].up =>
       /\ op = "INOUT" /\ pc[t] \in Over \cup WalkPcs \cup AddPcs \cup {"lcl"}
       /\ pc[t] \in WalkPcs => why \in {"present", "update"} /\ pc[t] # "childRem"
       /\ pc[t] \in AddPcs =>
            /\ why = "update" /\ ret \in {"lock", "child"}
            /\ add[t].dest # call[t].node
            /\ ret = "lock" <=> add[t].dest = Root
            /\ pc[t] # "refresh" => add[t].src = call[t].node

FlowInv == \A t \in Thread : FlowAt(t)

\* What follows a search keeps to it,
LEMMA PresentFlows ==
  ASSUME FrameTypes, NEW t \in Thread, FlowAt(t), NEW found \in BOOLEAN,
         Present(t, found), call' = call, pc[t] \in WalkPcs \cup {"lcl"}
  PROVE  FlowAt(t)'
<1>1. call[t].op \in Ops /\ call[t].up \in BOOLEAN /\ pc[t] # "idle"
  BY FrameFields DEF WalkPcs
<1>2. \/ /\ pc'[t] = "root" /\ add' = add
         /\ walk'[t].why = IF call[t].op = "remove" THEN "remove"
                           ELSE IF call[t].up THEN "update" ELSE "managers"
      \/ /\ pc'[t] = "done" /\ walk' = walk /\ add' = add
         /\ call[t].op = "remove" \/ call[t].up
      \/ /\ call[t].op # "remove" /\ ~call[t].up
         /\ pc'[t] = "add" /\ walk' = walk /\ add'[t].ret = "use"
  BY PresentIs
<1>3. call'[t] = call[t]
  OBVIOUS
<1> QED
  BY <1>1, <1>2, <1>3 DEF FlowAt, Ops, Over, WalkPcs, AddPcs

\* and so does the search,
LEMMA WalksFlow ==
  ASSUME FrameTypes, NEW t \in Thread, FlowAt(t), Start(t) \/ Walks(t)
  PROVE  FlowAt(t)'
<1>f. /\ call[t].op \in Ops /\ call[t].up \in BOOLEAN /\ walk[t].why \in Whys
      /\ add[t].ret \in Rets
      /\ call' = call => call'[t] = call[t]
      /\ walk' = walk => walk'[t] = walk[t]
      /\ add' = add => add'[t] = add[t]
  BY FrameFields
<1>n. /\ Root # call[t].node => TRUE
      /\ walk[t].todo # <<>> => Head(walk[t].todo) # Root
  BY FrameFields, Nodes
<1> USE DEF FlowAt, Ops, Whys, Over, WalkPcs, AddPcs, SameWalk
<1>1. CASE Start(t)
  BY <1>1, <1>f, StartIs
<1>2. CASE LclPresent(t)
  <2>1. CASE Present(t, TRUE)
    BY <1>2, <2>1, PresentFlows, LclPresentIs
  <2>2. CASE ~Present(t, TRUE)
    BY <1>2, <1>f, <2>2, LclPresentIs
  <2> QED
    BY <2>1, <2>2
<1>3. CASE VisitRoot(t)
  <2>1. CASE Present(t, TRUE)
    BY <1>3, <2>1, PresentFlows, VisitRootIs
  <2>2. CASE ~Present(t, TRUE)
    <3>1. /\ pc[t] = "root" /\ call'[t] = call[t] /\ walk'[t].why = walk[t].why
          /\ \/ pc'[t] = "lock" /\ add'[t] = add[t]
             \/ /\ walk[t].why = "update" /\ call[t].node # Root
                /\ pc'[t] = "refresh" /\ add'[t].dest = Root /\ add'[t].ret = "lock"
      BY <1>3, <2>2, VisitRootIs
    <3> QED
      BY <1>f, <3>1
  <2> QED
    BY <2>1, <2>2
<1>4. CASE LockChildren(t)
  BY <1>4, <1>f, LockChildrenIs
<1>5. CASE VisitChild(t)
  <2>1. CASE Present(t, TRUE)
    BY <1>5, <2>1, PresentFlows, VisitChildIs
  <2>2. CASE ~Present(t, TRUE)
    BY <1>5, <1>f, <1>n, <2>2, VisitChildIs
  <2> QED
    BY <2>1, <2>2
<1>6. CASE ChildRem(t) \/ ChildFails(t)
  BY <1>6, <1>f, ChildLeft
<1>7. CASE RootFails(t)
  BY <1>7, <1>f, FailsIs
<1>8. CASE EndWalk(t)
  <2>1. CASE Present(t, FALSE)
    BY <1>8, <2>1, PresentFlows, EndWalkIs
  <2>2. CASE ~Present(t, FALSE)
    BY <1>8, <1>f, <2>2, EndWalkIs
  <2> QED
    BY <2>1, <2>2
<1>9. CASE Refresh(t)
  BY <1>9, <1>f, RefreshIs
<1> QED
  BY <1>1, <1>2, <1>3, <1>4, <1>5, <1>6, <1>7, <1>8, <1>9 DEF Walks

\* and what comes before and after it.
LEMMA StepsFlow ==
  ASSUME FrameTypes, NEW t \in Thread, FlowAt(t), Adds(t) \/ Uses(t)
  PROVE  FlowAt(t)'
<1>f. /\ call[t].op \in Ops /\ call[t].up \in BOOLEAN /\ walk[t].why \in Whys
      /\ add[t].ret \in Rets
      /\ call' = call => call'[t] = call[t]
      /\ walk' = walk => walk'[t] = walk[t]
      /\ add' = add => add'[t] = add[t]
  BY FrameFields
<1> USE DEF FlowAt, Ops, Over, WalkPcs, AddPcs, UsePcs
<1>1. CASE Adds(t)
  <2>1. /\ pc[t] \in AddPcs /\ call'[t] = call[t] /\ walk'[t] = walk[t]
        /\ add'[t].dest = add[t].dest /\ add'[t].src = add[t].src
        /\ add'[t].ret = add[t].ret
        /\ pc'[t] \in (AddPcs \ {"refresh"}) \cup {add[t].ret, "failed", "dead"}
        /\ pc[t] = "refresh" => pc'[t] \in {"child", "failed", "dead"}
    BY <1>1, AddsIs DEF SameAdd
  <2>2. call[t].op \in {"IN", "INOUT"}
    BY <1>f, <2>1
  <2>3. CASE call[t].up
    <3>1. /\ pc'[t] \in (AddPcs \ {"refresh"}) \cup {"lock", "child", "failed", "dead"}
          /\ pc[t] # "refresh" => add[t].src = call[t].node
      BY <2>1, <2>3
    <3>2. pc'[t] \in AddPcs => add[t].src = call[t].node
      BY <1>1, <2>1, <2>3
    <3> QED
      BY <2>1, <2>2, <2>3, <3>1, <3>2
  <2>4. CASE ~call[t].up
    BY <1>f, <2>1, <2>2, <2>4
  <2> QED
    BY <2>3, <2>4
<1>2. CASE Uses(t)
  BY <1>2, <1>f, UsesIs
<1> QED
  BY <1>1, <1>2

\* It holds initially,
LEMMA FlowInvInit == Init => FlowInv
<1> SUFFICES ASSUME Init, NEW t \in Thread PROVE FlowAt(t)
  BY DEF FlowInv
<1>1. pc[t] = "idle" /\ walk[t].why = "present"
  BY DEF Init
<1>2. call[t].op = "none" /\ ~call[t].up
  BY DEF Init
<1> QED
  BY <1>1, <1>2 DEF FlowAt, AddPcs, WalkPcs

\* and every step keeps it.
LEMMA FlowInvNext == LockInv /\ FlowInv /\ [Next]_vars => FlowInv'
<1> SUFFICES ASSUME LockInv, FlowInv, [Next]_vars, NEW u \in Thread PROVE FlowAt(u)'
  BY DEF FlowInv
<1>f. FrameTypes /\ FlowAt(u)
  BY DEF LockInv, FlowInv
<1>1. CASE pc'[u] = pc[u] /\ call'[u] = call[u] /\ walk'[u] = walk[u] /\ add'[u] = add[u]
  BY <1>f, <1>1 DEF FlowAt
<1>2. CASE UNCHANGED vars
  BY <1>1, <1>2 DEF vars, frames
<1>3. ASSUME NEW n \in SeDs, Crash(n) PROVE FlowAt(u)'
  BY <1>1, <1>3 DEF Crash, frames
<1>4. ASSUME NEW t \in Thread, Start(t) \/ Step(t) PROVE FlowAt(u)'
  <2>1. CASE t = u
    BY <1>4, <1>f, <2>1, WalksFlow, StepsFlow DEF Step
  <2>2. CASE t # u
    <3>1. Footprint(t)
      BY <1>4, ThreadKeepsLocks
    <3> QED
      BY <1>1, <2>2, <3>1 DEF Footprint, FramesStep, PcStep, CallStep, WalkStep, AddStep
  <2> QED
    BY <2>1, <2>2
<1> QED
  BY <1>2, <1>3, <1>4 DEF Next

------------------------------------------------------------------------------
(* usedMemSpace *)

\* Every step keeps what usedMemSpace counts.
LEMMA SpaceInvNext == SpaceInv /\ FlowInv /\ [Next]_vars => SpaceInv'
<1> SUFFICES ASSUME SpaceInv, FlowInv, [Next]_vars PROVE SpaceInv'
  OBVIOUS
<1>1. LockInv /\ ReadInv'
  BY ReadInvNext DEF SpaceInv, ReadInv
<1>2. CASE UNCHANGED vars
  <2>1. /\ data' = data /\ usedMem' = usedMem /\ pc' = pc /\ call' = call /\ add' = add
        /\ disturbed' = disturbed /\ alive' = alive
    BY <1>2 DEF vars, store, platform, frames, history
  <2> QED
    BY <1>1, <2>1, CrashKeepsSpace
<1>3. ASSUME NEW n \in SeDs, Crash(n) PROVE SpaceInv'
  <2>1. /\ data' = data /\ usedMem' = usedMem /\ pc' = pc /\ call' = call /\ add' = add
        /\ disturbed' = disturbed /\ alive' = [alive EXCEPT ![n] = FALSE]
    BY <1>3 DEF Crash, store, frames, history
  <2>2. \A m \in Node : alive'[m] => alive[m]
    BY <1>1, <2>1 DEF LockInv, FrameTypes
  <2> QED
    BY <1>1, <2>1, <2>2, CrashKeepsSpace
<1>4. ASSUME NEW t \in Thread, Start(t) \/ Step(t) PROVE SpaceInv'
  <2>1. Footprint(t)
    BY <1>1, <1>4, ThreadKeepsLocks
  <2>2. CASE Start(t) \/ Walks(t)
    BY <1>1, <2>1, <2>2, WalksKeepSpace, RemovalsKeepSpace DEF Walks
  <2>3. CASE Adds(t)
    <3>1. CASE RecordData(t)
      BY <1>1, <2>1, <3>1, RecordKeepsSpace, FailuresKeepSpace
    <3>2. CASE CheckSpace(t) \/ Evict(t)
      BY <1>1, <2>1, <3>2, ChecksKeepSpace, RemovalsKeepSpace
    <3>3. CASE Insert(t) \/ GetSource(t) \/ SendLock(t)
      BY <1>1, <2>1, <3>3, InsertsKeepSpace, GetSourceKeepsSpace, SendLockKeepsSpace
    <3>4. CASE Sent(t) \/ UnlockData(t) \/ CountSpace(t)
      BY <1>1, <2>1, <3>4, ReadiesKeepSpace, CountKeepsSpace
    <3>5. CASE SourceFails(t) \/ DestFails(t)
      BY <1>1, <2>1, <3>5, FailuresKeepSpace
    <3> QED
      BY <2>3, <3>1, <3>2, <3>3, <3>4, <3>5 DEF Adds
  <2>4. CASE Uses(t)
    <3>1. CASE Solve(t)
      <4>1. call[t].op \in {"IN", "INOUT"}
        <5>1. call[t].op \in Ops /\ pc[t] = "solve" /\ FlowAt(t)
          BY <1>1, <3>1, FrameFields DEF LockInv, Solve, FlowInv
        <5> QED
          BY <5>1 DEF FlowAt, Ops, Over, WalkPcs
      <4> QED
        BY <1>1, <2>1, <3>1, <4>1, UsesKeepSpace, InsertsKeepSpace
    <3>2. CASE LclPresentAgain(t) \/ GetDesc(t)
      BY <1>1, <2>1, <3>2, UsesKeepSpace
    <3>3. CASE Use(t) \/ Replace(t) \/ Uploaded(t) \/ CallerFails(t)
      BY <1>1, <2>1, <3>3, UseKeepsSpace, ReplaceKeepsSpace, UploadedKeepsSpace,
         FailuresKeepSpace
    <3> QED
      BY <2>4, <3>1, <3>2, <3>3 DEF Uses
  <2> QED
    BY <1>4, <2>2, <2>3, <2>4 DEF Step
<1> QED
  BY <1>2, <1>3, <1>4 DEF Next

\* usedMemSpace is the memory that the map holds, when nobody is at work on
\* the node, nothing disturbed it and no process crashed: each add counts
\* what it stored, each removal and each eviction frees it once.
THEOREM SpaceAddsUp == Spec => []SpaceIsCounted
<1>1. SpaceInv => SpaceIsCounted
  <2> SUFFICES ASSUME SpaceInv, NEW n \in SeDs \cup {Root},
                      \A d \in Data : Writers(n, d) \cup Borrowers(n, d) = {},
                      Calm(n)
               PROVE  usedMem[n] = Cardinality(Stored(n))
    BY DEF SpaceIsCounted, Calm, Clean
  <2>1. n \in Node
    BY Nodes
  <2>2. usedMem[n] = Cardinality(BytesOf(CountedData(n)))
    BY DEF SpaceInv, SpaceAt
  <2>3. ASSUME NEW d \in Data
        PROVE  Counted(n, d) <=> d \in DOMAIN data[n] /\ data[n][d].value # <<>>
    <3>1. Writers(n, d) = {} /\ \A t \in Thread : ~Holder(t, n, d)
      BY DEF Holder
    <3> QED
      BY <3>1 DEF Counted
  <2>4. CountedData(n) = {d \in Data : d \in DOMAIN data[n] /\ data[n][d].value # <<>>}
    BY <2>3 DEF CountedData
  <2>5. Stored(n) = BytesOf(CountedData(n))
    BY <2>1, <2>4, StoredBytes DEF SpaceInv, ReadInv
  <2> QED
    BY <2>2, <2>5
<1>2. SpaceInv => LockInv
  BY DEF SpaceInv, ReadInv
<1>3. Init => SpaceInv /\ FlowInv
  BY SpaceInvInit, FlowInvInit
<1>4. SpaceInv /\ FlowInv /\ [Next]_vars => (SpaceInv /\ FlowInv)'
  BY <1>2, SpaceInvNext, FlowInvNext
<1> QED
  BY <1>1, <1>3, <1>4, PTL DEF Spec

------------------------------------------------------------------------------
(* What a step leaves of the replicas *)

\* The replica of x on m keeps its entry and status, or is removed, which
\* disturbs it when another thread is at work on it.
Untouched(t, m, x) ==
  \/ SameEntry(m, x) /\ SameStatus(m, x)
  \/ /\ x \notin DOMAIN data'[m]
     /\ AtWork(m, x) \ {t} # {} => <<m, x>> \in disturbed'

\* Where t writes the replica of its datum.
Touching(t, m) ==
  \/ pc[t] \in {"insert", "block", "unlock"} /\ m = add[t].dest
  \/ pc[t] = "getsrc" /\ m = add[t].src
  \/ pc[t] \in {"use", "solve", "replace", "uploaded"} /\ m = call[t].node

Touches(t) ==
  /\ \A m \in Node, x \in Data :
       Untouched(t, m, x) \/ (x = call[t].dat /\ Touching(t, m))
  /\ disturbed \subseteq disturbed'
  /\ \A u \in Thread : read'[u] = read[u] \/ (u = t /\ pc[t] = "use")

\* A step that stores nothing,
LEMMA KeepTouches ==
  ASSUME DataTypes, NEW t \in Thread, data' = data, status' = status,
         disturbed \subseteq disturbed', read' = read
  PROVE  Touches(t)
BY KeepSteps, StatusSteps DEF Touches, Untouched

\* one that removes,
LEMMA RemovalTouches ==
  ASSUME DataTypes, NEW t \in Thread, NEW n \in Node, NEW d \in Data, remData(t, n, d),
         read' = read
  PROVE  Touches(t)
<1>1. status' = status
  BY DEF remData
<1>2. CASE d \in DOMAIN data[n]
  <2>1. /\ data' = Erase(n, d)
        /\ disturbed' = IF AtWork(n, d) \ {t} # {} THEN disturbed \cup {<<n, d>>}
                                                  ELSE disturbed
    BY <1>2 DEF remData, Disturb
  <2>2. /\ d \notin DOMAIN data'[n]
        /\ \A m \in Node, x \in Data : <<m, x>> # <<n, d>> => SameEntry(m, x)
    BY <2>1, EraseSteps
  <2>3. \A m \in Node, x \in Data : SameStatus(m, x)
    BY <1>1, StatusSteps
  <2>4. disturbed \subseteq disturbed' /\ (AtWork(n, d) \ {t} # {} => <<n, d>> \in disturbed')
    BY <2>1
  <2>5. \A m \in Node, x \in Data : Untouched(t, m, x)
    BY <2>2, <2>3, <2>4 DEF Untouched
  <2> QED
    BY <2>4, <2>5 DEF Touches
<1>3. CASE d \notin DOMAIN data[n]
  BY <1>1, <1>3, KeepTouches DEF remData
<1> QED
  BY <1>2, <1>3

\* and one that stores one entry.
LEMMA StoreTouches ==
  ASSUME DataTypes, NEW t \in Thread, NEW n \in Node, NEW d \in Data, d = call[t].dat,
         Touching(t, n),
         \A m \in Node, x \in Data : <<m, x>> # <<n, d>> => SameEntry(m, x) /\ SameStatus(m, x),
         disturbed \subseteq disturbed',
         \A u \in Thread : read'[u] = read[u] \/ (u = t /\ pc[t] = "use")
  PROVE  Touches(t)
BY DEF Touches, Untouched

\* An entry that is stored, whatever it holds, is one.
LEMMA StoreLeaves ==
  ASSUME DataTypes, NEW n \in Node, NEW d \in Data, NEW e, data' = Store(n, d, e)
  PROVE  \A m \in Node, x \in Data : <<m, x>> # <<n, d>> => SameEntry(m, x)
<1> DEFINE f == [x \in DOMAIN data[n] \cup {d} |-> IF x = d THEN e ELSE data[n][x]]
<1>1. data' = [data EXCEPT ![n] = f] /\ data \in [Node -> Maps]
  BY DEF Store, DataTypes
<1>2. /\ DOMAIN f = DOMAIN data[n] \cup {d}
      /\ \A x \in DOMAIN data[n] : x # d => f[x] = data[n][x]
  OBVIOUS
<1> HIDE DEF f
<1>3. ASSUME NEW m \in Node, NEW x \in Data, <<m, x>> # <<n, d>> PROVE SameEntry(m, x)
  BY <1>1, <1>2, <1>3 DEF SameEntry
<1> QED
  BY <1>3

\* A thread touches the replica of its datum where it writes, and no other
\* but by a removal.
LEMMA StepTouches ==
  ASSUME ReadInv, NEW t \in Thread, Start(t) \/ Step(t)
  PROVE  Touches(t)
<1>t. DataTypes /\ FrameTypes
  BY DEF ReadInv, LockInv
<1>f. /\ call[t].dat \in Data /\ call[t].node \in Node
      /\ add[t].dest \in Node /\ add[t].src \in Node
      /\ walk[t].todo # <<>> => Head(walk[t].todo) \in Node
  BY <1>t, FrameFields
<1>s. /\ status' = status => \A m \in Node, x \in Data : SameStatus(m, x)
      /\ \A n \in Node, s \in {"ready", "downloading"} :
           status' = SetStatus(n, call[t].dat, s) =>
             \A m \in Node, x \in Data : <<m, x>> # <<n, call[t].dat>> => SameStatus(m, x)
  BY <1>t, <1>f, StatusSteps
<1>k. data' = data => \A m \in Node, x \in Data : SameEntry(m, x)
  BY <1>t, KeepSteps
<1>1. CASE /\ ~(VisitRoot(t) /\ walk[t].why = "remove")
           /\ Start(t) \/ LclPresent(t) \/ VisitRoot(t) \/ LockChildren(t)
                \/ VisitChild(t) \/ ChildFails(t) \/ RootFails(t) \/ EndWalk(t)
  <2>1. OffStep(t)
    BY <1>1, WalksAreOff
  <2> QED
    BY <1>t, <2>1, KeepTouches DEF OffStep
<1>2. CASE VisitRoot(t) /\ walk[t].why = "remove"
  <2>1. remData(t, Root, call[t].dat) /\ read' = read
    BY <1>2 DEF VisitRoot
  <2> QED
    BY <1>t, <1>f, <2>1, Nodes, RemovalTouches
<1>3. CASE ChildRem(t) \/ Refresh(t)
  <2>1. CASE Refresh(t)
    <3>1. remData(t, add[t].dest, call[t].dat) /\ read' = read
      BY <2>1 DEF Refresh
    <3> QED
      BY <1>t, <1>f, <3>1, RemovalTouches
  <2>2. CASE ChildRem(t)
    <3>1. remData(t, Head(walk[t].todo), call[t].dat) /\ read' = read /\ pc[t] = "childRem"
      BY <2>2 DEF ChildRem
    <3>2. walk[t].todo # <<>>
      BY <1>t, <3>1 DEF ReadInv, LockInv, LockAt, InTheLoop
    <3> QED
      BY <1>t, <1>f, <3>1, <3>2, RemovalTouches
  <2> QED
    BY <1>3, <2>1, <2>2
<1>4. CASE CheckSpace(t) \/ SendLock(t) \/ CountSpace(t) \/ SourceFails(t) \/ DestFails(t)
            \/ LclPresentAgain(t) \/ GetDesc(t) \/ CallerFails(t)
  <2>1. data' = data /\ status' = status /\ read' = read
    BY <1>4 DEF CheckSpace, SendLock, CountSpace, SourceFails, DestFails,
                LclPresentAgain, GetDesc, CallerFails, store, history
  <2>2. disturbed \subseteq disturbed'
    BY <1>4 DEF CheckSpace, SendLock, CountSpace, SourceFails, DestFails,
                LclPresentAgain, GetDesc, CallerFails, Disturb, history
  <2> QED
    BY <1>t, <2>1, <2>2, KeepTouches
<1>5. CASE Evict(t)
  <2>1. read' = read
    BY <1>5 DEF Evict
  <2>2. CASE Victims(add[t].dest, call[t].dat) = {}
    <3>1. data' = data /\ status' = status /\ disturbed' = disturbed
      BY <1>5, <2>2 DEF Evict, store
    <3> QED
      BY <1>t, <2>1, <3>1, KeepTouches
  <2>3. CASE Victims(add[t].dest, call[t].dat) # {}
    <3>1. PICK v \in Victims(add[t].dest, call[t].dat) : remData(t, add[t].dest, v)
      BY <1>5, <2>3 DEF Evict
    <3>2. v \in DOMAIN data[add[t].dest]
      BY <3>1 DEF Victims
    <3>3. v \in Data
      BY <1>t, <1>f, <3>2, MapTypes DEF DataTypes
    <3> QED
      BY <1>t, <1>f, <2>1, <3>1, <3>3, RemovalTouches
  <2> QED
    BY <2>2, <2>3
<1>6. CASE Insert(t) \/ Solve(t)
  <2>1. PICK n \in Node : Touching(t, n) /\ (addData(t, n, call[t].dat)
                                             \/ UNCHANGED <<data, status, disturbed>>)
    BY <1>6, <1>f DEF Insert, Solve, Touching
  <2>2. read' = read
    BY <1>6 DEF Insert, Solve
  <2>3. CASE addData(t, n, call[t].dat)
    <3>1. /\ data' = Store(n, call[t].dat, Entry(TRUE, <<>>))
          /\ status' = SetStatus(n, call[t].dat, "downloading")
          /\ disturbed \subseteq disturbed'
      BY <2>3 DEF addData, Disturb
    <3>2. \A m \in Node, x \in Data : <<m, x>> # <<n, call[t].dat>> => SameEntry(m, x)
      BY <1>t, <1>f, <3>1, StoreLeaves
    <3>3. \A m \in Node, x \in Data : <<m, x>> # <<n, call[t].dat>> => SameStatus(m, x)
      BY <1>s, <2>1, <3>1
    <3>4. \A u \in Thread : read'[u] = read[u]
      BY <2>2
    <3> QED
      BY <1>t, <1>f, <2>1, <3>1, <3>2, <3>3, <3>4, StoreTouches
  <2>4. CASE UNCHANGED <<data, status, disturbed>>
    BY <1>t, <2>2, <2>4, KeepTouches
  <2> QED
    BY <2>1, <2>3, <2>4
<1>7. CASE GetSource(t)
  <2>1. /\ pc[t] = "getsrc" /\ data' = Lookup(add[t].src, call[t].dat)
        /\ status' = status /\ disturbed' = disturbed /\ read' = read
    BY <1>7 DEF GetSource, history
  <2>2. \A m \in Node, x \in Data : <<m, x>> # <<add[t].src, call[t].dat>> => SameEntry(m, x)
    <3>1. PICK s \in Node, d \in Data : s = add[t].src /\ d = call[t].dat
      BY <1>f
    <3>2. data' = Lookup(s, d)
      BY <2>1, <3>1
    <3>3. \A m \in Node, x \in Data : <<m, x>> # <<s, d>> => SameEntry(m, x)
      BY <1>t, <3>2, LookupSteps
    <3> QED
      BY <3>1, <3>3
  <2>3. Touching(t, add[t].src)
    BY <2>1 DEF Touching
  <2>4. \A m \in Node, x \in Data : SameStatus(m, x)
    BY <1>s, <2>1
  <2>5. \A u \in Thread : read'[u] = read[u]
    BY <2>1
  <2> QED
    BY <1>t, <1>f, <2>1, <2>2, <2>3, <2>4, <2>5, StoreTouches
<1>8. CASE RecordData(t)
  <2>1. /\ pc[t] = "block" /\ read' = read /\ disturbed \subseteq disturbed'
        /\ data' = data \/ \E e : data' = Store(add[t].dest, call[t].dat, e)
        /\ status' = status \/ status' = SetStatus(add[t].dest, call[t].dat, "downloading")
    BY <1>8 DEF RecordData, Disturb
  <2>2. \A m \in Node, x \in Data : <<m, x>> # <<add[t].dest, call[t].dat>> => SameEntry(m, x)
    BY <1>t, <1>f, <1>k, <2>1, StoreLeaves
  <2> QED
    BY <1>t, <1>f, <1>s, <2>1, <2>2, StoreTouches DEF Touching
<1>9. CASE Sent(t) \/ UnlockData(t) \/ Uploaded(t)
  <2>1. PICK n \in Node : Touching(t, n) /\ status' = SetStatus(n, call[t].dat, "ready")
    BY <1>9, <1>f DEF Sent, UnlockData, Uploaded, Touching
  <2>2. data' = data /\ disturbed' = disturbed /\ read' = read
    BY <1>9 DEF Sent, UnlockData, Uploaded, history
  <2> QED
    BY <1>t, <1>f, <1>k, <1>s, <2>1, <2>2, StoreTouches
<1>10. CASE Use(t) \/ Replace(t)
  <2>1. /\ Touching(t, call[t].node) /\ status' = status /\ disturbed \subseteq disturbed'
        /\ data' = data \/ \E e : data' = Store(call[t].node, call[t].dat, e)
    BY <1>10 DEF Use, Replace, Touching, Disturb, history
  <2>2. \A u \in Thread : read'[u] = read[u] \/ (u = t /\ pc[t] = "use")
    <3>1. CASE Use(t)
      <4>1. pc[t] = "use" /\ \E q : read' = [read EXCEPT ![t] = q]
        BY <3>1 DEF Use
      <4> QED
        BY <1>t, <4>1 DEF DataTypes
    <3>2. CASE Replace(t)
      BY <3>2 DEF Replace, history
    <3> QED
      BY <1>10, <3>1, <3>2
  <2>3. \A m \in Node, x \in Data : <<m, x>> # <<call[t].node, call[t].dat>> => SameEntry(m, x)
    BY <1>t, <1>f, <1>k, <2>1, StoreLeaves
  <2> QED
    BY <1>t, <1>f, <1>s, <2>1, <2>2, <2>3, StoreTouches
<1> QED
  BY <1>1, <1>2, <1>3, <1>4, <1>5, <1>6, <1>7, <1>8, <1>9, <1>10
     DEF Step, Walks, Adds, Uses

------------------------------------------------------------------------------
(* How far an update has come *)

AllAlive == \A m \in Node : alive[m]

\* A thread has written a new version of its datum, and no other call is
\* about it.
Updating(t) ==
  /\ AllAlive /\ (call[t].up \/ pc[t] = "uploaded")
  /\ Whole(read[t], call[t].dat)
  /\ \A u \in Thread \ {t} : pc[u] = "idle" \/ call[u].dat # call[t].dat

\* The bytes of that version.
IsNew(t, v) == Whole(v, call[t].dat) /\ v[1] = read[t][1] + 1

\* The replica of the node that wrote it is new, if its map has one still.
HasNew(t) ==
  LET n == call[t].node
      d == call[t].dat
  IN  Clean(n, d) /\ d \in DOMAIN data[n] /\ data[n][d].value # <<>>
        => IsNew(t, data[n][d].value)

\* A replica of another node is new.
Fresh(t, m) ==
  LET d == call[t].dat IN
  Clean(m, d) /\ isDataPresent(m, d) /\ data[m][d].desc => IsNew(t, data[m][d].value)

\* The data managers that the walk has been at and left.
Covered(t, m) ==
  LET InAdd == pc[t] \in AddPcs /\ add[t].ret = "child" IN
  \/ pc[t] = "done"
  \/ m = Root /\ (pc[t] \in {"lock", "child"} \/ InAdd)
  \/ /\ m \in SeDs \ ToSet(walk[t].todo)
     /\ (pc[t] = "child") \/ (InAdd /\ m # add[t].dest)

\* What a transfer of the new version has stored.
CopyRight(t) ==
  LET n == add[t].dest
      d == call[t].dat
  IN  (/\ pc[t] \in {"block", "unlock", "count"} /\ Clean(n, d)
       /\ pc[t] = "block" => add[t].blk > 0)
      => data[n][d].value[1] = read[t][1] + 1

UpdateAt(t) ==
  Updating(t) =>
    /\ HasNew(t) /\ CopyRight(t)
    /\ \A m \in (SeDs \cup {Root}) \ {call[t].node} : Covered(t, m) => Fresh(t, m)

ChildInv == AllAlive => children = SeDs
UpdateInv == ChildInv /\ \A t \in Thread : UpdateAt(t)

\* A replica that is not touched stays new.
LEMMA NewKept ==
  ASSUME NEW t \in Thread, NEW u \in Thread, NEW m \in Node,
         call[t].dat \in Data,
         Touches(u), Untouched(u, m, call[t].dat), read'[t] = read[t],
         call'[t].dat = call[t].dat, call'[t].node = call[t].node
  PROVE  /\ Fresh(t, m) => Fresh(t, m)'
         /\ m = call[t].node /\ HasNew(t) => HasNew(t)'
<1> DEFINE d == call[t].dat
<1>1. Clean(m, d)' => Clean(m, d)
  BY DEF Clean, Touches
<1>2. d \in DOMAIN data'[m] => /\ d \in DOMAIN data[m] /\ data'[m][d] = data[m][d]
                               /\ status'[m][d] = status[m][d]
  BY DEF Untouched, SameEntry, SameStatus
<1>3. \A v : IsNew(t, v)' <=> IsNew(t, v)
  BY DEF IsNew, Whole
<1> QED
  BY <1>1, <1>2, <1>3 DEF Fresh, HasNew, isDataPresent, Clean

\* A step does not change what a call is about.
LEMMA CallKept ==
  ASSUME FrameTypes, NEW t \in Thread, Step(t)
  PROVE  /\ call'[t].op = call[t].op /\ call'[t].node = call[t].node
         /\ call'[t].dat = call[t].dat
         /\ ~Uploaded(t) => call' = call
<1>1. CASE Walks(t)
  <2>1. call' = call
    BY <1>1, LclPresentIs, VisitRootIs, LockChildrenIs, VisitChildIs, ChildLeft, FailsIs,
       EndWalkIs, RefreshIs DEF Walks
  <2> QED
    BY <2>1
<1>2. CASE Adds(t)
  <2>1. call' = call
    BY <1>2, AddsIs
  <2> QED
    BY <2>1
<1>3. CASE Uses(t)
  BY <1>3, UsesIs
<1> QED
  BY <1>1, <1>2, <1>3 DEF Step

\* A child leaves the map only when a process is gone.
LEMMA ChildrenStay ==
  ASSUME FrameTypes, NEW t \in Thread, Start(t) \/ Step(t)
  PROVE  children' = children \/ ~AllAlive
<1>r. /\ Raise(t, FALSE) => children' = children
      /\ add[t].dest \in Node /\ add[t].src \in Node
  BY FrameFields DEF Raise
<1>1. CASE Start(t) \/ Walks(t)
  BY <1>1, StartIs, LclPresentIs, VisitRootIs, LockChildrenIs, VisitChildIs, ChildLeft, FailsIs,
     EndWalkIs, RefreshIs DEF Walks, AllAlive
<1>2. CASE Adds(t)
  <2>1. CASE CheckSpace(t) \/ SourceFails(t) \/ DestFails(t)
    BY <1>r, <2>1 DEF CheckSpace, SourceFails, DestFails, AllAlive
  <2>2. CASE Evict(t) \/ SendLock(t)
    BY <1>r, <2>2 DEF Evict, SendLock
  <2>3. CASE Insert(t) \/ GetSource(t) \/ RecordData(t) \/ Sent(t) \/ UnlockData(t)
               \/ CountSpace(t)
    BY <2>3 DEF Insert, GetSource, RecordData, Sent, UnlockData, CountSpace, platform
  <2> QED
    BY <1>2, <2>1, <2>2, <2>3 DEF Adds
<1>3. CASE Uses(t)
  BY <1>3 DEF Uses, LclPresentAgain, GetDesc, Use, Solve, Replace, Uploaded, CallerFails,
              platform
<1> QED
  BY <1>1, <1>2, <1>3 DEF Step

\* A step of another thread about another datum keeps what an update has
\* done: at most it removes a replica that nobody works on.
LEMMA OthersKeepUpdate ==
  ASSUME ReadInv, NEW t \in Thread, FlowAt(t), FlowAt(t)', Start(t) \/ Step(t), Footprint(t),
         NEW u \in Thread \ {t}, UpdateAt(u)
  PROVE  UpdateAt(u)'
<1> SUFFICES ASSUME Updating(u)'
             PROVE  /\ HasNew(u)' /\ CopyRight(u)'
                    /\ \A m \in (SeDs \cup {Root}) \ {call'[u].node} :
                         Covered(u, m)' => Fresh(u, m)'
  BY DEF UpdateAt
<1>t. FrameTypes /\ u \in Thread
  BY DEF ReadInv, LockInv
<1>f. /\ call[u].dat \in Data /\ call[u].node \in Node /\ add[u].dest \in Node
  BY <1>t, FrameFields
<1>1. /\ pc'[u] = pc[u] /\ call'[u] = call[u] /\ walk'[u] = walk[u] /\ add'[u] = add[u]
      /\ \A v \in Thread \ {t} : pc'[v] = pc[v] /\ call'[v] = call[v]
      /\ \A n \in Node : alive'[n] => alive[n]
  BY DEF Footprint, FramesStep, PcStep, CallStep, WalkStep, AddStep, AliveStep
<1>2. Touches(t)
  BY StepTouches
<1>3. read'[u] = read[u]
  BY <1>2 DEF Touches
<1>4. pc[t] = "idle" \/ call[t].dat # call[u].dat
  <2> SUFFICES ASSUME pc[t] # "idle" PROVE call[t].dat # call[u].dat
    OBVIOUS
  <2>1. Step(t)
    BY DEF Start
  <2>2. call'[t].op = call[t].op /\ call'[t].dat = call[t].dat
    BY <1>t, <2>1, CallKept
  <2>3. pc'[t] # "idle"
    BY <2>2 DEF FlowAt
  <2> QED
    BY <1>1, <2>2, <2>3 DEF Updating
<1>5. Updating(u)
  <2>1. AllAlive /\ (call[u].up \/ pc[u] = "uploaded")
    <3>1. \A m \in Node : alive'[m]
      BY DEF Updating, AllAlive
    <3>2. AllAlive
      BY <1>1, <3>1 DEF AllAlive
    <3> QED
      BY <1>1, <3>2, Zenon DEF Updating
  <2>2. Whole(read[u], call[u].dat)
    BY <1>1, <1>3 DEF Updating, Whole
  <2>3. ASSUME NEW v \in Thread \ {u} PROVE pc[v] = "idle" \/ call[v].dat # call[u].dat
    BY <1>1, <1>4 DEF Updating
  <2> QED
    BY <2>1, <2>2, <2>3 DEF Updating
<1>6. HasNew(u) /\ CopyRight(u)
      /\ \A m \in (SeDs \cup {Root}) \ {call[u].node} : Covered(u, m) => Fresh(u, m)
  BY <1>5 DEF UpdateAt
<1>7. ASSUME NEW m \in Node PROVE Untouched(t, m, call[u].dat)
  BY <1>2, <1>4, <1>f DEF Touches, Touching
<1>8. ASSUME NEW m \in Node
      PROVE  /\ Fresh(u, m) => Fresh(u, m)'
             /\ m = call[u].node /\ HasNew(u) => HasNew(u)'
  BY <1>1, <1>2, <1>3, <1>7, <1>f, <1>t, NewKept
<1>9. ASSUME NEW m PROVE Covered(u, m)' => Covered(u, m)
  BY <1>1 DEF Covered
<1>10. CopyRight(u)'
  <2> DEFINE n == add[u].dest
             d == call[u].dat
  <2> SUFFICES ASSUME pc[u] \in {"block", "unlock", "count"}, Clean(n, d)',
                      pc[u] = "block" => add[u].blk > 0
               PROVE  data'[n][d].value[1] = read[u][1] + 1
    BY <1>1, <1>3 DEF CopyRight
  <2>1. <<n, d>> \notin disturbed' /\ Clean(n, d)
    BY <1>1, <1>2 DEF Touches, Clean
  <2>2. d \in DOMAIN data[n] /\ u \in Writers(n, d)
    BY <1>t, <2>1, WriterFacts DEF WriterAt, WritePcs
  <2>3. SameEntry(n, d)
    BY <1>7, <1>f, <2>1, <2>2 DEF Untouched, AtWork
  <2> QED
    BY <1>6, <2>1, <2>2, <2>3 DEF CopyRight, SameEntry
<1>11. \A m \in (SeDs \cup {Root}) \ {call[u].node} : m \in Node
  BY Nodes
<1> QED
  BY <1>1, <1>6, <1>8, <1>9, <1>10, <1>11, <1>f

\* Where the steps of the threads that write can begin.
LEMMA StepsAt ==
  ASSUME FrameTypes, NEW t \in Thread, Start(t) \/ Step(t)
  PROVE  /\ pc[t] = "replace" => Replace(t) \/ CallerFails(t)
         /\ pc[t] = "uploaded" => Uploaded(t) \/ CallerFails(t)
         /\ pc[t] = "getsrc" => GetSource(t) \/ SourceFails(t) \/ DestFails(t)
         /\ pc[t] = "use" => Use(t) \/ CallerFails(t)
         /\ pc[t] \in AddPcs => Adds(t) \/ Refresh(t)
         /\ pc[t] \in WalkPcs \cup {"lcl"} => Walks(t) \/ CallerFails(t)
<1> USE DEF AddPcs, WalkPcs, UsePcs
<1>1. CASE Start(t)
  BY <1>1, StartIs
<1>2. CASE Walks(t)
  <2>1. pc[t] \in WalkPcs \cup {"lcl", "refresh"} /\ (pc[t] = "refresh" => Refresh(t))
    BY <1>2, LclPresentIs, VisitRootIs, LockChildrenIs, VisitChildIs, ChildLeft, FailsIs,
       EndWalkIs, RefreshIs DEF Walks
  <2> QED
    BY <1>2, <2>1
<1>3. CASE Adds(t)
  <2>1. pc[t] \in AddPcs
    BY <1>3, AddsIs
  <2>2. pc[t] = "getsrc" => GetSource(t) \/ SourceFails(t) \/ DestFails(t)
    BY <1>3 DEF Adds, CheckSpace, Evict, Insert, SendLock, RecordData, Sent, UnlockData,
                CountSpace
  <2> QED
    BY <1>3, <2>1, <2>2
<1>4. CASE Uses(t)
  <2>1. pc[t] \in UsePcs
    BY <1>4, UsesIs
  <2>2. /\ pc[t] = "replace" => Replace(t) \/ CallerFails(t)
        /\ pc[t] = "uploaded" => Uploaded(t) \/ CallerFails(t)
        /\ pc[t] = "use" => Use(t) \/ CallerFails(t)
        /\ pc[t] = "lcl" => CallerFails(t)
    BY <1>4 DEF Uses, LclPresentAgain, GetDesc, Use, Solve, Replace, Uploaded
  <2> QED
    BY <2>1, <2>2
<1> QED
  BY <1>1, <1>2, <1>3, <1>4 DEF Step

\* An update begins when the solver has written the new version.
LEMMA UpdateBegins ==
  ASSUME ReadInv, NEW t \in Thread, FlowAt(t), pc[t] = "replace", Start(t) \/ Step(t)
  PROVE  UpdateAt(t)'
<1> SUFFICES ASSUME Updating(t)'
             PROVE  /\ HasNew(t)' /\ CopyRight(t)'
                    /\ \A m \in (SeDs \cup {Root}) \ {call'[t].node} :
                         Covered(t, m)' => Fresh(t, m)'
  BY DEF UpdateAt
<1>t. FrameTypes /\ DataTypes
  BY DEF ReadInv, LockInv
<1>1. PICK n \in Node, d \in Data : n = call[t].node /\ d = call[t].dat
  BY <1>t, FrameFields
<1>2. Replace(t)
  <2>1. CASE CallerFails(t)
    <3>1. pc'[t] \in {"failed", "dead"} /\ call' = call
      BY <1>t, <2>1, FailsIs
    <3>2. ~call'[t].up
      BY <3>1 DEF FlowAt, Over, WalkPcs, AddPcs
    <3> QED
      BY <3>1, <3>2, Zenon DEF Updating
  <2> QED
    BY <1>t, <2>1, StepsAt
<1> DEFINE old == IF read[t] = <<>> THEN 0 ELSE read[t][1]
           v == [i \in 1 .. Size[d] |-> old + 1]
           e == Entry(TRUE, v)
<1>3. /\ data' = IF t \in dangling THEN data ELSE Store(n, d, e)
      /\ call' = call /\ read' = read /\ disturbed' = disturbed
      /\ pc' = [pc EXCEPT ![t] = "uploaded"]
  BY <1>1, <1>2 DEF Replace, frames, history
<1>4. pc'[t] = "uploaded"
  BY <1>3, <1>t DEF FrameTypes
<1>5. Size[d] \in Nat \ {0}
  BY DagdaAssumption
<1>6. Whole(read[t], d)
  BY <1>1, <1>3 DEF Updating, Whole
<1>7. old = read[t][1] /\ old \in Nat /\ old + 1 \in Nat
  <2>1. read[t] \in Seq(Nat) /\ Len(read[t]) = Size[d]
    BY <1>6, <1>t DEF DataTypes, Whole
  <2>2. read[t] # <<>> /\ read[t][1] \in Nat
    BY <1>5, <2>1
  <2> QED
    BY <2>2
<1> HIDE DEF old
<1>8. /\ v \in [1 .. Size[d] -> Nat] /\ \A i \in 1 .. Size[d] : v[i] = old + 1
      /\ 1 \in 1 .. Size[d]
  BY <1>5, <1>7
<1> HIDE DEF v
<1>9. e \in Item /\ e.value = v /\ Len(v) = Size[d]
  BY <1>5, <1>8, Bytes
<1> HIDE DEF e
<1>10. Whole(v, d) /\ v[1] = read[t][1] + 1
  BY <1>7, <1>8, <1>9 DEF Whole
<1>11. HasNew(t)'
  <2> SUFFICES ASSUME Clean(n, d)
               PROVE  Whole(data'[n][d].value, d) /\ data'[n][d].value[1] = read[t][1] + 1
    BY <1>1, <1>3 DEF HasNew, Clean, IsNew
  <2>1. t \notin dangling
    <3>1. t \in Writers(n, d)
      BY <1>1, Roles
    <3> QED
      BY <3>1 DEF ReadInv, PairInv, ThreadAt, WriterAt
  <2>2. data'[n][d] = e
    BY <1>3, <1>9, <1>t, <2>1, StoreSteps
  <2> QED
    BY <1>9, <1>10, <2>2
<1>12. CopyRight(t)' /\ \A m : ~Covered(t, m)'
  BY <1>4 DEF CopyRight, Covered, AddPcs
<1> QED
  BY <1>11, <1>12

\* Its own later steps leave the call and what was read alone.
LEMMA UpdateGoesOn ==
  ASSUME ReadInv, NEW t \in Thread, FlowAt(t), pc[t] # "replace", Start(t) \/ Step(t),
         Footprint(t), Updating(t)'
  PROVE  /\ Updating(t) /\ read'[t] = read[t]
         /\ call'[t].node = call[t].node /\ call'[t].dat = call[t].dat
         /\ Step(t)
<1>t. FrameTypes
  BY DEF ReadInv, LockInv
<1>u. /\ AllAlive' /\ (call'[t].up \/ pc'[t] = "uploaded")
      /\ Whole(read[t], call[t].dat)'
      /\ \A u \in Thread \ {t} : pc'[u] = "idle" \/ call'[u].dat # call'[t].dat
  BY DEF Updating
<1>1. Step(t)
  BY <1>t, <1>u, StartIs
<1>2. pc'[t] # "uploaded"
  <2>1. CASE Walks(t)
    <3>1. CASE Present(t, TRUE) \/ Present(t, FALSE)
      BY <1>t, <3>1, PresentIs
    <3>2. CASE ~(Present(t, TRUE) \/ Present(t, FALSE))
      BY <1>t, <2>1, <3>2, LclPresentIs, VisitRootIs, LockChildrenIs, VisitChildIs, ChildLeft,
         FailsIs, EndWalkIs, RefreshIs DEF Walks
    <3> QED
      BY <3>1, <3>2
  <2>2. CASE Adds(t)
    BY <1>t, <2>2, AddsIs, FrameFields DEF AddPcs, Rets
  <2>3. CASE Uses(t)
    BY <1>t, <2>3, UsesIs
  <2> QED
    BY <1>1, <2>1, <2>2, <2>3 DEF Step
<1>3. call[t].up \/ pc[t] = "uploaded"
  <2>1. CASE Uploaded(t)
    BY <2>1 DEF Uploaded
  <2>2. CASE ~Uploaded(t)
    <3>1. call' = call
      BY <1>t, <1>1, <2>2, CallKept
    <3> QED
      BY <1>2, <1>u, <3>1
  <2> QED
    BY <2>1, <2>2
<1>4. call'[t].node = call[t].node /\ call'[t].dat = call[t].dat
  BY <1>t, <1>1, CallKept
<1>5. read'[t] = read[t]
  <2>1. pc[t] # "use"
    BY <1>3 DEF FlowAt, Over, WalkPcs, AddPcs
  <2> QED
    BY <2>1, StepTouches DEF Touches
<1>6. AllAlive
  <2>1. \A m \in Node : alive'[m]
    BY <1>u DEF AllAlive
  <2> QED
    BY <2>1 DEF AllAlive, Footprint, AliveStep
<1>7. ASSUME NEW u \in Thread \ {t} PROVE pc[u] = "idle" \/ call[u].dat # call[t].dat
  BY <1>4, <1>u DEF Footprint, FramesStep, PcStep, CallStep
<1>8. Whole(read[t], call[t].dat)
  BY <1>4, <1>5, <1>u DEF Whole
<1> QED
  BY <1>1, <1>3, <1>4, <1>5, <1>6, <1>7, <1>8, Zenon DEF Updating

\* The node that wrote the new version keeps it, or loses it whole.
LEMMA WriterStaysNew ==
  ASSUME ReadInv, NEW t \in Thread, FlowAt(t), Step(t), Updating(t), HasNew(t),
         read'[t] = read[t], call'[t].node = call[t].node, call'[t].dat = call[t].dat
  PROVE  HasNew(t)'
<1>t. FrameTypes /\ DataTypes
  BY DEF ReadInv, LockInv
<1>1. PICK n \in Node, d \in Data : n = call[t].node /\ d = call[t].dat
  BY <1>t, FrameFields
<1>2. Touches(t)
  BY StepTouches
<1>3. CASE Untouched(t, n, d)
  BY <1>1, <1>2, <1>3, NewKept
<1>4. CASE ~Untouched(t, n, d)
  <2>1. Touching(t, n)
    BY <1>1, <1>2, <1>4 DEF Touches
  <2>2. pc[t] \in {"getsrc", "uploaded"}
    <3>1. call[t].up \/ pc[t] = "uploaded"
      BY DEF Updating
    <3>2. CASE call[t].up
      BY <1>1, <2>1, <3>2 DEF Touching, FlowAt, Over, WalkPcs, AddPcs
    <3> QED
      BY <3>1, <3>2
  <2>3. CASE GetSource(t)
    <3>1. PICK s \in Node : s = add[t].src
      BY <1>t, FrameFields
    <3>2. data' = Lookup(s, d) /\ disturbed' = disturbed
      BY <1>1, <2>3, <3>1 DEF GetSource, history
    <3>3. /\ d \in DOMAIN data[n] => SameEntry(n, d)
          /\ d \notin DOMAIN data[n] =>
               d \notin DOMAIN data'[n] \/ data'[n][d] = Entry(FALSE, <<>>)
      <4>1. CASE s = n
        BY <1>t, <3>2, <4>1, LookupSteps
      <4>2. CASE s # n
        <5>1. \A m \in Node, x \in Data : <<m, x>> # <<s, d>> => SameEntry(m, x)
          BY <1>t, <3>2, LookupSteps
        <5>2. SameEntry(n, d)
          BY <4>2, <5>1
        <5> QED
          BY <5>2 DEF SameEntry
      <4> QED
        BY <4>1, <4>2
    <3>4. Entry(FALSE, <<>>).value = <<>>
      BY DEF Entry
    <3> SUFFICES ASSUME Clean(n, d), d \in DOMAIN data'[n], data'[n][d].value # <<>>
                 PROVE  Whole(data'[n][d].value, d) /\ data'[n][d].value[1] = read[t][1] + 1
      BY <1>1, <3>2 DEF HasNew, IsNew, Clean
    <3>5. d \in DOMAIN data[n] /\ data'[n][d] = data[n][d]
      BY <3>3, <3>4 DEF SameEntry
    <3> QED
      BY <1>1, <3>5 DEF HasNew, IsNew
  <2>4. CASE ~GetSource(t)
    <3>1. data' = data /\ disturbed' = disturbed
      BY <1>t, <2>2, <2>4, StepsAt DEF SourceFails, DestFails, Uploaded, CallerFails,
                                       store, history
    <3> QED
      BY <1>1, <3>1 DEF HasNew, IsNew, Clean, Whole
  <2> QED
    BY <2>3, <2>4
<1> QED
  BY <1>3, <1>4

\* The first of a sequence and the others.
LEMMA HeadTail ==
  ASSUME NEW T, NEW s \in Seq(T)
  PROVE  /\ s = <<>> => ToSet(s) = {}
         /\ s # <<>> => ToSet(s) = {Head(s)} \cup ToSet(Tail(s))
<1>1. s = <<>> => ToSet(s) = {}
  BY DEF ToSet
<1>2. ASSUME s # <<>> PROVE ToSet(s) = {Head(s)} \cup ToSet(Tail(s))
  <2>1. /\ Len(s) \in Nat \ {0} /\ DOMAIN s = 1 .. Len(s) /\ Head(s) = s[1]
        /\ DOMAIN Tail(s) = 1 .. (Len(s) - 1)
        /\ \A i \in 1 .. (Len(s) - 1) : Tail(s)[i] = s[i + 1]
    BY <1>2
  <2>2. ASSUME NEW x \in ToSet(s) PROVE x = Head(s) \/ x \in ToSet(Tail(s))
    <3>1. PICK i \in 1 .. Len(s) : x = s[i]
      BY <2>1 DEF ToSet
    <3>2. CASE i # 1
      <4>1. i - 1 \in 1 .. (Len(s) - 1) /\ (i - 1) + 1 = i
        BY <2>1, <3>2
      <4>2. Tail(s)[i - 1] = x
        BY <2>1, <3>1, <4>1
      <4> QED
        BY <2>1, <4>1, <4>2 DEF ToSet
    <3> QED
      BY <2>1, <3>1, <3>2
  <2>3. ASSUME NEW x \in ToSet(Tail(s)) PROVE x \in ToSet(s)
    <3>1. PICK i \in 1 .. (Len(s) - 1) : x = Tail(s)[i]
      BY <2>1, <2>3 DEF ToSet
    <3>2. i + 1 \in 1 .. Len(s) /\ x = s[i + 1]
      BY <2>1, <3>1
    <3> QED
      BY <2>1, <3>2 DEF ToSet
  <2>4. Head(s) \in ToSet(s)
    BY <2>1 DEF ToSet
  <2> QED
    BY <2>2, <2>3, <2>4
<1> QED
  BY <1>1, <1>2

\* A walk of an update leaves a data manager when it has not the datum.
LEMMA WalkCovers ==
  ASSUME FrameTypes, NEW t \in Thread, FlowAt(t), call[t].up, AllAlive, ChildInv,
         Walks(t), NEW m \in (SeDs \cup {Root}) \ {call[t].node}, Covered(t, m)'
  PROVE  \/ Covered(t, m) /\ ~Touching(t, m)
         \/ ~isDataPresent(m, call[t].dat)'
<1> DEFINE d == call[t].dat
           w == walk[t]
<1>f. /\ w.todo \in Seq(SeDs)
      /\ w.todo # <<>> => Head(w.todo) \in SeDs
      /\ add[t].ret \in Rets
      /\ call' = call => call'[t] = call[t]
      /\ walk' = walk => walk'[t] = walk[t]
      /\ add' = add => add'[t] = add[t]
  BY FrameFields
<1>h. /\ w.todo = <<>> => ToSet(w.todo) = {}
      /\ w.todo # <<>> => ToSet(w.todo) = {Head(w.todo)} \cup ToSet(Tail(w.todo))
  BY <1>f, HeadTail
<1>q. Quiet /\ call' = call =>
        \A n \in Node : ~isDataPresent(n, d) => ~isDataPresent(n, d)'
  BY DEF Quiet, isDataPresent
<1>m. m \in Node /\ Root \notin SeDs
  BY Nodes
<1>p. ASSUME Present(t, TRUE) PROVE FALSE
  BY <1>p, PresentIs DEF Covered, AddPcs
<1>x. /\ call[t].op = "INOUT"
      /\ pc[t] \in WalkPcs => w.why \in {"present", "update"} /\ pc[t] # "childRem"
      /\ pc[t] \in AddPcs => add[t].ret = "lock" \/ add[t].dest # Root
  BY DEF FlowAt
<1>1. CASE LclPresent(t)
  <2>1. pc'[t] = "root"
    BY <1>1, <1>p, LclPresentIs
  <2> QED
    BY <2>1 DEF Covered, AddPcs
<1>2. CASE VisitRoot(t)
  <2>1. /\ pc[t] = "root" /\ call' = call
        /\ walk[t].why # "remove" => Quiet
        /\ \/ pc'[t] = "lock" /\ (~isDataPresent(Root, d) \/ call[t].node = Root)
           \/ pc'[t] = "refresh" /\ add'[t].ret = "lock"
    BY <1>2, <1>p, <1>x, VisitRootIs DEF WalkPcs
  <2> QED
    BY <1>q, <1>m, <1>x, <2>1 DEF Covered, AddPcs, WalkPcs
<1>3. CASE LockChildren(t)
  <2>1. pc[t] = "lock" /\ pc'[t] = "child" /\ walk'[t].todo = Only(SeDOrder, SeDs)
    BY <1>3, LockChildrenIs DEF ChildInv
  <2>2. ToSet(walk'[t].todo) = SeDs
    <3>1. SeDOrder \in Seq(SeDs) /\ ToSet(SeDOrder) = SeDs
      BY DagdaAssumption DEF SeDs, ToSet
    <3>2. ToSet(Only(SeDOrder, SeDs)) = ToSet(SeDOrder) \cap SeDs
      BY <3>1, OnlyKeeps
    <3> QED
      BY <2>1, <3>1, <3>2
  <2> QED
    BY <2>1, <2>2 DEF Covered, Touching, AddPcs
<1>4. CASE VisitChild(t)
  <2> DEFINE c == Head(w.todo)
  <2>1. /\ pc[t] = "child" /\ w.todo # <<>> /\ Quiet /\ call' = call
        /\ walk'[t].todo = Tail(w.todo)
        /\ \/ /\ pc'[t] = "child"
              /\ ~isDataPresent(c, d) \/ c = call[t].node
           \/ pc'[t] = "refresh" /\ add'[t].dest = c /\ add'[t].ret = "child"
    BY <1>4, <1>p, <1>x, VisitChildIs DEF WalkPcs
  <2>2. ~Touching(t, m)
    BY <2>1 DEF Touching
  <2>3. CASE m = c
    BY <1>f, <1>m, <1>q, <2>1, <2>3 DEF Covered, AddPcs
  <2>4. CASE m # c
    BY <1>h, <2>1, <2>2, <2>4 DEF Covered, AddPcs
  <2> QED
    BY <2>3, <2>4
<1>5. CASE ChildRem(t) \/ ChildFails(t) \/ RootFails(t)
  BY <1>5, <1>x, ChildLeft, FailsIs DEF AllAlive, WalkPcs
<1>6. CASE EndWalk(t)
  <2>1. pc[t] = "child" /\ w.todo = <<>>
    BY <1>6, EndWalkIs
  <2> QED
    BY <1>h, <2>1 DEF Covered, Touching
<1>7. CASE Refresh(t)
  <2>1. /\ pc[t] = "refresh" /\ pc'[t] = "add" /\ walk'[t] = w
        /\ add'[t].dest = add[t].dest /\ add'[t].ret = add[t].ret
    BY <1>7, <1>f, RefreshIs
  <2> QED
    BY <2>1 DEF Covered, Touching, AddPcs
<1> QED
  BY <1>1, <1>2, <1>3, <1>4, <1>5, <1>6, <1>7 DEF Walks

\* An add of an update leaves one that it has made new.
LEMMA AddCovers ==
  ASSUME FrameTypes, NEW t \in Thread, FlowAt(t), call[t].up, Adds(t),
         NEW m \in (SeDs \cup {Root}) \ {call[t].node}, Covered(t, m)'
  PROVE  \/ Covered(t, m) /\ ~Touching(t, m)
         \/ m = add[t].dest /\ pc'[t] \in {"lock", "child"}
<1>1. /\ pc[t] \in AddPcs /\ walk'[t] = walk[t] /\ SameAdd(t)
      /\ pc'[t] \in (AddPcs \ {"refresh"}) \cup {add[t].ret, "failed", "dead"}
  BY AddsIs
<1>2. /\ add[t].ret \in {"lock", "child"}
      /\ add[t].ret = "lock" <=> add[t].dest = Root
      /\ pc[t] # "refresh" => add[t].src = call[t].node
  BY <1>1 DEF FlowAt
<1>3. m \notin {add[t].dest, call[t].node} => ~Touching(t, m)
  BY <1>1, <1>2 DEF Touching, AddPcs
<1>4. CASE pc'[t] \in AddPcs
  <2>1. m # add[t].dest /\ Covered(t, m)
    BY <1>1, <1>2, <1>4, Nodes DEF Covered, SameAdd, AddPcs
  <2> QED
    BY <1>3, <2>1
<1>5. CASE pc'[t] \notin AddPcs
  <2>1. pc'[t] = add[t].ret
    BY <1>1, <1>2, <1>5 DEF Covered
  <2>2. CASE m = add[t].dest
    BY <1>2, <2>1, <2>2
  <2>3. CASE m # add[t].dest
    <3>1. Covered(t, m)
      BY <1>1, <1>2, <2>1, <2>3 DEF Covered, AddPcs
    <3> QED
      BY <1>3, <2>3, <3>1
  <2> QED
    BY <2>2, <2>3
<1> QED
  BY <1>4, <1>5

\* The steps of an add by where they lead.
LEMMA AddsLead ==
  ASSUME FrameTypes, NEW t \in Thread, FlowAt(t), call[t].up, AllAlive, Adds(t)
  PROVE  /\ pc'[t] \in {"lock", "child"} =>
              \/ CountSpace(t)
              \/ SendLock(t) /\ <<add[t].dest, call[t].dat>> \in disturbed'
         /\ pc'[t] = "block" => RecordData(t) \/ (SendLock(t) /\ add'[t].blk = 0)
         /\ pc'[t] = "unlock" => Sent(t)
         /\ pc'[t] = "count" => UnlockData(t)
<1>t. /\ add[t].dest \in Node /\ add[t].src \in Node
      /\ \A s : pc' = [pc EXCEPT ![t] = s] => pc'[t] = s
  BY FrameFields DEF FrameTypes
<1>r. Raise(t, FALSE) => pc'[t] = "failed"
  BY RaiseSteps
<1>x. /\ pc[t] \in AddPcs /\ pc[t] # "refresh" => add[t].src # add[t].dest
      /\ pc[t] \in AddPcs => add[t].ret \in {"lock", "child"}
  BY DEF FlowAt
<1>1. CASE CheckSpace(t)
  <2>1. pc[t] = "add" /\ add[t].src # add[t].dest
    BY <1>1, <1>x DEF CheckSpace, AddPcs
  <2>2. \/ Raise(t, FALSE) \/ pc' = [pc EXCEPT ![t] = "insert"]
        \/ pc' = [pc EXCEPT ![t] = "evict"]
    BY <1>1, <1>t, <2>1 DEF CheckSpace, AllAlive
  <2> QED
    BY <1>t, <1>r, <2>2
<1>2. CASE Evict(t)
  <2>1. Raise(t, FALSE) \/ pc' = [pc EXCEPT ![t] = "add"]
    BY <1>2 DEF Evict
  <2> QED
    BY <1>t, <1>r, <2>1
<1>3. CASE Insert(t) \/ GetSource(t)
  <2>1. pc' = [pc EXCEPT ![t] = "getsrc"] \/ pc' = [pc EXCEPT ![t] = "sendLock"]
    BY <1>3 DEF Insert, GetSource
  <2> QED
    BY <1>t, <2>1
<1>4. CASE SendLock(t)
  <2>1. \/ Raise(t, FALSE)
        \/ pc' = [pc EXCEPT ![t] = "block"] /\ add' = [add EXCEPT ![t].blk = 0]
        \/ /\ pc' = [pc EXCEPT ![t] = add[t].ret]
           /\ <<add[t].dest, call[t].dat>> \in disturbed'
    BY <1>4 DEF SendLock, Disturb
  <2>2. add' = [add EXCEPT ![t].blk = 0] => add'[t].blk = 0
    BY DEF FrameTypes, AddFrames
  <2>3. pc[t] = "sendLock"
    BY <1>4 DEF SendLock
  <2> QED
    BY <1>4, <1>t, <1>r, <1>x, <2>1, <2>2, <2>3 DEF AddPcs
<1>5. CASE RecordData(t)
  BY <1>5 DEF RecordData
<1>6. CASE Sent(t) \/ UnlockData(t)
  <2>1. /\ Sent(t) => pc' = [pc EXCEPT ![t] = "unlock"]
        /\ UnlockData(t) => pc' = [pc EXCEPT ![t] = "count"]
    BY DEF Sent, UnlockData
  <2> QED
    BY <1>6, <1>t, <2>1
<1>7. CASE CountSpace(t)
  <2>1. pc' = [pc EXCEPT ![t] = add[t].ret] /\ pc[t] = "count"
    BY <1>7 DEF CountSpace
  <2> QED
    BY <1>7, <1>t, <1>x, <2>1 DEF AddPcs
<1>8. CASE SourceFails(t) \/ DestFails(t)
  BY <1>8, <1>t DEF SourceFails, DestFails, AllAlive
<1> QED
  BY <1>1, <1>2, <1>3, <1>4, <1>5, <1>6, <1>7, <1>8 DEF Adds

\* What an add of an update leaves is new,
LEMMA AddReturnsNew ==
  ASSUME ReadInv, NEW t \in Thread, FlowAt(t), call[t].up, AllAlive, Adds(t),
         CopyRight(t), pc'[t] \in {"lock", "child"},
         read'[t] = read[t], call'[t].dat = call[t].dat
  PROVE  Fresh(t, add[t].dest)' \/ add'[t].dest # add[t].dest
<1>t. FrameTypes
  BY DEF ReadInv, LockInv
<1>1. PICK n \in Node, d \in Data : n = add[t].dest /\ d = call[t].dat
  BY <1>t, FrameFields
<1> SUFFICES ASSUME <<n, d>> \notin disturbed'
             PROVE  Whole(data'[n][d].value, d) /\ data'[n][d].value[1] = read[t][1] + 1
  BY <1>1 DEF Fresh, Clean, IsNew
<1>2. CountSpace(t)
  BY <1>1, <1>t, AddsLead
<1>3. pc[t] = "count" /\ data' = data /\ disturbed' = disturbed
  BY <1>2 DEF CountSpace, history
<1>4. Clean(n, d)
  BY <1>3 DEF Clean
<1>5. Whole(data[n][d].value, d)
  BY <1>1, <1>3, <1>4, WriterFacts DEF WriterAt, WritePcs
<1>6. data[n][d].value[1] = read[t][1] + 1
  BY <1>1, <1>3, <1>4 DEF CopyRight
<1> QED
  BY <1>3, <1>5, <1>6

\* since it copies the new version from the node that wrote it.
LEMMA CopiesRight ==
  ASSUME ReadInv, NEW t \in Thread, FlowAt(t), call[t].up, AllAlive, AllAlive', Adds(t),
         CopyRight(t), HasNew(t),
         read'[t] = read[t], call'[t].dat = call[t].dat
  PROVE  CopyRight(t)'
<1>t. FrameTypes /\ DataTypes
  BY DEF ReadInv, LockInv
<1>1. PICK n \in Node, s \in Node, d \in Data :
        n = add[t].dest /\ s = add[t].src /\ d = call[t].dat
  BY <1>t, FrameFields
<1>2. add'[t].dest = n
  BY <1>1, <1>t, AddsIs DEF SameAdd
<1> SUFFICES ASSUME pc'[t] \in {"block", "unlock", "count"}, <<n, d>> \notin disturbed',
                    pc'[t] = "block" => add'[t].blk > 0
             PROVE  data'[n][d].value[1] = read[t][1] + 1
  BY <1>1, <1>2 DEF CopyRight, Clean
<1>3. CASE pc'[t] \in {"unlock", "count"}
  <2>1. Sent(t) \/ UnlockData(t)
    BY <1>3, <1>t, AddsLead
  <2>2. /\ data' = data /\ disturbed' = disturbed
        /\ pc[t] \in {"block", "unlock"}
        /\ pc[t] = "block" => add[t].blk = nBlocks(d)
    BY <1>1, <2>1 DEF Sent, UnlockData, history
  <2>3. nBlocks(d) > 0
    <3>1. Size[d] \in Nat /\ MaxMsgSize \in Nat \ {0}
      BY DagdaAssumption
    <3>2. Size[d] \div MaxMsgSize \in Nat
      BY <3>1, DivFacts
    <3> QED
      BY <3>2 DEF nBlocks
  <2> QED
    BY <1>1, <2>2, <2>3 DEF CopyRight, Clean
<1>4. CASE pc'[t] = "block"
  <2>1. RecordData(t)
    <3>1. add'[t].blk # 0
      <4>1. add'[t].blk > 0
        BY <1>4
      <4> QED
        BY <4>1
    <3>2. RecordData(t) \/ add'[t].blk = 0
      BY <1>4, <1>t, AddsLead
    <3> QED
      BY <3>1, <3>2
  <2> DEFINE from == data[s][d].value
             bytes == IF from = <<>> THEN [i \in 1 .. Size[d] |-> 0] ELSE from
             e == Recorded(t, n, bytes)
  <2>2. /\ pc[t] = "block" /\ data' = Store(n, d, e)
        /\ disturbed' = IF from = <<>> \/ <<s, d>> \in disturbed
                          THEN disturbed \cup {<<n, d>>} ELSE disturbed
    <3>1. pc[t] = "block"
      BY <2>1 DEF RecordData
    <3>2. \/ alive' = [alive EXCEPT ![n] = FALSE]
          \/ /\ data' = Store(n, d, e)
             /\ Disturb(n, d, from = <<>> \/ <<s, d>> \in disturbed)
      BY <1>1, <2>1 DEF RecordData
    <3>3. alive' # [alive EXCEPT ![n] = FALSE]
      <4>1. alive'[n]
        BY DEF AllAlive
      <4>2. alive \in [Node -> BOOLEAN]
        BY <1>t DEF FrameTypes
      <4> QED
        BY <4>1, <4>2
    <3> QED
      BY <3>1, <3>2, <3>3 DEF Disturb
  <2>3. Clean(n, d) /\ Clean(s, d) /\ from # <<>>
    BY <2>2 DEF Clean
  <2>4. /\ d \in DOMAIN data[s] /\ s = call[t].node
    BY <1>1, <2>2 DEF ReadInv, Transfer, FlowAt, AddPcs
  <2>5. Whole(from, d) /\ from[1] = read[t][1] + 1
    BY <1>1, <2>3, <2>4 DEF HasNew, IsNew
  <2>6. Filled(t) /\ d \in DOMAIN data[n]
    BY <1>1, <2>2, <2>3, WriterFacts DEF WriterAt, WritePcs
  <2>7. add[t].blk > 0 => data[n][d].value[1] = from[1]
    BY <1>1, <2>2, <2>3, <2>5 DEF CopyRight
  <2>8. from \in Seq(Nat) /\ (from = <<>> \/ Len(from) = Size[d])
    BY <1>t, <2>4, MapTypes DEF DataTypes, Item
  <2>9. RecordedRight(t, n, d, from, bytes)
    <3>1. bytes = IF from = <<>> THEN [i \in 1 .. Size[d] |-> 0] ELSE from
      OBVIOUS
    <3> HIDE DEF from, bytes
    <3> QED
      BY <1>1, <2>8, <3>1, RecordedFacts
  <2>10. e \in Item /\ Len(e.value) = Size[d] /\ e.value[1] = from[1]
    <3>1. Size[d] \in Nat \ {0} /\ MaxMsgSize \in Nat \ {0} /\ add[t].blk \in Nat
      BY <1>t, DagdaAssumption, FrameFields
    <3>2. 1 \in 1 .. Size[d] /\ (1 - 1) \div MaxMsgSize = 0
      BY <3>1
    <3>3. (1 - 1) \div MaxMsgSize < add[t].blk + 1
      BY <3>1, <3>2
    <3> HIDE DEF from, bytes
    <3> QED
      BY <2>3, <2>5, <2>6, <2>7, <2>9, <3>2, <3>3 DEF RecordedRight
  <2> HIDE DEF e
  <2>11. data'[n][d] = e
    BY <1>t, <2>2, <2>10, StoreSteps
  <2> QED
    BY <2>5, <2>10, <2>11
<1> QED
  BY <1>3, <1>4

\* A thread's own step takes its update further.
LEMMA OwnStepKeepsUpdate ==
  ASSUME ReadInv, NEW t \in Thread, FlowAt(t), Start(t) \/ Step(t), Footprint(t),
         ChildInv, UpdateAt(t)
  PROVE  UpdateAt(t)'
<1>t. FrameTypes
  BY DEF ReadInv, LockInv
<1>1. CASE pc[t] = "replace"
  BY <1>1, UpdateBegins
<1>2. CASE pc[t] # "replace"
  <2> SUFFICES ASSUME Updating(t)'
               PROVE  /\ HasNew(t)' /\ CopyRight(t)'
                      /\ \A m \in (SeDs \cup {Root}) \ {call'[t].node} :
                           Covered(t, m)' => Fresh(t, m)'
    BY DEF UpdateAt
  <2>1. /\ Updating(t) /\ read'[t] = read[t] /\ Step(t)
        /\ call'[t].node = call[t].node /\ call'[t].dat = call[t].dat
    BY <1>2, UpdateGoesOn
  <2>2. /\ HasNew(t) /\ CopyRight(t)
        /\ \A m \in (SeDs \cup {Root}) \ {call[t].node} : Covered(t, m) => Fresh(t, m)
    BY <2>1 DEF UpdateAt
  <2>3. AllAlive /\ AllAlive' /\ (call[t].up \/ pc[t] = "uploaded")
    BY <2>1 DEF Updating
  <2>4. HasNew(t)'
    BY <2>1, <2>2, WriterStaysNew
  <2>5. ASSUME NEW m \in (SeDs \cup {Root}) \ {call[t].node}, Covered(t, m),
               ~Touching(t, m)
        PROVE  Fresh(t, m)'
    <3>1. Touches(t) /\ call[t].dat \in Data /\ m \in Node
      BY <1>t, <2>5, FrameFields, StepTouches, Nodes
    <3>2. Untouched(t, m, call[t].dat)
      BY <2>5, <3>1 DEF Touches
    <3> QED
      BY <2>1, <2>2, <2>5, <3>1, <3>2, NewKept
  <2>6. CASE pc[t] = "uploaded"
    <3>1. pc'[t] \in {"lcl", "failed", "dead"}
      <4>1. Uploaded(t) => pc'[t] = "lcl"
        BY <1>t DEF Uploaded, FrameTypes
      <4> QED
        BY <1>t, <2>6, <4>1, StepsAt, FailsIs
    <3> QED
      BY <2>4, <3>1 DEF CopyRight, Covered, AddPcs
  <2>7. CASE call[t].up /\ Walks(t)
    <3>1. pc'[t] \notin {"block", "unlock", "count"}
      <4>1. CASE Present(t, TRUE) \/ Present(t, FALSE)
        BY <1>t, <4>1, PresentIs
      <4>2. CASE ~(Present(t, TRUE) \/ Present(t, FALSE))
        BY <1>t, <2>7, <4>2, LclPresentIs, VisitRootIs, LockChildrenIs, VisitChildIs,
           ChildLeft, FailsIs, EndWalkIs, RefreshIs DEF Walks
      <4> QED
        BY <4>1, <4>2
    <3>2. ASSUME NEW m \in (SeDs \cup {Root}) \ {call[t].node}, Covered(t, m)'
          PROVE  Fresh(t, m)'
      <4>1. \/ Covered(t, m) /\ ~Touching(t, m)
            \/ ~isDataPresent(m, call[t].dat)'
        BY <1>t, <2>3, <2>7, <3>2, WalkCovers
      <4> QED
        BY <2>1, <2>5, <3>2, <4>1 DEF Fresh
    <3> QED
      BY <2>1, <2>4, <3>1, <3>2 DEF CopyRight
  <2>8. CASE call[t].up /\ Adds(t)
    <3>1. CopyRight(t)'
      BY <2>1, <2>2, <2>3, <2>8, CopiesRight
    <3>2. ASSUME NEW m \in (SeDs \cup {Root}) \ {call[t].node}, Covered(t, m)'
          PROVE  Fresh(t, m)'
      <4>1. CASE m = add[t].dest /\ pc'[t] \in {"lock", "child"}
        <5>1. Fresh(t, add[t].dest)' \/ add'[t].dest # add[t].dest
          BY <2>1, <2>2, <2>3, <2>8, <4>1, AddReturnsNew
        <5>2. add'[t].dest = add[t].dest
          BY <1>t, <2>8, AddsIs DEF SameAdd
        <5> QED
          BY <4>1, <5>1, <5>2 DEF Fresh
      <4> QED
        BY <1>t, <2>5, <2>8, <3>2, <4>1, AddCovers
    <3> QED
      BY <2>1, <2>4, <3>1, <3>2
  <2>9. CASE call[t].up /\ Uses(t)
    <3>1. pc[t] = "lcl"
      BY <1>t, <2>9, UsesIs DEF FlowAt, Over, WalkPcs, AddPcs, UsePcs
    <3>2. CallerFails(t)
      BY <2>9, <3>1 DEF Uses, LclPresentAgain, GetDesc, Use, Solve, Replace, Uploaded
    <3>3. pc'[t] \in {"failed", "dead"}
      BY <1>t, <3>2, FailsIs
    <3> QED
      BY <2>4, <3>3 DEF CopyRight, Covered, AddPcs
  <2> QED
    BY <2>1, <2>3, <2>6, <2>7, <2>8, <2>9 DEF Step
<1> QED
  BY <1>1, <1>2

\* Nothing is written yet when the platform starts.
LEMMA UpdateInvInit == Init => UpdateInv
<1> SUFFICES ASSUME Init PROVE UpdateInv
  OBVIOUS
<1>1. children = SeDs
  BY DEF Init
<1>2. ASSUME NEW t \in Thread PROVE ~Updating(t)
  <2>1. call[t].up = FALSE /\ pc[t] = "idle"
    BY DEF Init
  <2> QED
    BY <2>1 DEF Updating
<1> QED
  BY <1>1, <1>2 DEF UpdateInv, ChildInv, UpdateAt

LEMMA UpdateInvNext == ReadInv /\ FlowInv /\ UpdateInv /\ [Next]_vars => UpdateInv'
<1> SUFFICES ASSUME ReadInv, FlowInv, UpdateInv, [Next]_vars PROVE UpdateInv'
  OBVIOUS
<1>1. LockInv /\ FrameTypes /\ FlowInv'
  BY FlowInvNext DEF ReadInv, LockInv
<1>2. CASE UNCHANGED vars
  <2>1. /\ children' = children /\ alive' = alive
        /\ data' = data /\ status' = status /\ pc' = pc /\ call' = call /\ add' = add
        /\ walk' = walk /\ read' = read /\ disturbed' = disturbed
    BY <1>2 DEF vars, store, platform, frames, history
  <2>2. ChildInv'
    BY <2>1 DEF UpdateInv, ChildInv, AllAlive
  <2>3. ASSUME NEW t \in Thread PROVE UpdateAt(t)'
    <3>1. Updating(t)' => Updating(t)
      BY <2>1 DEF Updating, AllAlive, Whole
    <3>2. UpdateAt(t)
      BY DEF UpdateInv
    <3>3. /\ HasNew(t) => HasNew(t)'
          /\ CopyRight(t) => CopyRight(t)'
      BY <2>1 DEF HasNew, CopyRight, IsNew, Whole, Clean
    <3>4. ASSUME NEW m PROVE /\ Covered(t, m)' => Covered(t, m)
                             /\ Fresh(t, m) => Fresh(t, m)'
      BY <2>1 DEF Covered, Fresh, IsNew, Whole, Clean, isDataPresent
    <3> QED
      BY <2>1, <3>1, <3>2, <3>3, <3>4 DEF UpdateAt
  <2> QED
    BY <2>2, <2>3 DEF UpdateInv
<1>3. ASSUME NEW n \in SeDs, Crash(n) PROVE UpdateInv'
  <2>1. ~alive'[n] /\ n \in Node
    BY <1>1, <1>3, Nodes DEF Crash, FrameTypes
  <2>2. ~AllAlive'
    BY <2>1 DEF AllAlive
  <2> QED
    BY <2>2 DEF UpdateInv, ChildInv, UpdateAt, Updating
<1>4. ASSUME NEW t \in Thread, Start(t) \/ Step(t) PROVE UpdateInv'
  <2>1. Footprint(t)
    BY <1>1, <1>4, ThreadKeepsLocks
  <2>2. ChildInv'
    <3> SUFFICES ASSUME AllAlive' PROVE children' = SeDs
      BY DEF ChildInv
    <3>1. \A m \in Node : alive'[m]
      BY DEF AllAlive
    <3>2. AllAlive
      BY <2>1, <3>1 DEF AllAlive, Footprint, AliveStep
    <3> QED
      BY <1>1, <1>4, <3>2, ChildrenStay DEF UpdateInv, ChildInv
  <2>3. UpdateAt(t)'
    BY <1>4, <2>1, OwnStepKeepsUpdate DEF UpdateInv, FlowInv
  <2>4. ASSUME NEW u \in Thread \ {t} PROVE UpdateAt(u)'
    <3>1. FlowAt(t) /\ FlowAt(t)' /\ UpdateAt(u)
      BY <1>1 DEF FlowInv, UpdateInv
    <3> QED
      BY <1>4, <2>1, <3>1, OthersKeepUpdate
  <2> QED
    BY <2>2, <2>3, <2>4 DEF UpdateInv
<1> QED
  BY <1>2, <1>3, <1>4 DEF Next

\* Once an INOUT call is over, every replica has the version it wrote, unless
\* another call was about the datum, the replica was evicted while it was
\* refreshed or refreshed from one that was, or a process crashed:
\* pfmUpdateData() reaches every data manager.
THEOREM UpdatesArrive == Spec => []UpdatesReachAll
<1>1. ReadInv /\ FlowInv /\ UpdateInv => UpdatesReachAll
  <2> SUFFICES ASSUME ReadInv, FlowInv, UpdateInv, NEW t \in Thread,
                      pc[t] = "done", call[t].op = "INOUT", Whole(read[t], call[t].dat),
                      \A u \in Thread \ {t} : pc[u] = "idle" \/ call[u].dat # call[t].dat,
                      AllAlive, NEW m \in SeDs \cup {Root},
                      isDataPresent(m, call[t].dat), data[m][call[t].dat].desc,
                      Clean(m, call[t].dat)
               PROVE  IsNew(t, data[m][call[t].dat].value)
    BY DEF UpdatesReachAll, IsNew, AllAlive, Clean
  <2>t. FrameTypes
    BY DEF ReadInv, LockInv
  <2>1. call[t].up
    BY DEF FlowInv, FlowAt
  <2>2. Updating(t)
    BY <2>1 DEF Updating
  <2>3. HasNew(t) /\ (m # call[t].node /\ Covered(t, m) => Fresh(t, m))
    BY <2>2 DEF UpdateInv, UpdateAt
  <2>4. CASE m # call[t].node
    BY <2>3, <2>4 DEF Covered, Fresh
  <2>5. CASE m = call[t].node
    <3> DEFINE d == call[t].dat
    <3>1. d \in Data /\ m \in Node
      BY <2>t, FrameFields, Nodes
    <3>2. Busy(m, d) = {}
      <4>1. ASSUME NEW u \in Busy(m, d) PROVE FALSE
        <5>1. u \in Thread /\ call[u].dat = d /\ pc[u] \notin {"idle", "done"}
          BY <4>1 DEF Busy, Writers, Borrowers
        <5> QED
          BY <5>1
      <4> QED
        BY <4>1
    <3>3. data[m][d].value # <<>>
      <4>1. Readable(m, d) /\ alive[m]
        BY <3>1 DEF ReadInv, PairInv, AllAlive
      <4>2. Whole(data[m][d].value, d)
        <5>1. Borrowers(m, d) = {}
          BY <3>2 DEF Busy
        <5> QED
          BY <4>1, <5>1 DEF Readable
      <4>3. Len(data[m][d].value) = Size[d] /\ Size[d] \in Nat \ {0}
        BY <3>1, <4>2, DagdaAssumption DEF Whole
      <4> QED
        BY <4>3
    <3> QED
      BY <2>3, <2>5, <3>3 DEF HasNew, isDataPresent
  <2> QED
    BY <2>4, <2>5
<1>2. Init => ReadInv /\ FlowInv /\ UpdateInv
  BY ReadInvInit, FlowInvInit, UpdateInvInit
<1>3. ReadInv /\ FlowInv /\ UpdateInv /\ [Next]_vars => (ReadInv /\ FlowInv /\ UpdateInv)'
  BY ReadInvNext, FlowInvNext, UpdateInvNext DEF ReadInv
<1> QED
  BY <1>1, <1>2, <1>3, PTL DEF Spec
=============================================================================
