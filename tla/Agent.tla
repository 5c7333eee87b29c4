------------------------------- MODULE Agent --------------------------------
(***************************************************************************)
(* The children of an agent (src/agent/AgentImpl.cc): SeDs and local       *)
(* agents subscribe, add and remove services and unsubscribe, each in a    *)
(* thread of the agent's ORB.  srvTMutex makes a section over the service  *)
(* table one step; the vectors of children and childIDCounter have locks   *)
(* of their own, held for one call at a time.  Assertions are compiled in. *)
(***************************************************************************)
EXTENDS ServiceTable, FiniteSets

CONSTANTS
  LAs, SeDs,     \* the children
  Offered,       \* the services a child subscribes with, in order
  Extra,         \* the services a child may add later
  Aggregator,    \* the aggregator a child declares for a service
  MaxSubs,       \* bound: subscriptions
  MaxChanges,    \* bound: services added or removed, and departures
  None

Child == LAs \cup SeDs
Kind == {"LA", "SeD"}
Kinds(c) == IF c \in LAs THEN "LA" ELSE "SeD"

Offers == UNION {ToSet(Offered[c]) \cup Extra[c] : c \in Child}

\* A child has a service once in its own table (ServiceTable::addService()).
ASSUME AgentAssumption ==
  /\ IsFiniteSet(Child) /\ LAs \cap SeDs = {} /\ None \notin Child
  /\ \A c \in Child : Offered[c] \in Seq(Offers) /\ IsInjective(Offered[c])
  /\ MaxSubs \in Nat /\ MaxChanges \in Nat /\ MaxSubs < ULongSize

VARIABLES
  childIDCounter,
  children,        \* LAChildren and SeDChildren; entry id + 1 is child id
  nbChildren,      \* nbLAChildren and nbSeDChildren
  SrvT,
  srvTMutex,       \* "free", or "kept" by a call that returned without unlocking
  kid,             \* each child: its call, its number, its own services
  crashed,
  changes,         \* changes so far
  dropped,         \* history: numbers removed after a communication failure
  confused,        \* history: a service was removed for a child not listed
  shrunk,          \* history: resize() cut entries off a vector
  stale            \* numbers whose entry resize() moved before it was written

listVars == <<childIDCounter, children, nbChildren>>
tableVars == <<SrvT, srvTMutex>>
historyVars == <<dropped, confused, shrunk, stale>>
agentVars == <<listVars, tableVars, kid, crashed, changes, historyVars>>

AgentInit ==
  /\ childIDCounter = 0
  /\ children = [k \in Kind |-> <<>>] /\ nbChildren = [k \in Kind |-> 0]
  /\ SrvT = <<>> /\ srvTMutex = "free"
  /\ kid = [c \in Child |->
              [pc |-> "out", id |-> -1, size |-> 0, profiles |-> Offered[c]]]
  /\ crashed = FALSE /\ changes = 0
  /\ dropped = {} /\ confused = FALSE /\ shrunk = FALSE /\ stale = {}

\* The child an entry defines, if any.
Defined(k, id) == id < Len(children[k]) /\ children[k][id + 1] # None
ChildOf(id) ==
  IF Defined("LA", id) THEN children["LA"][id + 1]
  ELSE IF Defined("SeD", id) THEN children["SeD"][id + 1] ELSE None

Step(c, from, to) ==
  /\ ~crashed /\ kid[c].pc = from
  /\ kid' = [kid EXCEPT ![c].pc = to]

\* The entry becomes undefined and the counter goes down, which it asserts it
\* can.  (sendRequest() and childUnsubscribe() have a reference to the entry, too;
\* that resize() may move the entry under theirs is left out.)
Undefine(k, id) ==
  /\ children' = [children EXCEPT ![k] =
                    IF id < Len(@) THEN ReplaceAt(@, id + 1, None) ELSE @]
  /\ nbChildren' = [nbChildren EXCEPT ![k] = IF @ > 0 THEN @ - 1 ELSE @]
  /\ crashed' = (id >= Len(children[k]) \/ nbChildren[k] = 0)
-----------------------------------------------------------------------------
(* agentSubscribe() and serverSubscribe(). *)

TakeNumber(c) ==
  /\ ~crashed /\ kid[c].pc = "out" /\ childIDCounter < MaxSubs
  /\ kid' = [kid EXCEPT ![c].pc = "numbered", ![c].id = childIDCounter]
  /\ childIDCounter' = childIDCounter + 1
  /\ UNCHANGED <<children, nbChildren, tableVars, crashed, changes,
                 historyVars>>

\* The argument of resize() is read before its lock is taken.
ReadCounter(c) ==
  /\ ~crashed /\ kid[c].pc = "numbered"
  /\ kid' = [kid EXCEPT ![c].pc = "sized", ![c].size = childIDCounter]
  /\ UNCHANGED <<listVars, tableVars, crashed, changes, historyVars>>

Resized(v, n) == [i \in 1..n |-> IF i <= Len(v) THEN v[i] ELSE None]

\* The numbers of the children of a kind that hold a reference to their entry.
Referenced(k) == {kid[d].id : d \in {d \in Child : Kinds(d) = k
                                                  /\ kid[d].pc = "entry"}}

\* A vector that grows may move its entries, as its capacity has it.
Resize(c) ==
  LET k == Kinds(c)
  IN  /\ Step(c, "sized", "resized")
      /\ children' = [children EXCEPT ![k] = Resized(@, kid[c].size)]
      /\ shrunk' = (shrunk \/ kid[c].size < Len(children[k]))
      /\ \/ UNCHANGED stale
         \/ kid[c].size > Len(children[k]) /\ stale' = stale \cup Referenced(k)
      /\ UNCHANGED <<childIDCounter, nbChildren, tableVars, crashed, changes,
                     dropped, confused>>

\* operator[] asserts that the entry exists, and returns a reference to it once
\* it has given the lock of the vector back.
FindEntry(c) ==
  /\ Step(c, "resized", "entry")
  /\ crashed' = (kid[c].id >= Len(children[Kinds(c)]))
  /\ UNCHANGED <<listVars, tableVars, changes, historyVars>>

\* The entry is written without a lock.  Where it was, there may be none by
\* now: then it is lost, or the process dies.
SetChild(c) ==
  /\ Step(c, "entry", "set")
  /\ IF kid[c].id \in stale \/ kid[c].id >= Len(children[Kinds(c)])
       THEN crashed' \in BOOLEAN /\ UNCHANGED children
       ELSE /\ children' = [children EXCEPT ![Kinds(c)][kid[c].id + 1] = c]
            /\ UNCHANGED crashed
  /\ nbChildren' = [nbChildren EXCEPT ![Kinds(c)] = @ + 1]
  /\ UNCHANGED <<childIDCounter, tableVars, changes, historyVars>>

\* The loop of addServices(), acc[n] after n services: a mismatch drops the
\* child and ends it.
AddOne(acc, c, s) ==
  IF ~acc.ok THEN acc
  ELSE IF Mismatch(acc.tab, s, Aggregator[c][s])
         THEN [tab |-> rmChild(acc.tab, kid[c].id), ok |-> FALSE]
       ELSE [tab |-> addService(acc.tab, s, Aggregator[c][s], kid[c].id), ok |-> TRUE]

AddAll(T, c, ss) ==
  LET acc[n \in 0 .. Len(ss)] ==
        IF n = 0 THEN [tab |-> T, ok |-> TRUE] ELSE AddOne(acc[n - 1], c, ss[n])
  IN  acc[Len(ss)]

\* The return after a mismatch leaves srvTMutex locked.
addServices(c, ss) ==
  LET added == AddAll(SrvT, c, ss)
  IN  IF \/ \E s \in ToSet(ss) : Overruns(SrvT, lookupService(SrvT, s))
         \/ ~added.ok /\ \E i \in DOMAIN SrvT : Overruns(SrvT, i)
        THEN crashed' = TRUE /\ UNCHANGED tableVars
        ELSE /\ SrvT' = added.tab
             /\ srvTMutex' = IF added.ok THEN "free" ELSE "kept"
             /\ UNCHANGED crashed

Refuses(c, ss) == ~AddAll(SrvT, c, ss).ok

\* The child that is refused gets -1 and forgets its parent.
Subscribed(c) ==
  /\ srvTMutex = "free"
  /\ IF Refuses(c, kid[c].profiles)
       THEN Step(c, "set", "refused") ELSE Step(c, "set", "in")
  /\ addServices(c, kid[c].profiles)
  /\ UNCHANGED <<listVars, changes, historyVars>>
-----------------------------------------------------------------------------
(* Changes a subscribed child makes. *)

Change(c) ==
  /\ ~crashed /\ kid[c].pc = "in" /\ srvTMutex = "free" /\ changes < MaxChanges
  /\ changes' = changes + 1

\* SeDImpl::addService(), and LocalAgentImpl::addServices() of a child LA.
AddService(c) ==
  \E s \in Extra[c] \ ToSet(kid[c].profiles) :
    /\ Change(c)
    /\ kid' = [kid EXCEPT ![c].profiles = Append(@, s)]
    /\ addServices(c, <<s>>)
    /\ UNCHANGED <<listVars, historyVars>>

\* rmChildService() for each service of a child, in one section.
RemoveAll(c, ss) ==
  IF \E s \in ToSet(ss) : Overruns(SrvT, lookupService(SrvT, s))
    THEN crashed' = TRUE /\ UNCHANGED SrvT
    ELSE /\ SrvT' = rmChildServices(SrvT, ss, kid[c].id)
         /\ \/ UNCHANGED crashed
            \/ /\ \E s \in ToSet(ss) : lookupService(SrvT, s) = 0
               /\ crashed' = TRUE

Unlisted(c, ss) == \E s \in ToSet(ss) : ~Lists(SrvT, s, kid[c].id)

childRemoveService(c) ==
  \E s \in ToSet(kid[c].profiles) :
    /\ Change(c)
    /\ kid' = [kid EXCEPT ![c].profiles = Without(@, s)]
    /\ RemoveAll(c, <<s>>)
    /\ confused' = (confused \/ Unlisted(c, <<s>>))
    /\ UNCHANGED <<listVars, srvTMutex, dropped, shrunk, stale>>

\* childUnsubscribe(): the table first, then the vector.
childUnsubscribe(c) ==
  /\ Change(c)
  /\ kid' = [kid EXCEPT ![c].pc = "leaving"]
  /\ RemoveAll(c, kid[c].profiles)
  /\ confused' = (confused \/ Unlisted(c, kid[c].profiles))
  /\ UNCHANGED <<listVars, srvTMutex, dropped, shrunk, stale>>

\* A number below the size of LAChildren is looked for there only, also when
\* it is the number of a SeD.
ForgetChild(c) ==
  LET id == kid[c].id
      k == IF id < Len(children["LA"]) THEN "LA" ELSE "SeD"
  IN  /\ Step(c, "leaving", "out")
      /\ IF Defined(k, id) THEN Undefine(k, id)
                           ELSE UNCHANGED <<children, nbChildren, crashed>>
      /\ UNCHANGED <<childIDCounter, tableVars, changes, historyVars>>

\* A child that waits for the answer of its call.
Calling(c) ==
  \/ ReadCounter(c) \/ Resize(c) \/ FindEntry(c) \/ SetChild(c)
  \/ Subscribed(c) \/ ForgetChild(c)
=============================================================================
