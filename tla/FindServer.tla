----------------------------- MODULE FindServer -----------------------------
(***************************************************************************)
(* Requests in an agent: MasterAgentImpl::submit_local(), findServer() and *)
(* getResponse() of AgentImpl.cc, Request.cc, and the children that answer *)
(* (SeDImpl::getRequest(), LocalAgentImpl::getRequest()).  getRequest and  *)
(* getResponse are oneway calls.  Each request and each response has a     *)
(* thread of the agent, beside those that change the children (Agent).     *)
(* Faults: a child dies, a ping fails although the child lives, and the    *)
(* condition variable wakes its thread without a signal.                   *)
(***************************************************************************)
EXTENDS Agent

CONSTANTS
  ReqID,
  Wanted,      \* the service each request is about
  MaxFaults    \* bound: faults

ASSUME FindServerAssumption == MaxFaults \in Nat

VARIABLES
  req,         \* each request: its thread, the children it has still to
               \* contact, the slot SrvTmc points to, the child that failed,
               \* nbWaitedSonsResponse, the children whose response is stored
  reqList,     \* requests the agent knows
  calls,       \* getRequest to a child, getResponse to the agent and in it
  dead,
  faults,      \* faults so far
  disturbed,   \* history: the table changed while they contacted children
  unanswered,  \* history: a child they wait for will not answer
  early        \* history: woken without a signal

reqVars == <<req, reqList, calls>>
envVars == <<dead, faults, disturbed, unanswered, early>>
vars == <<agentVars, reqVars, envVars>>

Init ==
  /\ AgentInit
  /\ req = [r \in ReqID |-> [pc |-> "idle", todo |-> <<>>, slot |-> 0,
       peer |-> None, contacted |-> {}, nbWaited |-> 0, responses |-> {},
       signalled |-> FALSE]]
  /\ reqList = {} /\ calls = {} /\ dead = {} /\ faults = 0
  /\ disturbed = {} /\ unanswered = {} /\ early = {}

\* Threads between the copy of the children and waitResponses(); they hold
\* the mutex of their request.
Contacting == {r \in ReqID : req[r].pc \in {"send", "drop"}}
Goto(r, pc) == req' = [req EXCEPT ![r].pc = pc]

\* A change of the table by another thread, while r contacts children.
Disturbs(others) ==
  disturbed' = IF SrvT' = SrvT THEN disturbed ELSE disturbed \cup others
-----------------------------------------------------------------------------
(* The thread of a request. *)

\* The scheduler is chosen from the profile; without a service the client
\* gets an empty response.
submit_local(r) ==
  /\ ~crashed /\ req[r].pc = "idle" /\ srvTMutex = "free"
  /\ Goto(r, IF lookupService(SrvT, Wanted[r]) = 0 THEN "done" ELSE "chosen")
  /\ UNCHANGED <<agentVars, reqList, calls, envVars>>

\* findServer() up to the copy of the matching children.  A count that has
\* wrapped around makes the copy fail: the allocation throws with srvTMutex
\* locked, or the copy leaves the array.
findServer(r) ==
  LET ref == lookupService(SrvT, Wanted[r])
  IN  /\ ~crashed /\ req[r].pc = "chosen" /\ srvTMutex = "free"
      /\ reqList' = reqList \cup {r}
      /\ IF ref = 0
           THEN Goto(r, "returned") /\ UNCHANGED <<srvTMutex, crashed>>
         ELSE IF Overruns(SrvT, ref)
           THEN /\ Goto(r, "thrown")
                /\ \/ srvTMutex' = "kept" /\ UNCHANGED crashed
                   \/ crashed' = TRUE /\ UNCHANGED srvTMutex
         ELSE /\ req' = [req EXCEPT ![r].pc = "send", ![r].slot = ref,
                                    ![r].todo = SrvT[ref].children]
              /\ UNCHANGED <<srvTMutex, crashed>>
      /\ UNCHANGED <<listVars, SrvT, kid, changes, historyVars, calls, envVars>>

Next1(r) == Head(req[r].todo)
Skipped(r) == req' = [req EXCEPT ![r].todo = Tail(@)]

\* sendRequest(): the child answers the ping and gets the request.
Contact(r) ==
  /\ ~crashed /\ req[r].pc = "send" /\ req[r].todo # <<>>
  /\ ChildOf(Next1(r)) \notin dead \cup {None}
  /\ calls' = calls \cup {<<r, ChildOf(Next1(r)), "child">>}
  /\ req' = [req EXCEPT ![r].todo = Tail(@),
                        ![r].contacted = @ \cup {ChildOf(Next1(r))}]
  /\ UNCHANGED <<agentVars, reqList, envVars>>

\* The child is not in the vectors: a warning.  If it is listed for the
\* service it is counted all the same.
UnknownChild(r) ==
  /\ ~crashed /\ req[r].pc = "send" /\ req[r].todo # <<>>
  /\ ChildOf(Next1(r)) = None
  /\ Skipped(r)
  /\ unanswered' = IF Lists(SrvT, Wanted[r], Next1(r))
                     THEN unanswered \cup {r} ELSE unanswered
  /\ UNCHANGED <<agentVars, reqList, calls, dead, faults, disturbed, early>>

\* COMM_FAILURE or TRANSIENT, from a dead child or from the network.
PingFails(r) ==
  /\ ~crashed /\ req[r].pc = "send" /\ req[r].todo # <<>>
  /\ ChildOf(Next1(r)) # None
  /\ \/ ChildOf(Next1(r)) \in dead /\ UNCHANGED faults
     \/ faults < MaxFaults /\ faults' = faults + 1
  /\ req' = [req EXCEPT ![r].pc = "drop", ![r].peer = ChildOf(Next1(r))]
  /\ UNCHANGED <<agentVars, reqList, calls, dead, disturbed, unanswered, early>>

\* Another exception: a warning, and the child is counted like the others.
SendFails(r) ==
  /\ ~crashed /\ req[r].pc = "send" /\ req[r].todo # <<>>
  /\ ChildOf(Next1(r)) # None
  /\ faults < MaxFaults /\ faults' = faults + 1
  /\ Skipped(r)
  /\ unanswered' = unanswered \cup {r}
  /\ UNCHANGED <<agentVars, reqList, calls, dead, disturbed, early>>

\* Mutant: the child is undefined but stays in the service table.
DropChild_Listed(r) ==
  /\ ~crashed /\ req[r].pc = "drop" /\ srvTMutex = "free"
  /\ Undefine(Kinds(req[r].peer), Next1(r))
  /\ req' = [req EXCEPT ![r].pc = "send", ![r].todo = Tail(@)]
  /\ UNCHANGED <<childIDCounter, tableVars, kid, changes, historyVars, reqList,
                 calls, envVars>>

\* The child leaves the table and its vector.
DropChild(r) ==
  LET id == Next1(r)
  IN  /\ ~crashed /\ req[r].pc = "drop" /\ srvTMutex = "free"
      /\ IF \E i \in DOMAIN SrvT : Overruns(SrvT, i)
           THEN crashed' = TRUE /\ UNCHANGED <<SrvT, children, nbChildren>>
           ELSE SrvT' = rmChild(SrvT, id) /\ Undefine(Kinds(req[r].peer), id)
      /\ dropped' = dropped \cup {id}
      /\ req' = [req EXCEPT ![r].pc = "send", ![r].todo = Tail(@)]
      /\ Disturbs(Contacting \ {r})
      /\ UNCHANGED <<childIDCounter, srvTMutex, kid, changes, confused, shrunk,
                     stale, reqList, calls, dead, faults, unanswered, early>>

\* Mutant: one child too few is counted.
CountChildren_OneShort(r) ==
  LET slot == req[r].slot
      n == IF slot > Len(SrvT) \/ SrvT[slot].nb_children = 0
             THEN 0 ELSE SrvT[slot].nb_children - 1
  IN  /\ ~crashed /\ req[r].pc = "send" /\ req[r].todo = <<>> /\ srvTMutex = "free"
      /\ req' = [req EXCEPT ![r].pc = IF n = 0 THEN "returned" ELSE "wait",
                            ![r].nbWaited = n]
      /\ UNCHANGED <<agentVars, reqList, calls, envVars>>

\* nb_children is read again through SrvTmc, from whatever service is in the
\* slot by now; a free slot holds 0.  It becomes an int, which the assertion
\* of waitResponses() finds negative when the count has wrapped around.
CountChildren(r) ==
  LET slot == req[r].slot
      n == IF slot > Len(SrvT) THEN 0 ELSE SrvT[slot].nb_children
  IN  /\ ~crashed /\ req[r].pc = "send" /\ req[r].todo = <<>> /\ srvTMutex = "free"
      /\ crashed' = (slot <= Len(SrvT) /\ Overruns(SrvT, slot))
      /\ req' = [req EXCEPT ![r].pc = IF n = 0 THEN "returned" ELSE "wait",
                            ![r].nbWaited = n]
      /\ UNCHANGED <<listVars, tableVars, kid, changes, historyVars, reqList,
                     calls, envVars>>

\* gatheringEnded->wait() returns; no loop tests the count again.
Wake(r) ==
  /\ ~crashed /\ req[r].pc = "wait"
  /\ \/ req[r].signalled /\ UNCHANGED <<faults, early>>
     \/ /\ ~req[r].signalled /\ faults < MaxFaults
        /\ faults' = faults + 1 /\ early' = early \cup {r}
  /\ Goto(r, "returned")
  /\ UNCHANGED <<agentVars, reqList, calls, dead, disturbed, unanswered>>

\* The caller of findServer() forgets the request and deletes it.
Finish(r) ==
  /\ ~crashed /\ req[r].pc = "returned"
  /\ reqList' = reqList \ {r}
  /\ Goto(r, "done")
  /\ UNCHANGED <<agentVars, calls, envVars>>
-----------------------------------------------------------------------------
(* Responses. *)

\* getRequest() of a child.  One that has no parent any more cannot answer.
Answer(r, c) ==
  /\ <<r, c, "child">> \in calls /\ c \notin dead
  /\ IF kid[c].pc \notin {"out", "refused"}
       THEN /\ calls' = (calls \ {<<r, c, "child">>}) \cup {<<r, c, "agent">>}
            /\ UNCHANGED unanswered
       ELSE /\ calls' = calls \ {<<r, c, "child">>}
            /\ unanswered' = unanswered \cup {r}
  /\ UNCHANGED <<agentVars, req, reqList, dead, faults, disturbed, early>>

\* getResponse() reads the pointer to the request ...
getResponse(r, c) ==
  /\ ~crashed /\ <<r, c, "agent">> \in calls
  /\ calls' = (calls \ {<<r, c, "agent">>}) \cup
                (IF r \in reqList THEN {<<r, c, "lock">>} ELSE {})
  /\ UNCHANGED <<agentVars, req, reqList, envVars>>

\* Mutant: the last response but one wakes the thread.
addResponse_OneShort(r, c) ==
  /\ ~crashed /\ <<r, c, "lock">> \in calls /\ r \notin Contacting
  /\ calls' = calls \ {<<r, c, "lock">>}
  /\ IF req[r].nbWaited = 0 THEN UNCHANGED req
     ELSE req' = [req EXCEPT ![r].responses = @ \cup {c},
            ![r].nbWaited = @ - 1, ![r].signalled = req[r].nbWaited <= 2]
  /\ UNCHANGED <<agentVars, reqList, envVars>>

\* Mutant: the count is tested before it goes down, so nothing is signalled.
addResponse_TestedFirst(r, c) ==
  /\ ~crashed /\ <<r, c, "lock">> \in calls /\ r \notin Contacting
  /\ calls' = calls \ {<<r, c, "lock">>}
  /\ IF req[r].nbWaited = 0 THEN req' = [req EXCEPT ![r].signalled = TRUE]
     ELSE req' = [req EXCEPT ![r].responses = @ \cup {c}, ![r].nbWaited = @ - 1]
  /\ UNCHANGED <<agentVars, reqList, envVars>>

\* ... and uses it once it has the mutex.  The assertion fails when no
\* response is expected, or none yet.  A request that is gone is freed memory.
addResponse(r, c) ==
  /\ ~crashed /\ <<r, c, "lock">> \in calls /\ r \notin Contacting
  /\ calls' = calls \ {<<r, c, "lock">>}
  /\ IF req[r].pc = "done"
       THEN UNCHANGED req /\ crashed' \in BOOLEAN
     ELSE IF req[r].nbWaited = 0
       THEN UNCHANGED req /\ crashed' = TRUE
     ELSE /\ req' = [req EXCEPT ![r].responses = @ \cup {c},
               ![r].nbWaited = @ - 1, ![r].signalled = req[r].nbWaited = 1]
          /\ UNCHANGED crashed
  /\ UNCHANGED <<listVars, tableVars, kid, changes, historyVars, reqList,
                 envVars>>

\* The process of a subscribed child ends, with the requests it has.
Die(c) ==
  /\ faults < MaxFaults /\ kid[c].pc = "in" /\ c \notin dead
  /\ faults' = faults + 1 /\ dead' = dead \cup {c}
  /\ unanswered' = unanswered \cup {r \in ReqID : <<r, c, "child">> \in calls}
  /\ calls' = {x \in calls : x[2] # c \/ x[3] # "child"}
  /\ UNCHANGED <<agentVars, req, reqList, disturbed, early>>
-----------------------------------------------------------------------------
\* A child that lives changes the agent.
ChildStep(A(_), c) ==
  /\ c \notin dead /\ A(c)
  /\ Disturbs(Contacting)
  /\ UNCHANGED <<reqVars, dead, faults, unanswered, early>>

Changing(c) ==
  \/ ChildStep(TakeNumber, c) \/ ChildStep(AddService, c)
  \/ ChildStep(childRemoveService, c) \/ ChildStep(childUnsubscribe, c)

Serving(r) ==
  \/ submit_local(r) \/ findServer(r) \/ Contact(r) \/ UnknownChild(r)
  \/ PingFails(r) \/ SendFails(r) \/ DropChild(r) \/ CountChildren(r) \/ Wake(r)
  \/ Finish(r)

Responding(r, c) == Answer(r, c) \/ getResponse(r, c) \/ addResponse(r, c)

Next ==
  \/ \E c \in Child : Changing(c) \/ ChildStep(Calling, c) \/ Die(c)
  \/ \E r \in ReqID : Serving(r)
  \/ \E r \in ReqID, c \in Child : Responding(r, c)

\* Some thread that can get on does: a thread of the agent, or a child that
\* has a request.  No thread has more than finitely many steps, so none is left
\* behind.  Nothing forces a child to change or a fault to happen.
Progress ==
  /\ \/ \E r \in ReqID : Serving(r)
     \/ \E r \in ReqID, c \in Child : Responding(r, c)
     \/ \E c \in Child : ChildStep(Calling, c)
  /\ faults' = faults

Fairness == WF_vars(Progress)

Spec == Init /\ [][Next]_vars
FairSpec == Spec /\ Fairness
-----------------------------------------------------------------------------
Service == {Wanted[r] : r \in ReqID} \cup Offers

\* The table lists a subscribed child for exactly the services it offers, and
\* one that has left for none, with true counts, whatever calls of children
\* and failures came before.  Exceptions: the agent dropped the child after a
\* failed ping, or rmChildService() was called for a child not listed.
TableAgreesWithChildren ==
  srvTMutex = "free" /\ ~crashed /\ ~confused =>
    /\ \A c \in Child, s \in Service :
         /\ kid[c].pc = "in" /\ kid[c].id \notin dropped =>
              (Lists(SrvT, s, kid[c].id) <=> Contains(kid[c].profiles, s))
         /\ kid[c].pc \in {"out", "leaving"} => ~Lists(SrvT, s, kid[c].id)
    /\ \A i \in DOMAIN SrvT :
         /\ SrvT[i].nb_children = Len(SrvT[i].children)
         /\ lookupService(SrvT, SrvT[i].profile) = i

\* A child in the service table can be reached: its vector has its entry.
\* Exceptions: it was dropped before, resize() cut entries off, or it moved the
\* vector while the entry was being written.
ListedAreReachable ==
  \A i \in DOMAIN SrvT : \A id \in ToSet(SrvT[i].children) :
     id \in dropped \cup stale \/ shrunk \/ ChildOf(id) # None

\* findServer() aggregates the responses of all the children it contacted, if
\* the table kept still meanwhile and it was not woken for nothing; a child
\* that cannot answer keeps it waiting.
GatheredUnlessDisturbed ==
  \A r \in ReqID : req[r].pc \in {"returned", "done"} =>
     \/ req[r].responses = req[r].contacted
     \/ r \in disturbed \cup early

\* The agent's assertions hold, and it uses no request that is gone, unless the
\* table changed under a request, a thread was woken for nothing, a service
\* was removed for a child not listed, or resize() cut entries off or moved them
\* under a reference.
AgentDiesOnlyWhen ==
  crashed => disturbed \cup early \cup stale # {} \/ confused \/ shrunk

\* Every request that reaches the agent comes back, unless the agent is dead,
\* srvTMutex stays locked, the table changed while the request contacted its
\* children, or one of them will not answer.
RequestsReturn ==
  \A r \in ReqID : req[r].pc # "idle" ~>
     \/ req[r].pc = "done"
     \/ crashed \/ srvTMutex = "kept" \/ r \in disturbed \cup unanswered
=============================================================================
