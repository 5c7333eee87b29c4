------------------------------- MODULE Flooding -------------------------------
(***************************************************************************)
(* One request that a federation of master agents floods, step by step,    *)
(* when the agent that got it finds no server below it (HAVE_MULTI_MA:     *)
(* MasterAgentImpl.cc, FloodRequest.cc, FloodRequestsList.cc).             *)
(*                                                                         *)
(* The calls between agents are oneway: a message is a call not yet        *)
(* served, and calls are served in any order, each on a thread of its own. *)
(* A handler that needs the FloodRequest takes it out of the agent's list  *)
(* with get(), which waits until it is there, and puts it back.            *)
(*                                                                         *)
(* The tag of a message says by whom and in which hop its request was sent *)
(* (of a stopFlooding, by which object): the code has no such field, and   *)
(* it is used only to tell calls apart.                                    *)
(***************************************************************************)
EXTENDS Integers, FiniteSets

CONSTANTS
  MA, Origin,    \* the master agents, and the one that a client calls
  Topologies,    \* the values of knownMAs: whom each agent has shaken hands with
  MaxHops,       \* flooded() gives up at this hop, 8 in the code: a bound for each topology
  MaxObjects,    \* bound on the FloodRequests that one agent makes
  MaxCrashes     \* bound on the agents that crash

ASSUME FloodingAssumption ==
  /\ IsFiniteSet(MA) /\ Origin \in MA
  /\ Topologies \subseteq [MA -> SUBSET MA]
  /\ \A top \in Topologies, m \in MA : m \notin top[m]
  /\ MaxHops \in [Topologies -> Nat \ {0}] /\ MaxObjects \in Nat \ {0}

VARIABLES
  knownMAs,   \* knownMAs[m]: the agents that m knows
  named,      \* the agents whose name in the naming service is their bind name
  offers,     \* the agents under which some server has the service
  reqIdList,  \* the agents whose reqIdList has the request
  obj,        \* obj[m][k]: the k-th FloodRequest object of agent m
  list,       \* list[m]: which of them floodRequestsList has, 0 for none
  msgs,       \* calls that are not served, and local searches under way
  newFloods,  \* the threads that are in newFlood()
  submit,     \* where the thread of the client's call is
  decision,   \* whether that thread has found servers
  alive,      \* alive[m]: the process runs
  late,       \* history: a wait ended by its timeout with answers still to come
  looped      \* history: some agent sent searchService() to the origin

fixed == <<knownMAs, named, offers>>
vars == <<fixed, reqIdList, obj, list, msgs, newFloods, submit, decision, alive,
          late, looped>>

------------------------------------------------------------------------------
(* FloodRequest *)

Nobody == "nobody"

\* life is "none" before the object is made and "freed" after its deletion;
\* found says that decisions is not empty.  near[x] is "NotContacted", "Flooding",
\* "Flooded" or "AlreadyContacted".
NoObject == [life |-> "none", pred |-> Nobody, hop |-> 0, waiting |-> 0, found |-> FALSE,
             near |-> [x \in MA |-> "NotContacted"]]

NewFloodRequest(m, pred) ==
  [NoObject EXCEPT !.life = "live", !.pred = pred,
     !.near = [x \in MA |-> IF x = pred THEN "AlreadyContacted" ELSE "NotContacted"]]

\* FloodRequestsList: put() keeps what is there, get() waits until there is one.
put(m, k) == [list EXCEPT ![m] = IF list[m] = 0 THEN k ELSE list[m]]
canGet(m) == alive[m] /\ list[m] # 0

Fresh(m) == {k \in 1 .. MaxObjects : /\ obj[m][k].life = "none"
                                     /\ \A j \in 1 .. k - 1 : obj[m][j].life # "none"}

flooded(m, o) ==
  o.hop >= MaxHops[knownMAs] \/ \A x \in knownMAs[m] : o.near[x] = "Flooded"

Msg(type, from, to, tag) == [type |-> type, from |-> from, to |-> to, tag |-> tag]

\* A call of a nil reference, as the predecessor of the origin's own request is,
\* or of an agent that is gone raises a SystemException and reaches nobody.
Call(type, from, to, tag) ==
  {Msg(type, from, x, tag) : x \in {y \in MA : y = to /\ alive[y]}}

\* The process of m ends: its threads and the calls that it has to serve go too.
Die(m) ==
  /\ alive' = [alive EXCEPT ![m] = FALSE]
  /\ msgs' = {x \in msgs : x.to # m}
  /\ newFloods' = {h \in newFloods : h.ma # m}
  /\ submit' = IF m = Origin THEN "aborted" ELSE submit
  /\ UNCHANGED <<fixed, reqIdList, obj, list, decision, late, looped>>

\* floodNextStep(): the object afterwards, the calls it makes, and what it
\* returns. A call to an agent that is gone raises a SystemException.
Contacted(m, o, s) == {x \in knownMAs[m] : o.near[x] = s /\ alive[x]}
Gone(m, o) == {x \in knownMAs[m] : o.near[x] \in {"NotContacted", "Flooding"} /\ ~alive[x]}

\* Mutant: the neighbours that only go on are not counted.
NextStepFirstOnly(m, o) ==
  [o EXCEPT !.hop = o.hop + 1,
            !.waiting = Cardinality(Contacted(m, o, "NotContacted")),
            !.near = [x \in MA |-> IF x \in Contacted(m, o, "NotContacted") THEN "Flooding"
                                   ELSE IF x \in Gone(m, o) THEN "Flooded"
                                   ELSE o.near[x]]]

NextStep(m, o) ==
  [o EXCEPT !.hop = o.hop + 1,
            !.waiting = Cardinality(Contacted(m, o, "NotContacted"))
                          + Cardinality(Contacted(m, o, "Flooding")),
            !.near = [x \in MA |-> IF x \in Contacted(m, o, "NotContacted") THEN "Flooding"
                                   ELSE IF x \in Gone(m, o) THEN "Flooded"
                                   ELSE o.near[x]]]

StepCalls(m, o) ==
  {Msg("searchService", m, x, <<m, o.hop + 1>>) : x \in Contacted(m, o, "NotContacted")}
  \cup {Msg("newFlood", m, x, <<m, o.hop + 1>>) : x \in Contacted(m, o, "Flooding")}

completelyFlooded(m, o) ==
  /\ Contacted(m, o, "NotContacted") = {}
  /\ \A x \in knownMAs[m] : o.near[x] # "Flooding"

\* Mutant: an area that is flooded is not told to stop.
StopFloodingOnly(m, o, k) ==
  {Msg("stopFlooding", m, x, <<m, k>>) :
     x \in {y \in knownMAs[m] : o.near[y] = "Flooding" /\ alive[y]}}

\* stopFlooding() tells every agent that was contacted, and wakes who waits.
StopCalls(m, o, k) ==
  {Msg("stopFlooding", m, x, <<m, k>>) :
     x \in {y \in knownMAs[m] : o.near[y] \in {"Flooding", "Flooded"} /\ alive[y]}}

\* The threads that wait on the condition of object k of agent m.
Sleeping(m, k) == {h \in newFloods : h.ma = m /\ h.obj = k /\ h.pc = "wait"}
OriginSleeps(m, k) == m = Origin /\ k = 1 /\ submit = "wait"

\* allResponseReceived->signal() wakes one sleeper; without one it is lost.
Awake(h) == (newFloods \ {h}) \cup {[h EXCEPT !.pc = "woken"]}

Signal(m, k) ==
  \/ OriginSleeps(m, k) /\ submit' = "woken" /\ UNCHANGED newFloods
  \/ \E h \in Sleeping(m, k) : newFloods' = Awake(h) /\ UNCHANGED submit
  \/ ~OriginSleeps(m, k) /\ Sleeping(m, k) = {} /\ UNCHANGED <<newFloods, submit>>

------------------------------------------------------------------------------
(* MasterAgentImpl::submit(), after its own search found nothing *)

SubmitFloods ==
  LET o == obj[Origin][1] IN
  /\ submit = "flood" /\ ~decision /\ ~flooded(Origin, o)
  /\ obj' = [obj EXCEPT ![Origin][1] = NextStep(Origin, o)]
  /\ msgs' = msgs \cup StepCalls(Origin, o)
  /\ submit' = IF completelyFlooded(Origin, o) THEN "flood" ELSE "put"
  /\ UNCHANGED <<fixed, reqIdList, list, newFloods, decision, alive, late, looped>>

\* The request goes into the list only once every call is made, and
\* assert(requestAdded) stops the agent when another one is there.
SubmitPuts ==
  /\ submit = "put"
  /\ IF list[Origin] = 0
       THEN /\ list' = put(Origin, 1)
            /\ submit' = "listed"
            /\ UNCHANGED <<fixed, reqIdList, obj, msgs, newFloods, decision,
                           alive, late, looped>>
       ELSE Die(Origin)

\* waitResponses() waits whatever has come in the meantime.
SubmitWaits ==
  /\ submit = "listed"
  /\ submit' = "wait"
  /\ UNCHANGED <<fixed, reqIdList, obj, list, msgs, newFloods, decision, alive, late,
                 looped>>

\* Mutant: wait() for timedwait().
NoTimeOut == FALSE /\ UNCHANGED vars

SubmitTimesOut ==
  /\ submit = "wait"
  /\ submit' = "woken"
  /\ late' = (late \/ obj[Origin][1].waiting > 0)
  /\ UNCHANGED <<fixed, reqIdList, obj, list, msgs, newFloods, decision, alive, looped>>

\* get() and getDecision(), which empties decisions.
SubmitGets ==
  /\ submit = "woken" /\ canGet(Origin)
  /\ list' = [list EXCEPT ![Origin] = 0]
  /\ decision' = obj[Origin][1].found
  /\ obj' = [obj EXCEPT ![Origin][1].found = FALSE]
  /\ submit' = "flood"
  /\ UNCHANGED <<fixed, reqIdList, msgs, newFloods, alive, late, looped>>

SubmitStops ==
  LET o == obj[Origin][1] IN
  /\ submit = "flood" /\ (decision \/ flooded(Origin, o))
  /\ msgs' = msgs \cup StopCalls(Origin, o, 1)
  /\ obj' = [obj EXCEPT ![Origin][1].life = "freed"]
  /\ submit' = "done"
  /\ IF o.waiting = 0 \/ Sleeping(Origin, 1) = {}
       THEN UNCHANGED newFloods
       ELSE \E h \in Sleeping(Origin, 1) : newFloods' = Awake(h)
  /\ UNCHANGED <<fixed, reqIdList, list, decision, alive, late, looped>>

------------------------------------------------------------------------------
(* What the agents serve *)

Serve(m, type) == m.type = type /\ alive[m.to]

\* searchService() looks up the caller by its bind name, where the naming service
\* has agents under their own names: an exception ends it when they differ. Of a
\* request that is new to reqIdList it makes a FloodRequest, ignores what put()
\* returns and begins the local search.
SearchService(m) ==
  /\ Serve(m, "searchService") /\ m.from \in named
  /\ looped' = (looped \/ m.to = Origin)
  /\ IF m.to \in reqIdList
       THEN /\ msgs' = (msgs \ {m}) \cup Call("alreadyContacted", m.to, m.from, m.tag)
            /\ UNCHANGED <<reqIdList, obj, list>>
       ELSE /\ reqIdList' = reqIdList \cup {m.to}
            /\ \E k \in Fresh(m.to) :
                 /\ obj' = [obj EXCEPT ![m.to][k] = NewFloodRequest(m.to, m.from)]
                 /\ list' = put(m.to, k)
            /\ msgs' = (msgs \ {m}) \cup {[m EXCEPT !.type = "submit_local"]}
  /\ UNCHANGED <<fixed, newFloods, submit, decision, alive, late>>

CallerUnknown(m) ==
  /\ Serve(m, "searchService") /\ m.from \notin named
  /\ msgs' = msgs \ {m}
  /\ UNCHANGED <<fixed, reqIdList, obj, list, newFloods, submit, decision,
                 alive, late, looped>>

\* submit_local(), and the answer to the predecessor.
SubmitLocal(m) ==
  /\ Serve(m, "submit_local")
  /\ msgs' = (msgs \ {m}) \cup
       Call(IF m.to \in offers THEN "serviceFound" ELSE "serviceNotFound", m.to, m.from, m.tag)
  /\ UNCHANGED <<fixed, reqIdList, obj, list, newFloods, submit, decision, alive, late,
                 looped>>

Answers == {"serviceNotFound", "floodedArea", "alreadyContacted", "serviceFound"}

\* Mutant: an answer replaces the decisions that are there.
AnsweredLast(o, m) ==
  [o EXCEPT !.waiting = o.waiting - 1,
            !.found = m.type = "serviceFound",
            !.near[m.from] = CASE m.type = "floodedArea" -> "Flooded"
                               [] m.type = "alreadyContacted" -> "AlreadyContacted"
                               [] OTHER -> o.near[m.from]]

\* What addResponse...() makes of the object.
Answered(o, m) ==
  [o EXCEPT !.waiting = o.waiting - 1,
            !.found = o.found \/ m.type = "serviceFound",
            !.near[m.from] = CASE m.type = "floodedArea" -> "Flooded"
                               [] m.type = "alreadyContacted" -> "AlreadyContacted"
                               [] OTHER -> o.near[m.from]]

\* Mutant: the last answer but one ends the wait.
ServeAnswerEarly(m) ==
  LET k == list[m.to]
      o == Answered(obj[m.to][k], m)
  IN
  /\ m.type \in Answers /\ canGet(m.to)
  /\ obj' = [obj EXCEPT ![m.to][k] = o]
  /\ IF o.waiting <= 1 THEN Signal(m.to, k) ELSE UNCHANGED <<newFloods, submit>>
  /\ msgs' = msgs \ {m}
  /\ UNCHANGED <<fixed, reqIdList, list, decision, alive, late, looped>>

\* serviceNotFound(), floodedArea(), alreadyContacted(), serviceFound()
ServeAnswer(m) ==
  LET k == list[m.to]
      o == Answered(obj[m.to][k], m)
  IN
  /\ m.type \in Answers /\ canGet(m.to)
  /\ obj' = [obj EXCEPT ![m.to][k] = o]
  /\ IF o.waiting = 0 THEN Signal(m.to, k) ELSE UNCHANGED <<newFloods, submit>>
  /\ msgs' = msgs \ {m}
  /\ UNCHANGED <<fixed, reqIdList, list, decision, alive, late, looped>>

StopFlooding(m) ==
  LET k == list[m.to]
      o == obj[m.to][k]
  IN
  /\ m.type = "stopFlooding" /\ canGet(m.to)
  /\ msgs' = (msgs \ {m}) \cup StopCalls(m.to, o, k)
  /\ obj' = [obj EXCEPT ![m.to][k].life = "freed"]
  /\ list' = [list EXCEPT ![m.to] = 0]
  /\ reqIdList' = reqIdList \ {m.to}
  /\ IF o.waiting # 0 THEN Signal(m.to, k) ELSE UNCHANGED <<newFloods, submit>>
  /\ UNCHANGED <<fixed, decision, alive, late, looped>>

\* newFlood(): the next step, then a wait unless there is nobody to contact.
NewFlood(m) ==
  LET k == list[m.to]
      o == obj[m.to][k]
  IN
  /\ m.type = "newFlood" /\ canGet(m.to)
  /\ obj' = [obj EXCEPT ![m.to][k] = NextStep(m.to, o)]
  /\ IF completelyFlooded(m.to, o)
       THEN /\ msgs' = (msgs \ {m}) \cup Call("floodedArea", m.to, o.pred, m.tag)
            /\ UNCHANGED newFloods
       ELSE /\ msgs' = (msgs \ {m}) \cup StepCalls(m.to, o)
            /\ newFloods' = newFloods \cup {[ma |-> m.to, obj |-> k, tag |-> m.tag,
                                             pc |-> "listed"]}
  /\ UNCHANGED <<fixed, reqIdList, list, submit, decision, alive, late, looped>>

NewFloodWaits(h) ==
  /\ h.pc = "listed" /\ alive[h.ma]
  /\ newFloods' = (newFloods \ {h}) \cup {[h EXCEPT !.pc = "wait"]}
  /\ UNCHANGED <<fixed, reqIdList, obj, list, msgs, submit, decision, alive, late, looped>>

NewFloodTimesOut(h) ==
  /\ h.pc = "wait" /\ alive[h.ma]
  /\ newFloods' = Awake(h)
  /\ late' = (late \/ obj[h.ma][h.obj].waiting > 0)
  /\ UNCHANGED <<fixed, reqIdList, obj, list, msgs, submit, decision, alive, looped>>

\* get() of whatever the list has, the answer from the object that the thread
\* knows, and put() of that object.
NewFloodAnswers(h) ==
  LET o == obj[h.ma][h.obj]
      type == IF o.found THEN "serviceFound"
              ELSE IF flooded(h.ma, o) THEN "floodedArea" ELSE "serviceNotFound"
  IN
  /\ h.pc = "woken" /\ canGet(h.ma)
  /\ msgs' = msgs \cup Call(type, h.ma, o.pred, h.tag)
  /\ obj' = [obj EXCEPT ![h.ma][h.obj].found = FALSE]
  /\ list' = [list EXCEPT ![h.ma] = h.obj]
  /\ newFloods' = newFloods \ {h}
  /\ UNCHANGED <<fixed, reqIdList, submit, decision, alive, late, looped>>

Crash(m) ==
  /\ m # Origin /\ alive[m]
  /\ Cardinality({x \in MA : ~alive[x]}) < MaxCrashes
  /\ Die(m)

\* A thread that waits on a FloodRequest which stopFlooding() has deleted goes on
\* with what it finds there (the actions above) or brings the process down.
UsesFreed(m) ==
  \/ \E h \in newFloods : h.ma = m /\ h.pc # "listed" /\ obj[m][h.obj].life = "freed"
  \/ m = Origin /\ submit \in {"wait", "woken"} /\ obj[m][1].life = "freed"

UseAfterFree(m) == UsesFreed(m) /\ Die(m)

------------------------------------------------------------------------------
Init ==
  /\ knownMAs \in Topologies
  /\ named \in {{}, MA}
  /\ offers \in SUBSET (MA \ {Origin})
  /\ reqIdList = {}
  /\ obj = [m \in MA |-> [k \in 1 .. MaxObjects |->
              IF m = Origin /\ k = 1 THEN NewFloodRequest(m, Nobody) ELSE NoObject]]
  /\ list = [m \in MA |-> 0]
  /\ msgs = {} /\ newFloods = {}
  /\ submit = "flood" /\ decision = FALSE
  /\ alive = [m \in MA |-> TRUE]
  /\ late = FALSE /\ looped = FALSE

Submit == \/ SubmitFloods \/ SubmitPuts \/ SubmitWaits
          \/ SubmitTimesOut \/ SubmitGets \/ SubmitStops
Handle(m) == \/ SearchService(m) \/ CallerUnknown(m) \/ SubmitLocal(m)
             \/ ServeAnswer(m) \/ StopFlooding(m) \/ NewFlood(m)
Wait(h) == NewFloodWaits(h) \/ NewFloodTimesOut(h) \/ NewFloodAnswers(h)

Next == \/ Submit
        \/ \E m \in msgs : Handle(m)
        \/ \E h \in newFloods : Wait(h)
        \/ \E m \in MA : Crash(m) \/ UseAfterFree(m)

Spec == Init /\ [][Next]_vars

\* The thread of the client's call runs on, and timedwait() returns.
FairSpec == Spec /\ WF_vars(Submit)

------------------------------------------------------------------------------
(* Properties *)

\* The agents that n hops of flooding can reach from the origin.
Reach[n \in Nat] ==
  IF n = 0 THEN {Origin}
  ELSE Reach[n - 1] \cup UNION {knownMAs[m] : m \in Reach[n - 1]}

Undisturbed == named = MA /\ ~late /\ ~looped /\ \A m \in MA : alive[m]

\* A search that ends with no server has asked every agent within MaxHops hops:
\* none of them has the service, unless an answer was waited for in vain, the
\* agents are not known by their bind names, the flood came back to the origin or
\* an agent crashed.
SearchComplete ==
  submit = "done" /\ ~decision /\ Undisturbed => offers \cap Reach[MaxHops[knownMAs]] = {}

\* The search has ended and no handler can go on.
Quiet ==
  /\ submit = "done"
  /\ \A m \in msgs : m.type \notin {"searchService", "submit_local"} /\ list[m.to] = 0
  /\ \A h \in newFloods : h.pc = "woken" /\ list[h.ma] = 0

\* stopFlooding(): once the search is over no agent remembers the request, and no
\* handler is left waiting for a FloodRequest, whatever the calls overtook.
AllForgotten ==
  Quiet /\ Undisturbed =>
    /\ msgs = {} /\ newFloods = {} /\ reqIdList = {}
    /\ \A m \in MA, k \in 1 .. MaxObjects : obj[m][k].life # "live"

\* What is still to come for the object that m floods with.
Outstanding(m) ==
  Cardinality({c \in msgs : c.to = m /\ c.type \in Answers})
    + Cardinality({c \in msgs : c.from = m /\ c.type \in {"searchService", "submit_local", "newFlood"}})
    + Cardinality({h \in newFloods : obj[h.ma][h.obj].pred = m})

\* While nothing is late, the answers that an agent still counts are exactly
\* those that are on their way: its wait can end neither too early nor only by
\* its timeout.
CountIsOutstanding ==
  Undisturbed => \A m \in MA, k \in 1 .. MaxObjects :
                   obj[m][k].life = "live" => obj[m][k].waiting = Outstanding(m)

\* No thread waits on a FloodRequest that is deleted, unless an earlier wait gave
\* up too soon or the flood came back to the origin.
NoUseAfterFree == ~late /\ ~looped => \A m \in MA : ~UsesFreed(m)

\* assert(requestAdded) of submit().
AssertHolds == submit = "put" => list[Origin] = 0

\* The client's call returns, if the flood does not come back to the origin.
SubmitReturns == <>(submit \in {"done", "aborted"} \/ looped)
==============================================================================
