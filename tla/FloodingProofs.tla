--------------------------- MODULE FloodingProofs ---------------------------
(***************************************************************************)
(* Proofs about Flooding: in every network, with any number of agents, an  *)
(* undisturbed flood counts its answers right, and a FloodRequest is       *)
(* deleted only when no thread waits for it.                               *)
(***************************************************************************)
EXTENDS Flooding, FiniteSetTheorems, TLAPS

------------------------------------------------------------------------------
(* The types *)

Requests == {"searchService", "submit_local", "newFlood"}
Contacts == {"NotContacted", "Flooding", "Flooded", "AlreadyContacted"}
Object == [life : {"none", "live", "freed"}, pred : MA \cup {Nobody}, hop : Nat,
           waiting : Int, found : BOOLEAN, near : [MA -> Contacts]]
Message == [type : Requests \cup Answers \cup {"stopFlooding"},
            from : MA, to : MA, tag : MA \X Nat]
Thread == [ma : MA, obj : 1 .. MaxObjects, tag : MA \X Nat,
           pc : {"listed", "wait", "woken"}]

FloodTypes ==
  /\ knownMAs \in Topologies
  /\ obj \in [MA -> [1 .. MaxObjects -> Object]]
  /\ list \in [MA -> 0 .. MaxObjects]
  /\ msgs \subseteq Message /\ newFloods \subseteq Thread
  /\ alive \in [MA -> BOOLEAN]
  /\ late \in BOOLEAN /\ looped \in BOOLEAN

------------------------------------------------------------------------------
(* The agents while nothing is late and the flood has not come back *)

\* The FloodRequest that agent m works with.
Own(m) == obj[m][IF m = Origin THEN 1 ELSE list[m]]
Live(m) == IF m = Origin THEN submit # "done" ELSE list[m] # 0

\* Every agent but the origin has one live object, the listed one, as long as it
\* remembers the request.
AgentAt(m) ==
  /\ list[m] # 0 <=> m \in reqIdList
  /\ list[m] # 0 => obj[m][list[m]].pred \in MA
  /\ \A k \in 1 .. MaxObjects : obj[m][k].life = "live" <=> list[m] = k

\* The origin has one until submit() is done, and lists it only to wait.
OriginAt ==
  /\ submit \in {"flood", "put", "listed", "wait", "woken", "done"}
  /\ Origin \notin reqIdList
  /\ list[Origin] = IF submit \in {"listed", "wait", "woken"} THEN 1 ELSE 0
  /\ \A k \in 1 .. MaxObjects : obj[Origin][k].life = "live" <=> k = 1 /\ submit # "done"

\* A thread in newFlood() works with the object that its agent lists.
Working == \A h \in newFloods : h.ma # Origin /\ list[h.ma] = h.obj

\* An agent that floods no further, or whose wait is over, counts no answer.
Idle(m) ==
  IF m = Origin THEN submit \in {"flood", "woken"}
  ELSE list[m] # 0 /\ alive[m] /\ \A h \in newFloods : h.ma = m => h.pc = "woken"
IdleCountNothing == \A m \in MA : Idle(m) => Own(m).waiting = 0

\* The listed object waits for one stopFlooding() at most.
Stop(c, x) == c.type = "stopFlooding" /\ c.to = x
OneStop ==
  \A c, d \in msgs : \A x \in MA :
    Stop(c, x) => x # Origin /\ list[x] # 0 /\ (Stop(d, x) => c = d)

------------------------------------------------------------------------------
(* What s has asked x for: a request to x, its answer, or a thread at x *)

On(c, s, x) == \/ c.type \in Requests /\ c.from = s /\ c.to = x
               \/ c.type \in Answers /\ c.from = x /\ c.to = s
At(h, s, x) == h.ma = x /\ obj[x][h.obj].pred = s
Calls(s, x) == {c \in msgs : On(c, s, x)}
Threads(s, x) == {h \in newFloods : At(h, s, x)}
Busy(s, x) == Calls(s, x) # {} \/ Threads(s, x) # {}

\* x has taken the request of s, and not that of another agent.
Accepted(c) == c.type \notin {"searchService", "alreadyContacted"}
Works(s, x) == Threads(s, x) # {} \/ \E c \in Calls(s, x) : Accepted(c)
Mine(s, x) ==
  /\ x # Origin /\ list[x] # 0 /\ obj[x][list[x]].pred = s
  /\ \A c \in msgs : ~Stop(c, x)

\* One thing at a time is under way between two agents, for a live object, and
\* only the first call or its refusal when x does not belong to s.
OneAtATime(s, x) ==
  /\ \A c, d \in Calls(s, x) : c = d
  /\ \A g, h \in Threads(s, x) : g = h
  /\ Calls(s, x) = {} \/ Threads(s, x) = {}
Pair(s, x) ==
  /\ OneAtATime(s, x)
  /\ Busy(s, x) => Live(s)
  /\ Works(s, x) => Mine(s, x)

\* Q are the agents that s counts: all that are busy for it, and no others if
\* nothing has disturbed the flood. Those it has flooded belong to it.
InArea(s, x) == Own(s).near[x] \in {"Flooding", "Flooded"} /\ alive[x]
Due(s, Q) ==
  /\ Own(s).waiting = Cardinality(Q)
  /\ \A x \in MA :
       /\ Busy(s, x) => x \in Q
       /\ x \in Q /\ Undisturbed => Busy(s, x)
       /\ x \notin Q /\ InArea(s, x) => Mine(s, x)
Counted(s) == Live(s) => \E Q \in SUBSET MA : Due(s, Q)

Agents == OriginAt /\ (\A m \in MA \ {Origin} : AgentAt(m)) /\ Working /\ OneStop
Books ==
  /\ Agents /\ IdleCountNothing
  /\ \A s, x \in MA : Pair(s, x)
  /\ \A s \in MA : Counted(s)

FloodInv == FloodTypes /\ (~late /\ ~looped => Books)

------------------------------------------------------------------------------
(* Objects *)

\* The network of a run, and whom an agent contacts in a step.
LEMMA Neighbours ==
  ASSUME FloodTypes, NEW m \in MA, NEW o, NEW s
  PROVE  /\ knownMAs[m] \subseteq MA /\ m \notin knownMAs[m]
         /\ Contacted(m, o, s) \subseteq MA /\ IsFiniteSet(Contacted(m, o, s))
         /\ Cardinality(Contacted(m, o, s)) \in Nat
<1>1. knownMAs[m] \subseteq MA /\ m \notin knownMAs[m]
  BY FloodingAssumption DEF FloodingAssumption, FloodTypes
<1>2. Contacted(m, o, s) \subseteq MA
  BY <1>1 DEF Contacted
<1>3. IsFiniteSet(Contacted(m, o, s))
  BY <1>2, FS_Subset, FloodingAssumption DEF FloodingAssumption
<1> QED
  BY <1>1, <1>2, <1>3, FS_CardinalityType

\* What floodNextStep() makes of an object.
LEMMA NextStepIs ==
  ASSUME FloodTypes, NEW m \in MA, NEW o \in Object
  PROVE  LET N == NextStep(m, o) IN
         /\ N \in Object /\ N.life = o.life /\ N.pred = o.pred
         /\ N.waiting = Cardinality(Contacted(m, o, "NotContacted"))
                          + Cardinality(Contacted(m, o, "Flooding"))
         /\ \A x \in MA : N.near[x] = IF x \in Contacted(m, o, "NotContacted") THEN "Flooding"
                                      ELSE IF x \in Gone(m, o) THEN "Flooded"
                                      ELSE o.near[x]
<1> DEFINE A == Contacted(m, o, "NotContacted")
           B == Contacted(m, o, "Flooding")
           W == Cardinality(A) + Cardinality(B)
           G == Gone(m, o)
           near == [x \in MA |-> IF x \in A THEN "Flooding"
                                 ELSE IF x \in G THEN "Flooded" ELSE o.near[x]]
<1>1. W \in Int
  BY Neighbours
<1>2. near \in [MA -> Contacts]
  BY DEF Object, Contacts
<1>3. NextStep(m, o) = [o EXCEPT !.hop = o.hop + 1, !.waiting = W, !.near = near]
  BY DEF NextStep
<1> HIDE DEF W, near
<1>4. LET N == NextStep(m, o) IN
      /\ N \in Object /\ N.life = o.life /\ N.pred = o.pred /\ N.waiting = W /\ N.near = near
  <2>1. /\ o.life \in {"none", "live", "freed"} /\ o.pred \in MA \cup {Nobody}
        /\ o.hop + 1 \in Nat /\ o.found \in BOOLEAN
    BY DEF Object
  <2>2. NextStep(m, o) = [life |-> o.life, pred |-> o.pred, hop |-> o.hop + 1,
                          waiting |-> W, found |-> o.found, near |-> near]
    BY <1>3 DEF Object
  <2> QED
    BY <1>1, <1>2, <2>1, <2>2 DEF Object
<1> QED
  BY <1>4 DEF W, near

\* What addResponse...() makes of it.
LEMMA AnsweredIs ==
  ASSUME NEW o \in Object, NEW c \in Message
  PROVE  LET N == Answered(o, c) IN
         /\ N \in Object /\ N.life = o.life /\ N.pred = o.pred
         /\ N.waiting = o.waiting - 1
         /\ \A x \in MA : x # c.from => N.near[x] = o.near[x]
         /\ c.type = "floodedArea" => N.near[c.from] = "Flooded"
         /\ c.type = "alreadyContacted" => N.near[c.from] = "AlreadyContacted"
         /\ c.type \notin {"floodedArea", "alreadyContacted"} => N.near[c.from] = o.near[c.from]
<1> DEFINE f == o.found \/ c.type = "serviceFound"
           v == CASE c.type = "floodedArea" -> "Flooded"
                  [] c.type = "alreadyContacted" -> "AlreadyContacted"
                  [] OTHER -> o.near[c.from]
<1>1. f \in BOOLEAN
  OBVIOUS
<1>2. v \in Contacts
  BY DEF Object, Message, Contacts
<1>3. Answered(o, c) = [o EXCEPT !.waiting = o.waiting - 1, !.found = f, !.near[c.from] = v]
  BY DEF Answered
<1>4. /\ c.type = "floodedArea" => v = "Flooded"
      /\ c.type = "alreadyContacted" => v = "AlreadyContacted"
      /\ c.type \notin {"floodedArea", "alreadyContacted"} => v = o.near[c.from]
  OBVIOUS
<1> HIDE DEF f, v
<1>5. LET N == Answered(o, c) IN
      /\ N \in Object /\ N.life = o.life /\ N.pred = o.pred
      /\ N.waiting = o.waiting - 1 /\ N.near = [o.near EXCEPT ![c.from] = v]
  <2>1. /\ o.life \in {"none", "live", "freed"} /\ o.pred \in MA \cup {Nobody}
        /\ o.hop \in Nat /\ o.waiting - 1 \in Int
    BY DEF Object
  <2>2. [o.near EXCEPT ![c.from] = v] \in [MA -> Contacts]
    BY <1>2 DEF Object
  <2>3. Answered(o, c) = [life |-> o.life, pred |-> o.pred, hop |-> o.hop,
                          waiting |-> o.waiting - 1, found |-> f,
                          near |-> [o.near EXCEPT ![c.from] = v]]
    BY <1>3 DEF Object
  <2> QED
    BY <1>1, <2>1, <2>2, <2>3 DEF Object
<1> QED
  BY <1>4, <1>5 DEF Object, Message

\* A FloodRequest that is new.
LEMMA NewIs ==
  ASSUME NEW m \in MA, NEW p \in MA \cup {Nobody}
  PROVE  LET N == NewFloodRequest(m, p) IN
         /\ N \in Object /\ N.life = "live" /\ N.pred = p /\ N.waiting = 0
         /\ \A x \in MA : N.near[x] \in {"NotContacted", "AlreadyContacted"}
<1> DEFINE near == [x \in MA |-> IF x = p THEN "AlreadyContacted" ELSE "NotContacted"]
<1>1. near \in [MA -> Contacts]
  BY DEF Contacts
<1>2. \A x \in MA : near[x] \in {"NotContacted", "AlreadyContacted"}
  OBVIOUS
<1>3. NewFloodRequest(m, p) = [NoObject EXCEPT !.life = "live", !.pred = p, !.near = near]
  BY DEF NewFloodRequest
<1> HIDE DEF near
<1>4. NoObject = [life |-> "none", pred |-> Nobody, hop |-> 0, waiting |-> 0, found |-> FALSE,
                  near |-> [x \in MA |-> "NotContacted"]]
  BY DEF NoObject
<1>5. NewFloodRequest(m, p) = [life |-> "live", pred |-> p, hop |-> 0, waiting |-> 0,
                               found |-> FALSE, near |-> near]
  BY <1>3, <1>4
<1> QED
  BY <1>1, <1>2, <1>5 DEF Object

\* An object is replaced by another.
LEMMA ObjectSet ==
  ASSUME FloodTypes, NEW m \in MA, NEW k \in 1 .. MaxObjects, NEW o \in Object,
         obj' = [obj EXCEPT ![m][k] = o]
  PROVE  /\ obj' \in [MA -> [1 .. MaxObjects -> Object]] /\ obj'[m][k] = o
         /\ \A j \in 1 .. MaxObjects : j # k => obj'[m][j] = obj[m][j]
         /\ \A x \in MA : x # m => obj'[x] = obj[x]
  BY DEF FloodTypes

\* Two of its fields, set alone.
LEMMA FieldSet ==
  ASSUME FloodTypes, NEW m \in MA, NEW k \in 1 .. MaxObjects
  PROVE  /\ LET o == [obj[m][k] EXCEPT !.found = FALSE] IN
            /\ [obj EXCEPT ![m][k].found = FALSE] = [obj EXCEPT ![m][k] = o]
            /\ o \in Object /\ o.life = obj[m][k].life /\ o.pred = obj[m][k].pred
            /\ o.waiting = obj[m][k].waiting /\ o.near = obj[m][k].near
         /\ LET o == [obj[m][k] EXCEPT !.life = "freed"] IN
            /\ [obj EXCEPT ![m][k].life = "freed"] = [obj EXCEPT ![m][k] = o]
            /\ o \in Object /\ o.life = "freed" /\ o.pred = obj[m][k].pred
            /\ o.waiting = obj[m][k].waiting /\ o.near = obj[m][k].near
<1>1. obj[m][k] \in Object
  BY DEF FloodTypes
<1> QED
  BY <1>1 DEF FloodTypes, Object

\* An object is deleted.
FreedAt(m, k) ==
  /\ obj[m][k] \in Object
  /\ \A x \in MA : x # m => obj'[x] = obj[x]
  /\ \A j \in 1 .. MaxObjects : /\ obj'[m][j].pred = obj[m][j].pred
                                /\ j # k => obj'[m][j] = obj[m][j]
  /\ obj'[m][k].life = "freed"

\* That is what the handlers of stopFlooding() do to it.
LEMMA FreedIs ==
  ASSUME FloodTypes, NEW m \in MA, NEW k \in 1 .. MaxObjects,
         obj' = [obj EXCEPT ![m][k].life = "freed"]
  PROVE  FreedAt(m, k)
<1>1. obj[m][k] \in Object
  BY DEF FloodTypes
<1>2. \A x \in MA : x # m => obj'[x] = obj[x]
  BY DEF FloodTypes
<1>3. \A j \in 1 .. MaxObjects : j # k => obj'[m][j] = obj[m][j]
  BY DEF FloodTypes
<1>4. obj'[m][k] = [obj[m][k] EXCEPT !.life = "freed"]
  BY DEF FloodTypes
<1>5. obj'[m][k].life = "freed" /\ obj'[m][k].pred = obj[m][k].pred
  BY <1>1, <1>4 DEF Object
<1> QED
  BY <1>1, <1>2, <1>3, <1>5 DEF FreedAt

------------------------------------------------------------------------------
(* The calls that are made *)

\* A call that is made.
LEMMA CallIs ==
  ASSUME NEW type \in Requests \cup Answers, NEW m \in MA, NEW p, NEW tag \in MA \X Nat
  PROVE  /\ Call(type, m, p, tag) \subseteq Message
         /\ \A c \in Call(type, m, p, tag) :
              /\ c = Msg(type, m, p, tag) /\ p \in MA /\ alive[p]
              /\ c.type = type /\ c.from = m /\ c.to = p
         /\ p \in MA /\ alive[p] => Msg(type, m, p, tag) \in Call(type, m, p, tag)
  BY DEF Call, Msg, Message

\* The calls of a step are messages.
LEMMA StepCallsType ==
  ASSUME FloodTypes, NEW m \in MA, NEW o \in Object
  PROVE  StepCalls(m, o) \subseteq Message
<1>1. <<m, o.hop + 1>> \in MA \X Nat
  BY DEF Object
<1>2. \A x : /\ x \in Contacted(m, o, "NotContacted") => x \in MA
             /\ x \in Contacted(m, o, "Flooding") => x \in MA
  BY Neighbours
<1> QED
  BY <1>1, <1>2 DEF StepCalls, Msg, Message, Requests

\* So are the calls that tell an area to stop.
LEMMA StopCallsType ==
  ASSUME FloodTypes, NEW m \in MA, NEW o \in Object, NEW k \in 1 .. MaxObjects
  PROVE  StopCalls(m, o, k) \subseteq Message
<1>1. <<m, k>> \in MA \X Nat
  BY FloodingAssumption DEF FloodingAssumption
<1>2. knownMAs[m] \subseteq MA
  BY Neighbours
<1> QED
  BY <1>1, <1>2 DEF StopCalls, Msg, Message

\* A step calls every agent that it contacts, each once.
LEMMA StepCallsAre ==
  ASSUME FloodTypes, NEW m \in MA, NEW o \in Object
  PROVE  /\ StepCalls(m, o) \subseteq Message
         /\ \A c \in StepCalls(m, o) :
              /\ c.from = m /\ c = Msg(c.type, m, c.to, <<m, o.hop + 1>>)
              /\ \/ c.type = "searchService" /\ c.to \in Contacted(m, o, "NotContacted")
                 \/ c.type = "newFlood" /\ c.to \in Contacted(m, o, "Flooding")
         /\ \A x \in Contacted(m, o, "NotContacted") :
              \E c \in StepCalls(m, o) : c.type = "searchService" /\ c.to = x
         /\ \A x \in Contacted(m, o, "Flooding") :
              \E c \in StepCalls(m, o) : c.type = "newFlood" /\ c.to = x
<1>1. <<m, o.hop + 1>> \in MA \X Nat
  BY DEF Object
<1>2. \A x : /\ x \in Contacted(m, o, "NotContacted") => x \in MA
             /\ x \in Contacted(m, o, "Flooding") => x \in MA
  BY Neighbours
<1> DEFINE A == Contacted(m, o, "NotContacted")
           B == Contacted(m, o, "Flooding")
           t == <<m, o.hop + 1>>
<1>3. \A c : c \in StepCalls(m, o) <=>
        \/ \E x \in A : c = Msg("searchService", m, x, t)
        \/ \E x \in B : c = Msg("newFlood", m, x, t)
  BY DEF StepCalls
<1>4. \A x \in MA, type \in Requests :
        /\ Msg(type, m, x, t) \in Message /\ Msg(type, m, x, t).type = type
        /\ Msg(type, m, x, t).from = m /\ Msg(type, m, x, t).to = x
  BY <1>1 DEF Msg, Message
<1>5. "searchService" \in Requests /\ "newFlood" \in Requests
  BY DEF Requests
<1> HIDE DEF A, B, t
<1>6. \A x \in A \cup B : x \in MA
  BY <1>2 DEF A, B
<1>7. \A c \in StepCalls(m, o) : c \in Message /\ c.from = m /\ c = Msg(c.type, m, c.to, t)
  BY <1>3, <1>4, <1>5, <1>6
<1>8. ASSUME NEW c \in StepCalls(m, o)
      PROVE  \/ c.type = "searchService" /\ c.to \in A
             \/ c.type = "newFlood" /\ c.to \in B
  <2>1. CASE \E x \in A : c = Msg("searchService", m, x, t)
    BY <2>1, <1>4, <1>5, <1>6
  <2>2. CASE \E x \in B : c = Msg("newFlood", m, x, t)
    BY <2>2, <1>4, <1>5, <1>6
  <2> QED
    BY <1>3, <2>1, <2>2
<1>9. /\ \A x \in A : \E c \in StepCalls(m, o) : c.type = "searchService" /\ c.to = x
      /\ \A x \in B : \E c \in StepCalls(m, o) : c.type = "newFlood" /\ c.to = x
  BY <1>3, <1>4, <1>5, <1>6
<1> QED
  BY <1>7, <1>8, <1>9 DEF A, B, t

\* All of them come from the agent that makes the step.
LEMMA StepCallsFrom ==
  ASSUME FloodTypes, NEW m \in MA, NEW o \in Object
  PROVE  \A c \in StepCalls(m, o) : c.from = m /\ c.type \in {"searchService", "newFlood"}
  BY DEF StepCalls, Msg

\* stopFlooding() calls agents of the area that are there.
LEMMA StopCallsAre ==
  ASSUME FloodTypes, NEW m \in MA, NEW o \in Object, NEW k \in 1 .. MaxObjects
  PROVE  /\ StopCalls(m, o, k) \subseteq Message
         /\ \A c \in StopCalls(m, o, k) :
              /\ c.type = "stopFlooding" /\ c.from = m /\ c = Msg("stopFlooding", m, c.to, <<m, k>>)
              /\ c.to \in knownMAs[m] /\ o.near[c.to] \in {"Flooding", "Flooded"} /\ alive[c.to]
<1>1. <<m, k>> \in MA \X Nat
  BY FloodingAssumption DEF FloodingAssumption
<1>2. knownMAs[m] \subseteq MA
  BY Neighbours
<1> QED
  BY <1>1, <1>2 DEF StopCalls, Msg, Message

\* A thread that moves on.
LEMMA AwakeIs ==
  ASSUME FloodTypes, NEW h \in newFloods, NEW pc \in {"listed", "wait", "woken"},
         newFloods' = (newFloods \ {h}) \cup {[h EXCEPT !.pc = pc]}
  PROVE  /\ newFloods' \subseteq Thread
         /\ LET g == [h EXCEPT !.pc = pc] IN
            g \in newFloods' /\ g.ma = h.ma /\ g.obj = h.obj /\ g.tag = h.tag /\ g.pc = pc
         /\ \A g : g # h /\ g # [h EXCEPT !.pc = pc] => (g \in newFloods' <=> g \in newFloods)
<1>1. h \in Thread
  BY DEF FloodTypes
<1> QED
  BY <1>1 DEF FloodTypes, Thread

------------------------------------------------------------------------------
(* The types are invariant *)

\* The types hold at the start.
LEMMA TypesInit == Init => FloodTypes
<1> SUFFICES ASSUME Init PROVE FloodTypes
  OBVIOUS
<1>1. NewFloodRequest(Origin, Nobody) \in Object
  BY NewIs, FloodingAssumption DEF FloodingAssumption
<1>2. NoObject \in Object
  BY DEF NoObject, Object, Contacts
<1>3. obj \in [MA -> [1 .. MaxObjects -> Object]]
  BY <1>1, <1>2 DEF Init
<1>4. list \in [MA -> 0 .. MaxObjects]
  BY FloodingAssumption DEF Init, FloodingAssumption
<1>5. /\ knownMAs \in Topologies /\ msgs = {} /\ newFloods = {}
      /\ alive \in [MA -> BOOLEAN] /\ late = FALSE /\ looped = FALSE
  BY DEF Init
<1> QED
  BY <1>3, <1>4, <1>5 DEF FloodTypes

\* The steps of the client's call keep the types.
LEMMA SubmitTypes ==
  ASSUME FloodTypes, Submit
  PROVE  FloodTypes'
<1>1. Origin \in MA /\ 1 \in 1 .. MaxObjects /\ obj[Origin][1] \in Object
  BY FloodingAssumption DEF FloodingAssumption, FloodTypes
<1>2. CASE SubmitFloods
  <2>1. NextStep(Origin, obj[Origin][1]) \in Object
    BY <1>1, NextStepIs
  <2>2. obj' \in [MA -> [1 .. MaxObjects -> Object]]
    BY <1>1, <1>2, <2>1, ObjectSet DEF SubmitFloods
  <2>3. StepCalls(Origin, obj[Origin][1]) \subseteq Message
    BY <1>1, StepCallsType
  <2>4. msgs' \subseteq Message
    BY <1>2, <2>3 DEF SubmitFloods, FloodTypes
  <2> QED
    BY <1>2, <2>2, <2>4 DEF SubmitFloods, FloodTypes, fixed
<1>3. CASE SubmitPuts
  <2>1. CASE Die(Origin)
    BY <2>1 DEF Die, FloodTypes, fixed
  <2>2. CASE list' = put(Origin, 1) /\ UNCHANGED <<fixed, obj, msgs, newFloods, alive, late, looped>>
    BY <1>1, <2>2 DEF put, FloodTypes, fixed
  <2> QED
    BY <1>3, <2>1, <2>2 DEF SubmitPuts
<1>4. CASE SubmitWaits
  BY <1>4 DEF SubmitWaits, FloodTypes, fixed
<1>5. CASE SubmitTimesOut
  BY <1>5 DEF SubmitTimesOut, FloodTypes, fixed
<1>6. CASE SubmitGets
  <2>1. obj' \in [MA -> [1 .. MaxObjects -> Object]]
    BY <1>1, <1>6, FieldSet, ObjectSet DEF SubmitGets
  <2>2. list' \in [MA -> 0 .. MaxObjects]
    BY <1>1, <1>6, FloodingAssumption DEF SubmitGets, FloodTypes, FloodingAssumption
  <2> QED
    BY <1>6, <2>1, <2>2 DEF SubmitGets, FloodTypes, fixed
<1>7. CASE SubmitStops
  <2>1. obj' \in [MA -> [1 .. MaxObjects -> Object]]
    BY <1>1, <1>7, FieldSet, ObjectSet DEF SubmitStops
  <2>2. msgs' \subseteq Message
    <3>1. StopCalls(Origin, obj[Origin][1], 1) \subseteq Message
      BY <1>1, StopCallsType
    <3> QED
      BY <1>7, <3>1 DEF SubmitStops, FloodTypes
  <2>3. newFloods' \subseteq Thread
    BY <1>7, AwakeIs DEF SubmitStops, FloodTypes, Awake, Sleeping
  <2> QED
    BY <1>7, <2>1, <2>2, <2>3 DEF SubmitStops, FloodTypes, fixed
<1> QED
  BY <1>2, <1>3, <1>4, <1>5, <1>6, <1>7 DEF Submit

\* So does every handler.
LEMMA HandleTypes ==
  ASSUME FloodTypes, NEW c \in msgs, Handle(c)
  PROVE  FloodTypes'
<1>1. c \in Message /\ c.from \in MA /\ c.to \in MA /\ c.tag \in MA \X Nat
  BY DEF FloodTypes, Message
<1> DEFINE x == c.to
           k == list[x]
<1>2. list[x] # 0 => k \in 1 .. MaxObjects /\ obj[x][k] \in Object
  BY <1>1, FloodingAssumption DEF FloodTypes, FloodingAssumption
<1>3. CASE SearchService(c)
  <2>1. CASE x \in reqIdList
    <3>1. Call("alreadyContacted", c.to, c.from, c.tag) \subseteq Message
      <4>1. "alreadyContacted" \in Requests \cup Answers
        BY DEF Answers
      <4> QED
        BY <1>1, <4>1, CallIs
    <3>2. /\ msgs' = (msgs \ {c}) \cup Call("alreadyContacted", c.to, c.from, c.tag)
          /\ looped' = (looped \/ c.to = Origin)
          /\ UNCHANGED <<knownMAs, obj, list, newFloods, alive, late>>
      BY <1>3, <2>1 DEF SearchService, fixed
    <3>3. msgs' \subseteq Message
      BY <3>1, <3>2 DEF FloodTypes
    <3>4. looped' \in BOOLEAN
      BY <3>2 DEF FloodTypes
    <3> QED
      BY <3>2, <3>3, <3>4 DEF FloodTypes
  <2>2. CASE x \notin reqIdList
    <3>1. PICK j \in Fresh(x) : /\ obj' = [obj EXCEPT ![x][j] = NewFloodRequest(x, c.from)]
                                /\ list' = put(x, j)
      BY <1>3, <2>2 DEF SearchService
    <3>2. j \in 1 .. MaxObjects /\ NewFloodRequest(x, c.from) \in Object
      BY <1>1, NewIs DEF Fresh
    <3>3. obj' \in [MA -> [1 .. MaxObjects -> Object]]
      BY <1>1, <3>1, <3>2, ObjectSet
    <3>4. list' \in [MA -> 0 .. MaxObjects]
      BY <1>1, <3>1, <3>2 DEF put, FloodTypes
    <3>5. [c EXCEPT !.type = "submit_local"] \in Message
      BY <1>1 DEF Message, Requests
    <3> QED
      BY <1>3, <2>2, <3>3, <3>4, <3>5 DEF SearchService, FloodTypes, fixed
  <2> QED
    BY <2>1, <2>2
<1>4. CASE CallerUnknown(c)
  BY <1>4 DEF CallerUnknown, FloodTypes, fixed
<1>5. CASE SubmitLocal(c)
  <2>1. Call(IF c.to \in offers THEN "serviceFound" ELSE "serviceNotFound", c.to, c.from, c.tag)
          \subseteq Message
    BY <1>1, CallIs DEF Answers
  <2> QED
    BY <1>5, <2>1 DEF SubmitLocal, FloodTypes, fixed
<1>6. CASE ServeAnswer(c)
  <2>1. Answered(obj[x][k], c) \in Object
    BY <1>1, <1>2, <1>6, AnsweredIs DEF ServeAnswer, canGet
  <2>2. obj' \in [MA -> [1 .. MaxObjects -> Object]]
    BY <1>1, <1>2, <1>6, <2>1, ObjectSet DEF ServeAnswer, canGet
  <2>3. newFloods' \subseteq Thread
    BY <1>6, AwakeIs DEF ServeAnswer, FloodTypes, Signal, Awake, Sleeping
  <2> QED
    BY <1>6, <2>2, <2>3 DEF ServeAnswer, FloodTypes, fixed
<1>7. CASE StopFlooding(c)
  <2>1. obj' \in [MA -> [1 .. MaxObjects -> Object]]
    BY <1>1, <1>2, <1>7, FieldSet, ObjectSet DEF StopFlooding, canGet
  <2>2. newFloods' \subseteq Thread
    <3>1. Signal(x, k) \/ newFloods' = newFloods
      BY <1>7 DEF StopFlooding
    <3> QED
      BY <3>1, AwakeIs DEF FloodTypes, Signal, Awake, Sleeping
  <2>3. msgs' \subseteq Message
    <3>1. StopCalls(x, obj[x][k], k) \subseteq Message
      <4>1. k \in 1 .. MaxObjects /\ obj[x][k] \in Object
        BY <1>2, <1>7 DEF StopFlooding, canGet
      <4> QED
        BY <1>1, <4>1, StopCallsType
    <3> QED
      BY <1>7, <3>1 DEF StopFlooding, FloodTypes
  <2>4. list' \in [MA -> 0 .. MaxObjects]
    <3>1. list' = [list EXCEPT ![x] = 0] /\ 0 \in 0 .. MaxObjects
      BY <1>7, FloodingAssumption DEF StopFlooding, FloodingAssumption
    <3> QED
      BY <3>1 DEF FloodTypes
  <2> QED
    BY <1>7, <2>1, <2>2, <2>3, <2>4 DEF StopFlooding, FloodTypes, fixed
<1>8. CASE NewFlood(c)
  <2>1. NextStep(x, obj[x][k]) \in Object
    BY <1>1, <1>2, <1>8, NextStepIs DEF NewFlood, canGet
  <2>2. obj' \in [MA -> [1 .. MaxObjects -> Object]]
    BY <1>1, <1>2, <1>8, <2>1, ObjectSet DEF NewFlood, canGet
  <2>3. /\ StepCalls(x, obj[x][k]) \subseteq Message
        /\ Call("floodedArea", x, obj[x][k].pred, c.tag) \subseteq Message
    <3>1. k \in 1 .. MaxObjects /\ obj[x][k] \in Object
      BY <1>2, <1>8 DEF NewFlood, canGet
    <3>2. "floodedArea" \in Requests \cup Answers
      BY DEF Answers
    <3> HIDE DEF k, x
    <3>3. x \in MA
      BY <1>1 DEF x
    <3>4. StepCalls(x, obj[x][k]) \subseteq Message
      BY <3>1, <3>3, StepCallsType
    <3>5. Call("floodedArea", x, obj[x][k].pred, c.tag) \subseteq Message
      BY <1>1, <3>2, <3>3, CallIs
    <3> QED
      BY <3>4, <3>5
  <2>4. [ma |-> x, obj |-> k, tag |-> c.tag, pc |-> "listed"] \in Thread
    BY <1>1, <1>2, <1>8 DEF NewFlood, canGet, Thread
  <2> QED
    BY <1>8, <2>2, <2>3, <2>4 DEF NewFlood, FloodTypes, fixed
<1> QED
  BY <1>3, <1>4, <1>5, <1>6, <1>7, <1>8 DEF Handle

\* So does the end of a process.
LEMMA DieTypes ==
  ASSUME FloodTypes, NEW m \in MA, Die(m)
  PROVE  FloodTypes'
  BY DEF Die, FloodTypes, fixed

\* So do the threads in newFlood().
LEMMA WaitTypes ==
  ASSUME FloodTypes, NEW h \in newFloods, Wait(h)
  PROVE  FloodTypes'
<1>1. h \in Thread /\ h.ma \in MA /\ h.obj \in 1 .. MaxObjects /\ h.tag \in MA \X Nat
  BY DEF FloodTypes, Thread
<1>2. CASE NewFloodWaits(h)
  BY <1>2, AwakeIs DEF NewFloodWaits, FloodTypes, fixed
<1>3. CASE NewFloodTimesOut(h)
  BY <1>3, AwakeIs DEF NewFloodTimesOut, Awake, FloodTypes, fixed
<1>4. CASE NewFloodAnswers(h)
  <2>1. obj' \in [MA -> [1 .. MaxObjects -> Object]]
    BY <1>1, <1>4, FieldSet, ObjectSet DEF NewFloodAnswers
  <2> DEFINE o == obj[h.ma][h.obj]
             type == IF o.found THEN "serviceFound"
                     ELSE IF flooded(h.ma, o) THEN "floodedArea" ELSE "serviceNotFound"
  <2>2. type \in Requests \cup Answers
    BY DEF Answers
  <2>3. msgs' = msgs \cup Call(type, h.ma, o.pred, h.tag)
    BY <1>4 DEF NewFloodAnswers
  <2> HIDE DEF o, type
  <2>4. msgs' \subseteq Message
    BY <1>1, <2>2, <2>3, CallIs DEF FloodTypes
  <2>5. list' \in [MA -> 0 .. MaxObjects]
    BY <1>1, <1>4 DEF NewFloodAnswers, FloodTypes
  <2> QED
    BY <1>4, <2>1, <2>4, <2>5 DEF NewFloodAnswers, FloodTypes, fixed
<1> QED
  BY <1>2, <1>3, <1>4 DEF Wait

\* Every step keeps the types.
LEMMA TypesNext == FloodTypes /\ [Next]_vars => FloodTypes'
<1> SUFFICES ASSUME FloodTypes, [Next]_vars PROVE FloodTypes'
  OBVIOUS
<1>1. CASE UNCHANGED vars
  BY <1>1 DEF vars, fixed, FloodTypes
<1>2. CASE \E m \in MA : Crash(m) \/ UseAfterFree(m)
  BY <1>2, DieTypes DEF Crash, UseAfterFree
<1> QED
  BY <1>1, <1>2, SubmitTypes, HandleTypes, WaitTypes DEF Next

------------------------------------------------------------------------------
(* What a step leaves as it was *)

\* A call is between two agents only.
LEMMA OnOnce ==
  ASSUME NEW c, NEW s, NEW x, NEW t, NEW y, On(c, s, x), On(c, t, y)
  PROVE  s = t /\ x = y
  BY DEF On, Requests, Answers

SameCalls(s, x) == \A c : On(c, s, x) => (c \in msgs' <=> c \in msgs)
SameWork(s, x) ==
  /\ Threads(s, x)' = {} <=> Threads(s, x) = {}
  /\ \A g, h \in Threads(s, x)' : g = h

\* Nothing happens between s and x.
LEMMA PairKept ==
  ASSUME NEW s, NEW x, Pair(s, x), SameCalls(s, x), SameWork(s, x),
         Busy(s, x) => Live(s)', Works(s, x) => Mine(s, x)'
  PROVE  Pair(s, x)' /\ (Busy(s, x)' <=> Busy(s, x))
<1>1. \A c : c \in Calls(s, x)' <=> c \in Calls(s, x)
  BY DEF SameCalls, Calls
<1>2. Calls(s, x)' = Calls(s, x)
  BY <1>1
<1>3. Works(s, x)' <=> Works(s, x)
  BY <1>2 DEF Works, SameWork
<1>4. Busy(s, x)' <=> Busy(s, x)
  BY <1>2 DEF Busy, SameWork
<1>5. OneAtATime(s, x)'
  BY <1>2 DEF Pair, OneAtATime, SameWork
<1> QED
  BY <1>3, <1>4, <1>5 DEF Pair

\* What is under way between s and x is one call, or one thread, or nothing.
LEMMA PairOfOne ==
  ASSUME NEW s, NEW x,
         \/ /\ \A c, d \in Calls(s, x)' : c = d
            /\ Threads(s, x)' = {}
         \/ /\ Calls(s, x)' = {}
            /\ \A g, h \in Threads(s, x)' : g = h,
         Busy(s, x)' => Live(s)', Works(s, x)' => Mine(s, x)'
  PROVE  Pair(s, x)'
<1>1. OneAtATime(s, x)'
  BY DEF OneAtATime
<1> QED
  BY <1>1 DEF Pair

\* The agents that s counts are the same.
LEMMA CountKept ==
  ASSUME NEW s \in MA, Counted(s),
         Live(s)' => /\ Live(s) /\ Own(s)'.waiting = Own(s).waiting
                     /\ \A x \in MA : Own(s)'.near[x] = Own(s).near[x],
         Undisturbed' => Undisturbed,
         \A x \in MA : /\ Busy(s, x)' => Busy(s, x)
                       /\ Undisturbed' /\ Busy(s, x) => Busy(s, x)'
                       /\ alive'[x] => alive[x]
                       /\ Live(s)' /\ InArea(s, x) /\ Mine(s, x) => Mine(s, x)'
  PROVE  Counted(s)'
<1> SUFFICES ASSUME Live(s)' PROVE \E Q \in SUBSET MA : Due(s, Q)'
  BY DEF Counted
<1>1. PICK Q \in SUBSET MA : Due(s, Q)
  BY DEF Counted
<1>2. Own(s)'.waiting = Cardinality(Q)
  BY <1>1 DEF Due
<1>3. ASSUME NEW x \in MA
      PROVE  /\ Busy(s, x)' => x \in Q
             /\ x \in Q /\ Undisturbed' => Busy(s, x)'
             /\ x \notin Q /\ InArea(s, x)' => Mine(s, x)'
  <2>1. InArea(s, x)' => InArea(s, x)
    BY DEF InArea
  <2> QED
    BY <1>1, <2>1 DEF Due
<1> QED
  BY <1>2, <1>3 DEF Due

\* Threads that stay or move on keep their places.
PredsStay == \A h \in newFloods : obj'[h.ma][h.obj].pred = obj[h.ma][h.obj].pred

\* No thread moves: nothing changes in what is under way.
LEMMA ThreadsStay ==
  ASSUME newFloods' = newFloods, PredsStay, NEW s, NEW x, OneAtATime(s, x)
  PROVE  SameWork(s, x)
<1>1. \A h : h \in Threads(s, x)' <=> h \in Threads(s, x)
  BY DEF PredsStay, Threads, At
<1> QED
  BY <1>1 DEF SameWork, OneAtATime

\* Nor does it when a thread only moves on.
LEMMA ThreadMoves ==
  ASSUME FloodTypes, PredsStay, NEW h \in newFloods, NEW pc \in {"listed", "wait", "woken"},
         newFloods' = (newFloods \ {h}) \cup {[h EXCEPT !.pc = pc]},
         NEW s, NEW x, OneAtATime(s, x)
  PROVE  SameWork(s, x)
<1> DEFINE g == [h EXCEPT !.pc = pc]
<1>1. g \in newFloods' /\ g.ma = h.ma /\ g.obj = h.obj
  BY AwakeIs
<1>2. \A e \in newFloods' : e = g \/ e \in newFloods \ {h}
  OBVIOUS
<1> HIDE DEF g
<1>3. At(g, s, x)' <=> At(h, s, x)
  BY <1>1 DEF PredsStay, At
<1>4. \A e \in newFloods : At(e, s, x)' <=> At(e, s, x)
  BY DEF PredsStay, At
<1>5. \A d, e \in newFloods : At(d, s, x) /\ At(e, s, x) => d = e
  BY DEF OneAtATime, Threads
<1>6. \A d, e \in newFloods' : At(d, s, x)' /\ At(e, s, x)' => d = e
  BY <1>2, <1>3, <1>4, <1>5
<1>7. (\E e \in newFloods' : At(e, s, x)') <=> (\E e \in newFloods : At(e, s, x))
  <2>1. \A e \in newFloods \ {h} : e \in newFloods'
    OBVIOUS
  <2> QED
    BY <1>1, <1>2, <1>3, <1>4, <2>1
<1> QED
  BY <1>6, <1>7 DEF SameWork, Threads

\* No agent but the origin makes, frees or lists an object, and no search is told
\* to stop.
AgentsSteady ==
  /\ \A x \in MA \ {Origin} :
       /\ list'[x] = list[x]
       /\ \A k \in 1 .. MaxObjects : /\ obj'[x][k].pred = obj[x][k].pred
                                     /\ obj'[x][k].life = obj[x][k].life
  /\ \A c \in msgs' : c.type = "stopFlooding" => c \in msgs
  /\ reqIdList' = reqIdList

\* Agents that change no object stay as they should be.
LEMMA AgentsKept ==
  ASSUME FloodTypes, FloodTypes', Agents, AgentsSteady, OriginAt', Working'
  PROVE  /\ Agents' /\ PredsStay
         /\ \A s, x \in MA : Mine(s, x) => Mine(s, x)'
<1>1. \A x \in MA : list[x] # 0 => list[x] \in 1 .. MaxObjects
  BY FloodingAssumption DEF FloodTypes, FloodingAssumption
<1>2. ASSUME NEW m \in MA \ {Origin} PROVE AgentAt(m)'
  BY <1>1 DEF Agents, AgentAt, AgentsSteady
<1>3. OneStop'
  BY DEF Agents, OneStop, AgentsSteady, Stop
<1>4. PredsStay
  <2>1. \A h \in newFloods : h.ma \in MA /\ h.obj \in 1 .. MaxObjects
    BY DEF FloodTypes, Thread
  <2> QED
    BY <2>1 DEF PredsStay, Agents, Working, AgentsSteady
<1>5. ASSUME NEW s \in MA, NEW x \in MA, Mine(s, x) PROVE Mine(s, x)'
  BY <1>1, <1>5 DEF Mine, AgentsSteady, Stop
<1> QED
  BY <1>2, <1>3, <1>4, <1>5 DEF Agents

\* An agent that counts nothing has nothing under way.
LEMMA NothingDue ==
  ASSUME NEW s \in MA, Counted(s), Live(s)
  PROVE  /\ Own(s).waiting \in Nat
         /\ Own(s).waiting = 0 => Due(s, {})
<1>1. PICK Q \in SUBSET MA : Due(s, Q)
  BY DEF Counted
<1>2. IsFiniteSet(Q)
  BY FS_Subset, FloodingAssumption DEF FloodingAssumption
<1>3. Own(s).waiting = Cardinality(Q) /\ Cardinality(Q) \in Nat
  BY <1>1, <1>2, FS_CardinalityType DEF Due
<1>4. Cardinality(Q) = 0 => Q = {}
  BY <1>2, FS_EmptySet
<1> QED
  BY <1>1, <1>3, <1>4

\* A step that moves no call and no thread, and counts nothing.
LEMMA QuietStep ==
  ASSUME FloodTypes, FloodTypes', Books, AgentsSteady, OriginAt', Working',
         \A s, x \in MA : SameCalls(s, x) /\ (OneAtATime(s, x) => SameWork(s, x)),
         \A s \in MA : /\ Live(s)' <=> Live(s)
                       /\ Live(s) => /\ Own(s)'.waiting = Own(s).waiting
                                     /\ \A x \in MA : Own(s)'.near[x] = Own(s).near[x],
         alive' = alive, Undisturbed' => Undisturbed,
         \A m \in MA : Idle(m)' => Idle(m) \/ Own(m)'.waiting = 0
  PROVE  Books'
<1>1. Agents' /\ \A s, x \in MA : Mine(s, x) => Mine(s, x)'
  BY AgentsKept DEF Books
<1>2. ASSUME NEW s \in MA, NEW x \in MA
      PROVE  Pair(s, x)' /\ (Busy(s, x)' <=> Busy(s, x))
  <2>1. Pair(s, x) /\ SameCalls(s, x) /\ SameWork(s, x)
    BY DEF Books, Pair
  <2>2. /\ Busy(s, x) => Live(s)'
        /\ Works(s, x) => Mine(s, x)'
    BY <1>1 DEF Books, Pair
  <2> QED
    BY <2>1, <2>2, PairKept
<1>3. ASSUME NEW s \in MA PROVE Counted(s)'
  <2>1. Counted(s)
    BY DEF Books
  <2>2. \A x \in MA : /\ Busy(s, x)' => Busy(s, x)
                      /\ Undisturbed' /\ Busy(s, x) => Busy(s, x)'
                      /\ alive'[x] => alive[x]
                      /\ Live(s)' /\ InArea(s, x) /\ Mine(s, x) => Mine(s, x)'
    BY <1>1, <1>2
  <2> QED
    BY <2>1, <2>2, CountKept
<1>4. ASSUME NEW m \in MA, Idle(m)' PROVE Own(m)'.waiting = 0
  <2>1. Idle(m) => Live(m)
    BY DEF Idle, Live
  <2> QED
    BY <1>4, <2>1 DEF Books, IdleCountNothing
<1> QED
  BY <1>1, <1>2, <1>3, <1>4 DEF Books, IdleCountNothing

------------------------------------------------------------------------------
(* The threads in newFlood() *)

\* A thread moves on, to be woken only when nothing is counted any more.
LEMMA MoveKeeps ==
  ASSUME FloodTypes, FloodTypes', Books, NEW h \in newFloods,
         NEW pc \in {"listed", "wait", "woken"},
         newFloods' = (newFloods \ {h}) \cup {[h EXCEPT !.pc = pc]},
         pc = "woken" => ~(obj[h.ma][h.obj].waiting > 0),
         UNCHANGED <<fixed, reqIdList, obj, list, msgs, submit, alive, looped>>, late => late'
  PROVE  Books'
<1>1. UNCHANGED <<fixed, reqIdList, obj, list, msgs, submit, alive, looped>>
  OBVIOUS
<1>2. newFloods' = (newFloods \ {h}) \cup {[h EXCEPT !.pc = pc]}
  OBVIOUS
<1> DEFINE g == [h EXCEPT !.pc = pc]
<1>3. g \in newFloods' /\ g.ma = h.ma /\ g.obj = h.obj /\ g.pc = pc
  BY <1>2, AwakeIs
<1>4. \A e \in newFloods' : e = g \/ e \in newFloods \ {h}
  BY <1>2
<1>5. PredsStay /\ AgentsSteady
  BY <1>1 DEF PredsStay, AgentsSteady
<1>6. OriginAt'
  BY <1>1 DEF Books, Agents, OriginAt
<1>7. Working'
  BY <1>1, <1>3, <1>4 DEF Books, Agents, Working
<1>8. \A s, x \in MA : SameCalls(s, x) /\ (OneAtATime(s, x) => SameWork(s, x))
  BY <1>1, <1>2, <1>5, ThreadMoves DEF SameCalls
<1>9. \A s \in MA : /\ Live(s)' <=> Live(s)
                    /\ Own(s)' = Own(s)
  BY <1>1 DEF Live, Own
<1>10. Undisturbed' => Undisturbed
  BY <1>1 DEF Undisturbed, fixed
<1>11. ASSUME NEW m \in MA, Idle(m)' PROVE Idle(m) \/ Own(m)'.waiting = 0
  <2>1. CASE m # h.ma \/ m = Origin
    <3>1. \A e \in newFloods : e.ma = m /\ m # Origin => e \in newFloods'
      BY <2>1, <1>2
    <3> QED
      BY <1>1, <1>11, <3>1 DEF Idle
  <2>2. CASE m = h.ma /\ m # Origin
    <3>1. pc = "woken"
      BY <1>3, <1>11, <2>2 DEF Idle
    <3>2. Own(m) = obj[h.ma][h.obj]
      BY <2>2 DEF Own, Books, Agents, Working
    <3>3. ~(Own(m).waiting > 0)
      BY <3>1, <3>2
    <3>4. Live(m) /\ Counted(m)
      BY <1>1, <1>11, <2>2 DEF Idle, Live, Books
    <3>5. Own(m).waiting \in Nat
      BY <3>4, NothingDue
    <3> QED
      BY <1>9, <3>3, <3>5
  <2> QED
    BY <2>1, <2>2
<1> HIDE DEF g
<1> QED
  BY <1>1, <1>5, <1>6, <1>7, <1>8, <1>9, <1>10, <1>11, QuietStep

\* newFlood() waits, or its wait times out with nothing to come.
LEMMA WaitMoves ==
  ASSUME FloodTypes, FloodTypes', Books, NEW h \in newFloods, ~late',
         NewFloodWaits(h) \/ NewFloodTimesOut(h)
  PROVE  Books'
<1>1. CASE NewFloodWaits(h)
  BY <1>1, MoveKeeps DEF NewFloodWaits
<1>2. CASE NewFloodTimesOut(h)
  BY <1>2, MoveKeeps DEF NewFloodTimesOut, Awake
<1> QED
  BY <1>1, <1>2

------------------------------------------------------------------------------
(* The thread of submit() *)

\* submit() lists its object, waits, wakes up and takes it out again.
LEMMA SubmitQuiet ==
  ASSUME FloodTypes, FloodTypes', Books, ~late',
         SubmitPuts \/ SubmitWaits \/ SubmitTimesOut \/ SubmitGets
  PROVE  Books'
<1>1. Origin \in MA /\ 1 \in 1 .. MaxObjects /\ obj[Origin][1] \in Object
  BY FloodingAssumption DEF FloodingAssumption, FloodTypes
<1>2. Own(Origin) = obj[Origin][1] /\ Counted(Origin) /\ OriginAt
  BY <1>1 DEF Own, Books, Agents
<1>3. /\ UNCHANGED <<fixed, reqIdList, msgs, newFloods, alive, looped>>
      /\ late => late'
      /\ submit # "done" /\ submit' \in {"listed", "wait", "woken", "flood"}
      /\ list' = [list EXCEPT ![Origin] = IF submit' = "flood" THEN 0 ELSE 1]
      /\ \/ obj' = obj
         \/ obj' = [obj EXCEPT ![Origin][1].found = FALSE]
      /\ submit' = "woken" => obj' = obj
      /\ submit' = "flood" => submit = "woken"
  <2>1. CASE SubmitPuts
    <3>1. list[Origin] = 0
      BY <1>2, <2>1 DEF SubmitPuts, OriginAt
    <3> QED
      BY <2>1, <3>1 DEF SubmitPuts, put
  <2>2. CASE SubmitWaits
    BY <1>2, <2>2 DEF SubmitWaits, OriginAt, FloodTypes
  <2>3. CASE SubmitTimesOut
    BY <1>2, <2>3 DEF SubmitTimesOut, OriginAt, FloodTypes
  <2>4. CASE SubmitGets
    BY <2>4 DEF SubmitGets
  <2> QED
    BY <2>1, <2>2, <2>3, <2>4
<1>4. /\ \A k \in 1 .. MaxObjects : /\ obj'[Origin][k].life = obj[Origin][k].life
                                    /\ obj'[Origin][k].pred = obj[Origin][k].pred
                                    /\ obj'[Origin][k].waiting = obj[Origin][k].waiting
                                    /\ obj'[Origin][k].near = obj[Origin][k].near
      /\ \A x \in MA : x # Origin => obj'[x] = obj[x]
  <2>1. CASE obj' = obj
    BY <2>1
  <2>2. CASE obj' = [obj EXCEPT ![Origin][1].found = FALSE]
    <3> DEFINE o == [obj[Origin][1] EXCEPT !.found = FALSE]
    <3>1. /\ obj' = [obj EXCEPT ![Origin][1] = o] /\ o \in Object
          /\ o.life = obj[Origin][1].life /\ o.pred = obj[Origin][1].pred
          /\ o.waiting = obj[Origin][1].waiting /\ o.near = obj[Origin][1].near
      BY <1>1, <2>2, FieldSet
    <3> HIDE DEF o
    <3>2. obj' = [obj EXCEPT ![Origin][1] = o]
      BY <3>1
    <3>3. /\ obj'[Origin][1] = o
          /\ \A j \in 1 .. MaxObjects : j # 1 => obj'[Origin][j] = obj[Origin][j]
          /\ \A x \in MA : x # Origin => obj'[x] = obj[x]
      BY <1>1, <3>2 DEF FloodTypes
    <3> QED
      BY <3>1, <3>3
  <2> QED
    BY <1>3, <2>1, <2>2
<1>5. OriginAt'
  BY <1>1, <1>2, <1>3, <1>4 DEF OriginAt, FloodTypes
<1>6. \A x \in MA \ {Origin} : list'[x] = list[x]
  BY <1>3 DEF FloodTypes
<1>7. AgentsSteady
  BY <1>3, <1>4, <1>6 DEF AgentsSteady
<1>8. Working' /\ PredsStay
  <2>1. \A h \in newFloods : h.ma \in MA
    BY DEF FloodTypes, Thread
  <2> QED
    BY <1>3, <1>4, <1>6, <2>1 DEF Working, PredsStay, Books, Agents
<1>9. \A s, x \in MA : SameCalls(s, x) /\ (OneAtATime(s, x) => SameWork(s, x))
  BY <1>3, <1>8, ThreadsStay DEF SameCalls
<1>10. ASSUME NEW s \in MA
       PROVE  /\ Live(s)' <=> Live(s)
              /\ Own(s)'.waiting = Own(s).waiting /\ Own(s)'.near = Own(s).near
  BY <1>1, <1>3, <1>4, <1>6 DEF Live, Own
<1>11. Undisturbed' => Undisturbed
  BY <1>3 DEF Undisturbed, fixed
<1>12. ASSUME NEW m \in MA, Idle(m)' PROVE Idle(m) \/ Own(m)'.waiting = 0
  <2>1. CASE m # Origin
    BY <1>3, <1>6, <1>12, <2>1 DEF Idle
  <2>2. CASE m = Origin /\ submit' = "flood"
    BY <1>3, <2>2 DEF Idle
  <2>3. CASE m = Origin /\ submit' = "woken"
    <3>1. SubmitTimesOut
      BY <2>3 DEF SubmitPuts, SubmitWaits, SubmitTimesOut, SubmitGets, Die
    <3>2. ~(Own(m).waiting > 0)
      BY <1>2, <2>3, <3>1 DEF SubmitTimesOut
    <3>3. Own(m).waiting \in Nat
      BY <1>1, <1>2, <1>3, <2>3, NothingDue DEF Live
    <3> QED
      BY <1>10, <3>2, <3>3
  <2> QED
    BY <1>12, <2>1, <2>2, <2>3 DEF Idle
<1> QED
  BY <1>3, <1>5, <1>7, <1>8, <1>9, <1>10, <1>11, <1>12, QuietStep

------------------------------------------------------------------------------
(* Calls that are served without the object *)

\* The request c of s to x is gone, and at most the answer n comes for it.
LEMMA RequestServed ==
  ASSUME FloodTypes, FloodTypes', Books, NEW c \in msgs, c.type \in Requests,
         NEW N, NEW n, n \in Message, N \subseteq {n},
         n.type \in Answers, n.from = c.to, n.to = c.from,
         Accepted(n) => Accepted(c),
         msgs' = (msgs \ {c}) \cup N,
         UNCHANGED <<fixed, reqIdList, obj, list, newFloods, submit, alive>>,
         late => late', looped => looped', Undisturbed' => n \in N
  PROVE  Books'
<1> DEFINE s0 == c.from
           x0 == c.to
<1>1. /\ s0 \in MA /\ x0 \in MA /\ On(c, s0, x0) /\ On(n, s0, x0)
      /\ c.type \notin {"stopFlooding"} /\ n.type # "stopFlooding"
  BY DEF FloodTypes, Message, On, Requests, Answers
<1>2. AgentsSteady
  BY <1>1 DEF AgentsSteady
<1>3. OriginAt' /\ Working'
  BY DEF Books, Agents, OriginAt, Working
<1>4. PredsStay /\ Agents' /\ \A s, x \in MA : Mine(s, x) => Mine(s, x)'
  BY <1>2, <1>3, AgentsKept DEF Books
<1>5. \A s \in MA : /\ Live(s)' <=> Live(s)
                    /\ Own(s)' = Own(s)
  BY DEF Live, Own
<1>6. \A s, x \in MA : SameWork(s, x)
  BY <1>4, ThreadsStay DEF Books, Pair
<1>7. ASSUME NEW s \in MA, NEW x \in MA, ~(s = s0 /\ x = x0)
      PROVE  Pair(s, x)' /\ (Busy(s, x)' <=> Busy(s, x))
  <2>1. SameCalls(s, x)
    <3> SUFFICES ASSUME NEW e, On(e, s, x) PROVE e \in msgs' <=> e \in msgs
      BY DEF SameCalls
    <3>1. e # c /\ e # n
      BY <1>1, <1>7, OnOnce
    <3> QED
      BY <3>1
  <2>2. Pair(s, x) /\ SameWork(s, x)
    BY <1>6 DEF Books
  <2>3. /\ Busy(s, x) => Live(s)'
        /\ Works(s, x) => Mine(s, x)'
    BY <1>4, <1>5 DEF Books, Pair
  <2> QED
    BY <2>1, <2>2, <2>3, PairKept
<1>8. /\ Pair(s0, x0)' /\ Busy(s0, x0)
      /\ Undisturbed' => Busy(s0, x0)'
  <2>1. Pair(s0, x0) /\ c \in Calls(s0, x0)
    BY <1>1 DEF Books, Calls
  <2>2. Threads(s0, x0) = {} /\ Threads(s0, x0)' = {}
    BY <1>1, <1>6, <2>1 DEF Pair, OneAtATime, SameWork
  <2>3. \A e \in Calls(s0, x0)' : e = n /\ n \in N
    BY <2>1 DEF Calls, Pair, OneAtATime
  <2>4. Busy(s0, x0) /\ Live(s0)'
    BY <1>1, <1>5, <2>1 DEF Busy, Pair
  <2>5. Works(s0, x0)' => Mine(s0, x0)'
    <3>1. Works(s0, x0)' => Accepted(c)
      BY <2>2, <2>3 DEF Works
    <3> QED
      BY <1>1, <1>4, <2>1, <3>1 DEF Works, Pair
  <2>6. \A d, e \in Calls(s0, x0)' : d = e
    BY <2>3
  <2>7. Undisturbed' => n \in Calls(s0, x0)'
    BY <1>1 DEF Calls
  <2> QED
    BY <2>2, <2>4, <2>5, <2>6, <2>7, PairOfOne DEF Busy
<1>9. ASSUME NEW s \in MA PROVE Counted(s)'
  <2>1. Counted(s)
    BY DEF Books
  <2>2. Undisturbed' => Undisturbed
    BY DEF Undisturbed, fixed
  <2>3. \A x \in MA : /\ Busy(s, x)' => Busy(s, x)
                      /\ Undisturbed' /\ Busy(s, x) => Busy(s, x)'
                      /\ alive'[x] => alive[x]
                      /\ Live(s)' /\ InArea(s, x) /\ Mine(s, x) => Mine(s, x)'
    BY <1>4, <1>7, <1>8
  <2> QED
    BY <1>5, <2>1, <2>2, <2>3, CountKept
<1>10. IdleCountNothing'
  <2>1. \A m \in MA : Idle(m)' => Idle(m)
    BY DEF Idle
  <2> QED
    BY <1>5, <2>1 DEF Books, IdleCountNothing
<1> QED
  BY <1>1, <1>4, <1>7, <1>8, <1>9, <1>10 DEF Books

\* The request is gone and nothing comes for it.
LEMMA RequestLost ==
  ASSUME FloodTypes, FloodTypes', Books, NEW c \in msgs, c.type \in Requests,
         msgs' = msgs \ {c}, ~Undisturbed',
         UNCHANGED <<fixed, reqIdList, obj, list, newFloods, submit, alive>>,
         late => late', looped => looped'
  PROVE  Books'
<1> DEFINE n == [c EXCEPT !.type = "alreadyContacted", !.from = c.to, !.to = c.from]
<1>1. /\ n \in Message /\ n.type \in Answers /\ n.from = c.to /\ n.to = c.from
      /\ ~Accepted(n)
  BY DEF FloodTypes, Message, Answers, Accepted
<1> DEFINE N == {}
<1>2. msgs' = (msgs \ {c}) \cup N /\ N \subseteq {n} /\ (Undisturbed' => n \in N)
  OBVIOUS
<1> HIDE DEF n, N
<1> QED
  BY <1>1, <1>2, RequestServed

\* The answer n of x to s, if s is there to get it.
LEMMA AnswerIs ==
  ASSUME FloodTypes, NEW type \in Answers, NEW c \in msgs
  PROVE  LET n == Msg(type, c.to, c.from, c.tag) IN
         /\ n \in Message /\ n.type = type /\ n.from = c.to /\ n.to = c.from
         /\ Call(type, c.to, c.from, c.tag) \subseteq {n}
         /\ alive[c.from] => n \in Call(type, c.to, c.from, c.tag)
  BY DEF Msg, Message, Call, FloodTypes

\* submit_local() has ended: the answer is under way instead.
LEMMA LocalKeeps ==
  ASSUME FloodTypes, FloodTypes', Books, NEW c \in msgs, SubmitLocal(c)
  PROVE  Books'
<1> DEFINE type == IF c.to \in offers THEN "serviceFound" ELSE "serviceNotFound"
           n == Msg(type, c.to, c.from, c.tag)
           N == Call(type, c.to, c.from, c.tag)
<1>1. type \in Answers
  BY DEF Answers
<1>2. /\ msgs' = (msgs \ {c}) \cup N
      /\ c.type = "submit_local"
      /\ UNCHANGED <<fixed, reqIdList, obj, list, newFloods, submit, alive, late, looped>>
  BY DEF SubmitLocal, Serve
<1> HIDE DEF type
<1>3. /\ n \in Message /\ n.type = type /\ n.from = c.to /\ n.to = c.from
      /\ N \subseteq {n} /\ (alive[c.from] => n \in N)
  BY <1>1, AnswerIs
<1>4. Undisturbed' => n \in N
  BY <1>2, <1>3 DEF Undisturbed, FloodTypes, Message
<1> HIDE DEF n, N
<1>5. c.type \in Requests /\ Accepted(c)
  BY <1>2 DEF Requests, Accepted
<1> QED
  BY <1>1, <1>2, <1>3, <1>4, <1>5, RequestServed

\* An agent that knows the request refuses it.
LEMMA KnownKeeps ==
  ASSUME FloodTypes, FloodTypes', Books, NEW c \in msgs, SearchService(c), c.to \in reqIdList
  PROVE  Books'
<1> DEFINE n == Msg("alreadyContacted", c.to, c.from, c.tag)
           N == Call("alreadyContacted", c.to, c.from, c.tag)
<1>1. "alreadyContacted" \in Answers
  BY DEF Answers
<1>2. /\ msgs' = (msgs \ {c}) \cup N
      /\ c.type = "searchService"
      /\ UNCHANGED <<fixed, reqIdList, obj, list, newFloods, submit, alive, late>>
      /\ looped => looped'
  BY DEF SearchService, Serve
<1>3. /\ n \in Message /\ n.type = "alreadyContacted" /\ n.from = c.to /\ n.to = c.from
      /\ N \subseteq {n} /\ (alive[c.from] => n \in N)
  BY <1>1, AnswerIs
<1>4. Undisturbed' => n \in N
  BY <1>2, <1>3 DEF Undisturbed, FloodTypes, Message
<1> HIDE DEF n, N
<1>5. c.type \in Requests /\ ~Accepted(n)
  BY <1>2, <1>3 DEF Requests, Accepted
<1> QED
  BY <1>1, <1>2, <1>3, <1>4, <1>5, RequestServed

\* A call whose caller is not in the naming service is lost.
LEMMA UnknownKeeps ==
  ASSUME FloodTypes, FloodTypes', Books, NEW c \in msgs, CallerUnknown(c)
  PROVE  Books'
<1>1. /\ msgs' = msgs \ {c} /\ c.type \in Requests /\ c.from \notin named
      /\ UNCHANGED <<fixed, reqIdList, obj, list, newFloods, submit, alive, late, looped>>
  BY DEF CallerUnknown, Serve, Requests
<1>2. ~Undisturbed'
  BY <1>1 DEF Undisturbed, FloodTypes, Message, fixed
<1> QED
  BY <1>1, <1>2, RequestLost

------------------------------------------------------------------------------
(* Crashes *)

\* A crash takes calls and threads away: what is left is still counted.
LEMMA CrashKeeps ==
  ASSUME FloodTypes, FloodTypes', Books, NEW m \in MA, Crash(m)
  PROVE  Books'
<1>1. /\ m # Origin /\ ~alive'[m] /\ \A x \in MA : alive'[x] => alive[x]
      /\ msgs' = {c \in msgs : c.to # m} /\ newFloods' = {h \in newFloods : h.ma # m}
      /\ UNCHANGED <<fixed, reqIdList, obj, list, submit>>
  BY DEF Crash, Die, FloodTypes
<1>2. ~Undisturbed'
  BY <1>1 DEF Undisturbed
<1>3. AgentsSteady /\ OriginAt' /\ Working'
  BY <1>1 DEF AgentsSteady, Books, Agents, OriginAt, Working
<1>4. Agents' /\ \A s, x \in MA : Mine(s, x) => Mine(s, x)'
  BY <1>3, AgentsKept DEF Books
<1>5. \A s \in MA : /\ Live(s)' <=> Live(s)
                    /\ Own(s)' = Own(s)
  BY <1>1 DEF Live, Own
<1>6. ASSUME NEW s \in MA, NEW x \in MA
      PROVE  Pair(s, x)' /\ (Busy(s, x)' => Busy(s, x))
  <2>1. Calls(s, x)' \subseteq Calls(s, x) /\ Threads(s, x)' \subseteq Threads(s, x)
    BY <1>1 DEF Calls, Threads, At
  <2>2. Pair(s, x)
    BY DEF Books
  <2>3. /\ Busy(s, x)' => Busy(s, x)
        /\ Works(s, x)' => Works(s, x)
    BY <2>1 DEF Busy, Works
  <2>4. OneAtATime(s, x)'
    BY <2>1, <2>2 DEF Pair, OneAtATime
  <2> QED
    BY <1>4, <1>5, <2>2, <2>3, <2>4 DEF Pair
<1>7. ASSUME NEW s \in MA PROVE Counted(s)'
  <2>1. Counted(s)
    BY DEF Books
  <2>2. \A x \in MA : /\ Busy(s, x)' => Busy(s, x)
                      /\ Undisturbed' /\ Busy(s, x) => Busy(s, x)'
                      /\ alive'[x] => alive[x]
                      /\ Live(s)' /\ InArea(s, x) /\ Mine(s, x) => Mine(s, x)'
    BY <1>1, <1>2, <1>4, <1>6
  <2> QED
    BY <1>2, <1>5, <2>1, <2>2, CountKept
<1>8. IdleCountNothing'
  <2>1. \A x \in MA : Idle(x)' => Idle(x)
    BY <1>1 DEF Idle
  <2> QED
    BY <1>5, <2>1 DEF Books, IdleCountNothing
<1> QED
  BY <1>4, <1>6, <1>7, <1>8 DEF Books

\* What a thread waits on is never freed.
LEMMA NothingFreed ==
  ASSUME FloodTypes, Agents, NEW m \in MA
  PROVE  ~UsesFreed(m)
<1>1. ASSUME NEW h \in newFloods, h.ma = m, obj[m][h.obj].life = "freed" PROVE FALSE
  <2>1. h.obj \in 1 .. MaxObjects
    BY DEF FloodTypes, Thread
  <2> QED
    BY <1>1, <2>1 DEF Agents, Working, AgentAt
<1>2. ASSUME m = Origin, submit \in {"wait", "woken"}, obj[m][1].life = "freed" PROVE FALSE
  <2>1. 1 \in 1 .. MaxObjects
    BY FloodingAssumption DEF FloodingAssumption
  <2> QED
    BY <1>2, <2>1 DEF Agents, OriginAt
<1> QED
  BY <1>1, <1>2 DEF UsesFreed

------------------------------------------------------------------------------
(* floodNextStep() *)

\* The agent m goes one step on: it counts whom it calls.
LEMMA StepCounts ==
  ASSUME FloodTypes, NEW m \in MA, NEW o \in Object, o = Own(m), Due(m, {}), Live(m)',
         Own(m)' = NextStep(m, o), alive' = alive,
         \A c : \A y \in MA : On(c, m, y) => (c \in msgs' <=> c \in StepCalls(m, o)),
         \A y \in MA : Threads(m, y)' = {},
         \A y \in MA : Mine(m, y) => Mine(m, y)'
  PROVE  Counted(m)' /\ \A y \in MA : Pair(m, y)'
<1> DEFINE A == Contacted(m, o, "NotContacted")
           B == Contacted(m, o, "Flooding")
<1>0. PICK Q : Q = A \cup B
  OBVIOUS
<1>1. /\ IsFiniteSet(A) /\ IsFiniteSet(B) /\ A \subseteq MA /\ B \subseteq MA
      /\ Cardinality(A) \in Nat /\ Cardinality(B) \in Nat
  BY Neighbours
<1>2. \A y : /\ y \in A => o.near[y] = "NotContacted" /\ alive[y]
             /\ y \in B => o.near[y] = "Flooding" /\ alive[y]
             /\ y \in Gone(m, o) => ~alive[y]
  BY DEF Contacted, Gone
<1>3. A \cap B = {}
  BY <1>2
<1>4. Cardinality(Q) = Cardinality(A) + Cardinality(B)
  <2>1. Cardinality(Q) = Cardinality(A) + Cardinality(B) - Cardinality(A \cap B)
    BY <1>0, <1>1, FS_Union
  <2>2. Cardinality(A \cap B) = 0
    BY <1>3, FS_EmptySet
  <2> QED
    BY <1>1, <2>1, <2>2
<1>5. /\ Own(m)'.waiting = Cardinality(Q)
      /\ \A y \in MA : Own(m)'.near[y] = IF y \in A THEN "Flooding"
                                         ELSE IF y \in Gone(m, o) THEN "Flooded" ELSE o.near[y]
  BY <1>4, NextStepIs
<1>6. /\ \A c \in StepCalls(m, o) : /\ c.from = m /\ c = Msg(c.type, m, c.to, <<m, o.hop + 1>>)
                                    /\ \/ c.type = "searchService" /\ c.to \in A
                                       \/ c.type = "newFlood" /\ c.to \in B
      /\ \A y \in A : \E c \in StepCalls(m, o) : c.type = "searchService" /\ c.to = y
      /\ \A y \in B : \E c \in StepCalls(m, o) : c.type = "newFlood" /\ c.to = y
  BY StepCallsAre
<1> HIDE DEF A, B
<1>7. ASSUME NEW y \in MA
      PROVE  /\ \A c : c \in Calls(m, y)' <=> c \in StepCalls(m, o) /\ c.to = y
             /\ Busy(m, y)' <=> y \in Q
  <2>1. \A c \in StepCalls(m, o) : c.to = y => On(c, m, y)
    BY <1>6 DEF On, Requests
  <2>2. \A c \in StepCalls(m, o) : On(c, m, y) => c.to = y
    BY <1>6 DEF On, Requests, Answers
  <2>3. \A c : c \in Calls(m, y)' <=> c \in StepCalls(m, o) /\ c.to = y
    BY <2>1, <2>2 DEF Calls
  <2>4. Calls(m, y)' # {} <=> y \in Q
    BY <1>0, <1>6, <2>3
  <2> QED
    BY <2>3, <2>4 DEF Busy
<1>8. ASSUME NEW y \in MA, y \in B PROVE Mine(m, y)'
  BY <1>2, <1>8 DEF Due, InArea
<1>9. Due(m, Q)'
  <2> SUFFICES ASSUME NEW y \in MA, y \notin Q, InArea(m, y)' PROVE Mine(m, y)'
    BY <1>5, <1>7 DEF Due
  <2>1. Own(m)'.near[y] = o.near[y] /\ alive[y]
    BY <1>0, <1>2, <1>5 DEF InArea
  <2>2. InArea(m, y)
    BY <2>1 DEF InArea
  <2> QED
    BY <2>2 DEF Due
<1>10. ASSUME NEW y \in MA PROVE Pair(m, y)'
  <2>1. \A c, d \in Calls(m, y)' : c = d
    <3> SUFFICES ASSUME NEW c \in Calls(m, y)', NEW d \in Calls(m, y)' PROVE c = d
      OBVIOUS
    <3>1. c \in StepCalls(m, o) /\ d \in StepCalls(m, o) /\ c.to = y /\ d.to = y
      BY <1>7
    <3>2. c.type = d.type
      BY <1>3, <1>6, <3>1
    <3> QED
      BY <1>6, <3>1, <3>2
  <2>2. Works(m, y)' => Mine(m, y)'
    <3>1. Works(m, y)' => \E c \in StepCalls(m, o) : c.to = y /\ Accepted(c)
      BY <1>7 DEF Works
    <3> QED
      BY <1>6, <1>8, <3>1 DEF Accepted
  <2> QED
    BY <2>1, <2>2, PairOfOne
<1> QED
  BY <1>0, <1>1, <1>9, <1>10 DEF Counted

\* The origin goes one step on.
LEMMA FloodKeeps ==
  ASSUME FloodTypes, FloodTypes', Books, SubmitFloods
  PROVE  Books'
<1> DEFINE o == obj[Origin][1]
<1>1. Origin \in MA /\ 1 \in 1 .. MaxObjects /\ o \in Object
  BY FloodingAssumption DEF FloodingAssumption, FloodTypes
<1>2. /\ submit = "flood" /\ submit' = (IF completelyFlooded(Origin, o) THEN "flood" ELSE "put")
      /\ obj' = [obj EXCEPT ![Origin][1] = NextStep(Origin, o)]
      /\ msgs' = msgs \cup StepCalls(Origin, o)
      /\ UNCHANGED <<fixed, reqIdList, list, newFloods, alive, late, looped>>
  BY DEF SubmitFloods
<1> HIDE DEF o
<1>3. o = Own(Origin) /\ OriginAt
  BY <1>1 DEF Own, o, Books, Agents
<1>4. NextStep(Origin, o) \in Object /\ NextStep(Origin, o).life = o.life
      /\ NextStep(Origin, o).pred = o.pred
  BY <1>1, NextStepIs
<1>5. /\ obj'[Origin][1] = NextStep(Origin, o)
      /\ \A j \in 1 .. MaxObjects : j # 1 => obj'[Origin][j] = obj[Origin][j]
      /\ \A x \in MA : x # Origin => obj'[x] = obj[x]
  <2>1. PICK N : N = NextStep(Origin, o) /\ obj' = [obj EXCEPT ![Origin][1] = N]
    BY <1>2
  <2>2. /\ obj'[Origin][1] = N
        /\ \A j \in 1 .. MaxObjects : j # 1 => obj'[Origin][j] = obj[Origin][j]
        /\ \A x \in MA : x # Origin => obj'[x] = obj[x]
    BY <1>1, <2>1 DEF FloodTypes
  <2> QED
    BY <2>1, <2>2
<1>6. OriginAt'
  BY <1>2, <1>3, <1>4, <1>5 DEF OriginAt, o
<1>7. \A c \in StepCalls(Origin, o) : c.from = Origin /\ c.type \in {"searchService", "newFlood"}
  BY <1>1, StepCallsFrom
<1>8. AgentsSteady
  BY <1>2, <1>5, <1>7 DEF AgentsSteady
<1>9. Working'
  BY <1>2 DEF Working, Books, Agents
<1>10. Agents' /\ PredsStay /\ \A s, x \in MA : Mine(s, x) => Mine(s, x)'
  BY <1>6, <1>8, <1>9, AgentsKept DEF Books
<1>11. Due(Origin, {}) /\ Live(Origin) /\ Live(Origin)'
  <2>1. Idle(Origin) /\ Live(Origin) /\ Live(Origin)'
    BY <1>2 DEF Idle, Live
  <2>2. Own(Origin).waiting = 0 /\ Counted(Origin)
    BY <1>1, <2>1 DEF Books, IdleCountNothing
  <2> QED
    BY <1>1, <2>1, <2>2, NothingDue
<1>12. \A s, x \in MA : SameWork(s, x)
  BY <1>2, <1>10, ThreadsStay DEF Books, Pair
<1>13. Own(Origin)' = NextStep(Origin, o)
  BY <1>5 DEF Own
<1>14. \A s, x \in MA : s # Origin => SameCalls(s, x)
  BY <1>2, <1>7 DEF SameCalls, On, Requests, Answers
<1>15. Counted(Origin)' /\ \A y \in MA : Pair(Origin, y)'
  <2>1. \A y \in MA : Threads(Origin, y) = {} /\ Calls(Origin, y) = {}
    BY <1>11 DEF Due, Busy
  <2>2. \A y \in MA : Threads(Origin, y)' = {}
    BY <1>1, <1>12, <2>1 DEF SameWork
  <2>3. \A c : \A y \in MA : On(c, Origin, y) => (c \in msgs' <=> c \in StepCalls(Origin, o))
    BY <1>2, <2>1 DEF Calls
  <2>4. \A y \in MA : Mine(Origin, y) => Mine(Origin, y)'
    BY <1>1, <1>10
  <2> QED
    BY <1>1, <1>2, <1>3, <1>11, <1>13, <2>2, <2>3, <2>4, StepCounts
<1>16. ASSUME NEW s \in MA, s # Origin
       PROVE  Counted(s)' /\ \A x \in MA : Pair(s, x)'
  <2>1. (Live(s)' <=> Live(s)) /\ Own(s)' = Own(s)
    BY <1>2, <1>5, <1>16 DEF Live, Own
  <2>2. ASSUME NEW x \in MA PROVE Pair(s, x)' /\ (Busy(s, x)' <=> Busy(s, x))
    <3>1. Pair(s, x)
      BY DEF Books
    <3>2. (Busy(s, x) => Live(s)') /\ (Works(s, x) => Mine(s, x)')
      BY <1>10, <2>1, <3>1 DEF Pair
    <3> QED
      BY <1>12, <1>14, <1>16, <3>1, <3>2, PairKept
  <2>3. Counted(s) /\ (Undisturbed' => Undisturbed)
    BY <1>2 DEF Books, Undisturbed, fixed
  <2>4. \A x \in MA : /\ Busy(s, x)' => Busy(s, x)
                      /\ Undisturbed' /\ Busy(s, x) => Busy(s, x)'
                      /\ alive'[x] => alive[x]
                      /\ Live(s)' /\ InArea(s, x) /\ Mine(s, x) => Mine(s, x)'
    BY <1>2, <1>10, <2>2
  <2> QED
    BY <2>1, <2>2, <2>3, <2>4, CountKept
<1>17. IdleCountNothing'
  <2>1. ASSUME Idle(Origin)' PROVE Own(Origin)'.waiting = 0
    <3>1. completelyFlooded(Origin, o)
      BY <1>2, <2>1 DEF Idle
    <3>2. Contacted(Origin, o, "NotContacted") = {} /\ Contacted(Origin, o, "Flooding") = {}
      BY <3>1 DEF completelyFlooded, Contacted
    <3>3. Cardinality({}) = 0
      BY FS_EmptySet
    <3>4. NextStep(Origin, o).waiting = 0
      BY <1>1, <3>2, <3>3, NextStepIs
    <3> QED
      BY <1>13, <3>4
  <2>2. ASSUME NEW m \in MA, m # Origin, Idle(m)' PROVE Own(m)'.waiting = 0
    <3>1. Idle(m) /\ Own(m)' = Own(m)
      BY <1>2, <1>5, <2>2 DEF Idle, Own
    <3> QED
      BY <3>1 DEF Books, IdleCountNothing
  <2> QED
    BY <2>1, <2>2 DEF IdleCountNothing
<1> QED
  BY <1>10, <1>15, <1>16, <1>17 DEF Books

\* newFlood(): the request is taken, and the thread waits or answers at once.
LEMMA NewFloodKeeps ==
  ASSUME FloodTypes, FloodTypes', Books, NEW c \in msgs, NewFlood(c)
  PROVE  Books'
<1>1. PICK m, s0, k, o : m = c.to /\ s0 = c.from /\ k = list[m] /\ o = obj[m][k]
  OBVIOUS
<1>2. /\ m \in MA /\ s0 \in MA /\ c \in Message /\ On(c, s0, m) /\ Accepted(c)
      /\ c.type = "newFlood"
  BY <1>1 DEF FloodTypes, Message, NewFlood, On, Requests, Accepted
<1>3. Mine(s0, m) /\ Live(s0) /\ Threads(s0, m) = {} /\ \A d \in Calls(s0, m) : d = c
  <2>1. c \in Calls(s0, m) /\ Pair(s0, m)
    BY <1>2 DEF Calls, Books
  <2> QED
    BY <1>2, <2>1 DEF Pair, OneAtATime, Works, Busy
<1>4. /\ m # Origin /\ k # 0 /\ k \in 1 .. MaxObjects /\ o \in Object /\ o.pred = s0
      /\ alive[m]
  <2>1. m # Origin /\ k # 0 /\ o.pred = s0
    BY <1>1, <1>3 DEF Mine
  <2>2. k \in 1 .. MaxObjects
    BY <1>1, <1>2, <2>1, FloodingAssumption DEF FloodTypes, FloodingAssumption
  <2>3. obj[m][k] \in Object
    BY <1>2, <2>2 DEF FloodTypes
  <2>4. alive[m]
    BY <1>1 DEF NewFlood, canGet
  <2> QED
    BY <1>1, <2>1, <2>2, <2>3, <2>4
<1>5. /\ obj' = [obj EXCEPT ![m][k] = NextStep(m, o)]
      /\ UNCHANGED <<fixed, reqIdList, list, submit, alive, late, looped>>
      /\ \/ /\ completelyFlooded(m, o)
            /\ msgs' = (msgs \ {c}) \cup Call("floodedArea", m, o.pred, c.tag)
            /\ newFloods' = newFloods
         \/ /\ ~completelyFlooded(m, o)
            /\ msgs' = (msgs \ {c}) \cup StepCalls(m, o)
            /\ newFloods' = newFloods \cup {[ma |-> m, obj |-> k, tag |-> c.tag, pc |-> "listed"]}
  BY <1>1 DEF NewFlood
<1>6. /\ NextStep(m, o) \in Object /\ NextStep(m, o).life = o.life
      /\ NextStep(m, o).pred = o.pred
  BY <1>2, <1>4, NextStepIs
<1>7. /\ obj'[m][k] = NextStep(m, o)
      /\ \A j \in 1 .. MaxObjects : j # k => obj'[m][j] = obj[m][j]
      /\ \A x \in MA : x # m => obj'[x] = obj[x]
  <2>1. obj' = [obj EXCEPT ![m][k] = NextStep(m, o)]
    BY <1>5
  <2>2. m \in MA /\ k \in 1 .. MaxObjects /\ NextStep(m, o) \in Object
    BY <1>2, <1>4, <1>6
  <2> QED
    BY <2>1, <2>2, ObjectSet
<1>8. \A d \in StepCalls(m, o) : d.from = m /\ d.type \in {"searchService", "newFlood"}
  BY <1>2, <1>4, StepCallsFrom
<1>9. PICK n : n = Msg("floodedArea", m, s0, c.tag)
  OBVIOUS
<1>10. /\ n \in Message /\ n.type = "floodedArea" /\ On(n, s0, m)
       /\ Call("floodedArea", m, s0, c.tag) \subseteq {n}
       /\ alive[s0] => n \in Call("floodedArea", m, s0, c.tag)
  <2>1. "floodedArea" \in Answers
    BY DEF Answers
  <2> QED
    BY <1>1, <1>9, <2>1, AnswerIs DEF On
<1>11. PICK g : g = [ma |-> m, obj |-> k, tag |-> c.tag, pc |-> "listed"]
  OBVIOUS
<1>12. g.ma = m /\ g.obj = k /\ g.pc = "listed"
  BY <1>11
<1>13. newFloods' = newFloods \/ newFloods' = newFloods \cup {g}
  BY <1>5, <1>11
<1>14. AgentsSteady /\ OriginAt'
  <2>1. OriginAt'
    BY <1>2, <1>4, <1>5, <1>7 DEF OriginAt, Books, Agents
  <2>2. \A d \in msgs' : d.type = "stopFlooding" => d \in msgs
    BY <1>4, <1>5, <1>8, <1>10
  <2>3. \A x \in MA \ {Origin} : \A j \in 1 .. MaxObjects :
           obj'[x][j].pred = obj[x][j].pred /\ obj'[x][j].life = obj[x][j].life
    BY <1>1, <1>6, <1>7
  <2> QED
    BY <1>5, <2>1, <2>2, <2>3 DEF AgentsSteady
<1>15. Working'
  BY <1>1, <1>4, <1>5, <1>12, <1>13 DEF Working, Books, Agents
<1>16. Agents' /\ PredsStay /\ \A s, x \in MA : Mine(s, x) => Mine(s, x)'
  BY <1>14, <1>15, AgentsKept DEF Books
<1>17. o = Own(m) /\ Live(m) /\ Live(m)' /\ Own(m)' = NextStep(m, o)
  BY <1>1, <1>4, <1>5, <1>7 DEF Own, Live
<1>18. Due(m, {})
  <2>1. \A h \in newFloods : h.ma # m
    <3> SUFFICES ASSUME NEW h \in newFloods, h.ma = m PROVE FALSE
      OBVIOUS
    <3>1. h.obj = k
      BY <1>1 DEF Books, Agents, Working
    <3> QED
      BY <1>1, <1>3, <1>4, <3>1 DEF Threads, At
  <2>2. Idle(m)
    BY <1>1, <1>4, <2>1 DEF Idle
  <2>3. Own(m).waiting = 0 /\ Counted(m)
    BY <1>2, <2>2 DEF Books, IdleCountNothing
  <2> QED
    BY <1>2, <1>17, <2>3, NothingDue
<1>19. s0 # m
  BY <1>2, <1>18 DEF Due, Busy, Calls
<1>20. /\ At(g, s0, m)'
       /\ \A s, x : At(g, s, x)' => s = s0 /\ x = m
  BY <1>4, <1>6, <1>7, <1>12 DEF At
\* The step of m itself.
<1>21. Counted(m)' /\ \A y \in MA : Pair(m, y)'
  <2>1. \A y \in MA : Threads(m, y) = {} /\ Calls(m, y) = {}
    BY <1>18 DEF Due, Busy
  <2>2. \A y \in MA : Threads(m, y)' = {}
    <3> SUFFICES ASSUME NEW y \in MA, NEW h \in newFloods', At(h, m, y)' PROVE FALSE
      BY DEF Threads
    <3>1. h # g
      BY <1>19, <1>20
    <3>2. h \in newFloods
      BY <1>13, <3>1
    <3>3. At(h, m, y)
      BY <1>16, <3>2 DEF PredsStay, At
    <3> QED
      BY <2>1, <3>2, <3>3 DEF Threads
  <2>3. \A c1 : \A y \in MA : On(c1, m, y) => (c1 \in msgs' <=> c1 \in StepCalls(m, o))
    <3> SUFFICES ASSUME NEW d, NEW y \in MA, On(d, m, y) PROVE d \in msgs' <=> d \in StepCalls(m, o)
      OBVIOUS
    <3>1. d \notin msgs
      BY <2>1 DEF Calls
    <3>2. d # n
      BY <1>10, <1>19, OnOnce
    <3>3. CASE completelyFlooded(m, o)
      <4>1. StepCalls(m, o) = {}
        BY <3>3 DEF StepCalls, completelyFlooded, Contacted
      <4> QED
        BY <1>4, <1>5, <1>10, <3>1, <3>2, <3>3, <4>1
    <3>4. CASE ~completelyFlooded(m, o)
      BY <1>5, <3>1, <3>4
    <3> QED
      BY <3>3, <3>4
  <2>4. \A y \in MA : Mine(m, y) => Mine(m, y)'
    BY <1>2, <1>16
  <2>5. alive' = alive
    BY <1>5
  <2> QED
    BY <1>2, <1>4, <1>17, <1>18, <2>2, <2>3, <2>4, <2>5, StepCounts
\* Its predecessor waits on, for the thread or for the answer.
<1>22. /\ Pair(s0, m)' /\ Busy(s0, m)
       /\ Undisturbed' => Busy(s0, m)'
  <2>1. Busy(s0, m)
    BY <1>2 DEF Busy, Calls
  <2>2. Live(s0)' /\ Mine(s0, m)'
    BY <1>2, <1>3, <1>5, <1>16 DEF Live
  <2>3. \A h \in newFloods : ~At(h, s0, m)
    BY <1>3 DEF Threads
  <2>4. \A h \in newFloods : ~At(h, s0, m)'
    BY <1>16, <2>3 DEF PredsStay, At
  <2>5. \A d \in StepCalls(m, o) : ~On(d, s0, m)
    BY <1>8, <1>19 DEF On, Requests, Answers
  <2>6. CASE completelyFlooded(m, o)
    <3>1. Threads(s0, m)' = {}
      BY <1>5, <2>4, <2>6 DEF Threads
    <3>2. \A d \in Calls(s0, m)' : d = n
      BY <1>3, <1>4, <1>5, <1>10, <2>6 DEF Calls
    <3>3. Undisturbed' => n \in Calls(s0, m)'
      BY <1>2, <1>4, <1>5, <1>10, <2>6 DEF Calls, Undisturbed
    <3>4. \A d, e \in Calls(s0, m)' : d = e
      BY <3>2
    <3> QED
      BY <2>1, <2>2, <3>1, <3>3, <3>4, PairOfOne DEF Busy
  <2>7. CASE ~completelyFlooded(m, o)
    <3>1. Calls(s0, m)' = {}
      BY <1>3, <1>5, <2>5, <2>7 DEF Calls
    <3>2. newFloods' = newFloods \cup {g}
      BY <1>5, <1>11, <2>7
    <3>3. \A h \in Threads(s0, m)' : h = g
      BY <2>4, <3>2 DEF Threads
    <3>4. g \in Threads(s0, m)'
      BY <1>20, <3>2 DEF Threads
    <3>5. \A h, e \in Threads(s0, m)' : h = e
      BY <3>3
    <3> QED
      BY <2>1, <2>2, <3>1, <3>4, <3>5, PairOfOne DEF Busy
  <2> QED
    BY <2>6, <2>7
\* The others do not see it.
<1>23. ASSUME NEW s \in MA, s # m, NEW x \in MA, ~(s = s0 /\ x = m)
       PROVE  Pair(s, x)' /\ (Busy(s, x)' <=> Busy(s, x))
  <2>1. Pair(s, x)
    BY DEF Books
  <2>2. SameCalls(s, x)
    <3> SUFFICES ASSUME NEW d, On(d, s, x) PROVE d \in msgs' <=> d \in msgs
      BY DEF SameCalls
    <3>1. d # c /\ d # n
      BY <1>2, <1>10, <1>23, OnOnce
    <3>2. d \notin StepCalls(m, o)
      BY <1>8, <1>23 DEF On, Requests, Answers
    <3> QED
      BY <1>4, <1>5, <1>10, <3>1, <3>2
  <2>3. \A h : h \in Threads(s, x)' <=> h \in Threads(s, x)
    <3> SUFFICES ASSUME NEW h PROVE h \in Threads(s, x)' <=> h \in Threads(s, x)
      OBVIOUS
    <3>1. CASE h \in newFloods
      <4>1. h \in newFloods' /\ (At(h, s, x)' <=> At(h, s, x))
        BY <1>13, <1>16, <3>1 DEF PredsStay, At
      <4> QED
        BY <3>1, <4>1 DEF Threads
    <3>2. CASE h \notin newFloods
      <4>1. h \in newFloods' => h = g
        BY <1>13, <3>2
      <4> QED
        BY <1>20, <1>23, <3>2, <4>1 DEF Threads
    <3> QED
      BY <3>1, <3>2
  <2>4. SameWork(s, x)
    BY <2>1, <2>3 DEF SameWork, Pair, OneAtATime
  <2>5. (Busy(s, x) => Live(s)') /\ (Works(s, x) => Mine(s, x)')
    BY <1>5, <1>16, <2>1 DEF Pair, Live
  <2> QED
    BY <2>1, <2>2, <2>4, <2>5, PairKept
<1>24. ASSUME NEW s \in MA, s # m PROVE Counted(s)'
  <2>1. (Live(s)' <=> Live(s)) /\ Own(s)' = Own(s)
    BY <1>5, <1>7, <1>24, FloodingAssumption DEF Live, Own, FloodingAssumption
  <2>2. Counted(s) /\ (Undisturbed' => Undisturbed)
    BY <1>5 DEF Books, Undisturbed, fixed
  <2>3. \A x \in MA : /\ Busy(s, x)' => Busy(s, x)
                      /\ Undisturbed' /\ Busy(s, x) => Busy(s, x)'
                      /\ alive'[x] => alive[x]
                      /\ Live(s)' /\ InArea(s, x) /\ Mine(s, x) => Mine(s, x)'
    BY <1>5, <1>16, <1>22, <1>23, <1>24
  <2> QED
    BY <2>1, <2>2, <2>3, CountKept
<1>25. IdleCountNothing'
  <2> SUFFICES ASSUME NEW x \in MA, Idle(x)' PROVE Own(x)'.waiting = 0
    BY DEF IdleCountNothing
  <2>1. CASE x # m
    <3>1. \A h \in newFloods : h \in newFloods'
      BY <1>13
    <3>2. Idle(x) /\ Own(x)' = Own(x)
      BY <1>5, <1>7, <2>1, <3>1 DEF Idle, Own
    <3> QED
      BY <3>2 DEF Books, IdleCountNothing
  <2>2. CASE x = m
    <3>1. newFloods' # newFloods \cup {g}
      BY <1>4, <1>12, <2>2 DEF Idle
    <3>2. completelyFlooded(m, o)
      BY <1>5, <1>11, <3>1
    <3>3. Contacted(m, o, "NotContacted") = {} /\ Contacted(m, o, "Flooding") = {}
      BY <3>2 DEF completelyFlooded, Contacted
    <3>4. Cardinality({}) = 0
      BY FS_EmptySet
    <3>5. NextStep(m, o).waiting = 0
      <4>1. NextStep(m, o).waiting = Cardinality(Contacted(m, o, "NotContacted"))
                                       + Cardinality(Contacted(m, o, "Flooding"))
        BY <1>2, <1>4, NextStepIs
      <4> QED
        BY <3>3, <3>4, <4>1
    <3> QED
      BY <1>17, <2>2, <3>5
  <2> QED
    BY <2>1, <2>2
<1>26. \A s, x \in MA : Pair(s, x)'
  BY <1>21, <1>22, <1>23
<1> QED
  BY <1>16, <1>21, <1>24, <1>25, <1>26 DEF Books

------------------------------------------------------------------------------
(* Answers *)

\* signal() moves one sleeper of the agent, or nobody.
LEMMA SignalIs ==
  ASSUME FloodTypes, NEW m, NEW k, Signal(m, k)
  PROVE  \/ m = Origin /\ submit = "wait" /\ submit' = "woken" /\ newFloods' = newFloods
         \/ /\ submit' = submit
            /\ \E h \in newFloods :
                 /\ h.ma = m /\ newFloods' = (newFloods \ {h}) \cup {[h EXCEPT !.pc = "woken"]}
         \/ submit' = submit /\ newFloods' = newFloods
  BY DEF Signal, OriginSleeps, Sleeping, Awake

\* An answer comes: one agent less to wait for.
LEMMA AnswerKeeps ==
  ASSUME FloodTypes, FloodTypes', Books, NEW c \in msgs, ServeAnswer(c)
  PROVE  Books'
<1>1. PICK s, x, k, o : s = c.to /\ x = c.from /\ k = list[s] /\ o = obj[s][k]
  OBVIOUS
<1>2. /\ s \in MA /\ x \in MA /\ c \in Message /\ On(c, s, x) /\ c.type \in Answers
      /\ c.type # "stopFlooding"
  BY <1>1 DEF FloodTypes, Message, ServeAnswer, On, Answers
<1>3. /\ k # 0 /\ k \in 1 .. MaxObjects /\ o \in Object /\ o = Own(s)
  <2>1. k # 0
    BY <1>1 DEF ServeAnswer, canGet
  <2>2. k \in 1 .. MaxObjects
    BY <1>1, <1>2, <2>1, FloodingAssumption DEF FloodTypes, FloodingAssumption
  <2>3. s = Origin => k = 1
    BY <1>1, <2>1 DEF Books, Agents, OriginAt
  <2> QED
    BY <1>1, <1>2, <2>1, <2>2, <2>3 DEF FloodTypes, Own
<1>4. PICK N : N = Answered(o, c)
  OBVIOUS
<1>5. /\ N \in Object /\ N.life = o.life /\ N.pred = o.pred /\ N.waiting = o.waiting - 1
      /\ \A y \in MA : y # x => N.near[y] = o.near[y]
      /\ c.type = "alreadyContacted" => N.near[x] = "AlreadyContacted"
  BY <1>1, <1>2, <1>3, <1>4, AnsweredIs
<1>6. /\ obj' = [obj EXCEPT ![s][k] = N] /\ msgs' = msgs \ {c}
      /\ UNCHANGED <<fixed, reqIdList, list, decision, alive, late, looped>>
      /\ IF N.waiting = 0 THEN Signal(s, k) ELSE UNCHANGED <<newFloods, submit>>
  BY <1>1, <1>4 DEF ServeAnswer
<1>7. /\ obj'[s][k] = N
      /\ \A j \in 1 .. MaxObjects : j # k => obj'[s][j] = obj[s][j]
      /\ \A y \in MA : y # s => obj'[y] = obj[y]
  <2>1. obj' = [obj EXCEPT ![s][k] = N]
    BY <1>6
  <2> QED
    BY <1>2, <1>3, <2>1 DEF FloodTypes
<1>8. \/ s = Origin /\ submit = "wait" /\ submit' = "woken" /\ newFloods' = newFloods
      \/ /\ submit' = submit
         /\ \E h \in newFloods :
              /\ h.ma = s /\ newFloods' = (newFloods \ {h}) \cup {[h EXCEPT !.pc = "woken"]}
      \/ submit' = submit /\ newFloods' = newFloods
  BY <1>6, SignalIs
<1>9. OriginAt'
  <2>1. \A j \in 1 .. MaxObjects : obj'[Origin][j].life = obj[Origin][j].life
    <3>1. CASE s = Origin
      <4>1. obj'[s][k].life = obj[s][k].life
        BY <1>1, <1>5, <1>7
      <4>2. \A j \in 1 .. MaxObjects : j # k => obj'[s][j].life = obj[s][j].life
        BY <1>7
      <4> QED
        BY <3>1, <4>1, <4>2
    <3>2. CASE s # Origin
      BY <1>7, <3>2, FloodingAssumption DEF FloodingAssumption
    <3> QED
      BY <3>1, <3>2
  <2>2. submit' = submit \/ (submit = "wait" /\ submit' = "woken")
    BY <1>8
  <2> QED
    BY <1>6, <2>1, <2>2 DEF OriginAt, Books, Agents
<1>10. AgentsSteady
  BY <1>1, <1>5, <1>6, <1>7 DEF AgentsSteady
<1>11. Working'
  <2> SUFFICES ASSUME NEW h \in newFloods' PROVE h.ma # Origin /\ list'[h.ma] = h.obj
    BY DEF Working
  <2>1. CASE h \in newFloods
    BY <1>6, <2>1 DEF Working, Books, Agents
  <2>2. CASE h \notin newFloods
    <3>1. PICK e \in newFloods : newFloods' = (newFloods \ {e}) \cup {[e EXCEPT !.pc = "woken"]}
      BY <1>8, <2>2
    <3>2. h = [e EXCEPT !.pc = "woken"]
      BY <2>2, <3>1
    <3>3. h.ma = e.ma /\ h.obj = e.obj
      BY <3>1, <3>2, AwakeIs
    <3> QED
      BY <1>6, <3>3 DEF Working, Books, Agents
  <2> QED
    BY <2>1, <2>2
<1>12. Agents' /\ PredsStay /\ \A t, y \in MA : Mine(t, y) => Mine(t, y)'
  BY <1>9, <1>10, <1>11, AgentsKept DEF Books
<1>13. ASSUME NEW t \in MA, NEW y \in MA PROVE SameWork(t, y)
  <2>1. OneAtATime(t, y)
    BY DEF Books, Pair
  <2>2. CASE newFloods' = newFloods
    BY <1>12, <2>1, <2>2, ThreadsStay
  <2>3. CASE newFloods' # newFloods
    <3>1. PICK h \in newFloods : newFloods' = (newFloods \ {h}) \cup {[h EXCEPT !.pc = "woken"]}
      BY <1>8, <2>3
    <3> QED
      BY <1>12, <2>1, <3>1, ThreadMoves
  <2> QED
    BY <2>2, <2>3
<1>14. \A t \in MA : Live(t)' <=> Live(t)
  BY <1>6, <1>8 DEF Live
<1>15. /\ Calls(s, x) = {c} /\ Threads(s, x) = {} /\ Live(s) /\ Pair(s, x)
       /\ Calls(s, x)' = {} /\ Threads(s, x)' = {}
  <2>1. c \in Calls(s, x) /\ Pair(s, x)
    BY <1>2 DEF Calls, Books
  <2>2. Calls(s, x) = {c} /\ Threads(s, x) = {} /\ Live(s)
    BY <2>1 DEF Pair, OneAtATime, Busy
  <2>3. Calls(s, x)' = {}
    BY <1>6, <2>2 DEF Calls
  <2> QED
    BY <1>2, <1>13, <2>1, <2>2, <2>3 DEF SameWork
<1>16. ASSUME NEW t \in MA, NEW y \in MA, ~(t = s /\ y = x)
       PROVE  Pair(t, y)' /\ (Busy(t, y)' <=> Busy(t, y))
  <2>1. Pair(t, y)
    BY DEF Books
  <2>2. SameCalls(t, y)
    <3> SUFFICES ASSUME NEW d, On(d, t, y) PROVE d \in msgs' <=> d \in msgs
      BY DEF SameCalls
    <3>1. d # c
      BY <1>2, <1>16, OnOnce
    <3> QED
      BY <1>6, <3>1
  <2>3. (Busy(t, y) => Live(t)') /\ (Works(t, y) => Mine(t, y)')
    BY <1>12, <1>14, <2>1 DEF Pair
  <2> QED
    BY <1>13, <2>1, <2>2, <2>3, PairKept
<1>17. Pair(s, x)' /\ ~Busy(s, x)' /\ Busy(s, x)
  BY <1>15, PairOfOne DEF Busy, Works
<1>18. Undisturbed' => Undisturbed
  BY <1>6 DEF Undisturbed, fixed
\* The agent counts one answer less.
<1>19. PICK Q \in SUBSET MA : Due(s, Q)
  BY <1>2, <1>15 DEF Books, Counted
<1>20. /\ x \in Q /\ IsFiniteSet(Q)
       /\ Cardinality(Q \ {x}) = Cardinality(Q) - 1 /\ Cardinality(Q \ {x}) \in Nat
  <2>1. x \in Q
    BY <1>2, <1>17, <1>19 DEF Due
  <2>2. IsFiniteSet(Q)
    BY FS_Subset, FloodingAssumption DEF FloodingAssumption
  <2> QED
    BY <2>1, <2>2, FS_RemoveElement, FS_CardinalityType
<1>21. Own(s)' = N
  <2>1. s = Origin => k = 1
    BY <1>1, <1>3 DEF Books, Agents, OriginAt
  <2> QED
    BY <1>1, <1>6, <1>7, <2>1 DEF Own
<1>22. Counted(s)'
  <2>1. Own(s)'.waiting = Cardinality(Q \ {x})
    BY <1>3, <1>5, <1>19, <1>20, <1>21 DEF Due
  <2>2. ASSUME NEW y \in MA
        PROVE  /\ Busy(s, y)' => y \in Q \ {x}
               /\ y \in Q \ {x} /\ Undisturbed' => Busy(s, y)'
               /\ y \notin Q \ {x} /\ InArea(s, y)' => Mine(s, y)'
    <3>1. CASE y # x
      <4>1. InArea(s, y)' => InArea(s, y)
        BY <1>3, <1>5, <1>6, <1>21, <3>1 DEF InArea
      <4> QED
        BY <1>2, <1>12, <1>16, <1>18, <1>19, <3>1, <4>1 DEF Due
    <3>2. CASE y = x
      <4>1. ASSUME InArea(s, x)' PROVE Mine(s, x)'
        <5>1. c.type # "alreadyContacted"
          BY <1>5, <1>21, <4>1 DEF InArea
        <5>2. Accepted(c)
          BY <1>2, <5>1 DEF Accepted, Answers
        <5> QED
          BY <1>2, <1>12, <1>15, <5>2 DEF Pair, Works
      <4> QED
        BY <1>17, <3>2, <4>1
    <3> QED
      BY <3>1, <3>2
  <2> QED
    BY <2>1, <2>2 DEF Counted, Due
<1>23. ASSUME NEW t \in MA, t # s PROVE Counted(t)'
  <2>1. (Live(t)' <=> Live(t)) /\ Own(t)' = Own(t)
    BY <1>6, <1>7, <1>14, <1>23, FloodingAssumption DEF Own, FloodingAssumption
  <2>2. Counted(t)
    BY DEF Books
  <2>3. \A y \in MA : /\ Busy(t, y)' => Busy(t, y)
                      /\ Undisturbed' /\ Busy(t, y) => Busy(t, y)'
                      /\ alive'[y] => alive[y]
                      /\ Live(t)' /\ InArea(t, y) /\ Mine(t, y) => Mine(t, y)'
    BY <1>6, <1>12, <1>16, <1>23
  <2> QED
    BY <1>18, <2>1, <2>2, <2>3, CountKept
<1>24. IdleCountNothing'
  <2> SUFFICES ASSUME NEW m \in MA, Idle(m)' PROVE Own(m)'.waiting = 0
    BY DEF IdleCountNothing
  <2>1. CASE m # s
    <3>1. \A h \in newFloods : h.ma = m => h \in newFloods'
      BY <1>8, <2>1
    <3>2. Idle(m) /\ Own(m)' = Own(m)
      BY <1>6, <1>7, <1>8, <2>1, <3>1, FloodingAssumption DEF Idle, Own, FloodingAssumption
    <3> QED
      BY <3>2 DEF Books, IdleCountNothing
  <2>2. CASE m = s
    <3> SUFFICES ASSUME N.waiting # 0 PROVE FALSE
      BY <1>21, <2>2
    <3>1. Idle(s)
      BY <1>6, <2>2 DEF Idle
    <3>2. o.waiting = 0
      BY <1>2, <1>3, <3>1 DEF Books, IdleCountNothing
    <3>3. o.waiting = Cardinality(Q) /\ Cardinality(Q) \in Nat
      BY <1>3, <1>19, <1>20, FS_CardinalityType DEF Due
    <3> QED
      BY <1>20, <3>2, <3>3
  <2> QED
    BY <2>1, <2>2
<1>25. \A t, y \in MA : Pair(t, y)'
  BY <1>16, <1>17
<1>26. \A t \in MA : Counted(t)'
  BY <1>22, <1>23
<1> QED
  BY <1>12, <1>24, <1>25, <1>26 DEF Books

\* The end of newFlood(): the thread is gone, and its answer is on the way.
LEMMA EndKeeps ==
  ASSUME FloodTypes, FloodTypes', Books, NEW h \in newFloods, NewFloodAnswers(h)
  PROVE  Books'
<1>1. PICK m, k, o, s : m = h.ma /\ k = h.obj /\ o = obj[m][k] /\ s = o.pred
  OBVIOUS
<1>2. /\ m \in MA /\ k \in 1 .. MaxObjects /\ o \in Object /\ h.pc = "woken"
      /\ m # Origin /\ list[m] = k /\ s \in MA /\ alive[m] /\ k # 0
  <2>1. m \in MA /\ k \in 1 .. MaxObjects /\ m # Origin /\ list[m] = k
    BY <1>1 DEF FloodTypes, Thread, Books, Agents, Working
  <2>2. k # 0
    BY <2>1
  <2>3. o \in Object
    BY <1>1, <2>1 DEF FloodTypes
  <2>4. s \in MA
    <3>1. AgentAt(m)
      BY <2>1 DEF Books, Agents
    <3> QED
      BY <1>1, <2>1, <2>2, <3>1 DEF AgentAt
  <2> QED
    BY <1>1, <2>1, <2>2, <2>3, <2>4 DEF NewFloodAnswers, canGet
<1>3. PICK type \in Answers : /\ type # "alreadyContacted"
                              /\ msgs' = msgs \cup Call(type, m, s, h.tag)
  <2> DEFINE type == IF o.found THEN "serviceFound"
                     ELSE IF flooded(h.ma, o) THEN "floodedArea" ELSE "serviceNotFound"
  <2>1. msgs' = msgs \cup Call(type, m, s, h.tag)
    BY <1>1 DEF NewFloodAnswers
  <2>2. type \in Answers /\ type # "alreadyContacted"
    BY DEF Answers
  <2> QED
    BY <2>1, <2>2
<1>4. /\ obj' = [obj EXCEPT ![m][k].found = FALSE] /\ list' = [list EXCEPT ![m] = k]
      /\ newFloods' = newFloods \ {h}
      /\ UNCHANGED <<fixed, reqIdList, submit, decision, alive, late, looped>>
  BY <1>1 DEF NewFloodAnswers
<1>5. list' = list
  BY <1>2, <1>4 DEF FloodTypes
<1>6. PICK n : n = Msg(type, m, s, h.tag)
  OBVIOUS
<1>7. /\ n.type = type /\ On(n, s, m) /\ Accepted(n)
      /\ Call(type, m, s, h.tag) \subseteq {n}
      /\ alive[s] => n \in Call(type, m, s, h.tag)
  <2>1. n.type = type /\ n.from = m /\ n.to = s
    BY <1>6 DEF Msg
  <2>2. Call(type, m, s, h.tag) \subseteq {n}
    BY <1>6 DEF Call
  <2>3. alive[s] => n \in Call(type, m, s, h.tag)
    BY <1>2, <1>6 DEF Call
  <2>4. Accepted(n)
    BY <1>3, <2>1 DEF Accepted, Answers
  <2> QED
    BY <1>3, <2>1, <2>2, <2>3, <2>4 DEF On
<1>8. PICK N : N = [obj[m][k] EXCEPT !.found = FALSE]
  OBVIOUS
<1>9. /\ obj' = [obj EXCEPT ![m][k] = N] /\ N \in Object /\ N.life = o.life /\ N.pred = o.pred
      /\ N.waiting = o.waiting /\ N.near = o.near
  <2>1. m \in MA /\ k \in 1 .. MaxObjects
    BY <1>2
  <2>2. /\ [obj EXCEPT ![m][k].found = FALSE] = [obj EXCEPT ![m][k] = N]
        /\ N \in Object /\ N.life = obj[m][k].life /\ N.pred = obj[m][k].pred
        /\ N.waiting = obj[m][k].waiting /\ N.near = obj[m][k].near
    BY <1>8, <2>1, FieldSet
  <2> QED
    BY <1>1, <1>4, <2>2
<1>10. /\ obj'[m][k] = N
       /\ \A j \in 1 .. MaxObjects : j # k => obj'[m][j] = obj[m][j]
       /\ \A y \in MA : y # m => obj'[y] = obj[y]
  <2>1. obj' = [obj EXCEPT ![m][k] = N] /\ N \in Object
    BY <1>9
  <2>2. m \in MA /\ k \in 1 .. MaxObjects
    BY <1>2
  <2> QED
    BY <2>1, <2>2, ObjectSet
<1>11. AgentsSteady /\ OriginAt'
  <2>1. OriginAt'
    BY <1>2, <1>4, <1>5, <1>10, FloodingAssumption DEF OriginAt, Books, Agents, FloodingAssumption
  <2>2. \A d \in msgs' : d.type = "stopFlooding" => d \in msgs
    BY <1>3, <1>7 DEF Answers
  <2>3. \A y \in MA \ {Origin} : \A j \in 1 .. MaxObjects :
           obj'[y][j].pred = obj[y][j].pred /\ obj'[y][j].life = obj[y][j].life
    BY <1>1, <1>9, <1>10
  <2> QED
    BY <1>4, <1>5, <2>1, <2>2, <2>3 DEF AgentsSteady
<1>12. Working'
  BY <1>4, <1>5 DEF Working, Books, Agents
<1>13. Agents' /\ PredsStay /\ \A t, y \in MA : Mine(t, y) => Mine(t, y)'
  BY <1>11, <1>12, AgentsKept DEF Books
<1>14. /\ \A t \in MA : Live(t)' <=> Live(t)
       /\ \A t \in MA : Own(t)'.waiting = Own(t).waiting /\ Own(t)'.near = Own(t).near
  <2>1. \A t \in MA : Live(t)' <=> Live(t)
    BY <1>4, <1>5 DEF Live
  <2>2. ASSUME NEW t \in MA PROVE Own(t)'.waiting = Own(t).waiting /\ Own(t)'.near = Own(t).near
    <3>1. CASE t = m
      <4>1. Own(t) = o /\ Own(t)' = N
        BY <1>1, <1>2, <1>5, <1>10, <3>1 DEF Own
      <4> QED
        BY <1>9, <4>1
    <3>2. CASE t # m
      BY <1>5, <1>10, <3>2, FloodingAssumption DEF Own, FloodingAssumption
    <3> QED
      BY <3>1, <3>2
  <2> QED
    BY <2>1, <2>2
<1>15. Undisturbed' => Undisturbed
  BY <1>4 DEF Undisturbed, fixed
<1>16. /\ Threads(s, m) = {h} /\ Calls(s, m) = {} /\ Pair(s, m) /\ Mine(s, m) /\ Live(s)
       /\ Busy(s, m)
  <2>1. h \in Threads(s, m)
    BY <1>1 DEF Threads, At
  <2>2. Pair(s, m)
    BY <1>2 DEF Books
  <2> QED
    BY <2>1, <2>2 DEF Pair, OneAtATime, Works, Busy
<1>17. Pair(s, m)' /\ (Undisturbed' => Busy(s, m)')
  <2>1. Threads(s, m)' = {}
    <3>1. \A e \in newFloods' : At(e, s, m)' => At(e, s, m)
      BY <1>4, <1>13 DEF PredsStay, At
    <3> QED
      BY <1>4, <1>16, <3>1 DEF Threads
  <2>2. \A d \in Calls(s, m)' : d = n
    BY <1>3, <1>7, <1>16 DEF Calls
  <2>3. \A d, e \in Calls(s, m)' : d = e
    BY <2>2
  <2>4. Undisturbed' => n \in Calls(s, m)'
    BY <1>2, <1>3, <1>4, <1>7 DEF Calls, Undisturbed
  <2>5. Live(s)' /\ Mine(s, m)'
    BY <1>2, <1>13, <1>14, <1>16
  <2> QED
    BY <2>1, <2>3, <2>4, <2>5, PairOfOne DEF Busy
<1>18. ASSUME NEW t \in MA, NEW y \in MA, ~(t = s /\ y = m)
       PROVE  Pair(t, y)' /\ (Busy(t, y)' <=> Busy(t, y))
  <2>1. Pair(t, y)
    BY DEF Books
  <2>2. SameCalls(t, y)
    <3> SUFFICES ASSUME NEW d, On(d, t, y) PROVE d \in msgs' <=> d \in msgs
      BY DEF SameCalls
    <3>1. d # n
      BY <1>7, <1>18, OnOnce
    <3> QED
      BY <1>3, <1>7, <3>1
  <2>3. ~At(h, t, y)
    BY <1>1, <1>18 DEF At
  <2>4. \A e \in newFloods : At(e, t, y)' <=> At(e, t, y)
    BY <1>13 DEF PredsStay, At
  <2>5. \A e : e \in Threads(t, y)' <=> e \in Threads(t, y)
    BY <1>4, <2>3, <2>4 DEF Threads
  <2>6. SameWork(t, y)
    BY <2>1, <2>5 DEF SameWork, Pair, OneAtATime
  <2>7. (Busy(t, y) => Live(t)') /\ (Works(t, y) => Mine(t, y)')
    BY <1>13, <1>14, <2>1 DEF Pair
  <2> QED
    BY <2>1, <2>2, <2>6, <2>7, PairKept
<1>19. ASSUME NEW t \in MA PROVE Counted(t)'
  <2>1. Counted(t)
    BY DEF Books
  <2>2. \A y \in MA : /\ Busy(t, y)' => Busy(t, y)
                      /\ Undisturbed' /\ Busy(t, y) => Busy(t, y)'
                      /\ alive'[y] => alive[y]
                      /\ Live(t)' /\ InArea(t, y) /\ Mine(t, y) => Mine(t, y)'
    BY <1>4, <1>13, <1>16, <1>17, <1>18
  <2> QED
    BY <1>14, <1>15, <2>1, <2>2, CountKept
<1>20. IdleCountNothing'
  <2> SUFFICES ASSUME NEW x \in MA, Idle(x)' PROVE Own(x).waiting = 0
    BY <1>14 DEF IdleCountNothing
  <2>1. CASE x # m
    <3>1. \A e \in newFloods : e.ma = x => e \in newFloods'
      BY <1>1, <1>4, <2>1
    <3>2. Idle(x)
      BY <1>4, <1>5, <3>1 DEF Idle
    <3> QED
      BY <3>2 DEF Books, IdleCountNothing
  <2>2. CASE x = m
    <3>1. ASSUME NEW e \in newFloods, e.ma = m PROVE e.pc = "woken"
      <4>1. e.obj = k
        BY <1>2, <3>1 DEF Books, Agents, Working
      <4>2. e \in Threads(s, m)
        BY <1>1, <3>1, <4>1 DEF Threads, At
      <4> QED
        BY <1>2, <1>16, <4>2
    <3>2. Idle(m)
      BY <1>2, <3>1 DEF Idle
    <3> QED
      BY <2>2, <3>2 DEF Books, IdleCountNothing
  <2> QED
    BY <2>1, <2>2
<1>21. \A t, y \in MA : Pair(t, y)'
  BY <1>17, <1>18
<1> QED
  BY <1>13, <1>19, <1>20, <1>21 DEF Books

------------------------------------------------------------------------------
(* The end of the flood, and its beginning at an agent *)

\* Agent m frees its object and tells its area to stop.
LEMMA StopKeeps ==
  ASSUME FloodTypes, FloodTypes', Books, NEW m \in MA, NEW k \in 1 .. MaxObjects, NEW o,
         o = obj[m][k], o = Own(m), Due(m, {}), ~Live(m)',
         \A t \in MA : t # m => (Live(t)' <=> Live(t)),
         FreedAt(m, k),
         m # Origin => list[m] = k,
         \A d : d \in msgs' <=> (d \in msgs /\ ~Stop(d, m)) \/ d \in StopCalls(m, o, k),
         newFloods' = newFloods, \A h \in newFloods : h.ma # m,
         \A t \in MA : t # m => list'[t] = list[t], list'[m] = 0,
         reqIdList' = reqIdList \ {m},
         \A t \in MA : ~Works(t, m) /\ ~Mine(t, m),
         OriginAt', UNCHANGED <<fixed, alive, late, looped>>,
         \A t \in MA : Idle(t)' => t # m /\ Idle(t)
  PROVE  Books'
<1>1. o \in Object
  BY DEF FreedAt
<1>2. /\ \A t \in MA : t # m => obj'[t] = obj[t]
      /\ \A j \in 1 .. MaxObjects : /\ obj'[m][j].pred = obj[m][j].pred
                                    /\ j # k => obj'[m][j].life = obj[m][j].life
      /\ obj'[m][k].life = "freed"
  BY DEF FreedAt
<1>3. ASSUME NEW d \in StopCalls(m, o, k)
      PROVE  /\ d.type = "stopFlooding" /\ d = Msg("stopFlooding", m, d.to, <<m, k>>)
             /\ d.to \in MA /\ d.to # m /\ Mine(m, d.to)
  <2>1. /\ d.type = "stopFlooding" /\ d = Msg("stopFlooding", m, d.to, <<m, k>>)
        /\ d.to \in knownMAs[m] /\ o.near[d.to] \in {"Flooding", "Flooded"} /\ alive[d.to]
    BY <1>1, StopCallsAre
  <2>2. d.to \in MA /\ d.to # m
    BY <2>1, Neighbours
  <2>3. InArea(m, d.to)
    BY <2>1 DEF InArea
  <2> QED
    BY <2>1, <2>2, <2>3 DEF Due
<1>4. ASSUME NEW t \in MA, NEW y \in MA, Mine(t, y) PROVE t # m => Mine(t, y)'
  <2> SUFFICES ASSUME t # m PROVE Mine(t, y)'
    OBVIOUS
  <2>1. y # m
    BY <1>4
  <2>2. ASSUME NEW d \in msgs', Stop(d, y) PROVE FALSE
    <3>1. d \notin msgs
      BY <1>4, <2>2 DEF Mine
    <3>2. d \in StopCalls(m, o, k)
      BY <3>1
    <3>3. Mine(m, y)
      BY <1>3, <2>2, <3>2 DEF Stop
    <3> QED
      BY <1>4, <3>3 DEF Mine
  <2> QED
    BY <1>2, <1>4, <2>1, <2>2 DEF Mine
<1>5. OneStop'
  <2> SUFFICES ASSUME NEW c \in msgs', NEW d \in msgs', NEW x \in MA, Stop(c, x)
               PROVE  x # Origin /\ list'[x] # 0 /\ (Stop(d, x) => c = d)
    BY DEF OneStop
  <2>1. CASE c \in StopCalls(m, o, k)
    <3>1. Mine(m, x) /\ x # m
      BY <1>3, <2>1 DEF Stop
    <3>2. Stop(d, x) => d \in StopCalls(m, o, k)
      BY <3>1 DEF Mine
    <3>3. Stop(d, x) => c = d
      BY <1>3, <2>1, <3>2 DEF Stop
    <3> QED
      BY <3>1, <3>3 DEF Mine
  <2>2. CASE c \notin StopCalls(m, o, k)
    <3>1. c \in msgs /\ x # m
      BY <2>2
    <3>2. x # Origin /\ list[x] # 0
      BY <3>1 DEF Books, Agents, OneStop
    <3>3. ASSUME Stop(d, x) PROVE d \in msgs
      <4>1. ASSUME d \in StopCalls(m, o, k) PROVE FALSE
        <5>1. Mine(m, x)
          BY <1>3, <3>3, <4>1 DEF Stop
        <5> QED
          BY <3>1, <5>1 DEF Mine
      <4> QED
        BY <4>1
    <3>4. Stop(d, x) => c = d
      BY <3>1, <3>3 DEF Books, Agents, OneStop
    <3> QED
      BY <3>1, <3>2, <3>4
  <2> QED
    BY <2>1, <2>2
<1>6. ASSUME NEW t \in MA \ {Origin} PROVE AgentAt(t)'
  <2>1. AgentAt(t)
    BY DEF Books, Agents
  <2>2. CASE t # m
    BY <1>2, <2>1, <2>2 DEF AgentAt
  <2>3. CASE t = m
    <3>1. t \notin reqIdList' /\ list'[t] = 0
      BY <2>3
    <3>2. \A j \in 1 .. MaxObjects : obj'[t][j].life # "live"
      BY <1>2, <2>1, <2>3 DEF AgentAt
    <3>3. \A j \in 1 .. MaxObjects : j # 0
      BY FloodingAssumption DEF FloodingAssumption
    <3> QED
      BY <3>1, <3>2, <3>3 DEF AgentAt
  <2> QED
    BY <2>2, <2>3
<1>7. Working'
  <2>1. \A h \in newFloods : h.ma \in MA
    BY DEF FloodTypes, Thread
  <2> QED
    BY <2>1 DEF Working, Books, Agents
<1>8. PredsStay
  <2>1. \A h \in newFloods : h.ma \in MA
    BY DEF FloodTypes, Thread
  <2> QED
    BY <1>2, <2>1 DEF PredsStay
<1>9. ASSUME NEW s \in MA, NEW x \in MA
      PROVE  Pair(s, x)' /\ (Busy(s, x)' <=> Busy(s, x))
  <2>1. Pair(s, x)
    BY DEF Books
  <2>2. SameCalls(s, x)
    <3> SUFFICES ASSUME NEW d, On(d, s, x) PROVE d \in msgs' <=> d \in msgs
      BY DEF SameCalls
    <3>1. d.type # "stopFlooding"
      BY DEF On, Requests, Answers
    <3>2. d \notin StopCalls(m, o, k)
      BY <1>3, <3>1
    <3> QED
      BY <3>1, <3>2 DEF Stop
  <2>3. SameWork(s, x)
    BY <1>8, <2>1, ThreadsStay DEF Pair
  <2>4. s = m => ~Busy(s, x) /\ ~Works(s, x)
    BY DEF Due, Busy, Works
  <2>5. (Busy(s, x) => Live(s)') /\ (Works(s, x) => Mine(s, x)')
    BY <1>4, <2>1, <2>4 DEF Pair
  <2> QED
    BY <2>1, <2>2, <2>3, <2>5, PairKept
<1>10. ASSUME NEW t \in MA PROVE Counted(t)'
  <2>1. CASE t = m
    BY <2>1 DEF Counted
  <2>2. CASE t # m
    <3>1. Own(t)' = Own(t)
      BY <1>2, <2>2, FloodingAssumption DEF Own, FloodingAssumption
    <3>2. Counted(t) /\ (Undisturbed' => Undisturbed)
      BY DEF Books, Undisturbed, fixed
    <3>3. \A y \in MA : /\ Busy(t, y)' => Busy(t, y)
                        /\ Undisturbed' /\ Busy(t, y) => Busy(t, y)'
                        /\ alive'[y] => alive[y]
                        /\ Live(t)' /\ InArea(t, y) /\ Mine(t, y) => Mine(t, y)'
      BY <1>4, <1>9, <2>2
    <3> QED
      BY <2>2, <3>1, <3>2, <3>3, CountKept
  <2> QED
    BY <2>1, <2>2
<1>11. IdleCountNothing'
  <2> SUFFICES ASSUME NEW t \in MA, Idle(t)' PROVE Own(t)'.waiting = 0
    BY DEF IdleCountNothing
  <2>1. t # m /\ Idle(t)
    OBVIOUS
  <2>2. Own(t)' = Own(t)
    BY <1>2, <2>1, FloodingAssumption DEF Own, FloodingAssumption
  <2> QED
    BY <2>1, <2>2 DEF Books, IdleCountNothing
<1>12. Agents'
  BY <1>5, <1>6, <1>7 DEF Agents
<1> QED
  BY <1>9, <1>10, <1>11, <1>12 DEF Books

\* An agent of the area is told to stop.
LEMMA StopFloodingKeeps ==
  ASSUME FloodTypes, FloodTypes', Books, NEW c \in msgs, StopFlooding(c)
  PROVE  Books'
<1>1. PICK m, k, o : m = c.to /\ k = list[m] /\ o = obj[m][k]
  OBVIOUS
<1>2. m \in MA /\ Stop(c, m) /\ alive[m]
  BY <1>1 DEF FloodTypes, Message, StopFlooding, Stop, canGet
<1>3. m # Origin /\ k # 0 /\ \A d \in msgs : Stop(d, m) => d = c
  BY <1>1, <1>2 DEF Books, Agents, OneStop
<1>4. k \in 1 .. MaxObjects /\ o = Own(m)
  BY <1>1, <1>2, <1>3, FloodingAssumption DEF FloodTypes, FloodingAssumption, Own
<1>5. \A t \in MA : ~Mine(t, m) /\ ~Works(t, m)
  BY <1>2 DEF Mine, Books, Pair
<1>6. \A h \in newFloods : h.ma # m
  <2> SUFFICES ASSUME NEW h \in newFloods, h.ma = m PROVE FALSE
    OBVIOUS
  <2>1. h.obj = k /\ AgentAt(m)
    BY <1>1, <1>2, <1>3 DEF Books, Agents, Working
  <2>2. o.pred \in MA
    BY <1>1, <1>3, <2>1 DEF AgentAt
  <2>3. h \in Threads(o.pred, m)
    BY <1>1, <2>1 DEF Threads, At
  <2> QED
    BY <1>5, <2>2, <2>3 DEF Works
<1>7. Live(m) /\ Idle(m)
  BY <1>1, <1>2, <1>3, <1>6 DEF Live, Idle
<1>8. o.waiting = 0 /\ Due(m, {})
  <2>1. Own(m).waiting = 0 /\ Counted(m)
    BY <1>2, <1>7 DEF Books, IdleCountNothing
  <2> QED
    BY <1>2, <1>4, <1>7, <2>1, NothingDue
<1>9. /\ msgs' = (msgs \ {c}) \cup StopCalls(m, o, k)
      /\ obj' = [obj EXCEPT ![m][k].life = "freed"]
      /\ list' = [list EXCEPT ![m] = 0] /\ reqIdList' = reqIdList \ {m}
      /\ UNCHANGED <<newFloods, submit>>
      /\ UNCHANGED <<fixed, alive, late, looped>>
  BY <1>1, <1>8 DEF StopFlooding
<1>10. list'[m] = 0 /\ \A t \in MA : t # m => list'[t] = list[t]
  BY <1>2, <1>9 DEF FloodTypes
<1>11. \A d : d \in msgs' <=> (d \in msgs /\ ~Stop(d, m)) \/ d \in StopCalls(m, o, k)
  BY <1>2, <1>3, <1>9
<1>12. ~Live(m)' /\ \A t \in MA : t # m => (Live(t)' <=> Live(t))
  BY <1>3, <1>9, <1>10 DEF Live
<1>13. \A t \in MA : Idle(t)' => t # m /\ Idle(t)
  BY <1>3, <1>9, <1>10 DEF Idle
<1>14. FreedAt(m, k)
  <2>1. obj' = [obj EXCEPT ![m][k].life = "freed"]
    BY <1>9
  <2> QED
    BY <1>2, <1>4, <2>1, FreedIs
<1>15. OriginAt'
  <2>1. Origin \in MA
    BY FloodingAssumption DEF FloodingAssumption
  <2>2. obj'[Origin] = obj[Origin]
    BY <1>3, <1>14, <2>1 DEF FreedAt
  <2> QED
    BY <1>3, <1>9, <1>10, <2>1, <2>2 DEF OriginAt, Books, Agents
<1>16. UNCHANGED <<fixed, alive, late, looped>> /\ newFloods' = newFloods
       /\ reqIdList' = reqIdList \ {m} /\ list[m] = k
  BY <1>1, <1>9
<1> QED
  BY <1>1, <1>2, <1>4, <1>5, <1>6, <1>8, <1>10, <1>11, <1>12, <1>13, <1>14, <1>15, <1>16, StopKeeps

\* The origin stops the flood.
LEMMA SubmitStopsKeeps ==
  ASSUME FloodTypes, FloodTypes', Books, SubmitStops
  PROVE  Books'
<1>1. PICK o : o = obj[Origin][1]
  OBVIOUS
<1>2. Origin \in MA /\ 1 \in 1 .. MaxObjects /\ o = Own(Origin) /\ OriginAt
  BY <1>1, FloodingAssumption DEF FloodingAssumption, Own, Books, Agents
<1>3. Idle(Origin) /\ Live(Origin) /\ submit = "flood"
  BY DEF SubmitStops, Idle, Live
<1>4. o.waiting = 0 /\ Due(Origin, {})
  <2>1. Own(Origin).waiting = 0 /\ Counted(Origin)
    BY <1>2, <1>3 DEF Books, IdleCountNothing
  <2> QED
    BY <1>2, <1>3, <2>1, NothingDue
<1>5. /\ msgs' = msgs \cup StopCalls(Origin, o, 1)
      /\ obj' = [obj EXCEPT ![Origin][1].life = "freed"]
      /\ submit' = "done"
      /\ UNCHANGED <<fixed, reqIdList, list, newFloods, decision, alive, late, looped>>
  BY <1>1, <1>4 DEF SubmitStops
<1>6. \A t \in MA : ~Mine(t, Origin) /\ ~Works(t, Origin)
  BY <1>2 DEF Mine, Books, Pair
<1>7. \A h \in newFloods : h.ma # Origin
  BY DEF Books, Agents, Working
<1>8. \A d : d \in msgs' <=> (d \in msgs /\ ~Stop(d, Origin)) \/ d \in StopCalls(Origin, o, 1)
  BY <1>2, <1>5 DEF Books, Agents, OneStop
<1>9. list'[Origin] = 0 /\ reqIdList' = reqIdList \ {Origin} /\ list' = list
  BY <1>2, <1>3, <1>5 DEF OriginAt
<1>10. ~Live(Origin)' /\ \A t \in MA : t # Origin => (Live(t)' <=> Live(t))
  BY <1>5 DEF Live
<1>11. \A t \in MA : Idle(t)' => t # Origin /\ Idle(t)
  BY <1>5 DEF Idle
<1>12. list' = list /\ newFloods' = newFloods /\ UNCHANGED <<fixed, alive, late, looped>>
  BY <1>5
<1>13. FreedAt(Origin, 1)
  <2>1. PICK k \in 1 .. MaxObjects, m \in MA : k = 1 /\ m = Origin
    BY <1>2
  <2>2. obj' = [obj EXCEPT ![m][k].life = "freed"]
    BY <1>5, <2>1
  <2>3. FreedAt(m, k)
    BY <2>2, FreedIs
  <2> QED
    BY <2>1, <2>3
<1>14. OriginAt'
  <2>1. \A j \in 1 .. MaxObjects : obj'[Origin][j].life # "live"
    BY <1>2, <1>13 DEF OriginAt, FreedAt
  <2> QED
    BY <1>2, <1>5, <1>9, <2>1 DEF OriginAt
<1> QED
  BY <1>1, <1>2, <1>4, <1>6, <1>7, <1>8, <1>9, <1>10, <1>11, <1>12, <1>13, <1>14, StopKeeps

\* An agent that does not know the request makes an object and searches: from
\* now on it belongs to the agent that called it.
LEMMA SearchNewKeeps ==
  ASSUME FloodTypes, FloodTypes', Books, NEW c \in msgs, SearchService(c),
         c.to \notin reqIdList, ~looped'
  PROVE  Books'
<1>1. PICK m \in MA, s \in MA : m = c.to /\ s = c.from
  BY DEF FloodTypes, Message
<1>2. c.type = "searchService" /\ m # Origin /\ m \notin reqIdList
  BY <1>1 DEF SearchService, Serve
<1>3. AgentAt(m) /\ list[m] = 0
  BY <1>2 DEF Books, Agents, AgentAt
<1>4. PICK k \in 1 .. MaxObjects : /\ obj' = [obj EXCEPT ![m][k] = NewFloodRequest(m, s)]
                                   /\ list' = [list EXCEPT ![m] = k]
  BY <1>1, <1>2, <1>3 DEF SearchService, Fresh, put
<1>5. PICK N \in Object : /\ N = NewFloodRequest(m, s)
                          /\ N.life = "live" /\ N.pred = s /\ N.waiting = 0
                          /\ \A x \in MA : N.near[x] \in {"NotContacted", "AlreadyContacted"}
  BY NewIs
<1>6. obj' = [obj EXCEPT ![m][k] = N]
  BY <1>4, <1>5
<1>7. /\ obj'[m][k] = N
      /\ \A j \in 1 .. MaxObjects : j # k => obj'[m][j] = obj[m][j]
      /\ \A x \in MA : x # m => obj'[x] = obj[x]
  BY <1>6, ObjectSet
<1>8. list'[m] = k /\ k # 0 /\ \A x \in MA : x # m => list'[x] = list[x]
  BY <1>4, FloodingAssumption DEF FloodTypes, FloodingAssumption
<1>9. PICK n : n = [c EXCEPT !.type = "submit_local"]
  OBVIOUS
<1>10. n.type = "submit_local" /\ n.from = s /\ n.to = m
  BY <1>1, <1>9 DEF FloodTypes, Message
<1>11. /\ msgs' = (msgs \ {c}) \cup {n} /\ reqIdList' = reqIdList \cup {m}
       /\ UNCHANGED <<fixed, newFloods, submit, alive, late>> /\ (looped => looped')
  BY <1>1, <1>2, <1>9 DEF SearchService
<1>12. On(c, s, m) /\ On(n, s, m)
  BY <1>1, <1>2, <1>10 DEF On, Requests
<1>13. ASSUME NEW t \in MA, NEW y \in MA, t # s \/ y # m PROVE SameCalls(t, y)
  <2> SUFFICES ASSUME NEW d, On(d, t, y) PROVE d \in msgs' <=> d \in msgs
    BY DEF SameCalls
  <2>1. d # c /\ d # n
    BY <1>12, <1>13, OnOnce
  <2> QED
    BY <1>11, <2>1
<1>14. \A h \in newFloods : h.ma # m /\ h.ma \in MA
  BY <1>3, FloodingAssumption DEF Books, Agents, Working, FloodTypes, Thread, FloodingAssumption
<1>15. PredsStay
  BY <1>7, <1>14 DEF PredsStay
<1>16. ~Live(m) /\ \A t \in MA : ~Busy(m, t)
  BY <1>2, <1>3 DEF Live, Books, Pair
<1>17. Busy(s, m) /\ s # m
  BY <1>12, <1>16 DEF Busy, Calls
<1>18. \A d \in msgs' : d.type = "stopFlooding" => d \in msgs /\ d.to # m
  BY <1>3, <1>10, <1>11 DEF Books, Agents, OneStop, Stop
<1>19. ASSUME NEW t \in MA, NEW y \in MA, Mine(t, y) PROVE Mine(t, y)'
  <2>1. y # m
    BY <1>3, <1>19 DEF Mine
  <2> QED
    BY <1>7, <1>8, <1>18, <1>19, <2>1 DEF Mine, Stop
<1>20. Mine(s, m)'
  BY <1>2, <1>5, <1>7, <1>8, <1>18 DEF Mine, Stop
<1>21. Live(m)' /\ \A t \in MA : t # m => (Live(t)' <=> Live(t))
  BY <1>2, <1>8, <1>11 DEF Live
<1>22. \A t \in MA : t # m => Own(t)' = Own(t)
  BY <1>2, <1>7, <1>8, <1>11 DEF Own
<1>23. Own(m)' = N
  BY <1>2, <1>7, <1>8 DEF Own
<1>24. Pair(s, m)' /\ Busy(s, m)'
  <2>1. Pair(s, m)
    BY DEF Books
  <2>2. \A d \in Calls(s, m)' : d = n
    BY <1>11, <1>12, <2>1 DEF Calls, Pair, OneAtATime
  <2>3. n \in Calls(s, m)'
    BY <1>11, <1>12 DEF Calls
  <2>4. Threads(s, m)' = {}
    BY <1>11, <1>14 DEF Threads, At
  <2>5. Live(s)'
    BY <1>17, <1>21, <2>1 DEF Pair
  <2>6. Pair(s, m)'
    BY <1>20, <2>2, <2>4, <2>5, PairOfOne
  <2> QED
    BY <2>3, <2>6 DEF Busy
<1>25. ASSUME NEW t \in MA, NEW y \in MA, t # s \/ y # m
       PROVE  Pair(t, y)' /\ (Busy(t, y)' <=> Busy(t, y))
  <2>1. Pair(t, y)
    BY DEF Books
  <2>2. SameCalls(t, y)
    BY <1>13, <1>25
  <2>3. SameWork(t, y)
    <3>1. newFloods' = newFloods /\ OneAtATime(t, y)
      BY <1>11, <2>1 DEF Pair
    <3> QED
      BY <1>15, <3>1, ThreadsStay
  <2>4. (Busy(t, y) => Live(t)') /\ (Works(t, y) => Mine(t, y)')
    BY <1>19, <1>21, <2>1 DEF Pair
  <2> QED
    BY <2>1, <2>2, <2>3, <2>4, PairKept
<1>26. \A t, y \in MA : Pair(t, y)' /\ (Busy(t, y)' <=> Busy(t, y))
  BY <1>17, <1>24, <1>25
<1>27. Counted(m)'
  <2>1. Own(m)'.waiting = Cardinality({})
    BY <1>5, <1>23, FS_EmptySet
  <2>2. ASSUME NEW y \in MA PROVE ~Busy(m, y)' /\ ~InArea(m, y)'
    BY <1>5, <1>16, <1>23, <1>26 DEF InArea
  <2>3. Due(m, {})'
    BY <2>1, <2>2 DEF Due
  <2> QED
    BY <2>3 DEF Counted
<1>28. ASSUME NEW t \in MA, t # m PROVE Counted(t)'
  <2>1. Counted(t) /\ (Undisturbed' => Undisturbed)
    BY <1>11 DEF Books, Undisturbed, fixed
  <2>2. \A y \in MA : /\ Busy(t, y)' => Busy(t, y)
                      /\ Undisturbed' /\ Busy(t, y) => Busy(t, y)'
                      /\ alive'[y] => alive[y]
                      /\ Live(t)' /\ InArea(t, y) /\ Mine(t, y) => Mine(t, y)'
    BY <1>11, <1>19, <1>26
  <2>3. Live(t)' => /\ Live(t) /\ Own(t)'.waiting = Own(t).waiting
                    /\ \A y \in MA : Own(t)'.near[y] = Own(t).near[y]
    BY <1>21, <1>22, <1>28
  <2> QED
    BY <2>1, <2>2, <2>3, CountKept
<1>29. IdleCountNothing'
  <2> SUFFICES ASSUME NEW t \in MA, Idle(t)' PROVE Own(t)'.waiting = 0
    BY DEF IdleCountNothing
  <2>1. CASE t = m
    BY <1>5, <1>23, <2>1
  <2>2. CASE t # m
    <3>1. Idle(t)
      BY <1>8, <1>11, <2>2 DEF Idle
    <3> QED
      BY <1>22, <2>2, <3>1 DEF Books, IdleCountNothing
  <2> QED
    BY <2>1, <2>2
<1>30. ASSUME NEW t \in MA \ {Origin} PROVE AgentAt(t)'
  <2>1. CASE t = m
    <3>1. \A j \in 1 .. MaxObjects : obj[m][j].life # "live"
      BY <1>3, FloodingAssumption DEF AgentAt, FloodingAssumption
    <3>2. \A j \in 1 .. MaxObjects : obj'[m][j].life = "live" <=> j = k
      BY <1>5, <1>7, <3>1
    <3> QED
      BY <1>5, <1>7, <1>8, <1>11, <2>1, <3>2 DEF AgentAt
  <2>2. CASE t # m
    BY <1>7, <1>8, <1>11, <2>2 DEF AgentAt, Books, Agents
  <2> QED
    BY <2>1, <2>2
<1>31. OriginAt'
  <2>1. Origin \in MA /\ OriginAt
    BY FloodingAssumption DEF FloodingAssumption, Books, Agents, OriginAt
  <2> QED
    BY <1>2, <1>7, <1>8, <1>11, <2>1 DEF OriginAt
<1>32. Working'
  BY <1>8, <1>11, <1>14 DEF Working, Books, Agents
<1>33. OneStop'
  <2> SUFFICES ASSUME NEW d \in msgs', NEW e \in msgs', NEW x \in MA, Stop(d, x)
               PROVE  x # Origin /\ list'[x] # 0 /\ (Stop(e, x) => d = e)
    BY DEF OneStop
  <2>1. d \in msgs /\ x # m /\ (Stop(e, x) => e \in msgs)
    BY <1>18 DEF Stop
  <2> QED
    BY <1>8, <2>1 DEF Books, Agents, OneStop
<1>34. Agents'
  BY <1>30, <1>31, <1>32, <1>33 DEF Agents
<1> QED
  BY <1>26, <1>27, <1>28, <1>29, <1>34 DEF Books

------------------------------------------------------------------------------
(* The invariant *)

\* At the start the origin has the only object, and nothing is under way.
LEMMA BooksInit == Init => Books
<1> SUFFICES ASSUME Init PROVE Books
  OBVIOUS
<1> USE FloodingAssumption DEF FloodingAssumption
<1>1. PICK N : N = NewFloodRequest(Origin, Nobody)
  OBVIOUS
<1>2. /\ N.life = "live" /\ N.waiting = 0
      /\ \A x \in MA : N.near[x] \in {"NotContacted", "AlreadyContacted"}
  BY <1>1, NewIs
<1>3. /\ reqIdList = {} /\ msgs = {} /\ newFloods = {} /\ submit = "flood"
      /\ \A m \in MA : list[m] = 0
      /\ \A m \in MA, k \in 1 .. MaxObjects :
           obj[m][k] = IF m = Origin /\ k = 1 THEN N ELSE NoObject
  BY <1>1 DEF Init
<1>4. NoObject.life = "none" /\ 1 \in 1 .. MaxObjects
  BY DEF NoObject
<1>5. OriginAt
  BY <1>2, <1>3, <1>4 DEF OriginAt
<1>6. ASSUME NEW m \in MA \ {Origin} PROVE AgentAt(m)
  BY <1>3, <1>4 DEF AgentAt
<1>7. Agents
  BY <1>3, <1>5, <1>6 DEF Agents, Working, OneStop
<1>8. Own(Origin) = N
  BY <1>3, <1>4 DEF Own
<1>9. IdleCountNothing
  BY <1>2, <1>3, <1>8 DEF IdleCountNothing, Idle
<1>10. ASSUME NEW s \in MA, NEW x \in MA PROVE Pair(s, x) /\ ~Busy(s, x)
  BY <1>3 DEF Pair, OneAtATime, Busy, Works, Calls, Threads
<1>11. ASSUME NEW s \in MA, Live(s) PROVE Due(s, {})
  <2>1. s = Origin
    BY <1>3, <1>11 DEF Live
  <2>2. Own(s).waiting = Cardinality({})
    BY <1>2, <1>8, <2>1, FS_EmptySet
  <2>3. \A x \in MA : ~Busy(s, x) /\ ~InArea(s, x)
    BY <1>2, <1>8, <1>10, <2>1 DEF InArea
  <2> QED
    BY <2>2, <2>3 DEF Due
<1>12. \A s \in MA : Counted(s)
  BY <1>11 DEF Counted
<1> QED
  BY <1>7, <1>9, <1>10, <1>12 DEF Books

\* What has gone wrong stays so.
LEMMA DisturbancesStay ==
  ASSUME FloodTypes, [Next]_vars
  PROVE  (late => late') /\ (looped => looped')
<1>1. CASE UNCHANGED vars
  BY <1>1 DEF vars
<1>2. CASE Submit
  <2>1. CASE SubmitTimesOut
    BY <2>1 DEF SubmitTimesOut
  <2>2. CASE ~SubmitTimesOut
    <3>1. UNCHANGED <<late, looped>>
      BY <1>2, <2>2 DEF Submit, SubmitFloods, SubmitPuts, SubmitWaits, SubmitGets, SubmitStops,
                        Die
    <3> QED
      BY <3>1
  <2> QED
    BY <2>1, <2>2
<1>3. ASSUME NEW m \in msgs, Handle(m) PROVE (late => late') /\ (looped => looped')
  <2>1. CASE SearchService(m)
    BY <2>1 DEF SearchService
  <2>2. CASE ~SearchService(m)
    <3>1. UNCHANGED <<late, looped>>
      BY <1>3, <2>2 DEF Handle, CallerUnknown, SubmitLocal, ServeAnswer, StopFlooding, NewFlood
    <3> QED
      BY <3>1
  <2> QED
    BY <2>1, <2>2
<1>4. ASSUME NEW h \in newFloods, Wait(h) PROVE (late => late') /\ (looped => looped')
  <2>1. CASE NewFloodTimesOut(h)
    BY <2>1 DEF NewFloodTimesOut
  <2>2. CASE ~NewFloodTimesOut(h)
    <3>1. UNCHANGED <<late, looped>>
      BY <1>4, <2>2 DEF Wait, NewFloodWaits, NewFloodAnswers
    <3> QED
      BY <3>1
  <2> QED
    BY <2>1, <2>2
<1>5. CASE \E m \in MA : Crash(m) \/ UseAfterFree(m)
  BY <1>5 DEF Crash, UseAfterFree, Die
<1> QED
  BY <1>1, <1>2, <1>3, <1>4, <1>5 DEF Next

\* The books stay right as long as nothing is late and the flood has not come back.
LEMMA BooksNext ==
  ASSUME FloodTypes, FloodTypes', Books, [Next]_vars, ~late', ~looped'
  PROVE  Books'
<1>1. CASE UNCHANGED vars
  BY <1>1 DEF vars, fixed, Books, Agents, OriginAt, AgentAt, Working, OneStop, IdleCountNothing,
              Idle, Own, Pair, OneAtATime, Busy, Live, Works, Mine, Calls, Threads, At, Counted,
              Due, InArea, Undisturbed
<1>2. CASE Submit
  BY <1>2, FloodKeeps, SubmitQuiet, SubmitStopsKeeps DEF Submit
<1>3. ASSUME NEW c \in msgs, Handle(c) PROVE Books'
  <2>1. CASE SearchService(c)
    BY <2>1, KnownKeeps, SearchNewKeeps
  <2> QED
    BY <1>3, <2>1, UnknownKeeps, LocalKeeps, AnswerKeeps, StopFloodingKeeps, NewFloodKeeps
       DEF Handle
<1>4. ASSUME NEW h \in newFloods, Wait(h) PROVE Books'
  BY <1>4, WaitMoves, EndKeeps DEF Wait
<1>5. ASSUME NEW m \in MA, Crash(m) \/ UseAfterFree(m) PROVE Books'
  BY <1>5, CrashKeeps, NothingFreed DEF UseAfterFree, Books
<1> QED
  BY <1>1, <1>2, <1>3, <1>4, <1>5 DEF Next

\* The invariant of the flood.
LEMMA FloodInvariant == Spec => []FloodInv
<1>1. Init => FloodInv
  BY TypesInit, BooksInit DEF FloodInv
<1>2. FloodInv /\ [Next]_vars => FloodInv'
  <2> SUFFICES ASSUME FloodInv, [Next]_vars PROVE FloodInv'
    OBVIOUS
  <2>1. FloodTypes /\ FloodTypes'
    BY TypesNext DEF FloodInv
  <2>2. ASSUME ~late', ~looped' PROVE Books'
    BY <2>1, <2>2, DisturbancesStay, BooksNext DEF FloodInv
  <2> QED
    BY <2>1, <2>2 DEF FloodInv
<1> QED
  BY <1>1, <1>2, PTL DEF Spec

------------------------------------------------------------------------------
(* Results *)

\* stopFlooding() and submit() delete a FloodRequest only when no thread of its
\* agent waits for it, in every network, whatever crashes: as long as no wait has
\* given up on an answer and the flood has not come back to the origin.
THEOREM WaitersAreSafe == Spec => []NoUseAfterFree
<1>1. FloodInv => NoUseAfterFree
  BY NothingFreed DEF FloodInv, NoUseAfterFree, Books
<1> QED
  BY <1>1, FloodInvariant, PTL

\* As many things as there are agents that have exactly one of them.
LEMMA OneEach ==
  ASSUME NEW S, NEW T \in SUBSET MA, NEW f \in [S -> T],
         \A a, b \in S : f[a] = f[b] => a = b, \A y \in T : \E a \in S : f[a] = y
  PROVE  Cardinality(S) = Cardinality(T) /\ Cardinality(T) \in Nat
<1>1. IsFiniteSet(T)
  BY FS_Subset, FloodingAssumption DEF FloodingAssumption
<1>2. f \in Injection(S, T) /\ f \in Surjection(S, T)
  BY DEF Injection, Surjection, IsInjective
<1> QED
  BY <1>1, <1>2, FS_Injection, FS_CardinalityType

\* While nothing is disturbed, the agents that m counts are those that have its
\* request, those that answer, and those with a thread that will: one thing each.
LEMMA WaitingIs ==
  ASSUME FloodTypes, Books, Undisturbed, NEW m \in MA, Live(m)
  PROVE  Own(m).waiting = Outstanding(m)
<1> DEFINE A == {c \in msgs : c.to = m /\ c.type \in Answers}
           R == {c \in msgs : c.from = m /\ c.type \in {"searchService", "submit_local", "newFlood"}}
           T == {h \in newFloods : obj[h.ma][h.obj].pred = m}
           QA == {x \in MA : \E c \in A : c.from = x}
           QR == {x \in MA : \E c \in R : c.to = x}
           QT == {x \in MA : \E h \in T : h.ma = x}
<1>1. /\ \A c \in msgs : c.from \in MA /\ c.to \in MA
      /\ \A h \in newFloods : h.ma \in MA
  BY DEF FloodTypes, Message, Thread
<1>2. \A x \in MA : OneAtATime(m, x)
  BY DEF Books, Pair
<1>3. /\ \A c \in A : c \in Calls(m, c.from)
      /\ \A c \in R : c \in Calls(m, c.to)
      /\ \A h \in T : h \in Threads(m, h.ma)
  BY DEF Calls, On, Requests, Threads, At
<1>4. Cardinality(A) = Cardinality(QA) /\ Cardinality(QA) \in Nat
  <2> DEFINE f == [c \in A |-> c.from]
  <2>1. f \in [A -> QA]
    BY <1>1
  <2>2. \A c, d \in A : f[c] = f[d] => c = d
    BY <1>1, <1>2, <1>3 DEF OneAtATime
  <2>3. \A y \in QA : \E c \in A : f[c] = y
    OBVIOUS
  <2>4. QA \in SUBSET MA
    OBVIOUS
  <2> HIDE DEF f, A, QA
  <2> QED
    BY <2>1, <2>2, <2>3, <2>4, OneEach
<1>5. Cardinality(R) = Cardinality(QR) /\ Cardinality(QR) \in Nat
  <2> DEFINE f == [c \in R |-> c.to]
  <2>1. f \in [R -> QR]
    BY <1>1
  <2>2. \A c, d \in R : f[c] = f[d] => c = d
    BY <1>1, <1>2, <1>3 DEF OneAtATime
  <2>3. \A y \in QR : \E c \in R : f[c] = y
    OBVIOUS
  <2>4. QR \in SUBSET MA
    OBVIOUS
  <2> HIDE DEF f, R, QR
  <2> QED
    BY <2>1, <2>2, <2>3, <2>4, OneEach
<1>6. Cardinality(T) = Cardinality(QT) /\ Cardinality(QT) \in Nat
  <2> DEFINE f == [h \in T |-> h.ma]
  <2>1. f \in [T -> QT]
    BY <1>1
  <2>2. \A g, h \in T : f[g] = f[h] => g = h
    BY <1>1, <1>2, <1>3 DEF OneAtATime
  <2>3. \A y \in QT : \E h \in T : f[h] = y
    OBVIOUS
  <2>4. QT \in SUBSET MA
    OBVIOUS
  <2> HIDE DEF f, T, QT
  <2> QED
    BY <2>1, <2>2, <2>3, <2>4, OneEach
<1>7. QA \cap QR = {} /\ (QA \cup QR) \cap QT = {}
  <2>1. \A c \in A, d \in R : c # d
    BY DEF Answers
  <2>2. ASSUME NEW x \in MA, x \in QA, x \in QR PROVE FALSE
    <3>1. PICK c \in A, d \in R : c.from = x /\ d.to = x
      BY <2>2
    <3> QED
      BY <1>2, <1>3, <2>1, <3>1 DEF OneAtATime
  <2>3. ASSUME NEW x \in MA, x \in QA \/ x \in QR, x \in QT PROVE FALSE
    <3>1. Calls(m, x) # {} /\ Threads(m, x) # {}
      BY <1>3, <2>3
    <3> QED
      BY <1>2, <3>1 DEF OneAtATime
  <2> QED
    BY <2>2, <2>3
<1>8. \A x \in MA : Busy(m, x) <=> x \in QA \cup QR \cup QT
  BY DEF Busy, Calls, On, Requests, Threads, At
<1>9. PICK Q \in SUBSET MA : Due(m, Q)
  BY DEF Books, Counted
<1>10. Q = QA \cup QR \cup QT
  BY <1>8, <1>9 DEF Due
<1>11. IsFiniteSet(QA) /\ IsFiniteSet(QR) /\ IsFiniteSet(QT)
  BY FS_Subset, FloodingAssumption DEF FloodingAssumption
<1> HIDE DEF QA, QR, QT
<1>12. Cardinality(Q) = Cardinality(QA) + Cardinality(QR) + Cardinality(QT)
  <2>1. Cardinality({}) = 0
    BY FS_EmptySet
  <2>2. /\ IsFiniteSet(QA \cup QR)
        /\ Cardinality(QA \cup QR)
             = Cardinality(QA) + Cardinality(QR) - Cardinality(QA \cap QR)
    BY <1>11, FS_Union
  <2>3. Cardinality((QA \cup QR) \cup QT)
          = Cardinality(QA \cup QR) + Cardinality(QT) - Cardinality((QA \cup QR) \cap QT)
    BY <1>11, <2>2, FS_Union
  <2>4. Cardinality(QA \cap QR) = 0 /\ Cardinality((QA \cup QR) \cap QT) = 0
    BY <1>7, <2>1
  <2> QED
    BY <1>4, <1>5, <1>6, <1>10, <2>2, <2>3, <2>4
<1>13. Outstanding(m) = Cardinality(A) + Cardinality(R) + Cardinality(T)
  BY DEF Outstanding
<1> QED
  BY <1>4, <1>5, <1>6, <1>9, <1>12, <1>13 DEF Due

\* addResponse...() and floodNextStep() count right: as long as the flood is
\* undisturbed, nbWaitingAnswers of every live FloodRequest is the number of
\* answers that are still on their way, in every network.
THEOREM CountsAreOutstanding == Spec => []CountIsOutstanding
<1>1. ASSUME FloodInv PROVE CountIsOutstanding
  <2> SUFFICES ASSUME Undisturbed, NEW m \in MA, NEW k \in 1 .. MaxObjects,
                      obj[m][k].life = "live"
               PROVE  obj[m][k].waiting = Outstanding(m)
    BY DEF CountIsOutstanding
  <2>1. FloodTypes /\ Books
    BY <1>1 DEF FloodInv, Undisturbed
  <2>2. obj[m][k] = Own(m) /\ Live(m)
    <3>1. CASE m = Origin
      BY <2>1, <3>1 DEF Own, Live, Books, Agents, OriginAt
    <3>2. CASE m # Origin
      <4>1. list[m] = k /\ k # 0
        BY <2>1, <3>2, FloodingAssumption DEF Books, Agents, AgentAt, FloodingAssumption
      <4> QED
        BY <3>2, <4>1 DEF Own, Live
    <3> QED
      BY <3>1, <3>2
  <2> QED
    BY <2>1, <2>2, WaitingIs
<1> QED
  BY <1>1, FloodInvariant, PTL
=============================================================================
