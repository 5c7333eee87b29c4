----------------------------- MODULE LocalAgent -----------------------------
(***************************************************************************)
(* A local agent between its SeDs and its parent (LocalAgentImpl.cc): what *)
(* the SeDs add and remove in the agent's service table is passed on to    *)
(* the parent's table by calls of their own, and bindParent() and          *)
(* disconnect() change the parent meanwhile.  Each call runs in a thread   *)
(* of the ORB; only the sections on one table are protected by a lock, so  *)
(* each of them, and each test of childID, parent or the table, is a step. *)
(*                                                                         *)
(* The parent is a master agent with one other child, number 0.  The lists *)
(* of children of both agents, the aggregators and the outcome in which    *)
(* rmChildService() of an unknown service brings an agent down are the     *)
(* subject of Agent.                                                       *)
(***************************************************************************)
EXTENDS ServiceTable

CONSTANTS
  SeDs, Service,
  Offered,      \* Offered[c]: the services that SeD c subscribes with, in order
  Extra,        \* Extra[c]: the services that c may add later
  Others,       \* the services of the parent's other child, in order
  MaxCalls,     \* bound on the calls of the SeDs and of the administrator
  MaxFaults     \* bound on the calls to the parent that raise

ASSUME LocalAgentAssumption ==
  /\ \A c \in SeDs : ToSet(Offered[c]) \cup Extra[c] \subseteq Service
  /\ ToSet(Others) \subseteq Service
  /\ MaxCalls \in Nat /\ MaxFaults \in Nat

VARIABLES
  SrvT,       \* the agent's service table
  counter,    \* the agent's childIDCounter
  childID,    \* the agent's number at its parent, -1 when it has none
  parent,     \* whether the reference to the parent is not nil
  upT,        \* the parent's service table
  upCounter,  \* the parent's childIDCounter
  kid,        \* kid[c]: the call of SeD c, its number, its services
  binder,     \* the thread of bindParent() or disconnect()
  calls, faults,
  disturbed   \* history: services whose calls met what nothing orders them with

laVars == <<SrvT, counter, childID, parent>>
upVars == <<upT, upCounter>>
vars == <<laVars, upVars, kid, binder, calls, faults, disturbed>>

-----------------------------------------------------------------------------
(* The tables *)

AddAll(T, id, ss) == FoldLeft(LAMBDA U, s : addService(U, s, "default", id), T, ss)

\* ServiceTable::getProfiles()
Profiles(T) == [i \in DOMAIN T |-> T[i].profile]

-----------------------------------------------------------------------------
(* What overlaps what.  Two additions by a registered agent may overlap; a *)
(* removal with anything about the same service may not, nor may two first *)
(* subscriptions, or a change of parent with any call.                     *)

Adding == {"local", "subscribe", "sent", "answered", "propagate", "update"}
Registering == {"local", "subscribe", "sent", "answered"}
Removing == {"removed", "check", "tell"}
InCall == Adding \cup Removing

\* The services that the call of c is about: agentSubscribe() takes the table along.
About(c) ==
  IF kid[c].pc \in Registering THEN Service
  ELSE IF kid[c].pc \in InCall THEN ToSet(kid[c].arg) ELSE {}

\* ss are the services of a call that begins at a step to pc.
Overlaps(c, pc, ss) ==
  LET mine == IF pc \in Registering THEN Service ELSE ToSet(ss)
      clash(d) == \/ pc \in Removing \/ kid[d].pc \in Removing
                  \/ pc \in Registering /\ kid[d].pc \in Registering
  IN  UNION {About(d) \cap mine : d \in {d \in SeDs \ {c} : kid[d].pc \in InCall /\ clash(d)}}
        \cup (IF binder.pc # "idle" THEN mine ELSE {})

MayCall == calls < MaxCalls /\ calls' = calls + 1
Goes(c, pc) == kid' = [kid EXCEPT ![c].pc = pc]

-----------------------------------------------------------------------------
(* addServices() *)

\* The number comes from serverSubscribe(), and childID is tested.
BeginAdd(c, op, id, own, ss) ==
  LET to == IF childID = -1 THEN "local" ELSE "propagate"
  IN  /\ MayCall
      /\ kid' = [kid EXCEPT ![c] = [@ EXCEPT !.pc = to, !.op = op, !.id = id, !.own = own,
                                             !.arg = ss]]
      /\ disturbed' = disturbed \cup Overlaps(c, to, ss)
      /\ UNCHANGED <<SrvT, childID, parent, upVars, binder, faults>>

\* run() of a SeD that starts, bindParent() of one that has left or whose
\* subscription raised.
Subscribe(c) ==
  /\ \/ kid[c].pc \in {"new", "out"}
     \/ kid[c].pc = "in" /\ kid[c].id = -1
  /\ BeginAdd(c, IF kid[c].pc = "new" THEN "start" ELSE "bind", counter, kid[c].own, kid[c].own)
  /\ counter' = counter + 1

AddService(c) ==
  /\ kid[c].pc = "in"
  /\ \E s \in Extra[c] \ ToSet(kid[c].own) :
       BeginAdd(c, "add", kid[c].id, Append(kid[c].own, s), <<s>>)
  /\ UNCHANGED counter

\* Not registered yet: the agent's own table comes first.
UpdateFirst(c) ==
  /\ kid[c].pc = "local" /\ Goes(c, "subscribe")
  /\ SrvT' = AddAll(SrvT, kid[c].id, kid[c].arg)
  /\ UNCHANGED <<counter, childID, parent, upVars, binder, calls, faults, disturbed>>

\* Then the complete table goes to the parent, if there is one.
GetProfiles(c) ==
  /\ kid[c].pc = "subscribe"
  /\ kid' = [kid EXCEPT ![c] = IF parent THEN [@ EXCEPT !.pc = "sent", !.arg = Profiles(SrvT)]
                               ELSE [@ EXCEPT !.pc = "in"]]
  /\ UNCHANGED <<laVars, upVars, binder, calls, faults, disturbed>>

agentSubscribe(c) ==
  /\ kid[c].pc = "sent"
  /\ kid' = [kid EXCEPT ![c] = [@ EXCEPT !.pc = "answered", !.got = upCounter]]
  /\ upT' = AddAll(upT, upCounter, kid[c].arg) /\ upCounter' = upCounter + 1
  /\ UNCHANGED <<laVars, binder, calls, faults, disturbed>>

Registered(c) ==
  /\ kid[c].pc = "answered" /\ Goes(c, "in")
  /\ childID' = kid[c].got
  /\ UNCHANGED <<SrvT, counter, parent, upVars, binder, calls, faults, disturbed>>

\* Registered: the parent comes first.
Propagate(c) ==
  /\ kid[c].pc = "propagate" /\ parent /\ Goes(c, "update")
  /\ upT' = AddAll(upT, childID, kid[c].arg)
  /\ UNCHANGED <<laVars, upCounter, binder, calls, faults, disturbed>>

UpdateThen(c) ==
  /\ kid[c].pc = "update" /\ Goes(c, "in")
  /\ SrvT' = AddAll(SrvT, kid[c].id, kid[c].arg)
  /\ UNCHANGED <<counter, childID, parent, upVars, binder, calls, faults, disturbed>>

-----------------------------------------------------------------------------
(* childRemoveService() and childUnsubscribe() *)

\* The agent's own table comes first.  It may lack a service whose addition raised.
BeginRemove(c, op, own, ss) ==
  /\ kid[c].pc = "in" /\ MayCall
  /\ kid' = [kid EXCEPT ![c] = [@ EXCEPT !.pc = "removed", !.op = op, !.own = own, !.arg = ss]]
  /\ SrvT' = rmChildServices(SrvT, ss, kid[c].id)
  /\ disturbed' = disturbed \cup Overlaps(c, "removed", ss)
                            \cup {s \in ToSet(ss) : ~Lists(SrvT, s, kid[c].id)}
  /\ UNCHANGED <<counter, childID, parent, upVars, binder, faults>>

\* SeDImpl::removeService() takes the service off the SeD's table and calls.
childRemoveService(c) ==
  /\ kid[c].id # -1
  /\ \E s \in ToSet(kid[c].own) : BeginRemove(c, "remove", Remove(kid[c].own, s), <<s>>)

\* disconnect() and bindParent() of the SeD.
childUnsubscribe(c) == BeginRemove(c, "unsubscribe", kid[c].own, kid[c].own)

Home(c) == IF kid[c].op = "unsubscribe" THEN "out" ELSE "in"

TestParent(c) ==
  /\ kid[c].pc = "removed"
  /\ Goes(c, IF parent THEN "check" ELSE Home(c))
  /\ UNCHANGED <<laVars, upVars, binder, calls, faults, disturbed>>

\* Mutant: the parent is told although other SeDs still have the service.
TellAlways(c) ==
  /\ kid[c].pc = "check"
  /\ Goes(c, IF kid[c].arg = <<>> THEN Home(c) ELSE "tell")
  /\ UNCHANGED <<laVars, upVars, binder, calls, faults, disturbed>>

\* The parent is told of each service that is gone from the table.
CheckService(c) ==
  /\ kid[c].pc = "check"
  /\ IF kid[c].arg = <<>> THEN Goes(c, Home(c))
     ELSE IF lookupService(SrvT, Head(kid[c].arg)) = 0 THEN Goes(c, "tell")
     ELSE kid' = [kid EXCEPT ![c].arg = Tail(@)]
  /\ UNCHANGED <<laVars, upVars, binder, calls, faults, disturbed>>

\* An agent that failed to register has a parent, but no number there.
TellParent(c) ==
  /\ kid[c].pc = "tell" /\ parent
  /\ kid' = [kid EXCEPT ![c] = [@ EXCEPT !.pc = "check", !.arg = Tail(@)]]
  /\ upT' = rmChildService(upT, Head(kid[c].arg), childID)
  /\ disturbed' = IF childID = -1 THEN disturbed \cup {Head(kid[c].arg)} ELSE disturbed
  /\ UNCHANGED <<laVars, upCounter, binder, calls, faults>>

\* The exception of a call to the parent goes on to the SeD: a new one gives up, the
\* others go on as if they were still, or not yet, subscribed.
GivesUp(c) ==
  kid' = [kid EXCEPT ![c] = [@ EXCEPT !.pc = IF kid[c].op = "start" THEN "failed" ELSE "in",
                                      !.id = IF kid[c].op = "bind" THEN -1 ELSE kid[c].id]]

\* The call does not reach the parent.  A reference that is nil raises always.
Raises(c) ==
  /\ kid[c].pc \in {"sent", "propagate", "tell"} /\ GivesUp(c)
  /\ \/ faults < MaxFaults /\ faults' = faults + 1
     \/ kid[c].pc # "sent" /\ ~parent /\ UNCHANGED faults
  /\ disturbed' = disturbed \cup (IF kid[c].pc = "tell" THEN ToSet(kid[c].arg) ELSE {})
  /\ UNCHANGED <<laVars, upVars, binder, calls>>

\* The parent has done what it was told, but its reply is lost.
LosesReply(c) ==
  /\ faults < MaxFaults /\ faults' = faults + 1 /\ GivesUp(c)
  /\ \/ /\ kid[c].pc = "sent"
        /\ upT' = AddAll(upT, upCounter, kid[c].arg) /\ upCounter' = upCounter + 1
        /\ disturbed' = disturbed \cup ToSet(kid[c].arg)
     \/ /\ kid[c].pc = "propagate" /\ parent
        /\ upT' = AddAll(upT, childID, kid[c].arg) /\ UNCHANGED upCounter
        /\ disturbed' = disturbed \cup ToSet(kid[c].arg)
     \/ /\ kid[c].pc = "tell" /\ parent
        /\ upT' = rmChildService(upT, Head(kid[c].arg), childID) /\ UNCHANGED upCounter
        /\ disturbed' = disturbed \cup ToSet(IF childID = -1 THEN kid[c].arg ELSE Tail(kid[c].arg))
  /\ UNCHANGED <<laVars, binder, calls>>

-----------------------------------------------------------------------------
(* bindParent() and disconnect() *)

BinderGoes(pc) == binder' = [binder EXCEPT !.pc = pc]
AfterLeaving == IF binder.op = "bindParent" THEN "set" ELSE "idle"

BinderBegins ==
  /\ binder.pc = "idle" /\ MayCall
  /\ \E op \in {"bindParent", "disconnect"} :
       binder' = [pc |-> "test", op |-> op, profiles |-> Profiles(SrvT), got |-> -1]
  /\ disturbed' = disturbed \cup UNION {About(c) : c \in SeDs}
  /\ UNCHANGED <<laVars, upVars, kid, faults>>

BinderTests ==
  /\ binder.pc = "test"
  /\ BinderGoes(IF parent THEN "unsubscribe" ELSE AfterLeaving)
  /\ UNCHANGED <<laVars, upVars, kid, calls, faults, disturbed>>

BinderUnsubscribes ==
  /\ binder.pc = "unsubscribe" /\ BinderGoes("clear")
  /\ upT' = IF childID = -1 THEN upT ELSE rmChildServices(upT, binder.profiles, childID)
  /\ UNCHANGED <<laVars, upCounter, kid, calls, faults, disturbed>>

BinderClears ==
  /\ binder.pc = "clear" /\ BinderGoes(AfterLeaving)
  /\ parent' = FALSE /\ childID' = -1
  /\ UNCHANGED <<SrvT, counter, upVars, kid, calls, faults, disturbed>>

\* With no service the agent waits for the first one to subscribe.
BinderSets ==
  /\ binder.pc = "set" /\ parent' = TRUE
  /\ BinderGoes(IF binder.profiles = <<>> THEN "idle" ELSE "subscribe")
  /\ UNCHANGED <<SrvT, counter, childID, upVars, kid, calls, faults, disturbed>>

BinderSubscribes ==
  /\ binder.pc = "subscribe"
  /\ binder' = [binder EXCEPT !.pc = "answered", !.got = upCounter]
  /\ upT' = AddAll(upT, upCounter, binder.profiles) /\ upCounter' = upCounter + 1
  /\ UNCHANGED <<laVars, kid, calls, faults, disturbed>>

BinderRegisters ==
  /\ binder.pc = "answered" /\ BinderGoes("idle")
  /\ childID' = binder.got
  /\ UNCHANGED <<SrvT, counter, parent, upVars, kid, calls, faults, disturbed>>

\* An unsubscription raises, before the parent has done it or after: the agent keeps its
\* old number.  bindParent() goes on to the new parent, and then the old number may stay
\* in the parent's table; after disconnect() the parent may have forgotten the agent.
LeavingRaises ==
  /\ binder.pc = "unsubscribe" /\ childID # -1 /\ BinderGoes(AfterLeaving)
  /\ faults < MaxFaults /\ faults' = faults + 1
  /\ \E received \in BOOLEAN :
       /\ upT' = IF received THEN rmChildServices(upT, binder.profiles, childID) ELSE upT
       /\ disturbed' = IF received # (binder.op = "bindParent")
                       THEN disturbed \cup ToSet(binder.profiles) ELSE disturbed
  /\ UNCHANGED <<laVars, upCounter, kid, calls>>

\* A subscription that raises may have put the agent into the parent's table, under a
\* number that the agent does not learn.
BindingRaises ==
  /\ binder.pc = "subscribe" /\ BinderGoes("idle")
  /\ faults < MaxFaults /\ faults' = faults + 1
  /\ \E received \in BOOLEAN :
       /\ upT' = IF received THEN AddAll(upT, upCounter, binder.profiles) ELSE upT
       /\ upCounter' = IF received THEN upCounter + 1 ELSE upCounter
       /\ disturbed' = IF received \/ childID # -1
                       THEN disturbed \cup ToSet(binder.profiles) ELSE disturbed
  /\ UNCHANGED <<laVars, kid, calls>>

-----------------------------------------------------------------------------
Init ==
  /\ SrvT = <<>> /\ counter = 0
  /\ childID = -1 /\ parent \in BOOLEAN
  /\ upT = AddAll(<<>>, 0, Others) /\ upCounter = 1
  /\ kid = [c \in SeDs |-> [pc |-> "new", op |-> "none", id |-> -1, own |-> Offered[c],
                            arg |-> <<>>, got |-> -1]]
  /\ binder = [pc |-> "idle", op |-> "none", profiles |-> <<>>, got |-> -1]
  /\ calls = 0 /\ faults = 0 /\ disturbed = {}

Adds(c) == \/ Subscribe(c) \/ AddService(c) \/ UpdateFirst(c) \/ GetProfiles(c)
           \/ agentSubscribe(c) \/ Registered(c) \/ Propagate(c) \/ UpdateThen(c)
Removes(c) == \/ childRemoveService(c) \/ childUnsubscribe(c) \/ TestParent(c)
              \/ CheckService(c) \/ TellParent(c)
Binds == \/ BinderBegins \/ BinderTests \/ BinderUnsubscribes \/ BinderClears
         \/ BinderSets \/ BinderSubscribes \/ BinderRegisters \/ LeavingRaises \/ BindingRaises

Next == Binds \/ \E c \in SeDs : Adds(c) \/ Removes(c) \/ Raises(c) \/ LosesReply(c)

Spec == Init /\ [][Next]_vars

-----------------------------------------------------------------------------
(* Properties *)

AtRest == binder.pc = "idle" /\ \A c \in SeDs : kid[c].pc \notin InCall

\* When no call is under way the parent lists the agent, under its present number and
\* no other, for exactly the services of the agent's own table, but for services
\* whose calls overlapped in a way that nothing in LocalAgentImpl orders, those whose
\* removal could not be told, and those of an addition whose reply was lost.  An
\* addition that has not reached the parent does no harm, nor has a removal, or a
\* bindParent(), whose reply was lost.  And it keeps the services of its other
\* child: rmChildService() for a child that is not listed takes another one off, so
\* the agent must never tell a removal twice, nor one that it has not announced.
ParentAgrees ==
  AtRest => \A s \in Service \ disturbed, id \in -1 .. upCounter - 1 :
    Lists(upT, s, id) <=>
      IF id = 0 THEN s \in ToSet(Others)
                ELSE id = childID /\ id # -1 /\ parent /\ lookupService(SrvT, s) # 0
=============================================================================
