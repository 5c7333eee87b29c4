-------------------------- MODULE AccessController --------------------------
(***************************************************************************)
(* The SeD's limiter of concurrent solves (src/utils/AccessController.cc): *)
(* an omni_semaphore with books kept beside it, because the semaphore does *)
(* not report its value.  The books are changed under globalLock before    *)
(* the semaphore wait and after it, so they are allowed to differ from the *)
(* semaphore for a while; the controller itself tests, without the lock,   *)
(* that they have not gone astray.                                         *)
(***************************************************************************)
EXTENDS Integers, FiniteSets, Sequences

CONSTANTS
  Thread,            \* the ORB threads that solve requests
  initialResources,  \* the constructor's argument, possibly negative
  MaxReq             \* bound: requests for a resource in one behaviour

ASSUME ThreadAssumption == IsFiniteSet(Thread)
ASSUME ResourcesAssumption == initialResources \in Int
ASSUME MaxReqAssumption == MaxReq \in Nat

VARIABLES
  numFreeSlots, numWaiting, reqCounter, maxIDReleased,  \* the fields
  sem,          \* the value of resourceSemaphore
  ac,           \* where each thread is in the controller
  myReqID       \* waitForResource()'s local variable

acVars == <<numFreeSlots, numWaiting, reqCounter, maxIDReleased, sem, ac,
            myReqID>>

AC_PC == {"out", "numbered", "got", "in", "leaving"}

\* The constructor replaces a negative limit by 0.
resourcesInitial == IF initialResources >= 0 THEN initialResources ELSE 0

At(s) == {t \in Thread : ac[t] = s}

ACInit ==
  /\ numFreeSlots = resourcesInitial
  /\ numWaiting = 0
  /\ reqCounter = 0
  /\ maxIDReleased = -1
  /\ sem = resourcesInitial
  /\ ac = [t \in Thread |-> "out"]
  /\ myReqID = [t \in Thread |-> -1]

\* waitForResource(): the first section under globalLock.
TakeNumber(t) ==
  /\ ac[t] = "out" /\ reqCounter < MaxReq
  /\ myReqID' = [myReqID EXCEPT ![t] = reqCounter]
  /\ reqCounter' = reqCounter + 1
  /\ numWaiting' = numWaiting + 1
  /\ ac' = [ac EXCEPT ![t] = "numbered"]
  /\ UNCHANGED <<numFreeSlots, maxIDReleased, sem>>

\* resourceSemaphore->wait() lets a waiter through: nothing says which.
SemGrant(t) ==
  /\ ac[t] = "numbered" /\ sem > 0
  /\ sem' = sem - 1
  /\ ac' = [ac EXCEPT ![t] = "got"]
  /\ UNCHANGED <<numFreeSlots, numWaiting, reqCounter, maxIDReleased, myReqID>>

\* waitForResource() after the semaphore: the second section under
\* globalLock.  The tests before it only report; NoConfusion is about them.
Book(t) ==
  /\ ac[t] = "got"
  /\ numFreeSlots' = numFreeSlots - 1
  /\ numWaiting' = numWaiting - 1
  /\ maxIDReleased' = IF myReqID[t] > maxIDReleased THEN myReqID[t]
                                                    ELSE maxIDReleased
  /\ ac' = [ac EXCEPT ![t] = "in"]
  /\ UNCHANGED <<reqCounter, sem, myReqID>>

\* Mutant: the semaphore is posted before the books are opened.
Release_PostFirst(t) ==
  /\ ac[t] = "in"
  /\ sem' = sem + 1
  /\ ac' = [ac EXCEPT ![t] = "leaving"]
  /\ UNCHANGED <<numFreeSlots, numWaiting, reqCounter, maxIDReleased,
                 myReqID>>

\* Mutant: a slot is booked as free that the semaphore never gets.
Release_Double(t) ==
  /\ ac[t] = "in"
  /\ numFreeSlots' = numFreeSlots + 1
  /\ sem' = sem + 1
  /\ ac' = [ac EXCEPT ![t] = "leaving"]
  /\ UNCHANGED <<numWaiting, reqCounter, maxIDReleased, myReqID>>

\* releaseResource(): the section under globalLock.
Release(t) ==
  /\ ac[t] = "in"
  /\ numFreeSlots' = numFreeSlots + 1
  /\ ac' = [ac EXCEPT ![t] = "leaving"]
  /\ UNCHANGED <<numWaiting, reqCounter, maxIDReleased, sem, myReqID>>

\* Mutant: the post is forgotten.
Post_Lost(t) ==
  /\ ac[t] = "leaving"
  /\ ac' = [ac EXCEPT ![t] = "out"]
  /\ UNCHANGED <<numFreeSlots, numWaiting, reqCounter, maxIDReleased, sem, myReqID>>

\* releaseResource(): resourceSemaphore->post().
Post(t) ==
  /\ ac[t] = "leaving"
  /\ sem' = sem + 1
  /\ ac' = [ac EXCEPT ![t] = "out"]
  /\ UNCHANGED <<numFreeSlots, numWaiting, reqCounter, maxIDReleased,
                 myReqID>>

ACStep(t) == \/ TakeNumber(t) \/ SemGrant(t)
             \/ Book(t) \/ Release(t) \/ Post(t)

ACNext == \E t \in Thread : ACStep(t)

ACSpec == ACInit /\ [][ACNext]_acVars
-----------------------------------------------------------------------------
ACTypeOK ==
  /\ numFreeSlots \in Int
  /\ numWaiting \in Int
  /\ reqCounter \in 0..MaxReq
  /\ maxIDReleased \in -1..(MaxReq - 1)
  /\ sem \in Nat
  /\ ac \in [Thread -> AC_PC]
  /\ myReqID \in [Thread -> -1..(MaxReq - 1)]

\* Threads that hold a unit of the semaphore.
SemHolders == At("got") \cup At("in") \cup At("leaving")

\* The semaphore and its holders share out the limit the SeD was given.
SemaphoreBooks == sem + Cardinality(SemHolders) = resourcesInitial

\* numFreeSlots is the semaphore's value plus the threads between the two
\* sections: the field that getFreeSlotCount() reports never drifts.
SlotBooks ==
  numFreeSlots = sem + Cardinality(At("got")) + Cardinality(At("leaving"))

\* numWaiting counts the threads that have a number and no booked slot.
WaitBooks ==
  numWaiting = Cardinality(At("numbered")) + Cardinality(At("got"))

\* The three together, at every moment in which a thread may read them.
BooksHold == SemaphoreBooks /\ SlotBooks /\ WaitBooks

\* No more solves run than the limit allows.
LimitRespected == Cardinality(At("in")) <= resourcesInitial

\* The controller's own tests after the semaphore ("confusion between semaphore
\* and numFreeSlots", "Unexplained problem counting waiting threads") never
\* fire, although they read the books without the lock.
NoConfusion ==
  \A t \in At("got") : numFreeSlots > 0 /\ numWaiting > 0

\* The controller implements the abstract pool of slots: a slot is taken at the
\* semaphore and given back at the post.
AbstractSlots == INSTANCE Slots
  WITH Holder <- Thread, Slot_Count <- resourcesInitial, holders <- SemHolders

ImplementsSlots == AbstractSlots!Spec
=============================================================================
