------------------------------ MODULE SeDProofs ------------------------------
(***************************************************************************)
(* First the access controller for every finite set of threads, every      *)
(* limit and any choice the semaphore makes: the inductive invariant ties  *)
(* the three counters to where the threads are; the limit, the silence of  *)
(* the controller's own tests and the refinement of Slots follow from it.  *)
(* Then the SeD's limit of concurrent solves for any number of requests    *)
(* and failures, any limit and any changes of the service table.           *)
(* Every step of the SeD is a step of the access controller or leaves it   *)
(* alone, so the controller's invariant carries over; Link ties the place  *)
(* of a request in solve() to its place in the controller.                 *)
(***************************************************************************)
EXTENDS SeD, OrderingProofs

ACInv == ACTypeOK /\ BooksHold

\* The limit is a natural number.
LEMMA LimitType == resourcesInitial \in Nat
BY ResourcesAssumption DEF resourcesInitial

\* The threads at a place of the controller can be counted.
LEMMA AtFinite ==
  ASSUME NEW s
  PROVE  IsFiniteSet(At(s)) /\ Cardinality(At(s)) \in Nat
<1>1. At(s) \in SUBSET Thread
  BY DEF At
<1> QED
  BY <1>1, ThreadAssumption, FS_Subset, FS_CardinalityType

\* So can the threads past the semaphore.
LEMMA SemHoldersFinite ==
  IsFiniteSet(SemHolders) /\ Cardinality(SemHolders) \in Nat
<1>1. SemHolders \in SUBSET Thread
  BY DEF SemHolders, At
<1> QED
  BY <1>1, ThreadAssumption, FS_Subset, FS_CardinalityType

\* What one step of a thread from place a to place b does to the counts.
LEMMA Move ==
  ASSUME ACTypeOK, NEW t \in Thread, NEW a, NEW b \in AC_PC, a # b,
         ac[t] = a, ac' = [ac EXCEPT ![t] = b]
  PROVE  /\ Cardinality(At(a)') = Cardinality(At(a)) - 1
         /\ Cardinality(At(b)') = Cardinality(At(b)) + 1
         /\ Cardinality(At(a)) >= 1
         /\ \A s : s # a /\ s # b => At(s)' = At(s)
<1>1. /\ At(a)' = At(a) \ {t} /\ t \in At(a)
      /\ At(b)' = At(b) \cup {t} /\ t \notin At(b)
  BY DEF ACTypeOK, At
<1>2. \A s : s # a /\ s # b => At(s)' = At(s)
  BY DEF ACTypeOK, At
<1>3. Cardinality(At(a)') = Cardinality(At(a)) - 1
  BY <1>1, AtFinite, FS_RemoveElement
<1>4. Cardinality(At(b)') = Cardinality(At(b)) + 1
  BY <1>1, AtFinite, FS_AddElement
<1>5. Cardinality(At(a)) >= 1
  <2>1. Cardinality(At(a)) # 0
    BY <1>1, AtFinite, FS_EmptySet
  <2> QED
    BY <2>1, AtFinite
<1> QED
  BY <1>2, <1>3, <1>4, <1>5

\* Initially the books agree.
LEMMA ACInitInv == ACInit => ACInv
<1> SUFFICES ASSUME ACInit PROVE ACInv
  OBVIOUS
<1>1. At("got") = {} /\ At("leaving") = {} /\ At("numbered") = {}
      /\ SemHolders = {}
  BY DEF ACInit, At, SemHolders
<1>2. Cardinality({}) = 0
  BY FS_EmptySet
<1>3. /\ numFreeSlots = resourcesInitial /\ sem = resourcesInitial
      /\ numWaiting = 0 /\ reqCounter = 0 /\ maxIDReleased = -1
      /\ ac = [t \in Thread |-> "out"] /\ myReqID = [t \in Thread |-> -1]
  BY Zenon DEF ACInit
<1>5. -1 \in -1..(MaxReq - 1) /\ 0 \in 0..MaxReq
  BY MaxReqAssumption
<1>6. ACTypeOK
  BY <1>3, <1>5, LimitType DEF ACTypeOK, AC_PC
<1>7. SemaphoreBooks /\ SlotBooks /\ WaitBooks
  BY <1>1, <1>2, <1>3, LimitType DEF SemaphoreBooks, SlotBooks, WaitBooks
<1> QED
  BY <1>6, <1>7 DEF ACInv, BooksHold

\* Every step of the controller keeps the books.
LEMMA ACNextInv == ACInv /\ [ACNext]_acVars => ACInv'
<1> SUFFICES ASSUME ACInv, [ACNext]_acVars PROVE ACInv'
  OBVIOUS
<1> USE DEF ACInv, BooksHold
<1>1. ASSUME NEW t \in Thread, TakeNumber(t) PROVE ACInv'
  <2>1. ACTypeOK'
    BY <1>1, MaxReqAssumption DEF ACTypeOK, TakeNumber, AC_PC
  <2>2. /\ Cardinality(At("numbered")') = Cardinality(At("numbered")) + 1
        /\ At("got")' = At("got")
        /\ At("in")' = At("in") /\ At("leaving")' = At("leaving")
    BY <1>1, Move DEF TakeNumber, AC_PC
  <2>3. SemaphoreBooks' /\ SlotBooks'
    BY <1>1, <2>2 DEF TakeNumber, SemaphoreBooks, SemHolders, SlotBooks
  <2>4. WaitBooks'
    BY <1>1, <2>2, AtFinite DEF TakeNumber, WaitBooks, ACTypeOK
  <2> QED
    BY <2>1, <2>3, <2>4
<1>3. ASSUME NEW t \in Thread, SemGrant(t) PROVE ACInv'
  <2>1. ACTypeOK'
    BY <1>3 DEF ACTypeOK, SemGrant, AC_PC
  <2>2. /\ Cardinality(At("numbered")') = Cardinality(At("numbered")) - 1
        /\ Cardinality(At("got")') = Cardinality(At("got")) + 1
        /\ At("leaving")' = At("leaving")
    BY <1>3, Move DEF SemGrant, AC_PC
  <2>3. t \notin SemHolders /\ SemHolders' = SemHolders \cup {t}
    BY <1>3 DEF SemGrant, SemHolders, At, ACTypeOK
  <2>4. Cardinality(SemHolders') = Cardinality(SemHolders) + 1
    BY <2>3, SemHoldersFinite, FS_AddElement
  <2>5. SemaphoreBooks'
    BY <1>3, <2>4, SemHoldersFinite, LimitType
    DEF SemGrant, SemaphoreBooks, ACTypeOK
  <2>6. SlotBooks' /\ WaitBooks'
    BY <1>3, <2>2, AtFinite DEF SemGrant, SlotBooks, WaitBooks, ACTypeOK
  <2> QED
    BY <2>1, <2>5, <2>6
<1>4. ASSUME NEW t \in Thread, Book(t) PROVE ACInv'
  <2>1. ACTypeOK'
    BY <1>4, MaxReqAssumption DEF ACTypeOK, Book, AC_PC
  <2>2. /\ Cardinality(At("got")') = Cardinality(At("got")) - 1
        /\ At("numbered")' = At("numbered") /\ At("leaving")' = At("leaving")
    BY <1>4, Move DEF Book, AC_PC
  <2>3. SemHolders' = SemHolders
    BY <1>4 DEF Book, SemHolders, At, ACTypeOK
  <2>4. SemaphoreBooks'
    BY <1>4, <2>3 DEF Book, SemaphoreBooks
  <2>5. SlotBooks' /\ WaitBooks'
    BY <1>4, <2>2, AtFinite DEF Book, SlotBooks, WaitBooks, ACTypeOK
  <2> QED
    BY <2>1, <2>4, <2>5
<1>5. ASSUME NEW t \in Thread, Release(t) PROVE ACInv'
  <2>1. ACTypeOK'
    BY <1>5 DEF ACTypeOK, Release, AC_PC
  <2>2. /\ Cardinality(At("leaving")') = Cardinality(At("leaving")) + 1
        /\ At("numbered")' = At("numbered") /\ At("got")' = At("got")
    BY <1>5, Move DEF Release, AC_PC
  <2>3. SemHolders' = SemHolders
    BY <1>5 DEF Release, SemHolders, At, ACTypeOK
  <2>4. SemaphoreBooks' /\ WaitBooks'
    BY <1>5, <2>2, <2>3 DEF Release, SemaphoreBooks, WaitBooks
  <2>5. SlotBooks'
    BY <1>5, <2>2, AtFinite DEF Release, SlotBooks, ACTypeOK
  <2> QED
    BY <2>1, <2>4, <2>5
<1>6. ASSUME NEW t \in Thread, Post(t) PROVE ACInv'
  <2>1. ACTypeOK'
    BY <1>6 DEF ACTypeOK, Post, AC_PC
  <2>2. /\ Cardinality(At("leaving")') = Cardinality(At("leaving")) - 1
        /\ At("numbered")' = At("numbered") /\ At("got")' = At("got")
    BY <1>6, Move DEF Post, AC_PC
  <2>3. t \in SemHolders /\ SemHolders' = SemHolders \ {t}
    BY <1>6 DEF Post, SemHolders, At, ACTypeOK
  <2>4. Cardinality(SemHolders') = Cardinality(SemHolders) - 1
    BY <2>3, SemHoldersFinite, FS_RemoveElement
  <2>5. SemaphoreBooks'
    BY <1>6, <2>4, SemHoldersFinite, LimitType
    DEF Post, SemaphoreBooks, ACTypeOK
  <2>6. SlotBooks' /\ WaitBooks'
    BY <1>6, <2>2, AtFinite DEF Post, SlotBooks, WaitBooks, ACTypeOK
  <2> QED
    BY <2>1, <2>5, <2>6
<1>7. CASE UNCHANGED acVars
  <2>1. SemHolders' = SemHolders /\ \A s : At(s)' = At(s)
    BY <1>7 DEF acVars, SemHolders, At
  <2> QED
    BY <1>7, <2>1
    DEF acVars, ACTypeOK, SemaphoreBooks, SlotBooks, WaitBooks
<1> QED
  BY <1>1, <1>3, <1>4, <1>5, <1>6, <1>7 DEF ACNext, ACStep

\* So they agree in every reachable state.
LEMMA SpecACInv == ACSpec => []ACInv
BY ACInitInv, ACNextInv, PTL DEF ACSpec

\* The three books agree with the semaphore and with where the threads are.
THEOREM BooksAgree == ACSpec => []BooksHold
<1>1. ACInv => BooksHold
  BY DEF ACInv
<1> QED
  BY <1>1, SpecACInv, PTL

\* The limit follows from the books: what is past the semaphore is the limit less its value.
LEMMA InvLimit == ACInv => LimitRespected
<1> SUFFICES ASSUME ACInv PROVE LimitRespected
  OBVIOUS
<1>1. At("in") \in SUBSET SemHolders
  BY DEF SemHolders
<1>2. Cardinality(At("in")) <= Cardinality(SemHolders)
  BY <1>1, SemHoldersFinite, FS_Subset
<1> QED
  BY <1>2, SemHoldersFinite, AtFinite, LimitType
  DEF ACInv, BooksHold, SemaphoreBooks, LimitRespected, ACTypeOK

\* So do the two tests that the code itself makes.
LEMMA InvNoConfusion == ACInv => NoConfusion
<1> SUFFICES ASSUME ACInv, NEW t \in At("got")
             PROVE  numFreeSlots > 0 /\ numWaiting > 0
  BY DEF NoConfusion
<1>1. Cardinality(At("got")) # 0
  BY AtFinite, FS_EmptySet
<1>2. Cardinality(At("got")) > 0
  BY <1>1, AtFinite
<1> QED
  BY <1>2, AtFinite DEF ACInv, BooksHold, SlotBooks, WaitBooks, ACTypeOK

\* No more threads are between waitForResource() and releaseResource() than
\* the limit, whatever the interleaving.
THEOREM LimitHolds == ACSpec => []LimitRespected
BY SpecACInv, InvLimit, PTL

\* Neither of the two self-tests of waitForResource() ever reports.
THEOREM SelfTestsSilent == ACSpec => []NoConfusion
BY SpecACInv, InvNoConfusion, PTL

\* The controller implements the abstract pool of slots.
THEOREM RefinesSlots == ACSpec => ImplementsSlots
<1>1. ACInit => AbstractSlots!Init
  BY DEF ACInit, AbstractSlots!Init, SemHolders, At
<1>2. ACInv /\ [ACNext]_acVars => [AbstractSlots!Next]_SemHolders
  <2> SUFFICES ASSUME ACInv, [ACNext]_acVars
               PROVE  [AbstractSlots!Next]_SemHolders
    OBVIOUS
  <2>1. ASSUME NEW t \in Thread, SemGrant(t) PROVE AbstractSlots!Enter(t)
    <3>1. t \notin SemHolders /\ SemHolders' = SemHolders \cup {t}
      BY <2>1 DEF SemGrant, SemHolders, At, ACInv, ACTypeOK
    <3>2. Cardinality(SemHolders) < resourcesInitial
      BY <2>1, SemHoldersFinite, LimitType
      DEF SemGrant, ACInv, BooksHold, SemaphoreBooks, ACTypeOK
    <3> QED
      BY <3>1, <3>2 DEF AbstractSlots!Enter, AbstractSlots!Cardinality, Cardinality,
         AbstractSlots!IsFiniteSet, IsFiniteSet
  <2>2. ASSUME NEW t \in Thread, Post(t) PROVE AbstractSlots!Leave(t)
    BY <2>2 DEF Post, SemHolders, At, ACInv, ACTypeOK, AbstractSlots!Leave
  <2>3. ASSUME NEW t \in Thread,
               TakeNumber(t) \/ Book(t) \/ Release(t)
        PROVE  SemHolders' = SemHolders
    BY <2>3 DEF TakeNumber, Book, Release, SemHolders, At,
                ACInv, ACTypeOK
  <2>4. CASE UNCHANGED acVars
    BY <2>4 DEF acVars, SemHolders, At
  <2> QED
    BY <2>1, <2>2, <2>3, <2>4 DEF ACNext, ACStep, AbstractSlots!Next
<1> QED
  BY <1>1, <1>2, SpecACInv, PTL
  DEF ACSpec, ImplementsSlots, AbstractSlots!Spec
-----------------------------------------------------------------------------
\* Where a request may be in the controller, for each place in solve().
LinkAt(p, a) ==
  /\ p \in {"new", "found", "reply", "notified", "end"} => a = "out"
  /\ p = "acquire" => useConcJobLimit /\ a \in {"out", "numbered", "got"}
  /\ p \in SolvingPC => a = IF useConcJobLimit THEN "in" ELSE "out"
  /\ p = "deleted" => IF useConcJobLimit THEN a \in {"in", "leaving"}
                                        ELSE a = "out"

Link == \A r \in Request : LinkAt(pc[r], ac[r])

SeDInv == ACInv /\ pc \in [Request -> SeD_PC] /\ Link

\* Initially no request is in the controller.
LEMMA SeDInitInv == Init => SeDInv
<1> SUFFICES ASSUME Init PROVE SeDInv
  OBVIOUS
<1>1. ACInv
  BY ACInitInv DEF Init
<1>2. \A r \in Request : pc[r] = "new" /\ ac[r] = "out"
  BY Zenon DEF Init, SeDInit, ACInit, Request
<1>3. pc \in [Request -> SeD_PC]
  BY DEF Init, SeDInit, SeD_PC
<1> QED
  BY <1>1, <1>2, <1>3 DEF SeDInv, Link, LinkAt, SolvingPC

\* A step of the SeD is a step of the controller or leaves it unchanged.
LEMMA SeDStepsController == [Next]_vars => [ACNext]_acVars
<1> SUFFICES ASSUME [Next]_vars PROVE [ACNext]_acVars
  OBVIOUS
<1>1. ASSUME NEW r \in Request, Acquire(r) PROVE ACNext
  BY <1>1 DEF Acquire, ACNext, ACStep, Request
<1>2. ASSUME NEW r \in Request, ReleaseResource(r) PROVE [ACNext]_acVars
  BY <1>2 DEF ReleaseResource, ACNext, ACStep, Request
<1>3. ASSUME NEW r \in Request, Work(r), ~Acquire(r), ~ReleaseResource(r)
      PROVE  UNCHANGED acVars
  BY <1>3, Zenon DEF Work, Arrive, NilCallback, Enqueue, Start, Download, Solve,
              Upload, Finish, Delete, Answer
<1>4. ASSUME NEW r \in Request, Fails(r) PROVE UNCHANGED acVars
  BY <1>4, Zenon DEF Fails, TransferFails, BatchFails, CallbackFails
<1>5. ASSUME NEW s \in Service, RemoveService(s) \/ AddService(s)
      PROVE  UNCHANGED acVars
  BY <1>5, Zenon DEF RemoveService, AddService
<1>6. CASE UNCHANGED vars
  BY <1>6 DEF vars
<1> QED
  BY <1>1, <1>2, <1>3, <1>4, <1>5, <1>6 DEF Next

\* A request moves in solve() and stays where it is in the controller.
LEMMA LinkMove ==
  ASSUME SeDInv, NEW r \in Request, NEW s \in SeD_PC,
         Goto(r, s), UNCHANGED ac, LinkAt(s, ac[r])
  PROVE  pc' \in [Request -> SeD_PC] /\ Link'
BY DEF SeDInv, Link, Goto, LinkAt, SolvingPC

\* The link depends on the places alone.
LEMMA LinkSame ==
  ASSUME SeDInv, UNCHANGED <<pc, ac>>
  PROVE  pc' \in [Request -> SeD_PC] /\ Link'
BY DEF SeDInv, Link, LinkAt, SolvingPC

\* A request and its thread in the controller move together.
LEMMA SeDNextInv == SeDInv /\ [Next]_vars => SeDInv'
<1> SUFFICES ASSUME SeDInv, [Next]_vars
             PROVE  SeDInv'
  OBVIOUS
<1> DEFINE Goal == pc' \in [Request -> SeD_PC] /\ Link'
<1>0. ACInv'
  BY SeDStepsController, ACNextInv DEF SeDInv
<1>1. ASSUME NEW r \in Request, Arrive(r) \/ NilCallback(r) PROVE Goal
  <2>1. PICK s \in {"end", "found"} : Goto(r, s) /\ pc[r] = "new" /\ UNCHANGED ac
    BY <1>1 DEF Arrive, NilCallback, acVars
  <2>2. LinkAt(s, ac[r]) /\ s \in SeD_PC
    BY <2>1 DEF SeDInv, Link, LinkAt, SolvingPC, SeD_PC
  <2> QED
    BY <2>1, <2>2, LinkMove
<1>2. ASSUME NEW r \in Request, Enqueue(r) PROVE Goal
  <2>1. PICK s \in SeD_PC : /\ Goto(r, s) /\ pc[r] = "found" /\ UNCHANGED ac
                            /\ s = IF useConcJobLimit THEN "acquire" ELSE "held"
    BY <1>2 DEF Enqueue, acVars, SeD_PC
  <2>2. LinkAt(s, ac[r])
    BY <2>1 DEF SeDInv, Link, LinkAt, SolvingPC
  <2> QED
    BY <2>1, <2>2, LinkMove
<1>3. ASSUME NEW r \in Request, Acquire(r) PROVE Goal
  <2>1. pc[r] = "acquire" /\ useConcJobLimit
    BY <1>3 DEF Acquire, SeDInv, Link, LinkAt
  <2>2. PICK a \in {"numbered", "got", "in"} :
          ac' = [ac EXCEPT ![r] = a]
    BY <1>3 DEF Acquire, TakeNumber, SemGrant, Book
  <2>3. ac'[r] = a
    BY <2>2 DEF SeDInv, ACInv, ACTypeOK, Request
  <2>4. pc' = [pc EXCEPT ![r] = IF a = "in" THEN "held" ELSE "acquire"]
    BY <1>3, <2>3 DEF Acquire, Goto
  <2>5. ASSUME NEW q \in Request PROVE LinkAt(pc[q], ac[q])'
    <3>1. CASE q = r
      BY <2>1, <2>2, <2>3, <2>4, <3>1 DEF SeDInv, LinkAt, SolvingPC
    <3>2. CASE q # r
      BY <2>2, <2>4, <3>2
      DEF SeDInv, Link, LinkAt, SolvingPC, ACInv, ACTypeOK, Request
    <3> QED
      BY <3>1, <3>2
  <2> QED
    BY <2>4, <2>5 DEF SeDInv, SeD_PC, Link
<1>4. ASSUME NEW r \in Request,
             \/ Start(r) \/ Download(r) \/ Upload(r) \/ Finish(r) \/ Delete(r)
      PROVE  Goal
  <2>1. PICK s \in {"started", "loaded", "uploaded", "finished", "deleted"} :
          Goto(r, s) /\ pc[r] \in SolvingPC /\ UNCHANGED ac
    BY <1>4 DEF Start, Download, Upload, Finish, Delete, acVars, SolvingPC
  <2>2. LinkAt(s, ac[r]) /\ s \in SeD_PC
    BY <2>1 DEF SeDInv, Link, LinkAt, SolvingPC, SeD_PC
  <2> QED
    BY <2>1, <2>2, LinkMove
<1>5. ASSUME NEW r \in Request, Solve(r) PROVE Goal
  <2>1. CASE Goto(r, "solved")
    <3>1. pc[r] = "loaded" /\ UNCHANGED ac
      BY <1>5 DEF Solve, acVars
    <3>2. LinkAt("solved", ac[r]) /\ "solved" \in SeD_PC
      BY <3>1 DEF SeDInv, Link, LinkAt, SolvingPC, SeD_PC
    <3> QED
      BY <2>1, <3>1, <3>2, LinkMove
  <2>2. CASE UNCHANGED pc
    BY <1>5, <2>2, LinkSame DEF Solve, acVars
  <2> QED
    BY <1>5, <2>1, <2>2 DEF Solve
<1>6. ASSUME NEW r \in Request, ReleaseResource(r) PROVE Goal
  <2>1. pc[r] = "deleted"
    BY <1>6 DEF ReleaseResource
  <2>2. CASE ~useConcJobLimit
    <3>1. Goto(r, "reply") /\ UNCHANGED ac
      BY <1>6, <2>2 DEF ReleaseResource, acVars
    <3>2. LinkAt("reply", ac[r]) /\ "reply" \in SeD_PC
      BY <2>1, <2>2 DEF SeDInv, Link, LinkAt, SolvingPC, SeD_PC
    <3> QED
      BY <3>1, <3>2, LinkMove
  <2>3. CASE useConcJobLimit
    <3>1. PICK a \in {"leaving", "out"} : ac' = [ac EXCEPT ![r] = a]
      BY <1>6, <2>3 DEF ReleaseResource, Release, Post
    <3>2. ac'[r] = a
      BY <3>1 DEF SeDInv, ACInv, ACTypeOK, Request
    <3>3. pc' = [pc EXCEPT ![r] = IF a = "out" THEN "reply" ELSE "deleted"]
      BY <1>6, <2>3, <3>2 DEF ReleaseResource, Goto
    <3>4. ASSUME NEW q \in Request PROVE LinkAt(pc[q], ac[q])'
      <4>1. CASE q = r
        BY <2>3, <3>1, <3>2, <3>3, <4>1 DEF SeDInv, LinkAt, SolvingPC
      <4>2. CASE q # r
        BY <3>1, <3>3, <4>2
        DEF SeDInv, Link, LinkAt, SolvingPC, ACInv, ACTypeOK, Request
      <4> QED
        BY <4>1, <4>2
    <3> QED
      BY <3>3, <3>4 DEF SeDInv, SeD_PC, Link
  <2> QED
    BY <2>2, <2>3
<1>7. ASSUME NEW r \in Request, Answer(r) \/ CallbackFails(r) PROVE Goal
  <2>1. PICK s \in {"end", "notified"} :
          Goto(r, s) /\ pc[r] \in {"reply", "notified"} /\ UNCHANGED ac
    BY <1>7 DEF Answer, CallbackFails, acVars
  <2>2. LinkAt(s, ac[r]) /\ s \in SeD_PC
    BY <2>1 DEF SeDInv, Link, LinkAt, SolvingPC, SeD_PC
  <2> QED
    BY <2>1, <2>2, LinkMove
<1>8. ASSUME NEW r \in Request, TransferFails(r) \/ BatchFails(r) PROVE Goal
  <2>1. CASE Goto(r, "aborted")
    <3>1. UNCHANGED ac
      BY <1>8 DEF TransferFails, BatchFails, acVars
    <3>2. LinkAt("aborted", ac[r]) /\ "aborted" \in SeD_PC
      BY DEF LinkAt, SolvingPC, SeD_PC
    <3> QED
      BY <2>1, <3>1, <3>2, LinkMove
  <2>2. CASE UNCHANGED pc
    BY <1>8, <2>2, LinkSame DEF TransferFails, BatchFails, acVars
  <2> QED
    BY <1>8, <2>1, <2>2 DEF TransferFails, BatchFails
<1>9. ASSUME NEW s \in Service, RemoveService(s) \/ AddService(s) PROVE Goal
  BY <1>9, LinkSame DEF RemoveService, AddService, acVars
<1>10. ASSUME UNCHANGED vars PROVE Goal
  <2>1. acVars' = acVars /\ sedVars' = sedVars
    BY <1>10 DEF vars
  <2>2. pc' = pc /\ ac' = ac
    BY <2>1 DEF acVars, sedVars
  <2> QED
    BY <2>2, LinkSame
<1>11. ASSUME NEW r \in Request, Work(r) \/ Fails(r) PROVE Goal
  BY <1>11, <1>1, <1>2, <1>3, <1>4, <1>5, <1>6, <1>7, <1>8 DEF Work, Fails
<1>12. Goal
  <2>1. CASE Next
    BY <2>1, <1>9, <1>11 DEF Next
  <2> QED
    BY <2>1, <1>10
<1> QED
  BY <1>0, <1>12 DEF SeDInv

\* So the link is an invariant.
LEMMA SpecSeDInv == Spec => []SeDInv
BY SeDInitInv, SeDNextInv, PTL DEF Spec

\* However many requests arrive by whichever of the four entry points, and
\* whatever fails, no more solvers run than the configured limit.
THEOREM SolvesLimited == Spec => []ConcurrencyLimit
<1>1. SeDInv => ConcurrencyLimit
  <2> SUFFICES ASSUME SeDInv, useConcJobLimit
               PROVE  Cardinality(Solving) <= resourcesInitial
    BY DEF ConcurrencyLimit
  <2>1. Solving \in SUBSET At("in")
    BY DEF SeDInv, Link, LinkAt, Solving, At, Request
  <2>2. Cardinality(Solving) <= Cardinality(At("in"))
    BY <2>1, AtFinite, FS_Subset
  <2>3. Cardinality(Solving) \in Nat
    BY <2>1, AtFinite, FS_Subset, FS_CardinalityType
  <2>4. Cardinality(At("in")) <= resourcesInitial
    BY InvLimit DEF SeDInv, LimitRespected
  <2> QED
    BY <2>2, <2>3, <2>4, AtFinite, LimitType
<1> QED
  BY <1>1, SpecSeDInv, PTL

\* A slot is held by a request under way or was kept by an aborted one: no
\* request that was answered, or whose callback failed, keeps a slot.
THEOREM SlotsNotLeaked == Spec => []SlotsKeptOnlyByAborts
<1>1. SeDInv => SlotsKeptOnlyByAborts
  BY DEF SeDInv, Link, LinkAt, SolvingPC, SeD_PC, SlotsKeptOnlyByAborts
<1> QED
  BY <1>1, SpecSeDInv, PTL

\* The SeD uses its access controller as the controller expects: its steps are
\* the controller's steps.
THEOREM SeDUsesController == Spec => ACSpec
<1>1. Init => ACInit
  BY DEF Init
<1> QED
  BY <1>1, SeDStepsController, PTL DEF Spec, ACSpec
-----------------------------------------------------------------------------
\* Between the lookup and the call of the solver.
LookedUp == {"found", "acquire", "held", "started", "loaded"}

SeDTypes ==
  /\ table \in Seq(Service)
  /\ path = [r \in Request |-> path[r]]
  /\ ran = [r \in Request |-> ran[r]]
  /\ ref \in [Request -> Nat]

\* The index of a request is that of its service, unless it has been moved.
RefsAreRight ==
  \A r \in Request : pc[r] \in LookedUp /\ r \notin moved =>
     ref[r] \in DOMAIN table /\ table[ref[r]] = path[r]

NewHaveNotRun == \A r \in Request : pc[r] = "new" => ran[r] = NoSolver

ServiceInv ==
  /\ SeDTypes /\ RefsAreRight /\ NewHaveNotRun
  /\ WrongSolverOnlyAfterRemoval /\ ExitExplained

\* Nobody has looked a service up initially.
LEMMA ServiceInit == Init => ServiceInv
<1> SUFFICES ASSUME Init PROVE ServiceInv
  OBVIOUS
<1>1. /\ pc = [r \in Request |-> "new"] /\ path = [r \in Request |-> NoSolver]
      /\ ref = [r \in Request |-> 0] /\ table = Table
      /\ ran = [r \in Request |-> NoSolver] /\ exited = FALSE
  BY DEF Init, SeDInit
<1>2. SeDTypes
  BY <1>1, SeDAssumption DEF SeDTypes, SeDAssumption
<1> QED
  BY <1>1, <1>2 DEF ServiceInv, RefsAreRight, LookedUp, NewHaveNotRun,
     WrongSolverOnlyAfterRemoval, ExitExplained

\* lookupService() finds the service when the table has it.
LEMMA LookupFinds ==
  ASSUME table \in Seq(Service), NEW s
  PROVE  /\ lookupService(s) \in Nat
         /\ lookupService(s) # 0 =>
              lookupService(s) \in DOMAIN table /\ table[lookupService(s)] = s
<1>1. DOMAIN table = 1..Len(table) /\ Len(table) \in Nat
  OBVIOUS
<1>2. CASE \E i \in DOMAIN table : table[i] = s
  <2> DEFINE P == {i \in DOMAIN table : table[i] = s}
  <2>1. PICK i \in P : \A k \in P : i <= k
    <3>1. P \in SUBSET Nat /\ P # {}
      BY <1>1, <1>2
    <3> HIDE DEF P
    <3> QED
      BY <3>1, LeastExists
  <2>2. i \in DOMAIN table /\ table[i] = s /\ i \in Nat
    BY <1>1, <2>1
  <2>3. \A j \in 1..(i - 1) : table[j] # s
    <3> SUFFICES ASSUME NEW j \in 1..(i - 1), table[j] = s PROVE FALSE
      OBVIOUS
    <3>1. j \in DOMAIN table /\ ~(i <= j)
      BY <1>1, <2>2
    <3> QED
      BY <2>1, <3>1
  <2>4. PICK n : n = lookupService(s)
    OBVIOUS
  <2>5. n \in DOMAIN table /\ table[n] = s
    BY <1>2, <2>2, <2>3, <2>4, Zenon DEF lookupService
  <2> QED
    BY <1>1, <2>4, <2>5
<1>3. CASE ~ \E i \in DOMAIN table : table[i] = s
  BY <1>3, Zenon DEF lookupService
<1> QED
  BY <1>2, <1>3

\* A request moves on after its lookup and neither runs a solver nor dies.
LEMMA ServiceMove ==
  ASSUME SeDInv, ServiceInv, NEW r \in Request, NEW s, Goto(r, s),
         s # "new", s \in LookedUp => pc[r] \in LookedUp,
         UNCHANGED <<path, ref, table, ran, moved, exited>>,
         exited => UNCHANGED <<pc, parallel>>
  PROVE  ServiceInv'
<1>1. /\ pc'[r] = s /\ \A q \in Request \ {r} : pc'[q] = pc[q]
  BY DEF Goto, SeDInv
<1>2. SeDTypes'
  BY DEF ServiceInv, SeDTypes
<1>3. RefsAreRight'
  BY <1>1 DEF ServiceInv, RefsAreRight
<1>4. NewHaveNotRun'
  BY <1>1 DEF ServiceInv, NewHaveNotRun
<1>5. WrongSolverOnlyAfterRemoval'
  BY DEF ServiceInv, WrongSolverOnlyAfterRemoval
<1>6. ExitExplained'
  BY DEF ServiceInv, ExitExplained
<1> QED
  BY <1>2, <1>3, <1>4, <1>5, <1>6 DEF ServiceInv

\* Nothing the invariant speaks of changes.
LEMMA ServiceSame ==
  ASSUME ServiceInv, UNCHANGED <<pc, path, ref, parallel, table, ran, moved, exited>>
  PROVE  ServiceInv'
BY DEF ServiceInv, SeDTypes, RefsAreRight, NewHaveNotRun,
       WrongSolverOnlyAfterRemoval, ExitExplained

\* The lookup: the index is right when it is made.
LEMMA ServiceArrive ==
  ASSUME SeDInv, ServiceInv, NEW r \in Request, Arrive(r)
  PROVE  ServiceInv'
<1>1. PICK s \in Service :
        /\ path' = [path EXCEPT ![r] = s]
        /\ ref' = [ref EXCEPT ![r] = lookupService(s)]
        /\ pc' = [pc EXCEPT ![r] = IF lookupService(s) = 0 THEN "end" ELSE "found"]
  BY Zenon DEF Arrive, Goto
<1>2. ~exited /\ pc[r] = "new" /\ UNCHANGED <<table, ran, moved, exited>>
  BY DEF Arrive, Up
<1>3. PICK n : n = lookupService(s)
  OBVIOUS
<1>4. n \in Nat /\ (n # 0 => n \in DOMAIN table /\ table[n] = s)
  BY <1>3, LookupFinds DEF ServiceInv, SeDTypes
<1>5. /\ pc'[r] \in {"end", "found"} /\ (pc'[r] = "found" => n # 0)
      /\ path'[r] = s /\ ref'[r] = n
      /\ \A q \in Request \ {r} : /\ pc'[q] = pc[q] /\ path'[q] = path[q]
                                  /\ ref'[q] = ref[q]
  BY <1>1, <1>3 DEF SeDInv, ServiceInv, SeDTypes
<1>6. SeDTypes'
  BY <1>1, <1>2, <1>3, <1>4 DEF ServiceInv, SeDTypes
<1>7. RefsAreRight'
  BY <1>2, <1>4, <1>5 DEF ServiceInv, RefsAreRight, LookedUp
<1>8. NewHaveNotRun'
  BY <1>2, <1>5 DEF ServiceInv, NewHaveNotRun
<1>9. WrongSolverOnlyAfterRemoval'
  BY <1>2, <1>5 DEF ServiceInv, WrongSolverOnlyAfterRemoval, NewHaveNotRun
<1>10. ExitExplained'
  BY <1>2 DEF ExitExplained
<1> QED
  BY <1>6, <1>7, <1>8, <1>9, <1>10 DEF ServiceInv

\* The solver at the index runs: the right one, or the index was moved.
LEMMA ServiceSolve ==
  ASSUME SeDInv, ServiceInv, NEW r \in Request, Solve(r)
  PROVE  ServiceInv'
<1>1. /\ ~exited /\ pc[r] = "loaded"
      /\ UNCHANGED <<path, ref, parallel, table, moved>>
  BY DEF Solve, Up
<1>2. r \notin moved => ref[r] \in DOMAIN table /\ table[ref[r]] = path[r]
  BY <1>1 DEF ServiceInv, RefsAreRight, LookedUp
<1>3. CASE /\ ref[r] \in DOMAIN table /\ UNCHANGED exited
           /\ ran' = [ran EXCEPT ![r] = table[ref[r]]] /\ Goto(r, "solved")
  <2>1. /\ pc'[r] = "solved" /\ ran'[r] = table[ref[r]]
        /\ \A q \in Request \ {r} : pc'[q] = pc[q] /\ ran'[q] = ran[q]
    BY <1>3 DEF Goto, SeDInv, ServiceInv, SeDTypes
  <2>2. SeDTypes'
    BY <1>1, <1>3 DEF ServiceInv, SeDTypes
  <2>3. RefsAreRight' /\ NewHaveNotRun'
    BY <1>1, <2>1 DEF ServiceInv, RefsAreRight, NewHaveNotRun, LookedUp
  <2>4. WrongSolverOnlyAfterRemoval'
    BY <1>1, <1>2, <2>1 DEF ServiceInv, WrongSolverOnlyAfterRemoval
  <2>5. ExitExplained'
    BY <1>1, <1>3 DEF ExitExplained
  <2> QED
    BY <2>2, <2>3, <2>4, <2>5 DEF ServiceInv
<1>4. CASE ref[r] \notin DOMAIN table /\ UNCHANGED <<ran, pc>>
  <2>1. ExitExplained'
    BY <1>1, <1>2, <1>4 DEF ExitExplained
  <2> QED
    BY <1>1, <1>4, <2>1 DEF ServiceInv, SeDTypes, RefsAreRight, NewHaveNotRun,
       WrongSolverOnlyAfterRemoval
<1> QED
  BY <1>3, <1>4 DEF Solve

\* A service is removed: the entries before it stay where they are, and the
\* requests whose index is behind it are marked.
LEMMA ServiceRemove ==
  ASSUME SeDInv, ServiceInv, NEW s \in Service, RemoveService(s)
  PROVE  ServiceInv'
<1>1. PICK n : n = lookupService(s)
  OBVIOUS
<1>2. /\ ~exited /\ n # 0 /\ table' = RemoveAt(table, n)
      /\ moved' = moved \cup {r \in Request :
                     pc[r] \notin {"new", "end"} /\ ref[r] >= n}
      /\ UNCHANGED <<pc, path, ref, parallel, ran, exited>>
  BY <1>1 DEF RemoveService, Up
<1>3. table \in Seq(Service) /\ n \in Nat /\ n \in DOMAIN table
  BY <1>1, <1>2, LookupFinds DEF ServiceInv, SeDTypes
<1>4. /\ table' \in Seq(Service)
      /\ \A i \in DOMAIN table : i < n => i \in DOMAIN table' /\ table'[i] = table[i]
  <2> DEFINE m == Len(table)
             a == SubSeq(table, 1, n - 1)
             b == SubSeq(table, n + 1, m)
  <2>1. m \in Nat /\ DOMAIN table = 1..m /\ n \in 1..m
    BY <1>3
  <2>2. /\ a \in Seq(Service) /\ Len(a) = n - 1
        /\ \A i \in 1..(n - 1) : a[i] = table[i]
    BY <1>3, <2>1
  <2>3. b \in Seq(Service)
    BY <1>3, <2>1
  <2>4. table' = a \o b
    BY <1>2 DEF RemoveAt
  <2> HIDE DEF a, b
  <2>5. a \o b \in Seq(Service) /\ Len(a \o b) = Len(a) + Len(b)
    BY <2>2, <2>3
  <2>6. \A i \in 1..(n - 1) : i \in DOMAIN table' /\ table'[i] = table[i]
    BY <2>1, <2>2, <2>3, <2>4, <2>5
  <2> QED
    BY <2>1, <2>4, <2>5, <2>6
<1>5. ASSUME NEW r \in Request, pc[r] \in LookedUp, r \notin moved'
      PROVE  ref[r] \in DOMAIN table' /\ table'[ref[r]] = path[r]
  <2>1. r \notin moved /\ ~(ref[r] >= n)
    BY <1>2, <1>5 DEF LookedUp
  <2>2. ref[r] \in DOMAIN table /\ table[ref[r]] = path[r]
    BY <1>5, <2>1 DEF ServiceInv, RefsAreRight
  <2>3. ref[r] < n
    BY <1>3, <2>1 DEF ServiceInv, SeDTypes
  <2> QED
    BY <1>4, <2>2, <2>3
<1>6. SeDTypes'
  BY <1>2, <1>4 DEF ServiceInv, SeDTypes
<1>7. RefsAreRight'
  BY <1>2, <1>5 DEF RefsAreRight
<1>8. NewHaveNotRun' /\ WrongSolverOnlyAfterRemoval' /\ ExitExplained'
  BY <1>2 DEF ServiceInv, NewHaveNotRun, WrongSolverOnlyAfterRemoval, ExitExplained
<1> QED
  BY <1>6, <1>7, <1>8 DEF ServiceInv

\* addService() puts the service at the end: the solvers found before stay where they are.
LEMMA ServiceAdd ==
  ASSUME ServiceInv, NEW s \in Service, AddService(s)
  PROVE  ServiceInv'
<1>1. /\ table' = Append(table, s)
      /\ UNCHANGED <<pc, path, ref, parallel, ran, moved, exited>>
  BY DEF AddService
<1>2. table \in Seq(Service)
  BY DEF ServiceInv, SeDTypes
<1>3. /\ table' \in Seq(Service)
      /\ \A i \in DOMAIN table : i \in DOMAIN table' /\ table'[i] = table[i]
  BY <1>1, <1>2
<1> QED
  BY <1>1, <1>3 DEF ServiceInv, SeDTypes, RefsAreRight, NewHaveNotRun,
     WrongSolverOnlyAfterRemoval, ExitExplained

\* Every step keeps it: a removal is recorded for the requests it moves the solvers of.
LEMMA ServiceStep == SeDInv /\ ServiceInv /\ [Next]_vars => ServiceInv'
<1> SUFFICES ASSUME SeDInv, ServiceInv, [Next]_vars PROVE ServiceInv'
  OBVIOUS
<1>1. ASSUME NEW r \in Request, Work(r), ~Arrive(r), ~Solve(r) PROVE ServiceInv'
  <2>1. PICK s \in SeD_PC : /\ Goto(r, s) /\ s # "new"
                            /\ s \in LookedUp => pc[r] \in LookedUp
    BY <1>1 DEF Work, NilCallback, Enqueue, Acquire, Start, Download, Upload,
       Finish, Delete, ReleaseResource, Answer, LookedUp, SeD_PC
  <2>2. ~exited /\ UNCHANGED <<path, ref, table, ran, moved, exited>>
    BY <1>1, Zenon DEF Work, NilCallback, Enqueue, Acquire, Start, Download, Upload,
       Finish, Delete, ReleaseResource, Answer, Up
  <2> QED
    BY <2>1, <2>2, ServiceMove
<1>2. ASSUME NEW r \in Request, TransferFails(r) \/ CallbackFails(r) PROVE ServiceInv'
  <2>1. PICK s \in {"aborted", "end"} : Goto(r, s)
    BY <1>2 DEF TransferFails, CallbackFails
  <2>2. ~exited /\ UNCHANGED <<path, ref, table, ran, moved, exited>>
    BY <1>2, Zenon DEF TransferFails, CallbackFails, Up
  <2> QED
    BY <2>1, <2>2, ServiceMove DEF LookedUp
<1>3. ASSUME NEW r \in Request, BatchFails(r) PROVE ServiceInv'
  <2>1. /\ ~exited /\ pc[r] = "solved" /\ parallel[r]
        /\ UNCHANGED <<path, ref, parallel, table, ran, moved>>
    BY <1>3 DEF BatchFails, Up
  <2>2. CASE Goto(r, "aborted") /\ UNCHANGED exited
    BY <2>1, <2>2, ServiceMove DEF LookedUp
  <2>3. CASE UNCHANGED pc
    BY <2>1, <2>3 DEF ServiceInv, SeDTypes, RefsAreRight, NewHaveNotRun,
       WrongSolverOnlyAfterRemoval, ExitExplained
  <2> QED
    BY <1>3, <2>2, <2>3 DEF BatchFails
<1>4. ASSUME NEW s \in Service, RemoveService(s) \/ AddService(s) PROVE ServiceInv'
  BY <1>4, ServiceRemove, ServiceAdd
<1>5. CASE UNCHANGED vars
  BY <1>5, ServiceSame DEF vars, sedVars
<1> QED
  BY <1>1, <1>2, <1>3, <1>4, <1>5, ServiceArrive, ServiceSolve DEF Next, Fails

\* So it is an invariant.
LEMMA SpecServiceInv == Spec => []ServiceInv
BY ServiceInit, ServiceStep, SpecSeDInv, PTL DEF Spec

\* However often the application changes the table, a request runs the solver
\* of the service it asked for unless an entry at or before its own was removed
\* while it waited.
THEOREM RightSolver == Spec => []WrongSolverOnlyAfterRemoval
<1>1. ServiceInv => WrongSolverOnlyAfterRemoval
  BY DEF ServiceInv
<1> QED
  BY <1>1, SpecServiceInv, PTL

\* The process dies only of such a removal or of a failed batch job.
THEOREM DeathsAreExplained == Spec => []ExitExplained
<1>1. ServiceInv => ExitExplained
  BY DEF ServiceInv
<1> QED
  BY <1>1, SpecServiceInv, PTL
-----------------------------------------------------------------------------
\* Each request has an identifier of its own, as when one MA numbers them.
IdsAreOwn == \A q, r \in Request : dietReqID[q] = dietReqID[r] => q = r

Job(r) == myJobs[dietReqID[r]]
KeepsWaiting(r) == parallel[r] /\ call[r] = "solveAsync"

\* The entry of a request in the map, for each place in solve().
JobAt(r) ==
  /\ pc[r] \in {"new", "found"} => Job(r) = "none"
  /\ pc[r] \in {"acquire", "held"} => Job(r) = "WAITING"
  /\ pc[r] \in {"started", "loaded", "solved"} =>
       Job(r) = IF KeepsWaiting(r) THEN "WAITING" ELSE "RUNNING"
  /\ pc[r] = "uploaded" => Job(r) = "RUNNING"
  /\ pc[r] = "finished" => Job(r) = "FINISHED"

JobTypes ==
  /\ myJobs \in [Id -> {"none", "WAITING", "RUNNING", "FINISHED"}]
  /\ call = [r \in Request |-> call[r]]
  /\ parallel = [r \in Request |-> parallel[r]]

\* The three parts of the job queue.
QueueAgrees ==
  /\ myWaitingQueue \in Seq(Id)
  /\ \A i, j \in DOMAIN myWaitingQueue :
       myWaitingQueue[i] = myWaitingQueue[j] => i = j
  /\ ToSet(myWaitingQueue) = {i \in Id : myJobs[i] = "WAITING"}
CountAgrees ==
  IsFiniteSet(ActiveJobs) /\ nbActiveJobs = Cardinality(ActiveJobs)

JobInv ==
  /\ IdsAreOwn /\ JobTypes /\ QueueAgrees /\ CountAgrees
  /\ \A r \in Request : JobAt(r)

\* The job queue is empty initially.
LEMMA JobInit == Init /\ IdsAreOwn => JobInv
<1> SUFFICES ASSUME Init, IdsAreOwn PROVE JobInv
  OBVIOUS
<1>1. /\ myJobs = [i \in Id |-> "none"] /\ myWaitingQueue = <<>>
      /\ nbActiveJobs = 0
  BY DEF Init, JQInit
<1>2. /\ pc = [r \in Request |-> "new"] /\ call = [r \in Request |-> "solve"]
      /\ parallel = [r \in Request |-> FALSE]
  BY DEF Init, SeDInit
<1>3. QueueAgrees
  BY <1>1 DEF QueueAgrees, ToSet
<1>4. CountAgrees
  <2>1. ActiveJobs = {}
    BY <1>1 DEF ActiveJobs
  <2> QED
    BY <1>1, <2>1, FS_EmptySet DEF CountAgrees
<1>5. JobTypes
  BY <1>1, <1>2 DEF JobTypes
<1>6. \A r \in Request : JobAt(r)
  BY <1>1, <1>2, SeDAssumption DEF JobAt, Job, SeDAssumption
<1> QED
  BY <1>3, <1>4, <1>5, <1>6 DEF JobInv

\* Only one request moves: the entries of the others are not touched.
LEMMA JobOthers ==
  ASSUME SeDInv, JobInv, NEW r \in Request, NEW s, Goto(r, s),
         JobTypes', QueueAgrees', CountAgrees', JobAt(r)',
         \A i \in Id \ {dietReqID[r]} : myJobs'[i] = myJobs[i],
         \A q \in Request \ {r} : call'[q] = call[q] /\ parallel'[q] = parallel[q]
  PROVE  JobInv'
<1>1. \A q \in Request \ {r} : pc'[q] = pc[q]
  BY DEF Goto, SeDInv
<1>2. \A q \in Request \ {r} : Job(q)' = Job(q)
  BY SeDAssumption DEF JobInv, IdsAreOwn, Job, SeDAssumption
<1>3. ASSUME NEW q \in Request \ {r} PROVE JobAt(q)'
  <2>1. KeepsWaiting(q)' <=> KeepsWaiting(q)
    BY DEF KeepsWaiting
  <2> QED
    BY <1>1, <1>2, <2>1 DEF JobInv, JobAt
<1> QED
  BY <1>3 DEF JobInv, IdsAreOwn

\* A request moves and the job queue stays.
LEMMA JobMove ==
  ASSUME SeDInv, JobInv, NEW r \in Request, NEW s \in SeD_PC, Goto(r, s),
         UNCHANGED jqVars, JobTypes',
         \A q \in Request \ {r} : call'[q] = call[q] /\ parallel'[q] = parallel[q],
         JobAt(r)'
  PROVE  JobInv'
<1>1. QueueAgrees' /\ CountAgrees'
  BY DEF JobInv, QueueAgrees, CountAgrees, ActiveJobs, jqVars
<1> QED
  BY <1>1, JobOthers DEF jqVars

\* Nothing the invariant speaks of changes.
LEMMA JobSame ==
  ASSUME JobInv, UNCHANGED <<jqVars, pc, call, parallel>>
  PROVE  JobInv'
BY DEF JobInv, IdsAreOwn, JobTypes, QueueAgrees, CountAgrees, JobAt, Job,
       KeepsWaiting, ActiveJobs, jqVars

\* A request that arrives is not in the queue.
LEMMA JobArrive ==
  ASSUME SeDInv, JobInv, NEW r \in Request, Arrive(r) \/ NilCallback(r)
  PROVE  JobInv'
<1>1. PICK s \in {"end", "found"} : Goto(r, s)
  BY DEF Arrive, NilCallback
<1>2. PICK c : call' = [call EXCEPT ![r] = c]
  BY Zenon DEF Arrive, NilCallback
<1>3. pc[r] = "new" /\ UNCHANGED <<jqVars, parallel>>
  BY DEF Arrive, NilCallback
<1>4. pc'[r] = s
  BY <1>1 DEF Goto, SeDInv
<1>5. Job(r)' = Job(r) /\ Job(r) = "none"
  BY <1>3 DEF JobInv, JobAt, Job, jqVars
<1>6. JobAt(r)'
  BY <1>4, <1>5 DEF JobAt
<1>7. JobTypes' /\ \A q \in Request \ {r} : call'[q] = call[q] /\ parallel'[q] = parallel[q]
  BY <1>2, <1>3 DEF JobInv, JobTypes, jqVars
<1> QED
  BY <1>1, <1>3, <1>6, <1>7, JobMove DEF SeD_PC

\* A request that the queue does not know becomes a waiting job.
LEMMA JobEnqueue ==
  ASSUME SeDInv, JobInv, NEW r \in Request, Enqueue(r)
  PROVE  JobInv'
<1> DEFINE i == dietReqID[r]
<1>0. i \in Id
  BY SeDAssumption DEF SeDAssumption
<1>1. /\ pc[r] = "found" /\ UNCHANGED call
      /\ myJobs' = [myJobs EXCEPT ![i] = "WAITING"]
      /\ myWaitingQueue' = Append(myWaitingQueue, i)
      /\ nbActiveJobs' = nbActiveJobs + 1
  BY DEF Enqueue, addJobWaiting
<1>2. PICK b : parallel' = [parallel EXCEPT ![r] = b]
  BY Zenon DEF Enqueue
<1>3. PICK s \in {"acquire", "held"} : Goto(r, s)
  BY DEF Enqueue
<1>4. myJobs[i] = "none"
  BY <1>1 DEF JobInv, JobAt, Job
<1> HIDE DEF i
<1>5. JobTypes' /\ \A q \in Request \ {r} : parallel'[q] = parallel[q]
  BY <1>0, <1>1, <1>2 DEF JobInv, JobTypes
<1>6. QueueAgrees'
  <2> DEFINE s0 == myWaitingQueue
  <2>1. /\ s0 \in Seq(Id) /\ \A j, k \in DOMAIN s0 : s0[j] = s0[k] => j = k
        /\ ToSet(s0) = {j \in Id : myJobs[j] = "WAITING"}
    BY DEF JobInv, QueueAgrees
  <2>2. i \notin ToSet(s0)
    BY <1>4, <2>1
  <2>3. /\ Append(s0, i) \in Seq(Id)
        /\ ToSet(Append(s0, i)) = ToSet(s0) \cup {i}
        /\ \A j, k \in DOMAIN Append(s0, i) :
             Append(s0, i)[j] = Append(s0, i)[k] => j = k
    BY <1>0, <2>1, <2>2, AppendIsOnce
  <2>4. {j \in Id : myJobs'[j] = "WAITING"} = ToSet(s0) \cup {i}
    BY <1>0, <1>1, <2>1 DEF JobInv, JobTypes
  <2> QED
    BY <1>1, <2>3, <2>4 DEF QueueAgrees
<1>7. CountAgrees'
  <2>1. ActiveJobs' = ActiveJobs \cup {i} /\ i \notin ActiveJobs
    BY <1>0, <1>1, <1>4 DEF ActiveJobs, JobInv, JobTypes
  <2> QED
    BY <1>1, <2>1, FS_AddElement DEF JobInv, CountAgrees
<1>8. JobAt(r)'
  <2>1. pc'[r] \in {"acquire", "held"}
    BY <1>3 DEF Goto, SeDInv
  <2>2. Job(r)' = "WAITING"
    BY <1>0, <1>1 DEF Job, i, JobInv, JobTypes
  <2> QED
    BY <2>1, <2>2 DEF JobAt
<1>9. \A j \in Id \ {dietReqID[r]} : myJobs'[j] = myJobs[j]
  BY <1>1 DEF i, JobInv, JobTypes
<1> QED
  BY <1>1, <1>3, <1>5, <1>6, <1>7, <1>8, <1>9, JobOthers

\* A job starts: it leaves the list of those that wait, unless it is one of
\* parallel_AsyncSolve().
LEMMA JobStart ==
  ASSUME SeDInv, JobInv, NEW r \in Request, Start(r)
  PROVE  JobInv'
<1> DEFINE i == dietReqID[r]
<1>0. i \in Id
  BY SeDAssumption DEF SeDAssumption
<1>1. pc[r] = "held" /\ UNCHANGED <<call, parallel>> /\ Goto(r, "started")
  BY DEF Start
<1>2. /\ myJobs[i] = "WAITING" /\ pc'[r] = "started"
      /\ KeepsWaiting(r)' <=> KeepsWaiting(r)
  BY <1>1 DEF JobInv, JobAt, Job, Goto, SeDInv, KeepsWaiting
<1>3. CASE KeepsWaiting(r)
  <2>1. UNCHANGED jqVars
    BY <1>3 DEF Start, KeepsWaiting
  <2>2. JobAt(r)'
    BY <1>2, <1>3, <2>1 DEF JobAt, Job, jqVars
  <2>3. JobTypes'
    BY <1>1, <2>1 DEF JobInv, JobTypes, jqVars
  <2> QED
    BY <1>1, <2>1, <2>2, <2>3, JobMove DEF SeD_PC
<1>4. CASE ~KeepsWaiting(r)
  <2>1. /\ myJobs' = [myJobs EXCEPT ![i] = "RUNNING"]
        /\ myWaitingQueue' = Only(myWaitingQueue, Id \ {i})
        /\ UNCHANGED nbActiveJobs
    BY <1>4 DEF Start, KeepsWaiting, setJobStarted
  <2> HIDE DEF i
  <2>2. JobTypes'
    BY <1>0, <1>1, <2>1 DEF JobInv, JobTypes
  <2>3. QueueAgrees'
    <3> DEFINE s0 == myWaitingQueue
    <3>1. /\ s0 \in Seq(Id) /\ \A j, k \in DOMAIN s0 : s0[j] = s0[k] => j = k
          /\ ToSet(s0) = {j \in Id : myJobs[j] = "WAITING"}
      BY DEF JobInv, QueueAgrees
    <3>2. /\ Only(s0, Id \ {i}) \in Seq(Id)
          /\ ToSet(Only(s0, Id \ {i})) = ToSet(s0) \cap (Id \ {i})
          /\ \A j, k \in DOMAIN Only(s0, Id \ {i}) :
               Only(s0, Id \ {i})[j] = Only(s0, Id \ {i})[k] => j = k
      BY <3>1, OnlyKeeps
    <3>3. {j \in Id : myJobs'[j] = "WAITING"} = ToSet(s0) \cap (Id \ {i})
      BY <1>0, <2>1, <3>1 DEF JobInv, JobTypes
    <3> QED
      BY <2>1, <3>2, <3>3 DEF QueueAgrees
  <2>4. CountAgrees'
    <3>1. ActiveJobs' = ActiveJobs
      BY <1>0, <1>2, <2>1 DEF ActiveJobs, JobInv, JobTypes, i
    <3> QED
      BY <2>1, <3>1 DEF JobInv, CountAgrees
  <2>5. JobAt(r)'
    <3>1. Job(r)' = "RUNNING"
      BY <1>0, <2>1 DEF Job, i, JobInv, JobTypes
    <3> QED
      BY <1>2, <1>4, <3>1 DEF JobAt
  <2>6. \A j \in Id \ {dietReqID[r]} : myJobs'[j] = myJobs[j]
    BY <2>1 DEF i, JobInv, JobTypes
  <2> QED
    BY <1>1, <2>2, <2>3, <2>4, <2>5, <2>6, JobOthers
<1> QED
  BY <1>3, <1>4

\* A job ends, or is deleted: it was not waiting.
LEMMA JobEnds ==
  ASSUME SeDInv, JobInv, NEW r \in Request, Finish(r) \/ Delete(r)
  PROVE  JobInv'
<1> DEFINE i == dietReqID[r]
<1>0. i \in Id
  BY SeDAssumption DEF SeDAssumption
<1>1. UNCHANGED <<call, parallel, myWaitingQueue>>
  BY DEF Finish, Delete, setJobFinished, deleteJob
<1>2. \/ /\ pc[r] = "uploaded" /\ Goto(r, "finished")
         /\ myJobs' = [myJobs EXCEPT ![i] = "FINISHED"]
         /\ nbActiveJobs' = nbActiveJobs - 1
      \/ /\ pc[r] = "finished" /\ Goto(r, "deleted")
         /\ myJobs' = [myJobs EXCEPT ![i] = "none"]
         /\ nbActiveJobs' = IF myJobs[i] \in {"WAITING", "RUNNING"}
                              THEN nbActiveJobs - 1 ELSE nbActiveJobs
  BY DEF Finish, Delete, setJobFinished, deleteJob
<1>3. /\ pc[r] = "uploaded" => myJobs[i] = "RUNNING"
      /\ pc[r] = "finished" => myJobs[i] = "FINISHED"
  BY DEF JobInv, JobAt, Job
<1> HIDE DEF i
<1>4. PICK s \in {"finished", "deleted"} : Goto(r, s) /\ pc'[r] = s
  BY <1>2 DEF Goto, SeDInv
<1>5. PICK v \in {"FINISHED", "none"} : myJobs' = [myJobs EXCEPT ![i] = v]
  BY <1>2
<1>6. JobTypes'
  BY <1>0, <1>1, <1>5 DEF JobInv, JobTypes
<1>7. myJobs[i] # "WAITING" /\ myJobs[i] \in {"RUNNING", "FINISHED"}
  BY <1>2, <1>3
<1>8. QueueAgrees'
  <2>1. {j \in Id : myJobs'[j] = "WAITING"} = {j \in Id : myJobs[j] = "WAITING"}
    BY <1>0, <1>5, <1>7 DEF JobInv, JobTypes
  <2> QED
    BY <1>1, <2>1 DEF JobInv, QueueAgrees
<1>9. CountAgrees'
  <2>1. ActiveJobs' = ActiveJobs \ {i}
    BY <1>0, <1>5 DEF ActiveJobs, JobInv, JobTypes
  <2>2. i \in ActiveJobs <=> pc[r] = "uploaded"
    BY <1>0, <1>2, <1>3 DEF ActiveJobs
  <2>3. nbActiveJobs' = IF pc[r] = "uploaded" THEN nbActiveJobs - 1
                                              ELSE nbActiveJobs
    BY <1>2, <1>3
  <2> QED
    BY <2>1, <2>2, <2>3, FS_RemoveElement DEF JobInv, CountAgrees
<1>10. JobAt(r)'
  <2>1. pc'[r] = "finished" => Job(r)' = "FINISHED"
    BY <1>0, <1>2, <1>4 DEF Job, i, JobInv, JobTypes, Goto, SeDInv
  <2> QED
    BY <1>4, <2>1 DEF JobAt
<1>11. \A j \in Id \ {dietReqID[r]} : myJobs'[j] = myJobs[j]
  BY <1>5 DEF i, JobInv, JobTypes
<1> QED
  BY <1>1, <1>4, <1>6, <1>8, <1>9, <1>10, <1>11, JobOthers

\* The other steps of a request leave the queue alone.
LEMMA JobOther ==
  ASSUME SeDInv, JobInv, NEW r \in Request,
         \/ Acquire(r) \/ Download(r) \/ Solve(r) \/ Upload(r)
         \/ ReleaseResource(r) \/ Answer(r) \/ Fails(r)
  PROVE  JobInv'
<1>1. UNCHANGED <<jqVars, call, parallel>>
  BY Zenon DEF Acquire, Download, Solve, Upload, ReleaseResource, Answer, Fails,
     TransferFails, BatchFails, CallbackFails
<1>2. /\ Job(r)' = Job(r) /\ JobAt(r)
      /\ KeepsWaiting(r)' <=> KeepsWaiting(r)
  BY <1>1 DEF Job, KeepsWaiting, jqVars, JobInv
<1>3. JobTypes'
  BY <1>1 DEF JobInv, JobTypes, jqVars
<1>4. ASSUME NEW s \in SeD_PC, Goto(r, s), JobAt(r)' PROVE JobInv'
  BY <1>1, <1>3, <1>4, JobMove
<1>5. ASSUME NEW s \in {"deleted", "reply", "notified", "end", "aborted"}, Goto(r, s)
      PROVE  JobInv'
  <2>1. pc'[r] = s
    BY <1>5 DEF Goto, SeDInv
  <2>2. JobAt(r)' /\ s \in SeD_PC
    BY <2>1 DEF JobAt, SeD_PC
  <2> QED
    BY <1>4, <1>5, <2>2
<1>6. CASE UNCHANGED pc
  BY <1>1, <1>6, JobSame
<1>7. CASE Acquire(r)
  <2>1. PICK s \in {"acquire", "held"} : Goto(r, s) /\ pc[r] = "acquire"
    BY <1>7 DEF Acquire
  <2>2. pc'[r] = s
    BY <2>1 DEF Goto, SeDInv
  <2>3. JobAt(r)' /\ s \in SeD_PC
    BY <1>2, <2>1, <2>2 DEF JobAt, SeD_PC
  <2> QED
    BY <1>4, <2>1, <2>3
<1>8. CASE Download(r) \/ (Solve(r) /\ Goto(r, "solved"))
  <2>1. PICK s \in {"loaded", "solved"} :
          Goto(r, s) /\ pc[r] \in {"started", "loaded"}
    BY <1>8 DEF Download, Solve
  <2>2. pc'[r] = s
    BY <2>1 DEF Goto, SeDInv
  <2>3. JobAt(r)' /\ s \in SeD_PC
    BY <1>2, <2>1, <2>2 DEF JobAt, SeD_PC
  <2> QED
    BY <1>4, <2>1, <2>3
<1>9. CASE Upload(r)
  <2>1. CASE KeepsWaiting(r)
    BY <1>5, <1>9, <2>1 DEF Upload, KeepsWaiting
  <2>2. CASE ~KeepsWaiting(r)
    <3>1. Goto(r, "uploaded") /\ pc[r] = "solved"
      BY <1>9, <2>2 DEF Upload, KeepsWaiting
    <3>2. pc'[r] = "uploaded"
      BY <3>1 DEF Goto, SeDInv
    <3>3. JobAt(r)' /\ "uploaded" \in SeD_PC
      BY <1>2, <2>2, <3>1, <3>2 DEF JobAt, SeD_PC
    <3> QED
      BY <1>4, <3>1, <3>3
  <2> QED
    BY <2>1, <2>2
<1>10. CASE ReleaseResource(r)
  <2>1. pc[r] = "deleted" /\ (Goto(r, "reply") \/ Goto(r, "deleted"))
    BY <1>10 DEF ReleaseResource
  <2> QED
    BY <2>1, <1>5
<1>11. CASE Answer(r) \/ Fails(r)
  BY <1>5, <1>6, <1>11 DEF Answer, Fails, TransferFails, BatchFails, CallbackFails
<1>12. CASE Solve(r) /\ UNCHANGED pc
  BY <1>12, <1>6
<1> QED
  BY <1>7, <1>8, <1>9, <1>10, <1>11, <1>12, Zenon DEF Solve

\* Every step keeps map, list and counter together.
LEMMA JobStep == SeDInv /\ JobInv /\ [Next]_vars => JobInv'
<1> SUFFICES ASSUME SeDInv, JobInv, [Next]_vars PROVE JobInv'
  OBVIOUS
<1>1. ASSUME NEW r \in Request, Work(r) \/ Fails(r) PROVE JobInv'
  BY <1>1, JobArrive, JobEnqueue, JobStart, JobEnds, JobOther DEF Work
<1>2. ASSUME NEW s \in Service, RemoveService(s) \/ AddService(s) PROVE JobInv'
  BY <1>2, JobSame DEF RemoveService, AddService
<1>3. CASE UNCHANGED vars
  BY <1>3, JobSame DEF vars, sedVars
<1> QED
  BY <1>1, <1>2, <1>3 DEF Next

\* However many requests there are, and whatever fails, the counter, the map and
\* the list of waiting jobs agree, if no two requests have the same identifier.
THEOREM QueueStaysConsistent == Spec /\ IdsAreOwn => []JobQueueAgrees
<1>1. JobInv => JobQueueAgrees
  <2> SUFFICES ASSUME JobInv PROVE JobQueueAgrees
    OBVIOUS
  <2> DEFINE q == myWaitingQueue
  <2>1. /\ q \in Seq(Id) /\ \A i, j \in DOMAIN q : q[i] = q[j] => i = j
        /\ DOMAIN q = 1..Len(q) /\ Len(q) \in Nat
    BY DEF JobInv, QueueAgrees
  <2>2. Len(q) = Cardinality(ToSet(q))
    <3>1. q \in Bijection(1..Len(q), ToSet(q))
      BY <2>1 DEF Bijection, Injection, Surjection, IsInjective, ToSet
    <3>2. ExistsBijection(1..Len(q), ToSet(q))
      BY <3>1 DEF ExistsBijection
    <3> QED
      BY <2>1, <3>2, FS_CountingElements
  <2> QED
    BY <2>2 DEF JobInv, QueueAgrees, CountAgrees, JobQueueAgrees
<1> QED
  BY JobInit, JobStep, SpecSeDInv, <1>1, PTL DEF Spec
=============================================================================
