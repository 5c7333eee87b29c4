----------------------------- MODULE AsyncCalls -----------------------------
(***************************************************************************)
(* Asynchronous calls of a client (src/client/CallAsyncMgr.cc, with their  *)
(* callers in DIETCall.cc, DIET_client.cc and CallbackImpl.cc).  Client    *)
(* threads start, cancel and wait for requests; a callback thread of the   *)
(* ORB per request stores the result and wakes the threads whose wait rule *)
(* is satisfied.  callAsyncListLock makes each section of a writer one     *)
(* step, and a writer that never leaves keeps it.  Readers do not wait for *)
(* writers (RWLock), so they take their steps all the same.                *)
(***************************************************************************)
EXTENDS Integers, SequencesExt, Ordering

CONSTANTS
  ReqID,        \* request identifiers, in the order of the maps
  Waiter,       \* client threads that wait
  Failing,      \* requests whose solver returns an error
  API,          \* the interfaces that the client calls
  Operators,    \* the kinds of wait the client uses
  Cancels,      \* how the client cancels: one request, or all
  Finalizes,    \* the client calls diet_finalize()
  MaxRefused,   \* bound: requests for which no server is found
  MaxLost,      \* bound: requests, or results, that are lost
  MaxWaits,     \* bound: waits per thread
  NoWaiter

ASSUME AsyncAssumption ==
  /\ ReqID \in SUBSET Nat /\ IsFiniteSet(ReqID) /\ Failing \subseteq ReqID
  /\ API \subseteq {"DIET", "GridRPC", "GridRPCstack"}
  /\ Operators \subseteq {"SOLE", "AND", "OR", "ALL", "ANY"}
  /\ Cancels \subseteq {"one", "all"} /\ Finalizes \in BOOLEAN
  /\ MaxRefused \in Nat /\ MaxLost \in Nat /\ MaxWaits \in Nat
  /\ NoWaiter \notin Waiter

\* GRPC_SESSIONID_VOID: what an exception leaves in profile->dietReqID.
VoidID == -1

VARIABLES
  caList,          \* status of each registered request
  used,            \* Data::used
  rulesIDs,        \* pairs of a request and the thread whose rule names it
  wait,            \* each client thread: its rule, its semaphore, its outcome
  req,             \* where the callback of each request is
  returning,       \* what diet_call_async_common() is about to return
  results,         \* requests whose result has been downloaded
  errorMap,        \* error code of each request
  failedSessions,  \* failed requests not asked for yet
  doneRequests,    \* requests that a wait_any has returned
  spinner,         \* the thread that loops in deleteWaitRule() with the lock
  finalize,        \* diet_finalize()
  lost,            \* losses so far
  cancelled,       \* history: requests that were cancelled
  handed,          \* history: requests that a wait_any has returned
  raced,           \* history: those of them that two threads raced for
  reported,        \* history: how often getFailedSession() has returned one
  crashed

mgrVars == <<caList, used, rulesIDs, doneRequests, spinner>>
callVars == <<req, returning, results>>
errVars == <<errorMap, failedSessions, reported>>
anyVars == <<handed, raced>>
envVars == <<finalize, lost, cancelled, anyVars, crashed>>
vars == <<mgrVars, callVars, errVars, envVars, wait>>

Registered == {r \in ReqID : caList[r] # "none"}
Elements(w) == ToSet(wait[w].elts)

Init ==
  /\ caList = [r \in ReqID |-> "none"]
  /\ used = [r \in ReqID |-> 0]
  /\ rulesIDs = {} /\ doneRequests = <<>> /\ spinner = NoWaiter
  /\ wait = [w \in Waiter |-> [pc |-> "idle", op |-> "SOLE", elts |-> <<>>,
       status |-> "RESOLVING", sem |-> 0, at |-> 1, result |-> "none",
       got |-> -1, count |-> 0]]
  /\ req = [r \in ReqID |-> "idle"] /\ results = {}
  /\ returning = [r \in ReqID |-> "nothing"]
  /\ errorMap = [r \in ReqID \cup {VoidID} |-> "none"]
  /\ failedSessions = <<>> /\ reported = [r \in ReqID \cup {VoidID} |-> 0]
  /\ finalize = "no" /\ lost = 0 /\ cancelled = {} /\ crashed = FALSE
  /\ handed = {} /\ raced = {}

\* callAsyncListLock lets a reader in, a writer in.  notifyRst() keeps it while
\* it downloads.
Readable == ~crashed
Writable ==
  /\ ~crashed /\ spinner = NoWaiter
  /\ \A w \in Waiter : wait[w].pc # "push"
  /\ \A r \in ReqID : req[r] # "loading"

Goto(r, s) == req' = [req EXCEPT ![r] = s]

\* A wait returns; its rule and its semaphore are gone.
Returned(u, st, id) ==
  [u EXCEPT !.pc = "idle", !.status = "RESOLVING", !.sem = 0, !.at = 1,
            !.result = st, !.got = id]
Return(w, st) == wait' = [wait EXCEPT ![w] = Returned(@, st, -1)]
-----------------------------------------------------------------------------
(* Starting a request: diet_call_async_common(). *)

CallReturns(r, e) == returning' = [returning EXCEPT ![r] = e]

\* Mutant: failed requests are not queued for getFailedSession().
setReqErrorCode_Unqueued(r, e) ==
  /\ errorMap' = [errorMap EXCEPT ![r] = e]
  /\ UNCHANGED <<failedSessions, reported>>

setReqErrorCode(r, e) ==
  /\ errorMap' = [errorMap EXCEPT ![r] = e]
  /\ failedSessions' = IF e = "NO_ERROR" THEN failedSessions
                                         ELSE Append(failedSessions, r)
  /\ UNCHANGED reported

\* No server was found: the error is kept, nothing is registered.
SubmissionFails(r) ==
  /\ ~crashed /\ finalize = "no" /\ req[r] = "idle"
  /\ Cardinality({q \in ReqID : req[q] = "refused"}) < MaxRefused
  /\ setReqErrorCode(r, "SERVER_NOT_FOUND")
  /\ Goto(r, "refused") /\ CallReturns(r, "SERVER_NOT_FOUND")
  /\ UNCHANGED <<mgrVars, envVars, wait, results>>

addAsyncCall(r) ==
  /\ Writable /\ finalize = "no" /\ req[r] = "idle"
  /\ IF caList[r] = "none"
       THEN /\ caList' = [caList EXCEPT ![r] = "RESOLVING"]
            /\ used' = [used EXCEPT ![r] = 0]
       ELSE UNCHANGED <<caList, used>>
  /\ Goto(r, "registered")
  /\ UNCHANGED <<rulesIDs, doneRequests, spinner, errVars, envVars, wait,
                 returning, results>>

\* chosenServer->solveAsync(), a oneway call.
SolveAsync(r) ==
  /\ ~crashed /\ req[r] = "registered"
  /\ Goto(r, "running") /\ CallReturns(r, "NO_ERROR")
  /\ UNCHANGED <<mgrVars, errVars, envVars, wait, results>>

\* It raises an exception, whether or not the SeD gets the request, which stays
\* registered.  The client only sees the identifier -1.
SolveAsyncRaises(r) ==
  /\ ~crashed /\ req[r] = "registered" /\ lost < MaxLost
  /\ lost' = lost + 1
  /\ Goto(r, "lost") \/ Goto(r, "running")
  /\ CallReturns(r, "EXCEPTION")
  /\ UNCHANGED <<mgrVars, errVars, wait, finalize, cancelled, anyVars, crashed,
                 results>>

\* The SeD never calls back.
Lose(r) ==
  /\ ~crashed /\ req[r] = "running" /\ lost < MaxLost
  /\ lost' = lost + 1
  /\ Goto(r, "lost")
  /\ UNCHANGED <<mgrVars, errVars, wait, finalize, cancelled, anyVars, crashed,
                 returning, results>>

\* diet_call_async() sets the code that it returns, grpc_call_async() always
\* NO_ERROR, grpc_call_argstack_async() none; meanwhile the callback of the
\* request may have run.
set_req_error(r) ==
  /\ ~crashed /\ returning[r] # "nothing"
  /\ LET id == IF returning[r] = "EXCEPTION" THEN VoidID ELSE r
     IN  \/ "DIET" \in API /\ setReqErrorCode(id, returning[r])
         \/ "GridRPC" \in API /\ setReqErrorCode(id, "NO_ERROR")
  /\ CallReturns(r, "nothing")
  /\ UNCHANGED <<mgrVars, envVars, wait, req, results>>
-----------------------------------------------------------------------------
(* The callback: CallbackImpl::solveResults() and notifyRst(). *)

NotifyClear(r) ==
  /\ ~crashed /\ finalize # "released" /\ req[r] = "running"
  /\ setReqErrorCode(r, "NO_ERROR")
  /\ Goto(r, "cleared")
  /\ UNCHANGED <<mgrVars, envVars, wait, returning, results>>

\* Mutant: a rule is satisfied by the first of its requests, whatever its
\* operator.
Plenty_First(w, st) == \E r \in Elements(w) : st[r] = "DONE"

\* notifyRst()'s test of a rule: nothing it waits for is still missing.
\* Requests no longer registered do not count.
Plenty(w, st) ==
  wait[w].op \in {"SOLE", "AND", "ALL"} =>
     \A r \in Elements(w) : st[r] \in {"DONE", "none"}

Rules(r) == {w \in Waiter : <<r, w>> \in rulesIDs}

\* A rule gets a status, and its semaphore n posts.
Post(u, st, n) == [u EXCEPT !.status = st, !.sem = @ + n]

\* Mark the satisfied rules about r DONE and post their semaphores.
PostDone(r, st) ==
  wait' = [w \in Waiter |->
    IF w \in Rules(r) /\ Plenty(w, st)
      THEN Post(wait[w], "DONE", 1) ELSE wait[w]]

\* notifyRst() up to the download: the status is DONE already.
notifyRst(r) ==
  /\ Writable /\ finalize # "released" /\ req[r] = "cleared"
  /\ \/ /\ caList[r] = "none"
        /\ Goto(r, "notified")
        /\ UNCHANGED caList
     \/ /\ caList[r] # "none"
        /\ caList' = [caList EXCEPT ![r] = "DONE"]
        /\ Goto(r, "loading")
  /\ UNCHANGED <<used, rulesIDs, doneRequests, spinner, errVars, envVars, wait,
                 returning, results>>

\* dagda_download_SeD_data() and the rest of notifyRst().  An exception of the
\* download leaves the rules alone, and the status DONE.
Download(r) ==
  /\ ~crashed /\ req[r] = "loading"
  /\ \/ /\ results' = results \cup {r}
        /\ PostDone(r, caList)
        /\ UNCHANGED lost
     \/ /\ lost < MaxLost
        /\ lost' = lost + 1
        /\ UNCHANGED <<results, wait>>
  /\ Goto(r, "notified")
  /\ UNCHANGED <<mgrVars, errVars, finalize, cancelled, anyVars, crashed,
                 returning>>

\* solveResults() sets the code of the solver once the waiters are awake.
NotifyError(r) ==
  /\ ~crashed /\ finalize # "released" /\ req[r] = "notified"
  /\ IF r \in Failing THEN setReqErrorCode(r, "SOLVE_ERROR")
                      ELSE UNCHANGED errVars
  /\ Goto(r, "end")
  /\ UNCHANGED <<mgrVars, envVars, wait, returning, results>>
-----------------------------------------------------------------------------
(* Waiting. *)

\* A wait that returns before it has a rule.
Refused(u, st) == [u EXCEPT !.result = st, !.count = @ + 1]
Refuse(w, st) == wait' = [wait EXCEPT ![w] = Refused(@, st)]

\* The rule a thread builds before it calls addWaitRule().
NewRule(w, o, s) ==
  wait' = [wait EXCEPT ![w] = [pc |-> "rule", op |-> o, elts |-> s,
       status |-> "RESOLVING", sem |-> 0, at |-> 1, result |-> "none",
       got |-> -1, count |-> wait[w].count + 1]]

Starts(w, o) ==
  ~crashed /\ o \in Operators /\ wait[w].pc = "idle" /\ wait[w].count < MaxWaits

\* diet_wait(), diet_wait_and(), diet_wait_or()
WaitFor(w, o, s) ==
  /\ Starts(w, o) /\ o \in {"SOLE", "AND", "OR"}
  /\ IF ToSet(s) \subseteq Registered
       THEN NewRule(w, o, s)
       ELSE Refuse(w, "INVALID")
  /\ UNCHANGED <<mgrVars, callVars, errVars, envVars>>

WaitAll(w) ==
  /\ Starts(w, "ALL") /\ Readable
  /\ NewRule(w, "ALL", InOrder(Registered))
  /\ UNCHANGED <<mgrVars, callVars, errVars, envVars>>

Crash == crashed' = TRUE /\ UNCHANGED <<finalize, lost, cancelled, anyVars>>

\* Mutant: requests that an earlier wait_any returned are waited for again.
WaitAny_Again(w) ==
  /\ Starts(w, "ANY") /\ Readable
  /\ NewRule(w, "ANY", InOrder(Registered))
  /\ UNCHANGED <<mgrVars, callVars, errVars, envVars>>

\* The array is as long as there are registered requests minus requests already
\* returned; a negative length makes new[] throw.  All the open requests are
\* written to it: past its end, they are lost or the process dies.
WaitAny(w) ==
  /\ Starts(w, "ANY") /\ Readable
  /\ LET open == InOrder(Registered \ ToSet(doneRequests))
         length == Cardinality(Registered) - Len(doneRequests)
     IN  \/ /\ length < 0
            /\ Refuse(w, "ERROR")
            /\ UNCHANGED envVars
         \/ /\ length >= 0
            /\ NewRule(w, "ANY", SubSeq(open, 1, length))
            /\ UNCHANGED envVars
         \/ /\ length >= 0 /\ Len(open) > length
            /\ Crash
            /\ UNCHANGED wait
  /\ UNCHANGED <<mgrVars, callVars, errVars>>

\* What a wait does with the status of its rule.
After(w, st) ==
  IF st = "DONE" /\ wait[w].op \in {"OR", "ANY"}
    THEN wait' = [wait EXCEPT ![w].pc = IF wait[w].op = "OR" THEN "scan"
                                                             ELSE "pick"]
    ELSE Return(w, st)

\* The loop over the requests of a rule stops at one that is not registered.
Checked(w) ==
  IF Elements(w) \subseteq Registered THEN Elements(w)
  ELSE {r \in Elements(w) : \E i \in DOMAIN wait[w].elts :
          wait[w].elts[i] = r /\ \A j \in 1..i : wait[w].elts[j] \in Registered}

\* Nothing to wait for: all results are there, or one for an OR or ANY rule.
Satisfied(w) ==
  \/ \A r \in Elements(w) : caList[r] # "RESOLVING"
  \/ /\ wait[w].op \notin {"ALL", "AND"}
     /\ \E r \in Elements(w) : caList[r] = "DONE"

\* Mutant: the state of the requests is not looked at again under the lock.
addWaitRule_Unchecked(w) ==
  /\ Writable /\ wait[w].pc = "rule"
  /\ rulesIDs' = rulesIDs \cup {<<r, w>> : r \in Elements(w)}
  /\ wait' = [wait EXCEPT ![w].pc = "asleep"]
  /\ used' = [r \in ReqID |-> IF r \in Checked(w) THEN used[r] + 1 ELSE used[r]]
  /\ UNCHANGED <<caList, doneRequests, spinner, errVars, envVars, callVars>>

\* addWaitRule() up to condRule->wait()
addWaitRule(w) ==
  /\ Writable /\ wait[w].pc = "rule"
  /\ used' = [r \in ReqID |-> IF r \in Checked(w) THEN used[r] + 1 ELSE used[r]]
  /\ \/ /\ ~(Elements(w) \subseteq Registered)
        /\ Return(w, "ERROR")
        /\ UNCHANGED rulesIDs
     \/ /\ Elements(w) \subseteq Registered /\ Satisfied(w)
        /\ After(w, "DONE")
        /\ UNCHANGED rulesIDs
     \/ /\ Elements(w) \subseteq Registered /\ ~Satisfied(w)
        /\ rulesIDs' = rulesIDs \cup {<<r, w>> : r \in Elements(w)}
        /\ wait' = [wait EXCEPT ![w].pc = "asleep"]
  /\ UNCHANGED <<caList, doneRequests, spinner, errVars, envVars, callVars>>

\* Mutant: the entries of the rule stay behind.
deleteWaitRule_Keeps(w) ==
  spinner' = spinner /\ UNCHANGED rulesIDs /\ After(w, wait[w].status)

\* Mutant: the entry is found again after it was erased.
deleteWaitRule_AlwaysLoops(w) ==
  /\ spinner' = w
  /\ wait' = [wait EXCEPT ![w].pc = "spin"]
  /\ UNCHANGED rulesIDs

\* deleteWaitRule(): the entries of each request are searched and erased until
\* there is none; with an entry of another rule the loop never ends.
deleteWaitRule(w) ==
  IF \E r \in Elements(w) : Rules(r) \ {w} # {}
    THEN /\ spinner' = w
         /\ wait' = [wait EXCEPT ![w].pc = "spin"]
         /\ UNCHANGED rulesIDs
    ELSE /\ rulesIDs' = rulesIDs \ (ReqID \X {w})
         /\ After(w, wait[w].status)
         /\ UNCHANGED spinner

\* The semaphore lets the thread through and it takes the lock again.
Wake(w) ==
  /\ Writable /\ wait[w].pc = "asleep" /\ wait[w].sem > 0
  /\ deleteWaitRule(w)
  /\ UNCHANGED <<caList, used, doneRequests, errVars, envVars, callVars>>

\* diet_wait_or() asks for the status of one request after the other.
ScanOr(w) ==
  /\ Readable /\ wait[w].pc = "scan"
  /\ LET i == wait[w].at
     IN  IF i > Len(wait[w].elts) THEN Return(w, "ERROR")
         ELSE IF caList[wait[w].elts[i]] = "DONE"
           THEN wait' = [wait EXCEPT ![w] = Returned(@, "DONE", wait[w].elts[i])]
           ELSE wait' = [wait EXCEPT ![w].at = @ + 1]
  /\ UNCHANGED <<mgrVars, errVars, envVars, callVars>>

\* Threads that push to doneRequests, readers all, beside w.
Pushing(w) == {v \in Waiter \ {w} : wait[v].pc = "push"}

\* Mutant: requests that an earlier wait_any returned are returned again.
PickAny_Again(w) ==
  /\ Readable /\ wait[w].pc = "pick"
  /\ LET ready == {r \in Registered : caList[r] = "DONE"}
     IN  IF ready = {} THEN Return(w, "ERROR")
         ELSE wait' = [wait EXCEPT ![w] =
                [@ EXCEPT !.pc = "push", !.got = Head(InOrder(ready))]]
  /\ UNCHANGED <<mgrVars, callVars, errVars, envVars>>

\* addWaitAnyRule() looks for a result not returned yet, as a reader.
PickAny(w) ==
  /\ Readable /\ wait[w].pc = "pick"
  /\ LET ready == {r \in Registered \ ToSet(doneRequests) : caList[r] = "DONE"}
         r == Head(InOrder(ready))
     IN  IF ready = {} THEN Return(w, "ERROR") /\ UNCHANGED raced
         ELSE /\ wait' = [wait EXCEPT ![w].pc = "push", ![w].got = r]
              /\ raced' = IF \E v \in Pushing(w) : wait[v].got = r
                            THEN raced \cup {r} ELSE raced
  /\ UNCHANGED <<mgrVars, callVars, errVars, finalize, lost, cancelled, handed,
                 crashed>>

\* doneRequests.push_back(), still as a reader: of two at a time one may be
\* lost, or the process dies.
PushAny(w) ==
  /\ ~crashed /\ wait[w].pc = "push"
  /\ LET r == wait[w].got
     IN  \/ /\ doneRequests' = Append(doneRequests, r)
            /\ UNCHANGED raced
         \/ /\ Pushing(w) # {}
            /\ raced' = raced \cup {r}
            /\ UNCHANGED doneRequests
  /\ handed' = handed \cup {wait[w].got}
  /\ wait' = [wait EXCEPT ![w] = Returned(@, "DONE", wait[w].got)]
  /\ UNCHANGED <<caList, used, rulesIDs, spinner, callVars, errVars, finalize,
                 lost, cancelled, crashed>>

PushCrashes(w) ==
  /\ ~crashed /\ wait[w].pc = "push" /\ Pushing(w) # {}
  /\ Crash
  /\ UNCHANGED <<mgrVars, callVars, errVars, wait>>
-----------------------------------------------------------------------------
(* Cancelling, and the end of the client. *)

\* Mutant: the threads that wait are not told.
deleteCalls_Silent(S) ==
  /\ caList' = [r \in ReqID |-> IF r \in S THEN "none" ELSE caList[r]]
  /\ cancelled' = cancelled \cup S
  /\ UNCHANGED wait

\* deleteAsyncCallWithoutLock() for each request of S
deleteCalls(S) ==
  /\ caList' = [r \in ReqID |-> IF r \in S THEN "none" ELSE caList[r]]
  /\ wait' = [w \in Waiter |->
       LET hit == {r \in S : used[r] # 0 /\ w \in Rules(r)}
       IN  IF hit = {} THEN wait[w]
                       ELSE Post(wait[w], "CANCEL", Cardinality(hit))]
  /\ cancelled' = cancelled \cup S

deleteAsyncCall(r) ==
  /\ "one" \in Cancels /\ Writable /\ r \in Registered
  /\ deleteCalls({r})
  /\ UNCHANGED <<used, rulesIDs, doneRequests, spinner, errVars, callVars,
                 finalize, lost, anyVars, crashed>>

\* The loop steps its iterator past the element it has just erased: it may go
\* on, stop early, or crash.
deleteAllAsyncCall ==
  /\ "all" \in Cancels /\ Writable /\ Registered # {}
  /\ \/ /\ \E last \in Registered :
             deleteCalls({r \in Registered : r <= last})
        /\ UNCHANGED crashed
     \/ /\ crashed' = TRUE
        /\ UNCHANGED <<caList, wait, cancelled>>
  /\ UNCHANGED <<used, rulesIDs, doneRequests, spinner, errVars, callVars,
                 finalize, lost, anyVars>>

\* diet_finalize() polls until there are no rules, and then releases.
areThereWaitRules ==
  /\ Finalizes /\ Readable /\ finalize = "no" /\ rulesIDs = {}
  /\ finalize' = "checked"
  /\ UNCHANGED <<mgrVars, callVars, errVars, wait, lost, cancelled, anyVars,
                 crashed>>

release ==
  /\ Writable /\ finalize = "checked"
  /\ deleteCalls(Registered)
  /\ finalize' = "released"
  /\ UNCHANGED <<used, rulesIDs, doneRequests, spinner, errVars, callVars,
                 lost, anyVars, crashed>>

getFailedSession ==
  /\ ~crashed /\ failedSessions # <<>>
  /\ reported' = [reported EXCEPT ![Head(failedSessions)] = @ + 1]
  /\ failedSessions' = Tail(failedSessions)
  /\ UNCHANGED <<mgrVars, callVars, envVars, wait, errorMap>>
-----------------------------------------------------------------------------
Requests == {s \in BoundedSeq(ReqID, 2) : s # <<>> /\ IsInjective(s)}

Calling(r) ==
  \/ SubmissionFails(r) \/ addAsyncCall(r) \/ SolveAsync(r)
  \/ SolveAsyncRaises(r) \/ Lose(r) \/ set_req_error(r)
Callback(r) == NotifyClear(r) \/ notifyRst(r) \/ Download(r) \/ NotifyError(r)
Waiting(w) ==
  \/ addWaitRule(w) \/ Wake(w) \/ ScanOr(w) \/ PickAny(w) \/ PushAny(w)
  \/ PushCrashes(w)
StartsWait(w) ==
  \/ \E r \in ReqID : WaitFor(w, "SOLE", <<r>>)
  \/ \E o \in {"AND", "OR"}, s \in Requests : WaitFor(w, o, s)
  \/ WaitAll(w) \/ WaitAny(w)

Next ==
  \/ \E r \in ReqID : Calling(r) \/ Callback(r) \/ deleteAsyncCall(r)
  \/ \E w \in Waiter : Waiting(w) \/ StartsWait(w)
  \/ deleteAllAsyncCall \/ areThereWaitRules \/ release \/ getFailedSession

\* Threads that run get on; a SeD that has the request answers it.  Nothing
\* forces a client to start, to cancel or to end.
Fairness ==
  /\ \A r \in ReqID : WF_vars(SolveAsync(r)) /\ WF_vars(Callback(r))
  /\ \A w \in Waiter : WF_vars(Waiting(w))
  /\ WF_vars(release)

Spec == Init /\ [][Next]_vars
FairSpec == Spec /\ Fairness
-----------------------------------------------------------------------------
\* A rule that nothing keeps waiting: a request of it is gone, all its requests
\* are done, or one is and that is enough.
Due(w) ==
  \/ \E r \in Elements(w) : caList[r] = "none"
  \/ \A r \in Elements(w) : caList[r] = "DONE"
  \/ wait[w].op \in {"OR", "ANY"} /\ \E r \in Elements(w) : caList[r] = "DONE"

\* A request is DONE without its result: the download is under way, or it threw
\* an exception out of notifyRst().
Hollow(r) == caList[r] = "DONE" /\ r \notin results

\* No thread sleeps in addWaitRule() on a rule that is due: a cancellation has
\* posted its semaphore, or notifyRst() has unless one of its results is not
\* there yet, or never will be.
DueRulesArePosted ==
  \A w \in Waiter : wait[w].pc = "asleep" /\ wait[w].sem = 0 =>
     /\ \A r \in Elements(w) : caList[r] # "none"
     /\ Due(w) => \E r \in Elements(w) : Hollow(r)

\* rulesIDs names the rules of threads that are still in addWaitRule(), which
\* frees the rule when it leaves: no callback can reach a freed rule.
NoDanglingRule ==
  \A r \in ReqID, w \in Waiter : <<r, w>> \in rulesIDs =>
     wait[w].pc \in {"asleep", "spin"} /\ r \in Elements(w)

\* The callback of r has run and left no result: its download threw, or r was
\* cancelled before.
Resultless(r) == req[r] \in {"notified", "end"} /\ r \notin results

\* A wait that reports success has the result of each of its requests, but for
\* those cancelled and those whose download threw.  wait_or and wait_any have
\* the one they return, or they looked while it was being downloaded.
DoneMeansStored ==
  \A w \in Waiter : wait[w].pc = "idle" /\ wait[w].result = "DONE" =>
     IF wait[w].op \in {"OR", "ANY"}
       THEN LET r == wait[w].got
            IN  r \in results \/ req[r] = "loading" \/ Resultless(r)
       ELSE \A r \in Elements(w) :
              r \in results \/ r \in cancelled \/ Resultless(r)

\* A thread loops in deleteWaitRule() only because two threads wait for the
\* same request.
SpinsOnlyWhenShared ==
  spinner # NoWaiter =>
     \E v \in Waiter \ {spinner} :
        wait[v].pc = "asleep" /\ Elements(v) \cap Elements(spinner) # {}

Failed(r) == req[r] = "refused" \/ (req[r] = "end" /\ r \in Failing)

\* How often r is or was queued for getFailedSession().
Queued(r) ==
  reported[r]
    + Cardinality({i \in DOMAIN failedSessions : failedSessions[i] = r})

\* A failed request is queued for getFailedSession() exactly once, or twice when
\* diet_call_async() was refused, and no other request ever is.  Its code is
\* lost only to the set_req_error() of the thread that made the call.
FailuresReported ==
  \A r \in ReqID :
     /\ Queued(r) = IF ~Failed(r) THEN 0
                    ELSE IF errorMap[r] = "SERVER_NOT_FOUND"
                            /\ returning[r] = "nothing" THEN 2 ELSE 1
     /\ Failed(r) =>
          \/ errorMap[r] \in {"SOLVE_ERROR", "SERVER_NOT_FOUND"}
          \/ errorMap[r] = "NO_ERROR" /\ returning[r] = "nothing"

\* What makes the counts of addWaitAnyRule() disagree: a returned request has
\* been cancelled since, or two threads returned the same one.
Miscounts ==
  ToSet(doneRequests) \cap cancelled # {} \/ ~IsInjective(doneRequests)

\* wait_any waits for every registered request not returned before, unless the
\* counts disagree.
AnyWaitsForOpen ==
  [][\A w \in Waiter :
       wait[w].pc = "idle" /\ wait'[w].pc = "rule" /\ wait'[w].op = "ANY" =>
          \/ ToSet(wait'[w].elts) = Registered \ ToSet(doneRequests)
          \/ Miscounts]_vars

\* wait_any returns no request twice, unless two threads were in it at once and
\* picked the same request, or pushed theirs over each other.
AnyReturnsOnce ==
  [][\A w \in Waiter : wait[w].pc = "push" /\ wait'[w].pc = "idle" =>
       wait[w].got \notin handed \/ wait[w].got \in raced]_vars

\* Every wait comes back, unless a request or a result was lost, the process
\* died, or two threads waited for the same request.
WaitsReturn ==
  \A w \in Waiter : wait[w].pc = "rule" ~>
     wait[w].pc = "idle" \/ lost > 0 \/ crashed \/ spinner # NoWaiter
=============================================================================
