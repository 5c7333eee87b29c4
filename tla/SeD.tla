-------------------------------- MODULE SeD --------------------------------
(***************************************************************************)
(* How a server daemon solves requests (src/SeD/SeDImpl.cc): solve(),      *)
(* solveAsync() and, in builds with batch support, parallel_solve() and    *)
(* parallel_AsyncSolve().  Each request runs in its own ORB thread; the    *)
(* threads share the access controller, the job queue and the service      *)
(* table, which the application may change while requests wait.            *)
(* Transfers of data may throw, a batch job may fail.                      *)
(***************************************************************************)
EXTENDS AccessController, JobQueue

CONSTANTS
  Service,          \* names of services
  Table,            \* the service table when run() is called
  dietReqID,        \* the request identifier the MA put in each profile
  useConcJobLimit,  \* configuration: the SeD limits concurrent solves
  Batch,            \* server_status == BATCH
  Parallel,         \* services with parallel_flag 2
  MaxFailures,      \* bound: transfers or batch jobs that fail
  MaxChanges,       \* bound: services added to or removed from the table
  NoSolver

Request == Thread

ASSUME SeDAssumption ==
  /\ Table \in Seq(Service)
  /\ dietReqID \in [Request -> Id]
  /\ useConcJobLimit \in BOOLEAN /\ Batch \in BOOLEAN
  /\ Parallel \subseteq Service
  /\ MaxFailures \in Nat /\ MaxChanges \in Nat
  /\ NoSolver \notin Service

VARIABLES
  pc,        \* where each request is
  call,      \* "solve" or "solveAsync"
  path,      \* the service each request asks for
  ref,       \* the index lookupService() returned
  parallel,  \* the request takes the batch path
  table,     \* profiles[0..nb_s-1] with their solvers
  ran,       \* the service whose solver ran for the request
  reply,     \* what the client has been told
  failures,  \* failures so far
  changes,   \* changes of the table so far
  moved,     \* history: the entry ref pointed to has moved since the lookup
  exited     \* the SeD process has died

sedVars == <<pc, call, path, ref, parallel, table, ran, reply, failures,
             changes, moved, exited>>
vars == <<acVars, jqVars, sedVars>>

SeD_PC == {"new", "found", "acquire", "held", "started", "loaded", "solved",
           "uploaded", "finished", "deleted", "reply", "notified", "end",
           "aborted"}

SeDInit ==
  /\ pc = [r \in Request |-> "new"]
  /\ call = [r \in Request |-> "solve"]
  /\ path = [r \in Request |-> NoSolver]
  /\ ref = [r \in Request |-> 0]
  /\ parallel = [r \in Request |-> FALSE]
  /\ table = Table
  /\ ran = [r \in Request |-> NoSolver]
  /\ reply = [r \in Request |-> "none"]
  /\ failures = 0
  /\ changes = 0
  /\ moved = {}
  /\ exited = FALSE

Init == ACInit /\ JQInit /\ SeDInit

Up == ~exited

Goto(r, s) == pc' = [pc EXCEPT ![r] = s]

\* Mutants of the lookup: the index counts from 0, the loop runs one too far.
lookupService_FromZero(s) ==
  IF \E i \in DOMAIN table : table[i] = s
    THEN (CHOOSE i \in DOMAIN table : table[i] = s) - 1
    ELSE 0

lookupService_PastEnd(s) ==
  IF \E i \in DOMAIN table : table[i] = s
    THEN (CHOOSE i \in DOMAIN table : table[i] = s) + 1
    ELSE 0

\* lookupService(): the first matching index; 0 stands for the code's -1.
lookupService(s) ==
  IF \E i \in DOMAIN table : table[i] = s
    THEN CHOOSE i \in DOMAIN table :
           table[i] = s /\ \A j \in 1..(i - 1) : table[j] # s
    ELSE 0

\* solve() and solveAsync() up to the lookup.  Without the service solve()
\* returns 1, and solveAsync() returns with no callback at all.
Arrive(r) ==
  /\ Up
  /\ pc[r] = "new"
  /\ \E c \in {"solve", "solveAsync"}, s \in Service :
       /\ call' = [call EXCEPT ![r] = c]
       /\ path' = [path EXCEPT ![r] = s]
       /\ ref' = [ref EXCEPT ![r] = lookupService(s)]
       /\ Goto(r, IF lookupService(s) = 0 THEN "end" ELSE "found")
       /\ reply' = [reply EXCEPT ![r] =
            IF lookupService(s) = 0 /\ c = "solve" THEN "notfound" ELSE "none"]
  /\ UNCHANGED <<acVars, jqVars, parallel, table, ran, failures, changes,
                 moved, exited>>

\* solveAsync() with a nil callback: nothing is solved and nobody is told.
NilCallback(r) ==
  /\ Up
  /\ pc[r] = "new"
  /\ call' = [call EXCEPT ![r] = "solveAsync"]
  /\ Goto(r, "end")
  /\ UNCHANGED <<acVars, jqVars, path, ref, parallel, table, ran, reply,
                 failures, changes, moved, exited>>

\* Mutant: the limit is not looked at.
Enqueue_NoLimit(r) ==
  /\ Up
  /\ pc[r] = "found"
  /\ addJobWaiting(dietReqID[r])
  /\ Goto(r, "held")
  /\ UNCHANGED <<acVars, call, path, ref, parallel, table, ran, reply, failures,
                 changes, moved, exited>>

\* addJobWaiting(), and the choice of the batch path: by the server's status
\* for solve(), by the flag of the profile at ref for solveAsync().
Enqueue(r) ==
  /\ Up
  /\ pc[r] = "found"
  /\ addJobWaiting(dietReqID[r])
  /\ parallel' = [parallel EXCEPT ![r] =
       IF call[r] = "solve" THEN Batch
       ELSE ref[r] \in DOMAIN table /\ table[ref[r]] \in Parallel]
  /\ Goto(r, IF useConcJobLimit THEN "acquire" ELSE "held")
  /\ UNCHANGED <<acVars, call, path, ref, table, ran, reply, failures, changes,
                 moved, exited>>

\* accessController->waitForResource()
Acquire(r) ==
  /\ Up
  /\ pc[r] = "acquire"
  /\ TakeNumber(r) \/ SemGrant(r) \/ Book(r)
  /\ Goto(r, IF ac'[r] = "in" THEN "held" ELSE "acquire")
  /\ UNCHANGED <<jqVars, call, path, ref, parallel, table, ran, reply,
                 failures, changes, moved, exited>>

\* parallel_AsyncSolve() does not tell the job queue that the job starts.
Start(r) ==
  /\ Up
  /\ pc[r] = "held"
  /\ IF parallel[r] /\ call[r] = "solveAsync" THEN UNCHANGED jqVars
                                              ELSE setJobStarted(dietReqID[r])
  /\ Goto(r, "started")
  /\ UNCHANGED <<acVars, call, path, ref, parallel, table, ran, reply,
                 failures, changes, moved, exited>>

\* downloadSyncSeDData(), downloadAsyncSeDData()
Download(r) ==
  /\ Up
  /\ pc[r] = "started"
  /\ Goto(r, "loaded")
  /\ UNCHANGED <<acVars, jqVars, call, path, ref, parallel, table, ran, reply,
                 failures, changes, moved, exited>>

\* (*(SrvT->getSolver(ref)))(&profile): the solver at the index looked up
\* before the wait.  Past the end of the table the solver is NULL.
Solve(r) ==
  /\ Up
  /\ pc[r] = "loaded"
  /\ IF ref[r] \in DOMAIN table
       THEN /\ ran' = [ran EXCEPT ![r] = table[ref[r]]]
            /\ Goto(r, "solved")
            /\ UNCHANGED exited
       ELSE /\ exited' = TRUE
            /\ UNCHANGED <<ran, pc>>
  /\ UNCHANGED <<acVars, jqVars, call, path, ref, parallel, table, reply,
                 failures, changes, moved>>

\* uploadSyncSeDData(), uploadAsyncSeDData(); parallel_AsyncSolve() goes on to
\* release its resource without touching the job queue.
Upload(r) ==
  /\ Up
  /\ pc[r] = "solved"
  /\ Goto(r, IF parallel[r] /\ call[r] = "solveAsync" THEN "deleted"
                                                      ELSE "uploaded")
  /\ UNCHANGED <<acVars, jqVars, call, path, ref, parallel, table, ran, reply,
                 failures, changes, moved, exited>>

\* A transfer throws.  solve() and parallel_solve() let the exception through to
\* the client, solveAsync() and parallel_AsyncSolve() swallow it; none of them
\* releases the resource or deletes the job.
TransferFails(r) ==
  /\ Up
  /\ pc[r] \in {"started", "solved"}
  /\ failures < MaxFailures
  /\ failures' = failures + 1
  /\ Goto(r, "aborted")
  /\ reply' = [reply EXCEPT ![r] = IF call[r] = "solve" THEN "exception" ELSE @]
  /\ UNCHANGED <<acVars, jqVars, call, path, ref, parallel, table, ran,
                 changes, moved, exited>>

\* wait4BatchJobCompletion() < 0: parallel_solve() returns 21 at once,
\* parallel_AsyncSolve() exits the process.
BatchFails(r) ==
  /\ Up
  /\ pc[r] = "solved" /\ parallel[r]
  /\ failures < MaxFailures
  /\ failures' = failures + 1
  /\ IF call[r] = "solve"
       THEN /\ Goto(r, "aborted")
            /\ reply' = [reply EXCEPT ![r] = "error"]
            /\ UNCHANGED exited
       ELSE exited' = TRUE /\ UNCHANGED <<pc, reply>>
  /\ UNCHANGED <<acVars, jqVars, call, path, ref, parallel, table, ran,
                 changes, moved>>

Finish(r) ==
  /\ Up
  /\ pc[r] = "uploaded"
  /\ setJobFinished(dietReqID[r])
  /\ Goto(r, "finished")
  /\ UNCHANGED <<acVars, call, path, ref, parallel, table, ran, reply,
                 failures, changes, moved, exited>>

Delete(r) ==
  /\ Up
  /\ pc[r] = "finished"
  /\ deleteJob(dietReqID[r])
  /\ Goto(r, "deleted")
  /\ UNCHANGED <<acVars, call, path, ref, parallel, table, ran, reply,
                 failures, changes, moved, exited>>

\* Mutant: the client is told before the resource is released.
ReleaseResource_Skipped(r) ==
  /\ Up
  /\ pc[r] = "deleted"
  /\ Goto(r, "reply")
  /\ UNCHANGED <<acVars, jqVars, call, path, ref, parallel, table, ran, reply,
                 failures, changes, moved, exited>>

\* accessController->releaseResource(), before any result is sent
ReleaseResource(r) ==
  /\ Up
  /\ pc[r] = "deleted"
  /\ IF useConcJobLimit
       THEN /\ Release(r) \/ Post(r)
            /\ Goto(r, IF ac'[r] = "out" THEN "reply" ELSE "deleted")
       ELSE UNCHANGED acVars /\ Goto(r, "reply")
  /\ UNCHANGED <<jqVars, call, path, ref, parallel, table, ran, reply,
                 failures, changes, moved, exited>>

\* solve() returns; solveAsync() calls notifyResults() and then solveResults().
Answer(r) ==
  /\ Up
  /\ \/ /\ pc[r] = "reply" /\ call[r] = "solve"
        /\ reply' = [reply EXCEPT ![r] = "result"]
        /\ Goto(r, "end")
     \/ /\ pc[r] = "reply" /\ call[r] = "solveAsync"
        /\ reply' = [reply EXCEPT ![r] = "notified"]
        /\ Goto(r, "notified")
     \/ /\ pc[r] = "notified"
        /\ reply' = [reply EXCEPT ![r] = "result"]
        /\ Goto(r, "end")
  /\ UNCHANGED <<acVars, jqVars, call, path, ref, parallel, table, ran,
                 failures, changes, moved, exited>>

\* A callback throws because the client is gone; the exception is caught.
CallbackFails(r) ==
  /\ Up
  /\ pc[r] \in {"reply", "notified"} /\ call[r] = "solveAsync"
  /\ failures < MaxFailures
  /\ failures' = failures + 1
  /\ Goto(r, "end")
  /\ UNCHANGED <<acVars, jqVars, call, path, ref, parallel, table, ran, reply,
                 changes, moved, exited>>

\* ServiceTable::rmService() from SeDImpl::removeService(): the entries behind
\* the one removed move up.
RemoveService(s) ==
  /\ Up
  /\ changes < MaxChanges /\ lookupService(s) # 0
  /\ changes' = changes + 1
  /\ table' = RemoveAt(table, lookupService(s))
  /\ moved' = moved \cup {r \in Request :
                 pc[r] \notin {"new", "end"} /\ ref[r] >= lookupService(s)}
  /\ UNCHANGED <<acVars, jqVars, pc, call, path, ref, parallel, ran, reply,
                 failures, exited>>

\* ServiceTable::addService(): a new service goes to the end.
AddService(s) ==
  /\ Up
  /\ changes < MaxChanges /\ lookupService(s) = 0
  /\ changes' = changes + 1
  /\ table' = Append(table, s)
  /\ UNCHANGED <<acVars, jqVars, pc, call, path, ref, parallel, ran, reply,
                 failures, moved, exited>>

Work(r) ==
  \/ Arrive(r) \/ NilCallback(r) \/ Enqueue(r) \/ Acquire(r) \/ Start(r)
  \/ Download(r) \/ Solve(r) \/ Upload(r) \/ Finish(r) \/ Delete(r)
  \/ ReleaseResource(r) \/ Answer(r)

Fails(r) == TransferFails(r) \/ BatchFails(r) \/ CallbackFails(r)

Next ==
  \/ \E r \in Request : Work(r) \/ Fails(r)
  \/ \E s \in Service : RemoveService(s) \/ AddService(s)

\* The ORB runs every thread; nothing forces a failure or a table change.
Fairness == \A r \in Request : WF_vars(Work(r))

Spec == Init /\ [][Next]_vars
FairSpec == Spec /\ Fairness
-----------------------------------------------------------------------------
\* Requests that hold a resource while they transfer data or run a solver.
SolvingPC == {"held", "started", "loaded", "solved", "uploaded", "finished"}
Solving == {r \in Request : pc[r] \in SolvingPC}

\* The configured limit of concurrent solves holds for the solvers that run,
\* whichever of the four paths they take and whatever fails around them.
ConcurrencyLimit ==
  useConcJobLimit => Cardinality(Solving) <= resourcesInitial

\* A request loses its resource only with an exception or a failed batch job:
\* what is missing from the semaphore is held by a request under way or was
\* kept by an aborted one, never by one that was answered or whose callback
\* failed.
SlotsKeptOnlyByAborts ==
  \A r \in Request : ac[r] # "out" =>
     pc[r] \in {"acquire", "held", "started", "loaded", "solved", "uploaded",
               "finished", "deleted", "aborted"}

\* With identifiers of its own for each request the three parts of the job queue
\* agree: the counter with the active entries of the map, which
\* getActiveJobTable() relies on to size and to fill its vector, and the FIFO
\* list that estimateEFTwithFIFOSched() walks with the WAITING jobs, each once.
JobQueueAgrees ==
  /\ nbActiveJobs = Cardinality(ActiveJobs)
  /\ ToSet(myWaitingQueue) = {i \in Id : myJobs[i] = "WAITING"}
  /\ Len(myWaitingQueue) = Cardinality(ToSet(myWaitingQueue))

\* A request runs the solver of the service it asked for, or a service at or
\* before its index was removed between its lookup and its turn.
WrongSolverOnlyAfterRemoval ==
  \A r \in Request : ran[r] # NoSolver => ran[r] = path[r] \/ r \in moved

\* The process dies of a NULL solver only through such a removal, or because
\* parallel_AsyncSolve() met a failed batch job.
ExitExplained ==
  exited => moved # {} \/ \E r \in Request : parallel[r] /\ pc[r] = "solved"

\* Every request comes to an end, unless the process died or aborted requests
\* have kept every resource there is.
RequestsEnd ==
  \A r \in Request : pc[r] = "found" ~>
     \/ pc[r] \in {"end", "aborted"}
     \/ exited
     \/ Cardinality({q \in Request : pc[q] = "aborted"}) >= resourcesInitial
=============================================================================
