------------------------------ MODULE JobQueue ------------------------------
(***************************************************************************)
(* The SeD's table of jobs (src/utils/JobQueue.cc).  Every method is one   *)
(* section under myLock.  The table is a C++ map, so the methods that use  *)
(* operator[] create the entry they do not find.                           *)
(***************************************************************************)
EXTENDS Integers, Sequences, SequencesExt, Ordering

CONSTANT Id     \* values of dietReqID

VARIABLES
  myJobs,          \* the map: the status of each job, "none" when absent
  myWaitingQueue,  \* the FIFO list of waiting jobs
  nbActiveJobs     \* the counter of active jobs

jqVars == <<myJobs, myWaitingQueue, nbActiveJobs>>

\* A job is "none" (no entry in the map), "WAITING", "RUNNING" or "FINISHED".
JQInit ==
  /\ myJobs = [i \in Id |-> "none"]
  /\ myWaitingQueue = <<>>
  /\ nbActiveJobs = 0

addJobWaiting(i) ==
  /\ myJobs' = [myJobs EXCEPT ![i] = "WAITING"]
  /\ myWaitingQueue' = Append(myWaitingQueue, i)
  /\ nbActiveJobs' = nbActiveJobs + 1

\* std::list::remove takes out every occurrence.
setJobStarted(i) ==
  /\ myJobs' = [myJobs EXCEPT ![i] = "RUNNING"]
  /\ myWaitingQueue' = Only(myWaitingQueue, Id \ {i})
  /\ UNCHANGED nbActiveJobs

setJobFinished(i) ==
  /\ myJobs' = [myJobs EXCEPT ![i] = "FINISHED"]
  /\ nbActiveJobs' = nbActiveJobs - 1
  /\ UNCHANGED myWaitingQueue

\* Mutant: the counter is lowered for a finished job too.
deleteJob_Twice(i) ==
  /\ nbActiveJobs' = nbActiveJobs - 1
  /\ myJobs' = [myJobs EXCEPT ![i] = "none"]
  /\ UNCHANGED myWaitingQueue

\* A job that is deleted while still active is uncounted here; one that is not
\* in the map is only reported.
deleteJob(i) ==
  /\ nbActiveJobs' = IF myJobs[i] \in {"WAITING", "RUNNING"}
                       THEN nbActiveJobs - 1 ELSE nbActiveJobs
  /\ myJobs' = [myJobs EXCEPT ![i] = "none"]
  /\ UNCHANGED myWaitingQueue

\* The jobs that getActiveJobTable() copies, when its loop is not cut short.
ActiveJobs == {i \in Id : myJobs[i] \in {"WAITING", "RUNNING"}}
=============================================================================
