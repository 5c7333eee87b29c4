------------------------------- MODULE RWLock -------------------------------
(***************************************************************************)
(* DietReadersWriterLock (src/utils/ReadersWriterLock.hh): the lock that   *)
(* guards the client's tables of asynchronous calls and wait rules.  The   *)
(* mutex m makes each section between m.lock() and c.wait() or m.unlock()  *)
(* one atomic step; the condition variable c is its set of waiting         *)
(* threads.  A thread takes the lock in one mode, leaves it with unlock(), *)
(* and starts at most MaxOps rounds.                                       *)
(***************************************************************************)
EXTENDS Naturals, FiniteSets

CONSTANTS
  Thread,       \* the threads of the client process
  MaxOps        \* bound: how many times one thread takes the lock

ASSUME ThreadAssumption == IsFiniteSet(Thread)
ASSUME MaxOpsAssumption == MaxOps \in Nat

VARIABLES
  reader_count,   \* the reader_count field
  is_write_lock,  \* the is_write_lock field, 0 or 1
  waiting,        \* threads blocked in c.wait()
  pc,             \* where each thread is
  ops             \* lock operations each thread has started

vars == <<reader_count, is_write_lock, waiting, pc, ops>>

\* "wlock": inside writeLock(), before the loop test; "wcast": the write lock
\* is taken and the trailing c.broadcast() is still to come.
PC == {"idle", "reading", "wlock", "wcast", "writing"}

\* The writer_count field: set to 0 by the constructor, assigned nowhere else.
writer_count == 0

Readers == {t \in Thread : pc[t] = "reading"}
Writers == {t \in Thread : pc[t] \in {"wcast", "writing"}}
Holders == {t \in Thread : pc[t] \in {"reading", "wcast", "writing"}}

Init ==
  /\ reader_count = 0
  /\ is_write_lock = 0
  /\ waiting = {}
  /\ pc = [t \in Thread |-> "idle"]
  /\ ops = [t \in Thread |-> 0]

\* Mutant: the test forgets the readers.
WriteBlocked_NoReader == is_write_lock = 1

\* The loop test of writeLock().
WriteBlocked == is_write_lock = 1 \/ reader_count > 0

\* readLock(): the wait loop tests writer_count only.
ReadLock(t) ==
  /\ pc[t] = "idle" /\ ops[t] < MaxOps
  /\ ~(writer_count > 0)
  /\ reader_count' = reader_count + 1
  /\ pc' = [pc EXCEPT ![t] = "reading"]
  /\ ops' = [ops EXCEPT ![t] = @ + 1]
  /\ UNCHANGED <<is_write_lock, waiting>>

\* A thread calls writeLock() and gets the mutex later.
CallWriteLock(t) ==
  /\ pc[t] = "idle" /\ ops[t] < MaxOps
  /\ pc' = [pc EXCEPT ![t] = "wlock"]
  /\ ops' = [ops EXCEPT ![t] = @ + 1]
  /\ UNCHANGED <<reader_count, is_write_lock, waiting>>

\* writeLock(): the loop test fails, c.wait().
WriteWait(t) ==
  /\ pc[t] = "wlock" /\ t \notin waiting
  /\ WriteBlocked
  /\ waiting' = waiting \cup {t}
  /\ UNCHANGED <<reader_count, is_write_lock, pc, ops>>

\* writeLock(): the lock is free; the broadcast comes after m.unlock().
WriteAcquire(t) ==
  /\ pc[t] = "wlock" /\ t \notin waiting
  /\ ~WriteBlocked
  /\ is_write_lock' = 1
  /\ pc' = [pc EXCEPT ![t] = "wcast"]
  /\ UNCHANGED <<reader_count, waiting, ops>>

WriteBroadcast(t) ==
  /\ pc[t] = "wcast"
  /\ waiting' = {}
  /\ pc' = [pc EXCEPT ![t] = "writing"]
  /\ UNCHANGED <<reader_count, is_write_lock, ops>>

\* Mutants of unlock(): the caller's mode decides, and a writer whose flag is
\* gone lowers nothing;
Unlock_ByMode(t) ==
  /\ pc[t] \in {"reading", "writing"}
  /\ pc' = [pc EXCEPT ![t] = "idle"]
  /\ waiting' = {}
  /\ IF is_write_lock # 0
       THEN is_write_lock' = 0 /\ UNCHANGED reader_count
       ELSE /\ reader_count' = IF pc[t] = "reading" THEN reader_count - 1
                                                   ELSE reader_count
            /\ UNCHANGED is_write_lock
  /\ UNCHANGED ops

\* nobody is told that the last reader left:
Unlock_NoBroadcast(t) ==
  /\ pc[t] \in {"reading", "writing"}
  /\ pc' = [pc EXCEPT ![t] = "idle"]
  /\ IF is_write_lock # 0
       THEN is_write_lock' = 0 /\ waiting' = {} /\ UNCHANGED reader_count
       ELSE /\ reader_count' = reader_count - 1
            /\ UNCHANGED <<is_write_lock, waiting>>
  /\ UNCHANGED ops

\* unlock(), for readers and writers alike: it looks at is_write_lock, not at
\* the caller's mode.
Unlock(t) ==
  /\ pc[t] \in {"reading", "writing"}
  /\ pc' = [pc EXCEPT ![t] = "idle"]
  /\ \/ /\ is_write_lock # 0
        /\ is_write_lock' = 0
        /\ waiting' = {}
        /\ UNCHANGED reader_count
     \/ /\ is_write_lock = 0
        /\ reader_count' = reader_count - 1
        /\ waiting' = IF reader_count' = 0 THEN {} ELSE waiting
        /\ UNCHANGED is_write_lock
  /\ UNCHANGED ops

\* A condition wait may return without a broadcast; the loop tests again.
SpuriousWakeup(t) ==
  /\ t \in waiting
  /\ waiting' = waiting \ {t}
  /\ UNCHANGED <<reader_count, is_write_lock, pc, ops>>

\* Every thread has made its last call and left the lock.
Finished ==
  /\ \A t \in Thread : pc[t] = "idle" /\ ops[t] = MaxOps
  /\ UNCHANGED vars

Step(t) == \/ ReadLock(t) \/ CallWriteLock(t) \/ WriteWait(t)
           \/ WriteAcquire(t) \/ WriteBroadcast(t) \/ Unlock(t)

Next == \/ \E t \in Thread : Step(t) \/ SpuriousWakeup(t)
        \/ Finished

\* A thread with the mutex free runs on; nothing forces a spurious wakeup.
Fairness == \A t \in Thread : WF_vars(Step(t))

Spec == Init /\ [][Next]_vars
FairSpec == Spec /\ Fairness
-----------------------------------------------------------------------------
TypeOK ==
  /\ reader_count \in Nat
  /\ is_write_lock \in {0, 1}
  /\ waiting \subseteq {t \in Thread : pc[t] = "wlock"}
  /\ pc \in [Thread -> PC]
  /\ ops \in [Thread -> 0..MaxOps]

\* writeLock() excludes writers: although a reader that unlocks under a writer
\* clears that writer's flag, two threads never hold the write lock together.
WriterMutex == \A s, t \in Writers : s = t

\* A thread sleeps in c.wait() of writeLock() only while somebody holds the
\* lock and will broadcast: no wakeup is lost.
NoLostWakeup == waiting # {} => Holders # {}

\* What the two counters say together: the number of holders, whichever field
\* each unlock() happened to lower.
HolderCount == Cardinality(Holders) = reader_count + is_write_lock

\* A writer enters only when nobody, reader or writer, is inside.
WriterEntersAlone ==
  [][\A t \in Thread :
       (pc[t] = "wlock" /\ pc'[t] = "wcast") => Holders = {}]_vars

\* Every lock operation that is started comes to an end: nobody waits forever
\* for a lock whose users all call unlock().
AllFinish == <>(\A t \in Thread : pc[t] = "idle" /\ ops[t] = MaxOps)

\* "if there is at least one writer using the lock or waiting for it, we need
\* to wait for access" (readLock): no thread is inside as a reader together
\* with a writer.
ReadersWaitForWriters == Readers = {} \/ Writers = {}
=============================================================================
