---------------------------- MODULE RWLockProofs ----------------------------
(***************************************************************************)
(* The readers-writer lock for every finite set of threads and every bound *)
(* on their operations: the two counters always count the holders, writers *)
(* exclude each other, and no waiting writer is forgotten.                 *)
(***************************************************************************)
EXTENDS RWLock, FiniteSetTheorems, TLAPS

\* The inductive invariant: WriterMutex and NoLostWakeup need HolderCount,
\* which says what the two fields, lowered by whoever leaves, mean together.
IInv == TypeOK /\ HolderCount /\ WriterMutex /\ NoLostWakeup

\* The holders can be counted.
LEMMA HoldersFinite == IsFiniteSet(Holders) /\ Cardinality(Holders) \in Nat
<1>1. Holders \subseteq Thread
  BY DEF Holders
<1>2. IsFiniteSet(Holders)
  BY <1>1, ThreadAssumption, FS_Subset
<1> QED
  BY <1>2, FS_CardinalityType

\* Two naturals whose sum is zero are zero.
LEMMA SumZero == \A m, n \in Nat : m + n = 0 => m = 0 /\ n = 0
OBVIOUS

\* Nobody holds the lock exactly when both counters are zero.
LEMMA FreeLock ==
  ASSUME TypeOK, HolderCount
  PROVE  Holders = {} <=> reader_count = 0 /\ is_write_lock = 0
<1>1. Holders = {} <=> Cardinality(Holders) = 0
  BY HoldersFinite, FS_EmptySet
<1> QED
  BY <1>1 DEF TypeOK, HolderCount

\* The lock is free initially.
LEMMA InitIInv == Init => IInv
<1> SUFFICES ASSUME Init PROVE IInv
  OBVIOUS
<1>1. Holders = {} /\ Writers = {}
  BY DEF Init, Holders, Writers
<1>2. Cardinality(Holders) = 0
  BY <1>1, FS_EmptySet
<1> QED
  BY <1>1, <1>2, MaxOpsAssumption
  DEF Init, IInv, TypeOK, PC, HolderCount, WriterMutex, NoLostWakeup

\* A thread that enters the lock adds one holder, a thread that leaves takes
\* one away.
LEMMA Enter ==
  ASSUME NEW t \in Thread, t \notin Holders, Holders' = Holders \cup {t}
  PROVE  Cardinality(Holders') = Cardinality(Holders) + 1
BY HoldersFinite, FS_AddElement

\* unlock() takes one holder away.
LEMMA Leave ==
  ASSUME NEW t \in Thread, t \in Holders, Holders' = Holders \ {t}
  PROVE  Cardinality(Holders') = Cardinality(Holders) - 1
BY HoldersFinite, FS_RemoveElement

\* Every step keeps the invariant,
LEMMA NextIInv == IInv /\ [Next]_vars => IInv'
<1> SUFFICES ASSUME IInv, [Next]_vars PROVE IInv'
  OBVIOUS
<1> USE DEF IInv
<1>1. ASSUME NEW t \in Thread, ReadLock(t) PROVE IInv'
  <2>1. TypeOK'
    BY <1>1, MaxOpsAssumption DEF TypeOK, ReadLock, PC
  <2>2. t \notin Holders /\ Holders' = Holders \cup {t} /\ Writers' = Writers
    BY <1>1 DEF TypeOK, ReadLock, Holders, Writers
  <2>3. HolderCount'
    BY <1>1, <2>2, Enter, HoldersFinite DEF TypeOK, ReadLock, HolderCount
  <2> QED
    BY <1>1, <2>1, <2>2, <2>3 DEF WriterMutex, NoLostWakeup
<1>2. ASSUME NEW t \in Thread, CallWriteLock(t) PROVE IInv'
  <2>1. TypeOK'
    BY <1>2, MaxOpsAssumption DEF TypeOK, CallWriteLock, PC
  <2>2. Holders' = Holders /\ Writers' = Writers
    BY <1>2 DEF TypeOK, CallWriteLock, Holders, Writers
  <2> QED
    BY <1>2, <2>1, <2>2 DEF CallWriteLock, HolderCount, WriterMutex, NoLostWakeup
<1>3. ASSUME NEW t \in Thread, WriteWait(t) PROVE IInv'
  <2>1. TypeOK'
    BY <1>3 DEF TypeOK, WriteWait
  <2>2. Holders' = Holders /\ Writers' = Writers
    BY <1>3 DEF WriteWait, Holders, Writers
  <2>3. Holders # {}
    BY <1>3, FreeLock DEF WriteWait, WriteBlocked
  <2> QED
    BY <1>3, <2>1, <2>2, <2>3 DEF WriteWait, HolderCount, WriterMutex, NoLostWakeup
<1>4. ASSUME NEW t \in Thread, WriteAcquire(t) PROVE IInv'
  <2>1. TypeOK'
    BY <1>4 DEF TypeOK, WriteAcquire, PC
  <2>2. reader_count = 0 /\ is_write_lock = 0 /\ Holders = {}
    BY <1>4, FreeLock DEF WriteAcquire, WriteBlocked, TypeOK
  <2>3. t \notin Holders /\ Holders' = Holders \cup {t} /\ Writers' = {t}
    BY <1>4, <2>2 DEF TypeOK, WriteAcquire, Holders, Writers
  <2>4. HolderCount'
    BY <1>4, <2>2, <2>3, Enter, HoldersFinite DEF WriteAcquire, HolderCount
  <2>5. waiting = {}
    BY <2>2 DEF NoLostWakeup
  <2> QED
    BY <1>4, <2>1, <2>3, <2>4, <2>5 DEF WriteAcquire, WriterMutex, NoLostWakeup
<1>5. ASSUME NEW t \in Thread, WriteBroadcast(t) PROVE IInv'
  <2>1. TypeOK'
    BY <1>5 DEF TypeOK, WriteBroadcast, PC
  <2>2. Holders' = Holders /\ Writers' = Writers
    BY <1>5 DEF TypeOK, WriteBroadcast, Holders, Writers
  <2> QED
    BY <1>5, <2>1, <2>2
    DEF WriteBroadcast, HolderCount, WriterMutex, NoLostWakeup
<1>6. ASSUME NEW t \in Thread, Unlock(t) PROVE IInv'
  <2>1. /\ t \in Holders
        /\ Holders' = Holders \ {t}
        /\ Writers' \subseteq Writers
    BY <1>6 DEF TypeOK, Unlock, Holders, Writers
  <2>2. Cardinality(Holders') = Cardinality(Holders) - 1
    BY <2>1, Leave
  <2>3. ~(reader_count = 0 /\ is_write_lock = 0)
    BY <2>1, FreeLock
  <2>4. TypeOK'
    BY <1>6, <2>3 DEF TypeOK, Unlock, PC
  <2>5. HolderCount'
    BY <1>6, <2>2, <2>3 DEF TypeOK, Unlock, HolderCount
  <2>6. WriterMutex'
    BY <2>1 DEF WriterMutex
  <2>7. waiting' # {} => ~(reader_count' = 0 /\ is_write_lock' = 0)
    BY <1>6 DEF TypeOK, Unlock
  <2>8. Cardinality(Holders') = 0 <=> Holders' = {}
    <3>1. IsFiniteSet(Holders')
      BY <2>1, HoldersFinite, FS_Subset
    <3> QED
      BY <3>1, FS_EmptySet
  <2>9. reader_count' + is_write_lock' = 0 => reader_count' = 0 /\ is_write_lock' = 0
    <3>1. reader_count' \in Nat /\ is_write_lock' \in Nat
      BY <2>4 DEF TypeOK
    <3> QED
      BY <3>1, SumZero
  <2> QED
    BY <2>4, <2>5, <2>6, <2>7, <2>8, <2>9 DEF NoLostWakeup, HolderCount
<1>7. ASSUME NEW t \in Thread, SpuriousWakeup(t) PROVE IInv'
  <2>1. TypeOK'
    BY <1>7 DEF TypeOK, SpuriousWakeup
  <2>2. Holders' = Holders /\ Writers' = Writers
    BY <1>7 DEF SpuriousWakeup, Holders, Writers
  <2> QED
    BY <1>7, <2>1, <2>2
    DEF SpuriousWakeup, HolderCount, WriterMutex, NoLostWakeup
<1>8. CASE UNCHANGED vars
  <2>1. Holders' = Holders /\ Writers' = Writers
    BY <1>8 DEF vars, Holders, Writers
  <2> QED
    BY <1>8, <2>1 DEF vars, TypeOK, HolderCount, WriterMutex, NoLostWakeup
<1> QED
  BY <1>1, <1>2, <1>3, <1>4, <1>5, <1>6, <1>7, <1>8 DEF Next, Step, Finished

\* which holds in every reachable state.
LEMMA SpecIInv == Spec => []IInv
BY InitIInv, NextIInv, PTL DEF Spec

\* Two threads never hold the write lock together, whatever readers do to the
\* writer's flag when they call unlock() under it.
THEOREM WritersExclude == Spec => []WriterMutex
<1>1. IInv => WriterMutex
  BY DEF IInv
<1> QED
  BY <1>1, SpecIInv, PTL

\* reader_count and is_write_lock together count the threads inside.
THEOREM CountersCountHolders == Spec => []HolderCount
<1>1. IInv => HolderCount
  BY DEF IInv
<1> QED
  BY <1>1, SpecIInv, PTL

\* A thread asleep in writeLock() has a holder that will wake it.
THEOREM NoWakeupLost == Spec => []NoLostWakeup
<1>1. IInv => NoLostWakeup
  BY DEF IInv
<1> QED
  BY <1>1, SpecIInv, PTL

\* A writer enters an empty lock.
THEOREM WriterEntersEmptyLock == Spec => WriterEntersAlone
<1>1. IInv /\ [Next]_vars =>
        [\A t \in Thread :
           (pc[t] = "wlock" /\ pc'[t] = "wcast") => Holders = {}]_vars
  <2> SUFFICES ASSUME IInv, Next, NEW t \in Thread,
                      pc[t] = "wlock", pc'[t] = "wcast"
               PROVE  Holders = {}
    OBVIOUS
  <2>1. PICK u \in Thread : Step(u)
    BY DEF Next, SpuriousWakeup, Finished, vars
  <2>2. t = u
    BY <2>1 DEF IInv, TypeOK, Step, ReadLock, CallWriteLock, WriteWait,
                WriteAcquire, WriteBroadcast, Unlock
  <2>3. WriteAcquire(t)
    BY <2>1, <2>2 DEF Step, ReadLock, CallWriteLock, WriteWait,
                      WriteBroadcast, Unlock
  <2> QED
    BY <2>3, FreeLock DEF IInv, TypeOK, WriteAcquire, WriteBlocked
<1> QED
  BY <1>1, SpecIInv, PTL DEF Spec, WriterEntersAlone
=============================================================================
