------------------------------- MODULE RWLock -------------------------------
(***************************************************************************)
(* The reader-priority read-write lock of lab5/src/rwlock.c.               *)
(*                                                                         *)
(* Every access to the lock's fields happens with rw->lock held, so one    *)
(* step of a thread is one critical section: from pthread_mutex_lock (or   *)
(* from the return of pthread_cond_wait, which holds the mutex again) to   *)
(* pthread_mutex_unlock or to the next pthread_cond_wait.  Between two     *)
(* such sections any other thread may run.  A thread blocked in            *)
(* pthread_cond_wait is "asleep" until a broadcast or a spurious wake-up   *)
(* makes it "awake"; an awake thread tests its while-condition again when  *)
(* it gets the mutex back.                                                 *)
(***************************************************************************)
EXTENDS Integers, FiniteSets

CONSTANTS Threads,           \* the worker threads that use the lock
          WRITER_RING_SIZE,  \* slots of the ring of pending writers
          NoThread           \* the zero pthread_t that calloc leaves in a slot

ASSUME ThreadsAssumption == IsFiniteSet(Threads) /\ NoThread \notin Threads
ASSUME RingAssumption == WRITER_RING_SIZE \in Nat \ {0}

VARIABLES pc,                \* where each thread stands with this lock
          read_count,        \* current and pending readers
          write_count,       \* current writers
          writer_ring,       \* thread ids of the pending writers
          writer_ring_head,  \* the slot the next pending writer takes
          writer_ring_tail   \* the slot of the writer that enters next

ringVars == <<writer_ring, writer_ring_head, writer_ring_tail>>
vars == <<pc, read_count, write_count, ringVars>>

Slots == 0 .. WRITER_RING_SIZE - 1
Advanced(slot) == (slot + 1) % WRITER_RING_SIZE

PendingRead == {"rasleep", "rawake"}
PendingWrite == {"wasleep", "wawake"}
States == {"idle", "reading", "writing"} \union PendingRead \union PendingWrite

In(S) == {t \in Threads : pc[t] \in S}
Readers == In(PendingRead \union {"reading"})

Init ==
  /\ pc = [t \in Threads |-> "idle"]
  /\ read_count = 0
  /\ write_count = 0
  /\ writer_ring = [s \in Slots |-> NoThread]
  /\ writer_ring_head = 0
  /\ writer_ring_tail = 0

-----------------------------------------------------------------------------
(* pthread_cond_broadcast: every thread asleep on the condition variable   *)
(* will test its condition again.                                          *)
BroadcastReaders(f) ==
  [t \in Threads |-> IF f[t] = "rasleep" THEN "rawake" ELSE f[t]]
BroadcastWriters(f) ==
  [t \in Threads |-> IF f[t] = "wasleep" THEN "wawake" ELSE f[t]]

(* A wait may return without a broadcast; the while loops allow for it.    *)
SpuriousWakeup(t) ==
  /\ \/ pc[t] = "rasleep" /\ pc' = [pc EXCEPT ![t] = "rawake"]
     \/ pc[t] = "wasleep" /\ pc' = [pc EXCEPT ![t] = "wawake"]
  /\ UNCHANGED <<read_count, write_count, ringVars>>

-----------------------------------------------------------------------------
(* The while loop of rwlock_read_lock.                                     *)
ReaderTest(t) ==
  /\ pc' = [pc EXCEPT ![t] = IF write_count > 0 THEN "rasleep" ELSE "reading"]
  /\ UNCHANGED <<write_count, ringVars>>

(* The counter taken only by a reader that gets in at once.                *)
ReadLockMutCountsActive(t) ==
  /\ pc[t] = "idle"
  /\ read_count' = IF write_count > 0 THEN read_count ELSE read_count + 1
  /\ ReaderTest(t)

ReadLock(t) ==
  /\ pc[t] = "idle"
  /\ read_count' = read_count + 1
  /\ ReaderTest(t)

(* The increment inside the while loop.                                    *)
ReadRetryMutRecount(t) ==
  /\ pc[t] = "rawake"
  /\ read_count' = read_count + 1
  /\ ReaderTest(t)

ReadRetry(t) ==
  /\ pc[t] = "rawake"
  /\ ReaderTest(t)
  /\ UNCHANGED read_count

(* Only the first of the two broadcasts.                                   *)
AfterReadUnlockMutNoWriters(f) ==
  IF read_count - 1 > 0 THEN BroadcastReaders(f) ELSE f

(* Readers that are still there are told, and the writers only when the    *)
(* last current or pending reader leaves.                                  *)
AfterReadUnlock(f) ==
  IF read_count - 1 > 0 THEN BroadcastReaders(f)
  ELSE IF read_count - 1 = 0 /\ writer_ring_head /= writer_ring_tail
       THEN BroadcastWriters(f)
       ELSE f

ReadUnlock(t) ==
  /\ pc[t] = "reading"
  /\ read_count' = read_count - 1
  /\ pc' = AfterReadUnlock([pc EXCEPT ![t] = "idle"])
  /\ UNCHANGED <<write_count, ringVars>>

-----------------------------------------------------------------------------
(* The while-condition without its first, or without its last, part.       *)
MayWriteMutIgnoresReaders(t, ring) ==
  write_count = 0 /\ ring[writer_ring_tail] = t
MayWriteMutAnyOrder(t, ring) == read_count = 0 /\ write_count = 0

(* The while-condition of rwlock_write_lock, negated, for the contents     *)
(* ring of the writer ring.                                                *)
MayWrite(t, ring) ==
  /\ read_count = 0
  /\ write_count = 0
  /\ ring[writer_ring_tail] = t

(* The while loop of rwlock_write_lock and what follows it.                *)
WriterTest(t, ring) ==
  \/ /\ MayWrite(t, ring)
     /\ pc' = [pc EXCEPT ![t] = "writing"]
     /\ write_count' = write_count + 1
     /\ writer_ring_tail' = Advanced(writer_ring_tail)
  \/ /\ ~MayWrite(t, ring)
     /\ pc' = [pc EXCEPT ![t] = "wasleep"]
     /\ UNCHANGED <<write_count, writer_ring_tail>>

WriteLock(t) ==
  /\ pc[t] = "idle"
  /\ writer_ring' = [writer_ring EXCEPT ![writer_ring_head] = t]
  /\ writer_ring_head' = Advanced(writer_ring_head)
  /\ WriterTest(t, [writer_ring EXCEPT ![writer_ring_head] = t])
  /\ UNCHANGED read_count

WriteRetry(t) ==
  /\ pc[t] = "wawake"
  /\ WriterTest(t, writer_ring)
  /\ UNCHANGED <<read_count, writer_ring, writer_ring_head>>

(* Writers first.                                                          *)
AfterWriteUnlockMutWritersFirst(f) ==
  IF write_count - 1 /= 0 THEN f
  ELSE IF writer_ring_head /= writer_ring_tail THEN BroadcastWriters(f)
  ELSE IF read_count >= 1 THEN BroadcastReaders(f)
  ELSE f

(* Waiting readers first; a pending writer only when there are none.       *)
AfterWriteUnlock(f) ==
  IF write_count - 1 /= 0 THEN f
  ELSE IF read_count >= 1 THEN BroadcastReaders(f)
  ELSE IF writer_ring_head /= writer_ring_tail THEN BroadcastWriters(f)
  ELSE f

WriteUnlock(t) ==
  /\ pc[t] = "writing"
  /\ write_count' = write_count - 1
  /\ pc' = AfterWriteUnlock([pc EXCEPT ![t] = "idle"])
  /\ UNCHANGED <<read_count, ringVars>>

-----------------------------------------------------------------------------
(* A step the thread takes by itself once it runs again: a woken thread    *)
(* that gets the mutex, or a holder that releases.  A thread that holds    *)
(* the lock only walks a bucket before it unlocks.                         *)
Advance(t) ==
  ReadRetry(t) \/ WriteRetry(t) \/ ReadUnlock(t) \/ WriteUnlock(t)

Next == \E t \in Threads :
  ReadLock(t) \/ WriteLock(t) \/ Advance(t) \/ SpuriousWakeup(t)

Spec == Init /\ [][Next]_vars

FairSpec == Spec /\ \A t \in Threads : WF_vars(Advance(t))

-----------------------------------------------------------------------------
(* Types and ranges of the fields, and which thread can be where.          *)
TypeOK ==
  /\ pc \in [Threads -> States]
  /\ read_count \in Nat
  /\ write_count \in Nat
  /\ writer_ring \in [Slots -> Threads \union {NoThread}]
  /\ writer_ring_head \in Slots
  /\ writer_ring_tail \in Slots

(* While a thread writes no other thread reads or writes: rwlock_read_lock *)
(* and rwlock_write_lock never let both in, whatever the interleaving of   *)
(* arrivals, releases and wake-ups.                                        *)
MutualExclusion == \A t, u \in Threads :
  pc[t] = "writing" /\ t /= u => pc[u] \notin {"reading", "writing"}

(* The counters say what rwlock.h says they say: read_count is the number  *)
(* of current and pending readers, write_count the number of writers.      *)
CountsExact ==
  /\ read_count = Cardinality(Readers)
  /\ write_count = Cardinality(In({"writing"}))

(* No reader sleeps through a release: as soon as no writer holds the      *)
(* lock, every pending reader has been woken and will test again.          *)
NoSleepingReader == write_count = 0 => In({"rasleep"}) = {}

(* The slots from tail up to head, in order, hold the pending writers,     *)
(* each exactly once: a thread that arrives finds the oldest at tail.      *)
Ahead(k) == writer_ring[(writer_ring_tail + k) % WRITER_RING_SIZE]
PendingCount == Cardinality(In(PendingWrite))
RingHoldsPending ==
  /\ In(PendingWrite) = {Ahead(k) : k \in 0 .. PendingCount - 1}
  /\ writer_ring_head =
       (writer_ring_tail + PendingCount) % WRITER_RING_SIZE

(* No writer is lost in the ring or sleeps through a release: once there   *)
(* is no current or pending reader and no writer, the writer whose turn it *)
(* is (the tail slot) is awake.  It needs the head # tail test of the      *)
(* unlock functions to mean "some writer is pending".                      *)
NoSleepingWriter ==
  /\ RingHoldsPending
  /\ read_count = 0 /\ write_count = 0 /\ In(PendingWrite) /= {}
       => \E t \in In({"wawake"}) : writer_ring[writer_ring_tail] = t

(* Reader priority: no step lets a writer in while a reader is pending.    *)
ReaderPriority == [][\A t \in Threads :
  pc[t] /= "writing" /\ pc'[t] = "writing" => In(PendingRead) = {}]_vars
=============================================================================
