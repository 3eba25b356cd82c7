--------------------------- MODULE RWLock_proofs ---------------------------
(***************************************************************************)
(* Theorems about RWLock, for every finite set of threads.                 *)
(*                                                                         *)
(* Exclusion, the counters and the wake-ups of readers rest on the two     *)
(* counters and not on the ring of pending writers: they hold for every    *)
(* ring size, also when there are more threads than slots.  The wake-ups   *)
(* of writers and the implementation of RWLockSpec need the ring, which is *)
(* a queue only while it has a slot for every thread that may wait: the    *)
(* hypothesis RingFits of the second part.  rwlock.h gives the ring        *)
(* NUM_THREADS slots, the number of workers the server starts by default;  *)
(* `server -t` can start more, and RWLockOverflow.cfg shows what happens   *)
(* then.                                                                   *)
(***************************************************************************)
EXTENDS MCRWLock, FiniteSetTheorems, SequenceTheorems, TLAPS

Writers == In({"writing"})

(* The inductive invariant.  A thread enters by looking at the counters    *)
(* only, so exclusion needs the counters to be exact; the counters stay    *)
(* natural numbers because they count somebody.                            *)
Inv == TypeOK /\ CountsExact /\ MutualExclusion

(* Both sets that the counters count are finite, and a counter is zero     *)
(* exactly when its set is empty.                                          *)
LEMMA CountersAndSets ==
  ASSUME Inv
  PROVE  /\ IsFiniteSet(Readers) /\ IsFiniteSet(Writers)
         /\ read_count = 0 <=> Readers = {}
         /\ write_count = 0 <=> Writers = {}
<1>1. Readers \subseteq Threads /\ Writers \subseteq Threads
  BY DEF Readers, Writers, In
<1>2. IsFiniteSet(Readers) /\ IsFiniteSet(Writers)
  BY <1>1, ThreadsAssumption, FS_Subset
<1> QED
  BY <1>2, FS_EmptySet DEF Inv, CountsExact, Writers

(* A broadcast puts no thread into a counted set and takes none out.       *)
LEMMA BroadcastKeeps ==
  ASSUME NEW f \in [Threads -> States], NEW t \in Threads
  PROVE  /\ BroadcastReaders(f) \in [Threads -> States]
         /\ BroadcastWriters(f) \in [Threads -> States]
         /\ BroadcastReaders(f)[t] = "writing" <=> f[t] = "writing"
         /\ BroadcastWriters(f)[t] = "writing" <=> f[t] = "writing"
         /\ BroadcastReaders(f)[t] = "reading" <=> f[t] = "reading"
         /\ BroadcastWriters(f)[t] = "reading" <=> f[t] = "reading"
         /\ BroadcastReaders(f)[t] \in PendingRead <=> f[t] \in PendingRead
         /\ BroadcastWriters(f)[t] \in PendingRead <=> f[t] \in PendingRead
  BY DEF BroadcastReaders, BroadcastWriters, States, PendingRead, PendingWrite

LEMMA InitInv == Init => Inv
<1> SUFFICES ASSUME Init PROVE Inv
  OBVIOUS
<1>1. TypeOK
  BY RingAssumption DEF Init, TypeOK, States, Slots
<1>2. Readers = {} /\ In({"writing"}) = {}
  BY DEF Init, Readers, In, PendingRead
<1>3. CountsExact
  BY <1>2, FS_EmptySet DEF Init, CountsExact
<1>4. MutualExclusion
  BY DEF Init, MutualExclusion
<1> QED
  BY <1>1, <1>3, <1>4 DEF Inv

(* Every step keeps the invariant.  Each case says what the step does to   *)
(* the two counted sets; the counters follow it.                           *)
LEMMA NextInv == Inv /\ [Next]_vars => Inv'
<1> SUFFICES ASSUME Inv, [Next]_vars PROVE Inv'
  OBVIOUS
<1> USE DEF Inv, Writers
<1>c. /\ IsFiniteSet(Readers) /\ IsFiniteSet(Writers)
      /\ read_count = 0 <=> Readers = {}
      /\ write_count = 0 <=> Writers = {}
  BY CountersAndSets
<1>n. read_count = Cardinality(Readers) /\ write_count = Cardinality(Writers)
  BY DEF CountsExact
<1>a. ASSUME NEW t \in Threads, ReadLock(t) PROVE Inv'
  <2>1. TypeOK'
    BY <1>a DEF ReadLock, ReaderTest, TypeOK, ringVars, States, PendingRead
  <2>2. Readers' = Readers \cup {t} /\ t \notin Readers /\ Writers' = Writers
    BY <1>a DEF ReadLock, ReaderTest, TypeOK, States, PendingRead,
                Readers, In
  <2>3. CountsExact'
    BY <1>a, <1>c, <1>n, <2>2, FS_AddElement
       DEF ReadLock, ReaderTest, CountsExact
  <2>4. MutualExclusion'
    <3>1. CASE write_count > 0
      BY <1>a, <3>1 DEF ReadLock, ReaderTest, TypeOK, MutualExclusion
    <3>2. CASE write_count = 0
      BY <1>a, <1>c, <3>2 DEF ReadLock, ReaderTest, TypeOK, MutualExclusion, In
    <3> QED
      BY <3>1, <3>2 DEF TypeOK
  <2> QED
    BY <2>1, <2>3, <2>4
<1>b. ASSUME NEW t \in Threads, ReadRetry(t) PROVE Inv'
  <2>1. TypeOK'
    BY <1>b DEF ReadRetry, ReaderTest, TypeOK, ringVars, States, PendingRead
  <2>2. Readers' = Readers /\ Writers' = Writers
    BY <1>b DEF ReadRetry, ReaderTest, TypeOK, States, PendingRead,
                Readers, In
  <2>3. CountsExact'
    BY <1>b, <2>2 DEF ReadRetry, ReaderTest, CountsExact
  <2>4. MutualExclusion'
    <3>1. CASE write_count > 0
      BY <1>b, <3>1 DEF ReadRetry, ReaderTest, TypeOK, MutualExclusion
    <3>2. CASE write_count = 0
      BY <1>b, <1>c, <3>2 DEF ReadRetry, ReaderTest, TypeOK, MutualExclusion, In
    <3> QED
      BY <3>1, <3>2 DEF TypeOK
  <2> QED
    BY <2>1, <2>3, <2>4
<1>d. ASSUME NEW t \in Threads, ReadUnlock(t) PROVE Inv'
  <2> DEFINE left == [pc EXCEPT ![t] = "idle"]
  <2>0. left \in [Threads -> States]
    BY DEF TypeOK, States
  <2>1. \/ pc' = left \/ pc' = BroadcastReaders(left)
        \/ pc' = BroadcastWriters(left)
    BY <1>d DEF ReadUnlock, AfterReadUnlock
  <2>2. /\ pc' \in [Threads -> States]
        /\ \A u \in Threads :
             /\ pc'[u] = "writing" <=> left[u] = "writing"
             /\ pc'[u] = "reading" <=> left[u] = "reading"
             /\ pc'[u] \in PendingRead <=> left[u] \in PendingRead
    <3> HIDE DEF left
    <3> QED
      BY <2>0, <2>1, BroadcastKeeps
  <2>3. /\ Readers' = Readers \ {t} /\ t \in Readers
        /\ Writers' = Writers
    BY <1>d, <2>2 DEF ReadUnlock, TypeOK, PendingRead, Readers, In
  <2>4. read_count' = read_count - 1 /\ write_count' = write_count
    BY <1>d DEF ReadUnlock
  <2>5. CountsExact'
    BY <1>c, <1>n, <2>3, <2>4, FS_RemoveElement DEF CountsExact
  <2>6. TypeOK'
    <3>1. read_count' \in Nat
      BY <1>c, <2>3, <2>4 DEF TypeOK
    <3> QED
      BY <1>d, <2>2, <3>1 DEF ReadUnlock, TypeOK, ringVars
  <2>7. MutualExclusion'
    BY <2>2 DEF MutualExclusion, TypeOK
  <2> QED
    BY <2>5, <2>6, <2>7
<1>e. ASSUME NEW t \in Threads, NEW ring, WriterTest(t, ring),
             pc[t] \in {"idle", "wawake"}, UNCHANGED read_count,
             writer_ring' \in [Slots -> Threads \cup {NoThread}],
             writer_ring_head' \in Slots
      PROVE  Inv'
  <2>1. CASE ~MayWrite(t, ring)
    <3>1. /\ pc' = [pc EXCEPT ![t] = "wasleep"]
          /\ write_count' = write_count
          /\ writer_ring_tail' = writer_ring_tail
      BY <1>e, <2>1 DEF WriterTest
    <3>2. TypeOK'
      BY <1>e, <3>1 DEF TypeOK, States, PendingWrite
    <3>3. Readers' = Readers /\ Writers' = Writers
      BY <1>e, <3>1 DEF TypeOK, PendingRead, Readers, In
    <3>4. CountsExact'
      BY <1>e, <3>1, <3>3 DEF CountsExact
    <3>5. MutualExclusion'
      BY <3>1 DEF TypeOK, MutualExclusion
    <3> QED
      BY <3>2, <3>4, <3>5
  <2>2. CASE MayWrite(t, ring)
    <3>1. /\ pc' = [pc EXCEPT ![t] = "writing"]
          /\ write_count' = write_count + 1
          /\ writer_ring_tail' = Advanced(writer_ring_tail)
      BY <1>e, <2>2 DEF WriterTest
    <3>2. Readers = {} /\ Writers = {}
      BY <1>c, <2>2 DEF MayWrite
    <3>3. Advanced(writer_ring_tail) \in Slots
      BY RingAssumption DEF TypeOK, Advanced, Slots
    <3>4. TypeOK'
      BY <1>e, <3>1, <3>3 DEF TypeOK, States
    <3>5. Readers' = Readers /\ Writers' = Writers \cup {t} /\ t \notin Writers
      BY <1>e, <3>1, <3>2 DEF TypeOK, PendingRead, Readers, In
    <3>6. CountsExact'
      BY <1>c, <1>e, <1>n, <3>1, <3>5, FS_AddElement DEF CountsExact
    <3>7. MutualExclusion'
      BY <3>1, <3>2 DEF TypeOK, MutualExclusion, Readers, In
    <3> QED
      BY <3>4, <3>6, <3>7
  <2> QED
    BY <2>1, <2>2
<1>f. ASSUME NEW t \in Threads, WriteLock(t) PROVE Inv'
  <2>1. writer_ring' \in [Slots -> Threads \cup {NoThread}]
    BY <1>f DEF WriteLock, TypeOK
  <2>2. writer_ring_head' \in Slots
    BY <1>f, RingAssumption DEF WriteLock, TypeOK, Advanced, Slots
  <2> QED
    BY <1>e, <1>f, <2>1, <2>2 DEF WriteLock
<1>g. ASSUME NEW t \in Threads, WriteRetry(t) PROVE Inv'
  BY <1>e, <1>g DEF WriteRetry, TypeOK
<1>h. ASSUME NEW t \in Threads, WriteUnlock(t) PROVE Inv'
  <2> DEFINE left == [pc EXCEPT ![t] = "idle"]
  <2>0. left \in [Threads -> States]
    BY DEF TypeOK, States
  <2>1. \/ pc' = left \/ pc' = BroadcastReaders(left)
        \/ pc' = BroadcastWriters(left)
    BY <1>h DEF WriteUnlock, AfterWriteUnlock
  <2>2. /\ pc' \in [Threads -> States]
        /\ \A u \in Threads :
             /\ pc'[u] = "writing" <=> left[u] = "writing"
             /\ pc'[u] = "reading" <=> left[u] = "reading"
             /\ pc'[u] \in PendingRead <=> left[u] \in PendingRead
    <3> HIDE DEF left
    <3> QED
      BY <2>0, <2>1, BroadcastKeeps
  <2>3. /\ Writers' = Writers \ {t} /\ t \in Writers
        /\ Readers' = Readers
    BY <1>h, <2>2 DEF WriteUnlock, TypeOK, PendingRead, Readers, In
  <2>4. read_count' = read_count /\ write_count' = write_count - 1
    BY <1>h DEF WriteUnlock
  <2>5. CountsExact'
    BY <1>c, <1>n, <2>3, <2>4, FS_RemoveElement DEF CountsExact
  <2>6. TypeOK'
    <3>1. write_count' \in Nat
      BY <1>c, <2>3, <2>4 DEF TypeOK
    <3> QED
      BY <1>h, <2>2, <3>1 DEF WriteUnlock, TypeOK, ringVars
  <2>7. MutualExclusion'
    BY <2>2 DEF MutualExclusion, TypeOK
  <2> QED
    BY <2>5, <2>6, <2>7
<1>i. ASSUME NEW t \in Threads, SpuriousWakeup(t) PROVE Inv'
  <2>1. TypeOK'
    BY <1>i DEF SpuriousWakeup, TypeOK, ringVars, States, PendingRead,
                PendingWrite
  <2>2. Readers' = Readers /\ Writers' = Writers
    BY <1>i DEF SpuriousWakeup, TypeOK, PendingRead, Readers, In
  <2>3. CountsExact'
    BY <1>i, <2>2 DEF SpuriousWakeup, CountsExact
  <2>4. MutualExclusion'
    BY <1>i DEF SpuriousWakeup, TypeOK, MutualExclusion
  <2> QED
    BY <2>1, <2>3, <2>4
<1>j. ASSUME UNCHANGED vars PROVE Inv'
  BY <1>j DEF vars, ringVars, TypeOK, CountsExact, MutualExclusion,
              Readers, In
<1> QED
  BY <1>a, <1>b, <1>d, <1>f, <1>g, <1>h, <1>i, <1>j DEF Next, Advance

(* The invariant of every reachable state, to be cited.                    *)
LEMMA AlwaysInv == Spec => []Inv
  BY InitInv, NextInv, PTL DEF Spec

(* The fields keep their types and every thread is where it can be.        *)
THEOREM TypeCorrect == Spec => []TypeOK
<1>1. Inv => TypeOK
  BY DEF Inv
<1> QED
  BY <1>1, AlwaysInv, PTL

(* At most one writer, and never with a reader.                            *)
THEOREM Exclusion == Spec => []MutualExclusion
<1>1. Inv => MutualExclusion
  BY DEF Inv
<1> QED
  BY <1>1, AlwaysInv, PTL

(* The counters are the numbers rwlock.h documents.                        *)
THEOREM ExactCounts == Spec => []CountsExact
<1>1. Inv => CountsExact
  BY DEF Inv
<1> QED
  BY <1>1, AlwaysInv, PTL

(* No step leaves a reader asleep beside a free lock.  Only the release by *)
(* the writer can: it broadcasts to the readers when read_count says there *)
(* are any, and read_count is exact.                                       *)
LEMMA NextNoSleepingReader ==
  Inv /\ NoSleepingReader /\ [Next]_vars => NoSleepingReader'
<1> SUFFICES ASSUME Inv, NoSleepingReader, [Next]_vars, write_count' = 0
             PROVE  In({"rasleep"})' = {}
  BY DEF NoSleepingReader
<1> USE DEF Inv
<1>1. \A t \in Threads : write_count = 0 => pc[t] /= "rasleep"
  BY DEF NoSleepingReader, In
<1>2. SUFFICES \A u \in Threads : pc'[u] /= "rasleep"
  BY DEF In
<1>3. ASSUME NEW t \in Threads, ReadLock(t) \/ ReadRetry(t)
      PROVE  \A u \in Threads : pc'[u] /= "rasleep"
  BY <1>1, <1>3 DEF ReadLock, ReadRetry, ReaderTest, TypeOK
<1>4. ASSUME NEW t \in Threads, ReadUnlock(t)
      PROVE  \A u \in Threads : pc'[u] /= "rasleep"
  BY <1>1, <1>4 DEF ReadUnlock, AfterReadUnlock, BroadcastReaders,
                    BroadcastWriters, TypeOK
<1>5. ASSUME NEW t \in Threads, NEW ring, WriterTest(t, ring)
      PROVE  \A u \in Threads : pc'[u] /= "rasleep"
  BY <1>1, <1>5 DEF WriterTest, TypeOK
<1>6. ASSUME NEW t \in Threads, WriteUnlock(t)
      PROVE  \A u \in Threads : pc'[u] /= "rasleep"
  <2>1. write_count - 1 = 0
    BY <1>6 DEF WriteUnlock
  <2>2. CASE read_count >= 1
    BY <1>6, <2>1, <2>2 DEF WriteUnlock, AfterWriteUnlock, BroadcastReaders,
                            TypeOK
  <2>3. CASE read_count = 0
    <3>1. \A u \in Threads : pc[u] /= "rasleep"
      BY <2>3, CountersAndSets DEF Readers, In, PendingRead
    <3> QED
      BY <1>6, <3>1 DEF WriteUnlock, AfterWriteUnlock, BroadcastReaders,
                        BroadcastWriters, TypeOK
  <2> QED
    BY <2>2, <2>3 DEF TypeOK
<1>7. ASSUME NEW t \in Threads, SpuriousWakeup(t)
      PROVE  \A u \in Threads : pc'[u] /= "rasleep"
  BY <1>1, <1>7 DEF SpuriousWakeup, TypeOK
<1>8. CASE UNCHANGED vars
  BY <1>1, <1>8 DEF vars
<1> QED
  BY <1>3, <1>4, <1>5, <1>6, <1>7, <1>8
     DEF Next, Advance, WriteLock, WriteRetry

(* A free lock never has a sleeping reader.                                *)
THEOREM ReadersAreWoken == Spec => []NoSleepingReader
<1>1. Init => NoSleepingReader
  BY DEF Init, NoSleepingReader, In
<1> QED
  BY <1>1, NextNoSleepingReader, AlwaysInv, PTL DEF Spec

(* Whoever starts to write saw read_count = 0, and pending readers count.  *)
THEOREM ReadersFirst == Spec => ReaderPriority
<1>1. ASSUME Inv, [Next]_vars, NEW t \in Threads,
             pc[t] /= "writing", pc'[t] = "writing"
      PROVE  In(PendingRead) = {}
  <2>1. PICK u \in Threads : \/ ReadLock(u) \/ WriteLock(u) \/ Advance(u)
                             \/ SpuriousWakeup(u)
    BY <1>1 DEF Next, vars
  <2>2. pc \in [Threads -> States]
    BY <1>1 DEF Inv, TypeOK
  <2>3. ASSUME NEW ring, WriterTest(u, ring) PROVE In(PendingRead) = {}
    <3>1. read_count = 0
      BY <1>1, <2>2, <2>3 DEF WriterTest, MayWrite
    <3> QED
      BY <1>1, <3>1, CountersAndSets DEF Readers, In
  <2>4. CASE WriteLock(u) \/ WriteRetry(u)
    BY <2>3, <2>4 DEF WriteLock, WriteRetry
  <2>5. CASE ReadLock(u) \/ ReadRetry(u) \/ SpuriousWakeup(u)
    BY <1>1, <2>2, <2>5 DEF ReadLock, ReadRetry, ReaderTest, SpuriousWakeup
  <2>6. CASE ReadUnlock(u) \/ WriteUnlock(u)
    BY <1>1, <2>2, <2>6 DEF ReadUnlock, WriteUnlock, AfterReadUnlock,
         AfterWriteUnlock, BroadcastReaders, BroadcastWriters
  <2> QED
    BY <2>1, <2>4, <2>5, <2>6 DEF Advance
<1>2. Inv /\ [Next]_vars =>
        [\A t \in Threads : pc[t] /= "writing" /\ pc'[t] = "writing"
                             => In(PendingRead) = {}]_vars
  BY <1>1
<1> QED
  BY <1>2, AlwaysInv, PTL DEF Spec, ReaderPriority

-----------------------------------------------------------------------------
(* Every worker thread could wait for writing at once.                     *)
RingFits == Cardinality(Threads) <= WRITER_RING_SIZE

-----------------------------------------------------------------------------
(* The slot k places behind tail, for a ring whose tail is at slot tail.   *)
Place(tail, k) == (tail + k) % WRITER_RING_SIZE

(* The remainder, without a division.                                      *)
LEMMA PlaceWraps ==
  ASSUME NEW tail \in Slots, NEW k \in 0 .. WRITER_RING_SIZE
  PROVE  Place(tail, k) = IF tail + k < WRITER_RING_SIZE
                          THEN tail + k
                          ELSE tail + k - WRITER_RING_SIZE
<1> DEFINE R == WRITER_RING_SIZE
<1>1. R \in Nat /\ R > 0 /\ tail \in 0 .. R - 1
  BY RingAssumption DEF Slots
<1>2. CASE tail + k < R
  BY <1>1, <1>2 DEF Place
<1>3. CASE tail + k >= R
  <2>1. tail + k = R + (tail + k - R) /\ tail + k - R \in 0 .. R - 1
    BY <1>1, <1>3
  <2> QED
    BY <1>1, <1>3, <2>1 DEF Place
<1> QED
  BY <1>1, <1>2, <1>3

(* Different places are different slots, and advancing tail moves every    *)
(* place one slot nearer.                                                  *)
LEMMA Places ==
  ASSUME NEW tail \in Slots
  PROVE  /\ Place(tail, 0) = tail
         /\ \A k \in Slots : Place(tail, k) \in Slots
         /\ \A j, k \in Slots : Place(tail, j) = Place(tail, k) => j = k
         /\ Advanced(tail) \in Slots
         /\ \A k \in Slots : Place(Advanced(tail), k) = Place(tail, k + 1)
         /\ \A k \in Slots : Advanced(Place(tail, k)) = Place(tail, k + 1)
         /\ Place(tail, WRITER_RING_SIZE) = tail
<1>1. WRITER_RING_SIZE \in Nat /\ WRITER_RING_SIZE > 0
  BY RingAssumption
<1>2. Place(tail, 0) = tail /\ Place(tail, WRITER_RING_SIZE) = tail
  BY <1>1, PlaceWraps DEF Slots
<1>3. ASSUME NEW j \in Slots, NEW k \in Slots
      PROVE  /\ Place(tail, k) \in Slots
             /\ Place(tail, j) = Place(tail, k) => j = k
  <2>1. j \in 0 .. WRITER_RING_SIZE /\ k \in 0 .. WRITER_RING_SIZE
    BY <1>1 DEF Slots
  <2> QED
    BY <1>1, <2>1, PlaceWraps DEF Slots
<1>4. ASSUME NEW slot \in Slots
      PROVE  Advanced(slot) = IF slot + 1 < WRITER_RING_SIZE
                              THEN slot + 1 ELSE 0
  BY <1>1, PlaceWraps, 1 \in 0 .. WRITER_RING_SIZE DEF Slots, Advanced, Place
<1>5. Advanced(tail) \in Slots
  BY <1>1, <1>4 DEF Slots
<1>6. ASSUME NEW k \in Slots
      PROVE  /\ Place(Advanced(tail), k) = Place(tail, k + 1)
             /\ Advanced(Place(tail, k)) = Place(tail, k + 1)
  <2>1. k \in 0 .. WRITER_RING_SIZE /\ k + 1 \in 0 .. WRITER_RING_SIZE
    BY <1>1 DEF Slots
  <2>2. Place(tail, k) \in Slots
    BY <1>3
  <2>3. Place(tail, k + 1) = IF tail + (k + 1) < WRITER_RING_SIZE
                             THEN tail + (k + 1)
                             ELSE tail + (k + 1) - WRITER_RING_SIZE
    BY <2>1, PlaceWraps
  <2>4. Place(tail, k) = IF tail + k < WRITER_RING_SIZE
                         THEN tail + k
                         ELSE tail + k - WRITER_RING_SIZE
    BY <2>1, PlaceWraps
  <2>5. Advanced(Place(tail, k)) = Place(tail, k + 1)
    BY <1>1, <1>4, <2>2, <2>3, <2>4 DEF Slots
  <2>6. Place(Advanced(tail), k) = IF Advanced(tail) + k < WRITER_RING_SIZE
                                   THEN Advanced(tail) + k
                                   ELSE Advanced(tail) + k - WRITER_RING_SIZE
    BY <1>5, <2>1, PlaceWraps
  <2>7. Place(Advanced(tail), k) = Place(tail, k + 1)
    BY <1>1, <1>4, <2>3, <2>6 DEF Slots
  <2> QED
    BY <2>5, <2>7
<1> QED
  BY <1>2, <1>3, <1>5, <1>6

-----------------------------------------------------------------------------
(* The ring, with its ends at head and tail, is a queue of the n threads   *)
(* of S, each of them once.                                                *)
Queue(S, n, ring, head, tail) ==
  /\ S = {ring[Place(tail, k)] : k \in 0 .. n - 1}
  /\ head = Place(tail, n)
  /\ \A j, k \in 0 .. n - 1 :
       ring[Place(tail, j)] = ring[Place(tail, k)] => j = k

(* A thread that arrives and stays goes behind the others.                 *)
LEMMA Arrive ==
  ASSUME NEW S, NEW n \in Nat, n < WRITER_RING_SIZE,
         NEW ring \in [Slots -> Threads \cup {NoThread}],
         NEW head, NEW tail \in Slots, Queue(S, n, ring, head, tail),
         NEW t \in Threads, t \notin S,
         NEW filled, \A slot \in Slots :
                       filled[slot] = IF slot = head THEN t ELSE ring[slot]
  PROVE  Queue(S \cup {t}, n + 1, filled, Advanced(head), tail)
<1>1. n \in Slots /\ 0 .. n \subseteq Slots
  BY RingAssumption DEF Slots
<1>2. head = Place(tail, n) /\ head \in Slots
  BY <1>1, Places DEF Queue
<1>3. ASSUME NEW k \in 0 .. n
      PROVE  filled[Place(tail, k)] =
                IF k < n THEN ring[Place(tail, k)] ELSE t
  <2>1. Place(tail, k) \in Slots /\ (Place(tail, k) = head <=> k = n)
    BY <1>1, <1>2, Places
  <2> QED
    BY <1>2, <2>1
<1>4. S \cup {t} = {filled[Place(tail, k)] : k \in 0 .. n}
  <2>1. S = {filled[Place(tail, k)] : k \in 0 .. n - 1}
    BY <1>3 DEF Queue
  <2>2. 0 .. n = (0 .. n - 1) \cup {n} /\ filled[Place(tail, n)] = t
    BY <1>3
  <2> QED
    BY <2>1, <2>2
<1>5. Advanced(head) = Place(tail, n + 1)
  BY <1>1, <1>2, Places
<1>6. \A j, k \in 0 .. n :
        filled[Place(tail, j)] = filled[Place(tail, k)] => j = k
  <2>1. \A k \in 0 .. n - 1 : ring[Place(tail, k)] /= t
    BY DEF Queue
  <2> QED
    BY <1>3, <2>1 DEF Queue
<1>7. n + 1 - 1 = n
  OBVIOUS
<1> QED
  BY <1>3, <1>4, <1>5, <1>6, <1>7 DEF Queue

(* The thread at tail leaves and the others move up by one.                *)
LEMMA Leave ==
  ASSUME NEW S, NEW n \in 1 .. WRITER_RING_SIZE, NEW ring, NEW head,
         NEW tail \in Slots, Queue(S, n, ring, head, tail),
         NEW t, ring[tail] = t
  PROVE  /\ t \in S
         /\ Queue(S \ {t}, n - 1, ring, head, Advanced(tail))
         /\ \A k \in 0 .. n - 2 :
              ring[Place(Advanced(tail), k)] = ring[Place(tail, k + 1)]
<1>1. 0 .. n - 1 \subseteq Slots
  BY RingAssumption DEF Slots
<1>2. \A k \in 0 .. n - 1 : Place(Advanced(tail), k) = Place(tail, k + 1)
  BY <1>1, Places
<1>3. ring[Place(tail, 0)] = t
  BY Places
<1>4. t \in S
  BY <1>3 DEF Queue
<1>5. \A k \in 0 .. n - 2 :
        ring[Place(Advanced(tail), k)] = ring[Place(tail, k + 1)]
  BY <1>2
<1>6. \A k \in 1 .. n - 1 : ring[Place(tail, k)] /= t
  BY <1>3 DEF Queue
<1>7. S \ {t} = {ring[Place(tail, k)] : k \in 1 .. n - 1}
  <2>1. 0 .. n - 1 = {0} \cup (1 .. n - 1)
    OBVIOUS
  <2> QED
    BY <1>3, <1>6, <2>1 DEF Queue
<1>8. S \ {t} = {ring[Place(Advanced(tail), k)] : k \in 0 .. n - 2}
  <2>1. ASSUME NEW k \in 0 .. n - 2
        PROVE  ring[Place(Advanced(tail), k)] \in S \ {t}
    BY <1>5, <1>7, k + 1 \in 1 .. n - 1
  <2>2. ASSUME NEW u \in S \ {t}
        PROVE  \E k \in 0 .. n - 2 : u = ring[Place(Advanced(tail), k)]
    <3>1. PICK k \in 1 .. n - 1 : u = ring[Place(tail, k)]
      BY <1>7
    <3>2. k - 1 \in 0 .. n - 2 /\ (k - 1) + 1 = k
      OBVIOUS
    <3> QED
      BY <1>5, <3>1, <3>2
  <2> QED
    BY <2>1, <2>2
<1>9. head = Place(Advanced(tail), n - 1)
  <2>1. n - 1 \in 0 .. n - 1 /\ (n - 1) + 1 = n
    OBVIOUS
  <2> QED
    BY <1>2, <2>1 DEF Queue
<1>10. \A j, k \in 0 .. n - 2 :
         ring[Place(Advanced(tail), j)] = ring[Place(Advanced(tail), k)]
           => j = k
  <2>1. ASSUME NEW j \in 0 .. n - 2, NEW k \in 0 .. n - 2,
               ring[Place(tail, j + 1)] = ring[Place(tail, k + 1)]
        PROVE  j = k
    <3>1. j + 1 \in 0 .. n - 1 /\ k + 1 \in 0 .. n - 1
      OBVIOUS
    <3>2. j + 1 = k + 1
      BY <2>1, <3>1 DEF Queue
    <3> QED
      BY <3>2
  <2> QED
    BY <1>5, <2>1
<1>11. (n - 1) - 1 = n - 2
  OBVIOUS
<1> QED
  BY <1>4, <1>5, <1>8, <1>9, <1>10, <1>11 DEF Queue

(* An empty queue stays one wherever its two ends meet.                    *)
LEMMA EmptyQueue ==
  ASSUME NEW ring, NEW tail \in Slots
  PROVE  Queue({}, 0, ring, tail, tail)
<1>1. 0 .. 0 - 1 = {} /\ Place(tail, 0) = tail
  BY Places
<1> QED
  BY <1>1 DEF Queue

(* With a slot left, head meets tail only when the queue is empty.         *)
LEMMA HeadMeetsTail ==
  ASSUME NEW S, NEW n \in Nat, n < WRITER_RING_SIZE, NEW ring, NEW head,
         NEW tail \in Slots, Queue(S, n, ring, head, tail)
  PROVE  head = tail <=> n = 0
<1>1. n \in Slots /\ 0 \in Slots
  BY RingAssumption DEF Slots
<1> QED
  BY <1>1, Places DEF Queue

-----------------------------------------------------------------------------
Pending == In(PendingWrite)

(* The ring holds the pending writers in the order of their arrival.       *)
RingQueue ==
  Queue(Pending, PendingCount, writer_ring, writer_ring_head,
        writer_ring_tail)

(* At a free lock the oldest pending writer is awake.                      *)
OldestAwake ==
  read_count = 0 /\ write_count = 0 /\ Pending /= {}
    => \E t \in In({"wawake"}) : writer_ring[writer_ring_tail] = t

(* The inductive invariant: exact counters as before, since the release    *)
(* functions decide by them whom to wake; the ring as a queue, since head  *)
(* and tail decide whether they wake a writer; and the oldest one awake.   *)
RingInv == Inv /\ RingQueue /\ OldestAwake

(* The ring has room: a thread that is not waiting for writing leaves a    *)
(* slot over.                                                              *)
LEMMA RoomForPending ==
  ASSUME RingFits
  PROVE  /\ IsFiniteSet(Pending)
         /\ PendingCount \in Nat
         /\ PendingCount <= WRITER_RING_SIZE
         /\ PendingCount = 0 <=> Pending = {}
         /\ \A t \in Threads : t \notin Pending
                => PendingCount < WRITER_RING_SIZE
<1>1. Pending \subseteq Threads
  BY DEF Pending, In
<1>2. /\ IsFiniteSet(Pending)
      /\ PendingCount \in Nat
      /\ PendingCount = 0 <=> Pending = {}
  BY <1>1, ThreadsAssumption, FS_Subset, FS_EmptySet, FS_CardinalityType
     DEF PendingCount, Pending
<1>3. PendingCount <= Cardinality(Threads)
  BY <1>1, ThreadsAssumption, FS_Subset DEF PendingCount, Pending
<1>4. Cardinality(Threads) \in Nat
  BY ThreadsAssumption, FS_CardinalityType
<1>5. ASSUME NEW t \in Threads, t \notin Pending
      PROVE  PendingCount < WRITER_RING_SIZE
  <2>1. Pending \subseteq Threads \ {t}
    BY <1>1, <1>5
  <2>2. /\ IsFiniteSet(Threads \ {t})
        /\ Cardinality(Threads \ {t}) = Cardinality(Threads) - 1
    BY ThreadsAssumption, FS_RemoveElement
  <2>3. PendingCount <= Cardinality(Threads) - 1
    BY <2>1, <2>2, FS_Subset DEF PendingCount, Pending
  <2> QED
    BY <1>2, <1>4, <2>3, RingAssumption DEF RingFits
<1> QED
  BY <1>2, <1>3, <1>4, <1>5, RingAssumption DEF RingFits

(* A broadcast leaves the pending writers pending.                         *)
LEMMA BroadcastKeepsPending ==
  ASSUME NEW f \in [Threads -> States], NEW t \in Threads
  PROVE  /\ BroadcastReaders(f)[t] \in PendingWrite <=> f[t] \in PendingWrite
         /\ BroadcastWriters(f)[t] \in PendingWrite <=> f[t] \in PendingWrite
  BY DEF BroadcastReaders, BroadcastWriters, States, PendingRead, PendingWrite

(* Who is pending after a step that leaves the ring alone.                 *)
LEMMA PendingStays ==
  ASSUME TypeOK, NEW t \in Threads,
         \/ ReadLock(t) \/ ReadRetry(t) \/ ReadUnlock(t)
         \/ WriteUnlock(t) \/ SpuriousWakeup(t)
  PROVE  Pending' = Pending /\ UNCHANGED ringVars
<1>1. CASE ReadLock(t) \/ ReadRetry(t) \/ SpuriousWakeup(t)
  BY <1>1 DEF ReadLock, ReadRetry, ReaderTest, SpuriousWakeup, TypeOK,
              Pending, In, PendingWrite
<1>2. ASSUME pc[t] \in {"reading", "writing"},
             NEW left, left = [pc EXCEPT ![t] = "idle"],
             \/ pc' = left
             \/ pc' = BroadcastReaders(left)
             \/ pc' = BroadcastWriters(left)
      PROVE  Pending' = Pending
  <2>1. left \in [Threads -> States]
    BY <1>2 DEF TypeOK, States
  <2>2. \A u \in Threads : pc'[u] \in PendingWrite <=> left[u] \in PendingWrite
    BY <1>2, <2>1, BroadcastKeepsPending
  <2>3. \A u \in Threads : pc[u] \in PendingWrite <=> left[u] \in PendingWrite
    BY <1>2 DEF TypeOK, PendingWrite
  <2> QED
    BY <2>2, <2>3 DEF Pending, In
<1>3. CASE ReadUnlock(t)
  BY <1>2, <1>3 DEF ReadUnlock, AfterReadUnlock
<1>4. CASE WriteUnlock(t)
  BY <1>2, <1>4 DEF WriteUnlock, AfterWriteUnlock
<1> QED
  BY <1>1, <1>3, <1>4 DEF ReadUnlock, WriteUnlock

(* A writer arrives and finds the lock taken, or others before it.         *)
LEMMA WriterArrives ==
  ASSUME RingFits, Inv, RingQueue, NEW t \in Threads, WriteLock(t),
         pc'[t] /= "writing"
  PROVE  /\ t \notin Pending /\ Pending' = Pending \cup {t}
         /\ RingQueue' /\ UNCHANGED <<read_count, write_count>>
         /\ pc' = [pc EXCEPT ![t] = "wasleep"]
         /\ ~MayWrite(t, writer_ring')
         /\ PendingQueue' = Append(PendingQueue, t)
<1> DEFINE filled == [writer_ring EXCEPT ![writer_ring_head] = t]
<1>1. /\ pc[t] = "idle" /\ writer_ring' = filled
      /\ writer_ring_head' = Advanced(writer_ring_head)
      /\ WriterTest(t, filled) /\ read_count' = read_count
  BY DEF WriteLock
<1>2. /\ pc' = [pc EXCEPT ![t] = "wasleep"] /\ ~MayWrite(t, filled)
      /\ writer_ring_tail' = writer_ring_tail /\ write_count' = write_count
  BY <1>1 DEF WriterTest, Inv, TypeOK
<1>3. t \notin Pending /\ Pending' = Pending \cup {t}
  BY <1>1, <1>2 DEF Inv, TypeOK, Pending, In, PendingWrite
<1>4. PICK n \in Nat : n = PendingCount
  BY RoomForPending
<1>5. n < WRITER_RING_SIZE /\ IsFiniteSet(Pending)
  BY <1>3, <1>4, RoomForPending
<1>6. PendingCount' = n + 1
  <2>1. Cardinality(Pending \cup {t}) = Cardinality(Pending) + 1
    BY <1>3, <1>5, FS_AddElement
  <2> QED
    BY <1>3, <1>4, <2>1 DEF PendingCount, Pending
<1>7. /\ Queue(Pending \cup {t}, n + 1, filled, Advanced(writer_ring_head),
               writer_ring_tail)
      /\ \A k \in 0 .. n : filled[Place(writer_ring_tail, k)] =
             IF k < n THEN writer_ring[Place(writer_ring_tail, k)] ELSE t
  <2>1. Queue(Pending, n, writer_ring, writer_ring_head, writer_ring_tail)
    BY <1>4 DEF RingQueue
  <2>2. \A slot \in Slots : filled[slot] =
          IF slot = writer_ring_head THEN t ELSE writer_ring[slot]
    BY DEF Inv, TypeOK
  <2>3. /\ writer_ring \in [Slots -> Threads \cup {NoThread}]
        /\ writer_ring_tail \in Slots
    BY DEF Inv, TypeOK
  <2> HIDE DEF filled
  <2>4. \A S, ring, head, tail, new, u :
          /\ Queue(S, n, ring, head, tail)
          /\ ring \in [Slots -> Threads \cup {NoThread}]
          /\ tail \in Slots /\ u \in Threads /\ u \notin S
          /\ \A slot \in Slots :
               new[slot] = IF slot = head THEN u ELSE ring[slot]
          => Queue(S \cup {u}, n + 1, new, Advanced(head), tail)
    BY <1>5, Arrive
  <2>5. Queue(Pending \cup {t}, n + 1, filled, Advanced(writer_ring_head),
              writer_ring_tail)
    BY <1>3, <2>1, <2>2, <2>3, <2>4
  <2>6. ASSUME NEW k \in 0 .. n
        PROVE  filled[Place(writer_ring_tail, k)] =
                 IF k < n THEN writer_ring[Place(writer_ring_tail, k)] ELSE t
    <3>1. k \in Slots /\ n \in Slots
      BY <1>5, RingAssumption DEF Slots
    <3>2. /\ writer_ring_head = Place(writer_ring_tail, n)
          /\ Place(writer_ring_tail, k) \in Slots
          /\ Place(writer_ring_tail, k) = Place(writer_ring_tail, n) => k = n
      BY <2>1, <2>3, <3>1, Places DEF Queue
    <3> QED
      BY <2>2, <3>2
  <2> QED
    BY <2>5, <2>6
<1>8. RingQueue'
  BY <1>1, <1>2, <1>3, <1>6, <1>7 DEF RingQueue
<1>9. PendingQueue' = Append(PendingQueue, t)
  <2>1. PendingQueue =
          [i \in 1 .. n |-> writer_ring[Place(writer_ring_tail, i - 1)]]
    BY <1>4 DEF PendingQueue, Ahead, Place
  <2>2. PendingQueue' =
          [i \in 1 .. n + 1 |-> filled[Place(writer_ring_tail, i - 1)]]
    BY <1>1, <1>2, <1>6 DEF PendingQueue, Ahead, Place
  <2>3. ASSUME NEW i \in 1 .. n + 1
        PROVE  filled[Place(writer_ring_tail, i - 1)] =
                 IF i < n + 1 THEN writer_ring[Place(writer_ring_tail, i - 1)]
                 ELSE t
    <3>1. i - 1 \in 0 .. n /\ (i - 1 < n <=> i < n + 1)
      BY <1>5
    <3> QED
      BY <1>7, <3>1
  <2> QED
    BY <1>5, <2>1, <2>2, <2>3
<1> QED
  BY <1>1, <1>2, <1>3, <1>8, <1>9

(* A writer arrives and goes in at once, through an empty ring.            *)
LEMMA WriterPasses ==
  ASSUME RingFits, Inv, RingQueue, NEW t \in Threads, WriteLock(t),
         pc'[t] = "writing"
  PROVE  /\ Pending = {} /\ Pending' = {} /\ RingQueue'
         /\ MayWrite(t, writer_ring') /\ read_count' = read_count
         /\ pc' = [pc EXCEPT ![t] = "writing"] /\ write_count' = write_count + 1
         /\ PendingQueue = <<>> /\ PendingQueue' = <<>>
<1> DEFINE filled == [writer_ring EXCEPT ![writer_ring_head] = t]
           tail == writer_ring_tail
<1>1. /\ pc[t] = "idle" /\ writer_ring' = filled
      /\ writer_ring_head' = Advanced(writer_ring_head)
      /\ WriterTest(t, filled) /\ read_count' = read_count
  BY DEF WriteLock
<1>2. /\ pc' = [pc EXCEPT ![t] = "writing"] /\ MayWrite(t, filled)
      /\ writer_ring_tail' = Advanced(tail) /\ write_count' = write_count + 1
  BY <1>1 DEF WriterTest, Inv, TypeOK
<1>3. t \notin Pending /\ Pending' = Pending
  BY <1>1, <1>2 DEF Inv, TypeOK, Pending, In, PendingWrite
<1>4. PICK n \in Nat : n = PendingCount
  BY RoomForPending
<1>5. /\ n < WRITER_RING_SIZE /\ (n = 0 <=> Pending = {})
      /\ Queue(Pending, n, writer_ring, writer_ring_head, tail)
      /\ tail \in Slots /\ Place(tail, 0) = tail
  BY <1>3, <1>4, RoomForPending, Places DEF RingQueue, Inv, TypeOK
<1>6. n = 0
  <2>1. CASE writer_ring_head = tail
    BY <1>5, <2>1, HeadMeetsTail
  <2>2. CASE writer_ring_head /= tail
    <3>1. writer_ring[tail] = t
      BY <1>2, <2>2 DEF MayWrite, Inv, TypeOK
    <3> QED
      BY <1>3, <1>5, <3>1 DEF Queue
  <2> QED
    BY <2>1, <2>2
<1>7. Pending = {} /\ writer_ring_head = tail /\ Advanced(tail) \in Slots
  BY <1>5, <1>6, HeadMeetsTail, Places
<1>8. PendingCount' = n
  BY <1>3, <1>4 DEF PendingCount, Pending
<1>9. RingQueue'
  BY <1>1, <1>2, <1>3, <1>6, <1>7, <1>8, EmptyQueue DEF RingQueue
<1>10. PendingQueue = <<>> /\ PendingQueue' = <<>>
  BY <1>4, <1>6, <1>8 DEF PendingQueue
<1> QED
  BY <1>1, <1>2, <1>3, <1>7, <1>9, <1>10

(* The oldest pending writer goes in.                                      *)
LEMMA WriterEnters ==
  ASSUME RingFits, Inv, RingQueue, NEW t \in Threads, WriteRetry(t),
         pc'[t] = "writing"
  PROVE  /\ t \in Pending /\ Pending' = Pending \ {t} /\ RingQueue'
         /\ MayWrite(t, writer_ring) /\ read_count' = read_count
         /\ pc' = [pc EXCEPT ![t] = "writing"] /\ write_count' = write_count + 1
         /\ PendingQueue /= <<>> /\ t = Head(PendingQueue)
         /\ PendingQueue' = Tail(PendingQueue)
<1> DEFINE tail == writer_ring_tail
<1>1. /\ pc[t] = "wawake" /\ writer_ring' = writer_ring
      /\ writer_ring_head' = writer_ring_head
      /\ WriterTest(t, writer_ring) /\ read_count' = read_count
  BY DEF WriteRetry
<1>2. /\ pc' = [pc EXCEPT ![t] = "writing"] /\ MayWrite(t, writer_ring)
      /\ writer_ring_tail' = Advanced(tail) /\ write_count' = write_count + 1
  BY <1>1 DEF WriterTest, Inv, TypeOK
<1>3. t \in Pending /\ Pending' = Pending \ {t}
  BY <1>1, <1>2 DEF Inv, TypeOK, Pending, In, PendingWrite
<1>4. PICK n \in Nat : n = PendingCount
  BY RoomForPending
<1>5. /\ n \in 1 .. WRITER_RING_SIZE /\ IsFiniteSet(Pending)
      /\ Queue(Pending, n, writer_ring, writer_ring_head, tail)
      /\ tail \in Slots /\ Place(tail, 0) = tail
      /\ writer_ring[tail] = t
  BY <1>2, <1>3, <1>4, RingAssumption, RoomForPending, Places
     DEF RingQueue, Inv, TypeOK, MayWrite
<1>6. PendingCount' = n - 1
  <2>1. Cardinality(Pending \ {t}) = Cardinality(Pending) - 1
    BY <1>3, <1>5, FS_RemoveElement
  <2> QED
    BY <1>3, <1>4, <2>1 DEF PendingCount, Pending
<1>7. Queue(Pending \ {t}, n - 1, writer_ring, writer_ring_head, Advanced(tail))
  BY <1>5, Leave
<1>8. RingQueue'
  BY <1>1, <1>2, <1>3, <1>6, <1>7 DEF RingQueue
<1>9. /\ PendingQueue = [i \in 1 .. n |-> writer_ring[Place(tail, i - 1)]]
      /\ PendingQueue' =
           [i \in 1 .. n - 1 |-> writer_ring[Place(Advanced(tail), i - 1)]]
  BY <1>1, <1>2, <1>4, <1>6 DEF PendingQueue, Ahead, Place
<1>10. PendingQueue /= <<>> /\ t = Head(PendingQueue)
  BY <1>5, <1>9
<1>11. PendingQueue' = Tail(PendingQueue)
  <2>1. Tail(PendingQueue) =
          [i \in 1 .. n - 1 |-> writer_ring[Place(tail, (i + 1) - 1)]]
    BY <1>5, <1>9
  <2>2. ASSUME NEW i \in 1 .. n - 1
        PROVE  Place(Advanced(tail), i - 1) = Place(tail, (i + 1) - 1)
    <3>1. i - 1 \in Slots /\ (i - 1) + 1 = (i + 1) - 1
      BY <1>5, RingAssumption DEF Slots
    <3> QED
      BY <1>5, <3>1, Places
  <2> QED
    BY <1>9, <2>1, <2>2
<1> QED
  BY <1>1, <1>2, <1>3, <1>8, <1>10, <1>11

(* A woken writer whose turn has not come goes back to sleep.              *)
LEMMA WriterWaits ==
  ASSUME Inv, NEW t \in Threads, WriteRetry(t), pc'[t] /= "writing"
  PROVE  /\ Pending' = Pending
         /\ UNCHANGED <<read_count, write_count, ringVars>>
         /\ pc' = [pc EXCEPT ![t] = "wasleep"]
         /\ ~MayWrite(t, writer_ring)
<1>1. /\ pc' = [pc EXCEPT ![t] = "wasleep"] /\ ~MayWrite(t, writer_ring)
      /\ pc[t] = "wawake"
      /\ UNCHANGED <<read_count, write_count, ringVars>>
  BY DEF WriteRetry, WriterTest, ringVars, Inv, TypeOK
<1>2. Pending' = Pending
  BY <1>1 DEF Pending, In, PendingWrite, Inv, TypeOK
<1> QED
  BY <1>1, <1>2

(* A step that leaves the ring and the pending writers alone.              *)
LEMMA RingStays ==
  ASSUME RingQueue, Pending' = Pending, UNCHANGED ringVars
  PROVE  RingQueue' /\ PendingQueue' = PendingQueue
  BY DEF RingQueue, PendingCount, PendingQueue, Ahead, Pending, ringVars

LEMMA InitRingInv == Init => RingInv
<1> SUFFICES ASSUME Init PROVE RingInv
  OBVIOUS
<1>1. Pending = {}
  BY DEF Init, Pending, In, PendingWrite
<1>2. PendingCount = 0
  BY <1>1, FS_EmptySet DEF PendingCount, Pending
<1>3. 0 \in Slots
  BY RingAssumption DEF Slots
<1>4. RingQueue
  BY <1>1, <1>2, <1>3, EmptyQueue DEF RingQueue, Init
<1> QED
  BY <1>1, <1>4, InitInv DEF RingInv, OldestAwake

(* The ring stays the queue of the pending writers, and no step leaves the *)
(* oldest of them asleep at a free lock.  A release that frees the lock    *)
(* wakes them all, since head and tail differ; a writer that arrives or    *)
(* tests in vain finds somebody else at tail, who was awake before.        *)
LEMMA NextRingInv ==
  ASSUME RingFits
  PROVE  RingInv /\ [Next]_vars => RingInv'
<1> SUFFICES ASSUME RingInv, [Next]_vars PROVE RingInv'
  OBVIOUS
<1> USE DEF RingInv
<1>i. Inv'
  BY NextInv
<1>t. /\ pc \in [Threads -> States] /\ pc' \in [Threads -> States]
      /\ read_count \in Nat /\ write_count \in Nat
      /\ writer_ring_tail \in Slots
      /\ writer_ring \in [Slots -> Threads \cup {NoThread}]
  BY <1>i DEF Inv, TypeOK
<1>a. ASSUME NEW t \in Threads, ReadLock(t) \/ ReadRetry(t) PROVE RingInv'
  <2>1. RingQueue'
    BY <1>a, PendingStays, RingStays DEF Inv
  <2>2. t \in Readers'
    BY <1>a, <1>t DEF ReadLock, ReadRetry, ReaderTest, Readers, In, PendingRead
  <2>3. read_count' /= 0
    <3>1. IsFiniteSet(Readers') /\ Readers' /= {}
      BY <2>2, ThreadsAssumption, FS_Subset DEF Readers, In
    <3> QED
      BY <1>i, <3>1, FS_EmptySet DEF Inv, CountsExact
  <2> QED
    BY <1>i, <2>1, <2>3 DEF OldestAwake
<1>b. ASSUME NEW t \in Threads, ReadUnlock(t) \/ WriteUnlock(t) PROVE RingInv'
  <2>1. Pending' = Pending /\ RingQueue' /\ UNCHANGED ringVars
    BY <1>b, PendingStays, RingStays DEF Inv
  <2>2. t \notin Pending
    BY <1>b DEF ReadUnlock, WriteUnlock, Pending, In, PendingWrite
  <2>3. writer_ring_head /= writer_ring_tail \/ Pending = {}
    BY <1>t, <2>2, HeadMeetsTail, RoomForPending DEF RingQueue
  <2>4. ASSUME read_count' = 0, write_count' = 0, Pending /= {}
        PROVE  \E u \in In({"wawake"})' : writer_ring[writer_ring_tail] = u
    <3> DEFINE left == [pc EXCEPT ![t] = "idle"]
    <3>1. pc' = BroadcastWriters(left)
      BY <1>b, <1>t, <2>3, <2>4 DEF ReadUnlock, WriteUnlock, AfterReadUnlock,
                              AfterWriteUnlock
    <3>2. \A u \in Pending : pc'[u] = "wawake"
      <4>1. \A u \in Pending : u \in Threads /\ left[u] \in PendingWrite
        BY <1>t, <2>2 DEF Pending, In
      <4> QED
        BY <3>1, <4>1 DEF BroadcastWriters, PendingWrite
    <3>3. writer_ring[writer_ring_tail] \in Pending
      <4>1. PICK n \in Nat : n = PendingCount
        BY RoomForPending
      <4>2. n > 0 /\ Queue(Pending, n, writer_ring, writer_ring_head,
                           writer_ring_tail)
        BY <2>4, <4>1, RoomForPending DEF RingQueue
      <4>3. Place(writer_ring_tail, 0) = writer_ring_tail
        BY <1>t, Places
      <4> QED
        BY <4>2, <4>3 DEF Queue
    <3> QED
      BY <3>2, <3>3 DEF Pending, In
  <2> QED
    BY <1>i, <2>1, <2>4 DEF OldestAwake, ringVars
<1>c. ASSUME NEW t \in Threads, WriteLock(t) \/ WriteRetry(t),
             pc'[t] = "writing"
      PROVE  RingInv'
  <2>1. RingQueue' /\ write_count' /= 0
    BY <1>c, <1>t, WriterPasses, WriterEnters
  <2> QED
    BY <1>i, <2>1 DEF OldestAwake
<1>d. ASSUME NEW t \in Threads, WriteLock(t), pc'[t] /= "writing"
      PROVE  RingInv'
  <2>1. /\ RingQueue' /\ UNCHANGED <<read_count, write_count>>
        /\ pc' = [pc EXCEPT ![t] = "wasleep"] /\ t \notin Pending
        /\ ~MayWrite(t, writer_ring')
    BY <1>d, WriterArrives
  <2>2. /\ writer_ring_tail' = writer_ring_tail
        /\ writer_ring' = [writer_ring EXCEPT ![writer_ring_head] = t]
    BY <1>d, <1>t, <2>1 DEF WriteLock, WriterTest
  <2>3. ASSUME read_count = 0, write_count = 0
        PROVE  \E u \in In({"wawake"})' : writer_ring'[writer_ring_tail] = u
    <3>1. writer_ring_head /= writer_ring_tail
      BY <1>t, <2>1, <2>2, <2>3 DEF MayWrite
    <3>2. Pending /= {}
      BY <1>t, <2>1, <3>1, HeadMeetsTail, RoomForPending DEF RingQueue
    <3>3. PICK u \in In({"wawake"}) : writer_ring[writer_ring_tail] = u
      BY <2>3, <3>2 DEF OldestAwake
    <3>4. u \in In({"wawake"})'
      BY <1>t, <2>1, <3>3 DEF In, Pending, PendingWrite
    <3> QED
      BY <1>t, <2>2, <3>1, <3>3, <3>4
  <2> QED
    BY <1>i, <2>1, <2>2, <2>3 DEF OldestAwake
<1>e. ASSUME NEW t \in Threads, WriteRetry(t), pc'[t] /= "writing"
      PROVE  RingInv'
  <2>1. /\ UNCHANGED <<read_count, write_count, ringVars>> /\ RingQueue'
        /\ Pending' = Pending
        /\ pc' = [pc EXCEPT ![t] = "wasleep"] /\ ~MayWrite(t, writer_ring)
    BY <1>e, WriterWaits, RingStays
  <2>2. ASSUME read_count = 0, write_count = 0, Pending /= {}
        PROVE  \E u \in In({"wawake"})' : writer_ring[writer_ring_tail] = u
    <3>1. PICK u \in In({"wawake"}) : writer_ring[writer_ring_tail] = u
      BY <2>2 DEF OldestAwake
    <3>2. u /= t
      BY <2>1, <2>2, <3>1 DEF MayWrite
    <3> QED
      BY <1>t, <2>1, <3>1, <3>2 DEF In
  <2> QED
    BY <1>i, <2>1, <2>2 DEF OldestAwake, ringVars
<1>f. ASSUME NEW t \in Threads, SpuriousWakeup(t) PROVE RingInv'
  <2>1. /\ Pending' = Pending /\ RingQueue'
        /\ UNCHANGED <<read_count, write_count, ringVars>>
    BY <1>f, PendingStays, RingStays DEF SpuriousWakeup, Inv
  <2>2. In({"wawake"}) \subseteq In({"wawake"})'
    BY <1>f, <1>t DEF SpuriousWakeup, In
  <2> QED
    BY <1>i, <2>1, <2>2 DEF OldestAwake, ringVars
<1>g. CASE UNCHANGED vars
  <2>1. Pending' = Pending /\ UNCHANGED ringVars
    BY <1>g DEF vars, Pending, In
  <2>2. RingQueue'
    BY <2>1, RingStays
  <2> QED
    BY <1>g, <1>i, <2>1, <2>2 DEF OldestAwake, vars, ringVars, In
<1> QED
  BY <1>a, <1>b, <1>c, <1>d, <1>e, <1>f, <1>g DEF Next, Advance

(* Under the hypothesis the invariant holds in every reachable state.      *)
LEMMA AlwaysRingInv ==
  ASSUME RingFits
  PROVE  Spec => []RingInv
  BY InitRingInv, NextRingInv, PTL DEF Spec

(* No writer is lost in the ring and none sleeps beside a free lock, for   *)
(* any number of threads that the ring has slots for.                      *)
THEOREM WritersAreWoken ==
  ASSUME RingFits
  PROVE  Spec => []NoSleepingWriter
<1>1. RingInv => NoSleepingWriter
  BY DEF RingInv, RingQueue, OldestAwake, NoSleepingWriter, RingHoldsPending,
         Queue, Place, Ahead, Pending
<1> QED
  BY <1>1, AlwaysRingInv, PTL

-----------------------------------------------------------------------------
Inside == In({"reading"})
WaitingRead == In(PendingRead)

(* The members of the abstract queue are the pending writers.              *)
LEMMA QueueMembers ==
  ASSUME RingFits, Inv, RingQueue
  PROVE  /\ Abstract!Waiting = WaitingRead \cup Pending
         /\ Abstract!Idle = Threads \ (Inside \cup Writers
                                      \cup WaitingRead \cup Pending)
         /\ PendingQueue = <<>> <=> Pending = {}
<1>1. PICK n \in Nat : n = PendingCount
  BY RoomForPending
<1>2. /\ PendingQueue = [i \in 1 .. n |->
                          writer_ring[Place(writer_ring_tail, i - 1)]]
      /\ Pending = {writer_ring[Place(writer_ring_tail, k)] : k \in 0 .. n - 1}
  BY <1>1 DEF PendingQueue, Ahead, Place, RingQueue, Queue
<1>3. {PendingQueue[i] : i \in DOMAIN PendingQueue} = Pending
  <2>1. \A i \in 1 .. n : i - 1 \in 0 .. n - 1
    OBVIOUS
  <2>2. \A k \in 0 .. n - 1 : k + 1 \in 1 .. n /\ (k + 1) - 1 = k
    OBVIOUS
  <2>3. DOMAIN PendingQueue = 1 .. n
    BY <1>2
  <2>4. \A i \in 1 .. n : PendingQueue[i] \in Pending
    BY <1>2, <2>1
  <2>5. \A u \in Pending : \E i \in 1 .. n : PendingQueue[i] = u
    <3>1. ASSUME NEW k \in 0 .. n - 1
          PROVE  PendingQueue[k + 1] = writer_ring[Place(writer_ring_tail, k)]
      BY <1>2, <2>2
    <3> QED
      BY <1>2, <2>2, <3>1
  <2> QED
    BY <2>3, <2>4, <2>5
<1>4. PendingQueue = <<>> <=> Pending = {}
  <2>1. PendingQueue = <<>> <=> n = 0
    BY <1>2
  <2> QED
    BY <1>1, <2>1, RoomForPending
<1>5. Abstract!Waiting = WaitingRead \cup Pending
  BY <1>3 DEF Abstract!Waiting, WaitingRead
<1> QED
  BY <1>4, <1>5 DEF Abstract!Idle, Inside, Writers

(* Every critical section is a step of the abstract lock, or none.         *)
LEMMA NextImplements ==
  ASSUME RingFits, RingInv, RingInv', [Next]_vars
  PROVE  [Abstract!Next]_Abstract!vars
<1> USE DEF RingInv
<1>t. /\ pc \in [Threads -> States] /\ pc' \in [Threads -> States]
      /\ read_count \in Nat /\ write_count \in Nat
  BY DEF Inv, TypeOK
<1>w. write_count = 0 <=> Writers = {}
  BY CountersAndSets
<1>r. read_count = 0 <=> Inside = {} /\ WaitingRead = {}
  <2>1. Readers = Inside \cup WaitingRead
    BY DEF Readers, Inside, WaitingRead, In
  <2> QED
    BY <2>1, CountersAndSets
<1> DEFINE SameSets == /\ Inside' = Inside /\ WaitingRead' = WaitingRead
                       /\ Writers' = Writers
           SameQueue == PendingQueue' = PendingQueue
<1>a. ASSUME NEW t \in Threads, ReadLock(t) PROVE Abstract!RequestRead(t)
  <2>1. t \in Abstract!Idle
    BY <1>a, <1>t, QueueMembers DEF ReadLock, Inside, Writers, WaitingRead,
         Pending, In, PendingRead, PendingWrite
  <2>2. /\ Writers' = Writers
        /\ write_count = 0
             => Inside' = Inside \cup {t} /\ WaitingRead' = WaitingRead
        /\ write_count /= 0
             => WaitingRead' = WaitingRead \cup {t} /\ Inside' = Inside
    BY <1>a, <1>t DEF ReadLock, ReaderTest, Inside, Writers, WaitingRead, In,
         PendingRead
  <2>3. SameQueue
    BY <1>a, PendingStays, RingStays DEF Inv
  <2> QED
    BY <1>w, <2>1, <2>2, <2>3
       DEF Abstract!RequestRead, Inside, WaitingRead, Writers
<1>b. ASSUME NEW t \in Threads, ReadRetry(t)
      PROVE  Abstract!GrantRead(t) \/ UNCHANGED Abstract!vars
  <2>1. SameQueue
    BY <1>b, PendingStays, RingStays DEF Inv
  <2>2. CASE write_count > 0
    <3>1. SameSets
      BY <1>b, <1>t, <2>2 DEF ReadRetry, ReaderTest, Inside, Writers,
           WaitingRead, In, PendingRead
    <3> QED
      BY <2>1, <3>1 DEF Abstract!vars, Inside, WaitingRead, Writers
  <2>3. CASE write_count = 0
    <3>1. /\ t \in WaitingRead /\ Writers' = Writers
          /\ Inside' = Inside \cup {t} /\ WaitingRead' = WaitingRead \ {t}
      BY <1>b, <1>t, <2>3 DEF ReadRetry, ReaderTest, Inside, Writers,
           WaitingRead, In, PendingRead
    <3> QED
      BY <1>w, <2>1, <2>3, <3>1
         DEF Abstract!GrantRead, Inside, WaitingRead, Writers
  <2> QED
    BY <1>t, <2>2, <2>3
<1>c. ASSUME NEW t \in Threads, ReadUnlock(t) \/ WriteUnlock(t)
      PROVE  Abstract!ReleaseRead(t) \/ Abstract!ReleaseWrite(t)
  <2> DEFINE left == [pc EXCEPT ![t] = "idle"]
  <2>1. SameQueue
    BY <1>c, PendingStays, RingStays DEF Inv
  <2>2. left \in [Threads -> States]
    BY <1>t DEF States
  <2>3. \/ pc' = left \/ pc' = BroadcastReaders(left)
        \/ pc' = BroadcastWriters(left)
    BY <1>c DEF ReadUnlock, WriteUnlock, AfterReadUnlock, AfterWriteUnlock
  <2>4. \A u \in Threads :
          /\ pc'[u] = "writing" <=> left[u] = "writing"
          /\ pc'[u] = "reading" <=> left[u] = "reading"
          /\ pc'[u] \in PendingRead <=> left[u] \in PendingRead
    <3> HIDE DEF left
    <3> QED
      BY <2>2, <2>3, BroadcastKeeps
  <2>5. WaitingRead' = WaitingRead
    BY <1>c, <1>t, <2>4 DEF ReadUnlock, WriteUnlock, WaitingRead, In,
         PendingRead
  <2>6. CASE ReadUnlock(t)
    <3>1. t \in Inside /\ Inside' = Inside \ {t} /\ Writers' = Writers
      BY <1>t, <2>4, <2>6 DEF ReadUnlock, Inside, Writers, In
    <3> QED
      BY <2>1, <2>5, <3>1 DEF Abstract!ReleaseRead, Inside, WaitingRead,
           Writers
  <2>7. CASE WriteUnlock(t)
    <3>1. t \in Writers /\ Writers' = Writers \ {t} /\ Inside' = Inside
      BY <1>t, <2>4, <2>7 DEF WriteUnlock, Inside, Writers, In
    <3> QED
      BY <2>1, <2>5, <3>1 DEF Abstract!ReleaseWrite, Inside, WaitingRead,
           Writers
  <2> QED
    BY <1>c, <2>6, <2>7
<1>d. ASSUME NEW t \in Threads, WriteLock(t) PROVE Abstract!RequestWrite(t)
  <2>1. t \in Abstract!Idle
    BY <1>d, <1>t, QueueMembers DEF WriteLock, Inside, Writers, WaitingRead,
         Pending, In, PendingRead, PendingWrite
  <2>2. CASE pc'[t] = "writing"
    <3>1. /\ pc' = [pc EXCEPT ![t] = "writing"] /\ pc[t] = "idle"
          /\ PendingQueue = <<>> /\ PendingQueue' = <<>>
          /\ MayWrite(t, writer_ring')
      BY <1>d, <2>2, WriterPasses DEF WriteLock
    <3>2. Inside = {} /\ WaitingRead = {} /\ Writers = {}
      BY <1>r, <1>w, <3>1 DEF MayWrite
    <3>3. Inside' = Inside /\ WaitingRead' = WaitingRead /\ Writers' = {t}
      BY <1>t, <3>1, <3>2 DEF Inside, Writers, WaitingRead, In, PendingRead
    <3> QED
      BY <2>1, <3>1, <3>2, <3>3
         DEF Abstract!RequestWrite, Abstract!Free, Inside, WaitingRead, Writers
  <2>3. CASE pc'[t] /= "writing"
    <3>1. /\ pc' = [pc EXCEPT ![t] = "wasleep"] /\ pc[t] = "idle"
          /\ PendingQueue' = Append(PendingQueue, t)
          /\ ~MayWrite(t, writer_ring')
          /\ t \notin Pending
      BY <1>d, <2>3, WriterArrives DEF WriteLock
    <3>2. SameSets
      BY <1>t, <3>1 DEF Inside, Writers, WaitingRead, In, PendingRead
    <3>3. ~(Abstract!Free /\ PendingQueue = <<>>)
      <4>1. SUFFICES ASSUME read_count = 0, write_count = 0, Pending = {}
                     PROVE  FALSE
        BY <1>r, <1>w, QueueMembers
           DEF Abstract!Free, Inside, WaitingRead, Writers
      <4>2. writer_ring_head = writer_ring_tail
        BY <3>1, <4>1, HeadMeetsTail, RoomForPending DEF RingQueue, Inv, TypeOK
      <4>3. /\ writer_ring'[writer_ring_tail] = t
            /\ writer_ring_tail' = writer_ring_tail
        BY <1>d, <2>3, <4>2, <1>t DEF WriteLock, WriterTest, Inv, TypeOK
      <4> QED
        BY <3>1, <4>1, <4>3 DEF MayWrite
    <3> QED
      BY <2>1, <3>1, <3>2, <3>3
         DEF Abstract!RequestWrite, Inside, WaitingRead, Writers
  <2> QED
    BY <2>2, <2>3
<1>e. ASSUME NEW t \in Threads, WriteRetry(t)
      PROVE  Abstract!GrantWrite \/ UNCHANGED Abstract!vars
  <2>1. CASE pc'[t] = "writing"
    <3>1. /\ pc' = [pc EXCEPT ![t] = "writing"] /\ pc[t] = "wawake"
          /\ PendingQueue /= <<>> /\ t = Head(PendingQueue)
          /\ PendingQueue' = Tail(PendingQueue)
          /\ MayWrite(t, writer_ring)
      BY <1>e, <2>1, WriterEnters DEF WriteRetry
    <3>2. Inside = {} /\ WaitingRead = {} /\ Writers = {}
      BY <1>r, <1>w, <3>1 DEF MayWrite
    <3>3. Inside' = Inside /\ WaitingRead' = WaitingRead /\ Writers' = {t}
      BY <1>t, <3>1, <3>2 DEF Inside, Writers, WaitingRead, In, PendingRead
    <3> QED
      BY <3>1, <3>2, <3>3
         DEF Abstract!GrantWrite, Abstract!Free, Inside, WaitingRead, Writers
  <2>2. CASE pc'[t] /= "writing"
    <3>1. SameQueue /\ pc' = [pc EXCEPT ![t] = "wasleep"] /\ pc[t] = "wawake"
      BY <1>e, <2>2, WriterWaits, RingStays DEF WriteRetry
    <3>2. SameSets
      BY <1>t, <3>1 DEF Inside, Writers, WaitingRead, In, PendingRead
    <3> QED
      BY <3>1, <3>2 DEF Abstract!vars, Inside, WaitingRead, Writers
  <2> QED
    BY <2>1, <2>2
<1>f. ASSUME NEW t \in Threads, SpuriousWakeup(t) PROVE UNCHANGED Abstract!vars
  <2>1. SameQueue
    BY <1>f, PendingStays, RingStays DEF Inv
  <2>2. SameSets
    BY <1>f, <1>t DEF SpuriousWakeup, Inside, Writers, WaitingRead, In,
         PendingRead
  <2> QED
    BY <2>1, <2>2 DEF Abstract!vars, Inside, WaitingRead, Writers
<1>g. CASE UNCHANGED vars
  <2>1. SameQueue
    BY <1>g DEF vars, ringVars, PendingQueue, PendingCount, Ahead, In
  <2>2. SameSets
    BY <1>g DEF vars, Inside, Writers, WaitingRead, In
  <2> QED
    BY <2>1, <2>2 DEF Abstract!vars, Inside, WaitingRead, Writers
<1> QED
  BY <1>a, <1>b, <1>c, <1>d, <1>e, <1>f, <1>g
     DEF Next, Advance, Abstract!Next

(* rwlock.c implements the safety part of the abstract lock: mutual        *)
(* exclusion, reader priority and first-come-first-served writers, with    *)
(* counters, a ring and two condition variables in place of sets.          *)
THEOREM Implements ==
  ASSUME RingFits
  PROVE  Spec => Abstract!Spec
<1>1. Init => Abstract!Init
  <2> SUFFICES ASSUME Init PROVE Abstract!Init
    OBVIOUS
  <2>1. Inside = {} /\ WaitingRead = {} /\ Writers = {} /\ Pending = {}
    BY DEF Init, Inside, WaitingRead, Writers, Pending, In, PendingRead,
           PendingWrite
  <2>2. PendingQueue = <<>>
    BY <2>1, InitRingInv, QueueMembers DEF RingInv
  <2> QED
    BY <2>1, <2>2 DEF Abstract!Init, Inside, WaitingRead, Writers
<1>2. RingInv /\ RingInv' /\ [Next]_vars => [Abstract!Next]_Abstract!vars
  BY NextImplements
<1> QED
  BY <1>1, <1>2, AlwaysRingInv, PTL DEF Spec, Abstract!Spec
=============================================================================
