\* Three threads on one lock, with the smallest ring that is safe for them.
SPECIFICATION FairSpec
CONSTANTS
  Threads = {t1, t2, t3}
  WRITER_RING_SIZE = 3
  NoThread = NoThread
INVARIANTS
  MutualExclusion
  CountsExact
  NoSleepingReader
  NoSleepingWriter
PROPERTIES
  ReaderPriority
  ImplementsRWLock
