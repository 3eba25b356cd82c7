\* More threads than ring slots, as `server -t` allows.
SPECIFICATION Spec
CONSTANTS
  Threads = {t1, t2, t3}
  WRITER_RING_SIZE = 2
  NoThread = NoThread
INVARIANT
  FreeLockWakesAWriter
