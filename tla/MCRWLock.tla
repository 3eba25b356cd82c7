------------------------------ MODULE MCRWLock ------------------------------
(* Small instances of RWLock for TLC, and its refinement of RWLockSpec.    *)
EXTENDS RWLock, Sequences

(* The pending writers in ring order: the abstract queue.                  *)
PendingQueue == [i \in 1 .. PendingCount |-> Ahead(i - 1)]

Abstract == INSTANCE RWLockSpec WITH
  reading      <- In({"reading"}),
  waitingRead  <- In(PendingRead),
  writing      <- In({"writing"}),
  waitingWrite <- PendingQueue

(* rwlock.c implements the abstract lock: every critical section is one    *)
(* abstract step or none, and a thread whose turn has come is not left     *)
(* asleep for ever (the fairness of the abstract specification).           *)
ImplementsRWLock == Abstract!FairSpec

(* The unlock hint of the readme: when the reader counter reaches zero the *)
(* oldest thread waiting for writing is signalled, so a free lock never    *)
(* leaves every pending writer asleep.                                     *)
FreeLockWakesAWriter ==
  read_count = 0 /\ write_count = 0 /\ In(PendingWrite) /= {}
    => In({"wawake"}) /= {}
=============================================================================
