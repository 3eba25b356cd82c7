----------------------------- MODULE RWLockSpec -----------------------------
(***************************************************************************)
(* What lab5's read-write lock promises, with no condition variables, no   *)
(* counters and no ring: a set of readers inside, a set of readers that    *)
(* wait, a queue of writers that wait, and at most one writer inside.      *)
(* There is no sleeping here, so a thread whose turn has come goes in: an  *)
(* implementation of FairSpec cannot lose a wake-up.                       *)
(***************************************************************************)
EXTENDS Sequences, FiniteSets, Integers

CONSTANT Threads

VARIABLES reading,       \* the readers inside
          waitingRead,   \* the readers that wait
          writing,       \* the writer inside, as a set of at most one
          waitingWrite   \* the writers that wait, oldest first

vars == <<reading, waitingRead, writing, waitingWrite>>

Waiting == waitingRead \union {waitingWrite[i] : i \in DOMAIN waitingWrite}
Idle == Threads \ (reading \union writing \union Waiting)

Init ==
  /\ reading = {}
  /\ waitingRead = {}
  /\ writing = {}
  /\ waitingWrite = <<>>

(* A reader only waits for a writer that is inside.                        *)
RequestRead(t) ==
  /\ t \in Idle
  /\ IF writing = {}
     THEN reading' = reading \union {t} /\ UNCHANGED waitingRead
     ELSE waitingRead' = waitingRead \union {t} /\ UNCHANGED reading
  /\ UNCHANGED <<writing, waitingWrite>>

GrantRead(t) ==
  /\ t \in waitingRead
  /\ writing = {}
  /\ reading' = reading \union {t}
  /\ waitingRead' = waitingRead \ {t}
  /\ UNCHANGED <<writing, waitingWrite>>

ReleaseRead(t) ==
  /\ t \in reading
  /\ reading' = reading \ {t}
  /\ UNCHANGED <<waitingRead, writing, waitingWrite>>

(* Nobody is inside and no reader waits.                                   *)
Free == reading = {} /\ waitingRead = {} /\ writing = {}

RequestWrite(t) ==
  /\ t \in Idle
  /\ IF Free /\ waitingWrite = <<>>
     THEN writing' = {t} /\ UNCHANGED waitingWrite
     ELSE waitingWrite' = Append(waitingWrite, t) /\ UNCHANGED writing
  /\ UNCHANGED <<reading, waitingRead>>

(* Only the oldest writer, and only when no reader is inside or waits.     *)
GrantWrite ==
  /\ Free
  /\ waitingWrite /= <<>>
  /\ writing' = {Head(waitingWrite)}
  /\ waitingWrite' = Tail(waitingWrite)
  /\ UNCHANGED <<reading, waitingRead>>

ReleaseWrite(t) ==
  /\ t \in writing
  /\ writing' = writing \ {t}
  /\ UNCHANGED <<reading, waitingRead, waitingWrite>>

Next ==
  \/ \E t \in Threads : \/ RequestRead(t) \/ GrantRead(t) \/ ReleaseRead(t)
                        \/ RequestWrite(t) \/ ReleaseWrite(t)
  \/ GrantWrite

Spec == Init /\ [][Next]_vars

FairSpec ==
  /\ Spec
  /\ WF_vars(GrantWrite)
  /\ \A t \in Threads :
       WF_vars(GrantRead(t)) /\ WF_vars(ReleaseRead(t) \/ ReleaseWrite(t))
=============================================================================
