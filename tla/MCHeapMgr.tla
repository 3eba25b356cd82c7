----------------------------- MODULE MCHeapMgr ------------------------------
(* The two heap managers of lab3; an execution is one of the one that was  *)
(* linked to the client.                                                   *)
EXTENDS HeapMgr

CONSTANT MaxBaseHeap

ASSUME BaseSizeAssumption == MaxBaseHeap \in Nat

VARIABLES linked, heap, asked, blocks
baseVars == <<heap, asked, blocks>>

Base == INSTANCE HeapBase WITH held <- blocks, MaxHeap <- MaxBaseHeap

EitherInit == linked \in {"heapmgr1", "heapmgrbase"} /\ Init /\ Base!Init
EitherNext ==
  \/ linked = "heapmgr1" /\ Next /\ UNCHANGED <<linked, baseVars>>
  \/ linked = "heapmgrbase" /\ Base!Next /\ UNCHANGED <<linked, vars>>
EitherSpec ==
  /\ EitherInit /\ [][EitherNext]_<<linked, vars, baseVars>>
  /\ WF_vars(linked = "heapmgr1" /\ Continue /\ UNCHANGED <<linked, baseVars>>)

(* heapmgrbase.c keeps its heap valid across any sequence of calls.        *)
BaseHeapValid == Base!HeapValid

(* heapmgrbase.c is an allocator.                                          *)
BaseIsAllocator == Base!IsAllocator
=============================================================================
