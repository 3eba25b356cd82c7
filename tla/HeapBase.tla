------------------------------ MODULE HeapBase -------------------------------
(***************************************************************************)
(* The heap manager that lab3 starts from: heapmgrbase.c and chunkbase.c.  *)
(* A chunk is a header unit and its units of data, without a footer; a     *)
(* block that is at most one unit larger than the request is given out     *)
(* whole.                                                                  *)
(*                                                                         *)
(* Here a call is two steps, the request and all the work for it: nothing  *)
(* can come between the steps of one thread (HeapMgr models heapmgr1.c     *)
(* loop turn by loop turn).  The functions of the code are operators from  *)
(* heaps to heaps.  Addresses count units from g_heap_start.               *)
(***************************************************************************)
EXTENDS Integers

CONSTANTS MEMALLOC_MIN,  \* units the heap grows by at least
          MaxHeap,       \* units the system can give
          MaxRequest,    \* the largest request, in units
          Null

VARIABLES heap,  \* g_free_head, g_heap_end and the headers
          asked, \* units the client has asked for, 0 for none
          held   \* the blocks the client holds: [at, units]

vars == <<heap, asked, held>>

Memory == 0 .. MaxHeap - 1
NoHeader == [status |-> "none", units |-> 0, next |-> Null]

Init ==
  /\ heap = [head |-> Null, end |-> 0, at |-> [a \in Memory |-> NoHeader]]
  /\ asked = 0 /\ held = {}

next_adjacent(h, c) ==
  LET n == c + h.at[c].units + 1 IN IF n >= h.end THEN Null ELSE n
IsFree(h, c) == c /= Null /\ h.at[c].status = "free"

merge_chunk(h, c1, c2) ==
  [h EXCEPT !.at[c1].units = @ + h.at[c2].units + 1,
            !.at[c1].next = h.at[c2].next,
            !.at[c2] = NoHeader]

SplitAt(h, c, units) == c + h.at[c].units - units
split_chunk(h, c, units) ==
  [h EXCEPT !.at[c].units = @ - units - 1,
            !.at[SplitAt(h, c, units)] =
               [status |-> "in_use", units |-> units, next |-> h.at[c].next]]

insert_chunk(h, c) ==
  LET freed == [h EXCEPT !.at[c].status = "free", !.at[c].next = h.head,
                         !.head = c]
  IN  IF h.head /= Null /\ next_adjacent(freed, c) = h.head
      THEN merge_chunk(freed, c, h.head) ELSE freed

(* c, or what it is merged into.                                           *)
Joined(h, e, c) == IF next_adjacent(h, e) = c THEN e ELSE c
(* Mutant: the chunk above is looked for before c is merged with e.        *)
insert_chunk_afterMutUpperFirst(h, e, c) ==
  LET linked == [h EXCEPT !.at[c].status = "free", !.at[c].next = h.at[e].next,
                          !.at[e].next = c]
      n == next_adjacent(linked, c)
  IN  IF Joined(h, e, c) = e THEN merge_chunk(linked, e, c)
      ELSE IF IsFree(linked, n) THEN merge_chunk(linked, c, n) ELSE linked
insert_chunk_after(h, e, c) ==
  LET linked == [h EXCEPT !.at[c].status = "free", !.at[c].next = h.at[e].next,
                          !.at[e].next = c]
      lower == IF Joined(h, e, c) = e THEN merge_chunk(linked, e, c) ELSE linked
      n == next_adjacent(lower, Joined(h, e, c))
  IN  IF IsFree(lower, n) THEN merge_chunk(lower, Joined(h, e, c), n) ELSE lower

remove_chunk_from_list(h, prev, c) ==
  LET taken == [h EXCEPT !.at[c].status = "in_use", !.at[c].next = Null]
  IN  IF prev = Null THEN [taken EXCEPT !.head = h.at[c].next]
      ELSE [taken EXCEPT !.at[prev].next = h.at[c].next]

-----------------------------------------------------------------------------
(* The loops over the free list: at[n] is its n-th chunk, at[n - 1] then   *)
(* is prev.                                                                *)
FreeList(h) ==
  LET at[n \in 0 .. MaxHeap + 1] ==
        IF n = 0 THEN Null
        ELSE IF n = 1 THEN h.head
        ELSE IF at[n - 1] = Null THEN Null
        ELSE h.at[at[n - 1]].next
  IN  at
FirstPlace(h, wanted) ==
  CHOOSE n \in 1 .. MaxHeap + 1 :
    /\ FreeList(h)[n] = Null \/ FreeList(h)[n] \in wanted
    /\ \A m \in 1 .. n - 1 : FreeList(h)[m] /= Null /\ FreeList(h)[m] \notin wanted

(* A chunk on the list after prev is used for the request.                 *)
Take(h, prev, c) ==
  IF h.at[c].units > asked + 1
  THEN [heap |-> split_chunk(h, c, asked), chunk |-> SplitAt(h, c, asked)]
  ELSE [heap |-> remove_chunk_from_list(h, prev, c), chunk |-> c]

(* The client gets the data of the chunk.                                  *)
Give(taken) ==
  /\ heap' = taken.heap
  /\ held' = held \union {[at |-> taken.chunk + 1, units |-> asked]}
  /\ asked' = 0

Malloc ==
  /\ asked = 0 /\ asked' \in 1 .. MaxRequest
  /\ UNCHANGED <<heap, held>>

(* Mutant: the comparison is reversed.                                     *)
FitsMutReversed(c) == heap.at[c].units <= asked
Fits(c) == heap.at[c].units >= asked
Place == FirstPlace(heap, {c \in Memory : Fits(c)})

TakeFree ==
  /\ asked > 0 /\ FreeList(heap)[Place] /= Null
  /\ Give(Take(heap, FreeList(heap)[Place - 1], FreeList(heap)[Place]))

(* The heap with the new chunk, and with it on the list: prev, its last    *)
(* chunk, is Null if the list is empty.                                    *)
Growth == IF asked < MEMALLOC_MIN THEN MEMALLOC_MIN ELSE asked
Grown ==
  [heap EXCEPT !.end = @ + Growth + 1,
               !.at[heap.end] = [status |-> "in_use", units |-> Growth, next |-> Null]]
allocate_more_memory(prev) ==
  IF prev = Null THEN insert_chunk(Grown, heap.end)
  ELSE insert_chunk_after(Grown, prev, heap.end)

(* Place is behind the last chunk of the list.                             *)
TakeNew ==
  /\ asked > 0 /\ FreeList(heap)[Place] = Null
  /\ heap.end + Growth + 1 <= MaxHeap
  /\ LET prev == FreeList(heap)[Place - 1]
         c == IF prev = Null THEN heap.end ELSE Joined(Grown, prev, heap.end)
     IN  Give(Take(allocate_more_memory(prev),
                   IF c = prev THEN FreeList(heap)[Place - 2] ELSE prev, c))

(* sbrk fails.                                                             *)
NoMemory ==
  /\ asked > 0 /\ FreeList(heap)[Place] = Null
  /\ asked' = 0
  /\ UNCHANGED <<heap, held>>

Free ==
  /\ asked = 0
  /\ \E b \in held :
       LET c == b.at - 1
           beyond == {w \in Memory : c < w}
           prev == FreeList(heap)[FirstPlace(heap, beyond) - 1]
       IN  /\ heap' = IF prev = Null THEN insert_chunk(heap, c)
                      ELSE insert_chunk_after(heap, prev, c)
           /\ held' = held \ {b}
  /\ UNCHANGED asked

Next == Malloc \/ TakeFree \/ TakeNew \/ NoMemory \/ Free
Spec == Init /\ [][Next]_vars

-----------------------------------------------------------------------------
(* What the debug build asserts of the heap at the beginning and the end   *)
(* of every call: every chunk met on a walk through the heap is valid,     *)
(* every one on the list is free too, and no two neighbours on the list    *)
(* touch.  A valid chunk has two units at least.                           *)
chunk_is_valid(h, c) == c >= 0 /\ c < h.end /\ h.at[c].units /= 0
Adjacents(h) ==
  LET at[n \in 0 .. MaxHeap \div 2] ==
        IF n = 0 THEN 0
        ELSE IF at[n - 1] = Null THEN Null ELSE next_adjacent(h, at[n - 1])
  IN  {at[n] : n \in DOMAIN at} \ {Null}
OnList(h) == {FreeList(h)[n] : n \in 1 .. MaxHeap} \ {Null}
check_heap_validity(h) ==
  IF h.end = 0 THEN h.head = Null
  ELSE /\ \A c \in Adjacents(h) : chunk_is_valid(h, c)
       /\ \A w \in OnList(h) :
            /\ h.at[w].status = "free" /\ chunk_is_valid(h, w)
            /\ next_adjacent(h, w) = Null \/ next_adjacent(h, w) /= h.at[w].next

(* The assertions hold, and more: the list is all free chunks in order,    *)
(* and no two free chunks touch.                                           *)
Chunks == {a \in Memory : heap.at[a].status /= "none"}
HeapValid ==
  /\ check_heap_validity(heap)
  /\ heap.end > 0 => Chunks = Adjacents(heap)
  /\ OnList(heap) = {c \in Chunks : IsFree(heap, c)}
  /\ \A w \in OnList(heap) :
       /\ ~IsFree(heap, next_adjacent(heap, w))
       /\ heap.at[w].next = Null \/ w < heap.at[w].next

(* It is an allocator: it gives out disjoint blocks of the size that was   *)
(* asked for.                                                              *)
Abstract == INSTANCE Allocator WITH Requests <- 1 .. MaxRequest, NoRequest <- 0
IsAllocator == Abstract!Spec
=============================================================================
