------------------------------- MODULE HeapMgr -------------------------------
(***************************************************************************)
(* The first-fit heap manager of lab3: heapmgr1.c and chunk.c.  Memory is  *)
(* measured in chunk units and addresses count units from g_heap_start.  A *)
(* chunk is a header unit, its units of data and a footer unit.            *)
(*                                                                         *)
(* The footers and the prev pointers are left out: the module writes them  *)
(* and never reads them.  Where two chunks are merged the second header    *)
(* becomes plain memory.  sbrk is contiguous: nobody else moves the break. *)
(* The program has one thread; a step is one turn of a loop, or the code   *)
(* between two loops.                                                      *)
(***************************************************************************)
EXTENDS Integers

CONSTANTS MEMALLOC_MIN,  \* units the heap grows by at least
          MaxHeap,       \* units the system can give
          MaxRequest,    \* the largest request, in units
          Null

ASSUME SizesAssumption ==
  /\ MEMALLOC_MIN \in Nat \ {0}
  /\ MaxHeap \in Nat
  /\ MaxRequest \in Nat \ {0}
ASSUME NullAssumption == Null \notin Int

VARIABLES g_free_head,  \* first chunk of the free list
          g_heap_end,   \* the break
          header,       \* what is at each address: a chunk's header or none
          pc, units,    \* next statement of the call, what malloc looks for
          c, prev, pprev, w,  \* its local pointers
          held          \* the blocks the client holds: [at, units]

heapVars == <<g_free_head, g_heap_end, header>>
localVars == <<units, c, prev, pprev, w>>
vars == <<heapVars, pc, localVars, held>>

Memory == 0 .. MaxHeap - 1
NoHeader == [status |-> "none", units |-> 0, next |-> Null]
Headers == [status : {"none", "free", "in_use"}, units : 0 .. MaxHeap,
            next : Memory \union {Null}]

Init ==
  /\ g_free_head = Null
  /\ g_heap_end = 0
  /\ header = [a \in Memory |-> NoHeader]
  /\ pc = "idle"
  /\ units = 0
  /\ c = Null /\ prev = Null /\ pprev = Null /\ w = Null
  /\ held = {}

-----------------------------------------------------------------------------
(* Operators on the headers h: what the functions of the same names do.    *)
next_adjacent(h, a, end) ==
  LET n == a + h[a].units + 2 IN IF n >= end THEN Null ELSE n

(* Mutant: the list is not taken over from c2.                             *)
merge_chunkMutKeepsNext(h, c1, c2) ==
  [h EXCEPT ![c1].units = @ + h[c2].units + 2,
            ![c2] = NoHeader]
merge_chunk(h, c1, c2) ==
  [h EXCEPT ![c1].units = @ + h[c2].units + 2,
            ![c1].next = h[c2].next,
            ![c2] = NoHeader]

(* Merge a with the chunk that follows it in memory, if that is free too.  *)
MergedWithNext(h, a, end) ==
  LET n == next_adjacent(h, a, end)
  IN  IF n /= Null /\ h[n].status = "free" THEN merge_chunk(h, a, n) ELSE h

(* insert_chunk: a becomes the first chunk of the free list.               *)
insert_chunk(h, a, end) ==
  LET freed == [h EXCEPT ![a].status = "free", ![a].next = g_free_head]
  IN  IF g_free_head /= Null /\ next_adjacent(freed, a, end) = g_free_head
      THEN merge_chunk(freed, a, g_free_head) ELSE freed

(* insert_chunk_after: a follows e in the free list; the merged chunk is   *)
(* at Joined.                                                              *)
Joined(h, e, a, end) == IF next_adjacent(h, e, end) = a THEN e ELSE a
(* Mutant: e->next is set before it is read.                               *)
insert_chunk_afterMutSwapped(h, e, a, end) ==
  MergedWithNext([h EXCEPT ![a].status = "free", ![a].next = a,
                           ![e].next = a], a, end)
insert_chunk_after(h, e, a, end) ==
  LET linked == [h EXCEPT ![a].status = "free", ![a].next = h[e].next,
                          ![e].next = a]
      lower == IF Joined(h, e, a, end) = e THEN merge_chunk(linked, e, a)
               ELSE linked
  IN  MergedWithNext(lower, Joined(h, e, a, end), end)

(* split_chunk: the last n units of chunk a become a chunk in use, at      *)
(* SplitAt.                                                                *)
SplitAt(h, a, n) == a + h[a].units - n
(* Mutant: no units are set aside for the header and the footer.           *)
split_chunkMutDataOnly(h, a, n) ==
  [h EXCEPT ![a].units = @ - n,
            ![SplitAt(h, a, n)] =
               [status |-> "in_use", units |-> n, next |-> h[a].next]]
split_chunk(h, a, n) ==
  [h EXCEPT ![a].units = @ - n - 2,
            ![SplitAt(h, a, n)] =
               [status |-> "in_use", units |-> n, next |-> h[a].next]]

remove_chunk_from_list(h, p, a) ==
  LET taken == [h EXCEPT ![a].status = "in_use", ![a].next = Null]
  IN  IF p = Null THEN taken ELSE [taken EXCEPT ![p].next = h[a].next]

-----------------------------------------------------------------------------
(* The client calls heapmgr_malloc.                                        *)
Malloc ==
  /\ pc = "idle"
  /\ units' \in 1 .. MaxRequest
  /\ c' = g_free_head
  /\ prev' = Null /\ pprev' = Null
  /\ pc' = "search"
  /\ UNCHANGED <<heapVars, w, held>>

(* The call returns the data of chunk a; the next call starts afresh.      *)
Return(a) ==
  /\ held' = held \union {[at |-> a + 1, units |-> units]}
  /\ pc' = "idle"
  /\ units' = 0
  /\ c' = Null /\ prev' = Null /\ pprev' = Null /\ w' = Null

(* Room for a header and a footer besides the data; exactly the data.      *)
(* Mutants: no room for data is left; the chunk may be too small.          *)
SplittableMutOffByOne(a) == header[a].units >= units + 2
PerfectFitMutReversed(a) == header[a].units <= units

Splittable(a) == header[a].units > units + 2
PerfectFit(a) == header[a].units = units

TakeTail ==
  /\ pc = "search" /\ c /= Null
  /\ Splittable(c)
  /\ header' = split_chunk(header, c, units)
  /\ Return(SplitAt(header, c, units))
  /\ UNCHANGED <<g_free_head, g_heap_end>>

TakeWhole(p, a) ==
  /\ g_free_head' = IF p = Null THEN header[a].next ELSE g_free_head
  /\ header' = remove_chunk_from_list(header, p, a)
  /\ Return(a)
  /\ UNCHANGED g_heap_end

TakePerfectFit ==
  /\ pc = "search" /\ c /= Null
  /\ PerfectFit(c)
  /\ TakeWhole(prev, c)

SearchOn ==
  /\ pc = "search" /\ c /= Null
  /\ ~Splittable(c) /\ ~PerfectFit(c)
  /\ pprev' = prev
  /\ prev' = c
  /\ c' = header[c].next
  /\ UNCHANGED <<heapVars, pc, units, w, held>>

-----------------------------------------------------------------------------
(* allocate_more_memory, when sbrk succeeds.                               *)
Growth == IF units < MEMALLOC_MIN THEN MEMALLOC_MIN ELSE units
Grow ==
  /\ pc = "search" /\ c = Null
  /\ g_heap_end + Growth + 2 <= MaxHeap
  /\ LET new == g_heap_end
         end == g_heap_end + Growth + 2
         h == [header EXCEPT ![new] =
                 [status |-> "in_use", units |-> Growth, next |-> Null]]
     IN  /\ g_heap_end' = end
         /\ IF g_free_head = Null
            THEN /\ header' = insert_chunk(h, new, end)
                 /\ g_free_head' = new
                 /\ c' = new
            ELSE /\ header' = insert_chunk_after(h, prev, new, end)
                 /\ c' = Joined(h, prev, new, end)
                 /\ UNCHANGED g_free_head
  /\ prev' = IF c' = prev THEN pprev ELSE prev
  /\ pc' = "grown"
  /\ UNCHANGED <<units, pprev, w, held>>

(* sbrk fails and malloc returns NULL.                                     *)
SbrkFails ==
  /\ pc = "search" /\ c = Null
  /\ pc' = "idle"
  /\ units' = 0
  /\ prev' = Null /\ pprev' = Null
  /\ UNCHANGED <<heapVars, c, w, held>>

TakeFromGrown ==
  /\ pc = "grown"
  /\ \/ /\ Splittable(c)
        /\ header' = split_chunk(header, c, units)
        /\ Return(SplitAt(header, c, units))
        /\ UNCHANGED <<g_free_head, g_heap_end>>
     \/ /\ ~Splittable(c)
        /\ TakeWhole(prev, c)

-----------------------------------------------------------------------------
(* The client calls heapmgr_free with one of its blocks.                   *)
Free ==
  /\ pc = "idle"
  /\ \E b \in held : held' = held \ {b} /\ c' = b.at - 1
  /\ w' = g_free_head
  /\ prev' = Null
  /\ pc' = "place"
  /\ UNCHANGED <<heapVars, units, pprev>>

(* The walk over the free list is past every chunk below c.                *)
Past == IF w = Null THEN TRUE ELSE c < w

PlaceOn ==
  /\ pc = "place" /\ ~Past
  /\ prev' = w
  /\ w' = header[w].next
  /\ UNCHANGED <<heapVars, pc, units, c, pprev, held>>

Insert ==
  /\ pc = "place"
  /\ Past
  /\ IF prev = Null
     THEN /\ header' = insert_chunk(header, c, g_heap_end)
          /\ g_free_head' = c
     ELSE /\ header' = insert_chunk_after(header, prev, c, g_heap_end)
          /\ UNCHANGED g_free_head
  /\ pc' = "idle"
  /\ c' = Null /\ prev' = Null /\ w' = Null
  /\ UNCHANGED <<g_heap_end, units, pprev, held>>

-----------------------------------------------------------------------------
(* The steps of a call under way.                                          *)
Continue ==
  \/ TakeTail \/ TakePerfectFit \/ SearchOn
  \/ Grow \/ SbrkFails \/ TakeFromGrown
  \/ PlaceOn \/ Insert

Next == Malloc \/ Free \/ Continue

Spec == Init /\ [][Next]_vars

(* A call that was made goes on; the client need not make any.             *)
FairSpec == Spec /\ WF_vars(Continue)

-----------------------------------------------------------------------------
Pointers == Memory \union {Null}
TypeOK ==
  /\ g_free_head \in Pointers
  /\ g_heap_end \in 0 .. MaxHeap
  /\ header \in [Memory -> Headers]
  /\ pc \in {"idle", "search", "grown", "place"}
  /\ units \in 0 .. MaxRequest
  /\ c \in Pointers /\ prev \in Pointers /\ pprev \in Pointers
  /\ w \in Pointers
  /\ held \subseteq [at : Memory, units : 1 .. MaxRequest]

(* What the debug build asserts of the heap when a call begins and ends    *)
(* and when memory was added: every chunk met on a walk through the heap   *)
(* is valid, every one on the list is free too, and no two neighbours on   *)
(* the list touch.  A valid chunk has three units at least.                *)
chunk_is_valid(a) == a >= 0 /\ a < g_heap_end /\ header[a].units /= 0
Walk(start, following) ==
  LET met[n \in 0 .. MaxHeap \div 3] ==
        IF n = 0 THEN start
        ELSE IF met[n - 1] = Null THEN Null ELSE following[met[n - 1]]
  IN  {met[n] : n \in DOMAIN met} \ {Null}
check_heap_validity ==
  LET adjacent == [a \in Memory |-> next_adjacent(header, a, g_heap_end)]
      next_free == [a \in Memory |-> header[a].next]
  IN  IF g_heap_end = 0 THEN g_free_head = Null
      ELSE /\ \A a \in Walk(0, adjacent) : chunk_is_valid(a)
           /\ \A f \in Walk(g_free_head, next_free) :
                /\ header[f].status = "free" /\ chunk_is_valid(f)
                /\ adjacent[f] = Null \/ adjacent[f] /= header[f].next

-----------------------------------------------------------------------------
Chunks == {a \in Memory : header[a].status /= "none"}
FreeChunks == {a \in Chunks : header[a].status = "free"}
EndOf(a) == a + header[a].units + 2

(* Everything has its type, the assertions hold, and the chunks tile the   *)
(* heap: each has data, ends where the next one or nothing begins, and     *)
(* overlaps no other.                                                      *)
Tiling ==
  /\ TypeOK
  /\ pc \in {"idle", "grown"} => check_heap_validity
  /\ g_heap_end > 0 => 0 \in Chunks
  /\ \A a \in Chunks : /\ header[a].units >= 1
                       /\ EndOf(a) \in Chunks \union {g_heap_end}
                       /\ EndOf(a) <= g_heap_end
  /\ \A a, b \in Chunks : a < b => EndOf(a) <= b

(* n is the first free chunk above address a, or there is none.            *)
FirstFreeAbove(a, n) ==
  IF n = Null THEN \A f \in FreeChunks : f <= a
  ELSE /\ n \in FreeChunks /\ a < n
       /\ \A f \in FreeChunks : f <= a \/ n <= f

(* The free list holds the free chunks, all of them, by ascending address, *)
(* and two free chunks never touch (the validity check of the code looks   *)
(* only at neighbours in the list).                                        *)
FreeListExact ==
  /\ FirstFreeAbove(-1, g_free_head)
  /\ \A f \in FreeChunks : FirstFreeAbove(f, header[f].next)
  /\ \A f \in FreeChunks : EndOf(f) \notin FreeChunks

(* Every block the client holds is the data of a chunk in use large enough *)
(* for it, and no other chunk is in use but the one that free is about to  *)
(* insert: nothing is given twice and nothing leaks.                       *)
BlockOf(a) == {b \in held : b.at = a + 1}
InUseIsHeld ==
  /\ \A b \in held : /\ b.at - 1 \in Chunks \ FreeChunks
                     /\ b.units <= header[b.at - 1].units
  /\ \A a \in Chunks \ FreeChunks :
       \/ \E b \in held : BlockOf(a) = {b}
       \/ pc = "place" /\ a = c /\ BlockOf(a) = {}

(* The heap manager is an allocator: it gives out disjoint blocks of the   *)
(* size that was asked for.                                                *)
Abstract == INSTANCE Allocator WITH
  Requests <- 1 .. MaxRequest, NoRequest <- 0, asked <- units
ImplementsAllocator == Abstract!Spec

(* Every call returns.                                                     *)
CallsReturn == pc /= "idle" ~> pc = "idle"
=============================================================================
