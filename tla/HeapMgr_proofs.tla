--------------------------- MODULE HeapMgr_proofs ---------------------------
(***************************************************************************)
(* Theorems about the two heap managers, HeapMgr and HeapBase, for any     *)
(* size of memory, any sizes of requests and any smallest growth.          *)
(***************************************************************************)
EXTENDS MCHeapMgr, WellFoundedInduction, TLAPS

-----------------------------------------------------------------------------
(* The functions of both heap managers on headers h, with k units in a     *)
(* chunk beside its data and M units of memory: two in chunk.c (header and *)
(* footer), one in chunkbase.c.                                            *)
Mem(M) == 0 .. M - 1
Ptrs(M) == Mem(M) \union {Null}
Heads(M) == [status : {"none", "free", "in_use"}, units : 0 .. M,
             next : Ptrs(M)]

Touching(k, h, a, end) ==
  LET n == a + h[a].units + k IN IF n >= end THEN Null ELSE n

Fused(k, h, c1, c2) ==
  [h EXCEPT ![c1].units = @ + h[c2].units + k,
            ![c1].next = h[c2].next,
            ![c2] = NoHeader]

FusedWithNext(k, h, a, end) ==
  LET n == Touching(k, h, a, end)
  IN  IF n /= Null /\ h[n].status = "free" THEN Fused(k, h, a, n) ELSE h

AtFront(k, h, head, a, end) ==
  LET freed == [h EXCEPT ![a].status = "free", ![a].next = head]
  IN  IF head /= Null /\ Touching(k, freed, a, end) = head
      THEN Fused(k, freed, a, head) ELSE freed

JoinedAt(k, h, e, a, end) == IF Touching(k, h, e, end) = a THEN e ELSE a
Behind(k, h, e, a, end) ==
  LET placed == [h EXCEPT ![a].status = "free", ![a].next = h[e].next,
                          ![e].next = a]
      lower == IF JoinedAt(k, h, e, a, end) = e THEN Fused(k, placed, e, a)
               ELSE placed
  IN  FusedWithNext(k, lower, JoinedAt(k, h, e, a, end), end)

Cut(k, h, a, n) ==
  [h EXCEPT ![a].units = @ - n - k,
            ![SplitAt(h, a, n)] =
               [status |-> "in_use", units |-> n, next |-> h[a].next]]

-----------------------------------------------------------------------------
(* The same notions as Chunks, FreeChunks and EndOf, of any headers h.     *)
ChunksOf(M, h) == {a \in Mem(M) : h[a].status /= "none"}
FreeOf(M, h) == {a \in Mem(M) : h[a].status = "free"}
InUseOf(M, h) == {a \in Mem(M) : h[a].status = "in_use"}
EndAt(k, h, a) == a + h[a].units + k

(* Chunks of a heap that ends at end.                                      *)
Tiles(k, M, h, end) ==
  /\ h \in [Mem(M) -> Heads(M)]
  /\ end \in 0 .. M
  /\ end > 0 => 0 \in ChunksOf(M, h)
  /\ \A a \in ChunksOf(M, h) :
       /\ h[a].units >= 1
       /\ EndAt(k, h, a) \in ChunksOf(M, h) \union {end}
       /\ EndAt(k, h, a) <= end
  /\ \A a, b \in ChunksOf(M, h) : a < b => EndAt(k, h, a) <= b

(* n is the first free chunk above address a, or there is none.            *)
FirstAbove(M, h, a, n) ==
  IF n = Null THEN \A f \in FreeOf(M, h) : f <= a
  ELSE n \in FreeOf(M, h) /\ a < n /\ \A f \in FreeOf(M, h) : f <= a \/ n <= f

(* The list that starts at head holds the free chunks in order.            *)
Listed(M, h, head) ==
  /\ FirstAbove(M, h, -1, head)
  /\ \A f \in FreeOf(M, h) : FirstAbove(M, h, f, h[f].next)

(* No free chunk outside S touches a free chunk above it.                  *)
Apart(k, M, h, S) ==
  \A f \in FreeOf(M, h) \ S : EndAt(k, h, f) \notin FreeOf(M, h)

(* p is the chunk before a on the list, Null if a is the first.            *)
Before(M, h, head, p, a) ==
  IF p = Null THEN a = head ELSE p \in FreeOf(M, h) /\ h[p].next = a

(* The blocks taken are in the chunks in use of h, one in each but out.    *)
BlocksIn(M, taken, h, out) ==
  /\ taken \subseteq [at : Mem(M), units : 1 .. MaxRequest]
  /\ \A b \in taken : /\ b.at - 1 \in InUseOf(M, h) \ out
                      /\ b.units <= h[b.at - 1].units
  /\ \A a \in InUseOf(M, h) \ out : \E b \in taken : b.at = a + 1
  /\ \A a, b \in taken : a.at = b.at => a = b

(* The units of memory that block b takes.                                 *)
UnitsOf(b) == b.at .. b.at + b.units - 1

-----------------------------------------------------------------------------
(* Chunks.                                                                 *)

LEMMA TwoUpdates ==
  ASSUME NEW S, NEW T, NEW h \in [S -> T], NEW a \in S, NEW b \in S, a /= b,
         NEW u \in T, NEW v \in T
  PROVE  LET m == [h EXCEPT ![a] = u, ![b] = v]
         IN  /\ m \in [S -> T] /\ m[a] = u /\ m[b] = v
             /\ \A x \in S \ {a, b} : m[x] = h[x]
  OBVIOUS

LEMMA Statuses ==
  ASSUME NEW M \in Nat,
         NEW h \in [Mem(M) -> Heads(M)]
  PROVE  /\ ChunksOf(M, h) = FreeOf(M, h) \union InUseOf(M, h)
         /\ FreeOf(M, h) \intersect InUseOf(M, h) = {}
         /\ ChunksOf(M, h) \subseteq Mem(M)
<1>1. \A a \in Mem(M) : h[a].status \in {"none", "free", "in_use"}
  BY DEF Heads, Ptrs
<1> QED
  BY <1>1 DEF ChunksOf, FreeOf, InUseOf

LEMMA ChunkBounds ==
  ASSUME NEW k \in Nat \ {0}, NEW M \in Nat,
         NEW h, NEW end, Tiles(k, M, h, end), NEW a \in ChunksOf(M, h)
  PROVE  /\ a \in Mem(M) /\ a \in Nat /\ end \in Nat /\ end <= M
         /\ h[a] \in Heads(M) /\ h[a].units \in Nat \ {0}
         /\ h[a].units <= M /\ h[a].next \in Ptrs(M)
         /\ EndAt(k, h, a) \in Nat /\ a + 2 <= EndAt(k, h, a)
         /\ EndAt(k, h, a) <= end
<1>1. a \in Mem(M) /\ h \in [Mem(M) -> Heads(M)]
  BY DEF Tiles, ChunksOf
<1>2. h[a] \in Heads(M)
  BY <1>1
<1>3. h[a].units \in 0 .. M /\ h[a].next \in Ptrs(M)
  BY <1>2 DEF Heads, Ptrs
<1>4. h[a].units >= 1 /\ EndAt(k, h, a) <= end /\ end \in 0 .. M
  BY DEF Tiles
<1> QED
  BY <1>1, <1>2, <1>3, <1>4 DEF EndAt, Mem

(* The chunk in front of chunk b ends before it begins.                    *)
LEMMA Below ==
  ASSUME NEW k \in Nat \ {0}, NEW M \in Nat,
         NEW h, NEW end, Tiles(k, M, h, end),
         NEW a \in ChunksOf(M, h), NEW b \in ChunksOf(M, h), a < b
  PROVE  EndAt(k, h, a) <= b
  BY DEF Tiles

(* Touching finds the chunk where this one ends.                           *)
LEMMA Adjacent ==
  ASSUME NEW k \in Nat \ {0}, NEW M \in Nat,
         NEW h, NEW end, Tiles(k, M, h, end), NEW a \in ChunksOf(M, h)
  PROVE  /\ EndAt(k, h, a) \in ChunksOf(M, h) =>
              /\ Touching(k, h, a, end) = EndAt(k, h, a)
              /\ EndAt(k, h, a) /= Null
         /\ EndAt(k, h, a) \notin ChunksOf(M, h) =>
              Touching(k, h, a, end) = Null
<1> DEFINE n == EndAt(k, h, a)
<1>1. n \in Nat /\ n <= end /\ end \in Nat
  BY ChunkBounds
<1>2. Touching(k, h, a, end) = IF n >= end THEN Null ELSE n
  BY DEF Touching, EndAt
<1>3. ASSUME n \in ChunksOf(M, h)
      PROVE  n < end
  <2>1. n + 2 <= EndAt(k, h, n) /\ EndAt(k, h, n) <= end
        /\ EndAt(k, h, n) \in Nat
    BY <1>3, ChunkBounds
  <2> QED
    BY <2>1, <1>1
<1>4. n \notin ChunksOf(M, h) => n = end
  BY DEF Tiles
<1>5. n /= Null
  BY <1>1, NullAssumption
<1>6. n >= end <=> ~(n < end)
  BY <1>1
<1> HIDE DEF n
<1> QED
  BY <1>2, <1>3, <1>4, <1>5, <1>6, <1>1 DEF n

-----------------------------------------------------------------------------
(* Splitting.                                                              *)

LEMMA SplitFields ==
  ASSUME NEW k \in Nat \ {0}, NEW M \in Nat,
         NEW h, NEW end, Tiles(k, M, h, end), NEW a \in FreeOf(M, h),
         NEW n \in 1 .. MaxRequest, h[a].units > n + k
  PROVE  LET m == Cut(k, h, a, n)
             s == SplitAt(h, a, n)
         IN  /\ s \in Mem(M) /\ s \in Nat /\ s + 1 \in Mem(M)
             /\ a < s /\ s + n + k = EndAt(k, h, a) /\ s \notin ChunksOf(M, h)
             /\ m \in [Mem(M) -> Heads(M)]
             /\ m[a].status = "free" /\ m[a].next = h[a].next
             /\ m[a].units = h[a].units - n - k
             /\ m[s].status = "in_use" /\ m[s].units = n
             /\ \A x \in Mem(M) \ {a, s} : m[x] = h[x]
<1> DEFINE m == Cut(k, h, a, n)
           s == SplitAt(h, a, n)
           new == [status |-> "in_use", units |-> n, next |-> h[a].next]
           low == [h[a] EXCEPT !.units = @ - n - k]
<1>1. a \in ChunksOf(M, h) /\ a \in Mem(M) /\ h[a].status = "free"
  BY DEF FreeOf, ChunksOf
<1>2. /\ a \in Nat /\ end \in Nat /\ end <= M
      /\ h[a] \in Heads(M) /\ h[a].units \in Nat /\ h[a].units <= M
      /\ h[a].next \in Ptrs(M)
      /\ EndAt(k, h, a) <= end
  BY <1>1, ChunkBounds
<1>3. n \in Nat /\ n >= 1 /\ M \in Nat
  BY SizesAssumption
<1>4. /\ s \in Nat /\ a < s /\ s + n + k = EndAt(k, h, a) /\ s < M
      /\ s + 1 < M
  BY <1>2, <1>3 DEF SplitAt, EndAt
<1>5. s \in Mem(M) /\ s + 1 \in Mem(M)
  BY <1>4, <1>3 DEF Mem
<1>6. s \notin ChunksOf(M, h)
  <2> SUFFICES ASSUME s \in ChunksOf(M, h) PROVE FALSE
    OBVIOUS
  <2>1. EndAt(k, h, a) <= s
    BY <1>1, <1>4, Below
  <2> QED
    BY <2>1, <1>4, <1>3
<1>7. new \in Heads(M)
  BY <1>2, <1>3 DEF Heads, Ptrs
<1>8. /\ low.units = h[a].units - n - k /\ low.status = "free"
      /\ low.next = h[a].next
  BY <1>1, <1>2 DEF Heads, Ptrs
<1>9. low \in Heads(M)
  <2>1. h[a].units - n - k \in 0 .. M
    BY <1>2, <1>3
  <2> QED
    BY <2>1, <1>2 DEF Heads, Ptrs
<1>10. h \in [Mem(M) -> Heads(M)]
  BY DEF Tiles
<1>11. m = [h EXCEPT ![a] = low, ![s] = new]
  BY <1>10, <1>1, <1>4 DEF Cut
<1> HIDE DEF m, s, new, low
<1>12. /\ m \in [Mem(M) -> Heads(M)] /\ m[a] = low /\ m[s] = new
       /\ \A x \in Mem(M) \ {a, s} : m[x] = h[x]
  <2>1. a /= s
    BY <1>1, <1>6
  <2> QED
    BY <2>1, <1>1, <1>5, <1>7, <1>9, <1>10, <1>11, TwoUpdates
<1>13. m[s].status = "in_use" /\ m[s].units = n
  BY <1>12 DEF new
<1> QED
  BY <1>1, <1>4, <1>5, <1>6, <1>8, <1>12, <1>13 DEF m, s

(* The units of the request are cut off the end of a free chunk; the list  *)
(* stays as it is.                                                         *)
LEMMA SplitKeeps ==
  ASSUME NEW k \in Nat \ {0}, NEW M \in Nat,
         NEW h, NEW end, NEW head, Tiles(k, M, h, end), Listed(M, h, head),
         Apart(k, M, h, {}), NEW a \in FreeOf(M, h),
         NEW n \in 1 .. MaxRequest, h[a].units > n + k
  PROVE  LET m == Cut(k, h, a, n)
             s == SplitAt(h, a, n)
         IN  /\ Tiles(k, M, m, end) /\ Listed(M, m, head) /\ Apart(k, M, m, {})
             /\ InUseOf(M, m) = InUseOf(M, h) \union {s}
             /\ s \in Mem(M) /\ s + 1 \in Mem(M) /\ s \notin ChunksOf(M, h)
             /\ m[s].units = n
             /\ \A x \in InUseOf(M, h) : m[x] = h[x]
<1>1. PICK m, s : m = Cut(k, h, a, n) /\ s = SplitAt(h, a, n)
  OBVIOUS
<1>2. /\ s \in Mem(M) /\ s \in Nat /\ s + 1 \in Mem(M)
      /\ a < s /\ s + n + k = EndAt(k, h, a) /\ s \notin ChunksOf(M, h)
      /\ m \in [Mem(M) -> Heads(M)]
      /\ m[a].status = "free" /\ m[a].next = h[a].next
      /\ m[a].units = h[a].units - n - k
      /\ m[s].status = "in_use" /\ m[s].units = n
      /\ \A x \in Mem(M) \ {a, s} : m[x] = h[x]
  BY <1>1, SplitFields
<1>3. h \in [Mem(M) -> Heads(M)] /\ end \in 0 .. M
  BY DEF Tiles
<1>4. a \in ChunksOf(M, h) /\ a \in Mem(M) /\ h[a].status = "free"
  BY DEF FreeOf, ChunksOf
<1>5. h[s].status = "none" /\ a /= s
  BY <1>2, <1>4 DEF ChunksOf
<1>6. /\ ChunksOf(M, m) = ChunksOf(M, h) \union {s}
      /\ FreeOf(M, m) = FreeOf(M, h)
      /\ InUseOf(M, m) = InUseOf(M, h) \union {s}
  <2>1. /\ a \in Mem(M) /\ s \in Mem(M) /\ m[s].status = "in_use"
        /\ \A x \in Mem(M) \ {s} : m[x].status = h[x].status
    BY <1>2, <1>4
  <2>2. ChunksOf(M, m) = ChunksOf(M, h) \union {s}
    BY <2>1 DEF ChunksOf
  <2>3. FreeOf(M, m) = FreeOf(M, h)
    BY <2>1, <1>5 DEF FreeOf
  <2>4. InUseOf(M, m) = InUseOf(M, h) \union {s}
    BY <2>1 DEF InUseOf
  <2> QED
    BY <2>2, <2>3, <2>4
<1>7. /\ EndAt(k, m, a) = s /\ EndAt(k, m, s) = EndAt(k, h, a)
      /\ \A x \in ChunksOf(M, h) \ {a} : EndAt(k, m, x) = EndAt(k, h, x)
  <2>1. a \in Nat /\ h[a].units \in Nat /\ n \in Nat
    BY <1>4, ChunkBounds
  <2>2. EndAt(k, m, a) = s
    BY <2>1, <1>2 DEF EndAt
  <2>3. EndAt(k, m, s) = EndAt(k, h, a)
    BY <1>2 DEF EndAt
  <2>4. ASSUME NEW x \in ChunksOf(M, h) \ {a}
        PROVE  EndAt(k, m, x) = EndAt(k, h, x)
    BY <1>2 DEF EndAt, ChunksOf
  <2> QED
    BY <2>2, <2>3, <2>4
<1>8. Tiles(k, M, m, end)
  <2>1. end > 0 => 0 \in ChunksOf(M, m)
    BY <1>6 DEF Tiles
  <2>2. ASSUME NEW x \in ChunksOf(M, m)
        PROVE  /\ m[x].units >= 1
               /\ EndAt(k, m, x) \in ChunksOf(M, m) \union {end}
               /\ EndAt(k, m, x) <= end
    <3>1. a \in Nat /\ EndAt(k, h, a) <= end /\ h[a].units \in Nat /\ n \in Nat
          /\ n >= 1 /\ EndAt(k, h, a) \in ChunksOf(M, h) \union {end}
          /\ end \in Nat /\ EndAt(k, h, a) \in Nat
      BY <1>4, ChunkBounds DEF Tiles
    <3>2. CASE x = a
      <4>1. m[x].units >= 1
        BY <3>1, <3>2, <1>2
      <4>2. s <= end
        BY <3>1, <1>2
      <4> QED
        BY <3>2, <4>1, <4>2, <1>6, <1>7
    <3>3. CASE x = s
      BY <3>1, <3>3, <1>2, <1>6, <1>7
    <3>4. CASE x \notin {a, s}
      <4>1. x \in ChunksOf(M, h) /\ x \in Mem(M) /\ m[x] = h[x]
        BY <3>4, <1>2, <1>6 DEF ChunksOf
      <4> QED
        BY <3>4, <4>1, <1>6, <1>7 DEF Tiles
    <3> QED
      BY <3>2, <3>3, <3>4
  <2>3. ASSUME NEW x \in ChunksOf(M, m), NEW y \in ChunksOf(M, m), x < y
        PROVE  EndAt(k, m, x) <= y
    <3>1. x \in Nat /\ y \in Nat /\ a \in Nat /\ EndAt(k, h, a) \in Nat
          /\ n \in Nat
      BY <1>2, <1>4, <1>6, ChunkBounds
    <3>2. CASE x = s
      <4>1. y \in ChunksOf(M, h) /\ a < y
        BY <3>1, <3>2, <2>3, <1>2, <1>6
      <4> QED
        BY <4>1, <3>2, <1>4, <1>7, Below
    <3>3. CASE x = a
      <4>1. CASE y = s
        BY <3>3, <4>1, <1>7, <1>2
      <4>2. CASE y /= s
        <5>1. EndAt(k, h, a) <= y
          BY <4>2, <3>3, <2>3, <1>4, <1>6, Below
        <5> QED
          BY <5>1, <3>1, <3>3, <1>2, <1>7
      <4> QED
        BY <4>1, <4>2
    <3>4. CASE x \notin {a, s}
      <4>1. x \in ChunksOf(M, h) /\ EndAt(k, m, x) = EndAt(k, h, x)
        BY <3>4, <1>6, <1>7
      <4>2. EndAt(k, h, x) \in Nat
        BY <4>1, ChunkBounds
      <4>3. CASE y = s
        <5>1. CASE x < a
          <6>1. EndAt(k, h, x) <= a
            BY <5>1, <4>1, <1>4, Below
          <6> QED
            BY <6>1, <4>1, <4>2, <4>3, <3>1, <1>2
        <5>2. CASE a < x
          <6>1. EndAt(k, h, a) <= x
            BY <5>2, <4>1, <1>4, Below
          <6> QED
            BY <6>1, <4>3, <3>1, <2>3, <1>2
        <5> QED
          BY <5>1, <5>2, <3>1, <3>4
      <4>4. CASE y /= s
        BY <4>1, <4>4, <2>3, <1>6, Below
      <4> QED
        BY <4>3, <4>4
    <3> QED
      BY <3>2, <3>3, <3>4
  <2> QED
    BY <2>1, <2>2, <2>3, <1>2, <1>3 DEF Tiles
<1>9. \A f \in FreeOf(M, h) : f \in ChunksOf(M, h) /\ m[f].next = h[f].next
  BY <1>2, <1>4, <1>5 DEF FreeOf, ChunksOf
<1>10. Listed(M, m, head)
  BY <1>6, <1>9 DEF Listed, FirstAbove
<1>11. Apart(k, M, m, {})
  <2> SUFFICES ASSUME NEW f \in FreeOf(M, h)
               PROVE  EndAt(k, m, f) \notin FreeOf(M, h)
    BY <1>6 DEF Apart
  <2>1. CASE f = a
    BY <2>1, <1>7, <1>2, <1>9
  <2>2. CASE f /= a
    BY <2>2, <1>7, <1>9 DEF Apart
  <2> QED
    BY <2>1, <2>2
<1>12. \A x \in InUseOf(M, h) : m[x] = h[x]
  BY <1>2, <1>4, <1>5 DEF InUseOf
<1> QED
  BY <1>1, <1>2, <1>6, <1>8, <1>10, <1>11, <1>12

-----------------------------------------------------------------------------
(* Taking a chunk off the list.                                            *)

(* The chunk before a free chunk is the only one that names it.            *)
LEMMA OneBefore ==
  ASSUME NEW k \in Nat \ {0}, NEW M \in Nat,
         NEW h, NEW end, NEW head, Tiles(k, M, h, end), Listed(M, h, head),
         NEW p, NEW a \in FreeOf(M, h), Before(M, h, head, p, a)
  PROVE  /\ p = Null => \A f \in FreeOf(M, h) : a <= f
         /\ p /= Null => /\ p \in FreeOf(M, h) /\ p < a
                         /\ \A f \in FreeOf(M, h) : f <= p \/ a <= f
<1>1. a /= Null
  BY NullAssumption DEF FreeOf, Mem
<1>2. CASE p = Null
  <2>1. FirstAbove(M, h, -1, a)
    BY <1>2 DEF Listed, Before
  <2>2. \A f \in FreeOf(M, h) : ~(f <= -1)
    BY DEF FreeOf, Mem
  <2> QED
    BY <1>1, <1>2, <2>1, <2>2 DEF FirstAbove
<1>3. CASE p /= Null
  <2>1. p \in FreeOf(M, h) /\ h[p].next = a
    BY <1>3 DEF Before
  <2>2. FirstAbove(M, h, p, a)
    BY <2>1 DEF Listed
  <2> QED
    BY <1>1, <1>3, <2>1, <2>2 DEF FirstAbove
<1> QED
  BY <1>2, <1>3

LEMMA RemoveKeeps ==
  ASSUME NEW k \in Nat \ {0}, NEW M \in Nat,
         NEW h, NEW end, NEW head, Tiles(k, M, h, end), Listed(M, h, head),
         Apart(k, M, h, {}), NEW p, NEW a \in FreeOf(M, h),
         Before(M, h, head, p, a)
  PROVE  LET m == remove_chunk_from_list(h, p, a)
             first == IF p = Null THEN h[a].next ELSE head
         IN  /\ Tiles(k, M, m, end) /\ Listed(M, m, first)
             /\ Apart(k, M, m, {})
             /\ InUseOf(M, m) = InUseOf(M, h) \union {a}
             /\ m[a].units = h[a].units
             /\ \A x \in InUseOf(M, h) : m[x] = h[x]
<1>1. PICK m : m = remove_chunk_from_list(h, p, a)
  OBVIOUS
<1>2. PICK first : first = IF p = Null THEN h[a].next ELSE head
  OBVIOUS
<1>3. h \in [Mem(M) -> Heads(M)] /\ end \in 0 .. M
  BY DEF Tiles
<1>4. a \in ChunksOf(M, h) /\ a \in Mem(M) /\ h[a].status = "free" /\ a /= Null
  BY NullAssumption DEF FreeOf, ChunksOf, Mem
<1>5. /\ a \in Nat /\ h[a] \in Heads(M) /\ h[a].next \in Ptrs(M)
  BY <1>4, ChunkBounds
<1>6. ASSUME p /= Null
      PROVE  p \in Mem(M) /\ p < a /\ p /= a /\ h[p] \in Heads(M)
  <2>1. p \in FreeOf(M, h) /\ p < a
    BY <1>6, OneBefore
  <2>2. p \in Mem(M) /\ p \in Nat
    BY <2>1 DEF FreeOf, Mem
  <2> QED
    BY <2>1, <2>2, <1>3, <1>5
<1> DEFINE gone == [h[a] EXCEPT !.status = "in_use", !.next = Null]
           taken == [h EXCEPT ![a] = gone]
           over == [h[p] EXCEPT !.next = h[a].next]
<1>7. gone \in Heads(M) /\ gone.status = "in_use" /\ gone.units = h[a].units
  BY <1>5 DEF Heads, Ptrs
<1>8. taken \in [Mem(M) -> Heads(M)] /\ taken[a] = gone
      /\ \A x \in Mem(M) \ {a} : taken[x] = h[x]
  BY <1>3, <1>4, <1>7
<1>9. remove_chunk_from_list(h, p, a)
        = IF p = Null THEN taken ELSE [taken EXCEPT ![p].next = h[a].next]
  BY <1>3, <1>4 DEF remove_chunk_from_list
<1>10. p /= Null => /\ over \in Heads(M) /\ over.status = h[p].status
                    /\ over.units = h[p].units /\ over.next = h[a].next
  BY <1>5, <1>6 DEF Heads, Ptrs
<1>11. p /= Null => m = [taken EXCEPT ![p] = over]
  <2> SUFFICES ASSUME p /= Null PROVE m = [taken EXCEPT ![p] = over]
    OBVIOUS
  <2>1. taken[p] = h[p]
    BY <1>6, <1>8
  <2> HIDE DEF taken
  <2> QED
    BY <1>1, <1>9, <2>1
<1>12. p = Null => m = taken
  BY <1>1, <1>9
<1> HIDE DEF taken, gone, over
<1>13. /\ m \in [Mem(M) -> Heads(M)] /\ m[a] = gone
       /\ \A x \in Mem(M) \ {a} : x /= p => m[x] = h[x]
       /\ p /= Null => m[p] = over
  <2>1. CASE p = Null
    BY <2>1, <1>12, <1>8
  <2>2. CASE p /= Null
    <3>1. p \in Mem(M) /\ p /= a /\ over \in Heads(M)
      BY <2>2, <1>6, <1>10
    <3>2. m = [taken EXCEPT ![p] = over]
      BY <2>2, <1>11
    <3> QED
      BY <3>1, <3>2, <1>4, <1>8
  <2> QED
    BY <2>1, <2>2
<1>14. ASSUME NEW x \in Mem(M)
       PROVE  /\ m[x].units = h[x].units
              /\ x /= a => m[x].status = h[x].status
              /\ x /= a /\ x /= p => m[x].next = h[x].next
  <2>1. CASE x = a
    BY <2>1, <1>13, <1>7
  <2>2. CASE x /= a /\ x = p
    <3>1. p /= Null
      BY <2>2, NullAssumption DEF Mem
    <3> QED
      BY <2>2, <3>1, <1>13, <1>10
  <2>3. CASE x /= a /\ x /= p
    BY <2>3, <1>13
  <2> QED
    BY <2>1, <2>2, <2>3
<1>15. m[a].status = "in_use"
  BY <1>13, <1>7
<1>16. /\ ChunksOf(M, m) = ChunksOf(M, h)
       /\ FreeOf(M, m) = FreeOf(M, h) \ {a}
       /\ InUseOf(M, m) = InUseOf(M, h) \union {a}
  BY <1>4, <1>14, <1>15 DEF ChunksOf, FreeOf, InUseOf
<1>17. \A x \in Mem(M) : EndAt(k, m, x) = EndAt(k, h, x)
  BY <1>14 DEF EndAt
<1>18. Tiles(k, M, m, end)
  <2>1. \A x \in ChunksOf(M, h) : x \in Mem(M)
    BY DEF ChunksOf
  <2> QED
    BY <2>1, <1>13, <1>14, <1>16, <1>17 DEF Tiles
<1>19. Apart(k, M, m, {})
  <2>1. \A x \in FreeOf(M, h) : x \in Mem(M)
    BY DEF FreeOf
  <2> QED
    BY <2>1, <1>16, <1>17 DEF Apart
<1>20. FirstAbove(M, h, a, h[a].next)
  BY DEF Listed
<1>21. \A f \in FreeOf(M, h) : f \in Nat /\ f /= Null /\ f \in Mem(M)
  BY NullAssumption DEF FreeOf, Mem
<1>22. Listed(M, m, first)
  <2>1. CASE p = Null
    <3>1. \A f \in FreeOf(M, h) : a <= f
      BY <2>1, OneBefore
    <3>2. FirstAbove(M, m, -1, h[a].next)
      <4>1. CASE h[a].next = Null
        <5>1. \A f \in FreeOf(M, h) : f <= a
          BY <4>1, <1>20 DEF FirstAbove
        <5>2. ASSUME NEW f \in FreeOf(M, m)
              PROVE  FALSE
          <6>1. f \in FreeOf(M, h) /\ f /= a
            BY <1>16
          <6>2. f \in Nat /\ f <= a /\ a <= f
            BY <6>1, <5>1, <3>1, <1>21
          <6> QED
            BY <6>1, <6>2, <1>5
        <5> QED
          BY <4>1, <5>2 DEF FirstAbove
      <4>2. CASE h[a].next /= Null
        <5>1. PICK n : n = h[a].next
          OBVIOUS
        <5>2. n \in FreeOf(M, h) /\ a < n
              /\ \A f \in FreeOf(M, h) : f <= a \/ n <= f
          BY <4>2, <5>1, <1>20 DEF FirstAbove
        <5>3. n \in FreeOf(M, m) /\ -1 < n
          BY <5>2, <1>16, <1>21, <1>5
        <5>4. \A f \in FreeOf(M, m) : n <= f
          BY <5>2, <3>1, <1>16, <1>21, <1>5
        <5> QED
          BY <4>2, <5>1, <5>3, <5>4 DEF FirstAbove
      <4> QED
        BY <4>1, <4>2
    <3>3. ASSUME NEW f \in FreeOf(M, h) \ {a}
          PROVE  FirstAbove(M, m, f, m[f].next)
      <4>1. m[f].next = h[f].next /\ FirstAbove(M, h, f, h[f].next)
        BY <2>1, <1>14, <1>21 DEF Listed
      <4>2. h[f].next /= a
        BY <4>1, <3>1, <1>4, <1>5, <1>21 DEF FirstAbove
      <4> QED
        BY <4>1, <4>2, <1>16 DEF FirstAbove
    <3> QED
      BY <2>1, <3>2, <3>3, <1>2, <1>16 DEF Listed
  <2>2. CASE p /= Null
    <3>1. /\ p \in FreeOf(M, h) /\ p < a
          /\ \A f \in FreeOf(M, h) : f <= p \/ a <= f
      BY <2>2, OneBefore
    <3>2. FirstAbove(M, m, -1, head)
      <4>1. FirstAbove(M, h, -1, head)
        BY DEF Listed
      <4>2. head /= a
        BY <4>1, <3>1, <1>4, <1>5, <1>21 DEF FirstAbove
      <4> QED
        BY <4>1, <4>2, <1>16 DEF FirstAbove
    <3>3. FirstAbove(M, m, p, m[p].next)
      <4>1. m[p].next = h[a].next
        BY <2>2, <1>13, <1>10
      <4>2. FirstAbove(M, m, p, h[a].next)
        <5>1. CASE h[a].next = Null
          <6>1. \A f \in FreeOf(M, h) : f <= a
            BY <5>1, <1>20 DEF FirstAbove
          <6>2. \A f \in FreeOf(M, m) : f <= p
            BY <6>1, <3>1, <1>16, <1>21, <1>5
          <6> QED
            BY <5>1, <6>2 DEF FirstAbove
        <5>2. CASE h[a].next /= Null
          <6>1. PICK n : n = h[a].next
            OBVIOUS
          <6>2. /\ n \in FreeOf(M, h) /\ a < n
                /\ \A f \in FreeOf(M, h) : f <= a \/ n <= f
            BY <5>2, <6>1, <1>20 DEF FirstAbove
          <6>3. n \in FreeOf(M, m) /\ p < n
            BY <6>2, <3>1, <1>16, <1>21, <1>5
          <6>4. \A f \in FreeOf(M, m) : f <= p \/ n <= f
            BY <6>2, <3>1, <1>16, <1>21, <1>5
          <6> QED
            BY <5>2, <6>1, <6>3, <6>4 DEF FirstAbove
        <5> QED
          BY <5>1, <5>2
      <4> QED
        BY <4>1, <4>2
    <3>4. ASSUME NEW f \in FreeOf(M, h) \ {a}, f /= p
          PROVE  FirstAbove(M, m, f, m[f].next)
      <4>1. m[f].next = h[f].next /\ FirstAbove(M, h, f, h[f].next)
        BY <3>4, <1>14, <1>21 DEF Listed
      <4>2. h[f].next /= a
        <5> SUFFICES ASSUME h[f].next = a PROVE FALSE
          OBVIOUS
        <5>1. f < a /\ \A g \in FreeOf(M, h) : g <= f \/ a <= g
          BY <4>1, <1>4 DEF FirstAbove
        <5>2. f <= p /\ p <= f
          BY <5>1, <3>1, <1>5, <1>21
        <5> QED
          BY <5>2, <3>4, <3>1, <1>21
      <4> QED
        BY <4>1, <4>2, <1>16 DEF FirstAbove
    <3> QED
      BY <2>2, <3>2, <3>3, <3>4, <1>2, <1>16 DEF Listed
  <2> QED
    BY <2>1, <2>2
<1>23. \A x \in InUseOf(M, h) : x \in Mem(M) \ {a} /\ x /= p
  <2>1. p /= Null => h[p].status = "free"
    BY OneBefore DEF FreeOf
  <2>2. \A x \in InUseOf(M, h) : x \in Mem(M) /\ h[x].status = "in_use"
    BY DEF InUseOf
  <2>3. \A x \in Mem(M) : x /= Null
    BY NullAssumption DEF Mem
  <2> QED
    BY <2>1, <2>2, <2>3, <1>4
<1>24. /\ \A x \in InUseOf(M, h) : m[x] = h[x]
       /\ m[a].units = h[a].units
  BY <1>23, <1>13, <1>14, <1>4
<1> QED
  BY <1>1, <1>2, <1>16, <1>18, <1>19, <1>22, <1>24

-----------------------------------------------------------------------------
(* Putting a chunk on the list.                                            *)

(* The place of chunk a in the list is behind e, in front if e is Null.    *)
GoesAfter(M, h, e, a) ==
  /\ e /= Null => e \in FreeOf(M, h) /\ e < a
  /\ \A f \in FreeOf(M, h) : a < f \/ (e /= Null /\ f <= e)

(* In m, a is free and placed there.                                       *)
Linked(M, h, head, e, a, m) ==
  /\ m \in [Mem(M) -> Heads(M)]
  /\ m[a].status = "free" /\ m[a].units = h[a].units
  /\ e = Null => m[a].next = head
  /\ e /= Null => /\ m[a].next = h[e].next /\ m[e].next = a
                  /\ m[e].status = "free" /\ m[e].units = h[e].units
  /\ \A x \in Mem(M) \ {a} : x /= e => m[x] = h[x]

(* What becomes of the heap then.                                          *)
Inserted(k, M, h, end, head, e, a, m) ==
  /\ Tiles(k, M, m, end)
  /\ e = Null => Listed(M, m, a)
  /\ e /= Null => Listed(M, m, head)
  /\ Apart(k, M, m, {a, e})
  /\ FreeOf(M, m) = FreeOf(M, h) \union {a}
  /\ InUseOf(M, m) = InUseOf(M, h) \ {a}
  /\ \A x \in Mem(M) : EndAt(k, m, x) = EndAt(k, h, x)

LEMMA LinkKeeps ==
  ASSUME NEW k \in Nat \ {0}, NEW M \in Nat,
         NEW h, NEW end, NEW head, NEW a, NEW e, NEW m,
         Tiles(k, M, h, end), Listed(M, h, head), Apart(k, M, h, {}),
         a \in InUseOf(M, h), GoesAfter(M, h, e, a),
         Linked(M, h, head, e, a, m)
  PROVE  Inserted(k, M, h, end, head, e, a, m)
<1>1. h \in [Mem(M) -> Heads(M)] /\ end \in 0 .. M
  BY DEF Tiles
<1>2. a \in ChunksOf(M, h) /\ a \in Mem(M) /\ h[a].status = "in_use"
  BY DEF InUseOf, ChunksOf
<1>3. e /= Null => e \in Mem(M) /\ h[e].status = "free" /\ e /= a
  BY <1>2 DEF GoesAfter, FreeOf
<1>0. /\ m \in [Mem(M) -> Heads(M)]
      /\ m[a].status = "free" /\ m[a].units = h[a].units
      /\ e = Null => m[a].next = head
      /\ e /= Null => /\ m[a].next = h[e].next /\ m[e].next = a
                      /\ m[e].status = "free" /\ m[e].units = h[e].units
      /\ \A x \in Mem(M) \ {a} : x /= e => m[x] = h[x]
  BY DEF Linked
<1>4. \A x \in Mem(M) : /\ m[x].units = h[x].units
                        /\ x /= a => m[x].status = h[x].status
                        /\ x /= Null
  BY <1>0, <1>3, NullAssumption DEF Mem
<1>5. /\ ChunksOf(M, m) = ChunksOf(M, h)
      /\ FreeOf(M, m) = FreeOf(M, h) \union {a}
      /\ InUseOf(M, m) = InUseOf(M, h) \ {a}
  BY <1>0, <1>2, <1>4 DEF ChunksOf, FreeOf, InUseOf
<1>6. \A x \in Mem(M) : EndAt(k, m, x) = EndAt(k, h, x)
  BY <1>4 DEF EndAt
<1>7. \A x \in ChunksOf(M, h) : x \in Mem(M)
  BY DEF ChunksOf
<1>8. Tiles(k, M, m, end)
  BY <1>0, <1>4, <1>5, <1>6, <1>7 DEF Tiles
<1>9. \A f \in FreeOf(M, h) : f \in Nat /\ f /= Null /\ f \in Mem(M) /\ f /= a
  BY <1>2, NullAssumption DEF FreeOf, Mem
<1>10. a \in Nat /\ a /= Null
  BY <1>2, NullAssumption DEF Mem
<1>11. \A f \in FreeOf(M, h) : a < f \/ (e /= Null /\ f <= e)
  BY DEF GoesAfter
<1>12. /\ e = Null => Listed(M, m, a)
       /\ e /= Null => Listed(M, m, head)
  <2>1. CASE e = Null
    <3>1. FirstAbove(M, m, -1, a)
      BY <2>1, <1>5, <1>9, <1>10, <1>11 DEF FirstAbove
    <3>2. FirstAbove(M, m, a, m[a].next)
      <4>1. FirstAbove(M, h, -1, head) /\ m[a].next = head
        BY <2>1, <1>0 DEF Listed
      <4> QED
        BY <4>1, <2>1, <1>5, <1>9, <1>10, <1>11 DEF FirstAbove
    <3>3. ASSUME NEW f \in FreeOf(M, h)
          PROVE  FirstAbove(M, m, f, m[f].next)
      <4>1. FirstAbove(M, h, f, h[f].next) /\ m[f] = h[f] /\ a < f
        BY <2>1, <1>0, <1>9, <1>11 DEF Listed
      <4> QED
        BY <4>1, <1>5, <1>9, <1>10 DEF FirstAbove
    <3> QED
      BY <3>1, <3>2, <3>3, <2>1, <1>5 DEF Listed
  <2>2. CASE e /= Null
    <3>1. e \in FreeOf(M, h) /\ e < a /\ e \in Nat
      BY <2>2, <1>9 DEF GoesAfter
    <3>2. FirstAbove(M, m, -1, head)
      <4>1. FirstAbove(M, h, -1, head) /\ ~(e <= -1)
        BY <3>1 DEF Listed
      <4>2. /\ head /= Null /\ head \in FreeOf(M, h) /\ -1 < head
            /\ \A f \in FreeOf(M, h) : f <= -1 \/ head <= f
        BY <4>1, <3>1 DEF FirstAbove
      <4>3. head \in Nat /\ head <= e
        BY <4>1, <4>2, <3>1, <1>9
      <4>4. head <= a
        BY <4>3, <3>1, <1>10
      <4>5. \A f \in FreeOf(M, m) : f <= -1 \/ head <= f
        BY <4>2, <4>4, <1>5
      <4> QED
        BY <4>2, <4>5, <1>5 DEF FirstAbove
    <3>3. FirstAbove(M, h, e, h[e].next)
      BY <3>1 DEF Listed
    <3>4. FirstAbove(M, m, e, m[e].next)
      BY <2>2, <3>1, <3>3, <1>0, <1>5, <1>9, <1>10, <1>11 DEF FirstAbove
    <3>5. FirstAbove(M, m, a, m[a].next)
      <4>1. m[a].next = h[e].next
        BY <2>2, <1>0
      <4>2. FirstAbove(M, m, a, h[e].next)
        <5>1. PICK n : n = h[e].next
          OBVIOUS
        <5>2. CASE n = Null
          <6>1. \A f \in FreeOf(M, h) : f <= e
            BY <5>1, <5>2, <3>3 DEF FirstAbove
          <6>2. \A f \in FreeOf(M, m) : f <= a
            BY <6>1, <3>1, <1>5, <1>9, <1>10
          <6> QED
            BY <5>1, <5>2, <6>2 DEF FirstAbove
        <5>3. CASE n /= Null
          <6>1. /\ n \in FreeOf(M, h) /\ e < n
                /\ \A f \in FreeOf(M, h) : f <= e \/ n <= f
            BY <5>1, <5>3, <3>3 DEF FirstAbove
          <6>2. n \in Nat /\ (a < n \/ n <= e)
            BY <6>1, <1>9, <1>11
          <6>3. a < n
            BY <6>1, <6>2, <3>1
          <6>4. \A f \in FreeOf(M, m) : f <= a \/ n <= f
            BY <6>1, <3>1, <1>5, <1>9, <1>10
          <6> QED
            BY <5>1, <5>3, <6>1, <6>3, <6>4, <1>5 DEF FirstAbove
        <5> QED
          BY <5>2, <5>3
      <4> QED
        BY <4>1, <4>2
    <3>6. ASSUME NEW f \in FreeOf(M, h), f /= e
          PROVE  FirstAbove(M, m, f, m[f].next)
      <4>1. FirstAbove(M, h, f, h[f].next) /\ m[f] = h[f]
        BY <3>6, <1>0, <1>9 DEF Listed
      <4>2. f < e \/ a < f
        <5>1. f \in Nat /\ e \in Nat /\ f /= e
          BY <3>1, <3>6, <1>9
        <5>2. a < f \/ f <= e
          BY <3>6, <1>11
        <5> QED
          BY <5>1, <5>2
      <4>3. CASE f < e
        <5>1. f \in Nat /\ e \in Nat /\ ~(e <= f)
          BY <4>3, <3>1, <3>6, <1>9
        <5>2. PICK n : n = h[f].next
          OBVIOUS
        <5>3. n /= Null
          BY <4>1, <5>1, <5>2, <3>1 DEF FirstAbove
        <5>4. /\ n \in FreeOf(M, h) /\ f < n
              /\ \A g \in FreeOf(M, h) : g <= f \/ n <= g
          BY <4>1, <5>2, <5>3 DEF FirstAbove
        <5>5. n <= e /\ n \in Nat
          BY <5>1, <5>4, <3>1, <1>9
        <5>6. n <= a
          BY <5>1, <5>5, <3>1, <1>10
        <5>7. \A g \in FreeOf(M, m) : g <= f \/ n <= g
          BY <5>4, <5>6, <1>5
        <5>8. FirstAbove(M, m, f, n)
          BY <5>3, <5>4, <5>7, <1>5 DEF FirstAbove
        <5> QED
          BY <4>1, <5>2, <5>8
      <4>4. CASE a < f
        BY <4>1, <4>4, <1>5, <1>9, <1>10 DEF FirstAbove
      <4> QED
        BY <4>2, <4>3, <4>4
    <3> QED
      BY <3>2, <3>4, <3>5, <3>6, <2>2, <1>5 DEF Listed
  <2> QED
    BY <2>1, <2>2
<1>13. Apart(k, M, m, {a, e})
  <2> SUFFICES ASSUME NEW f \in FreeOf(M, h), f /= e
               PROVE  EndAt(k, h, f) \notin FreeOf(M, h) \union {a}
    BY <1>5, <1>6, <1>9 DEF Apart
  <2>1. EndAt(k, h, f) \notin FreeOf(M, h)
    BY DEF Apart
  <2>2. ASSUME EndAt(k, h, f) = a
        PROVE  FALSE
    <3>1. f \in ChunksOf(M, h) /\ f \in Nat
      BY <1>9 DEF FreeOf, ChunksOf
    <3>2. f + 2 <= a
      BY <3>1, <2>2, ChunkBounds
    <3>3. e /= Null /\ f <= e
      BY <3>1, <3>2, <1>10, <1>11
    <3>4. e \in ChunksOf(M, h) /\ e < a /\ e \in Nat
      BY <3>3, <1>9 DEF GoesAfter, FreeOf, ChunksOf
    <3>5. f < e
      BY <3>1, <3>3, <3>4
    <3>6. EndAt(k, h, f) <= e
      BY <3>1, <3>4, <3>5, Below
    <3> QED
      BY <3>4, <3>6, <2>2, <1>10
  <2> QED
    BY <2>1, <2>2
<1> QED
  BY <1>5, <1>6, <1>8, <1>12, <1>13 DEF Inserted

-----------------------------------------------------------------------------
(* Merging.                                                                *)

LEMMA MergeFields ==
  ASSUME NEW k \in Nat \ {0}, NEW M \in Nat,
         NEW h, NEW end, Tiles(k, M, h, end), NEW x \in FreeOf(M, h),
         NEW y \in FreeOf(M, h), EndAt(k, h, x) = y
  PROVE  LET m == Fused(k, h, x, y)
         IN  /\ m \in [Mem(M) -> Heads(M)]
             /\ m[x].status = "free" /\ m[x].next = h[y].next
             /\ m[x].units = h[x].units + h[y].units + k
             /\ m[y].status = "none"
             /\ \A a \in Mem(M) \ {x, y} : m[a] = h[a]
             /\ x < y /\ EndAt(k, m, x) = EndAt(k, h, y)
<1>1. PICK m : m = Fused(k, h, x, y)
  OBVIOUS
<1>2. /\ x \in ChunksOf(M, h) /\ x \in Mem(M) /\ h[x].status = "free"
      /\ y \in ChunksOf(M, h) /\ y \in Mem(M)
  BY DEF FreeOf, ChunksOf
<1>3. /\ x \in Nat /\ h[x] \in Heads(M) /\ h[x].units \in Nat
      /\ y \in Nat /\ h[y] \in Heads(M) /\ h[y].units \in Nat
      /\ h[y].next \in Ptrs(M) /\ x + 2 <= EndAt(k, h, x)
      /\ EndAt(k, h, y) <= end /\ end \in Nat /\ end <= M
  BY <1>2, ChunkBounds
<1>4. x < y /\ x /= y
  BY <1>3
<1>5. h \in [Mem(M) -> Heads(M)] /\ M \in Nat
  BY DEF Tiles
<1>6. /\ y = x + h[x].units + k
      /\ EndAt(k, h, y) = y + h[y].units + k
  BY DEF EndAt
<1>7. h[x].units + h[y].units + k \in 0 .. M
  BY <1>3, <1>5, <1>6
<1> DEFINE low == [h[x] EXCEPT !.units = h[x].units + h[y].units + k,
                               !.next = h[y].next]
<1>8. /\ low \in Heads(M) /\ low.status = "free" /\ low.next = h[y].next
      /\ low.units = h[x].units + h[y].units + k
  BY <1>2, <1>3, <1>7 DEF Heads, Ptrs
<1>9. NoHeader \in Heads(M) /\ NoHeader.status = "none"
  BY <1>5 DEF NoHeader, Heads, Ptrs
<1>10. m = [h EXCEPT ![x] = low, ![y] = NoHeader]
  BY <1>1, <1>2, <1>4, <1>5 DEF Fused
<1> HIDE DEF low
<1>11. /\ m \in [Mem(M) -> Heads(M)] /\ m[x] = low /\ m[y] = NoHeader
       /\ \A a \in Mem(M) \ {x, y} : m[a] = h[a]
  BY <1>10, <1>8, <1>9, <1>2, <1>4, <1>5
<1>12. EndAt(k, m, x) = EndAt(k, h, y)
  BY <1>11, <1>8, <1>6, <1>3 DEF EndAt
<1> QED
  BY <1>1, <1>4, <1>8, <1>9, <1>11, <1>12

(* Two free chunks that touch become one.                                  *)
LEMMA MergeKeeps ==
  ASSUME NEW k \in Nat \ {0}, NEW M \in Nat,
         NEW h, NEW end, NEW head, Tiles(k, M, h, end), Listed(M, h, head),
         NEW x \in FreeOf(M, h), NEW y \in FreeOf(M, h), EndAt(k, h, x) = y
  PROVE  LET m == Fused(k, h, x, y)
         IN  /\ Tiles(k, M, m, end) /\ Listed(M, m, head)
             /\ FreeOf(M, m) = FreeOf(M, h) \ {y} /\ x /= y
             /\ InUseOf(M, m) = InUseOf(M, h)
             /\ m[x].units >= h[x].units /\ m[x].units >= h[y].units
             /\ EndAt(k, m, x) = EndAt(k, h, y)
             /\ \A a \in FreeOf(M, m) \ {x} : EndAt(k, m, a) = EndAt(k, h, a)
             /\ \A a \in InUseOf(M, h) : m[a] = h[a]
             /\ \A p : Before(M, h, head, p, x) => Before(M, m, head, p, x)
<1>1. PICK m : m = Fused(k, h, x, y)
  OBVIOUS
<1>2. /\ m \in [Mem(M) -> Heads(M)]
      /\ m[x].status = "free" /\ m[x].next = h[y].next
      /\ m[x].units = h[x].units + h[y].units + k
      /\ m[y].status = "none"
      /\ \A a \in Mem(M) \ {x, y} : m[a] = h[a]
      /\ x < y /\ EndAt(k, m, x) = EndAt(k, h, y)
  BY <1>1, MergeFields
<1>3. /\ x \in ChunksOf(M, h) /\ x \in Mem(M) /\ h[x].status = "free"
      /\ y \in ChunksOf(M, h) /\ y \in Mem(M) /\ h[y].status = "free"
  BY DEF FreeOf, ChunksOf
<1>4. /\ x \in Nat /\ h[x].units \in Nat \ {0}
      /\ y \in Nat /\ h[y].units \in Nat \ {0}
  BY <1>3, ChunkBounds
<1>5. x /= y
  BY <1>2, <1>4
<1>6. /\ ChunksOf(M, m) = ChunksOf(M, h) \ {y}
      /\ FreeOf(M, m) = FreeOf(M, h) \ {y}
      /\ InUseOf(M, m) = InUseOf(M, h)
  BY <1>2, <1>3 DEF ChunksOf, FreeOf, InUseOf
<1>7. \A a \in ChunksOf(M, h) : a \in Mem(M) /\ a \in Nat
  BY DEF ChunksOf, Mem
<1>8. \A a \in ChunksOf(M, m) \ {x} : /\ m[a] = h[a]
                                   /\ EndAt(k, m, a) = EndAt(k, h, a)
                                   /\ a \in ChunksOf(M, h) \ {x, y}
  BY <1>2, <1>6, <1>7 DEF EndAt
(* No chunk but x ends where y begins, and none begins between them.       *)
<1>9. ASSUME NEW a \in ChunksOf(M, h), a < y
      PROVE  a <= x
  <2> SUFFICES ASSUME x < a PROVE FALSE
    BY <1>4, <1>7
  <2>1. y <= a
    BY <1>3, Below
  <2> QED
    BY <2>1, <1>9, <1>4, <1>7
<1>10. ASSUME NEW a \in ChunksOf(M, h), a /= x
       PROVE  EndAt(k, h, a) /= y
  <2> SUFFICES ASSUME EndAt(k, h, a) = y PROVE FALSE
    OBVIOUS
  <2>0. a + 2 <= EndAt(k, h, a) /\ a \in Nat
    BY ChunkBounds
  <2>1. a + 2 <= y /\ a \in Nat
    BY <2>0
  <2>2. a < x
    BY <2>1, <1>4, <1>9, <1>10
  <2>3. EndAt(k, h, a) <= x
    BY <2>2, <1>3, Below
  <2> QED
    BY <2>3, <1>2, <1>4
<1>11. Tiles(k, M, m, end)
  <2>1. end > 0 => 0 \in ChunksOf(M, m)
    BY <1>2, <1>4, <1>6 DEF Tiles
  <2>2. ASSUME NEW a \in ChunksOf(M, m)
        PROVE  /\ m[a].units >= 1
               /\ EndAt(k, m, a) \in ChunksOf(M, m) \union {end}
               /\ EndAt(k, m, a) <= end
    <3>1. CASE a = x
      <4>1. m[a].units >= 1
        BY <3>1, <1>2, <1>4
      <4>2. /\ EndAt(k, h, y) \in ChunksOf(M, h) \union {end}
            /\ EndAt(k, h, y) <= end /\ y + 2 <= EndAt(k, h, y)
        BY <1>3, ChunkBounds DEF Tiles
      <4>3. EndAt(k, h, y) /= y
        BY <1>3, <1>10, <1>5
      <4> QED
        BY <3>1, <4>1, <4>2, <4>3, <1>2, <1>6
    <3>2. CASE a /= x
      <4>1. m[a] = h[a] /\ EndAt(k, m, a) = EndAt(k, h, a)
            /\ a \in ChunksOf(M, h)
        BY <3>2, <1>8
      <4> QED
        BY <3>2, <4>1, <1>6, <1>10 DEF Tiles
    <3> QED
      BY <3>1, <3>2
  <2>3. ASSUME NEW a \in ChunksOf(M, m), NEW b \in ChunksOf(M, m), a < b
        PROVE  EndAt(k, m, a) <= b
    <3>1. CASE a = x
      <4>1. b \in ChunksOf(M, h) /\ b /= y /\ b \in Nat
        BY <1>6, <1>7
      <4>2. y < b
        BY <4>1, <3>1, <2>3, <1>4, <1>9
      <4> QED
        BY <3>1, <4>1, <4>2, <1>2, <1>3, Below
    <3>2. CASE a /= x
      BY <3>2, <2>3, <1>6, <1>8, Below
    <3> QED
      BY <3>1, <3>2
  <2> QED
    BY <2>1, <2>2, <2>3, <1>2 DEF Tiles
<1>12. \A f \in FreeOf(M, h) : f \in ChunksOf(M, h) /\ f \in Nat /\ f /= Null
  BY <1>7, NullAssumption DEF FreeOf, ChunksOf
<1>13. Listed(M, m, head)
  <2>1. FirstAbove(M, m, -1, head)
    <3>1. FirstAbove(M, h, -1, head)
      BY DEF Listed
    <3>2. head /= y
      BY <3>1, <1>2, <1>4, <1>12 DEF FirstAbove
    <3> QED
      BY <3>1, <3>2, <1>6 DEF FirstAbove
  <2>2. FirstAbove(M, m, x, m[x].next)
    <3>1. FirstAbove(M, h, y, h[y].next)
      BY DEF Listed
    <3>2. FirstAbove(M, m, x, h[y].next)
      BY <3>1, <1>2, <1>4, <1>6, <1>9, <1>12 DEF FirstAbove
    <3> QED
      BY <3>2, <1>2
  <2>3. ASSUME NEW f \in FreeOf(M, m), f /= x
        PROVE  FirstAbove(M, m, f, m[f].next)
    <3>1. f \in FreeOf(M, h) /\ f \in ChunksOf(M, m) /\ f /= y
      BY <1>6 DEF FreeOf, ChunksOf
    <3>2. FirstAbove(M, h, f, h[f].next) /\ m[f].next = h[f].next
      BY <2>3, <3>1, <1>8 DEF Listed
    <3>3. h[f].next /= y
      <4> SUFFICES ASSUME h[f].next = y PROVE FALSE
        OBVIOUS
      <4>1. f < y /\ (x <= f \/ y <= x)
        BY <3>2, <1>12 DEF FirstAbove
      <4>2. f <= x
        BY <4>1, <3>1, <1>9, <1>12
      <4> QED
        BY <4>1, <4>2, <2>3, <3>1, <1>2, <1>4, <1>12
    <3> QED
      BY <3>2, <3>3, <1>6 DEF FirstAbove
  <2> QED
    BY <2>1, <2>2, <2>3 DEF Listed
<1>14. ASSUME NEW p, Before(M, h, head, p, x)
       PROVE  Before(M, m, head, p, x)
  <2>1. CASE p = Null
    BY <2>1, <1>14 DEF Before
  <2>2. CASE p /= Null
    <3>1. p \in FreeOf(M, h) /\ h[p].next = x
      BY <2>2, <1>14 DEF Before
    <3>2. p < x
      BY <2>2, <1>14, OneBefore
    <3>3. p /= x /\ p /= y
      BY <3>1, <3>2, <1>2, <1>4, <1>12
    <3>4. p \in FreeOf(M, m) /\ m[p] = h[p]
      BY <3>1, <3>3, <1>2, <1>6 DEF FreeOf
    <3> QED
      BY <2>2, <3>1, <3>4 DEF Before
  <2> QED
    BY <2>1, <2>2
<1>15. \A a \in FreeOf(M, m) \ {x} : EndAt(k, m, a) = EndAt(k, h, a)
  BY <1>8 DEF FreeOf, ChunksOf
<1>16. \A a \in InUseOf(M, h) : m[a] = h[a]
  BY <1>2, <1>3 DEF InUseOf
<1>17. m[x].units >= h[x].units /\ m[x].units >= h[y].units
  BY <1>2, <1>4
<1> QED
  BY <1>1, <1>2, <1>5, <1>6, <1>11, <1>13, <1>14, <1>15, <1>16, <1>17

(* A chunk that may touch the next free one is merged with it.             *)
LEMMA JoinKeeps ==
  ASSUME NEW k \in Nat \ {0}, NEW M \in Nat,
         NEW h, NEW end, NEW head, Tiles(k, M, h, end), Listed(M, h, head),
         NEW j \in FreeOf(M, h), Apart(k, M, h, {j})
  PROVE  LET m == FusedWithNext(k, h, j, end)
         IN  /\ Tiles(k, M, m, end) /\ Listed(M, m, head) /\ Apart(k, M, m, {})
             /\ InUseOf(M, m) = InUseOf(M, h)
             /\ \A a \in InUseOf(M, h) : m[a] = h[a]
             /\ j \in FreeOf(M, m) /\ m[j].units >= h[j].units
             /\ \A p : Before(M, h, head, p, j) => Before(M, m, head, p, j)
<1>1. PICK m : m = FusedWithNext(k, h, j, end)
  OBVIOUS
<1>2. PICK n : n = EndAt(k, h, j)
  OBVIOUS
<1>3. j \in ChunksOf(M, h) /\ FreeOf(M, h) \subseteq ChunksOf(M, h)
  BY DEF FreeOf, ChunksOf
<1>4. CASE n \in FreeOf(M, h)
  <2>1. Touching(k, h, j, end) = n /\ n /= Null
    BY <1>2, <1>3, <1>4, Adjacent
  <2>2. m = Fused(k, h, j, n)
    BY <1>1, <1>4, <2>1 DEF FusedWithNext, FreeOf
  <2>3. /\ Tiles(k, M, m, end) /\ Listed(M, m, head)
        /\ FreeOf(M, m) = FreeOf(M, h) \ {n} /\ j /= n
        /\ InUseOf(M, m) = InUseOf(M, h)
        /\ m[j].units >= h[j].units
        /\ EndAt(k, m, j) = EndAt(k, h, n)
        /\ \A a \in FreeOf(M, m) \ {j} : EndAt(k, m, a) = EndAt(k, h, a)
        /\ \A a \in InUseOf(M, h) : m[a] = h[a]
        /\ \A p : Before(M, h, head, p, j) => Before(M, m, head, p, j)
    BY <1>2, <1>4, <2>2, MergeKeeps
  <2>4. Apart(k, M, m, {})
    BY <1>4, <2>3 DEF Apart
  <2> QED
    BY <1>1, <2>3, <2>4
<1>5. CASE n \notin FreeOf(M, h)
  <2>1. Touching(k, h, j, end) = Null \/ Touching(k, h, j, end) = n
    BY <1>2, <1>3, Adjacent
  <2>2. n \in ChunksOf(M, h) => h[n].status /= "free"
    BY <1>5 DEF FreeOf, ChunksOf
  <2>3. Touching(k, h, j, end) /= Null => n \in ChunksOf(M, h)
    BY <1>2, <1>3, Adjacent
  <2>4. m = h
    BY <1>1, <2>1, <2>2, <2>3 DEF FusedWithNext
  <2>5. Apart(k, M, h, {})
    BY <1>2, <1>5 DEF Apart
  <2>6. h[j].units \in Nat
    BY <1>3, ChunkBounds
  <2> QED
    BY <1>1, <2>4, <2>5, <2>6
<1> QED
  BY <1>4, <1>5

LEMMA InsertFirst ==
  ASSUME NEW k \in Nat \ {0}, NEW M \in Nat,
         NEW h, NEW end, NEW head, Tiles(k, M, h, end), Listed(M, h, head),
         Apart(k, M, h, {}), NEW a \in InUseOf(M, h), GoesAfter(M, h, Null, a)
  PROVE  LET m == AtFront(k, h, head, a, end)
         IN  /\ Tiles(k, M, m, end) /\ Listed(M, m, a) /\ Apart(k, M, m, {})
             /\ InUseOf(M, m) = InUseOf(M, h) \ {a}
             /\ \A x \in InUseOf(M, m) : m[x] = h[x]
             /\ a \in FreeOf(M, m) /\ m[a].units >= h[a].units
<1>2. PICK freed : freed = [h EXCEPT ![a].status = "free", ![a].next = head]
  OBVIOUS
<1>3. h \in [Mem(M) -> Heads(M)] /\ a \in ChunksOf(M, h) /\ a \in Mem(M)
  BY DEF Tiles, InUseOf, ChunksOf
<1>4. h[a] \in Heads(M) /\ h[a].units \in Nat /\ a \in Nat
  BY <1>3, ChunkBounds
<1>5. head \in Ptrs(M)
  BY DEF Listed, FirstAbove, FreeOf, Ptrs
<1> DEFINE b == [h[a] EXCEPT !.status = "free", !.next = head]
<1>6. /\ b \in Heads(M) /\ b.status = "free" /\ b.units = h[a].units
      /\ b.next = head
  BY <1>4, <1>5 DEF Heads, Ptrs
<1>7. freed = [h EXCEPT ![a] = b]
  BY <1>2, <1>3
<1> HIDE DEF b
<1>8. /\ freed \in [Mem(M) -> Heads(M)] /\ freed[a] = b
      /\ \A x \in Mem(M) \ {a} : freed[x] = h[x]
  BY <1>3, <1>6, <1>7
<1>9. /\ freed[a].status = "free" /\ freed[a].units = h[a].units
      /\ freed[a].next = head
  BY <1>6, <1>8
<1>10. /\ Tiles(k, M, freed, end)
       /\ Listed(M, freed, a)
       /\ Apart(k, M, freed, {a, Null})
       /\ FreeOf(M, freed) = FreeOf(M, h) \union {a}
       /\ InUseOf(M, freed) = InUseOf(M, h) \ {a}
  <2>1. Linked(M, h, head, Null, a, freed)
    BY <1>8, <1>9 DEF Linked
  <2>2. Inserted(k, M, h, end, head, Null, a, freed)
    BY <2>1, LinkKeeps
  <2> QED
    BY <2>2 DEF Inserted
<1>11. Null \notin FreeOf(M, freed) /\ a \in FreeOf(M, freed)
       /\ Listed(M, freed, a)
  BY <1>10, NullAssumption DEF FreeOf, Mem
<1>12. Apart(k, M, freed, {a})
  BY <1>10, <1>11 DEF Apart
<1>13. AtFront(k, h, head, a, end)
         = IF head /= Null /\ Touching(k, freed, a, end) = head
           THEN Fused(k, freed, a, head) ELSE freed
  BY <1>2 DEF AtFront
<1>14. FirstAbove(M, freed, a, head)
  BY <1>9, <1>11 DEF Listed
<1>15. PICK n : n = Touching(k, freed, a, end)
  OBVIOUS
<1>16. FusedWithNext(k, freed, a, end)
         = IF n /= Null /\ freed[n].status = "free"
           THEN Fused(k, freed, a, n) ELSE freed
  BY <1>15 DEF FusedWithNext
<1>17. ASSUME head /= Null, n = head
       PROVE  n /= Null /\ freed[n].status = "free"
  BY <1>14, <1>17 DEF FirstAbove, FreeOf
<1>18. ASSUME n /= Null, freed[n].status = "free"
       PROVE  head /= Null /\ n = head
  <2>1. a \in ChunksOf(M, freed)
    BY <1>11 DEF FreeOf, ChunksOf
  <2>2. n = EndAt(k, freed, a) /\ n \in ChunksOf(M, freed)
    BY <1>15, <1>18, <1>10, <2>1, Adjacent
  <2>3. n \in FreeOf(M, freed) /\ n \in Nat
    BY <1>18, <2>2 DEF FreeOf, ChunksOf, Mem
  <2>4. a + 2 <= n
    BY <2>1, <2>2, <1>10, ChunkBounds
  <2>5. head /= Null /\ head \in FreeOf(M, freed) /\ a < head /\ head <= n
    BY <1>14, <2>3, <2>4, <1>4 DEF FirstAbove
  <2>6. head \in ChunksOf(M, freed) /\ head \in Nat
    BY <2>5 DEF FreeOf, ChunksOf, Mem
  <2>7. n <= head
    <3>1. Tiles(k, M, freed, end) /\ a < head
      BY <1>10, <2>5
    <3>2. EndAt(k, freed, a) <= head
      BY <2>1, <2>6, <3>1, Below
    <3> QED
      BY <2>2, <3>2
  <2> QED
    BY <2>3, <2>5, <2>6, <2>7
<1>19. AtFront(k, h, head, a, end) = FusedWithNext(k, freed, a, end)
  BY <1>13, <1>15, <1>16, <1>17, <1>18
<1>20. PICK m : m = FusedWithNext(k, freed, a, end)
  OBVIOUS
<1>21. /\ Tiles(k, M, m, end) /\ Listed(M, m, a) /\ Apart(k, M, m, {})
       /\ InUseOf(M, m) = InUseOf(M, freed)
       /\ \A x \in InUseOf(M, freed) : m[x] = freed[x]
       /\ a \in FreeOf(M, m) /\ m[a].units >= freed[a].units
  <2>1. /\ Tiles(k, M, freed, end) /\ Listed(M, freed, a)
        /\ Apart(k, M, freed, {a})
        /\ a \in FreeOf(M, freed)
    BY <1>10, <1>11, <1>12
  <2> QED
    BY <1>20, <2>1, JoinKeeps
<1>22. \A x \in InUseOf(M, h) \ {a} : freed[x] = h[x]
  BY <1>8 DEF InUseOf
<1> QED
  BY <1>9, <1>10, <1>19, <1>20, <1>21, <1>22

LEMMA InsertAfter ==
  ASSUME NEW k \in Nat \ {0}, NEW M \in Nat,
         NEW h, NEW end, NEW head, Tiles(k, M, h, end), Listed(M, h, head),
         Apart(k, M, h, {}), NEW a \in InUseOf(M, h), NEW e \in FreeOf(M, h),
         GoesAfter(M, h, e, a)
  PROVE  LET m == Behind(k, h, e, a, end)
             j == JoinedAt(k, h, e, a, end)
         IN  /\ Tiles(k, M, m, end) /\ Listed(M, m, head) /\ Apart(k, M, m, {})
             /\ InUseOf(M, m) = InUseOf(M, h) \ {a}
             /\ \A x \in InUseOf(M, m) : m[x] = h[x]
             /\ j \in FreeOf(M, m) /\ m[j].units >= h[a].units
             /\ j = a => Before(M, m, head, e, a)
             /\ j /= a => /\ j = e
                          /\ \A p : Before(M, h, head, p, e)
                                      => Before(M, m, head, p, e)
             /\ a /= e
<1>1. PICK placed : placed = [h EXCEPT ![a].status = "free",
                                       ![a].next = h[e].next, ![e].next = a]
  OBVIOUS
<1>2. /\ h \in [Mem(M) -> Heads(M)]
      /\ a \in ChunksOf(M, h) /\ a \in Mem(M) /\ h[a].status = "in_use"
      /\ e \in ChunksOf(M, h) /\ e \in Mem(M) /\ h[e].status = "free"
  BY DEF Tiles, InUseOf, FreeOf, ChunksOf
<1>3. /\ h[a] \in Heads(M) /\ h[a].units \in Nat /\ a \in Nat
      /\ h[e] \in Heads(M) /\ h[e].units \in Nat /\ e \in Nat
      /\ h[e].next \in Ptrs(M)
  BY <1>2, ChunkBounds
<1>4. a /= e /\ e /= Null
  BY <1>2, <1>3, NullAssumption
<1> DEFINE b == [h[a] EXCEPT !.status = "free", !.next = h[e].next]
           d == [h[e] EXCEPT !.next = a]
<1>5. /\ b \in Heads(M) /\ b.status = "free" /\ b.units = h[a].units
      /\ b.next = h[e].next
  BY <1>3 DEF Heads, Ptrs
<1>6. d \in Heads(M) /\ d.status = "free" /\ d.units = h[e].units /\ d.next = a
  BY <1>2, <1>3 DEF Heads, Ptrs
<1>7. placed = [h EXCEPT ![a] = b, ![e] = d]
  BY <1>1, <1>2, <1>4
<1> HIDE DEF b, d
<1>8. /\ placed \in [Mem(M) -> Heads(M)] /\ placed[a] = b /\ placed[e] = d
      /\ \A x \in Mem(M) \ {a, e} : placed[x] = h[x]
  BY <1>2, <1>4, <1>5, <1>6, <1>7
<1>9. /\ placed[a].status = "free" /\ placed[a].units = h[a].units
      /\ placed[a].next = h[e].next
      /\ placed[e].status = "free" /\ placed[e].units = h[e].units
      /\ placed[e].next = a
  BY <1>4, <1>5, <1>6, <1>8
<1>10. /\ Tiles(k, M, placed, end)
       /\ Listed(M, placed, head)
       /\ Apart(k, M, placed, {a, e})
       /\ FreeOf(M, placed) = FreeOf(M, h) \union {a}
       /\ InUseOf(M, placed) = InUseOf(M, h) \ {a}
       /\ \A x \in Mem(M) : EndAt(k, placed, x) = EndAt(k, h, x)
  <2>1. Linked(M, h, head, e, a, placed)
    BY <1>4, <1>8, <1>9 DEF Linked
  <2>2. a \in InUseOf(M, h) /\ e /= Null /\ GoesAfter(M, h, e, a)
    BY <1>4
  <2>3. Inserted(k, M, h, end, head, e, a, placed)
    BY <2>1, <2>2, LinkKeeps
  <2> QED
    BY <2>2, <2>3 DEF Inserted
<1>11. Listed(M, placed, head)
  BY <1>4, <1>10
<1>12. PICK j : j = JoinedAt(k, h, e, a, end)
  OBVIOUS
<1>13. j = IF EndAt(k, h, e) = a THEN e ELSE a
  <2>1. a /= Null
    BY <1>3, NullAssumption
  <2>2. Touching(k, h, e, end) = a <=> EndAt(k, h, e) = a
    BY <1>2, <2>1, Adjacent
  <2> QED
    BY <1>12, <2>2 DEF JoinedAt
<1>14. PICK lower : lower = IF j = e THEN Fused(k, placed, e, a) ELSE placed
  OBVIOUS
<1>15. Behind(k, h, e, a, end) = FusedWithNext(k, lower, j, end)
  BY <1>1, <1>12, <1>14 DEF Behind
<1>16. Before(M, placed, head, e, a)
  BY <1>4, <1>9, <1>10 DEF Before
<1>17. ASSUME NEW p, Before(M, h, head, p, e)
       PROVE  Before(M, placed, head, p, e)
  <2>1. CASE p = Null
    BY <2>1, <1>17 DEF Before
  <2>2. CASE p /= Null
    <3>1. p \in FreeOf(M, h) /\ h[p].next = e
      BY <1>17, <2>2 DEF Before
    <3>2. p < e
      BY <1>17, <2>2, OneBefore
    <3>3. p \in Mem(M) /\ p /= e /\ h[p].status = "free"
      BY <3>1, <3>2, <1>3 DEF FreeOf
    <3>4. p /= a
      BY <3>3, <1>2
    <3>5. placed[p] = h[p]
      BY <3>3, <3>4, <1>8
    <3> QED
      BY <2>2, <3>1, <3>5, <1>10 DEF Before
  <2> QED
    BY <2>1, <2>2
<1>18. /\ Tiles(k, M, lower, end) /\ Listed(M, lower, head)
       /\ Apart(k, M, lower, {j})
       /\ InUseOf(M, lower) = InUseOf(M, placed)
       /\ \A x \in InUseOf(M, placed) : lower[x] = placed[x]
       /\ j \in FreeOf(M, lower) /\ lower[j].units >= h[a].units
       /\ j = a => Before(M, lower, head, e, a)
       /\ j /= a => \A p : Before(M, h, head, p, e)
                             => Before(M, lower, head, p, e)
  <2>1. CASE EndAt(k, h, e) = a
    <3>1. j = e /\ lower = Fused(k, placed, e, a)
      BY <2>1, <1>13, <1>14
    <3>2. e \in FreeOf(M, placed) /\ a \in FreeOf(M, placed)
          /\ EndAt(k, placed, e) = a
      BY <2>1, <1>2, <1>10
    <3>3. /\ Tiles(k, M, lower, end) /\ Listed(M, lower, head)
          /\ FreeOf(M, lower) = FreeOf(M, placed) \ {a}
          /\ InUseOf(M, lower) = InUseOf(M, placed)
          /\ lower[e].units >= placed[a].units
          /\ \A f \in FreeOf(M, lower) \ {e} :
               EndAt(k, lower, f) = EndAt(k, placed, f)
          /\ \A x \in InUseOf(M, placed) : lower[x] = placed[x]
          /\ \A p : Before(M, placed, head, p, e)
                      => Before(M, lower, head, p, e)
      BY <3>1, <3>2, <1>10, <1>11, MergeKeeps
    <3>4. Apart(k, M, lower, {e})
      BY <3>3, <1>10 DEF Apart
    <3> QED
      BY <3>1, <3>2, <3>3, <3>4, <1>4, <1>9, <1>17
  <2>2. CASE EndAt(k, h, e) /= a
    <3>1. j = a /\ lower = placed
      BY <2>2, <1>4, <1>13, <1>14
    <3>2. EndAt(k, h, e) \notin FreeOf(M, h)
      BY DEF Apart
    <3>3. EndAt(k, placed, e) \notin FreeOf(M, placed)
      BY <3>2, <2>2, <1>2, <1>10
    <3>4. Apart(k, M, placed, {a})
      BY <3>3, <1>10 DEF Apart
    <3>5. placed[a].units >= h[a].units
      BY <1>3, <1>9
    <3> QED
      BY <3>1, <3>4, <3>5, <1>10, <1>11, <1>16
  <2> QED
    BY <2>1, <2>2
<1>19. PICK m : m = FusedWithNext(k, lower, j, end)
  OBVIOUS
<1>20. /\ Tiles(k, M, m, end) /\ Listed(M, m, head) /\ Apart(k, M, m, {})
       /\ InUseOf(M, m) = InUseOf(M, lower)
       /\ \A x \in InUseOf(M, lower) : m[x] = lower[x]
       /\ j \in FreeOf(M, m) /\ m[j].units >= lower[j].units
       /\ \A p : Before(M, lower, head, p, j) => Before(M, m, head, p, j)
  BY <1>18, <1>19, JoinKeeps
<1>21. m[j].units >= h[a].units
  <2>1. j \in ChunksOf(M, m) /\ j \in ChunksOf(M, lower)
    BY <1>18, <1>20 DEF FreeOf, ChunksOf
  <2>2. m[j].units \in Nat /\ lower[j].units \in Nat
    BY <2>1, <1>18, <1>20, ChunkBounds
  <2> QED
    BY <2>2, <1>3, <1>18, <1>20
<1>22. \A x \in InUseOf(M, h) \ {a} : placed[x] = h[x]
  BY <1>2, <1>8 DEF InUseOf
<1>23. j /= a => j = e
  BY <1>13
<1> QED
  BY <1>4, <1>10, <1>12, <1>15, <1>18, <1>19, <1>20, <1>21, <1>22, <1>23

-----------------------------------------------------------------------------
(* Blocks.                                                                 *)

LEMMA BlockGiven ==
  ASSUME NEW M \in Nat,
         NEW taken, NEW h, BlocksIn(M, taken, h, {}),
         NEW s \in Mem(M), s + 1 \in Mem(M), s \notin InUseOf(M, h),
         NEW n \in 1 .. MaxRequest,
         NEW m, InUseOf(M, m) = InUseOf(M, h) \union {s}, n <= m[s].units,
         \A x \in InUseOf(M, h) : m[x] = h[x]
  PROVE  BlocksIn(M, taken \union {[at |-> s + 1, units |-> n]}, m, {})
<1> DEFINE new == [at |-> s + 1, units |-> n]
<1>1. s \in Nat /\ s + 1 - 1 = s
  BY DEF Mem
<1>2. /\ taken \subseteq [at : Mem(M), units : 1 .. MaxRequest]
      /\ \A b \in taken : /\ b.at - 1 \in InUseOf(M, h)
                          /\ b.units <= h[b.at - 1].units
      /\ \A a \in InUseOf(M, h) : \E b \in taken : b.at = a + 1
      /\ \A a, b \in taken : a.at = b.at => a = b
  BY DEF BlocksIn
<1>3. new \in [at : Mem(M), units : 1 .. MaxRequest] /\ new.at = s + 1
      /\ new.units = n
  OBVIOUS
<1> HIDE DEF new
<1>4. ASSUME NEW b \in taken \union {new}
      PROVE  b.at - 1 \in InUseOf(M, m) /\ b.units <= m[b.at - 1].units
  <2>1. CASE b \in taken
    BY <2>1, <1>2
  <2>2. CASE b = new
    BY <2>2, <1>1, <1>3
  <2> QED
    BY <2>1, <2>2
<1>5. ASSUME NEW a \in InUseOf(M, m)
      PROVE  \E b \in taken \union {new} : b.at = a + 1
  BY <1>2, <1>3
<1>6. ASSUME NEW b \in taken
      PROVE  b.at /= new.at
  BY <1>1, <1>2, <1>3
<1>7. \A a, b \in taken \union {new} : a.at = b.at => a = b
  BY <1>2, <1>6
<1>8. BlocksIn(M, taken \union {new}, m, {})
  BY <1>2, <1>3, <1>4, <1>5, <1>7 DEF BlocksIn
<1> QED
  BY <1>8 DEF new

LEMMA BlockReturned ==
  ASSUME NEW M \in Nat,
         NEW taken, NEW h, BlocksIn(M, taken, h, {}), NEW b \in taken
  PROVE  /\ b.at - 1 \in InUseOf(M, h)
         /\ BlocksIn(M, taken \ {b}, h, {b.at - 1})
<1>1. /\ taken \subseteq [at : Mem(M), units : 1 .. MaxRequest]
      /\ \A d \in taken : /\ d.at - 1 \in InUseOf(M, h)
                          /\ d.units <= h[d.at - 1].units
      /\ \A a \in InUseOf(M, h) : \E d \in taken : d.at = a + 1
      /\ \A a, d \in taken : a.at = d.at => a = d
  BY DEF BlocksIn
<1>2. \A d \in taken : d.at \in Nat
  BY <1>1 DEF Mem
<1>3. ASSUME NEW d \in taken \ {b}
      PROVE  d.at - 1 \in InUseOf(M, h) \ {b.at - 1}
  <2>1. d.at /= b.at /\ d.at \in Nat /\ b.at \in Nat
    BY <1>1, <1>2
  <2>2. d.at - 1 /= b.at - 1
    BY <2>1
  <2> QED
    BY <2>2, <1>1
<1>4. ASSUME NEW a \in InUseOf(M, h) \ {b.at - 1}
      PROVE  \E d \in taken \ {b} : d.at = a + 1
  <2>1. PICK d \in taken : d.at = a + 1
    BY <1>1
  <2>2. a \in Nat
    BY DEF InUseOf, Mem
  <2>3. d.at - 1 = a
    BY <2>1, <2>2
  <2> QED
    BY <2>1, <2>3
<1> QED
  BY <1>1, <1>3, <1>4 DEF BlocksIn

LEMMA BlocksStay ==
  ASSUME NEW M \in Nat,
         NEW taken, NEW h, NEW out, BlocksIn(M, taken, h, out),
         NEW m, InUseOf(M, m) = InUseOf(M, h) \ out,
         \A x \in InUseOf(M, m) : m[x] = h[x]
  PROVE  BlocksIn(M, taken, m, {})
  BY DEF BlocksIn

LEMMA NextOnList ==
  ASSUME NEW M \in Nat,
         NEW h, NEW head, Listed(M, h, head)
  PROVE  /\ head \in FreeOf(M, h) \union {Null}
         /\ \A f \in FreeOf(M, h) : h[f].next \in FreeOf(M, h) \union {Null}
  BY DEF Listed, FirstAbove

(* The walk over the list has found the place of a chunk.                  *)
LEMMA PlaceFound ==
  ASSUME NEW k \in Nat \ {0}, NEW M \in Nat,
         NEW h, NEW end, NEW head, Tiles(k, M, h, end), Listed(M, h, head),
         NEW p, NEW n \in FreeOf(M, h) \union {Null}, Before(M, h, head, p, n),
         NEW a \in Nat, p /= Null => p < a, n /= Null => a < n
  PROVE  GoesAfter(M, h, p, a)
<1>1. \A f \in FreeOf(M, h) : f \in Nat
  BY DEF FreeOf, Mem
<1>2. p /= Null => p \in FreeOf(M, h)
  BY DEF Before
<1>3. ASSUME NEW f \in FreeOf(M, h)
      PROVE  a < f \/ (p /= Null /\ f <= p)
  <2>1. CASE n = Null
    <3>1. CASE p = Null
      <4>1. FirstAbove(M, h, -1, Null)
        BY <2>1, <3>1 DEF Before, Listed
      <4>2. f <= -1
        BY <4>1 DEF FirstAbove
      <4> QED
        BY <4>2, <1>1
    <3>2. CASE p /= Null
      <4>1. FirstAbove(M, h, p, Null)
        BY <2>1, <3>2 DEF Before, Listed
      <4> QED
        BY <4>1, <3>2 DEF FirstAbove
    <3> QED
      BY <3>1, <3>2
  <2>2. CASE n /= Null
    <3>1. n \in FreeOf(M, h) /\ n \in Nat /\ a < n
      BY <2>2, <1>1
    <3>2. CASE p = Null
      <4>1. n <= f
        BY <3>1, <3>2, OneBefore
      <4> QED
        BY <4>1, <3>1, <1>1
    <3>3. CASE p /= Null
      <4>1. f <= p \/ n <= f
        BY <3>1, <3>3, OneBefore
      <4> QED
        BY <4>1, <3>1, <3>3, <1>1
    <3> QED
      BY <3>2, <3>3
  <2> QED
    BY <2>1, <2>2
<1> QED
  BY <1>2, <1>3 DEF GoesAfter

(* sbrk gives n units of data, with a header and a footer.                 *)
Extended(h, end, n) ==
  [h EXCEPT ![end] = [status |-> "in_use", units |-> n, next |-> Null]]

(* What becomes of the heap then.                                          *)
GrownBy(k, M, h, end, head, n) ==
  LET m == Extended(h, end, n)
  IN  /\ Tiles(k, M, m, end + n + k) /\ Listed(M, m, head)
      /\ Apart(k, M, m, {})
      /\ FreeOf(M, m) = FreeOf(M, h)
      /\ InUseOf(M, m) = InUseOf(M, h) \union {end}
      /\ end \in Mem(M) /\ end \notin ChunksOf(M, h)
      /\ m[end].units = n
      /\ \A x \in Mem(M) \ {end} : m[x] = h[x]
      /\ \A f \in FreeOf(M, h) : f < end

LEMMA NewChunk ==
  ASSUME NEW k \in Nat \ {0}, NEW M \in Nat,
         NEW h, NEW end, NEW head, NEW n \in Nat \ {0}, end + n + k <= M,
         Tiles(k, M, h, end), Listed(M, h, head), Apart(k, M, h, {})
  PROVE  GrownBy(k, M, h, end, head, n)
<1>0. PICK m : m = Extended(h, end, n)
  OBVIOUS
<1>1. h \in [Mem(M) -> Heads(M)] /\ end \in Nat /\ M \in Nat
  BY DEF Tiles
<1>2. PICK top : top = end + n + k
  OBVIOUS
<1>3. end < top /\ top <= M /\ top \in Nat
  BY <1>1, <1>2
<1>4. end \in Mem(M)
  BY <1>1, <1>3 DEF Mem
<1> DEFINE new == [status |-> "in_use", units |-> n, next |-> Null]
<1>5. new \in Heads(M) /\ new.status = "in_use" /\ new.units = n
  BY <1>1, <1>2, <1>3 DEF Heads, Ptrs
<1> HIDE DEF new
<1>6. m = [h EXCEPT ![end] = new]
  BY <1>0 DEF new, Extended
<1>7. /\ m \in [Mem(M) -> Heads(M)] /\ m[end] = new
      /\ \A x \in Mem(M) \ {end} : m[x] = h[x]
  BY <1>1, <1>4, <1>5, <1>6
<1>8. \A a \in ChunksOf(M, h) : /\ a \in Mem(M) /\ a \in Nat /\ a < end
                             /\ EndAt(k, h, a) \in Nat
  <2> SUFFICES ASSUME NEW a \in ChunksOf(M, h)
               PROVE  /\ a \in Mem(M) /\ a \in Nat /\ a < end
                      /\ EndAt(k, h, a) \in Nat
    OBVIOUS
  <2>1. /\ a \in Mem(M) /\ a \in Nat /\ EndAt(k, h, a) \in Nat
        /\ a + 2 <= EndAt(k, h, a) /\ EndAt(k, h, a) <= end
    BY ChunkBounds
  <2> QED
    BY <2>1, <1>1
<1>9. end \notin ChunksOf(M, h)
  BY <1>8, <1>1
<1>10. h[end].status = "none"
  BY <1>4, <1>9 DEF ChunksOf
<1>11. /\ ChunksOf(M, m) = ChunksOf(M, h) \union {end}
       /\ FreeOf(M, m) = FreeOf(M, h)
       /\ InUseOf(M, m) = InUseOf(M, h) \union {end}
  BY <1>4, <1>5, <1>7, <1>10 DEF ChunksOf, FreeOf, InUseOf
<1>12. EndAt(k, m, end) = top
  BY <1>2, <1>5, <1>7 DEF EndAt
<1>13. \A a \in ChunksOf(M, h) : m[a] = h[a] /\ EndAt(k, m, a) = EndAt(k, h, a)
  BY <1>7, <1>8, <1>9 DEF EndAt
<1>14. Tiles(k, M, m, top)
  <2>1. 0 \in ChunksOf(M, m)
    <3>1. CASE end = 0
      BY <3>1, <1>11
    <3>2. CASE end > 0
      BY <3>2, <1>11 DEF Tiles
    <3> QED
      BY <3>1, <3>2, <1>1
  <2>2. ASSUME NEW a \in ChunksOf(M, m)
        PROVE  /\ m[a].units >= 1
               /\ EndAt(k, m, a) \in ChunksOf(M, m) \union {top}
               /\ EndAt(k, m, a) <= top
    <3>1. CASE a = end
      BY <3>1, <1>3, <1>5, <1>7, <1>12
    <3>2. CASE a \in ChunksOf(M, h)
      <4>1. /\ h[a].units >= 1
            /\ EndAt(k, h, a) \in ChunksOf(M, h) \union {end}
            /\ EndAt(k, h, a) <= end
        BY <3>2 DEF Tiles
      <4>2. EndAt(k, h, a) <= top
        BY <4>1, <3>2, <1>1, <1>3, <1>8
      <4> QED
        BY <3>2, <4>1, <4>2, <1>11, <1>13
    <3> QED
      BY <3>1, <3>2, <1>11
  <2>3. ASSUME NEW a \in ChunksOf(M, m), NEW b \in ChunksOf(M, m), a < b
        PROVE  EndAt(k, m, a) <= b
    <3>1. a \in ChunksOf(M, h)
      <4> SUFFICES ASSUME a = end PROVE FALSE
        BY <1>11
      <4>1. b /= end
        BY <2>3, <1>1
      <4>2. b \in ChunksOf(M, h)
        BY <4>1, <1>11
      <4>3. b \in Nat /\ b < end /\ end < b
        BY <4>2, <2>3, <1>8
      <4> QED
        BY <4>3, <1>1
    <3>2. CASE b = end
      BY <3>1, <3>2, <1>13 DEF Tiles
    <3>3. CASE b \in ChunksOf(M, h)
      BY <3>1, <3>3, <2>3, <1>13, Below
    <3> QED
      BY <3>2, <3>3, <1>11
  <2> QED
    <3>1. top \in 0 .. M
      BY <1>1, <1>3
    <3> QED
      BY <2>1, <2>2, <2>3, <3>1, <1>7 DEF Tiles
<1>15. \A f \in FreeOf(M, h) : f \in ChunksOf(M, h)
  BY DEF FreeOf, ChunksOf
<1>16. Listed(M, m, head)
  BY <1>11, <1>13, <1>15 DEF Listed, FirstAbove
<1>17. Apart(k, M, m, {})
  BY <1>11, <1>13, <1>15 DEF Apart
<1> QED
  BY <1>0, <1>2, <1>4, <1>5, <1>7, <1>8, <1>9, <1>11, <1>14, <1>15, <1>16,
     <1>17 DEF GrownBy

(* The blocks taken are in chunks of h other than s.                       *)
InOthers(M, taken, h, s) ==
  /\ taken \subseteq [at : Mem(M), units : 1 .. MaxRequest]
  /\ \A b \in taken : /\ b.at - 1 \in ChunksOf(M, h) \ {s}
                      /\ b.units <= h[b.at - 1].units

(* Block new is in memory and shares nothing with a block that is held.    *)
Fresh(M, new, taken) ==
  /\ UnitsOf(new) \subseteq Mem(M)
  /\ \A b \in taken : UnitsOf(b) \cap UnitsOf(new) = {}

(* A block that fits into a new chunk in use is such a block.              *)
LEMMA FreshBlock ==
  ASSUME NEW k \in Nat \ {0}, NEW M \in Nat,
         NEW m, NEW end, NEW s, NEW n \in 1 .. MaxRequest, NEW new, NEW taken,
         new = [at |-> s + 1, units |-> n],
         Tiles(k, M, m, end), s \in ChunksOf(M, m), n <= m[s].units,
         InOthers(M, taken, m, s)
  PROVE  Fresh(M, new, taken)
<1>1. new = [at |-> s + 1, units |-> n]
  OBVIOUS
<1>2. new.at = s + 1 /\ new.units = n /\ n \in Nat
  BY <1>1
<1>3. /\ s \in Nat /\ m[s].units \in Nat /\ EndAt(k, m, s) \in Nat
      /\ EndAt(k, m, s) <= end /\ end \in Nat /\ end <= M
  BY ChunkBounds
<1>4. EndAt(k, m, s) = s + m[s].units + k /\ M \in Nat
  BY DEF EndAt
<1>5. UnitsOf(new) = s + 1 .. s + 1 + n - 1
  BY <1>2 DEF UnitsOf
<1>6. UnitsOf(new) \subseteq Mem(M)
  <2>1. /\ s \in Nat /\ n \in Nat /\ m[s].units \in Nat /\ M \in Nat
        /\ s + m[s].units + k <= M /\ n <= m[s].units
    BY <1>2, <1>3, <1>4
  <2>2. ASSUME NEW u \in s + 1 .. s + 1 + n - 1 PROVE u \in 0 .. M - 1
    BY <2>1
  <2> QED
    BY <1>5, <2>2 DEF Mem
<1>7. ASSUME NEW b \in taken, NEW u, u \in UnitsOf(b),
             u \in UnitsOf(new)
      PROVE  FALSE
  <2>1. PICK a : a = b.at - 1
    OBVIOUS
  <2>2. /\ a \in ChunksOf(M, m) /\ a /= s /\ b.units <= m[a].units
        /\ b.at \in Nat /\ b.units \in Nat
    BY <2>1 DEF InOthers, Mem
  <2>3. b.at = a + 1 /\ a \in Int
    BY <2>1, <2>2
  <2>4. /\ a \in Nat /\ m[a].units \in Nat /\ EndAt(k, m, a) \in Nat
    BY <2>2, ChunkBounds
  <2>5. EndAt(k, m, a) = a + m[a].units + k
    BY DEF EndAt
  <2>6. u \in Int /\ a + 1 <= u /\ u <= a + b.units
    BY <2>2, <2>3, <2>4, <1>7 DEF UnitsOf
  <2>7. s + 1 <= u /\ u <= s + n
    BY <2>6, <1>2, <1>3, <1>5, <1>7
  <2>8. CASE a < s
    <3>1. EndAt(k, m, a) <= s
      BY <2>2, <2>8, Below
    <3> QED
      BY <3>1, <2>2, <2>4, <2>5, <2>6, <2>7, <1>3
  <2>9. CASE s < a
    <3>1. EndAt(k, m, s) <= a
      BY <2>2, <2>9, Below
    <3> QED
      BY <3>1, <2>2, <2>4, <2>6, <2>7, <1>2, <1>3, <1>4
  <2> QED
    BY <2>2, <2>4, <2>8, <2>9, <1>3
<1> QED
  BY <1>6, <1>7 DEF Fresh

-----------------------------------------------------------------------------
(* The inductive invariant: the heap and the list, what a call in progress *)
(* knows of them, and who has the chunks in use.                           *)
Heap == /\ Tiles(2, MaxHeap, header, g_heap_end)
        /\ Listed(MaxHeap, header, g_free_head)
        /\ Apart(2, MaxHeap, header, {})

Idle == units = 0 /\ c = Null /\ prev = Null /\ pprev = Null /\ w = Null

Searching ==
  /\ units \in 1 .. MaxRequest /\ w = Null
  /\ c \in FreeOf(MaxHeap, header) \union {Null}
  /\ Before(MaxHeap, header, g_free_head, prev, c)
  /\ prev = Null => pprev = Null
  /\ prev /= Null => Before(MaxHeap, header, g_free_head, pprev, prev)

Grown ==
  /\ units \in 1 .. MaxRequest /\ w = Null
  /\ c \in FreeOf(MaxHeap, header) /\ header[c].units >= units
  /\ Before(MaxHeap, header, g_free_head, prev, c)
  /\ pprev \in Pointers

Placing ==
  /\ units = 0 /\ pprev = Null
  /\ c \in InUseOf(MaxHeap, header)
  /\ w \in FreeOf(MaxHeap, header) \union {Null}
  /\ Before(MaxHeap, header, g_free_head, prev, w)
  /\ prev /= Null => prev < c

Call == CASE pc = "idle" -> Idle
          [] pc = "search" -> Searching
          [] pc = "grown" -> Grown
          [] pc = "place" -> Placing
          [] OTHER -> FALSE

(* The chunk that is being freed is in use, and nobody has it.             *)
Blocks == BlocksIn(MaxHeap, held, header, IF pc = "place" THEN {c} ELSE {})

Inv == Heap /\ Call /\ Blocks

-----------------------------------------------------------------------------
(* chunk.c and heapmgr1.c: k is 2.                                         *)

LEMMA Manager1 ==
  /\ MaxHeap \in Nat
  /\ Memory = Mem(MaxHeap) /\ Pointers = Ptrs(MaxHeap)
  /\ Headers = Heads(MaxHeap)
  /\ \A h, a, end : next_adjacent(h, a, end) = Touching(2, h, a, end)
  /\ \A h, a, n : split_chunk(h, a, n) = Cut(2, h, a, n)
  /\ \A h, a, end :
       insert_chunk(h, a, end) = AtFront(2, h, g_free_head, a, end)
  /\ \A h, e, a, end :
       /\ insert_chunk_after(h, e, a, end) = Behind(2, h, e, a, end)
       /\ Joined(h, e, a, end) = JoinedAt(2, h, e, a, end)
<1>1. MaxHeap \in Nat
  BY SizesAssumption
<1>2. Memory = Mem(MaxHeap) /\ Pointers = Ptrs(MaxHeap)
  BY DEF Memory, Mem, Pointers, Ptrs
<1>3. Headers = Heads(MaxHeap)
  BY <1>2 DEF Headers, Heads, Pointers
<1>4. \A h, a, end : next_adjacent(h, a, end) = Touching(2, h, a, end)
  BY DEF next_adjacent, Touching
<1>5. \A h, a, n : split_chunk(h, a, n) = Cut(2, h, a, n)
  BY DEF split_chunk, Cut
<1>6. \A h, x, y : merge_chunk(h, x, y) = Fused(2, h, x, y)
  BY DEF merge_chunk, Fused
<1>7. \A h, a, end :
        insert_chunk(h, a, end) = AtFront(2, h, g_free_head, a, end)
  BY <1>4, <1>6 DEF insert_chunk, AtFront
<1>8. \A h, a, end : MergedWithNext(h, a, end) = FusedWithNext(2, h, a, end)
  BY <1>4, <1>6 DEF MergedWithNext, FusedWithNext
<1>9. \A h, e, a, end :
        /\ Joined(h, e, a, end) = JoinedAt(2, h, e, a, end)
        /\ insert_chunk_after(h, e, a, end) = Behind(2, h, e, a, end)
  BY <1>4, <1>6, <1>8 DEF Joined, JoinedAt, insert_chunk_after, Behind
<1> QED
  BY <1>1, <1>2, <1>3, <1>4, <1>5, <1>7, <1>9

-----------------------------------------------------------------------------
(* The steps of malloc.                                                    *)

LEMMA InitInv == Init => Inv
<1> SUFFICES ASSUME Init PROVE Inv
  OBVIOUS
<1>1. MaxHeap \in Nat
  BY SizesAssumption
<1>2. NoHeader \in Headers /\ NoHeader.status = "none"
  BY <1>1 DEF NoHeader, Headers
<1>3. header = [a \in Memory |-> NoHeader]
  BY DEF Init
<1>4. header \in [Memory -> Headers]
  BY <1>2, <1>3
<1>5. ChunksOf(MaxHeap, header) = {} /\ FreeOf(MaxHeap, header) = {}
      /\ InUseOf(MaxHeap, header) = {}
  BY <1>2, <1>3, Manager1 DEF ChunksOf, FreeOf, InUseOf
<1>6. Heap
  BY <1>1, <1>4, <1>5, Manager1
     DEF Init, Heap, Tiles, Listed, FirstAbove, Apart
<1>7. Call
  BY DEF Init, Call, Idle
<1>8. Blocks
  BY <1>5 DEF Init, Blocks, BlocksIn
<1> QED
  BY <1>6, <1>7, <1>8 DEF Inv

LEMMA MallocInv ==
  ASSUME Inv, Malloc
  PROVE  Inv'
<1>1. /\ pc = "idle" /\ units' \in 1 .. MaxRequest /\ c' = g_free_head
      /\ prev' = Null /\ pprev' = Null /\ pc' = "search"
      /\ header' = header /\ g_free_head' = g_free_head
      /\ g_heap_end' = g_heap_end /\ w' = w /\ held' = held
  BY DEF Malloc, heapVars
<1>2. Heap /\ Idle /\ BlocksIn(MaxHeap, held, header, {})
  BY <1>1 DEF Inv, Call, Blocks
<1>3. Heap'
  BY <1>1, <1>2 DEF Heap
<1>4. g_free_head \in FreeOf(MaxHeap, header) \union {Null}
  BY <1>2, NextOnList, Manager1 DEF Heap
<1>5. Searching'
  BY <1>1, <1>2, <1>4 DEF Searching, Idle, Before
<1>6. Blocks'
  BY <1>1, <1>2 DEF Blocks
<1> QED
  BY <1>1, <1>3, <1>5, <1>6 DEF Inv, Call

LEMMA TakeTailInv ==
  ASSUME Inv, pc \in {"search", "grown"}, c \in FreeOf(MaxHeap, header),
         units \in 1 .. MaxRequest, Splittable(c),
         header' = split_chunk(header, c, units),
         Return(SplitAt(header, c, units)),
         UNCHANGED <<g_free_head, g_heap_end>>
  PROVE  Inv'
<1>1. PICK s : s = SplitAt(header, c, units)
  OBVIOUS
<1>2. /\ pc' = "idle" /\ units' = 0 /\ c' = Null /\ prev' = Null
      /\ pprev' = Null /\ w' = Null
      /\ held' = held \union {[at |-> s + 1, units |-> units]}
  BY <1>1 DEF Return
<1>3. Heap /\ BlocksIn(MaxHeap, held, header, {})
      /\ header[c].units > units + 2
  BY DEF Inv, Blocks, Splittable
<1>4. PICK m : m = header'
  OBVIOUS
<1>5. /\ Tiles(2, MaxHeap, m, g_heap_end) /\ Listed(MaxHeap, m, g_free_head)
      /\ Apart(2, MaxHeap, m, {})
      /\ InUseOf(MaxHeap, m) = InUseOf(MaxHeap, header) \union {s}
      /\ s \in Memory /\ s + 1 \in Memory /\ s \notin ChunksOf(MaxHeap, header)
      /\ m[s].units = units
      /\ \A x \in InUseOf(MaxHeap, header) : m[x] = header[x]
  BY <1>1, <1>3, <1>4, SplitKeeps, Manager1 DEF Heap
<1>6. s \notin InUseOf(MaxHeap, header) /\ units <= m[s].units
  BY <1>5 DEF InUseOf, ChunksOf
<1>7. BlocksIn(MaxHeap, held \union {[at |-> s + 1, units |-> units]}, m, {})
  BY <1>3, <1>5, <1>6, BlockGiven, Manager1
<1>8. Heap'
  BY <1>4, <1>5 DEF Heap
<1>9. Blocks'
  BY <1>2, <1>4, <1>7 DEF Blocks
<1> QED
  BY <1>2, <1>8, <1>9 DEF Inv, Call, Idle

LEMMA TakeWholeInv ==
  ASSUME Inv, pc \in {"search", "grown"}, c \in FreeOf(MaxHeap, header),
         units \in 1 .. MaxRequest, units <= header[c].units,
         Before(MaxHeap, header, g_free_head, prev, c), TakeWhole(prev, c)
  PROVE  Inv'
<1>1. PICK m, first :
        /\ m = remove_chunk_from_list(header, prev, c)
        /\ first = IF prev = Null THEN header[c].next ELSE g_free_head
  OBVIOUS
<1>2. /\ pc' = "idle" /\ units' = 0 /\ c' = Null /\ prev' = Null
      /\ pprev' = Null /\ w' = Null /\ g_heap_end' = g_heap_end
      /\ held' = held \union {[at |-> c + 1, units |-> units]}
      /\ header' = m /\ g_free_head' = first
  BY <1>1 DEF Return, TakeWhole
<1>3. Heap /\ BlocksIn(MaxHeap, held, header, {})
  BY DEF Inv, Blocks
<1>4. /\ Tiles(2, MaxHeap, m, g_heap_end) /\ Listed(MaxHeap, m, first)
      /\ Apart(2, MaxHeap, m, {})
      /\ InUseOf(MaxHeap, m) = InUseOf(MaxHeap, header) \union {c}
      /\ m[c].units = header[c].units
      /\ \A x \in InUseOf(MaxHeap, header) : m[x] = header[x]
  BY <1>1, <1>3, RemoveKeeps, Manager1 DEF Heap
<1>5. /\ c \in Memory /\ c \notin InUseOf(MaxHeap, header)
      /\ c \in ChunksOf(MaxHeap, header)
  BY Manager1 DEF FreeOf, InUseOf, ChunksOf
<1>6. c + 1 \in Memory
  <2>1. c \in Nat /\ EndAt(2, header, c) \in Nat
        /\ c + 2 <= EndAt(2, header, c)
        /\ EndAt(2, header, c) <= g_heap_end /\ g_heap_end \in Nat
        /\ g_heap_end <= MaxHeap
    BY <1>3, <1>5, ChunkBounds, Manager1 DEF Heap
  <2> QED
    BY <2>1, SizesAssumption DEF Memory
<1>7. units <= m[c].units
  BY <1>4
<1>8. BlocksIn(MaxHeap, held \union {[at |-> c + 1, units |-> units]}, m, {})
  BY <1>3, <1>4, <1>5, <1>6, <1>7, BlockGiven, Manager1
<1>9. Heap'
  BY <1>2, <1>4 DEF Heap
<1>10. Blocks'
  BY <1>2, <1>8 DEF Blocks
<1> QED
  BY <1>2, <1>9, <1>10 DEF Inv, Call, Idle

LEMMA SearchOnInv ==
  ASSUME Inv, SearchOn
  PROVE  Inv'
<1>1. /\ pc = "search" /\ c /= Null /\ pprev' = prev /\ prev' = c
      /\ c' = header[c].next
      /\ header' = header /\ g_free_head' = g_free_head
      /\ g_heap_end' = g_heap_end /\ pc' = pc /\ units' = units /\ w' = w
      /\ held' = held
  BY DEF SearchOn, heapVars
<1>2. Heap /\ Searching /\ BlocksIn(MaxHeap, held, header, {})
  BY <1>1 DEF Inv, Call, Blocks
<1>3. Heap'
  BY <1>1, <1>2 DEF Heap
<1>4. c \in FreeOf(MaxHeap, header)
      /\ header[c].next \in FreeOf(MaxHeap, header) \union {Null}
  BY <1>1, <1>2, NextOnList, Manager1 DEF Heap, Searching
<1>5. Before(MaxHeap, header, g_free_head, c, header[c].next)
  BY <1>1, <1>4 DEF Before
<1>6. Searching'
  BY <1>1, <1>2, <1>4, <1>5 DEF Searching
<1>7. Blocks'
  BY <1>1, <1>2 DEF Blocks
<1> QED
  BY <1>1, <1>3, <1>6, <1>7 DEF Inv, Call

LEMMA SbrkFailsInv ==
  ASSUME Inv, SbrkFails
  PROVE  Inv'
<1>1. /\ pc = "search" /\ c = Null /\ pc' = "idle" /\ units' = 0
      /\ prev' = Null /\ pprev' = Null
      /\ header' = header /\ g_free_head' = g_free_head
      /\ g_heap_end' = g_heap_end /\ c' = c /\ w' = w /\ held' = held
  BY DEF SbrkFails, heapVars
<1>2. Heap /\ Searching /\ BlocksIn(MaxHeap, held, header, {})
  BY <1>1 DEF Inv, Call, Blocks
<1>3. Heap'
  BY <1>1, <1>2 DEF Heap
<1>4. Idle'
  BY <1>1, <1>2 DEF Searching, Idle
<1>5. Blocks'
  BY <1>1, <1>2 DEF Blocks
<1> QED
  BY <1>1, <1>3, <1>4, <1>5 DEF Inv, Call

-----------------------------------------------------------------------------
(* Growing the heap.                                                       *)

LEMMA GrowInv ==
  ASSUME Inv, Grow
  PROVE  Inv'
<1>1. /\ pc = "search" /\ c = Null /\ g_heap_end + Growth + 2 <= MaxHeap
      /\ pc' = "grown" /\ units' = units /\ pprev' = pprev /\ w' = w
      /\ held' = held /\ prev' = IF c' = prev THEN pprev ELSE prev
  BY DEF Grow
<1>2. PICK new, end, h :
        /\ new = g_heap_end /\ end = g_heap_end + Growth + 2
        /\ h = [header EXCEPT ![new] = [status |-> "in_use",
                                        units |-> Growth, next |-> Null]]
  OBVIOUS
<1>3. /\ g_heap_end' = end
      /\ IF g_free_head = Null
         THEN /\ header' = insert_chunk(h, new, end)
              /\ g_free_head' = new /\ c' = new
         ELSE /\ header' = insert_chunk_after(h, prev, new, end)
              /\ c' = Joined(h, prev, new, end)
              /\ g_free_head' = g_free_head
  BY <1>2 DEF Grow
<1>4. Heap /\ Searching /\ BlocksIn(MaxHeap, held, header, {})
  BY <1>1 DEF Inv, Call, Blocks
<1>5. units \in Nat /\ Growth \in Nat \ {0} /\ Growth >= units
  BY <1>4, SizesAssumption DEF Searching, Growth
<1>6. /\ Tiles(2, MaxHeap, h, end) /\ Listed(MaxHeap, h, g_free_head)
      /\ Apart(2, MaxHeap, h, {})
      /\ FreeOf(MaxHeap, h) = FreeOf(MaxHeap, header)
      /\ InUseOf(MaxHeap, h) = InUseOf(MaxHeap, header) \union {new}
      /\ new \in Memory /\ new \notin ChunksOf(MaxHeap, header)
      /\ h[new].units = Growth
      /\ \A x \in Memory \ {new} : h[x] = header[x]
      /\ \A f \in FreeOf(MaxHeap, header) : f < new
  <2>1. /\ Tiles(2, MaxHeap, header, g_heap_end)
        /\ Listed(MaxHeap, header, g_free_head)
        /\ Apart(2, MaxHeap, header, {})
    BY <1>4 DEF Heap
  <2>2. h = Extended(header, g_heap_end, Growth)
    BY <1>2 DEF Extended
  <2>3. /\ Tiles(2, MaxHeap, h, g_heap_end + Growth + 2)
        /\ Listed(MaxHeap, h, g_free_head)
        /\ Apart(2, MaxHeap, h, {})
        /\ FreeOf(MaxHeap, h) = FreeOf(MaxHeap, header)
        /\ InUseOf(MaxHeap, h) = InUseOf(MaxHeap, header) \union {g_heap_end}
        /\ g_heap_end \in Mem(MaxHeap)
        /\ g_heap_end \notin ChunksOf(MaxHeap, header)
        /\ h[g_heap_end].units = Growth
        /\ \A x \in Mem(MaxHeap) \ {g_heap_end} : h[x] = header[x]
        /\ \A f \in FreeOf(MaxHeap, header) : f < g_heap_end
    <3>1. GrownBy(2, MaxHeap, header, g_heap_end, g_free_head, Growth)
      BY <1>1, <1>5, <2>1, NewChunk, SizesAssumption
    <3> QED
      BY <2>2, <3>1 DEF GrownBy
  <2> QED
    BY <1>2, <2>3, Manager1
<1>7. /\ new \in InUseOf(MaxHeap, h) /\ new \in Nat
      /\ new \notin InUseOf(MaxHeap, header)
      /\ new \notin FreeOf(MaxHeap, header)
      /\ \A x \in InUseOf(MaxHeap, header) \union FreeOf(MaxHeap, header) :
           h[x] = header[x]
  BY <1>6 DEF Mem, Memory, InUseOf, FreeOf, ChunksOf
<1>8. ASSUME NEW p, NEW a, Before(MaxHeap, header, g_free_head, p, a)
      PROVE  Before(MaxHeap, h, g_free_head, p, a)
  BY <1>6, <1>7, <1>8 DEF Before
<1>9. Before(MaxHeap, h, g_free_head, prev, Null)
  BY <1>1, <1>4, <1>8 DEF Searching
<1>10. GoesAfter(MaxHeap, h, prev, new)
  <2>1. prev /= Null => prev < new
    BY <1>4, <1>6, <1>1 DEF Searching, Before
  <2> QED
    BY <2>1, <1>6, <1>7, <1>9, PlaceFound, Manager1
<1>11. prev = Null <=> g_free_head = Null
  <2>1. prev = Null => g_free_head = Null
    BY <1>9 DEF Before
  <2>2. ASSUME prev /= Null, g_free_head = Null
        PROVE  FALSE
    <3>1. prev \in FreeOf(MaxHeap, h) /\ FirstAbove(MaxHeap, h, -1, Null)
      BY <2>2, <1>6, <1>9 DEF Before, Listed
    <3>2. prev <= -1 /\ prev \in Nat
      BY <3>1 DEF FirstAbove, FreeOf, Mem, Memory
    <3> QED
      BY <3>2
  <2> QED
    BY <2>1, <2>2
<1>12. PICK m, j, first : m = header' /\ j = c' /\ first = g_free_head'
  OBVIOUS
<1>13. prev' = IF j = prev THEN pprev ELSE prev
  BY <1>1, <1>12
<1>14. /\ Tiles(2, MaxHeap, m, end) /\ Listed(MaxHeap, m, first)
       /\ Apart(2, MaxHeap, m, {})
       /\ InUseOf(MaxHeap, m) = InUseOf(MaxHeap, h) \ {new}
       /\ \A x \in InUseOf(MaxHeap, m) : m[x] = h[x]
       /\ j \in FreeOf(MaxHeap, m) /\ m[j].units >= Growth
       /\ Before(MaxHeap, m, first, IF j = prev THEN pprev ELSE prev, j)
  <2>1. CASE g_free_head = Null
    <3>1. m = insert_chunk(h, new, end) /\ first = new /\ j = new
      BY <2>1, <1>3, <1>12
    <3>2. GoesAfter(MaxHeap, h, Null, new)
      BY <2>1, <1>10, <1>11
    <3>3. /\ Tiles(2, MaxHeap, m, end) /\ Listed(MaxHeap, m, new)
          /\ Apart(2, MaxHeap, m, {})
          /\ InUseOf(MaxHeap, m) = InUseOf(MaxHeap, h) \ {new}
          /\ \A x \in InUseOf(MaxHeap, m) : m[x] = h[x]
          /\ new \in FreeOf(MaxHeap, m) /\ m[new].units >= h[new].units
      BY <3>1, <3>2, <1>6, <1>7, InsertFirst, Manager1
    <3>4. j /= prev
      BY <3>1, <2>1, <1>11, <1>7, NullAssumption
    <3>5. Before(MaxHeap, m, first, Null, j)
      BY <3>1 DEF Before
    <3> QED
      BY <3>1, <3>3, <3>4, <3>5, <2>1, <1>6, <1>11
  <2>2. CASE g_free_head /= Null
    <3>1. /\ m = insert_chunk_after(h, prev, new, end)
          /\ first = g_free_head /\ j = Joined(h, prev, new, end)
      BY <2>2, <1>3, <1>12
    <3>2. prev /= Null /\ prev \in FreeOf(MaxHeap, h)
      BY <2>2, <1>9, <1>11 DEF Before
    <3>3. /\ Tiles(2, MaxHeap, m, end) /\ Listed(MaxHeap, m, g_free_head)
          /\ Apart(2, MaxHeap, m, {})
          /\ InUseOf(MaxHeap, m) = InUseOf(MaxHeap, h) \ {new}
          /\ \A x \in InUseOf(MaxHeap, m) : m[x] = h[x]
          /\ j \in FreeOf(MaxHeap, m) /\ m[j].units >= h[new].units
          /\ j = new => Before(MaxHeap, m, g_free_head, prev, new)
          /\ j /= new => /\ j = prev
                         /\ \A p : Before(MaxHeap, h, g_free_head, p, prev)
                              => Before(MaxHeap, m, g_free_head, p, prev)
          /\ new /= prev
      BY <3>1, <3>2, <1>6, <1>7, <1>10, InsertAfter, Manager1
    <3>4. Before(MaxHeap, h, g_free_head, pprev, prev)
      BY <3>2, <1>4, <1>8 DEF Searching
    <3>5. CASE j = new
      BY <3>1, <3>3, <3>5, <1>6
    <3>6. CASE j /= new
      BY <3>1, <3>3, <3>4, <3>6, <1>6
    <3> QED
      BY <3>5, <3>6
  <2> QED
    BY <2>1, <2>2
<1>15. Heap'
  BY <1>3, <1>12, <1>14 DEF Heap
<1>16. Grown'
  <2>1. m[j].units >= units
    <3>1. j \in ChunksOf(MaxHeap, m)
      BY <1>14 DEF FreeOf, ChunksOf
    <3>2. m[j].units \in Nat
      BY <3>1, <1>14, ChunkBounds, Manager1
    <3> QED
      BY <3>2, <1>5, <1>14
  <2>2. pprev \in Pointers
    BY <1>4, Manager1 DEF Searching, Before, FreeOf, Pointers
  <2> QED
    BY <2>1, <2>2, <1>1, <1>4, <1>12, <1>13, <1>14 DEF Grown, Searching
<1>17. Blocks'
  <2>1. InUseOf(MaxHeap, m) = InUseOf(MaxHeap, header)
    BY <1>6, <1>7, <1>14
  <2>2. \A x \in InUseOf(MaxHeap, header) : m[x] = header[x]
    BY <2>1, <1>7, <1>14
  <2>3. BlocksIn(MaxHeap, held, m, {})
    BY <2>1, <2>2, <1>4, BlocksStay, Manager1
  <2> QED
    BY <2>3, <1>1, <1>12 DEF Blocks
<1> QED
  BY <1>1, <1>15, <1>16, <1>17 DEF Inv, Call

LEMMA TakeFromGrownInv ==
  ASSUME Inv, TakeFromGrown
  PROVE  Inv'
<1>1. pc = "grown" /\ Grown
  BY DEF TakeFromGrown, Inv, Call
<1>2. /\ c \in FreeOf(MaxHeap, header) /\ units \in 1 .. MaxRequest
      /\ header[c].units >= units
      /\ Before(MaxHeap, header, g_free_head, prev, c)
  BY <1>1 DEF Grown
<1>3. CASE Splittable(c) /\ header' = split_chunk(header, c, units)
           /\ Return(SplitAt(header, c, units))
           /\ UNCHANGED <<g_free_head, g_heap_end>>
  BY <1>1, <1>2, <1>3, TakeTailInv
<1>4. CASE TakeWhole(prev, c)
  <2>1. c \in ChunksOf(MaxHeap, header)
        /\ Tiles(2, MaxHeap, header, g_heap_end)
    BY <1>2 DEF Inv, Heap, FreeOf, ChunksOf
  <2>2. header[c].units \in Nat /\ units \in Nat
    BY <2>1, <1>2, ChunkBounds, Manager1
  <2>3. units <= header[c].units
    BY <2>2, <1>2
  <2> QED
    BY <2>3, <1>1, <1>2, <1>4, TakeWholeInv
<1> QED
  BY <1>3, <1>4 DEF TakeFromGrown

-----------------------------------------------------------------------------
(* The steps of free.                                                      *)

LEMMA FreeInv ==
  ASSUME Inv, Free
  PROVE  Inv'
<1>1. /\ pc = "idle" /\ w' = g_free_head /\ prev' = Null /\ pc' = "place"
      /\ header' = header /\ g_free_head' = g_free_head
      /\ g_heap_end' = g_heap_end /\ units' = units /\ pprev' = pprev
  BY DEF Free, heapVars
<1>2. PICK b \in held : held' = held \ {b} /\ c' = b.at - 1
  BY DEF Free
<1>3. Heap /\ Idle /\ BlocksIn(MaxHeap, held, header, {})
  BY <1>1 DEF Inv, Call, Blocks
<1>4. Heap'
  BY <1>1, <1>3 DEF Heap
<1>5. /\ b.at - 1 \in InUseOf(MaxHeap, header)
      /\ BlocksIn(MaxHeap, held \ {b}, header, {b.at - 1})
  BY <1>3, BlockReturned, Manager1
<1>6. g_free_head \in FreeOf(MaxHeap, header) \union {Null}
  BY <1>3, NextOnList, Manager1 DEF Heap
<1>7. Placing'
  BY <1>1, <1>2, <1>3, <1>5, <1>6 DEF Placing, Idle, Before
<1>8. Blocks'
  BY <1>1, <1>2, <1>5 DEF Blocks
<1> QED
  BY <1>1, <1>4, <1>7, <1>8 DEF Inv, Call

LEMMA PlaceOnInv ==
  ASSUME Inv, PlaceOn
  PROVE  Inv'
<1>1. /\ pc = "place" /\ ~Past /\ prev' = w /\ w' = header[w].next
      /\ header' = header /\ g_free_head' = g_free_head
      /\ g_heap_end' = g_heap_end /\ pc' = pc /\ units' = units /\ c' = c
      /\ pprev' = pprev /\ held' = held
  BY DEF PlaceOn, heapVars
<1>2. Heap /\ Placing /\ BlocksIn(MaxHeap, held, header, {c})
  BY <1>1 DEF Inv, Call, Blocks
<1>3. Heap'
  BY <1>1, <1>2 DEF Heap
<1>4. w /= Null /\ ~(c < w) /\ w \in FreeOf(MaxHeap, header)
      /\ c \in InUseOf(MaxHeap, header)
  BY <1>1, <1>2 DEF Past, Placing
<1>5. w < c
  <2>1. w \in Nat /\ c \in Nat /\ w /= c
    BY <1>4 DEF FreeOf, InUseOf, Mem, Memory
  <2> QED
    BY <2>1, <1>4
<1>6. header[w].next \in FreeOf(MaxHeap, header) \union {Null}
  BY <1>2, <1>4, NextOnList, Manager1 DEF Heap
<1>7. Placing'
  BY <1>1, <1>2, <1>4, <1>5, <1>6 DEF Placing, Before
<1>8. Blocks'
  BY <1>1, <1>2 DEF Blocks
<1> QED
  BY <1>1, <1>3, <1>7, <1>8 DEF Inv, Call

LEMMA InsertInv ==
  ASSUME Inv, Insert
  PROVE  Inv'
<1>1. /\ pc = "place" /\ Past /\ pc' = "idle"
      /\ c' = Null /\ prev' = Null /\ w' = Null /\ g_heap_end' = g_heap_end
      /\ units' = units /\ pprev' = pprev /\ held' = held
      /\ IF prev = Null
         THEN /\ header' = insert_chunk(header, c, g_heap_end)
              /\ g_free_head' = c
         ELSE /\ header' = insert_chunk_after(header, prev, c, g_heap_end)
              /\ g_free_head' = g_free_head
  BY DEF Insert
<1>2. Heap /\ Placing /\ BlocksIn(MaxHeap, held, header, {c})
  BY <1>1 DEF Inv, Call, Blocks
<1>3. /\ c \in InUseOf(MaxHeap, header)
      /\ w \in FreeOf(MaxHeap, header) \union {Null}
      /\ Before(MaxHeap, header, g_free_head, prev, w)
      /\ prev /= Null => prev < c
      /\ w /= Null => c < w
      /\ units = 0 /\ pprev = Null
  BY <1>1, <1>2 DEF Placing, Past
<1>4. c \in Nat
  BY <1>3 DEF InUseOf, Mem, Memory
<1>5. GoesAfter(MaxHeap, header, prev, c)
  BY <1>2, <1>3, <1>4, PlaceFound, Manager1 DEF Heap
<1>6. PICK m, first : m = header' /\ first = g_free_head'
  OBVIOUS
<1>7. /\ Tiles(2, MaxHeap, m, g_heap_end) /\ Listed(MaxHeap, m, first)
      /\ Apart(2, MaxHeap, m, {})
      /\ InUseOf(MaxHeap, m) = InUseOf(MaxHeap, header) \ {c}
      /\ \A x \in InUseOf(MaxHeap, m) : m[x] = header[x]
  <2>1. CASE prev = Null
    <3>1. m = insert_chunk(header, c, g_heap_end) /\ first = c
      BY <2>1, <1>1, <1>6
    <3> QED
      BY <3>1, <2>1, <1>2, <1>3, <1>5, InsertFirst, Manager1 DEF Heap
  <2>2. CASE prev /= Null
    <3>1. /\ m = insert_chunk_after(header, prev, c, g_heap_end)
          /\ first = g_free_head
      BY <2>2, <1>1, <1>6
    <3>2. prev \in FreeOf(MaxHeap, header)
      BY <2>2, <1>3 DEF Before
    <3> QED
      BY <3>1, <3>2, <1>2, <1>3, <1>5, InsertAfter, Manager1 DEF Heap
  <2> QED
    BY <2>1, <2>2
<1>8. Heap'
  BY <1>1, <1>6, <1>7 DEF Heap
<1>9. Blocks'
  <2>1. BlocksIn(MaxHeap, held, m, {})
    BY <1>2, <1>7, BlocksStay, Manager1
  <2> QED
    BY <2>1, <1>1, <1>6 DEF Blocks
<1> QED
  BY <1>1, <1>3, <1>8, <1>9 DEF Inv, Call, Idle

LEMMA NextInv ==
  ASSUME Inv, [Next]_vars
  PROVE  Inv'
<1>1. CASE Malloc
  BY <1>1, MallocInv
<1>2. CASE Free
  BY <1>2, FreeInv
<1>3. ASSUME pc = "search", c /= Null
      PROVE  /\ c \in FreeOf(MaxHeap, header) /\ units \in 1 .. MaxRequest
             /\ Before(MaxHeap, header, g_free_head, prev, c)
  BY <1>3 DEF Inv, Call, Searching
<1>4. CASE TakeTail
  BY <1>3, <1>4, TakeTailInv DEF TakeTail
<1>5. CASE TakePerfectFit
  <2>1. pc = "search" /\ c /= Null /\ TakeWhole(prev, c)
        /\ units = header[c].units
    BY <1>5 DEF TakePerfectFit, PerfectFit
  <2>2. units <= header[c].units
    BY <2>1, <1>3
  <2> QED
    BY <2>1, <2>2, <1>3, TakeWholeInv
<1>6. CASE SearchOn
  BY <1>6, SearchOnInv
<1>7. CASE Grow
  BY <1>7, GrowInv
<1>8. CASE SbrkFails
  BY <1>8, SbrkFailsInv
<1>9. CASE TakeFromGrown
  BY <1>9, TakeFromGrownInv
<1>10. CASE PlaceOn
  BY <1>10, PlaceOnInv
<1>11. CASE Insert
  BY <1>11, InsertInv
<1>12. CASE UNCHANGED vars
  <2>1. /\ g_free_head' = g_free_head /\ g_heap_end' = g_heap_end
        /\ header' = header /\ pc' = pc /\ units' = units /\ c' = c
        /\ prev' = prev /\ pprev' = pprev /\ w' = w /\ held' = held
    BY <1>12 DEF vars, heapVars, localVars
  <2> QED
    BY <2>1 DEF Inv, Heap, Call, Blocks, Idle, Searching, Grown, Placing
<1> QED
  BY <1>1, <1>2, <1>4, <1>5, <1>6, <1>7, <1>8, <1>9, <1>10, <1>11, <1>12
  DEF Next, Continue

LEMMA Invariance == Spec => []Inv
  BY InitInv, NextInv, PTL DEF Spec

-----------------------------------------------------------------------------
(* The walks of check_heap_validity.                                       *)

(* A set of naturals that is not empty has a least element.                *)
LEMMA Least ==
  ASSUME NEW T \in SUBSET Nat, T /= {}
  PROVE  \E x \in T : \A y \in T : x <= y
<1> DEFINE R == {p \in Nat \X Nat : p[1] < p[2]}
<1>1. R = OpToRel(<, Nat)
  BY DEF OpToRel
<1>2. IsWellFoundedOn(R, Nat)
  BY <1>1, NatLessThanWellFounded
<1>3. \E x \in T : \A y \in T : ~(<<y, x>> \in R)
  BY <1>2, WFMin
<1>4. PICK x \in T : \A y \in T : ~(<<y, x>> \in R)
  BY <1>3
<1>5. ASSUME NEW y \in T
      PROVE  x <= y
  <2>1. x \in Nat /\ y \in Nat /\ ~(<<y, x>> \in R)
    BY <1>4
  <2>2. ~(y < x)
    BY <2>1
  <2> QED
    BY <2>1, <2>2
<1> QED
  BY <1>4, <1>5

(* met is the walk along following, n steps from start.                    *)
IsWalk(met, start, following, n) ==
  met = [i \in 0 .. n |->
           IF i = 0 THEN start
           ELSE IF met[i - 1] = Null THEN Null ELSE following[met[i - 1]]]

(* A walk of any length can be made: the shortest that could not is one    *)
(* step longer than one that can.                                          *)
LEMMA WalkExists ==
  ASSUME NEW start, NEW following, NEW n \in Nat
  PROVE  \E met : IsWalk(met, start, following, n)
<1> DEFINE T == {i \in Nat : ~\E met : IsWalk(met, start, following, i)}
<1> SUFFICES ASSUME T /= {} PROVE FALSE
  OBVIOUS
<1>1. PICK x \in T : \A y \in T : x <= y
  BY Least
<1>2. CASE x = 0
  <2> DEFINE f == [i \in 0 .. 0 |-> start]
  <2>1. ASSUME NEW i \in 0 .. 0
        PROVE  f[i] = IF i = 0 THEN start
                      ELSE IF f[i - 1] = Null THEN Null
                      ELSE following[f[i - 1]]
    OBVIOUS
  <2>2. IsWalk(f, start, following, 0)
    BY <2>1 DEF IsWalk
  <2> QED
    BY <1>2, <2>2
<1>3. CASE x /= 0
  <2>1. x - 1 \in Nat /\ ~(x <= x - 1) /\ x \in Nat
    BY <1>3
  <2>2. x - 1 \notin T
    BY <1>1, <2>1
  <2>3. PICK met : IsWalk(met, start, following, x - 1)
    BY <2>1, <2>2
  <2> DEFINE After(a) == IF a = Null THEN Null ELSE following[a]
             f == [i \in 0 .. x |->
                     IF i = x THEN After(met[x - 1]) ELSE met[i]]
  <2>4. ASSUME NEW i \in 0 .. x - 1
        PROVE  met[i] = IF i = 0 THEN start ELSE After(met[i - 1])
    BY <2>3 DEF IsWalk
  <2>5. ASSUME NEW i \in 0 .. x
        PROVE  f[i] = IF i = 0 THEN start ELSE After(f[i - 1])
    <3>1. CASE i = x
      <4>1. f[i] = After(met[x - 1]) /\ i /= 0
        BY <3>1, <1>3
      <4>2. x - 1 \in 0 .. x /\ x - 1 /= x
        BY <2>1
      <4>3. f[x - 1] = met[x - 1]
        BY <4>2
      <4> HIDE DEF f, Next
      <4> QED
        BY <4>1, <4>3, <3>1
    <3>2. CASE i /= x
      <4>1. i \in 0 .. x - 1 /\ i \in Nat
        BY <3>2, <2>1
      <4>2. f[i] = met[i]
        BY <3>2
      <4>3. CASE i = 0
        BY <4>1, <4>2, <4>3, <2>4
      <4>4. CASE i /= 0
        <5>1. i - 1 \in 0 .. x /\ i - 1 /= x
          BY <4>1, <4>4, <2>1
        <5>2. f[i - 1] = met[i - 1]
          BY <5>1
        <5>3. met[i] = After(met[i - 1])
          BY <4>1, <4>4, <2>4
        <5> HIDE DEF f, Next
        <5> QED
          BY <4>2, <4>4, <5>2, <5>3
      <4> QED
        BY <4>3, <4>4
    <3> QED
      BY <3>1, <3>2
  <2>6. f = [i \in 0 .. x |-> f[i]]
    OBVIOUS
  <2>7. IsWalk(f, start, following, x)
    <3> HIDE DEF f
    <3> QED
      BY <2>5, <2>6 DEF IsWalk
  <2> QED
    BY <2>7
<1> QED
  BY <1>2, <1>3

(* A walk stays in a set that it cannot leave.                             *)
LEMMA WalkWithin ==
  ASSUME NEW n \in Nat, NEW met, NEW start, NEW following, NEW S,
         IsWalk(met, start, following, n), start \in S \union {Null},
         \A a \in S : following[a] \in S \union {Null}
  PROVE  \A i \in 0 .. n : met[i] \in S \union {Null}
<1>5. ASSUME NEW i \in 0 .. n
      PROVE  met[i] = IF i = 0 THEN start
                      ELSE IF met[i - 1] = Null THEN Null
                      ELSE following[met[i - 1]]
  BY DEF IsWalk
<1> DEFINE T == {i \in 0 .. n : met[i] \notin S \union {Null}}
<1> SUFFICES ASSUME T /= {} PROVE FALSE
  OBVIOUS
<1>1. T \subseteq Nat
  OBVIOUS
<1>2. PICK x \in T : \A y \in T : x <= y
  BY <1>1, Least
<1>3. x \in 0 .. n /\ x \in Nat /\ met[x] \notin S \union {Null}
  BY <1>1, <1>2
<1>4. x /= 0
  BY <1>3, <1>5
<1>6. x - 1 \in 0 .. n /\ ~(x <= x - 1)
  BY <1>3, <1>4
<1>7. met[x - 1] \in S \union {Null}
  BY <1>2, <1>6
<1>8. met[x] = IF met[x - 1] = Null THEN Null ELSE following[met[x - 1]]
  BY <1>3, <1>4, <1>5
<1> QED
  BY <1>3, <1>7, <1>8

(* So does a walk of check_heap_validity.                                  *)
LEMMA WalkStays ==
  ASSUME NEW start, NEW following, NEW S,
         start \in S \union {Null},
         \A a \in S : following[a] \in S \union {Null}
  PROVE  Walk(start, following) \subseteq S
<1> DEFINE n == MaxHeap \div 3
           met == CHOOSE f : f = [i \in 0 .. n |->
                    IF i = 0 THEN start
                    ELSE IF f[i - 1] = Null THEN Null ELSE following[f[i - 1]]]
<1>1. n \in Nat
  BY SizesAssumption
<1>2. Walk(start, following) = {met[i] : i \in DOMAIN met} \ {Null}
  BY DEF Walk
<1>3. IsWalk(met, start, following, n)
  <2>1. \E f : IsWalk(f, start, following, n)
    BY <1>1, WalkExists
  <2> QED
    BY <2>1 DEF IsWalk
<1> HIDE DEF met, n
<1>4. DOMAIN met = 0 .. n
  BY <1>3 DEF IsWalk
<1>5. \A i \in 0 .. n : met[i] \in S \union {Null}
  BY <1>1, <1>3, WalkWithin
<1> QED
  BY <1>2, <1>4, <1>5

(* The assertions of the debug build hold whenever the invariant does.     *)
LEMMA HeapChecks ==
  ASSUME Inv
  PROVE  check_heap_validity
<1>1. /\ Tiles(2, MaxHeap, header, g_heap_end)
      /\ Listed(MaxHeap, header, g_free_head)
      /\ Apart(2, MaxHeap, header, {})
  BY DEF Inv, Heap
<1>2. g_heap_end \in Nat
  BY <1>1 DEF Tiles
<1>3. CASE g_heap_end = 0
  <2>1. FreeOf(MaxHeap, header) = {}
    <3> SUFFICES ASSUME NEW f \in FreeOf(MaxHeap, header) PROVE FALSE
      OBVIOUS
    <3>1. f \in ChunksOf(MaxHeap, header)
      BY DEF FreeOf, ChunksOf
    <3>2. f \in Nat /\ EndAt(2, header, f) \in Nat
          /\ f + 2 <= EndAt(2, header, f)
          /\ EndAt(2, header, f) <= g_heap_end
      BY <3>1, <1>1, ChunkBounds, Manager1
    <3> QED
      BY <3>2, <1>3
  <2>2. g_free_head = Null
    BY <2>1, <1>1, NextOnList, Manager1
  <2> QED
    BY <2>2, <1>3 DEF check_heap_validity
<1>4. CASE g_heap_end /= 0
  <2> DEFINE adjacent == [a \in Memory |->
                            next_adjacent(header, a, g_heap_end)]
             next_free == [a \in Memory |-> header[a].next]
  <2>1. \A a \in ChunksOf(MaxHeap, header) : a \in Memory /\ a \in Nat
    BY DEF ChunksOf, Mem, Memory
  <2>2. \A a \in ChunksOf(MaxHeap, header) :
          /\ adjacent[a] \in ChunksOf(MaxHeap, header) \union {Null}
          /\ adjacent[a] = Null \/ adjacent[a] = EndAt(2, header, a)
    BY <2>1, <1>1, Adjacent, Manager1
  <2>3. 0 \in ChunksOf(MaxHeap, header)
    BY <1>1, <1>2, <1>4 DEF Tiles
  <2>4. \A f \in FreeOf(MaxHeap, header) :
          /\ f \in ChunksOf(MaxHeap, header) /\ next_free[f] = header[f].next
          /\ next_free[f] \in FreeOf(MaxHeap, header) \union {Null}
    BY <1>1, NextOnList, Manager1 DEF FreeOf, ChunksOf
  <2>5. g_free_head \in FreeOf(MaxHeap, header) \union {Null}
    BY <1>1, NextOnList, Manager1
  <2> HIDE DEF adjacent, next_free
  <2>6. Walk(0, adjacent) \subseteq ChunksOf(MaxHeap, header)
    BY <2>2, <2>3, WalkStays
  <2>7. Walk(g_free_head, next_free) \subseteq FreeOf(MaxHeap, header)
    BY <2>4, <2>5, WalkStays
  <2>8. ASSUME NEW a \in ChunksOf(MaxHeap, header)
        PROVE  chunk_is_valid(a)
    <3>1. /\ a \in Nat /\ header[a].units \in Nat \ {0}
          /\ EndAt(2, header, a) \in Nat /\ a + 2 <= EndAt(2, header, a)
          /\ EndAt(2, header, a) <= g_heap_end
      BY <1>1, ChunkBounds, Manager1
    <3> QED
      BY <3>1, <1>2 DEF chunk_is_valid
  <2>9. ASSUME NEW f \in FreeOf(MaxHeap, header)
        PROVE  /\ header[f].status = "free" /\ chunk_is_valid(f)
               /\ adjacent[f] = Null \/ adjacent[f] /= header[f].next
    <3>1. header[f].status = "free" /\ chunk_is_valid(f)
      BY <2>4, <2>8 DEF FreeOf
    <3>2. EndAt(2, header, f) \notin FreeOf(MaxHeap, header)
      BY <1>1 DEF Apart
    <3>3. adjacent[f] = Null \/ adjacent[f] = EndAt(2, header, f)
      BY <2>2, <2>4
    <3> QED
      BY <3>1, <3>2, <3>3, <2>4
  <2> QED
    BY <2>6, <2>7, <2>8, <2>9, <1>4
       DEF check_heap_validity, adjacent, next_free
<1> QED
  BY <1>3, <1>4

-----------------------------------------------------------------------------
(* Chunks tile the heap, and every assertion of the debug build holds      *)
(* (heapmgr1.c, check_heap_validity), for heaps and requests of any size.  *)
THEOREM HeapTiled == Spec => []Tiling
<1>1. ASSUME Inv
      PROVE  Tiling
  <2>1. /\ Tiles(2, MaxHeap, header, g_heap_end)
        /\ Listed(MaxHeap, header, g_free_head)
        /\ Apart(2, MaxHeap, header, {})
    BY <1>1 DEF Inv, Heap
  <2>2. ChunksOf(MaxHeap, header) = Chunks
    BY Manager1 DEF ChunksOf, Chunks
  <2>3. \A a \in Memory : EndAt(2, header, a) = EndOf(a)
    BY DEF EndAt, EndOf
  <2>4. TypeOK
    <3>1. /\ g_free_head \in Pointers
          /\ FreeOf(MaxHeap, header) \union {Null} \subseteq Pointers
          /\ InUseOf(MaxHeap, header) \subseteq Pointers
      BY <2>1, NextOnList, Manager1 DEF FreeOf, InUseOf, Pointers
    <3>2. header \in [Memory -> Headers] /\ g_heap_end \in 0 .. MaxHeap
      BY <2>1, Manager1 DEF Tiles
    <3>3. held \subseteq [at : Memory, units : 1 .. MaxRequest]
      BY <1>1, Manager1 DEF Inv, Blocks, BlocksIn
    <3>4. /\ pc \in {"idle", "search", "grown", "place"}
          /\ units \in 0 .. MaxRequest /\ c \in Pointers
          /\ w \in Pointers /\ prev \in Pointers /\ pprev \in Pointers
      <4>1. \A p, a : Before(MaxHeap, header, g_free_head, p, a)
                        => p \in Pointers
        BY <3>1 DEF Before, Pointers
      <4>2. Null \in Pointers /\ 0 \in 0 .. MaxRequest
            /\ 1 .. MaxRequest \subseteq 0 .. MaxRequest
        BY SizesAssumption DEF Pointers
      <4>3. CASE pc = "idle"
        BY <4>2, <4>3, <1>1 DEF Inv, Call, Idle
      <4>4. CASE pc = "search"
        <5>1. Searching
          BY <4>4, <1>1 DEF Inv, Call
        <5> QED
          BY <5>1, <4>1, <4>2, <4>4, <3>1 DEF Searching
      <4>5. CASE pc = "grown"
        <5>1. Grown
          BY <4>5, <1>1 DEF Inv, Call
        <5> QED
          BY <5>1, <4>1, <4>2, <4>5, <3>1 DEF Grown
      <4>6. CASE pc = "place"
        <5>1. Placing
          BY <4>6, <1>1 DEF Inv, Call
        <5> QED
          BY <5>1, <4>1, <4>2, <4>6, <3>1 DEF Placing
      <4> QED
        BY <4>3, <4>4, <4>5, <4>6, <1>1 DEF Inv, Call
    <3> QED
      BY <3>1, <3>2, <3>3, <3>4 DEF TypeOK
  <2>5. check_heap_validity
    BY <1>1, HeapChecks
  <2>6. \A a \in Chunks : a \in Memory
    BY DEF Chunks
  <2> QED
    BY <2>1, <2>2, <2>3, <2>4, <2>5, <2>6 DEF Tiling, Tiles
<1> QED
  BY <1>1, Invariance, PTL

(* The free list holds the free chunks, all of them, by ascending address, *)
(* and no two of them touch.                                               *)
THEOREM FreeListKept == Spec => []FreeListExact
<1>1. ASSUME Inv
      PROVE  FreeListExact
  <2>1. FreeOf(MaxHeap, header) = FreeChunks
    BY Manager1 DEF FreeOf, FreeChunks, Chunks
  <2>2. \A f \in FreeChunks : EndAt(2, header, f) = EndOf(f)
    BY DEF EndAt, EndOf
  <2>3. Listed(MaxHeap, header, g_free_head) /\ Apart(2, MaxHeap, header, {})
    BY <1>1 DEF Inv, Heap
  <2> QED
    BY <2>1, <2>2, <2>3 DEF FreeListExact, FirstFreeAbove, FirstAbove, Listed,
       Apart
<1> QED
  BY <1>1, Invariance, PTL

(* Every chunk in use holds one block of the client's, or is being freed:  *)
(* nothing is given out twice and nothing leaks.                           *)
THEOREM BlocksAccounted == Spec => []InUseIsHeld
<1>1. ASSUME Inv
      PROVE  InUseIsHeld
  <2>1. header \in [Memory -> Headers]
    BY <1>1, Manager1 DEF Inv, Heap, Tiles
  <2>2. InUseOf(MaxHeap, header) = Chunks \ FreeChunks
    <3>1. \A a \in Memory : header[a].status \in {"none", "free", "in_use"}
      BY <2>1 DEF Headers
    <3> QED
      BY <3>1, Manager1 DEF InUseOf, Chunks, FreeChunks
  <2>3. PICK out : out = IF pc = "place" THEN {c} ELSE {}
    OBVIOUS
  <2>4. BlocksIn(MaxHeap, held, header, out)
    BY <1>1, <2>3 DEF Inv, Blocks
  <2>5. /\ held \subseteq [at : Memory, units : 1 .. MaxRequest]
        /\ \A b \in held : /\ b.at - 1 \in InUseOf(MaxHeap, header) \ out
                           /\ b.units <= header[b.at - 1].units
        /\ \A a \in InUseOf(MaxHeap, header) \ out :
             \E b \in held : b.at = a + 1
        /\ \A a, b \in held : a.at = b.at => a = b
    BY <2>4, Manager1 DEF BlocksIn
  <2>6. ASSUME NEW a \in InUseOf(MaxHeap, header) \ out
        PROVE  \E b \in held : BlockOf(a) = {b}
    <3>1. PICK b \in held : b.at = a + 1
      BY <2>5
    <3>2. BlockOf(a) = {b}
      BY <3>1, <2>5 DEF BlockOf
    <3> QED
      BY <3>2
  <2>7. ASSUME NEW a \in InUseOf(MaxHeap, header), a \in out
        PROVE  pc = "place" /\ a = c /\ BlockOf(a) = {}
    <3>1. pc = "place" /\ a = c
      BY <2>3, <2>7
    <3>2. a \in Nat
      BY DEF InUseOf, Mem, Memory
    <3>3. ASSUME NEW b \in held
          PROVE  b.at /= a + 1
      <4>1. b.at - 1 /= a
        BY <2>5, <2>7
      <4> QED
        BY <4>1, <3>2
    <3> QED
      BY <3>1, <3>3 DEF BlockOf
  <2> QED
    BY <2>2, <2>5, <2>6, <2>7 DEF InUseIsHeld
<1> QED
  BY <1>1, Invariance, PTL

-----------------------------------------------------------------------------
(* The implementation of Allocator.                                        *)

(* A step that gives the client chunk s is a Give of the allocator.        *)
LEMMA Gives ==
  ASSUME Inv, Inv', pc \in {"search", "grown"}, units \in 1 .. MaxRequest,
         NEW s \in Memory, s \notin InUseOf(MaxHeap, header), Return(s)
  PROVE  Abstract!Give
<1> DEFINE new == [at |-> s + 1, units |-> units]
<1>1. held' = held \union {new} /\ units' = 0 /\ pc' = "idle"
  BY DEF Return
<1>2. PICK m, end, taken : m = header' /\ end = g_heap_end' /\ taken = held'
  OBVIOUS
<1>3. Tiles(2, MaxHeap, m, end) /\ BlocksIn(MaxHeap, taken, m, {})
  BY <1>1, <1>2 DEF Inv, Heap, Blocks
<1>4. BlocksIn(MaxHeap, held, header, {})
  BY DEF Inv, Blocks
<1>5. new \in taken /\ held \subseteq taken /\ s \in Nat
      /\ new.at = s + 1 /\ new.units = units
  BY <1>1, <1>2 DEF Memory
<1>6. /\ taken \subseteq [at : Memory, units : 1 .. MaxRequest]
      /\ \A b \in taken : /\ b.at - 1 \in InUseOf(MaxHeap, m)
                          /\ b.units <= m[b.at - 1].units
  BY <1>3, Manager1 DEF BlocksIn
<1> HIDE DEF new
<1>7. InUseOf(MaxHeap, m) \subseteq ChunksOf(MaxHeap, m)
  BY DEF InUseOf, ChunksOf
<1>8. s \in ChunksOf(MaxHeap, m) /\ units <= m[s].units
  <2>1. new.at - 1 = s
    BY <1>5
  <2> QED
    BY <2>1, <1>5, <1>6, <1>7
<1>9. ASSUME NEW b \in held
      PROVE  /\ b.at - 1 \in ChunksOf(MaxHeap, m) \ {s}
             /\ b.units <= m[b.at - 1].units
  <2>1. b.at - 1 \in InUseOf(MaxHeap, header)
    BY <1>4 DEF BlocksIn
  <2> QED
    BY <2>1, <1>5, <1>6, <1>7
<1>10. held \subseteq [at : Memory, units : 1 .. MaxRequest]
  BY <1>5, <1>6
<1>11. /\ Abstract!Units(new) \subseteq Memory
       /\ \A b \in held : Abstract!Units(b) \cap Abstract!Units(new) = {}
  <2>1. \A b : Abstract!Units(b) = UnitsOf(b)
    BY DEF Abstract!Units, UnitsOf
  <2>2. held \subseteq [at : Mem(MaxHeap), units : 1 .. MaxRequest]
    BY <1>10, Manager1
  <2>3. /\ UnitsOf(new) \subseteq Mem(MaxHeap)
        /\ \A b \in held : UnitsOf(b) \cap UnitsOf(new) = {}
    <3>1. PICK n, b1, M : n = units /\ b1 = new /\ M = MaxHeap
      OBVIOUS
    <3>2. b1 = [at |-> s + 1, units |-> n]
      BY <3>1 DEF new
    <3>3. /\ Tiles(2, M, m, end) /\ s \in ChunksOf(M, m)
          /\ n \in 1 .. MaxRequest /\ n <= m[s].units /\ M \in Nat
      BY <3>1, <1>3, <1>8, SizesAssumption
    <3>4. InOthers(M, held, m, s)
      BY <3>1, <1>9, <2>2 DEF InOthers
    <3>5. Fresh(M, b1, held)
      BY <3>2, <3>3, <3>4, FreshBlock
    <3> QED
      BY <3>1, <3>5 DEF Fresh
  <2> QED
    BY <2>1, <2>3, Manager1
<1>12. new.at \in Memory
  BY <1>5, <1>6
<1>13. new = [at |-> new.at, units |-> units]
  BY <1>5 DEF new
<1> QED
  BY <1>1, <1>11, <1>12, <1>13, SizesAssumption DEF Abstract!Give

LEMMA StepImplements ==
  ASSUME Inv, Inv', [Next]_vars
  PROVE  [Abstract!Next]_(Abstract!vars)
<1>1. CASE Malloc
  <2>1. pc = "idle" /\ units' \in 1 .. MaxRequest /\ held' = held
    BY <1>1 DEF Malloc
  <2>2. units = 0
    BY <2>1 DEF Inv, Call, Idle
  <2>3. Abstract!Malloc
    BY <2>1, <2>2 DEF Abstract!Malloc
  <2> QED
    BY <2>3 DEF Abstract!Next
<1>2. CASE Free
  <2>1. pc = "idle" /\ units' = units /\ \E b \in held : held' = held \ {b}
    BY <1>2 DEF Free
  <2>2. units = 0
    BY <2>1 DEF Inv, Call, Idle
  <2>3. Abstract!Free
    BY <2>1, <2>2 DEF Abstract!Free
  <2> QED
    BY <2>3 DEF Abstract!Next
<1>3. CASE SbrkFails
  <2>1. pc = "search" /\ units' = 0 /\ held' = held
    BY <1>3 DEF SbrkFails
  <2>2. units \in 1 .. MaxRequest
    BY <2>1 DEF Inv, Call, Searching
  <2>3. units /= 0
    BY <2>2
  <2>4. Abstract!Refuse
    BY <2>1, <2>3 DEF Abstract!Refuse
  <2> QED
    BY <2>4 DEF Abstract!Next
<1>4. ASSUME (pc = "search" /\ c /= Null) \/ pc = "grown"
      PROVE  /\ pc \in {"search", "grown"} /\ units \in 1 .. MaxRequest
             /\ c \in FreeOf(MaxHeap, header) /\ c \in Memory
             /\ c \notin InUseOf(MaxHeap, header)
  <2>1. /\ pc \in {"search", "grown"} /\ units \in 1 .. MaxRequest
        /\ c \in FreeOf(MaxHeap, header)
    BY <1>4 DEF Inv, Call, Searching, Grown
  <2> QED
    BY <2>1, Manager1 DEF FreeOf, InUseOf
<1>5. ASSUME (pc = "search" /\ c /= Null) \/ pc = "grown", Splittable(c),
             Return(SplitAt(header, c, units))
      PROVE  Abstract!Next
  <2>1. /\ Tiles(2, MaxHeap, header, g_heap_end)
        /\ Listed(MaxHeap, header, g_free_head)
        /\ Apart(2, MaxHeap, header, {}) /\ header[c].units > units + 2
    BY <1>5 DEF Inv, Heap, Splittable
  <2>2. PICK s : s = SplitAt(header, c, units)
    OBVIOUS
  <2>3. s \in Memory /\ s \notin ChunksOf(MaxHeap, header)
    <3>1. s \in Mem(MaxHeap) /\ s \notin ChunksOf(MaxHeap, header)
      BY <2>1, <2>2, <1>4, <1>5, SplitKeeps, SizesAssumption
    <3> QED
      BY <3>1, Manager1
  <2>4. s \notin InUseOf(MaxHeap, header)
    BY <2>3 DEF InUseOf, ChunksOf
  <2>5. Abstract!Give
    BY <2>2, <2>3, <2>4, <1>4, <1>5, Gives
  <2> QED
    BY <2>5 DEF Abstract!Next
<1>6. ASSUME (pc = "search" /\ c /= Null) \/ pc = "grown", TakeWhole(prev, c)
      PROVE  Abstract!Next
  <2>1. Return(c)
    BY <1>6 DEF TakeWhole
  <2>2. Abstract!Give
    BY <2>1, <1>4, <1>6, Gives
  <2> QED
    BY <2>2 DEF Abstract!Next
<1>7. CASE TakeTail
  BY <1>5, <1>7 DEF TakeTail
<1>8. CASE TakePerfectFit
  BY <1>6, <1>8 DEF TakePerfectFit
<1>9. CASE TakeFromGrown
  BY <1>5, <1>6, <1>9 DEF TakeFromGrown
<1>10. CASE SearchOn \/ Grow \/ PlaceOn \/ Insert \/ UNCHANGED vars
  <2>1. units' = units /\ held' = held
    BY <1>10 DEF SearchOn, Grow, PlaceOn, Insert, vars, localVars
  <2> QED
    BY <2>1 DEF Abstract!vars
<1> QED
  BY <1>1, <1>2, <1>3, <1>7, <1>8, <1>9, <1>10 DEF Next, Continue

(* heapmgr1.c is an allocator: whatever sequence of calls a client makes,  *)
(* a block it is given has the size it asked for and shares no unit with   *)
(* a block it has.                                                         *)
THEOREM HeapIsAllocator == Spec => ImplementsAllocator
<1>1. Init => Abstract!Init
  BY DEF Init, Abstract!Init
<1>2. Inv /\ Inv' /\ [Next]_vars => [Abstract!Next]_(Abstract!vars)
  BY StepImplements
<1> QED
  BY <1>1, <1>2, Invariance, PTL DEF Spec, ImplementsAllocator, Abstract!Spec

-----------------------------------------------------------------------------
(* chunkbase.c and heapmgrbase.c: k is 1, and a heap is a record.          *)

HeapOf(head, end, at) == [head |-> head, end |-> end, at |-> at]

LEMMA HeapFields ==
  ASSUME NEW head, NEW end, NEW at
  PROVE  /\ HeapOf(head, end, at).head = head
         /\ HeapOf(head, end, at).end = end
         /\ HeapOf(head, end, at).at = at
BY DEF HeapOf

LEMMA ManagerBase ==
  /\ MaxBaseHeap \in Nat
  /\ Base!Memory = Mem(MaxBaseHeap) /\ Base!NoHeader = NoHeader
  /\ \A h, c1 : Base!next_adjacent(h, c1) = Touching(1, h.at, c1, h.end)
  /\ \A h, c1, n : Base!SplitAt(h, c1, n) = SplitAt(h.at, c1, n)
  /\ \A h, e, c1 : Base!Joined(h, e, c1) = JoinedAt(1, h.at, e, c1, h.end)
<1>1. MaxBaseHeap \in Nat /\ Base!Memory = Mem(MaxBaseHeap)
  BY BaseSizeAssumption DEF Base!Memory, Mem
<1>2. Base!NoHeader = NoHeader
  BY DEF Base!NoHeader, NoHeader
<1>3. \A h, c1 : Base!next_adjacent(h, c1) = Touching(1, h.at, c1, h.end)
  BY DEF Base!next_adjacent, Touching
<1>4. \A h, c1, n : Base!SplitAt(h, c1, n) = SplitAt(h.at, c1, n)
  BY DEF Base!SplitAt, SplitAt
<1>5. \A h, e, c1 : Base!Joined(h, e, c1) = JoinedAt(1, h.at, e, c1, h.end)
  BY <1>3 DEF Base!Joined, JoinedAt
<1> QED
  BY <1>1, <1>2, <1>3, <1>4, <1>5

LEMMA BaseMerge ==
  ASSUME NEW head, NEW end, NEW at, NEW x, NEW y
  PROVE  Base!merge_chunk(HeapOf(head, end, at), x, y)
           = HeapOf(head, end, Fused(1, at, x, y))
<1>1. PICK h : h = HeapOf(head, end, at)
  OBVIOUS
<1>2. PICK at1 : at1 = [at EXCEPT ![x].units = at[x].units + at[y].units + 1]
  OBVIOUS
<1>3. PICK at2 : at2 = [at1 EXCEPT ![x].next = at[y].next]
  OBVIOUS
<1>4. PICK h1 :
        h1 = [h EXCEPT !.at[x].units = h.at[x].units + h.at[y].units + 1]
  OBVIOUS
<1>5. PICK h2 : h2 = [h1 EXCEPT !.at[x].next = h.at[y].next]
  OBVIOUS
<1>6. Base!merge_chunk(h, x, y) = [h2 EXCEPT !.at[y] = NoHeader]
  BY <1>4, <1>5 DEF Base!merge_chunk, Base!NoHeader, NoHeader
<1>7. Fused(1, at, x, y) = [at2 EXCEPT ![y] = NoHeader]
  BY <1>2, <1>3 DEF Fused
<1>8. h.at = at
  BY <1>1, HeapFields
<1>9. h1 = HeapOf(head, end, at1)
  BY <1>1, <1>2, <1>4, <1>8 DEF HeapOf
<1>10. h2 = HeapOf(head, end, at2)
  BY <1>3, <1>5, <1>8, <1>9 DEF HeapOf
<1>11. [h2 EXCEPT !.at[y] = NoHeader]
         = HeapOf(head, end, [at2 EXCEPT ![y] = NoHeader])
  BY <1>10 DEF HeapOf
<1> QED
  BY <1>1, <1>6, <1>7, <1>11

LEMMA BaseSplit ==
  ASSUME NEW head, NEW end, NEW at, NEW a, NEW n
  PROVE  Base!split_chunk(HeapOf(head, end, at), a, n)
           = HeapOf(head, end, Cut(1, at, a, n))
<1>1. PICK h, at1, new :
        /\ h = HeapOf(head, end, at)
        /\ at1 = [at EXCEPT ![a].units = at[a].units - n - 1]
        /\ new = [status |-> "in_use", units |-> n, next |-> at[a].next]
  OBVIOUS
<1>2. h.at = at
  BY <1>1, HeapFields
<1>3. Base!split_chunk(h, a, n)
        = [[h EXCEPT !.at[a].units = h.at[a].units - n - 1]
             EXCEPT !.at[SplitAt(at, a, n)] = new]
  BY <1>1, <1>2 DEF Base!split_chunk, Base!SplitAt, SplitAt
<1>4. Cut(1, at, a, n) = [at1 EXCEPT ![SplitAt(at, a, n)] = new]
  BY <1>1 DEF Cut
<1>5. [h EXCEPT !.at[a].units = h.at[a].units - n - 1] = HeapOf(head, end, at1)
  BY <1>1, <1>2 DEF HeapOf
<1>6. [HeapOf(head, end, at1) EXCEPT !.at[SplitAt(at, a, n)] = new]
        = HeapOf(head, end, [at1 EXCEPT ![SplitAt(at, a, n)] = new])
  BY DEF HeapOf
<1> QED
  BY <1>1, <1>3, <1>4, <1>5, <1>6

LEMMA BaseRemove ==
  ASSUME NEW head, NEW end, NEW at, NEW p, NEW a
  PROVE  Base!remove_chunk_from_list(HeapOf(head, end, at), p, a)
           = HeapOf(IF p = Null THEN at[a].next ELSE head, end,
                    remove_chunk_from_list(at, p, a))
<1>1. PICK h, at1, at2, h1, h2 :
        /\ h = HeapOf(head, end, at)
        /\ at1 = [at EXCEPT ![a].status = "in_use"]
        /\ at2 = [at1 EXCEPT ![a].next = Null]
        /\ h1 = [h EXCEPT !.at[a].status = "in_use"]
        /\ h2 = [h1 EXCEPT !.at[a].next = Null]
  OBVIOUS
<1>2. h.at = at
  BY <1>1, HeapFields
<1>3. h1 = HeapOf(head, end, at1)
  BY <1>1 DEF HeapOf
<1>4. h2 = HeapOf(head, end, at2)
  BY <1>1, <1>3 DEF HeapOf
<1>5. Base!remove_chunk_from_list(h, p, a)
        = IF p = Null THEN [h2 EXCEPT !.head = at[a].next]
          ELSE [h2 EXCEPT !.at[p].next = at[a].next]
  <2>1. [h EXCEPT !.at[a].status = "in_use", !.at[a].next = Null] = h2
    BY <1>1
  <2>2. Base!remove_chunk_from_list(h, p, a)
          = IF p = Null THEN [h2 EXCEPT !.head = h.at[a].next]
            ELSE [h2 EXCEPT !.at[p].next = h.at[a].next]
    BY <2>1, Zenon DEF Base!remove_chunk_from_list
  <2> QED
    BY <1>2, <2>2
<1>6. remove_chunk_from_list(at, p, a)
        = IF p = Null THEN at2 ELSE [at2 EXCEPT ![p].next = at[a].next]
  <2>1. [at EXCEPT ![a].status = "in_use", ![a].next = Null] = at2
    BY <1>1
  <2> QED
    BY <2>1 DEF remove_chunk_from_list
<1>7. [h2 EXCEPT !.head = at[a].next] = HeapOf(at[a].next, end, at2)
  BY <1>4 DEF HeapOf
<1>8. [h2 EXCEPT !.at[p].next = at[a].next]
        = HeapOf(head, end, [at2 EXCEPT ![p].next = at[a].next])
  BY <1>4 DEF HeapOf
<1> QED
  BY <1>1, <1>5, <1>6, <1>7, <1>8

LEMMA BaseInsert ==
  ASSUME NEW head, NEW end, NEW at, NEW a
  PROVE  Base!insert_chunk(HeapOf(head, end, at), a)
           = HeapOf(a, end, AtFront(1, at, head, a, end))
<1>1. PICK h, freed :
        /\ h = HeapOf(head, end, at)
        /\ freed = [at EXCEPT ![a].status = "free", ![a].next = head]
  OBVIOUS
<1>2. h.at = at /\ h.head = head
  BY <1>1, HeapFields
<1>3. [h EXCEPT !.at[a].status = "free", !.at[a].next = h.head, !.head = a]
        = HeapOf(a, end, freed)
  <2>1. PICK at1 : at1 = [at EXCEPT ![a].status = "free"]
    OBVIOUS
  <2>2. [h EXCEPT !.at[a].status = "free", !.at[a].next = h.head, !.head = a]
          = [[[h EXCEPT !.at[a].status = "free"] EXCEPT !.at[a].next = h.head]
               EXCEPT !.head = a]
    OBVIOUS
  <2>3. [h EXCEPT !.at[a].status = "free"] = HeapOf(head, end, at1)
    BY <1>1, <2>1 DEF HeapOf
  <2>4. freed = [at1 EXCEPT ![a].next = head]
    BY <1>1, <2>1
  <2>5. [HeapOf(head, end, at1) EXCEPT !.at[a].next = h.head]
          = HeapOf(head, end, freed)
    BY <1>2, <2>4 DEF HeapOf
  <2>6. [HeapOf(head, end, freed) EXCEPT !.head = a] = HeapOf(a, end, freed)
    BY DEF HeapOf
  <2> QED
    BY <2>2, <2>3, <2>5, <2>6
<1>4. Base!next_adjacent(HeapOf(a, end, freed), a) = Touching(1, freed, a, end)
  BY ManagerBase, HeapFields
<1>5. Base!insert_chunk(h, a)
        = IF head /= Null /\ Touching(1, freed, a, end) = head
          THEN Base!merge_chunk(HeapOf(a, end, freed), a, head)
          ELSE HeapOf(a, end, freed)
  BY <1>2, <1>3, <1>4 DEF Base!insert_chunk
<1>6. AtFront(1, at, head, a, end)
        = IF head /= Null /\ Touching(1, freed, a, end) = head
          THEN Fused(1, freed, a, head) ELSE freed
  BY <1>1 DEF AtFront
<1>7. Base!merge_chunk(HeapOf(a, end, freed), a, head)
        = HeapOf(a, end, Fused(1, freed, a, head))
  BY BaseMerge
<1> QED
  BY <1>1, <1>5, <1>6, <1>7

LEMMA BaseInsertAfter ==
  ASSUME NEW head, NEW end, NEW at, NEW e, NEW a
  PROVE  Base!insert_chunk_after(HeapOf(head, end, at), e, a)
           = HeapOf(head, end, Behind(1, at, e, a, end))
<1> DEFINE h == HeapOf(head, end, at)
           placed == [at EXCEPT ![a].status = "free", ![a].next = at[e].next,
                                ![e].next = a]
           j == JoinedAt(1, at, e, a, end)
           lower == IF j = e THEN Fused(1, placed, e, a) ELSE placed
<1>1. /\ h = HeapOf(head, end, at)
      /\ placed = [at EXCEPT ![a].status = "free", ![a].next = at[e].next,
                             ![e].next = a]
      /\ j = JoinedAt(1, at, e, a, end)
      /\ lower = IF j = e THEN Fused(1, placed, e, a) ELSE placed
  OBVIOUS
<1> HIDE DEF h, placed, j, lower
<1>2. h.at = at /\ h.head = head /\ h.end = end
  BY <1>1, HeapFields
<1>3. [h EXCEPT !.at[a].status = "free", !.at[a].next = h.at[e].next,
                !.at[e].next = a]
        = HeapOf(head, end, placed)
  <2>1. PICK at1 : at1 = [at EXCEPT ![a].status = "free"]
    OBVIOUS
  <2>2. PICK at2 : at2 = [at1 EXCEPT ![a].next = at[e].next]
    OBVIOUS
  <2>3. PICK h1 : h1 = [h EXCEPT !.at[a].status = "free"]
    OBVIOUS
  <2>4. PICK h2 : h2 = [h1 EXCEPT !.at[a].next = h.at[e].next]
    OBVIOUS
  <2>5. [h EXCEPT !.at[a].status = "free", !.at[a].next = h.at[e].next,
                  !.at[e].next = a]
          = [h2 EXCEPT !.at[e].next = a]
    BY <2>3, <2>4
  <2>6. h1 = HeapOf(head, end, at1)
    BY <1>1, <2>1, <2>3 DEF HeapOf
  <2>7. h2 = HeapOf(head, end, at2)
    BY <1>2, <2>2, <2>4, <2>6 DEF HeapOf
  <2>8. [h2 EXCEPT !.at[e].next = a]
          = HeapOf(head, end, [at2 EXCEPT ![e].next = a])
    BY <2>7 DEF HeapOf
  <2>9. placed = [at2 EXCEPT ![e].next = a]
    BY <1>1, <2>1, <2>2
  <2> QED
    BY <2>5, <2>8, <2>9
<1>4. Base!Joined(h, e, a) = j
  BY <1>1, <1>2, ManagerBase
<1>5. (IF j = e THEN Base!merge_chunk(HeapOf(head, end, placed), e, a)
       ELSE HeapOf(head, end, placed)) = HeapOf(head, end, lower)
  BY <1>1, BaseMerge
<1>6. PICK low : low = HeapOf(head, end, lower)
  OBVIOUS
<1>7. low.at = lower /\ low.end = end
  BY <1>6, HeapFields
<1>8. PICK n : n = Touching(1, lower, j, end)
  OBVIOUS
<1>9. Base!next_adjacent(low, j) = n
  BY <1>7, <1>8, ManagerBase
<1>10. Base!IsFree(low, n) <=> n /= Null /\ lower[n].status = "free"
  BY <1>7 DEF Base!IsFree
<1>11. Base!insert_chunk_after(h, e, a)
         = IF Base!IsFree(low, n) THEN Base!merge_chunk(low, j, n) ELSE low
  <2>1. Base!insert_chunk_after(h, e, a)
          = LET lo == IF Base!Joined(h, e, a) = e
                      THEN Base!merge_chunk(HeapOf(head, end, placed), e, a)
                      ELSE HeapOf(head, end, placed)
                t == Base!next_adjacent(lo, Base!Joined(h, e, a))
            IN  IF Base!IsFree(lo, t)
                THEN Base!merge_chunk(lo, Base!Joined(h, e, a), t) ELSE lo
    BY <1>3 DEF Base!insert_chunk_after
  <2> QED
    BY <2>1, <1>4, <1>5, <1>6, <1>9
<1>12. Base!merge_chunk(low, j, n) = HeapOf(head, end, Fused(1, lower, j, n))
  BY <1>6, BaseMerge
<1>13. Behind(1, at, e, a, end) = FusedWithNext(1, lower, j, end)
  BY <1>1 DEF Behind
<1>14. FusedWithNext(1, lower, j, end)
         = IF n /= Null /\ lower[n].status = "free"
           THEN Fused(1, lower, j, n) ELSE lower
  BY <1>8 DEF FusedWithNext
<1> QED
  BY <1>1, <1>6, <1>10, <1>11, <1>12, <1>13, <1>14

-----------------------------------------------------------------------------
(* The loops over the free list, of M units of memory: L[n] is the n-th    *)
(* chunk on it.                                                            *)
Walked(M, h, head, L) ==
  /\ L[0] = Null /\ L[1] = head
  /\ \A n \in 1 .. M : L[n + 1] = IF L[n] = Null THEN Null ELSE h[L[n]].next
  /\ \A n \in 1 .. M + 1 : L[n] \in FreeOf(M, h) \union {Null}

(* n is where the loop stops that looks for a chunk of wanted.             *)
Stops(M, h, head, L, wanted, n) ==
  /\ n \in 1 .. M + 1
  /\ L[n] = Null \/ L[n] \in wanted
  /\ \A m \in 1 .. n - 1 : L[m] /= Null /\ L[m] \notin wanted
  /\ L[n] \in FreeOf(M, h) \union {Null}
  /\ L[n - 1] \in FreeOf(M, h) \union {Null}
  /\ Before(M, h, head, L[n - 1], L[n])
  /\ L[n - 1] /= Null => /\ L[n - 1] \notin wanted
                         /\ Before(M, h, head, L[n - 2], L[n - 1])

LEMMA FreeListWalked ==
  ASSUME NEW head, NEW end, NEW at, Listed(MaxBaseHeap, at, head)
  PROVE  Walked(MaxBaseHeap, at, head, Base!FreeList(HeapOf(head, end, at)))
<1> DEFINE M == MaxBaseHeap
           h == HeapOf(head, end, at)
           S == FreeOf(M, at)
           IsList(L) == L = [n \in 0 .. M + 1 |->
                               IF n = 0 THEN Null
                               ELSE IF n = 1 THEN head
                               ELSE IF L[n - 1] = Null THEN Null
                               ELSE at[L[n - 1]].next]
           following == [a \in Mem(M) |-> at[a].next]
<1>1. M \in Nat
  BY ManagerBase
<1>2. h.head = head /\ h.at = at
  BY HeapFields
<1>3. head \in S \union {Null} /\ \A f \in S : at[f].next \in S \union {Null}
  BY <1>1, NextOnList
<1>4. S \subseteq Mem(M)
  BY DEF FreeOf
<1>5. \A f \in S : following[f] = at[f].next
  BY <1>4
<1>6. PICK met : IsWalk(met, head, following, M)
  BY <1>1, WalkExists
<1>7. \A i \in 0 .. M : met[i] \in S \union {Null}
  <2> HIDE DEF following, S
  <2>1. \A f \in S : following[f] \in S \union {Null}
    BY <1>3, <1>5
  <2> QED
    BY <1>1, <1>3, <1>6, <2>1, WalkWithin
<1>8. \A i \in 0 .. M : met[i] = IF i = 0 THEN head
                                 ELSE IF met[i - 1] = Null THEN Null
                                 ELSE following[met[i - 1]]
  BY <1>6 DEF IsWalk
<1> HIDE DEF following, S, h
<1>9. \E L : IsList(L)
  <2> DEFINE L == [n \in 0 .. M + 1 |-> IF n = 0 THEN Null ELSE met[n - 1]]
  <2>1. ASSUME NEW n \in 0 .. M + 1, n /= 0
        PROVE  L[n] = IF n = 1 THEN head
                      ELSE IF L[n - 1] = Null THEN Null
                      ELSE at[L[n - 1]].next
    <3>1. L[n] = met[n - 1] /\ n - 1 \in 0 .. M /\ n \in Nat
      BY <1>1, <2>1
    <3>2. CASE n = 1
      BY <3>1, <3>2, <1>8
    <3>3. CASE n /= 1
      <4>1. n - 1 /= 0 /\ n - 1 \in 0 .. M + 1 /\ n - 2 \in 0 .. M
            /\ n - 1 - 1 = n - 2
        BY <3>1, <3>3, <2>1, <1>1
      <4>2. L[n - 1] = met[n - 2]
        BY <4>1
      <4>3. met[n - 1] = IF met[n - 2] = Null THEN Null
                         ELSE following[met[n - 2]]
        BY <3>1, <4>1, <1>8
      <4> HIDE DEF L
      <4> QED
        BY <3>1, <3>3, <4>1, <4>2, <4>3, <1>5, <1>7
    <3> QED
      BY <3>2, <3>3
  <2>2. L[0] = Null /\ L = [n \in 0 .. M + 1 |-> L[n]]
    BY <1>1
  <2> HIDE DEF L
  <2>3. L = [n \in 0 .. M + 1 |->
               IF n = 0 THEN Null
               ELSE IF n = 1 THEN head
               ELSE IF L[n - 1] = Null THEN Null
               ELSE at[L[n - 1]].next]
    BY <2>1, <2>2
  <2> QED
    BY <2>3
<1>10. PICK L : L = Base!FreeList(h)
  OBVIOUS
<1>11. L = CHOOSE f : IsList(f)
  BY <1>2, <1>10 DEF Base!FreeList
<1>12. IsList(L)
  BY <1>9, <1>11
<1>13. \A n \in 0 .. M + 1 : L[n] = IF n = 0 THEN Null
                                    ELSE IF n = 1 THEN head
                                    ELSE IF L[n - 1] = Null THEN Null
                                    ELSE at[L[n - 1]].next
  BY <1>12
<1>14. L[0] = Null /\ L[1] = head
  BY <1>1, <1>13
<1>15. ASSUME NEW n \in 1 .. M
       PROVE  L[n + 1] = IF L[n] = Null THEN Null ELSE at[L[n]].next
  <2>1. n + 1 \in 0 .. M + 1 /\ n + 1 /= 0 /\ n + 1 /= 1 /\ n + 1 - 1 = n
    BY <1>1
  <2> QED
    BY <2>1, <1>13
<1>16. \A n \in 1 .. M + 1 : L[n] \in S \union {Null}
  <2> DEFINE T == {n \in 1 .. M + 1 : L[n] \notin S \union {Null}}
  <2> SUFFICES ASSUME T /= {} PROVE FALSE
    OBVIOUS
  <2>1. T \subseteq Nat
    BY <1>1
  <2>2. PICK x \in T : \A y \in T : x <= y
    BY <2>1, Least
  <2>3. x \in 1 .. M + 1 /\ x \in Nat /\ L[x] \notin S \union {Null}
    BY <2>1
  <2>4. x /= 1
    BY <2>3, <1>14, <1>3
  <2>5. x - 1 \in 1 .. M /\ x - 1 \in 1 .. M + 1 /\ ~(x <= x - 1)
        /\ x - 1 + 1 = x
    BY <2>3, <2>4, <1>1
  <2>6. L[x - 1] \in S \union {Null}
    BY <2>2, <2>5
  <2>7. L[x] = IF L[x - 1] = Null THEN Null ELSE at[L[x - 1]].next
    BY <2>5, <1>15
  <2> QED
    BY <2>3, <2>6, <2>7, <1>3
<1> QED
  BY <1>10, <1>14, <1>15, <1>16 DEF Walked, S, h

(* The chunks on the list ascend, so the loops end at Null.                *)
LEMMA WalkAscends ==
  ASSUME NEW M \in Nat, NEW h, NEW head, NEW L,
         Listed(M, h, head), Walked(M, h, head, L)
  PROVE  /\ \A n \in 1 .. M + 1 : L[n] /= Null => L[n] \in Nat /\ n - 1 <= L[n]
         /\ L[M + 1] = Null
<1> DEFINE T == {n \in 1 .. M + 1 :
                   ~(L[n] = Null \/ (L[n] \in Nat /\ n - 1 <= L[n]))}
<1>1. \A f \in FreeOf(M, h) : f \in Nat /\ f < M
  BY DEF FreeOf, Mem
<1>2. \A n \in 1 .. M + 1 : L[n] = Null \/ (L[n] \in Nat /\ L[n] < M)
  BY <1>1 DEF Walked
<1>3. T = {}
  <2> SUFFICES ASSUME T /= {} PROVE FALSE
    OBVIOUS
  <2>1. T \subseteq Nat
    OBVIOUS
  <2>2. PICK x \in T : \A y \in T : x <= y
    BY <2>1, Least
  <2>3. x \in 1 .. M + 1 /\ x \in Nat /\ L[x] /= Null /\ ~(x - 1 <= L[x])
        /\ L[x] \in Nat
    BY <2>1, <1>2
  <2>4. x - 1 \in 1 .. M /\ x - 1 \in 1 .. M + 1 /\ ~(x <= x - 1)
        /\ x - 1 + 1 = x
    BY <2>3
  <2>5. L[x] = IF L[x - 1] = Null THEN Null ELSE h[L[x - 1]].next
    BY <2>4 DEF Walked
  <2>6. L[x - 1] /= Null /\ L[x] = h[L[x - 1]].next
    BY <2>3, <2>5
  <2>7. L[x - 1] \in FreeOf(M, h)
    BY <2>4, <2>6 DEF Walked
  <2>8. FirstAbove(M, h, L[x - 1], L[x])
    BY <2>6, <2>7 DEF Listed
  <2>9. L[x - 1] < L[x]
    BY <2>3, <2>8 DEF FirstAbove
  <2>10. L[x - 1] \in Nat /\ x - 1 - 1 <= L[x - 1]
    BY <2>2, <2>4, <2>6
  <2> QED
    BY <2>3, <2>9, <2>10
<1>4. \A n \in 1 .. M + 1 : L[n] /= Null => L[n] \in Nat /\ n - 1 <= L[n]
  BY <1>3
<1>5. M + 1 \in 1 .. M + 1 /\ M + 1 - 1 = M
  OBVIOUS
<1>6. L[M + 1] = Null
  BY <1>2, <1>4, <1>5
<1> QED
  BY <1>4, <1>6

(* The loop stops, and prev is the chunk before on the list.               *)
LEMMA FirstPlaceStops ==
  ASSUME NEW head, NEW end, NEW at, Listed(MaxBaseHeap, at, head), NEW wanted
  PROVE  LET h == HeapOf(head, end, at)
         IN  Stops(MaxBaseHeap, at, head, Base!FreeList(h), wanted,
                   Base!FirstPlace(h, wanted))
<1> DEFINE M == MaxBaseHeap
           h == HeapOf(head, end, at)
           S == FreeOf(M, at)
           L == Base!FreeList(h)
           T == {n \in 1 .. M + 1 : L[n] = Null \/ L[n] \in wanted}
           First(n) == /\ L[n] = Null \/ L[n] \in wanted
                       /\ \A m \in 1 .. n - 1 :
                            L[m] /= Null /\ L[m] \notin wanted
<1>1. M \in Nat
  BY ManagerBase
<1>2. Walked(M, at, head, L)
  BY FreeListWalked
<1>3. L[M + 1] = Null
  BY <1>1, <1>2, WalkAscends
<1>4. PICK n : n = Base!FirstPlace(h, wanted)
  OBVIOUS
<1>5. n = CHOOSE x \in 1 .. M + 1 : First(x)
  BY <1>4 DEF Base!FirstPlace
<1> HIDE DEF L, h
<1>6. \E x \in 1 .. M + 1 : First(x)
  <2>1. T \subseteq Nat /\ M + 1 \in T
    BY <1>1, <1>3
  <2>2. PICK x \in T : \A y \in T : x <= y
    BY <2>1, Least
  <2>3. x \in Nat /\ x \in 1 .. M + 1
    BY <2>1
  <2>4. ASSUME NEW m \in 1 .. x - 1
        PROVE  L[m] /= Null /\ L[m] \notin wanted
    <3>1. m \in 1 .. M + 1 /\ ~(x <= m)
      BY <2>3, <1>1
    <3> QED
      BY <3>1, <2>2
  <2> QED
    BY <2>2, <2>3, <2>4
<1>7. n \in 1 .. M + 1 /\ First(n)
  <2> HIDE DEF First
  <2> QED
    BY <1>5, <1>6
<1>8. n \in Nat /\ L[n] \in S \union {Null}
  BY <1>2, <1>7, <1>1 DEF Walked
<1>9. \A m \in 1 .. M : L[m] /= Null => L[m] \in S /\ L[m + 1] = at[L[m]].next
  <2>1. \A m \in 1 .. M : m \in 1 .. M + 1
    BY <1>1
  <2> QED
    BY <1>2, <2>1 DEF Walked
<1>10. CASE n = 1
  <2>1. L[n - 1] = Null /\ L[n] = head
    BY <1>10, <1>2 DEF Walked
  <2> QED
    BY <2>1, <1>4, <1>7, <1>8 DEF Stops, Before, L, h
<1>11. CASE n /= 1
  <2>1. n - 1 \in 1 .. M /\ n - 1 \in 1 .. n - 1 /\ n - 1 + 1 = n
    BY <1>7, <1>8, <1>11, <1>1
  <2>2. L[n - 1] \in S /\ L[n - 1] /= Null /\ L[n - 1] \notin wanted
        /\ L[n] = at[L[n - 1]].next
    BY <2>1, <1>7, <1>9
  <2>3. Before(M, at, head, L[n - 1], L[n])
    BY <2>2 DEF Before
  <2>4. Before(M, at, head, L[n - 2], L[n - 1])
    <3>1. CASE n = 2
      BY <3>1, <1>2 DEF Walked, Before
    <3>2. CASE n /= 2
      <4>1. n - 2 \in 1 .. M /\ n - 2 \in 1 .. n - 1 /\ n - 2 + 1 = n - 1
        BY <1>7, <1>8, <1>11, <1>1, <3>2
      <4>2. L[n - 2] \in S /\ L[n - 2] /= Null /\ L[n - 1] = at[L[n - 2]].next
        BY <4>1, <1>7, <1>9
      <4> QED
        BY <4>2 DEF Before
    <3> QED
      BY <3>1, <3>2
  <2> QED
    BY <2>2, <2>3, <2>4, <1>4, <1>7, <1>8 DEF Stops, L, h
<1> QED
  BY <1>10, <1>11

-----------------------------------------------------------------------------
(* What the functions of heapmgrbase.c keep.                               *)

Kept(h) ==
  /\ h = HeapOf(h.head, h.end, h.at)
  /\ Tiles(1, MaxBaseHeap, h.at, h.end)
  /\ Listed(MaxBaseHeap, h.at, h.head)
  /\ Apart(1, MaxBaseHeap, h.at, {})

(* From headers h to m chunk s, with n units or more, has come in use.     *)
Given(h, m, s, n) ==
  /\ s \in Mem(MaxBaseHeap) /\ s + 1 \in Mem(MaxBaseHeap)
  /\ s \notin InUseOf(MaxBaseHeap, h) /\ n <= m[s].units
  /\ InUseOf(MaxBaseHeap, m) = InUseOf(MaxBaseHeap, h) \union {s}
  /\ \A x \in InUseOf(MaxBaseHeap, h) : m[x] = h[x]

(* Take, for a request of n units.                                         *)
TakenFor(h, p, a, n) ==
  IF h.at[a].units > n + 1
  THEN [heap |-> Base!split_chunk(h, a, n), chunk |-> Base!SplitAt(h, a, n)]
  ELSE [heap |-> Base!remove_chunk_from_list(h, p, a), chunk |-> a]

LEMMA TakeKeeps ==
  ASSUME NEW h, NEW p, NEW n \in 1 .. MaxRequest, NEW t, Kept(h),
         NEW a \in FreeOf(MaxBaseHeap, h.at),
         Before(MaxBaseHeap, h.at, h.head, p, a), n <= h.at[a].units,
         t = TakenFor(h, p, a, n)
  PROVE  Kept(t.heap) /\ Given(h.at, t.heap.at, t.chunk, n)
<1> DEFINE M == MaxBaseHeap
<1>1. PICK head, end, at : head = h.head /\ end = h.end /\ at = h.at
  OBVIOUS
<1>2. /\ h = HeapOf(head, end, at) /\ Tiles(1, M, at, end)
      /\ Listed(M, at, head) /\ Apart(1, M, at, {}) /\ a \in FreeOf(M, at)
      /\ Before(M, at, head, p, a) /\ n <= at[a].units /\ M \in Nat
  BY <1>1, ManagerBase DEF Kept
<1>3. a \in ChunksOf(M, at) /\ a \in Mem(M) /\ a \notin InUseOf(M, at)
  BY <1>2 DEF FreeOf, ChunksOf, InUseOf
<1>4. a \in Nat /\ a + 2 <= end /\ end <= M /\ end \in Nat /\ a + 1 \in Mem(M)
      /\ at[a].units \in Nat
  <2>1. /\ a \in Nat /\ end \in Nat /\ end <= M /\ EndAt(1, at, a) \in Nat
        /\ a + 2 <= EndAt(1, at, a) /\ EndAt(1, at, a) <= end
        /\ at[a].units \in Nat
    BY <1>2, <1>3, ChunkBounds
  <2> QED
    BY <2>1, <1>2 DEF Mem
<1>5. CASE at[a].units > n + 1
  <2>1. PICK m, s : m = Cut(1, at, a, n) /\ s = SplitAt(at, a, n)
    OBVIOUS
  <2>2. /\ Tiles(1, M, m, end) /\ Listed(M, m, head) /\ Apart(1, M, m, {})
        /\ InUseOf(M, m) = InUseOf(M, at) \union {s}
        /\ s \in Mem(M) /\ s + 1 \in Mem(M) /\ s \notin ChunksOf(M, at)
        /\ m[s].units = n
        /\ \A x \in InUseOf(M, at) : m[x] = at[x]
    BY <1>2, <1>5, <2>1, SplitKeeps
  <2>3. t = [heap |-> HeapOf(head, end, m), chunk |-> s]
    <3>1. Base!split_chunk(h, a, n) = HeapOf(head, end, m)
      BY <1>2, <2>1, BaseSplit
    <3>2. Base!SplitAt(h, a, n) = s
      BY <1>1, <2>1, ManagerBase
    <3> QED
      BY <3>1, <3>2, <1>1, <1>5 DEF TakenFor
  <2>4. t.heap = HeapOf(head, end, m) /\ t.chunk = s
    BY <2>3
  <2>5. t.heap.head = head /\ t.heap.end = end /\ t.heap.at = m
    BY <2>4, HeapFields
  <2>6. Kept(t.heap)
    BY <2>2, <2>4, <2>5 DEF Kept
  <2>7. s \notin InUseOf(M, at) /\ n <= m[s].units
    BY <2>2 DEF InUseOf, ChunksOf
  <2>8. Given(at, m, s, n)
    BY <2>2, <2>7 DEF Given
  <2> QED
    BY <2>4, <2>5, <2>6, <2>8, <1>1
<1>6. CASE ~(at[a].units > n + 1)
  <2>1. PICK m, first : /\ m = remove_chunk_from_list(at, p, a)
                        /\ first = IF p = Null THEN at[a].next ELSE head
    OBVIOUS
  <2>2. /\ Tiles(1, M, m, end) /\ Listed(M, m, first) /\ Apart(1, M, m, {})
        /\ InUseOf(M, m) = InUseOf(M, at) \union {a}
        /\ m[a].units = at[a].units
        /\ \A x \in InUseOf(M, at) : m[x] = at[x]
    BY <1>2, <2>1, RemoveKeeps
  <2>3. Base!remove_chunk_from_list(h, p, a) = HeapOf(first, end, m)
    BY <1>2, <2>1, BaseRemove
  <2>4. t = [heap |-> HeapOf(first, end, m), chunk |-> a]
    BY <1>1, <1>6, <2>3 DEF TakenFor
  <2>5. t.heap = HeapOf(first, end, m) /\ t.chunk = a
    BY <2>4
  <2>6. t.heap.head = first /\ t.heap.end = end /\ t.heap.at = m
    BY <2>5, HeapFields
  <2>7. Kept(t.heap)
    BY <2>2, <2>5, <2>6 DEF Kept
  <2>8. Given(at, m, a, n)
    BY <2>2, <1>2, <1>3, <1>4 DEF Given
  <2> QED
    BY <2>5, <2>6, <2>7, <2>8, <1>1
<1> QED
  BY <1>5, <1>6

(* Chunk a, in use before, is put on the list behind p, or in front.       *)
PutBehind(h, p, a) ==
  IF p = Null THEN Base!insert_chunk(h, a)
  ELSE Base!insert_chunk_after(h, p, a)
PutAt(h, p, a) == IF p = Null THEN a ELSE Base!Joined(h, p, a)

(* What becomes of the heap then: chunk j, a or p, has the memory of a.    *)
PutOn(h, p, a) ==
  LET t == PutBehind(h, p, a)
      j == PutAt(h, p, a)
  IN  /\ Kept(t)
      /\ InUseOf(MaxBaseHeap, t.at) = InUseOf(MaxBaseHeap, h.at) \ {a}
      /\ \A x \in InUseOf(MaxBaseHeap, t.at) : t.at[x] = h.at[x]
      /\ j \in FreeOf(MaxBaseHeap, t.at) /\ t.at[j].units >= h.at[a].units
      /\ \A pp : (p /= Null => Before(MaxBaseHeap, h.at, h.head, pp, p))
                   => Before(MaxBaseHeap, t.at, t.head,
                             IF j = p THEN pp ELSE p, j)

LEMMA PutKeeps ==
  ASSUME NEW h, NEW p, NEW a, Kept(h), a \in InUseOf(MaxBaseHeap, h.at),
         GoesAfter(MaxBaseHeap, h.at, p, a)
  PROVE  PutOn(h, p, a)
<1> DEFINE M == MaxBaseHeap
<1>0. PICK t, j : t = PutBehind(h, p, a) /\ j = PutAt(h, p, a)
  OBVIOUS
<1>1. PICK head, end, at : head = h.head /\ end = h.end /\ at = h.at
  OBVIOUS
<1>2. /\ h = HeapOf(head, end, at) /\ Tiles(1, M, at, end)
      /\ Listed(M, at, head) /\ Apart(1, M, at, {}) /\ a \in InUseOf(M, at)
      /\ GoesAfter(M, at, p, a) /\ M \in Nat
  BY <1>1, ManagerBase DEF Kept
<1>3. a /= Null
  BY NullAssumption DEF InUseOf, Mem
<1>4. CASE p = Null
  <2>1. PICK m : m = AtFront(1, at, head, a, end)
    OBVIOUS
  <2>2. /\ Tiles(1, M, m, end) /\ Listed(M, m, a) /\ Apart(1, M, m, {})
        /\ InUseOf(M, m) = InUseOf(M, at) \ {a}
        /\ \A x \in InUseOf(M, m) : m[x] = at[x]
        /\ a \in FreeOf(M, m) /\ m[a].units >= at[a].units
    BY <1>2, <1>4, <2>1, InsertFirst
  <2>3. t = HeapOf(a, end, m) /\ j = a
    BY <1>0, <1>2, <1>4, <2>1, BaseInsert DEF PutBehind, PutAt
  <2>4. t.head = a /\ t.end = end /\ t.at = m
    BY <2>3, HeapFields
  <2>5. Kept(t)
    BY <2>2, <2>3, <2>4 DEF Kept
  <2>6. Before(M, m, a, Null, a)
    BY DEF Before
  <2>7. j /= p
    BY <2>3, <1>3, <1>4
  <2> QED
    BY <2>2, <2>3, <2>4, <2>5, <2>6, <2>7, <1>0, <1>1, <1>4 DEF PutOn
<1>5. CASE p /= Null
  <2>1. PICK m : m = Behind(1, at, p, a, end)
    OBVIOUS
  <2>2. p \in FreeOf(M, at)
    BY <1>2, <1>5 DEF GoesAfter
  <2>3. t = HeapOf(head, end, m) /\ j = JoinedAt(1, at, p, a, end)
    <3>1. t = HeapOf(head, end, m)
      BY <1>0, <1>2, <1>5, <2>1, BaseInsertAfter DEF PutBehind
    <3>2. j = JoinedAt(1, h.at, p, a, h.end)
      BY <1>0, <1>5, ManagerBase DEF PutAt
    <3> QED
      BY <3>1, <3>2, <1>1
  <2>4. /\ Tiles(1, M, m, end) /\ Listed(M, m, head) /\ Apart(1, M, m, {})
        /\ InUseOf(M, m) = InUseOf(M, at) \ {a}
        /\ \A x \in InUseOf(M, m) : m[x] = at[x]
        /\ j \in FreeOf(M, m) /\ m[j].units >= at[a].units
        /\ j = a => Before(M, m, head, p, a)
        /\ j /= a => /\ j = p
                     /\ \A q : Before(M, at, head, q, p)
                                 => Before(M, m, head, q, p)
        /\ a /= p
    BY <1>2, <2>1, <2>2, <2>3, InsertAfter
  <2>5. t.head = head /\ t.end = end /\ t.at = m
    BY <2>3, HeapFields
  <2>6. Kept(t)
    BY <2>3, <2>4, <2>5 DEF Kept
  <2>7. ASSUME NEW pp, Before(M, at, head, pp, p)
        PROVE  Before(M, m, head, IF j = p THEN pp ELSE p, j)
    BY <2>4, <2>7
  <2> QED
    BY <2>4, <2>5, <2>6, <2>7, <1>0, <1>1, <1>5 DEF PutOn
<1> QED
  BY <1>4, <1>5

LEMMA BaseGrown ==
  ASSUME NEW h, NEW n, h = HeapOf(h.head, h.end, h.at)
  PROVE  [h EXCEPT !.end = @ + n + 1,
                   !.at[h.end] = [status |-> "in_use", units |-> n,
                                  next |-> Null]]
           = HeapOf(h.head, h.end + n + 1, Extended(h.at, h.end, n))
<1>1. PICK head, end, at, new :
        /\ head = h.head /\ end = h.end /\ at = h.at
        /\ new = [status |-> "in_use", units |-> n, next |-> Null]
  OBVIOUS
<1>2. [h EXCEPT !.end = @ + n + 1, !.at[h.end] = new]
        = [[h EXCEPT !.end = @ + n + 1] EXCEPT !.at[h.end] = new]
  OBVIOUS
<1>3. [h EXCEPT !.end = @ + n + 1] = HeapOf(head, end + n + 1, at)
  BY <1>1 DEF HeapOf
<1>4. [HeapOf(head, end + n + 1, at) EXCEPT !.at[end] = new]
        = HeapOf(head, end + n + 1, [at EXCEPT ![end] = new])
  BY DEF HeapOf
<1> QED
  BY <1>1, <1>2, <1>3, <1>4 DEF Extended

(* The heap grows by a chunk of n units, which is put behind p.            *)
GrewBy(h, p, pp, n) ==
  LET grown == HeapOf(h.head, h.end + n + 1, Extended(h.at, h.end, n))
      t == PutBehind(grown, p, h.end)
      j == PutAt(grown, p, h.end)
  IN  /\ Kept(t)
      /\ InUseOf(MaxBaseHeap, t.at) = InUseOf(MaxBaseHeap, h.at)
      /\ \A x \in InUseOf(MaxBaseHeap, h.at) : t.at[x] = h.at[x]
      /\ j \in FreeOf(MaxBaseHeap, t.at) /\ t.at[j].units >= n
      /\ Before(MaxBaseHeap, t.at, t.head, IF j = p THEN pp ELSE p, j)

LEMMA GrowKeeps ==
  ASSUME NEW h, NEW p, NEW pp, NEW n \in Nat \ {0},
         Kept(h), h.end + n + 1 <= MaxBaseHeap,
         Before(MaxBaseHeap, h.at, h.head, p, Null),
         p /= Null => Before(MaxBaseHeap, h.at, h.head, pp, p)
  PROVE  GrewBy(h, p, pp, n)
<1> DEFINE M == MaxBaseHeap
<1>0. PICK grown, t, j :
        /\ grown = HeapOf(h.head, h.end + n + 1, Extended(h.at, h.end, n))
        /\ t = PutBehind(grown, p, h.end) /\ j = PutAt(grown, p, h.end)
  OBVIOUS
<1>1. PICK head, end, at, m, top :
        /\ head = h.head /\ end = h.end /\ at = h.at
        /\ m = Extended(at, end, n) /\ top = end + n + 1
  OBVIOUS
<1>2. /\ Tiles(1, M, at, end) /\ Listed(M, at, head) /\ Apart(1, M, at, {})
      /\ Before(M, at, head, p, Null) /\ M \in Nat /\ end + n + 1 <= M
      /\ p /= Null => Before(M, at, head, pp, p)
      /\ grown = HeapOf(head, top, m)
  BY <1>0, <1>1, ManagerBase DEF Kept
<1>3. /\ Tiles(1, M, m, top) /\ Listed(M, m, head) /\ Apart(1, M, m, {})
      /\ FreeOf(M, m) = FreeOf(M, at)
      /\ InUseOf(M, m) = InUseOf(M, at) \union {end}
      /\ end \in Mem(M) /\ end \notin ChunksOf(M, at)
      /\ m[end].units = n
      /\ \A x \in Mem(M) \ {end} : m[x] = at[x]
      /\ \A f \in FreeOf(M, at) : f < end
  <2>1. /\ Tiles(1, M, m, end + n + 1) /\ Listed(M, m, head)
        /\ Apart(1, M, m, {})
        /\ FreeOf(M, m) = FreeOf(M, at)
        /\ InUseOf(M, m) = InUseOf(M, at) \union {end}
        /\ end \in Mem(M) /\ end \notin ChunksOf(M, at)
        /\ m[end].units = n
        /\ \A x \in Mem(M) \ {end} : m[x] = at[x]
        /\ \A f \in FreeOf(M, at) : f < end
    <3>1. GrownBy(1, M, at, end, head, n)
      BY <1>2, NewChunk
    <3> QED
      BY <3>1, <1>1 DEF GrownBy
  <2> QED
    BY <2>1, <1>1
<1>4. /\ end \in InUseOf(M, m) /\ end \in Nat
      /\ end \notin InUseOf(M, at) /\ end \notin FreeOf(M, at)
      /\ \A x \in InUseOf(M, at) \union FreeOf(M, at) : m[x] = at[x]
  BY <1>3 DEF Mem, InUseOf, FreeOf, ChunksOf
<1>5. ASSUME NEW q, NEW a, Before(M, at, head, q, a)
      PROVE  Before(M, m, head, q, a)
  BY <1>3, <1>4, <1>5 DEF Before
<1>6. GoesAfter(M, m, p, end)
  <2>1. p /= Null => p < end
    BY <1>2, <1>3 DEF Before
  <2>2. Before(M, m, head, p, Null)
    BY <1>2, <1>5
  <2> QED
    BY <2>1, <2>2, <1>2, <1>3, <1>4, PlaceFound
<1>7. grown.head = head /\ grown.end = top /\ grown.at = m
  BY <1>2, HeapFields
<1>8. Kept(grown)
  BY <1>2, <1>3, <1>7 DEF Kept
<1>9. /\ Kept(t)
      /\ InUseOf(M, t.at) = InUseOf(M, m) \ {end}
      /\ \A x \in InUseOf(M, t.at) : t.at[x] = m[x]
      /\ j \in FreeOf(M, t.at) /\ t.at[j].units >= m[end].units
      /\ \A q : (p /= Null => Before(M, m, head, q, p))
                  => Before(M, t.at, t.head, IF j = p THEN q ELSE p, j)
  <2>1. /\ end \in InUseOf(M, grown.at) /\ GoesAfter(M, grown.at, p, end)
        /\ t = PutBehind(grown, p, end) /\ j = PutAt(grown, p, end)
    BY <1>0, <1>1, <1>4, <1>6, <1>7
  <2>2. PutOn(grown, p, end)
    BY <2>1, <1>8, PutKeeps
  <2> QED
    BY <2>1, <2>2, <1>7 DEF PutOn
<1>10. p /= Null => Before(M, m, head, pp, p)
  BY <1>2, <1>5
<1>11. Before(M, t.at, t.head, IF j = p THEN pp ELSE p, j)
  BY <1>9, <1>10
<1>12. InUseOf(M, t.at) = InUseOf(M, at)
  BY <1>3, <1>4, <1>9
<1>13. \A x \in InUseOf(M, at) : t.at[x] = at[x]
  BY <1>4, <1>9, <1>12
<1> QED
  BY <1>0, <1>1, <1>3, <1>9, <1>11, <1>12, <1>13 DEF GrewBy

-----------------------------------------------------------------------------
(* The inductive invariant.                                                *)

BaseInv ==
  /\ Kept(heap)
  /\ asked \in 0 .. MaxRequest
  /\ BlocksIn(MaxBaseHeap, blocks, heap.at, {})

LEMMA BaseInitInv == Base!Init => BaseInv
<1> SUFFICES ASSUME Base!Init PROVE BaseInv
  OBVIOUS
<1> DEFINE M == MaxBaseHeap
<1>1. M \in Nat /\ MaxRequest \in Nat
  BY ManagerBase, SizesAssumption
<1>2. heap = HeapOf(Null, 0, [a \in Mem(M) |-> NoHeader])
  BY ManagerBase DEF Base!Init, HeapOf
<1>3. PICK at : at = [a \in Mem(M) |-> NoHeader]
  OBVIOUS
<1>4. heap.head = Null /\ heap.end = 0 /\ heap.at = at
  BY <1>2, <1>3, HeapFields
<1>5. ChunksOf(M, at) = {} /\ FreeOf(M, at) = {} /\ InUseOf(M, at) = {}
  BY <1>3 DEF ChunksOf, FreeOf, InUseOf, NoHeader
<1>6. NoHeader \in Heads(M)
  BY <1>1 DEF NoHeader, Heads, Ptrs
<1>7. at \in [Mem(M) -> Heads(M)]
  BY <1>3, <1>6
<1>8. Tiles(1, M, at, 0)
  BY <1>1, <1>5, <1>7 DEF Tiles
<1>9. Listed(M, at, Null) /\ Apart(1, M, at, {})
  BY <1>5 DEF Listed, FirstAbove, Apart
<1>10. Kept(heap)
  BY <1>2, <1>3, <1>4, <1>8, <1>9 DEF Kept
<1>11. blocks = {} /\ asked = 0
  BY DEF Base!Init
<1>12. BlocksIn(M, blocks, heap.at, {})
  BY <1>4, <1>5, <1>11 DEF BlocksIn
<1> QED
  BY <1>1, <1>10, <1>11, <1>12 DEF BaseInv

(* The client gets a chunk that has come in use.                           *)
LEMMA BaseGiveInv ==
  ASSUME BaseInv, asked \in 1 .. MaxRequest, NEW t, Base!Give(t),
         Kept(t.heap), Given(heap.at, t.heap.at, t.chunk, asked)
  PROVE  BaseInv'
<1> DEFINE M == MaxBaseHeap
<1>1. PICK s, new : s = t.chunk /\ new = [at |-> s + 1, units |-> asked]
  OBVIOUS
<1>2. heap' = t.heap /\ blocks' = blocks \union {new} /\ asked' = 0
  BY <1>1 DEF Base!Give
<1>3. BlocksIn(M, blocks, heap.at, {}) /\ M \in Nat /\ MaxRequest \in Nat
  BY ManagerBase, SizesAssumption DEF BaseInv
<1>4. PICK m : m = t.heap.at
  OBVIOUS
<1>5. /\ s \in Mem(M) /\ s + 1 \in Mem(M) /\ s \notin InUseOf(M, heap.at)
      /\ asked <= m[s].units
      /\ InUseOf(M, m) = InUseOf(M, heap.at) \union {s}
      /\ \A x \in InUseOf(M, heap.at) : m[x] = heap.at[x]
  BY <1>1, <1>4 DEF Given
<1>6. BlocksIn(M, blocks \union {new}, m, {})
  BY <1>1, <1>3, <1>5, BlockGiven
<1> QED
  BY <1>2, <1>3, <1>4, <1>6 DEF BaseInv

LEMMA BaseStops ==
  ASSUME Kept(heap), NEW wanted
  PROVE  Stops(MaxBaseHeap, heap.at, heap.head, Base!FreeList(heap), wanted,
               Base!FirstPlace(heap, wanted))
<1>1. PICK head, end, at : head = heap.head /\ end = heap.end /\ at = heap.at
  OBVIOUS
<1>2. heap = HeapOf(head, end, at) /\ Listed(MaxBaseHeap, at, head)
  BY <1>1 DEF Kept
<1>3. Stops(MaxBaseHeap, at, head, Base!FreeList(HeapOf(head, end, at)),
            wanted, Base!FirstPlace(HeapOf(head, end, at), wanted))
  BY <1>2, FirstPlaceStops
<1> QED
  BY <1>1, <1>2, <1>3

(* Both steps that end malloc give the client a chunk that was not in use. *)
LEMMA TakeFreeGives ==
  ASSUME BaseInv, Base!TakeFree
  PROVE  \E t : /\ Base!Give(t) /\ Kept(t.heap) /\ asked \in 1 .. MaxRequest
                /\ Given(heap.at, t.heap.at, t.chunk, asked)
<1>1. PICK L, wanted, n :
        /\ L = Base!FreeList(heap)
        /\ wanted = {a \in Base!Memory : Base!Fits(a)}
        /\ n = Base!Place
  OBVIOUS
<1>2. Stops(MaxBaseHeap, heap.at, heap.head, L, wanted, n) /\ Kept(heap)
  BY <1>1, BaseStops DEF BaseInv, Base!Place
<1>3. asked \in 1 .. MaxRequest /\ L[n] /= Null
  BY <1>1, SizesAssumption DEF Base!TakeFree, BaseInv
<1>4. PICK p, a : p = L[n - 1] /\ a = L[n]
  OBVIOUS
<1>5. /\ a \in FreeOf(MaxBaseHeap, heap.at) /\ a \in wanted
      /\ Before(MaxBaseHeap, heap.at, heap.head, p, a)
  BY <1>2, <1>3, <1>4 DEF Stops
<1>6. asked <= heap.at[a].units
  <2>1. heap.at[a].units >= asked
    BY <1>1, <1>5 DEF Base!Fits
  <2> QED
    BY <2>1
<1>7. PICK t : t = TakenFor(heap, p, a, asked)
  OBVIOUS
<1>8. Base!Give(t)
  <2>1. Base!Give(Base!Take(heap, p, a))
    BY <1>1, <1>4 DEF Base!TakeFree
  <2>2. Base!Take(heap, p, a) = t
    BY <1>7 DEF Base!Take, TakenFor
  <2> QED
    BY <2>1, <2>2
<1>9. Kept(t.heap) /\ Given(heap.at, t.heap.at, t.chunk, asked)
  BY <1>2, <1>3, <1>5, <1>6, <1>7, TakeKeeps
<1> QED
  BY <1>3, <1>8, <1>9

LEMMA TakeNewGives ==
  ASSUME BaseInv, Base!TakeNew
  PROVE  \E t : /\ Base!Give(t) /\ Kept(t.heap) /\ asked \in 1 .. MaxRequest
                /\ Given(heap.at, t.heap.at, t.chunk, asked)
<1> DEFINE M == MaxBaseHeap
<1>1. PICK L, wanted, n :
        /\ L = Base!FreeList(heap)
        /\ wanted = {a \in Base!Memory : Base!Fits(a)}
        /\ n = Base!Place
  OBVIOUS
<1>2. Stops(M, heap.at, heap.head, L, wanted, n) /\ Kept(heap)
  BY <1>1, BaseStops DEF BaseInv, Base!Place
<1>3. asked \in 1 .. MaxRequest /\ L[n] = Null
      /\ heap.end + Base!Growth + 1 <= M
  BY <1>1, SizesAssumption DEF Base!TakeNew, BaseInv
<1>4. PICK p, pp, g, grown, h, j :
        /\ p = L[n - 1] /\ pp = L[n - 2] /\ g = Base!Growth
        /\ grown = Base!Grown /\ h = PutBehind(grown, p, heap.end)
        /\ j = PutAt(grown, p, heap.end)
  OBVIOUS
<1>5. /\ Before(M, heap.at, heap.head, p, Null)
      /\ p /= Null => Before(M, heap.at, heap.head, pp, p)
  BY <1>2, <1>3, <1>4 DEF Stops
<1>6. g \in Nat \ {0} /\ g >= asked /\ asked \in Nat
  BY <1>3, <1>4, SizesAssumption DEF Base!Growth
<1>7. grown
        = HeapOf(heap.head, heap.end + g + 1, Extended(heap.at, heap.end, g))
  <2>1. grown = [heap EXCEPT !.end = @ + g + 1,
                   !.at[heap.end] = [status |-> "in_use", units |-> g,
                                     next |-> Null]]
    BY <1>4 DEF Base!Grown
  <2> QED
    BY <2>1, <1>2, BaseGrown DEF Kept
<1>8. /\ Kept(h)
      /\ InUseOf(M, h.at) = InUseOf(M, heap.at)
      /\ \A x \in InUseOf(M, heap.at) : h.at[x] = heap.at[x]
      /\ j \in FreeOf(M, h.at) /\ h.at[j].units >= g
      /\ Before(M, h.at, h.head, IF j = p THEN pp ELSE p, j)
  <2>1. GrewBy(heap, p, pp, g)
    BY <1>2, <1>3, <1>4, <1>5, <1>6, GrowKeeps
  <2> QED
    BY <2>1, <1>4, <1>7 DEF GrewBy
<1>9. asked <= h.at[j].units
  <2>1. M \in Nat /\ Tiles(1, M, h.at, h.end) /\ j \in ChunksOf(M, h.at)
    BY <1>8, ManagerBase DEF Kept, FreeOf, ChunksOf
  <2>2. h.at[j].units \in Nat
    BY <2>1, ChunkBounds
  <2> QED
    BY <2>2, <1>6, <1>8
<1>10. PICK q, t : /\ q = IF j = p THEN pp ELSE p
                   /\ t = TakenFor(h, q, j, asked)
  OBVIOUS
<1>11. Kept(t.heap) /\ Given(h.at, t.heap.at, t.chunk, asked)
  BY <1>3, <1>8, <1>9, <1>10, TakeKeeps
<1>12. Given(heap.at, t.heap.at, t.chunk, asked)
  BY <1>8, <1>11 DEF Given
<1>13. Base!Give(t)
  <2>1. Base!Give(Base!Take(h, q, j))
    <3>1. Base!allocate_more_memory(p) = h
      BY <1>4 DEF Base!allocate_more_memory, PutBehind
    <3>2. (IF p = Null THEN heap.end
           ELSE Base!Joined(Base!Grown, p, heap.end)) = j
      BY <1>4 DEF PutAt
    <3>3. LET a == IF p = Null THEN heap.end
                   ELSE Base!Joined(Base!Grown, p, heap.end)
          IN  Base!Give(Base!Take(Base!allocate_more_memory(p),
                                  IF a = p THEN pp ELSE p, a))
      BY <1>1, <1>4 DEF Base!TakeNew
    <3> QED
      BY <3>1, <3>2, <3>3, <1>10
  <2>2. Base!Take(h, q, j) = t
    BY <1>10 DEF Base!Take, TakenFor
  <2> QED
    BY <2>1, <2>2
<1> QED
  BY <1>3, <1>11, <1>12, <1>13

LEMMA BaseFreeInv ==
  ASSUME BaseInv, Base!Free
  PROVE  BaseInv'
<1> DEFINE M == MaxBaseHeap
<1>1. PICK b \in blocks :
        LET a == b.at - 1
            beyond == {x \in Base!Memory : a < x}
            p == Base!FreeList(heap)[Base!FirstPlace(heap, beyond) - 1]
        IN  /\ heap' = IF p = Null THEN Base!insert_chunk(heap, a)
                       ELSE Base!insert_chunk_after(heap, p, a)
            /\ blocks' = blocks \ {b}
  BY DEF Base!Free
<1>2. Kept(heap) /\ BlocksIn(M, blocks, heap.at, {}) /\ M \in Nat
      /\ asked' = asked /\ asked \in 0 .. MaxRequest
  BY ManagerBase DEF BaseInv, Base!Free
<1>3. PICK a, beyond, L, n :
        /\ a = b.at - 1 /\ beyond = {x \in Base!Memory : a < x}
        /\ L = Base!FreeList(heap) /\ n = Base!FirstPlace(heap, beyond)
  OBVIOUS
<1>4. PICK p, h : p = L[n - 1] /\ h = PutBehind(heap, p, a)
  OBVIOUS
<1>5. heap' = h /\ blocks' = blocks \ {b}
  BY <1>1, <1>3, <1>4 DEF PutBehind
<1>6. a \in InUseOf(M, heap.at) /\ BlocksIn(M, blocks \ {b}, heap.at, {a})
  BY <1>2, <1>3, BlockReturned
<1>7. a \in Nat /\ a \in Mem(M)
  BY <1>6 DEF InUseOf, Mem
<1>8. GoesAfter(M, heap.at, p, a)
  <2>1. Stops(M, heap.at, heap.head, L, beyond, n)
    BY <1>2, <1>3, BaseStops
  <2>2. /\ L[n] \in FreeOf(M, heap.at) \union {Null}
        /\ Before(M, heap.at, heap.head, p, L[n])
        /\ L[n] /= Null => L[n] \in beyond
        /\ p /= Null => p \notin beyond /\ p \in FreeOf(M, heap.at)
    BY <2>1, <1>4 DEF Stops
  <2>3. L[n] /= Null => a < L[n]
    BY <2>2, <1>3
  <2>4. p /= Null => p < a
    <3> SUFFICES ASSUME p /= Null PROVE p < a
      OBVIOUS
    <3>1. p \in FreeOf(M, heap.at) /\ p \notin beyond
      BY <2>2
    <3>2. p \in Mem(M) /\ p \in Nat /\ p /= a
      BY <3>1, <1>6 DEF FreeOf, InUseOf, Mem
    <3>3. ~(a < p)
      BY <3>1, <3>2, <1>3, ManagerBase
    <3> QED
      BY <3>2, <3>3, <1>7
  <2>5. Tiles(1, M, heap.at, heap.end) /\ Listed(M, heap.at, heap.head)
    BY <1>2 DEF Kept
  <2> QED
    BY <2>2, <2>3, <2>4, <2>5, <1>2, <1>7, PlaceFound
<1>9. PutOn(heap, p, a)
  BY <1>2, <1>6, <1>8, PutKeeps
<1>10. /\ Kept(h) /\ InUseOf(M, h.at) = InUseOf(M, heap.at) \ {a}
       /\ \A x \in InUseOf(M, h.at) : h.at[x] = heap.at[x]
  BY <1>4, <1>9 DEF PutOn
<1>11. BlocksIn(M, blocks \ {b}, h.at, {})
  BY <1>2, <1>6, <1>10, BlocksStay
<1> QED
  BY <1>2, <1>5, <1>10, <1>11 DEF BaseInv

LEMMA BaseNextInv ==
  ASSUME BaseInv, [Base!Next]_(Base!vars)
  PROVE  BaseInv'
<1>1. CASE Base!Malloc
  BY <1>1, SizesAssumption DEF BaseInv, Base!Malloc
<1>2. CASE Base!TakeFree
  BY <1>2, TakeFreeGives, BaseGiveInv
<1>3. CASE Base!TakeNew
  BY <1>3, TakeNewGives, BaseGiveInv
<1>4. CASE Base!NoMemory
  BY <1>4, SizesAssumption DEF BaseInv, Base!NoMemory
<1>5. CASE Base!Free
  BY <1>5, BaseFreeInv
<1>6. CASE UNCHANGED Base!vars
  BY <1>6 DEF BaseInv, Base!vars
<1> QED
  BY <1>1, <1>2, <1>3, <1>4, <1>5, <1>6 DEF Base!Next

LEMMA BaseInvariance == Base!Spec => []BaseInv
<1>1. Base!Init => BaseInv
  BY BaseInitInv
<1>2. BaseInv /\ [Base!Next]_(Base!vars) => BaseInv'
  BY BaseNextInv
<1> QED
  BY <1>1, <1>2, PTL DEF Base!Spec

-----------------------------------------------------------------------------
(* HeapBase implements Allocator, too.                                     *)

LEMMA BaseGives ==
  ASSUME BaseInv, BaseInv', asked \in 1 .. MaxRequest, NEW t, Base!Give(t),
         Given(heap.at, t.heap.at, t.chunk, asked)
  PROVE  Base!Abstract!Give
<1> DEFINE M == MaxBaseHeap
<1>1. PICK s, new, m, end, n :
        /\ s = t.chunk /\ new = [at |-> s + 1, units |-> n]
        /\ m = heap'.at /\ end = heap'.end /\ n = asked
  OBVIOUS
<1>2. heap' = t.heap /\ blocks' = blocks \union {new} /\ asked' = 0
  BY <1>1 DEF Base!Give
<1>3. /\ Tiles(1, M, m, end) /\ BlocksIn(M, blocks, heap.at, {})
      /\ M \in Nat /\ n \in 1 .. MaxRequest /\ n /= 0
  BY <1>1, ManagerBase, SizesAssumption DEF BaseInv, Kept
<1>4. /\ s \in Mem(M) /\ s + 1 \in Mem(M) /\ s \notin InUseOf(M, heap.at)
      /\ n <= m[s].units
      /\ InUseOf(M, m) = InUseOf(M, heap.at) \union {s}
      /\ \A x \in InUseOf(M, heap.at) : m[x] = heap.at[x]
  BY <1>1, <1>2 DEF Given
<1>5. InUseOf(M, m) \subseteq ChunksOf(M, m)
  BY DEF InUseOf, ChunksOf
<1>6. /\ blocks \subseteq [at : Mem(M), units : 1 .. MaxRequest]
      /\ \A b \in blocks : /\ b.at - 1 \in ChunksOf(M, m) \ {s}
                           /\ b.units <= m[b.at - 1].units
  BY <1>3, <1>4, <1>5 DEF BlocksIn
<1>7. /\ UnitsOf(new) \subseteq Mem(M)
      /\ \A b \in blocks : UnitsOf(b) \cap UnitsOf(new) = {}
  <2>1. s \in ChunksOf(M, m)
    BY <1>4, <1>5
  <2> QED
    <3>1. new = [at |-> s + 1, units |-> n]
      BY <1>1
    <3>2. Fresh(M, new, blocks)
      <4>1. InOthers(M, blocks, m, s)
        BY <1>6 DEF InOthers
      <4> QED
        BY <2>1, <3>1, <4>1, <1>3, <1>4, FreshBlock
    <3> QED
      BY <3>2 DEF Fresh
<1>8. \A b : Base!Abstract!Units(b) = UnitsOf(b)
  BY DEF Base!Abstract!Units, UnitsOf
<1>9. new = [at |-> s + 1, units |-> asked] /\ asked /= 0
  BY <1>1, <1>3
<1>10. s + 1 \in Base!Memory /\ Base!Abstract!Units(new) \subseteq Base!Memory
       /\ \A b \in blocks :
            Base!Abstract!Units(b) \cap Base!Abstract!Units(new) = {}
  BY <1>4, <1>7, <1>8, ManagerBase
<1> QED
  BY <1>2, <1>9, <1>10 DEF Base!Abstract!Give

LEMMA BaseStepImplements ==
  ASSUME BaseInv, BaseInv', [Base!Next]_(Base!vars)
  PROVE  [Base!Abstract!Next]_(Base!Abstract!vars)
<1>1. CASE Base!Malloc
  BY <1>1 DEF Base!Malloc, Base!Abstract!Malloc, Base!Abstract!Next
<1>2. CASE Base!TakeFree
  BY <1>2, TakeFreeGives, BaseGives DEF Base!Abstract!Next
<1>3. CASE Base!TakeNew
  BY <1>3, TakeNewGives, BaseGives DEF Base!Abstract!Next
<1>4. CASE Base!NoMemory
  <2>1. asked > 0 /\ asked' = 0 /\ blocks' = blocks /\ asked \in Nat
    BY <1>4, SizesAssumption DEF Base!NoMemory, BaseInv
  <2>2. asked /= 0
    BY <2>1
  <2> QED
    BY <2>1, <2>2 DEF Base!Abstract!Refuse, Base!Abstract!Next
<1>5. CASE Base!Free
  <2>1. /\ asked = 0 /\ asked' = asked
        /\ \E b \in blocks : blocks' = blocks \ {b}
    BY <1>5 DEF Base!Free
  <2> QED
    BY <2>1 DEF Base!Abstract!Free, Base!Abstract!Next
<1>6. CASE UNCHANGED Base!vars
  BY <1>6 DEF Base!vars, Base!Abstract!vars
<1> QED
  BY <1>1, <1>2, <1>3, <1>4, <1>5, <1>6 DEF Base!Next

(* heapmgrbase.c is an allocator: whatever sequence of calls a client      *)
(* makes, a block it is given has the size it asked for and shares no unit *)
(* with a block it has.                                                    *)
THEOREM BaseHeapIsAllocator == Base!Spec => BaseIsAllocator
<1>1. Base!Init => Base!Abstract!Init
  BY DEF Base!Init, Base!Abstract!Init
<1>2. BaseInv /\ BaseInv' /\ [Base!Next]_(Base!vars)
        => [Base!Abstract!Next]_(Base!Abstract!vars)
  BY BaseStepImplements
<1> QED
  BY <1>1, <1>2, BaseInvariance, PTL
     DEF Base!Spec, BaseIsAllocator, Base!IsAllocator, Base!Abstract!Spec

-----------------------------------------------------------------------------
(* The two walks of check_heap_validity meet all that there is to meet.    *)

(* A chunk takes two units at least, and chunk A[n] is the n-th after the  *)
(* one at 0.                                                               *)
LEMMA AdjacentWalk ==
  ASSUME NEW head, NEW end, NEW at, Tiles(1, MaxBaseHeap, at, end), end > 0
  PROVE  Base!Adjacents(HeapOf(head, end, at)) = ChunksOf(MaxBaseHeap, at)
<1> DEFINE M == MaxBaseHeap
           K == M \div 2
           h == HeapOf(head, end, at)
           S == ChunksOf(M, at)
           After(a) == Base!next_adjacent(h, a)
           IsAdjacents(A) == A = [n \in 0 .. K |->
                                    IF n = 0 THEN 0
                                    ELSE IF A[n - 1] = Null THEN Null
                                    ELSE After(A[n - 1])]
           following == [a \in Mem(M) |-> After(a)]
<1>0. \A n \in Nat : n /= Null
  BY NullAssumption
<1>1. M \in Nat /\ K \in Nat /\ M <= 2 * K + 1
  BY ManagerBase
<1>2. 0 \in S /\ S \subseteq Mem(M) /\ S \subseteq Nat
  BY DEF Tiles, ChunksOf, Mem
<1>3. \A a \in S : /\ EndAt(1, at, a) \in Nat /\ a + 2 <= EndAt(1, at, a)
                   /\ EndAt(1, at, a) <= end /\ end <= M /\ end \in Nat
  BY <1>1, ChunkBounds
<1>4. \A a \in S :
        /\ After(a) = Null \/ (After(a) \in S /\ After(a) = EndAt(1, at, a))
        /\ EndAt(1, at, a) \in S => After(a) = EndAt(1, at, a)
  <2>1. \A a : After(a) = Touching(1, at, a, end)
    BY ManagerBase, HeapFields
  <2> HIDE DEF After
  <2> QED
    BY <2>1, <1>1, Adjacent
<1>5. \A a \in S : following[a] = After(a)
  BY <1>2
<1> HIDE DEF S, K, After, following, h
<1>6. \A a \in S : following[a] \in S \union {Null}
  BY <1>4, <1>5
<1>7. PICK A : IsWalk(A, 0, following, K)
  BY <1>1, WalkExists
<1>8. \A n \in 0 .. K : A[n] \in S \union {Null}
  BY <1>1, <1>2, <1>6, <1>7, WalkWithin
<1>9. \A n \in 0 .. K : A[n] = IF n = 0 THEN 0
                               ELSE IF A[n - 1] = Null THEN Null
                               ELSE After(A[n - 1])
  <2> SUFFICES ASSUME NEW n \in 0 .. K
               PROVE  A[n] = IF n = 0 THEN 0
                             ELSE IF A[n - 1] = Null THEN Null
                             ELSE After(A[n - 1])
    OBVIOUS
  <2>1. A[n] = IF n = 0 THEN 0
               ELSE IF A[n - 1] = Null THEN Null
               ELSE following[A[n - 1]]
    BY <1>7 DEF IsWalk
  <2>2. n /= 0 => n - 1 \in 0 .. K
    BY <1>1
  <2>3. n /= 0 /\ A[n - 1] /= Null => following[A[n - 1]] = After(A[n - 1])
    BY <2>2, <1>5, <1>8
  <2> QED
    BY <2>1, <2>3
<1>10. A = [n \in 0 .. K |-> A[n]]
  BY <1>7 DEF IsWalk
<1>11. IsAdjacents(A)
  BY <1>9, <1>10
<1>12. PICK B : B = CHOOSE f : IsAdjacents(f)
  OBVIOUS
<1>13. IsAdjacents(B)
  BY <1>11, <1>12
<1>14. Base!Adjacents(h) = {B[n] : n \in DOMAIN B} \ {Null}
  BY <1>12 DEF Base!Adjacents, K, After
<1>15. /\ DOMAIN B = 0 .. K
       /\ \A n \in 0 .. K : B[n] = IF n = 0 THEN 0
                                   ELSE IF B[n - 1] = Null THEN Null
                                   ELSE After(B[n - 1])
  BY <1>13
<1>16. ASSUME NEW n \in 0 .. K
       PROVE  B[n] \in S \union {Null} /\ (B[n] /= Null => 2 * n <= B[n])
  <2> DEFINE T == {i \in 0 .. K : ~(B[i] \in S \union {Null}
                                    /\ (B[i] /= Null => 2 * i <= B[i]))}
  <2> SUFFICES ASSUME T /= {} PROVE FALSE
    OBVIOUS
  <2>1. T \subseteq Nat
    BY <1>1
  <2>2. PICK x \in T : \A y \in T : x <= y
    BY <2>1, Least
  <2>3. x \in Nat /\ x \in 0 .. K
    BY <2>1
  <2>4. x /= 0
    BY <2>2, <1>15, <1>2, <2>3
  <2>5. x - 1 \in 0 .. K /\ ~(x <= x - 1)
    BY <2>3, <2>4, <1>1
  <2>6. /\ B[x - 1] \in S \union {Null}
        /\ B[x - 1] /= Null => 2 * (x - 1) <= B[x - 1]
    BY <2>2, <2>5
  <2>7. B[x] = IF B[x - 1] = Null THEN Null ELSE After(B[x - 1])
    BY <2>3, <2>4, <1>15
  <2>8. B[x - 1] /= Null /\ B[x] /= Null
    BY <2>2, <2>7, <2>6, <1>4
  <2>9. B[x - 1] \in S /\ B[x] \in S /\ B[x] = EndAt(1, at, B[x - 1])
    BY <2>6, <2>7, <2>8, <1>4
  <2>10. 2 * x <= B[x]
    <3>1. B[x - 1] \in Nat /\ B[x] \in Nat /\ B[x - 1] + 2 <= B[x]
          /\ 2 * (x - 1) <= B[x - 1]
      BY <2>6, <2>8, <2>9, <1>2, <1>3
    <3> QED
      BY <3>1, <2>3
  <2> QED
    BY <2>2, <2>9, <2>10
<1>17. ASSUME NEW x \in S
       PROVE  \E n \in 0 .. K : B[n] = x
  <2> DEFINE T == {i \in 0 .. K : ~(B[i] /= Null /\ B[i] < x)}
  <2>1. x \in Nat /\ x + 2 <= M
    BY <1>1, <1>2, <1>3
  <2>2. T /= {}
    <3> SUFFICES ASSUME T = {} PROVE FALSE
      OBVIOUS
    <3>1. K \in 0 .. K
      BY <1>1
    <3>2. B[K] /= Null /\ B[K] < x
      BY <3>1
    <3>3. B[K] \in Nat /\ 2 * K <= B[K]
      BY <3>1, <3>2, <1>2, <1>16
    <3> QED
      BY <3>2, <3>3, <2>1, <1>1
  <2>3. T \subseteq Nat
    BY <1>1
  <2>4. PICK n \in T : \A y \in T : n <= y
    BY <2>2, <2>3, Least
  <2>5. n \in Nat /\ n \in 0 .. K
    BY <2>3
  <2>6. CASE n = 0
    <3>1. B[0] = 0 /\ 0 /= Null
      BY <1>15, <2>5, <2>6, NullAssumption
    <3>2. ~(0 < x)
      BY <3>1, <2>4, <2>6
    <3> QED
      BY <3>1, <3>2, <2>1, <2>5, <2>6
  <2>7. CASE n /= 0
    <3>1. n - 1 \in 0 .. K /\ ~(n <= n - 1)
      BY <2>5, <2>7, <1>1
    <3>2. B[n - 1] /= Null /\ B[n - 1] < x /\ B[n - 1] \in S
      BY <3>1, <2>4, <1>16
    <3>3. EndAt(1, at, B[n - 1]) <= x
      BY <3>2, <1>1, Below DEF S
    <3>4. EndAt(1, at, B[n - 1]) \in S
      <4>1. EndAt(1, at, B[n - 1]) \in S \union {end}
        BY <3>2 DEF Tiles, S
      <4>2. EndAt(1, at, B[n - 1]) /= end
        <5>1. EndAt(1, at, x) \in Nat /\ x + 2 <= EndAt(1, at, x)
              /\ EndAt(1, at, x) <= end /\ end \in Nat
          BY <1>3
        <5> QED
          BY <5>1, <3>3, <2>1
      <4> QED
        BY <4>1, <4>2
    <3>5. B[n] = EndAt(1, at, B[n - 1])
      BY <3>2, <3>4, <2>5, <2>7, <1>4, <1>15
    <3>6. B[n] \in Nat /\ B[n] /= Null
      BY <3>4, <3>5, <1>0, <1>2
    <3>7. ~(B[n] < x)
      BY <2>4, <3>6
    <3>8. B[n] = x
      BY <3>3, <3>5, <3>6, <3>7, <2>1
    <3> QED
      BY <3>8, <2>5
  <2> QED
    BY <2>6, <2>7
<1>18. Null \notin S
  BY <1>0, <1>2
<1>19. \A n \in 0 .. K : B[n] /= Null => B[n] \in S
  BY <1>16
<1>20. Base!Adjacents(h) = S
  BY <1>14, <1>15, <1>17, <1>18, <1>19
<1> QED
  BY <1>20 DEF S, h

(* Every free chunk is on the list, and nothing else.                      *)
LEMMA ListMet ==
  ASSUME NEW head, NEW end, NEW at, Tiles(1, MaxBaseHeap, at, end),
         Listed(MaxBaseHeap, at, head)
  PROVE  Base!OnList(HeapOf(head, end, at)) = FreeOf(MaxBaseHeap, at)
<1> DEFINE M == MaxBaseHeap
           h == HeapOf(head, end, at)
           S == FreeOf(M, at)
<1>0. \A n \in Nat : n /= Null
  BY NullAssumption
<1>1. PICK L : L = Base!FreeList(h)
  OBVIOUS
<1>2. M \in Nat /\ S \subseteq Mem(M) /\ S \subseteq Nat
  BY ManagerBase DEF FreeOf, Mem
<1>3. Walked(M, at, head, L)
  BY <1>1, FreeListWalked
<1>4. Base!OnList(h) = {L[n] : n \in 1 .. M} \ {Null}
  BY <1>1 DEF Base!OnList
<1>5. \A n \in 1 .. M : n \in 1 .. M + 1
  BY <1>2
<1>6. \A n \in 1 .. M : L[n] \in S \union {Null}
  BY <1>3, <1>5 DEF Walked
<1>7. \A n \in 1 .. M : L[n] /= Null => L[n] \in Nat /\ n - 1 <= L[n]
  BY <1>2, <1>3, <1>5, WalkAscends
<1> HIDE DEF S, h
<1>8. ASSUME NEW f \in S
      PROVE  \E n \in 1 .. M : L[n] = f
  <2> DEFINE T == {i \in 1 .. M : ~(L[i] /= Null /\ L[i] < f)}
  <2>1. f \in Nat /\ f < M /\ M \in 1 .. M
    BY <1>2 DEF Mem
  <2>2. T /= {}
    <3> SUFFICES ASSUME T = {} PROVE FALSE
      OBVIOUS
    <3>1. L[M] /= Null /\ L[M] < f
      BY <2>1
    <3>2. L[M] \in Nat /\ M - 1 <= L[M]
      BY <3>1, <2>1, <1>7
    <3> QED
      BY <3>1, <3>2, <2>1, <1>2
  <2>3. T \subseteq Nat
    BY <1>2
  <2>4. PICK n \in T : \A y \in T : n <= y
    BY <2>2, <2>3, Least
  <2>5. n \in Nat /\ n \in 1 .. M
    BY <2>3
  <2>6. CASE n = 1
    <3>1. L[n] = head /\ FirstAbove(M, at, -1, head)
      BY <2>6, <1>3 DEF Walked, Listed
    <3>2. ~(f <= -1)
      BY <2>1
    <3>3. L[n] /= Null /\ (f <= -1 \/ L[n] <= f) /\ L[n] \in S
      BY <3>1, <3>2 DEF FirstAbove, S
    <3>4. ~(L[n] < f) /\ L[n] \in Nat
      BY <3>3, <2>4, <1>2
    <3>5. L[n] = f
      BY <3>2, <3>3, <3>4, <2>1
    <3> QED
      BY <3>5, <2>5
  <2>7. CASE n /= 1
    <3>1. n - 1 \in 1 .. M /\ ~(n <= n - 1) /\ n - 1 + 1 = n
      BY <2>5, <2>7, <1>2
    <3>2. L[n - 1] /= Null /\ L[n - 1] < f /\ L[n - 1] \in S
      BY <3>1, <2>4, <1>6
    <3>3. L[n] = at[L[n - 1]].next
      BY <3>1, <3>2, <1>3 DEF Walked
    <3>4. FirstAbove(M, at, L[n - 1], L[n])
      BY <3>2, <3>3 DEF Listed, S
    <3>5. ~(f <= L[n - 1])
      <4>1. L[n - 1] \in Nat /\ L[n - 1] < f
        BY <3>2, <1>2
      <4> QED
        BY <4>1, <2>1
    <3>6. L[n] /= Null /\ (f <= L[n - 1] \/ L[n] <= f) /\ L[n] \in S
      BY <3>4, <3>5 DEF FirstAbove, S
    <3>7. ~(L[n] < f) /\ L[n] \in Nat
      BY <3>6, <2>4, <1>2
    <3>8. L[n] = f
      BY <3>5, <3>6, <3>7, <2>1
    <3> QED
      BY <3>8, <2>5
  <2> QED
    BY <2>6, <2>7
<1>9. Null \notin S
  BY <1>0, <1>2
<1>10. Base!OnList(h) = S
  BY <1>4, <1>6, <1>8, <1>9
<1> QED
  BY <1>10 DEF S, h

LEMMA BaseChecks ==
  ASSUME BaseInv
  PROVE  BaseHeapValid
<1> DEFINE M == MaxBaseHeap
<1>1. PICK head, end, at : head = heap.head /\ end = heap.end /\ at = heap.at
  OBVIOUS
<1>2. /\ heap = HeapOf(head, end, at) /\ Tiles(1, M, at, end)
      /\ Listed(M, at, head) /\ Apart(1, M, at, {}) /\ M \in Nat /\ end \in Nat
  BY <1>1, ManagerBase DEF BaseInv, Kept, Tiles
<1>3. Base!OnList(heap) = FreeOf(M, at)
  BY <1>2, ListMet
<1>4. end > 0 => Base!Adjacents(heap) = ChunksOf(M, at)
  BY <1>2, AdjacentWalk
<1>5. Base!Chunks = ChunksOf(M, at)
  BY <1>1, ManagerBase DEF Base!Chunks, ChunksOf
<1>6. \A a : Base!next_adjacent(heap, a) = Touching(1, at, a, end)
  BY <1>1, ManagerBase
<1>7. \A a \in ChunksOf(M, at) :
        /\ a \in Nat /\ at[a].units \in Nat \ {0} /\ EndAt(1, at, a) \in Nat
        /\ a + 2 <= EndAt(1, at, a) /\ EndAt(1, at, a) <= end
  BY <1>2, ChunkBounds
<1>8. ASSUME NEW a \in ChunksOf(M, at)
      PROVE  a < end /\ Base!chunk_is_valid(heap, a)
  <2>1. a >= 0 /\ a < end /\ at[a].units /= 0
    BY <1>2, <1>7
  <2> QED
    BY <2>1, <1>1 DEF Base!chunk_is_valid
<1>9. FreeOf(M, at) \subseteq ChunksOf(M, at)
  BY DEF FreeOf, ChunksOf
<1>10. \A n \in Int : n /= Null
  BY NullAssumption
<1>11. ASSUME NEW f \in FreeOf(M, at)
       PROVE  /\ at[f].status = "free" /\ f /= Null /\ f \in Nat
              /\ Base!next_adjacent(heap, f) \notin FreeOf(M, at)
              /\ at[f].next \in FreeOf(M, at) \union {Null}
              /\ at[f].next = Null \/ f < at[f].next
  <2>1. at[f].status = "free" /\ f \in Nat /\ f \in ChunksOf(M, at)
    BY <1>7, <1>9 DEF FreeOf
  <2>2. EndAt(1, at, f) \notin FreeOf(M, at)
    BY <1>2 DEF Apart
  <2>3. \/ Touching(1, at, f, end) = EndAt(1, at, f)
        \/ Touching(1, at, f, end) = Null
    BY <1>2, <2>1, Adjacent
  <2>4. Null \notin FreeOf(M, at)
    BY <1>7, <1>9, <1>10
  <2>5. Base!next_adjacent(heap, f) \notin FreeOf(M, at)
    BY <2>2, <2>3, <2>4, <1>6
  <2>6. FirstAbove(M, at, f, at[f].next)
    BY <1>2 DEF Listed
  <2> QED
    BY <2>1, <2>4, <2>5, <2>6 DEF FirstAbove
<1>12. Base!check_heap_validity(heap)
  <2>1. CASE end = 0
    <3>1. ChunksOf(M, at) = {}
      <4> SUFFICES ASSUME NEW a \in ChunksOf(M, at) PROVE FALSE
        OBVIOUS
      <4> QED
        BY <1>7, <2>1
    <3>2. head = Null
      BY <3>1, <1>2, <1>9, NextOnList
    <3> QED
      BY <3>2, <2>1, <1>1 DEF Base!check_heap_validity
  <2>2. CASE end /= 0
    <3>1. \A a \in Base!Adjacents(heap) : Base!chunk_is_valid(heap, a)
      BY <2>2, <1>2, <1>4, <1>8
    <3>2. ASSUME NEW f \in Base!OnList(heap)
          PROVE  /\ heap.at[f].status = "free" /\ Base!chunk_is_valid(heap, f)
                 /\ Base!next_adjacent(heap, f) = Null
                    \/ Base!next_adjacent(heap, f) /= heap.at[f].next
      BY <3>2, <1>1, <1>3, <1>8, <1>9, <1>11
    <3> QED
      BY <3>1, <3>2, <2>2, <1>1 DEF Base!check_heap_validity
  <2> QED
    BY <2>1, <2>2
<1>13. Base!OnList(heap) = {a \in Base!Chunks : Base!IsFree(heap, a)}
  <2>1. \A a \in ChunksOf(M, at) : a /= Null /\ a \in Mem(M)
    BY <1>7, <1>10 DEF ChunksOf
  <2>2. \A a \in ChunksOf(M, at) : Base!IsFree(heap, a) <=> a \in FreeOf(M, at)
    BY <2>1, <1>1 DEF Base!IsFree, FreeOf
  <2> QED
    BY <2>2, <1>3, <1>5, <1>9
<1>14. ASSUME NEW f \in Base!OnList(heap)
       PROVE  /\ ~Base!IsFree(heap, Base!next_adjacent(heap, f))
              /\ heap.at[f].next = Null \/ f < heap.at[f].next
  <2>1. f \in FreeOf(M, at)
    BY <1>3
  <2>2. PICK n : n = Base!next_adjacent(heap, f)
    OBVIOUS
  <2>3. /\ n \notin FreeOf(M, at)
        /\ heap.at[f].next = Null \/ f < heap.at[f].next
    BY <2>1, <2>2, <1>1, <1>11
  <2>4. n = Null \/ n \in ChunksOf(M, at)
    BY <2>1, <2>2, <1>2, <1>6, <1>9, Adjacent
  <2>5. ~Base!IsFree(heap, n)
    BY <2>3, <2>4, <1>1 DEF Base!IsFree, FreeOf, ChunksOf
  <2> QED
    BY <2>2, <2>3, <2>5
<1> QED
  BY <1>1, <1>2, <1>4, <1>5, <1>12, <1>13, <1>14
     DEF BaseHeapValid, Base!HeapValid

(* Across any sequence of calls heapmgrbase.c keeps its heap valid (the    *)
(* checks of its debug build, check_heap_validity), and its list holds     *)
(* all free chunks, in order, no two of which touch.                       *)
THEOREM BaseHeapKept == Base!Spec => []BaseHeapValid
<1>1. BaseInv => BaseHeapValid
  BY BaseChecks
<1> QED
  BY <1>1, BaseInvariance, PTL

-----------------------------------------------------------------------------
(* An execution with one of the two managers linked to the client is an    *)
(* execution of each, the other one doing nothing: all the theorems hold   *)
(* of it (testheapmgr.c is linked with one of the two).                    *)
THEOREM EitherManager == EitherSpec => Spec /\ Base!Spec
<1>1. EitherInit => Init /\ Base!Init
  BY DEF EitherInit
<1>2. [EitherNext]_<<linked, vars, baseVars>>
        => [Next]_vars /\ [Base!Next]_(Base!vars)
  BY DEF EitherNext, baseVars, Base!vars
<1> QED
  BY <1>1, <1>2, PTL DEF EitherSpec, Spec, Base!Spec
=============================================================================
