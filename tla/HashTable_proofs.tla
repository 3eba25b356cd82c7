-------------------------- MODULE HashTable_proofs --------------------------
(***************************************************************************)
(* Theorems about HashTable, for any number of workers, keys, values,      *)
(* buckets and nodes and for any hash function.                            *)
(***************************************************************************)
EXTENDS HashTable, FiniteSetTheorems, TLAPS

-----------------------------------------------------------------------------
(* Lists.  h is the contents of the nodes; p is a pointer.                 *)
Pointers == Nodes \cup {Null}
Linked(h) == \A n \in Nodes : h[n].next \in Pointers

(* No node is reached from the one that follows it.                        *)
Acyclic(h, p) == \A n \in Reach(h, p) : n \notin Reach(h, h[n].next)

LEMMA ReachIs ==
  ASSUME NEW h, NEW p \in Pointers
  PROVE  /\ Reach(h, p) \subseteq Nodes
         /\ p \in Reach(h, p) \cup {Null}
         /\ \A S \in SUBSET Nodes :
              /\ p \in S \cup {Null}
              /\ \A m \in S : h[m].next \in S \cup {Null}
              => Reach(h, p) \subseteq S
  BY DEF Reach, Pointers

LEMMA ReachNull ==
  ASSUME NEW h
  PROVE  Reach(h, Null) = {}
<1> SUFFICES ASSUME NEW n \in Reach(h, Null) PROVE FALSE
  OBVIOUS
<1>1. \A S \in SUBSET Nodes :
        /\ Null \in S \cup {Null}
        /\ \A m \in S : h[m].next \in S \cup {Null}
        => n \in S
  BY DEF Reach
<1>2. {} \in SUBSET Nodes
  OBVIOUS
<1> QED
  BY <1>1, <1>2

LEMMA ReachGoesOn ==
  ASSUME NEW h, Linked(h), NEW p \in Pointers, NEW n \in Reach(h, p)
  PROVE  h[n].next \in Reach(h, p) \cup {Null}
<1> SUFFICES ASSUME h[n].next /= Null,
                    NEW S \in SUBSET Nodes,
                    p \in S \cup {Null},
                    \A m \in S : h[m].next \in S \cup {Null}
             PROVE  h[n].next \in S
  BY DEF Reach, Linked, Pointers
<1>1. n \in S
  BY DEF Reach
<1> QED
  BY <1>1

(* From a node of a list its end is reached, and nothing else.             *)
LEMMA ReachInside ==
  ASSUME NEW h, Linked(h), NEW p \in Pointers,
         NEW n \in Reach(h, p) \cup {Null}
  PROVE  Reach(h, n) \subseteq Reach(h, p)
<1>1. n \in Pointers /\ Reach(h, p) \in SUBSET Nodes
  BY ReachIs DEF Pointers
<1>2. \A m \in Reach(h, p) : h[m].next \in Reach(h, p) \cup {Null}
  BY ReachGoesOn
<1> QED
  BY <1>1, <1>2, ReachIs

LEMMA ReachStep ==
  ASSUME NEW h, Linked(h), NEW n \in Nodes
  PROVE  Reach(h, n) = {n} \cup Reach(h, h[n].next)
<1>1. n \in Pointers /\ h[n].next \in Pointers /\ n /= Null
  BY NullAssumption DEF Linked, Pointers
<1>2. n \in Reach(h, n)
  BY <1>1, ReachIs
<1>3. Reach(h, h[n].next) \subseteq Reach(h, n)
  BY <1>1, <1>2, ReachGoesOn, ReachInside
<1>4. Reach(h, n) \subseteq {n} \cup Reach(h, h[n].next)
  <2> DEFINE S == {n} \cup Reach(h, h[n].next)
  <2>1. S \in SUBSET Nodes /\ n \in S
    BY <1>1, ReachIs
  <2>2. ASSUME NEW m \in S PROVE h[m].next \in S \cup {Null}
    <3>1. CASE m = n
      BY <1>1, <3>1, ReachIs
    <3>2. CASE m \in Reach(h, h[n].next)
      BY <1>1, <3>2, ReachGoesOn
    <3> QED
      BY <3>1, <3>2
  <2> HIDE DEF S
  <2>3. Reach(h, n) \subseteq S
    BY <1>1, <2>1, <2>2, ReachIs
  <2> QED
    BY <2>3 DEF S
<1> QED
  BY <1>2, <1>3, <1>4

(* Nodes that a pointer does not reach may change.                         *)
LEMMA ReachSame ==
  ASSUME NEW h, Linked(h), NEW g, Linked(g), NEW p \in Pointers,
         \A n \in Reach(h, p) : g[n].next = h[n].next
  PROVE  Reach(g, p) = Reach(h, p)
<1>1. Reach(h, p) \in SUBSET Nodes /\ Reach(g, p) \in SUBSET Nodes
  BY ReachIs
<1>2. Reach(g, p) \subseteq Reach(h, p)
  <2>1. \A m \in Reach(h, p) : g[m].next \in Reach(h, p) \cup {Null}
    BY ReachGoesOn
  <2> QED
    BY <1>1, <2>1, ReachIs
<1>3. Reach(h, p) \subseteq Reach(g, p)
  <2>1. \A m \in Reach(g, p) : h[m].next \in Reach(g, p) \cup {Null}
    BY <1>2, ReachGoesOn
  <2> QED
    BY <1>1, <2>1, ReachIs
<1> QED
  BY <1>2, <1>3

(* Of two nodes of a list one is reached from the other.                   *)
LEMMA ReachLinear ==
  ASSUME NEW h, Linked(h), NEW p \in Pointers,
         NEW m \in Reach(h, p), NEW n \in Reach(h, p)
  PROVE  n \in Reach(h, m) \/ m \in Reach(h, n)
<1> DEFINE S == {k \in Reach(h, p) : k \in Reach(h, m) \/ m \in Reach(h, k)}
<1>1. S \in SUBSET Nodes /\ p \in S \cup {Null}
  BY ReachIs
<1>2. ASSUME NEW k \in S PROVE h[k].next \in S \cup {Null}
  <2>1. /\ k \in Nodes /\ m \in Nodes /\ m \in Pointers
        /\ h[k].next \in Reach(h, p) \cup {Null}
    BY ReachIs, ReachGoesOn DEF Pointers
  <2>2. CASE k \in Reach(h, m)
    BY <2>1, <2>2, ReachGoesOn
  <2>3. CASE m \in Reach(h, k)
    <3>1. m = k \/ m \in Reach(h, h[k].next)
      BY <2>1, <2>3, ReachStep
    <3>2. CASE m = k
      <4>1. k \in Reach(h, m)
        BY <2>1, <3>2, ReachStep
      <4> QED
        BY <2>1, <4>1, ReachGoesOn
    <3> QED
      BY <2>1, <3>1, <3>2
  <2> QED
    BY <2>2, <2>3
<1> HIDE DEF S
<1>3. Reach(h, p) \subseteq S
  BY <1>1, <1>2, ReachIs
<1> QED
  BY <1>3 DEF S

(* In a list without a circle no node follows two others, nor the first.   *)
LEMMA OnePredecessor ==
  ASSUME NEW h, Linked(h), NEW p \in Pointers, Acyclic(h, p),
         NEW m \in Reach(h, p), h[m].next /= Null
  PROVE  /\ h[m].next /= p
         /\ \A n \in Reach(h, p) : h[n].next = h[m].next => n = m
<1>1. m \in Nodes /\ m \in Pointers /\ m \notin Reach(h, h[m].next)
  BY ReachIs DEF Acyclic, Pointers
<1>2. h[m].next /= p
  BY <1>1
<1>3. ASSUME NEW n \in Reach(h, p), h[n].next = h[m].next, n /= m
      PROVE  FALSE
  <2>1. n \in Nodes /\ n \notin Reach(h, h[n].next)
    BY ReachIs DEF Acyclic
  <2>2. n \in Reach(h, m) \/ m \in Reach(h, n)
    BY ReachLinear
  <2> QED
    BY <1>1, <1>3, <2>1, <2>2, ReachStep
<1> QED
  BY <1>2, <1>3

(* prev->next = node->next takes the node out of the list, and no other.   *)
LEMMA UnlinkInside ==
  ASSUME NEW h, Linked(h), NEW g, Linked(g), NEW p \in Pointers, Acyclic(h, p),
         NEW m \in Reach(h, p), NEW c, c = h[m].next, c /= Null,
         g[m].next = h[c].next,
         \A n \in Nodes : n /= m => g[n].next = h[n].next
  PROVE  /\ Reach(g, p) = Reach(h, p) \ {c}
         /\ Acyclic(g, p)
         /\ \A q \in Pointers : Reach(g, q) \subseteq Reach(h, q)
<1>1. /\ m \in Nodes /\ c \in Nodes /\ c \in Reach(h, p)
      /\ h[c].next \in Reach(h, p) \cup {Null} /\ p /= c /\ c /= h[c].next
      /\ c \in Reach(h, c)
  <2>1. m \in Nodes /\ c \in Nodes /\ c \in Reach(h, p) /\ p /= c
    BY ReachIs, ReachGoesOn, OnePredecessor
  <2>2. c \in Reach(h, c) /\ c \notin Reach(h, h[c].next)
    BY <2>1, ReachStep DEF Acyclic
  <2>3. h[c].next \in Reach(h, p) \cup {Null}
    BY <2>1, ReachGoesOn
  <2> QED
    BY <2>1, <2>2, <2>3
<1>2. Reach(g, p) \subseteq Reach(h, p) \ {c}
  <2> DEFINE S == Reach(h, p) \ {c}
  <2>1. S \in SUBSET Nodes /\ p \in S \cup {Null}
    BY <1>1, ReachIs
  <2>2. ASSUME NEW n \in S PROVE g[n].next \in S \cup {Null}
    <3>1. CASE n = m
      BY <1>1, <3>1
    <3>2. CASE n /= m
      <4>1. n \in Nodes /\ n \in Reach(h, p)
        BY ReachIs
      <4>2. h[n].next /= c
        BY <3>2, <4>1, OnePredecessor
      <4>3. h[n].next \in Reach(h, p) \cup {Null}
        BY <4>1, ReachGoesOn
      <4> QED
        BY <3>2, <4>1, <4>2, <4>3
    <3> QED
      BY <3>1, <3>2
  <2> HIDE DEF S
  <2>3. Reach(g, p) \subseteq S
    BY <2>1, <2>2, ReachIs
  <2> QED
    BY <2>3 DEF S
<1>3. m \in Reach(g, p)
  <2>1. SUFFICES ASSUME m \notin Reach(g, p) PROVE FALSE
    OBVIOUS
  <2>2. \A n \in Reach(g, p) : h[n].next = g[n].next
    BY <2>1, ReachIs
  <2> QED
    BY <2>1, <2>2, ReachSame
<1>4. Reach(h, p) \subseteq Reach(g, p) \cup {c}
  <2> DEFINE S == Reach(g, p) \cup {c}
  <2>1. S \in SUBSET Nodes /\ p \in S \cup {Null}
    BY <1>1, ReachIs
  <2>2. ASSUME NEW n \in S PROVE h[n].next \in S \cup {Null}
    <3>1. CASE n = m
      BY <3>1
    <3>2. CASE n = c
      <4>1. h[c].next = g[m].next
        OBVIOUS
      <4> QED
        BY <1>3, <3>2, <4>1, ReachGoesOn
    <3>3. CASE n /= m /\ n /= c
      <4>1. n \in Reach(g, p) /\ n \in Nodes
        BY <3>3, ReachIs
      <4> QED
        BY <3>3, <4>1, ReachGoesOn
    <3> QED
      BY <3>1, <3>2, <3>3
  <2> HIDE DEF S
  <2>3. Reach(h, p) \subseteq S
    BY <2>1, <2>2, ReachIs
  <2> QED
    BY <2>3 DEF S
<1>5. ASSUME NEW q \in Pointers PROVE Reach(g, q) \subseteq Reach(h, q)
  <2>1. Reach(h, q) \in SUBSET Nodes /\ q \in Reach(h, q) \cup {Null}
    BY ReachIs
  <2>2. ASSUME NEW n \in Reach(h, q)
        PROVE  g[n].next \in Reach(h, q) \cup {Null}
    <3>1. CASE n = m
      <4>1. c \in Reach(h, q)
        BY <2>2, <3>1, ReachGoesOn
      <4> QED
        BY <3>1, <4>1, ReachGoesOn
    <3>2. CASE n /= m
      BY <2>1, <2>2, <3>2, ReachGoesOn
    <3> QED
      BY <3>1, <3>2
  <2> QED
    BY <2>1, <2>2, ReachIs
<1>6. Acyclic(g, p)
  <2> SUFFICES ASSUME NEW n \in Reach(g, p)
               PROVE  n \notin Reach(g, g[n].next)
    BY DEF Acyclic
  <2>1. n \in Reach(h, p) /\ n \in Nodes /\ n \notin Reach(h, h[n].next)
    BY <1>2, ReachIs DEF Acyclic
  <2>2. CASE n = m
    <3>1. Reach(h, h[c].next) \subseteq Reach(h, c)
      BY <1>1, ReachStep
    <3>2. h[c].next \in Pointers
      BY <1>1 DEF Linked
    <3> QED
      BY <1>5, <2>1, <2>2, <3>1, <3>2
  <2>3. CASE n /= m
    BY <1>5, <2>1, <2>3 DEF Linked
  <2> QED
    BY <2>2, <2>3
<1> QED
  BY <1>2, <1>4, <1>5, <1>6

-----------------------------------------------------------------------------
(* The inductive invariant.                                                *)

(* Between acquiring and releasing the lock of its bucket.                 *)
Labels == {"idle", "lock", "head", "walk", "link", "grow", "nul", "free_value",
           "set_value", "free_node", "shrink", "unlock", "return"}
Critical == Labels \ {"idle", "lock", "return"}
Inside(w) == pc[w] \in Critical
Reads(w) == request[w].op = "search"

Types ==
  /\ TypeOK
  /\ pc \in [Workers -> Labels]
  /\ dst \in [Workers -> {NoResult} \cup [bytes : Values, length : Values]]
  /\ result \in [Workers -> {NoResult}
                 \cup [ret : {0, 1}, value : Values \cup {NoValue}]]
  /\ \A w \in Workers : pc[w] /= "idle" => request[w] \in Requests
  /\ \A n \in allocated : node[n] \in NodeContents

(* Which operation a worker executes at statements that only one has.      *)
OpAt == [link |-> "insert", grow |-> "insert", nul |-> "search",
         free_value |-> "update", set_value |-> "update",
         free_node |-> "delete", shrink |-> "delete"]
Operations == \A w \in Workers :
  pc[w] \in DOMAIN OpAt => request[w].op = OpAt[pc[w]]

(* Who holds a lock is inside, and a writer is alone.                      *)
Holders == \A w \in Workers, b \in Buckets :
  /\ w \in readers[b] <=> Inside(w) /\ Bucket(w) = b /\ Reads(w)
  /\ w \in writer[b] <=> Inside(w) /\ Bucket(w) = b /\ ~Reads(w)
Exclusion == \A v, w \in Workers :
  Inside(v) /\ Inside(w) /\ Bucket(v) = Bucket(w) /\ v /= w =>
    Reads(v) /\ Reads(w)
LockInv == Types /\ Operations /\ Holders /\ Exclusion

(* The lists have an end, and each key at most once and in its bucket.     *)
ListOf(b) ==
  /\ Acyclic(node, buckets[b])
  /\ InBucket(b) \subseteq allocated
  /\ \A n \in InBucket(b) : hash[node[n].key] = b
  /\ \A m, n \in InBucket(b) : node[m].key = node[n].key => m = n

(* A node that its worker has not linked yet, or not freed yet, is in no   *)
(* list; every other allocated node is.                                    *)
Owns(w) == pc[w] \in {"link", "free_node"}
Owned(w) ==
  Owns(w) => /\ cursor[w] \in allocated
             /\ \A b \in Buckets : cursor[w] \notin InBucket(b)
             /\ \A v \in Workers : Owns(v) /\ cursor[v] = cursor[w] => v = w
Accounted == \A n \in allocated :
  \/ \E b \in Buckets : n \in InBucket(b)
  \/ \E w \in Workers : Owns(w) /\ cursor[w] = n

(* A value is live and has the length stored beside it, except while       *)
(* hash_update replaces it.                                                *)
Whole(n) == node[n].value_live /\ node[n].value = node[n].value_size
Updating(w) == pc[w] \in {"free_value", "set_value"}
ValuesOf(b) == \A n \in InBucket(b) :
  Whole(n) \/ \E w \in Workers : Updating(w) /\ cursor[w] = n

(* The counter follows the list at once, or one step later.                *)
Late(w) == CASE pc[w] = "grow" -> 1
             [] pc[w] \in {"free_node", "shrink"} -> -1
             [] OTHER -> 0
CountOf(b) ==
  /\ (\A w \in Workers : Inside(w) /\ Bucket(w) = b => Late(w) = 0) =>
       bucket_sizes[b] = Cardinality(InBucket(b))
  /\ \A w \in Workers : Inside(w) /\ Bucket(w) = b /\ ~Reads(w) =>
       bucket_sizes[b] + Late(w) = Cardinality(InBucket(b))

(* What the local variables of a worker say about its bucket.              *)
LocalAt(w, b) ==
  /\ pc[w] \in {"idle", "lock", "head"} =>
       cursor[w] = Null /\ prev[w] = Null /\ dst[w] = NoResult
  /\ pc[w] = "walk" =>
       /\ dst[w] = NoResult
       /\ cursor[w] \in InBucket(b) \cup {Null}
       /\ \A n \in InBucket(b) \ Chain(cursor[w]) :
            node[n].key /= request[w].key
       /\ \/ /\ prev[w] = Null
             /\ request[w].op = "delete" => cursor[w] = buckets[b]
          \/ /\ request[w].op = "delete"
             /\ prev[w] \in InBucket(b) /\ node[prev[w]].next = cursor[w]
  /\ pc[w] = "nul" =>
       /\ cursor[w] \in InBucket(b) /\ prev[w] = Null
       /\ dst[w] = [bytes |-> node[cursor[w]].value,
                    length |-> node[cursor[w]].value]
  /\ pc[w] = "link" =>
       /\ node[cursor[w]].next = buckets[b] /\ Whole(cursor[w])
       /\ node[cursor[w]].key = request[w].key
       /\ node[cursor[w]].value = request[w].value
       /\ \A n \in InBucket(b) : node[n].key /= request[w].key
  /\ Updating(w) =>
       /\ cursor[w] \in InBucket(b) /\ prev[w] = Null
       /\ node[cursor[w]].key = request[w].key
       /\ node[cursor[w]].value_size = request[w].value
  /\ pc[w] = "free_node" => prev[w] \in InBucket(b) \cup {Null}
  /\ dst[w] /= NoResult => dst[w].bytes = dst[w].length
Local(w) == LocalAt(w, Bucket(w))

TableInv ==
  /\ LockInv
  /\ \A b \in Buckets : ListOf(b) /\ ValuesOf(b) /\ CountOf(b)
  /\ \A w \in Workers : Owned(w) /\ Local(w)
  /\ Accounted

-----------------------------------------------------------------------------
(* Types and locks.                                                        *)

WorkerStep(w) == Call(w) \/ Acquire(w) \/ Execute(w)

LEMMA NodesLinked == Types => Linked(node)
  BY DEF Types, TypeOK, Linked, Pointers, NodeContents, Garbage

LEMMA HasBucket ==
  ASSUME Types, NEW w \in Workers, pc[w] /= "idle"
  PROVE  /\ request[w] \in Requests /\ Bucket(w) \in Buckets
         /\ request[w].key \in Keys
         /\ request[w].op \in {"insert", "update", "search", "delete"}
         /\ request[w].op \in {"insert", "update"} => request[w].value \in Values
<1>1. request[w] \in Requests
  BY DEF Types
<1> QED
  BY <1>1, HashAssumption DEF Bucket, Requests

LEMMA BucketFinite ==
  ASSUME NEW b \in Buckets
  PROVE  /\ IsFiniteSet(InBucket(b)) /\ Cardinality(InBucket(b)) \in Nat
         /\ InBucket(b) \subseteq Nodes
<1>1. InBucket(b) \subseteq Nodes
  BY DEF InBucket, Chain, Reach
<1> QED
  BY <1>1, NodesAssumption, FS_Subset, FS_CardinalityType

(* The lists of different buckets are disjoint.                            *)
LEMMA OneBucket ==
  ASSUME NEW a \in Buckets, NEW b \in Buckets, ListOf(a), ListOf(b),
         NEW n \in InBucket(a), n \in InBucket(b)
  PROVE  a = b
  BY DEF ListOf

(* Every step keeps the types.                                             *)
LEMMA CallTypes ==
  ASSUME Types, NEW w \in Workers,
         \/ Call(w) \/ ReadLock(w) \/ WriteLock(w) \/ Unlock(w) \/ Return(w)
         \/ ReadHead(w)
  PROVE  Types'
<1> USE DEF Types, TypeOK, Goto, tableVars, lockVars, localVars
<1>0. {"idle", "lock", "head", "walk", "unlock", "return"} \subseteq Labels
  BY DEF Labels
<1>1. CASE Call(w)
  BY <1>0, <1>1 DEF Call
<1>2. CASE ReadLock(w) \/ WriteLock(w)
  <2>1. request[w] \in Requests /\ Bucket(w) \in Buckets
    BY <1>2, HasBucket DEF ReadLock, WriteLock
  <2> QED
    BY <1>0, <1>2, <2>1 DEF ReadLock, WriteLock
<1>3. CASE Unlock(w)
  <2>1. request[w] \in Requests /\ Bucket(w) \in Buckets
    BY <1>3, HasBucket DEF Unlock
  <2> QED
    BY <1>0, <1>3, <2>1 DEF Unlock
<1>4. CASE Return(w)
  BY <1>0, <1>4 DEF Return
<1>5. CASE ReadHead(w)
  <2>1. request[w] \in Requests /\ Bucket(w) \in Buckets
    BY <1>5, HasBucket DEF ReadHead
  <2> QED
    BY <1>0, <1>5, <2>1 DEF ReadHead
<1> QED
  BY <1>1, <1>2, <1>3, <1>4, <1>5

(* The node a worker looks at is allocated.                                *)
LEMMA CursorAllocated ==
  ASSUME TableInv, NEW w \in Workers,
         \/ pc[w] = "walk" /\ cursor[w] /= Null
         \/ pc[w] \in {"nul", "link", "free_value", "set_value", "free_node"}
  PROVE  /\ cursor[w] \in allocated /\ cursor[w] \in Nodes
         /\ node[cursor[w]] \in NodeContents
         /\ Bucket(w) \in Buckets
         /\ pc[w] \notin {"link", "free_node"} => cursor[w] \in InBucket(Bucket(w))
<1>1. Types /\ Local(w) /\ Owned(w)
  BY DEF TableInv, LockInv
<1>2. Bucket(w) \in Buckets
  BY <1>1, HasBucket
<1>3. InBucket(Bucket(w)) \subseteq allocated
  BY <1>2 DEF TableInv, ListOf
<1>4. /\ pc[w] \notin {"link", "free_node"} => cursor[w] \in InBucket(Bucket(w))
      /\ cursor[w] \in allocated
  BY <1>1, <1>3 DEF Local, LocalAt, Owned, Owns, Updating
<1> QED
  BY <1>1, <1>2, <1>4 DEF Types, TypeOK

LEMMA WalkTypes ==
  ASSUME TableInv, NEW w \in Workers,
         \/ WalkOn(w) \/ WalkOff(w) \/ Collide(w) \/ CopyValue(w) \/ Terminate(w)
  PROVE  Types'
<1>t. Types
  BY DEF TableInv, LockInv
<1> USE DEF Types, TypeOK, Goto, Finish, tableVars, lockVars, localVars
<1>0. {"walk", "unlock", "nul"} \subseteq Labels
  BY DEF Labels
<1>r. /\ Outcome(0, NoValue) \in [ret : {0, 1}, value : Values \cup {NoValue}]
      /\ \A v \in Values :
           Outcome(1, v) \in [ret : {0, 1}, value : Values \cup {NoValue}]
  BY DEF Outcome
<1>1. CASE WalkOn(w)
  <2>1. cursor[w] \in Nodes /\ node[cursor[w]].next \in Nodes \cup {Null}
    BY <1>t, <1>1, NodesLinked DEF WalkOn, Linked, Pointers
  <2> QED
    BY <1>t, <1>1, <2>1 DEF WalkOn
<1>2. CASE WalkOff(w) \/ Collide(w)
  BY <1>t, <1>0, <1>2, <1>r DEF WalkOff, Collide
<1>3. CASE CopyValue(w)
  <2>1. node[cursor[w]] \in NodeContents
    BY <1>3, CursorAllocated DEF CopyValue, Found
  <2>2. node[cursor[w]].value \in Values /\ node[cursor[w]].value_size \in Values
    BY <2>1 DEF NodeContents
  <2> QED
    BY <1>t, <1>0, <1>3, <1>r, <2>2 DEF CopyValue
<1>4. CASE Terminate(w)
  <2>1. node[cursor[w]] \in NodeContents
    BY <1>4, CursorAllocated DEF Terminate
  <2>2. node[cursor[w]].value_size \in Values
    BY <2>1 DEF NodeContents
  <2>3. dst[w] = [bytes |-> node[cursor[w]].value, length |-> node[cursor[w]].value]
    BY <1>4 DEF TableInv, Local, LocalAt, Terminate
  <2>4. node[cursor[w]].value \in Values
    BY <2>1 DEF NodeContents
  <2>5. [dst[w] EXCEPT !.length = node[cursor[w]].value_size]
          \in [bytes : Values, length : Values]
    BY <2>2, <2>3, <2>4
  <2>6. dst' = [dst EXCEPT ![w] =
                  [dst[w] EXCEPT !.length = node[cursor[w]].value_size]]
    BY <1>4 DEF Terminate
  <2>7. dst' \in [Workers -> {NoResult} \cup [bytes : Values, length : Values]]
    BY <1>t, <2>5, <2>6
  <2> QED
    BY <1>t, <1>0, <1>4, <2>7 DEF Terminate
<1> QED
  BY <1>1, <1>2, <1>3, <1>4

LEMMA WriteTypes ==
  ASSUME TableInv, NEW w \in Workers,
         \/ NewNode(w) \/ LinkNode(w) \/ GrowCount(w) \/ SetLength(w)
         \/ FreeValue(w) \/ SetValue(w) \/ Unlink(w) \/ FreeNode(w)
         \/ ShrinkCount(w)
  PROVE  Types'
<1>t. Types /\ Operations
  BY DEF TableInv, LockInv
<1>u. pc[w] \in Labels \ {"idle", "lock", "head", "nul", "return", "unlock"}
  BY <1>t DEF NewNode, LinkNode, GrowCount, SetLength, FreeValue, SetValue, Unlink,
              FreeNode, ShrinkCount, Labels
<1>b. /\ request[w] \in Requests /\ Bucket(w) \in Buckets /\ request[w].key \in Keys
      /\ request[w].op \in {"insert", "update"} => request[w].value \in Values
  BY <1>t, <1>u, HasBucket
<1> USE DEF Types, TypeOK, Goto, Finish, lockVars, localVars
<1>0. {"link", "grow", "unlock", "free_value", "set_value", "free_node",
       "shrink"} \subseteq Labels
  BY DEF Labels
<1>r. Outcome(1, NoValue) \in [ret : {0, 1}, value : Values \cup {NoValue}]
  BY DEF Outcome
<1>l. Linked(node)
  BY <1>t, NodesLinked
<1>1. CASE NewNode(w)
  <2>1. PICK n \in Nodes \ allocated :
          /\ allocated' = allocated \cup {n}
          /\ node' = [node EXCEPT ![n] =
               [key |-> request[w].key, value |-> request[w].value,
                value_size |-> request[w].value, value_live |-> TRUE,
                next |-> OldHead(w, n)]]
          /\ cursor' = [cursor EXCEPT ![w] = n]
    BY <1>1 DEF NewNode
  <2>2. [key |-> request[w].key, value |-> request[w].value,
         value_size |-> request[w].value, value_live |-> TRUE,
         next |-> OldHead(w, n)] \in NodeContents
    BY <1>t, <1>b, <1>1 DEF NewNode, NodeContents, OldHead
  <2>3. node' \in [Nodes -> NodeContents \cup {Garbage}]
    BY <1>t, <2>1, <2>2
  <2>4. \A m \in allocated' : node'[m] \in NodeContents
    BY <1>t, <2>1, <2>2
  <2>5. allocated' \subseteq Nodes /\ cursor' \in [Workers -> Nodes \cup {Null}]
    BY <1>t, <2>1
  <2> QED
    BY <1>t, <1>b, <1>0, <1>1, <2>3, <2>4, <2>5 DEF NewNode
<1>2. CASE LinkNode(w)
  BY <1>t, <1>b, <1>0, <1>r, <1>2 DEF LinkNode
<1>3. CASE GrowCount(w)
  BY <1>t, <1>b, <1>0, <1>3 DEF GrowCount
<1>4. CASE SetLength(w) \/ FreeValue(w) \/ SetValue(w)
  <2>1. cursor[w] \in Nodes /\ node[cursor[w]] \in NodeContents
    BY <1>4, CursorAllocated DEF SetLength, FreeValue, SetValue, Found
  <2>2. request[w].value \in Values
    BY <1>t, <1>b, <1>4 DEF SetLength, FreeValue, SetValue, Operations, OpAt
  <2>3. \E c \in NodeContents : node' = [node EXCEPT ![cursor[w]] = c]
    <3>1. CASE SetLength(w)
      <4>1. [node[cursor[w]] EXCEPT !.value_size = request[w].value] \in NodeContents
        BY <2>1, <2>2 DEF NodeContents
      <4> QED
        BY <1>t, <3>1, <4>1 DEF SetLength
    <3>2. CASE FreeValue(w)
      <4>1. [node[cursor[w]] EXCEPT !.value_live = FALSE] \in NodeContents
        BY <2>1 DEF NodeContents
      <4> QED
        BY <1>t, <3>2, <4>1 DEF FreeValue
    <3>3. CASE SetValue(w)
      <4>1. [node[cursor[w]] EXCEPT !.value = request[w].value, !.value_live = TRUE]
              \in NodeContents
        BY <2>1, <2>2 DEF NodeContents
      <4> QED
        BY <1>t, <2>1, <3>3, <4>1 DEF SetValue
    <3> QED
      BY <1>4, <3>1, <3>2, <3>3
  <2>4. node' \in [Nodes -> NodeContents \cup {Garbage}]
    BY <1>t, <2>3
  <2>5. \A m \in allocated : node'[m] \in NodeContents
    BY <1>t, <2>3
  <2>6. /\ pc' \in [Workers -> Labels] /\ allocated' = allocated
        /\ UNCHANGED <<buckets, bucket_sizes, lockVars, request, cursor, prev,
                       dst>>
    BY <1>t, <1>0, <1>4 DEF SetLength, FreeValue, SetValue
  <2>7. result' \in [Workers -> {NoResult}
                      \cup [ret : {0, 1}, value : Values \cup {NoValue}]]
    BY <1>t, <1>r, <1>4 DEF SetLength, FreeValue, SetValue
  <2>8. \A v \in Workers : pc'[v] /= "idle" => pc[v] /= "idle"
    BY <1>t, <1>4 DEF SetLength, FreeValue, SetValue
  <2> QED
    BY <1>t, <2>4, <2>5, <2>6, <2>7, <2>8
<1>5. CASE Unlink(w)
  <2>1. cursor[w] \in Nodes /\ node[cursor[w]].next \in Nodes \cup {Null}
    BY <1>l, <1>5, CursorAllocated DEF Unlink, Found, Linked, Pointers
  <2>2. CASE prev[w] = Null
    BY <1>t, <1>b, <1>0, <1>r, <1>5, <2>1, <2>2 DEF Unlink
  <2>3. CASE prev[w] /= Null
    <3>1. prev[w] \in InBucket(Bucket(w))
      BY <1>5, <2>3 DEF TableInv, Local, LocalAt, Unlink
    <3>2. prev[w] \in allocated
      BY <1>b, <3>1 DEF TableInv, ListOf
    <3>3. prev[w] \in Nodes /\ node[prev[w]] \in NodeContents
      BY <1>t, <3>2
    <3>4. [node[prev[w]] EXCEPT !.next = node[cursor[w]].next] \in NodeContents
      BY <2>1, <3>3 DEF NodeContents
    <3> QED
      BY <1>t, <1>b, <1>0, <1>r, <1>5, <2>3, <3>2, <3>3, <3>4 DEF Unlink
  <2> QED
    BY <2>2, <2>3
<1>6. CASE FreeNode(w)
  <2>1. cursor[w] \in Nodes /\ node[cursor[w]].next \in Nodes \cup {Null}
    BY <1>l, <1>6, CursorAllocated DEF FreeNode, Linked, Pointers
  <2> QED
    BY <1>t, <1>0, <1>6, <2>1 DEF FreeNode
<1>7. CASE ShrinkCount(w)
  <2>1. /\ Inside(w) /\ ~Reads(w) /\ Late(w) = -1
    BY <1>t, <1>7 DEF ShrinkCount, Inside, Critical, Labels, Reads, Late, Operations,
                      OpAt
  <2>2. bucket_sizes[Bucket(w)] + (-1) = Cardinality(InBucket(Bucket(w)))
    BY <1>b, <2>1 DEF TableInv, CountOf
  <2>3. bucket_sizes[Bucket(w)] - 1 \in Nat
    BY <1>t, <1>b, <2>2, BucketFinite
  <2> QED
    BY <1>t, <1>b, <1>0, <1>7, <2>3 DEF ShrinkCount
<1> QED
  BY <1>1, <1>2, <1>3, <1>4, <1>5, <1>6, <1>7

LEMMA NextTypes ==
  ASSUME TableInv, [Next]_vars
  PROVE  Types'
<1>t. Types
  BY DEF TableInv, LockInv
<1>1. ASSUME NEW w \in Workers, WorkerStep(w) PROVE Types'
  BY <1>t, <1>1, CallTypes, WalkTypes, WriteTypes
     DEF WorkerStep, Acquire, Execute
<1>2. CASE skvs_destroy
  <2> DEFINE freed == UNION {InBucket(b) : b \in Destroyed}
  <2>1. /\ allocated' = allocated \ freed
        /\ node' = [n \in Nodes |-> IF n \in freed THEN Garbage ELSE node[n]]
        /\ buckets' = [b \in Buckets |-> Null]
        /\ bucket_sizes' = [b \in Buckets |-> 0]
        /\ UNCHANGED <<lockVars, pc, localVars>>
    BY <1>2 DEF skvs_destroy
  <2> HIDE DEF freed
  <2>2. node' \in [Nodes -> NodeContents \cup {Garbage}]
    BY <1>t, <2>1 DEF Types, TypeOK
  <2>3. \A n \in allocated' : node'[n] \in NodeContents
    BY <1>t, <2>1 DEF Types, TypeOK
  <2> QED
    BY <1>t, <2>1, <2>2, <2>3 DEF Types, TypeOK, lockVars, localVars
<1>3. CASE UNCHANGED vars
  BY <1>t, <1>3 DEF Types, TypeOK, vars, tableVars, lockVars, localVars
<1> QED
  BY <1>1, <1>2, <1>3 DEF Next, WorkerStep

(* A worker's step leaves the local variables of the others alone.         *)
LEMMA OthersSame ==
  ASSUME Types, NEW w \in Workers, WorkerStep(w), NEW v \in Workers, v /= w
  PROVE  /\ pc'[v] = pc[v] /\ request'[v] = request[v]
         /\ cursor'[v] = cursor[v] /\ prev'[v] = prev[v] /\ dst'[v] = dst[v]
<1> USE DEF Types, TypeOK, Goto, Finish, tableVars, lockVars, localVars
<1>1. pc'[v] = pc[v] /\ request'[v] = request[v]
  BY DEF WorkerStep, Acquire, Execute, Call, ReadLock, WriteLock, Unlock,
         Return, ReadHead, WalkOn, WalkOff, Collide, NewNode, LinkNode,
         GrowCount, CopyValue, Terminate, SetLength, FreeValue, SetValue,
         Unlink, FreeNode, ShrinkCount
<1>2. cursor'[v] = cursor[v] /\ prev'[v] = prev[v] /\ dst'[v] = dst[v]
  BY DEF WorkerStep, Acquire, Execute, Call, ReadLock, WriteLock, Unlock,
         Return, ReadHead, WalkOn, WalkOff, Collide, NewNode, LinkNode,
         GrowCount, CopyValue, Terminate, SetLength, FreeValue, SetValue,
         Unlink, FreeNode, ShrinkCount
<1> QED
  BY <1>1, <1>2

(* The steps of a worker that keep it inside, or outside, and its request. *)
Working(w) ==
  \/ ReadHead(w) \/ WalkOn(w) \/ WalkOff(w)
  \/ Collide(w) \/ NewNode(w) \/ LinkNode(w) \/ GrowCount(w)
  \/ CopyValue(w) \/ Terminate(w)
  \/ SetLength(w) \/ FreeValue(w) \/ SetValue(w)
  \/ Unlink(w) \/ FreeNode(w) \/ ShrinkCount(w)

LEMMA WorkingStays ==
  ASSUME Types, NEW w \in Workers, Working(w)
  PROVE  /\ Inside(w) /\ Inside(w)' /\ request' = request
         /\ UNCHANGED lockVars
<1> USE DEF Types, TypeOK, Goto, Finish, tableVars, lockVars, localVars
<1>1. /\ pc[w] \in {"head", "walk", "link", "grow", "nul", "free_value",
                    "set_value", "free_node", "shrink"}
      /\ pc'[w] \in {"walk", "link", "grow", "nul", "free_value",
                     "set_value", "free_node", "shrink", "unlock"}
      /\ request' = request
      /\ UNCHANGED lockVars
  BY DEF Working, ReadHead, WalkOn, WalkOff, Collide, NewNode, LinkNode,
         GrowCount, CopyValue, Terminate, SetLength, FreeValue, SetValue,
         Unlink, FreeNode, ShrinkCount
<1> QED
  BY <1>1 DEF Inside, Critical, Labels

LEMMA WorkingOperation ==
  ASSUME Types, Operations, NEW w \in Workers, Working(w)
  PROVE  pc'[w] \in DOMAIN OpAt => request'[w].op = OpAt[pc'[w]]
<1> USE DEF Types, TypeOK, Goto, Finish, tableVars, lockVars, localVars,
            Operations, OpAt
<1>1. CASE ReadHead(w) \/ WalkOn(w) \/ WalkOff(w) \/ Collide(w)
  BY <1>1 DEF ReadHead, WalkOn, WalkOff, Collide
<1>2. CASE NewNode(w) \/ LinkNode(w) \/ GrowCount(w)
  BY <1>2 DEF NewNode, LinkNode, GrowCount
<1>3. CASE CopyValue(w) \/ Terminate(w)
  BY <1>3 DEF CopyValue, Terminate
<1>4. CASE SetLength(w) \/ FreeValue(w) \/ SetValue(w)
  BY <1>4 DEF SetLength, FreeValue, SetValue
<1>5. CASE Unlink(w) \/ FreeNode(w) \/ ShrinkCount(w)
  BY <1>5 DEF Unlink, FreeNode, ShrinkCount
<1> QED
  BY <1>1, <1>2, <1>3, <1>4, <1>5 DEF Working

(* Every step keeps Operations, Holders and Exclusion.                     *)
LEMMA NextLock ==
  ASSUME TableInv, [Next]_vars
  PROVE  LockInv'
<1>t. Types /\ Operations /\ Holders /\ Exclusion
  BY DEF TableInv, LockInv
<1>n. Types'
  BY NextTypes
<1>1. ASSUME NEW w \in Workers, WorkerStep(w)
      PROVE  Operations' /\ Holders' /\ Exclusion'
  <2>o. \A v \in Workers : v /= w =>
          /\ pc'[v] = pc[v] /\ request'[v] = request[v]
          /\ Inside(v)' = Inside(v) /\ Bucket(v)' = Bucket(v)
          /\ Reads(v)' = Reads(v)
    BY <1>t, <1>1, OthersSame DEF Inside, Bucket, Reads
  <2>1. CASE Working(w)
    <3>1. /\ Inside(w) /\ Inside(w)' /\ request' = request
          /\ readers' = readers /\ writer' = writer
      BY <1>t, <2>1, WorkingStays DEF lockVars
    <3>2. Bucket(w)' = Bucket(w) /\ Reads(w)' = Reads(w)
      BY <3>1 DEF Bucket, Reads
    <3>3. Operations'
      BY <1>t, <2>o, <2>1, WorkingOperation DEF Operations
    <3>4. Holders'
      BY <1>t, <2>o, <3>1, <3>2 DEF Holders
    <3>5. Exclusion'
      BY <1>t, <2>o, <3>1, <3>2 DEF Exclusion
    <3> QED
      BY <3>3, <3>4, <3>5
  <2>2. CASE Call(w) \/ Return(w)
    <3>1. /\ ~Inside(w) /\ ~Inside(w)' /\ readers' = readers /\ writer' = writer
          /\ pc'[w] \notin DOMAIN OpAt
      BY <1>t, <2>2 DEF Call, Return, Goto, Inside, Critical, lockVars, Types,
                        OpAt
    <3>2. Operations'
      BY <1>t, <2>o, <3>1 DEF Operations
    <3>3. Holders'
      BY <1>t, <2>o, <3>1 DEF Holders
    <3>4. Exclusion'
      BY <1>t, <2>o, <3>1 DEF Exclusion
    <3> QED
      BY <3>2, <3>3, <3>4
  <2>3. CASE ReadLock(w)
    <3>b. Bucket(w) \in Buckets
      BY <1>t, <2>3, HasBucket DEF ReadLock
    <3>1. /\ ~Inside(w) /\ Inside(w)' /\ pc'[w] \notin DOMAIN OpAt /\ Reads(w)
          /\ request' = request /\ writer' = writer
          /\ writer[Bucket(w)] = {}
          /\ readers' = [readers EXCEPT ![Bucket(w)] = @ \cup {w}]
      BY <1>t, <2>3 DEF ReadLock, Goto, Inside, Critical, Labels, Reads,
                        Types, OpAt, FreeForReading, localVars
    <3>2. Bucket(w)' = Bucket(w) /\ Reads(w)'
      BY <3>1 DEF Bucket, Reads
    <3>3. Operations'
      BY <1>t, <2>o, <3>1 DEF Operations
    <3>4. Holders'
      BY <1>t, <2>o, <3>b, <3>1, <3>2 DEF Holders, Types, TypeOK
    <3>5. \A v \in Workers : Inside(v) /\ Bucket(v) = Bucket(w) => Reads(v)
      BY <1>t, <3>b, <3>1 DEF Holders
    <3>6. Exclusion'
      BY <1>t, <2>o, <3>1, <3>2, <3>5 DEF Exclusion
    <3> QED
      BY <3>3, <3>4, <3>6
  <2>4. CASE WriteLock(w)
    <3>b. Bucket(w) \in Buckets
      BY <1>t, <2>4, HasBucket DEF WriteLock
    <3>1. /\ ~Inside(w) /\ Inside(w)' /\ pc'[w] \notin DOMAIN OpAt /\ ~Reads(w)
          /\ request' = request /\ readers' = readers
          /\ writer[Bucket(w)] = {} /\ readers[Bucket(w)] = {}
          /\ writer' = [writer EXCEPT ![Bucket(w)] = {w}]
      BY <1>t, <2>4 DEF WriteLock, Goto, Inside, Critical, Labels, Reads,
                        Types, OpAt, FreeForWriting, localVars
    <3>2. Bucket(w)' = Bucket(w) /\ ~Reads(w)'
      BY <3>1 DEF Bucket, Reads
    <3>3. Operations'
      BY <1>t, <2>o, <3>1 DEF Operations
    <3>4. Holders'
      BY <1>t, <2>o, <3>b, <3>1, <3>2 DEF Holders, Types, TypeOK
    <3>5. \A v \in Workers : ~(Inside(v) /\ Bucket(v) = Bucket(w))
      BY <1>t, <3>b, <3>1 DEF Holders
    <3>6. Exclusion'
      BY <1>t, <2>o, <3>1, <3>2, <3>5 DEF Exclusion
    <3> QED
      BY <3>3, <3>4, <3>6
  <2>5. CASE Unlock(w)
    <3>b. Bucket(w) \in Buckets
      BY <1>t, <2>5, HasBucket DEF Unlock
    <3>1. /\ Inside(w) /\ ~Inside(w)' /\ pc'[w] \notin DOMAIN OpAt
          /\ request' = request
          /\ readers' = [readers EXCEPT ![Bucket(w)] = @ \ {w}]
          /\ writer' = [writer EXCEPT ![Bucket(w)] = @ \ {w}]
      BY <1>t, <2>5 DEF Unlock, Goto, Inside, Critical, Labels,
                        Types, OpAt, localVars
    <3>3. Operations'
      BY <1>t, <2>o, <3>1 DEF Operations
    <3>4. Holders'
      BY <1>t, <2>o, <3>b, <3>1 DEF Holders, Types, TypeOK
    <3>5. Exclusion'
      BY <1>t, <2>o, <3>1 DEF Exclusion
    <3> QED
      BY <3>3, <3>4, <3>5
  <2> QED
    BY <1>1, <2>1, <2>2, <2>3, <2>4, <2>5
       DEF WorkerStep, Acquire, Execute, Working
<1>2. CASE skvs_destroy \/ UNCHANGED vars
  <2>1. pc' = pc /\ request' = request /\ readers' = readers /\ writer' = writer
    BY <1>2 DEF skvs_destroy, vars, lockVars, localVars
  <2> QED
    BY <1>t, <1>n, <2>1
       DEF LockInv, Operations, Holders, Exclusion, Inside, Bucket, Reads
<1> QED
  BY <1>n, <1>1, <1>2 DEF Next, WorkerStep, LockInv

-----------------------------------------------------------------------------
(* What a step leaves alone.                                               *)

(* w holds b's lock for writing.                                           *)
Writes(w, b) == Inside(w) /\ Bucket(w) = b /\ ~Reads(w)

(* At every statement that changes a bucket or its nodes the lock is held. *)
LEMMA ChangersWrite ==
  ASSUME LockInv, NEW w \in Workers,
         \/ NewNode(w) \/ LinkNode(w) \/ GrowCount(w) \/ SetLength(w)
         \/ FreeValue(w) \/ SetValue(w) \/ Unlink(w) \/ FreeNode(w)
         \/ ShrinkCount(w)
  PROVE  Writes(w, Bucket(w))
<1>1. /\ pc[w] \in {"walk", "link", "grow", "free_value", "set_value",
                    "free_node", "shrink"}
      /\ request[w].op /= "search"
  BY DEF LockInv, Operations, OpAt, NewNode, LinkNode, GrowCount, SetLength,
         FreeValue, SetValue, Unlink, FreeNode, ShrinkCount
<1> QED
  BY <1>1 DEF Writes, Inside, Reads, Critical, Labels

(* A list stays as it is when its nodes keep their keys and successors.    *)
LEMMA ListKept ==
  ASSUME Types, Types', NEW b \in Buckets, ListOf(b),
         buckets'[b] = buckets[b],
         \A n \in InBucket(b) : /\ node'[n].next = node[n].next
                                /\ node'[n].key = node[n].key
                                /\ n \in allocated'
  PROVE  /\ InBucket(b)' = InBucket(b) /\ ListOf(b)'
         /\ \A n \in InBucket(b) \cup {Null} : Reach(node', n) = Reach(node, n)
<1>1. /\ Linked(node) /\ Linked(node')
      /\ buckets[b] \in Pointers
      /\ InBucket(b) = Reach(node, buckets[b])
      /\ InBucket(b) \subseteq Pointers
  BY NodesLinked, BucketFinite
     DEF Types, TypeOK, Linked, Pointers, NodeContents, Garbage, InBucket,
         Chain
<1>2. ASSUME NEW n \in InBucket(b) \cup {Null}
      PROVE  Reach(node', n) = Reach(node, n)
  <2>1. n \in Pointers /\ Reach(node, n) \subseteq InBucket(b)
    BY <1>1, ReachInside DEF Pointers
  <2> QED
    BY <1>1, <2>1, ReachSame
<1>3. Reach(node', buckets[b]) = Reach(node, buckets[b])
  BY <1>1, ReachSame
<1>4. InBucket(b)' = InBucket(b)
  BY <1>1, <1>3 DEF InBucket, Chain
<1>5. Acyclic(node', buckets[b])
  <2> SUFFICES ASSUME NEW n \in Reach(node', buckets[b])
               PROVE  n \notin Reach(node', node'[n].next)
    BY DEF Acyclic
  <2>1. n \in InBucket(b) /\ n \notin Reach(node, node[n].next)
    BY <1>1, <1>3 DEF ListOf, Acyclic
  <2>2. node[n].next \in InBucket(b) \cup {Null}
    BY <1>1, <2>1, ReachGoesOn
  <2> QED
    BY <1>2, <2>1, <2>2
<1>6. ListOf(b)'
  BY <1>4, <1>5 DEF ListOf
<1> QED
  BY <1>2, <1>4, <1>6

(* Who does not write a bucket leaves it as it is.                         *)
LEMMA Untouched ==
  ASSUME TableInv, NEW w \in Workers, WorkerStep(w),
         NEW b \in Buckets, ~Writes(w, b)
  PROVE  /\ buckets'[b] = buckets[b] /\ bucket_sizes'[b] = bucket_sizes[b]
         /\ \A n \in InBucket(b) : node'[n] = node[n] /\ n \in allocated'
<1>t. Types /\ LockInv /\ ListOf(b)
  BY DEF TableInv, LockInv
<1>a. InBucket(b) \subseteq allocated
  BY <1>t DEF ListOf
<1> USE DEF Goto, Finish, tableVars, lockVars, localVars
<1>0. CASE UNCHANGED <<buckets, bucket_sizes, node, allocated>>
  BY <1>0, <1>a
<1>1. CASE NewNode(w)
  BY <1>1, <1>a, <1>t DEF NewNode, Types, TypeOK
<1>2. CASE LinkNode(w) \/ GrowCount(w) \/ ShrinkCount(w)
  <2>1. Bucket(w) /= b
    BY <1>t, <1>2, ChangersWrite DEF Writes
  <2> QED
    BY <1>2, <2>1, <1>a, <1>t
       DEF LinkNode, GrowCount, ShrinkCount, Types, TypeOK
<1>3. CASE SetLength(w) \/ FreeValue(w) \/ SetValue(w)
  <2>1. Bucket(w) /= b
    BY <1>t, <1>3, ChangersWrite DEF Writes
  <2>2. Bucket(w) \in Buckets /\ cursor[w] \in InBucket(Bucket(w))
    BY <1>3, CursorAllocated DEF SetLength, FreeValue, SetValue, Found
  <2>3. cursor[w] \notin InBucket(b)
    BY <1>t, <2>1, <2>2, OneBucket DEF TableInv
  <2>4. \A n \in Nodes : n /= cursor[w] => node'[n] = node[n]
    BY <1>3, <1>t DEF SetLength, FreeValue, SetValue, Types, TypeOK
  <2>5. UNCHANGED <<buckets, bucket_sizes, allocated>>
    BY <1>3 DEF SetLength, FreeValue, SetValue
  <2> QED
    BY <1>a, <2>3, <2>4, <2>5, BucketFinite
<1>4. CASE Unlink(w)
  <2>1. Bucket(w) /= b
    BY <1>t, <1>4, ChangersWrite DEF Writes
  <2>2. Bucket(w) \in Buckets
    BY <1>4, CursorAllocated DEF Unlink, Found
  <2>3. prev[w] /= Null => prev[w] \in InBucket(Bucket(w))
    BY <1>4 DEF TableInv, Local, LocalAt, Unlink
  <2>4. prev[w] /= Null => prev[w] \notin InBucket(b)
    BY <1>t, <2>1, <2>2, <2>3, OneBucket DEF TableInv
  <2>5. \A n \in Nodes : (prev[w] = Null \/ n /= prev[w]) => node'[n] = node[n]
    BY <1>4, <1>t DEF Unlink, Types, TypeOK
  <2>6. buckets'[b] = buckets[b] /\ UNCHANGED <<bucket_sizes, allocated>>
    BY <1>4, <2>1, <1>t DEF Unlink, Types, TypeOK
  <2> QED
    BY <1>a, <2>4, <2>5, <2>6, BucketFinite
<1>5. CASE FreeNode(w)
  <2>1. cursor[w] \notin InBucket(b)
    BY <1>5 DEF TableInv, Owned, Owns, FreeNode
  <2>2. \A n \in Nodes : n /= cursor[w] => node'[n] = node[n]
    BY <1>5, <1>t DEF FreeNode, Types, TypeOK
  <2> QED
    BY <1>5, <1>a, <2>1, <2>2, BucketFinite DEF FreeNode
<1>6. CASE Call(w) \/ ReadLock(w) \/ WriteLock(w) \/ Unlock(w) \/ Return(w)
           \/ ReadHead(w) \/ WalkOn(w) \/ WalkOff(w) \/ Collide(w)
           \/ CopyValue(w) \/ Terminate(w)
  BY <1>0, <1>6 DEF Call, ReadLock, WriteLock, Unlock, Return, ReadHead,
    WalkOn, WalkOff, Collide, CopyValue, Terminate
<1> QED
  BY <1>1, <1>2, <1>3, <1>4, <1>5, <1>6 DEF WorkerStep, Acquire, Execute

LEMMA UntouchedList ==
  ASSUME TableInv, NEW w \in Workers, WorkerStep(w),
         NEW b \in Buckets, ~Writes(w, b)
  PROVE  /\ InBucket(b)' = InBucket(b) /\ ListOf(b)'
         /\ \A n \in InBucket(b) \cup {Null} : Reach(node', n) = Reach(node, n)
<1>1. Types /\ ListOf(b)
  BY DEF TableInv, LockInv
<1>2. Types'
  BY NextTypes DEF Next, WorkerStep
<1>3. /\ buckets'[b] = buckets[b]
      /\ \A n \in InBucket(b) : /\ node'[n].next = node[n].next
                                /\ node'[n].key = node[n].key
                                /\ n \in allocated'
  BY Untouched
<1> QED
  BY <1>1, <1>2, <1>3, ListKept

(* Nor does a step touch a node that another worker owns.                  *)
LEMMA OwnedSame ==
  ASSUME TableInv, NEW w \in Workers, WorkerStep(w),
         NEW v \in Workers, v /= w, Owns(v)
  PROVE  /\ cursor[v] \in allocated /\ cursor[v] \in allocated'
         /\ node'[cursor[v]] = node[cursor[v]]
<1>t. Types /\ Owned(v) /\ Owned(w)
  BY DEF TableInv, LockInv
<1>a. cursor[v] \in allocated /\ cursor[v] \in Nodes
  BY <1>t DEF Owned, Types, TypeOK
<1>i. \A b \in Buckets : cursor[v] \notin InBucket(b)
  BY <1>t DEF Owned
<1> USE DEF Goto, Finish, tableVars, lockVars, localVars
<1>0. CASE UNCHANGED <<node, allocated>>
  BY <1>0, <1>a
<1>1. CASE NewNode(w)
  BY <1>1, <1>a, <1>t DEF NewNode, Types, TypeOK
<1>2. CASE SetLength(w) \/ FreeValue(w) \/ SetValue(w)
  <2>1. Bucket(w) \in Buckets /\ cursor[w] \in InBucket(Bucket(w))
    BY <1>2, CursorAllocated DEF SetLength, FreeValue, SetValue, Found
  <2>2. \A n \in Nodes : n /= cursor[w] => node'[n] = node[n]
    BY <1>2, <1>t DEF SetLength, FreeValue, SetValue, Types, TypeOK
  <2>3. UNCHANGED allocated
    BY <1>2 DEF SetLength, FreeValue, SetValue
  <2> QED
    BY <1>a, <1>i, <2>1, <2>2, <2>3
<1>3. CASE Unlink(w)
  <2>1. Bucket(w) \in Buckets
    BY <1>3, CursorAllocated DEF Unlink, Found
  <2>2. prev[w] /= Null => prev[w] \in InBucket(Bucket(w))
    BY <1>3 DEF TableInv, Local, LocalAt, Unlink
  <2>3. \A n \in Nodes : (prev[w] = Null \/ n /= prev[w]) => node'[n] = node[n]
    BY <1>3, <1>t DEF Unlink, Types, TypeOK
  <2>4. UNCHANGED allocated
    BY <1>3 DEF Unlink
  <2> QED
    BY <1>a, <1>i, <2>1, <2>2, <2>3, <2>4
<1>4. CASE FreeNode(w)
  <2>1. cursor[v] /= cursor[w]
    BY <1>t, <1>4 DEF Owned, Owns, FreeNode
  <2> QED
    BY <1>4, <1>a, <1>t, <2>1 DEF FreeNode, Types, TypeOK
<1>5. CASE Call(w) \/ ReadLock(w) \/ WriteLock(w) \/ Unlock(w) \/ Return(w)
           \/ ReadHead(w) \/ WalkOn(w) \/ WalkOff(w) \/ Collide(w)
           \/ CopyValue(w) \/ Terminate(w) \/ LinkNode(w) \/ GrowCount(w)
           \/ ShrinkCount(w)
  BY <1>0, <1>5 DEF Call, ReadLock, WriteLock, Unlock, Return, ReadHead,
    WalkOn, WalkOff, Collide, CopyValue, Terminate, LinkNode, GrowCount,
    ShrinkCount
<1> QED
  BY <1>1, <1>2, <1>3, <1>4, <1>5 DEF WorkerStep, Acquire, Execute

(* Two workers are never inside one bucket when one of them writes it.     *)
LEMMA WritesAlone ==
  ASSUME LockInv, NEW v \in Workers, NEW w \in Workers, v /= w,
         NEW b \in Buckets, Writes(w, b), Inside(v)
  PROVE  Bucket(v) /= b
  BY DEF LockInv, Exclusion, Writes

(* What a worker knows of its bucket survives the steps of the others.     *)
LEMMA OthersLocal ==
  ASSUME TableInv, NEW w \in Workers, WorkerStep(w),
         NEW v \in Workers, v /= w
  PROVE  Local(v)'
<1>t. Types /\ LockInv /\ Local(v)
  BY DEF TableInv, LockInv
<1>s. /\ pc'[v] = pc[v] /\ request'[v] = request[v]
      /\ cursor'[v] = cursor[v] /\ prev'[v] = prev[v] /\ dst'[v] = dst[v]
  BY <1>t, OthersSame
<1>1. Bucket(v)' = Bucket(v)
  BY <1>s DEF Bucket
<1>2. CASE ~Inside(v)
  <2>1. pc[v] \in {"idle", "lock", "return"}
    BY <1>2, <1>t DEF Inside, Critical, Types
  <2> QED
    BY <1>t, <1>s, <2>1 DEF Local, LocalAt, Updating
<1>3. CASE Inside(v)
  <2> DEFINE B == Bucket(v)
  <2>b. PICK b \in Buckets : b = Bucket(v)
    BY <1>t, <1>3, HasBucket DEF Inside, Critical
  <2>1. ~Writes(w, b)
    BY <1>t, <1>3, <2>b, WritesAlone
  <2>2. /\ buckets'[b] = buckets[b]
        /\ \A n \in InBucket(b) : node'[n] = node[n] /\ n \in allocated'
    BY <2>1, Untouched
  <2>3. /\ InBucket(b)' = InBucket(b)
        /\ \A n \in InBucket(b) \cup {Null} : Reach(node', n) = Reach(node, n)
    BY <2>1, UntouchedList
  <2>4. Owns(v) => node'[cursor[v]] = node[cursor[v]]
    BY OwnedSame
  <2>5. LocalAt(v, b)
    BY <1>t, <2>b DEF Local
  <2>6. pc[v] = "walk" => Reach(node', cursor[v]) = Reach(node, cursor[v])
    BY <2>3, <2>5 DEF LocalAt
  <2>7. LocalAt(v, b)'
    <3>1. (pc[v] \in {"idle", "lock", "head"} =>
             cursor[v] = Null /\ prev[v] = Null /\ dst[v] = NoResult)'
      BY <1>s, <2>5 DEF LocalAt
    <3>2. (pc[v] = "walk" =>
             /\ dst[v] = NoResult
             /\ cursor[v] \in InBucket(b) \cup {Null}
             /\ \A n \in InBucket(b) \ Chain(cursor[v]) :
                  node[n].key /= request[v].key
             /\ \/ /\ prev[v] = Null
                   /\ request[v].op = "delete" => cursor[v] = buckets[b]
                \/ /\ request[v].op = "delete"
                   /\ prev[v] \in InBucket(b)
                   /\ node[prev[v]].next = cursor[v])'
      BY <1>s, <2>2, <2>3, <2>5, <2>6 DEF LocalAt, Chain
    <3>3. (pc[v] = "nul" =>
             /\ cursor[v] \in InBucket(b) /\ prev[v] = Null
             /\ dst[v] = [bytes |-> node[cursor[v]].value,
                          length |-> node[cursor[v]].value])'
      BY <1>s, <2>2, <2>3, <2>5 DEF LocalAt
    <3>4. (pc[v] = "link" =>
             /\ node[cursor[v]].next = buckets[b] /\ Whole(cursor[v])
             /\ node[cursor[v]].key = request[v].key
             /\ node[cursor[v]].value = request[v].value
             /\ \A n \in InBucket(b) : node[n].key /= request[v].key)'
      BY <1>s, <2>2, <2>3, <2>4, <2>5 DEF LocalAt, Owns, Whole
    <3>5. (Updating(v) =>
             /\ cursor[v] \in InBucket(b) /\ prev[v] = Null
             /\ node[cursor[v]].key = request[v].key
             /\ node[cursor[v]].value_size = request[v].value)'
      BY <1>s, <2>2, <2>3, <2>5 DEF LocalAt, Updating
    <3>6. (pc[v] = "free_node" => prev[v] \in InBucket(b) \cup {Null})'
      BY <1>s, <2>3, <2>5 DEF LocalAt
    <3>7. (dst[v] /= NoResult => dst[v].bytes = dst[v].length)'
      BY <1>s, <2>5 DEF LocalAt
    <3> QED
      BY <3>1, <3>2, <3>3, <3>4, <3>5, <3>6, <3>7 DEF LocalAt
  <2>8. Bucket(v)' = b
    BY <1>1, <2>b
  <2> QED
    BY <2>7, <2>8 DEF Local
<1> QED
  BY <1>2, <1>3

(* The worker that replaces a value writes the bucket of its node.         *)
LEMMA UpdaterWrites ==
  ASSUME TableInv, NEW v \in Workers, Updating(v),
         NEW b \in Buckets, cursor[v] \in InBucket(b)
  PROVE  Writes(v, b)
<1>1. /\ pc[v] \in {"free_value", "set_value"} /\ Bucket(v) \in Buckets
      /\ cursor[v] \in InBucket(Bucket(v))
  BY CursorAllocated DEF Updating
<1>2. Bucket(v) = b
  BY <1>1, OneBucket DEF TableInv
<1>3. ~Reads(v)
  BY <1>1 DEF TableInv, LockInv, Operations, OpAt, Reads
<1> QED
  BY <1>1, <1>2, <1>3 DEF Writes, Inside, Critical, Labels

LEMMA UntouchedValues ==
  ASSUME TableInv, NEW w \in Workers, WorkerStep(w),
         NEW b \in Buckets, ~Writes(w, b)
  PROVE  ValuesOf(b)'
<1>1. InBucket(b)' = InBucket(b) /\ ValuesOf(b) /\ Types
  BY UntouchedList DEF TableInv, LockInv
<1>2. SUFFICES ASSUME NEW n \in InBucket(b)
               PROVE  \/ Whole(n)'
                      \/ \E v \in Workers : (Updating(v) /\ cursor[v] = n)'
  BY <1>1 DEF ValuesOf
<1>3. node'[n] = node[n]
  BY Untouched
<1>4. CASE Whole(n)
  BY <1>3, <1>4 DEF Whole
<1>5. ASSUME NEW v \in Workers, Updating(v), cursor[v] = n
      PROVE  (Updating(v) /\ cursor[v] = n)'
  <2>1. v /= w
    BY <1>5, UpdaterWrites
  <2> QED
    BY <1>1, <1>5, <2>1, OthersSame DEF Updating
<1> QED
  BY <1>1, <1>4, <1>5 DEF ValuesOf

LEMMA LateIs ==
  ASSUME LockInv, NEW w \in Workers
  PROVE  /\ Late(w) \in {-1, 0, 1}
         /\ Late(w) = 1 <=> pc[w] = "grow"
         /\ Late(w) = -1 <=> pc[w] \in {"free_node", "shrink"}
         /\ Late(w) /= 0 => ~Reads(w) /\ Inside(w)
<1>1. CASE pc[w] = "grow"
  BY <1>1 DEF Late, LockInv, Operations, OpAt, Reads, Inside, Critical, Labels
<1>2. CASE pc[w] \in {"free_node", "shrink"}
  BY <1>2 DEF Late, LockInv, Operations, OpAt, Reads, Inside, Critical, Labels
<1>3. CASE pc[w] \notin {"grow", "free_node", "shrink"}
  BY <1>3 DEF Late
<1> QED
  BY <1>1, <1>2, <1>3

(* While somebody writes a bucket, his counter is all that CountOf says.   *)
LEMMA CountWritten ==
  ASSUME LockInv, NEW w \in Workers, NEW b \in Buckets, Writes(w, b),
         CountOf(b)
  PROVE  bucket_sizes[b] + Late(w) = Cardinality(InBucket(b))
  BY DEF CountOf, Writes

LEMMA UntouchedCount ==
  ASSUME TableInv, NEW w \in Workers, WorkerStep(w),
         NEW b \in Buckets, ~Writes(w, b)
  PROVE  CountOf(b)'
<1>t. Types /\ LockInv /\ CountOf(b)
  BY DEF TableInv, LockInv
<1>1. /\ InBucket(b)' = InBucket(b) /\ bucket_sizes'[b] = bucket_sizes[b]
      /\ bucket_sizes[b] \in Nat
  BY <1>t, Untouched, UntouchedList DEF Types, TypeOK
<1>o. \A v \in Workers : v /= w =>
        /\ Inside(v)' = Inside(v) /\ Bucket(v)' = Bucket(v)
        /\ Reads(v)' = Reads(v) /\ Late(v)' = Late(v)
  BY <1>t, OthersSame DEF Inside, Bucket, Reads, Late
<1>2. Inside(w) /\ Bucket(w) = b => Late(w) = 0
  BY <1>t, LateIs DEF Writes
<1>3. ASSUME \A v \in Workers :
               (Inside(v) /\ Bucket(v) = b => Late(v) = 0)'
      PROVE  \A v \in Workers : Inside(v) /\ Bucket(v) = b => Late(v) = 0
  BY <1>2, <1>3, <1>o
<1>4. ASSUME Writes(w, b)'
      PROVE  /\ Late(w)' = 0
             /\ \A v \in Workers : ~(Inside(v) /\ Bucket(v) = b)
  <2>1. ~Working(w)
    <3>1. SUFFICES ASSUME Working(w) PROVE Writes(w, b)
      OBVIOUS
    <3>2. Inside(w) /\ request' = request
      BY <1>t, <3>1, WorkingStays
    <3> QED
      BY <1>4, <3>2 DEF Writes, Bucket, Reads
  <2>2. pc'[w] \notin {"idle", "lock", "return"}
    BY <1>4 DEF Writes, Inside, Critical
  <2>3. ReadLock(w) \/ WriteLock(w)
    BY <1>t, <2>1, <2>2 DEF WorkerStep, Acquire, Execute, Working, Call,
       Unlock, Return, Goto, Types
  <2>4. WriteLock(w)
    BY <1>4, <2>3 DEF ReadLock, Writes, Reads, localVars
  <2>5. pc'[w] = "head" /\ Bucket(w) = b
    BY <1>4, <1>t, <2>4 DEF WriteLock, Goto, Types, Writes, Bucket, localVars
  <2>6. readers[b] = {} /\ writer[b] = {}
    BY <2>4, <2>5 DEF WriteLock, FreeForWriting
  <2>7. \A v \in Workers : ~(Inside(v) /\ Bucket(v) = b)
    BY <1>t, <2>6 DEF LockInv, Holders
  <2> QED
    BY <2>5, <2>7 DEF Late
<1>5. (\A v \in Workers : Inside(v)' /\ Bucket(v)' = b => Late(v)' = 0) =>
        bucket_sizes'[b] = Cardinality(InBucket(b)')
  BY <1>t, <1>1, <1>3 DEF CountOf
<1>6. ASSUME NEW v \in Workers, Inside(v)', Bucket(v)' = b, ~Reads(v)'
      PROVE  bucket_sizes'[b] + Late(v)' = Cardinality(InBucket(b)')
  <2>1. CASE v /= w
    BY <1>t, <1>1, <1>o, <1>6, <2>1 DEF CountOf
  <2>2. CASE v = w
    <3>1. Writes(w, b)'
      BY <1>6, <2>2 DEF Writes
    <3>2. bucket_sizes[b] = Cardinality(InBucket(b))
      BY <1>t, <1>4, <3>1 DEF CountOf
    <3> QED
      BY <1>1, <1>4, <2>2, <3>1, <3>2
  <2> QED
    BY <2>1, <2>2
<1> QED
  BY <1>5, <1>6 DEF CountOf

(* For the bucket that the worker of the step writes: what is left to show *)
(* of its counter.                                                         *)
LEMMA WrittenCount ==
  ASSUME TableInv, LockInv', NEW w \in Workers, WorkerStep(w),
         NEW b \in Buckets, Writes(w, b), Bucket(w)' = b,
         bucket_sizes'[b] + Late(w)' = Cardinality(InBucket(b)')
  PROVE  CountOf(b)'
<1>t. Types /\ LockInv /\ Types'
  BY DEF TableInv, LockInv
<1>s. bucket_sizes'[b] \in Nat
  BY <1>t DEF Types, TypeOK
<1>1. \A v \in Workers : v /= w => ~(Inside(v)' /\ Bucket(v)' = b)
  <2>1. \A v \in Workers : v /= w =>
          Inside(v)' = Inside(v) /\ Bucket(v)' = Bucket(v)
    BY <1>t, OthersSame DEF Inside, Bucket
  <2> QED
    BY <1>t, <2>1, WritesAlone
<1>2. ~Inside(w)' => Late(w)' = 0
  BY <1>t DEF Inside, Critical, Late, Types
<1>3. (\A v \in Workers : Inside(v)' /\ Bucket(v)' = b => Late(v)' = 0) =>
        bucket_sizes'[b] = Cardinality(InBucket(b)')
  BY <1>2, <1>s
<1>4. \A v \in Workers : Inside(v)' /\ Bucket(v)' = b /\ ~Reads(v)' =>
        bucket_sizes'[b] + Late(v)' = Cardinality(InBucket(b)')
  BY <1>1
<1> QED
  BY <1>3, <1>4 DEF CountOf

-----------------------------------------------------------------------------
(* The steps that leave the lists as they are: all but link and unlink.    *)

LEMMA SteadyNodes ==
  ASSUME TableInv, NEW w \in Workers, WorkerStep(w),
         ~LinkNode(w), ~Unlink(w), NEW b \in Buckets
  PROVE  /\ buckets'[b] = buckets[b]
         /\ \A n \in InBucket(b) : /\ node'[n].next = node[n].next
                                   /\ node'[n].key = node[n].key
                                   /\ n \in allocated'
<1>t. Types /\ LockInv /\ ListOf(b)
  BY DEF TableInv, LockInv
<1>a. InBucket(b) \subseteq allocated /\ InBucket(b) \subseteq Nodes
  BY <1>t, BucketFinite DEF ListOf
<1> USE DEF Goto, Finish, tableVars, lockVars, localVars
<1>0. CASE UNCHANGED <<buckets, node, allocated>>
  BY <1>0, <1>a
<1>1. CASE NewNode(w)
  BY <1>1, <1>a, <1>t DEF NewNode, Types, TypeOK
<1>2. CASE SetLength(w) \/ FreeValue(w) \/ SetValue(w)
  <2>1. cursor[w] \in Nodes /\ node[cursor[w]] \in NodeContents
    BY <1>2, CursorAllocated DEF SetLength, FreeValue, SetValue, Found
  <2>2. \A n \in Nodes :
          node'[n].next = node[n].next /\ node'[n].key = node[n].key
    <3>1. CASE SetLength(w)
      BY <1>t, <2>1, <3>1 DEF SetLength, Types, TypeOK, NodeContents
    <3>2. CASE FreeValue(w)
      BY <1>t, <2>1, <3>2 DEF FreeValue, Types, TypeOK, NodeContents
    <3>3. CASE SetValue(w)
      BY <1>t, <2>1, <3>3 DEF SetValue, Types, TypeOK, NodeContents
    <3> QED
      BY <1>2, <3>1, <3>2, <3>3
  <2>3. UNCHANGED <<buckets, allocated>>
    BY <1>2 DEF SetLength, FreeValue, SetValue
  <2> QED
    BY <1>a, <2>2, <2>3
<1>3. CASE FreeNode(w)
  <2>1. cursor[w] \notin InBucket(b)
    BY <1>3 DEF TableInv, Owned, Owns, FreeNode
  <2>2. \A n \in Nodes : n /= cursor[w] => node'[n] = node[n]
    BY <1>3, <1>t DEF FreeNode, Types, TypeOK
  <2> QED
    BY <1>3, <1>a, <2>1, <2>2 DEF FreeNode
<1>4. CASE Call(w) \/ ReadLock(w) \/ WriteLock(w) \/ Unlock(w) \/ Return(w)
           \/ ReadHead(w) \/ WalkOn(w) \/ WalkOff(w) \/ Collide(w)
           \/ CopyValue(w) \/ Terminate(w) \/ GrowCount(w) \/ ShrinkCount(w)
  BY <1>0, <1>4 DEF Call, ReadLock, WriteLock, Unlock, Return, ReadHead,
    WalkOn, WalkOff, Collide, CopyValue, Terminate, GrowCount, ShrinkCount
<1> QED
  BY <1>1, <1>2, <1>3, <1>4 DEF WorkerStep, Acquire, Execute

LEMMA SteadyList ==
  ASSUME TableInv, NEW w \in Workers, WorkerStep(w),
         ~LinkNode(w), ~Unlink(w), NEW b \in Buckets
  PROVE  /\ InBucket(b)' = InBucket(b) /\ ListOf(b)'
         /\ \A n \in InBucket(b) \cup {Null} : Reach(node', n) = Reach(node, n)
<1>1. Types /\ ListOf(b)
  BY DEF TableInv, LockInv
<1>2. Types'
  BY NextTypes DEF Next, WorkerStep
<1> QED
  BY <1>1, <1>2, SteadyNodes, ListKept

(* Whoever else replaces a value does it in another bucket.                *)
LEMMA OwnUpdater ==
  ASSUME TableInv, NEW w \in Workers, NEW b \in Buckets, Writes(w, b),
         NEW n \in InBucket(b), ~(Updating(w) /\ cursor[w] = n)
  PROVE  Whole(n)
<1>1. ASSUME NEW v \in Workers, Updating(v), cursor[v] = n, v /= w PROVE FALSE
  <2>1. Writes(v, b)
    BY <1>1, UpdaterWrites
  <2> QED
    BY <1>1, <2>1, WritesAlone DEF Writes, TableInv
<1> QED
  BY <1>1 DEF TableInv, ValuesOf

LEMMA SteadyValues ==
  ASSUME TableInv, NEW w \in Workers, WorkerStep(w),
         ~LinkNode(w), ~Unlink(w), NEW b \in Buckets, Writes(w, b)
  PROVE  ValuesOf(b)'
<1>t. Types /\ LockInv /\ ListOf(b) /\ Local(w) /\ Owned(w)
  BY DEF TableInv, LockInv
<1>b. Bucket(w) = b /\ LocalAt(w, b)
  BY <1>t DEF Writes, Local
<1>a. InBucket(b) \subseteq allocated /\ InBucket(b) \subseteq Nodes
  BY <1>t, BucketFinite DEF ListOf
<1>1. InBucket(b)' = InBucket(b)
  BY SteadyList
<1> SUFFICES ASSUME NEW n \in InBucket(b)
             PROVE  \/ Whole(n)'
                    \/ (Updating(w) /\ cursor[w] = n)'
  BY <1>1 DEF ValuesOf
<1>2. ~(Updating(w) /\ cursor[w] = n) => Whole(n)
  BY OwnUpdater
<1> USE DEF Goto, Finish, tableVars, lockVars, localVars
<1>3. CASE node'[n] = node[n] /\ ~(Updating(w) /\ cursor[w] = n)
  BY <1>2, <1>3 DEF Whole
<1>4. CASE NewNode(w)
  <2>1. node'[n] = node[n]
    BY <1>t, <1>a, <1>4 DEF NewNode, Types, TypeOK
  <2> QED
    BY <1>3, <1>4, <2>1 DEF NewNode, Updating
<1>5. CASE FreeNode(w)
  <2>1. n /= cursor[w]
    BY <1>t, <1>5 DEF Owned, Owns, FreeNode
  <2>2. node'[n] = node[n]
    BY <1>t, <1>a, <1>5, <2>1 DEF FreeNode, Types, TypeOK
  <2> QED
    BY <1>3, <1>5, <2>2 DEF FreeNode, Updating
<1>6. CASE SetLength(w) \/ FreeValue(w)
  <2>1. n /= cursor[w] => node'[n] = node[n] /\ Whole(n)
    BY <1>t, <1>a, <1>2, <1>6 DEF SetLength, FreeValue, Types, TypeOK
  <2>2. Updating(w)' /\ cursor'[w] = cursor[w]
    BY <1>t, <1>6 DEF SetLength, FreeValue, Updating, Types
  <2> QED
    BY <2>1, <2>2 DEF Whole
<1>7. CASE SetValue(w)
  <2>1. n /= cursor[w] => node'[n] = node[n] /\ Whole(n)
    BY <1>t, <1>a, <1>2, <1>7 DEF SetValue, Types, TypeOK
  <2>2. CASE n = cursor[w]
    <3>1. node[n] \in NodeContents /\ node[n].value_size = request[w].value
      BY <1>t, <1>a, <1>b, <1>7, <2>2
         DEF SetValue, Types, LocalAt, Updating
    <3>2. /\ node'[n].value = request[w].value /\ node'[n].value_live = TRUE
          /\ node'[n].value_size = node[n].value_size
      BY <1>t, <1>a, <1>7, <2>2, <3>1
         DEF SetValue, Types, TypeOK, NodeContents
    <3> QED
      BY <3>1, <3>2 DEF Whole
  <2> QED
    BY <2>1, <2>2 DEF Whole
<1>8. CASE Unlock(w) \/ ReadHead(w) \/ WalkOn(w) \/ WalkOff(w) \/ Collide(w)
           \/ GrowCount(w) \/ ShrinkCount(w) \/ CopyValue(w) \/ Terminate(w)
  <2>1. node' = node /\ ~Updating(w)
    BY <1>8 DEF Unlock, ReadHead, WalkOn, WalkOff, Collide, GrowCount,
       ShrinkCount, CopyValue, Terminate, Updating
  <2> QED
    BY <1>2, <2>1 DEF Whole
<1>9. CASE Call(w) \/ ReadLock(w) \/ WriteLock(w) \/ Return(w)
  BY <1>9 DEF Writes, Inside, Critical, Call, ReadLock, WriteLock, Return
<1> QED
  BY <1>4, <1>5, <1>6, <1>7, <1>8, <1>9 DEF WorkerStep, Acquire, Execute

LEMMA SteadyCount ==
  ASSUME TableInv, NEW w \in Workers, WorkerStep(w),
         ~LinkNode(w), ~Unlink(w), NEW b \in Buckets, Writes(w, b)
  PROVE  CountOf(b)'
<1>t. Types /\ LockInv /\ CountOf(b)
  BY DEF TableInv, LockInv
<1>n. LockInv'
  BY NextLock DEF Next, WorkerStep
<1>1. InBucket(b)' = InBucket(b)
  BY SteadyList
<1>2. /\ bucket_sizes[b] \in Nat /\ Bucket(w) = b
      /\ bucket_sizes[b] + Late(w) = Cardinality(InBucket(b))
  BY <1>t, CountWritten DEF Types, TypeOK, Writes
<1> USE DEF Goto, Finish, tableVars, lockVars, localVars
<1>3. ~(Call(w) \/ ReadLock(w) \/ WriteLock(w) \/ Return(w))
  BY DEF Writes, Inside, Critical, Call, ReadLock, WriteLock, Return
<1>4. request' = request
  BY <1>t, <1>3, WorkingStays
     DEF WorkerStep, Acquire, Execute, Working, Unlock
<1>5. bucket_sizes'[b] + Late(w)' = Cardinality(InBucket(b))
  <2>1. CASE GrowCount(w)
    <3>1. Late(w) = 1 /\ Late(w)' = 0
      BY <1>t, <2>1 DEF GrowCount, Late, Types
    <3>2. bucket_sizes'[b] = bucket_sizes[b] + 1
      BY <1>t, <1>2, <2>1 DEF GrowCount, Types, TypeOK
    <3> QED
      BY <1>2, <3>1, <3>2
  <2>2. CASE ShrinkCount(w)
    <3>1. Late(w) = -1 /\ Late(w)' = 0
      BY <1>t, <2>2 DEF ShrinkCount, Late, Types
    <3>2. bucket_sizes'[b] = bucket_sizes[b] - 1
      BY <1>t, <1>2, <2>2 DEF ShrinkCount, Types, TypeOK
    <3> QED
      BY <1>2, <3>1, <3>2
  <2>3. CASE FreeNode(w)
    <3>1. Late(w) = -1 /\ Late(w)' = -1
      BY <1>t, <2>3 DEF FreeNode, Late, Types
    <3>2. bucket_sizes' = bucket_sizes
      BY <2>3 DEF FreeNode
    <3> QED
      BY <1>2, <3>1, <3>2
  <2>4. CASE Unlock(w) \/ ReadHead(w) \/ WalkOn(w) \/ WalkOff(w)
             \/ Collide(w) \/ CopyValue(w) \/ Terminate(w) \/ NewNode(w)
             \/ SetLength(w) \/ FreeValue(w) \/ SetValue(w)
    <3>1. /\ pc[w] \notin {"grow", "free_node", "shrink"}
          /\ pc'[w] \notin {"grow", "free_node", "shrink"}
          /\ bucket_sizes' = bucket_sizes
      BY <1>t, <2>4 DEF Unlock, ReadHead, WalkOn, WalkOff, Collide, CopyValue,
         Terminate, NewNode, SetLength, FreeValue, SetValue, Types
    <3>2. Late(w) = 0 /\ Late(w)' = 0
      BY <3>1 DEF Late
    <3> QED
      BY <1>2, <3>1, <3>2
  <2> QED
    BY <1>3, <2>1, <2>2, <2>3, <2>4 DEF WorkerStep, Acquire, Execute
<1>6. Bucket(w)' = b
  BY <1>2, <1>4 DEF Bucket
<1> QED
  BY <1>n, <1>1, <1>5, <1>6, WrittenCount

-----------------------------------------------------------------------------
(* The two steps that change a list.                                       *)

LEMMA LinkList ==
  ASSUME TableInv, NEW w \in Workers, LinkNode(w),
         NEW b \in Buckets, Bucket(w) = b
  PROVE  /\ InBucket(b)' = InBucket(b) \cup {cursor[w]}
         /\ cursor[w] \notin InBucket(b)
         /\ ListOf(b)' /\ ValuesOf(b)' /\ CountOf(b)'
<1>t. Types /\ LockInv /\ ListOf(b) /\ Local(w) /\ Owned(w) /\ CountOf(b)
  BY DEF TableInv, LockInv
<1>w. WorkerStep(w) /\ Writes(w, b)
  BY <1>t, ChangersWrite DEF WorkerStep, Execute
<1>n. LockInv'
  BY <1>w, NextLock DEF Next, WorkerStep
<1>1. PICK c \in Nodes : c = cursor[w]
  BY CursorAllocated DEF LinkNode
<1>2. /\ c \in allocated /\ c \notin InBucket(b)
      /\ node[c].next = buckets[b] /\ Whole(c)
      /\ hash[node[c].key] = b
      /\ \A n \in InBucket(b) : node[n].key /= node[c].key
  <2>1. LocalAt(w, b)
    BY <1>t DEF Local
  <2>2. pc[w] = "link"
    BY DEF LinkNode
  <2>3. hash[request[w].key] = b
    BY DEF Bucket
  <2>4. /\ node[c].next = buckets[b] /\ Whole(c)
        /\ node[c].key = request[w].key
        /\ \A n \in InBucket(b) : node[n].key /= request[w].key
    BY <1>1, <2>1, <2>2 DEF LocalAt
  <2>5. c \in allocated /\ c \notin InBucket(b)
    BY <1>t, <1>1, <2>2 DEF Owned, Owns
  <2> QED
    BY <2>3, <2>4, <2>5
<1>3. /\ buckets'[b] = c /\ node' = node /\ allocated' = allocated
      /\ bucket_sizes' = bucket_sizes /\ request' = request
      /\ pc[w] = "link" /\ pc'[w] = "grow"
  BY <1>t, <1>1 DEF LinkNode, Finish, Goto, Types, TypeOK, lockVars
<1>4. InBucket(b)' = {c} \cup InBucket(b)
  <2>1. Reach(node, c) = {c} \cup Reach(node, buckets[b])
    BY <1>t, <1>2, NodesLinked, ReachStep
  <2> QED
    BY <1>3, <2>1 DEF InBucket, Chain
<1>5. ListOf(b)'
  <2>1. Acyclic(node', c)
    <3>1. \A n \in InBucket(b) : n \notin Reach(node, node[n].next)
      BY <1>t DEF ListOf, Acyclic, InBucket, Chain
    <3>2. c \notin Reach(node, node[c].next)
      BY <1>2 DEF InBucket, Chain
    <3>3. Reach(node, c) = {c} \cup InBucket(b)
      BY <1>3, <1>4 DEF InBucket, Chain
    <3> QED
      BY <1>3, <3>1, <3>2, <3>3 DEF Acyclic
  <2>2. InBucket(b)' \subseteq allocated'
    BY <1>t, <1>2, <1>3, <1>4 DEF ListOf
  <2>3. \A n \in InBucket(b)' : hash[node'[n].key] = b
    BY <1>t, <1>2, <1>3, <1>4 DEF ListOf
  <2>4. \A m, n \in InBucket(b)' : node'[m].key = node'[n].key => m = n
    BY <1>t, <1>2, <1>3, <1>4 DEF ListOf
  <2> QED
    BY <1>3, <2>1, <2>2, <2>3, <2>4 DEF ListOf
<1>6. ValuesOf(b)'
  <2>1. \A n \in InBucket(b) : Whole(n)
    BY <1>w, <1>3, OwnUpdater DEF Updating
  <2> QED
    BY <1>2, <1>3, <1>4, <2>1 DEF ValuesOf, Whole
<1>7. CountOf(b)'
  <2>1. Late(w) = 0 /\ Late(w)' = 1
    BY <1>3 DEF Late
  <2>2. bucket_sizes[b] + Late(w) = Cardinality(InBucket(b))
    BY <1>t, <1>w, CountWritten
  <2>3. Cardinality(InBucket(b) \cup {c}) = Cardinality(InBucket(b)) + 1
    BY <1>2, BucketFinite, FS_AddElement
  <2>4. bucket_sizes[b] \in Nat
    BY <1>t DEF Types, TypeOK
  <2>5. InBucket(b)' = InBucket(b) \cup {c}
    BY <1>4
  <2>6. bucket_sizes'[b] + Late(w)' = Cardinality(InBucket(b)')
    BY <1>3, <2>1, <2>2, <2>3, <2>4, <2>5
  <2>7. Bucket(w)' = b
    BY <1>3 DEF Bucket
  <2> QED
    BY <1>n, <1>w, <2>6, <2>7, WrittenCount
<1> QED
  BY <1>1, <1>2, <1>4, <1>5, <1>6, <1>7

LEMMA UnlinkList ==
  ASSUME TableInv, NEW w \in Workers, Unlink(w),
         NEW b \in Buckets, Bucket(w) = b
  PROVE  /\ InBucket(b)' = InBucket(b) \ {cursor[w]}
         /\ cursor[w] \in InBucket(b)
         /\ ListOf(b)' /\ ValuesOf(b)' /\ CountOf(b)'
<1>t. Types /\ LockInv /\ ListOf(b) /\ LocalAt(w, b) /\ CountOf(b)
  BY DEF TableInv, LockInv, Local
<1>w. WorkerStep(w) /\ Writes(w, b)
  BY <1>t, ChangersWrite DEF WorkerStep, Execute
<1>n. LockInv' /\ Types'
  BY <1>w, NextLock DEF Next, WorkerStep, LockInv
<1>1. PICK c \in Nodes : c = cursor[w]
  BY CursorAllocated DEF Unlink, Found
<1>2. c \in InBucket(b)
  BY <1>1, CursorAllocated DEF Unlink, Found
<1>l. /\ Linked(node) /\ Linked(node') /\ buckets[b] \in Pointers
      /\ Acyclic(node, buckets[b]) /\ InBucket(b) = Reach(node, buckets[b])
      /\ InBucket(b) \subseteq Nodes /\ node[c].next \in Pointers
  BY <1>t, <1>n, NodesLinked, BucketFinite
     DEF Types, TypeOK, Linked, Pointers, NodeContents, Garbage, InBucket,
         Chain, ListOf
<1>3. /\ allocated' = allocated /\ bucket_sizes' = bucket_sizes
      /\ request' = request /\ pc[w] = "walk" /\ pc'[w] = "free_node"
  BY <1>t DEF Unlink, Finish, Goto, Types, TypeOK, lockVars
<1>4. \A n \in InBucket(b) :
        /\ node'[n].key = node[n].key /\ node'[n].value = node[n].value
        /\ node'[n].value_size = node[n].value_size
        /\ node'[n].value_live = node[n].value_live
  <2>1. CASE node' = node
    BY <2>1
  <2>2. CASE node' = [node EXCEPT ![prev[w]].next = node[cursor[w]].next]
    <3>1. \A n \in InBucket(b) : node[n] \in NodeContents /\ n \in Nodes
      BY <1>t, <1>l DEF ListOf, Types
    <3> QED
      BY <1>t, <2>2, <3>1 DEF Types, TypeOK, NodeContents
  <2> QED
    BY <2>1, <2>2 DEF Unlink
<1>5. InBucket(b)' = InBucket(b) \ {c} /\ Acyclic(node', buckets'[b])
  <2>1. CASE prev[w] = Null
    <3>1. c = buckets[b]
      BY <1>t, <1>1, <1>2, <1>l, <2>1, NullAssumption DEF LocalAt, Unlink
    <3>2. node' = node /\ buckets'[b] = node[c].next
      BY <1>t, <1>1, <2>1 DEF Unlink, Types, TypeOK
    <3>3. /\ Reach(node, c) = {c} \cup Reach(node, node[c].next)
          /\ c \notin Reach(node, node[c].next)
      BY <1>2, <1>l, ReachStep DEF Acyclic
    <3>4. InBucket(b)' = Reach(node, node[c].next)
      BY <3>2 DEF InBucket, Chain
    <3>5. Acyclic(node, node[c].next)
      BY <1>l, <3>1, <3>3 DEF Acyclic
    <3> QED
      BY <1>l, <3>1, <3>2, <3>3, <3>4, <3>5
  <2>2. CASE prev[w] /= Null
    <3>1. PICK m \in InBucket(b) : m = prev[w] /\ node[m].next = c
      BY <1>t, <1>1, <2>2 DEF LocalAt, Unlink
    <3>2. buckets' = buckets
      BY <2>2 DEF Unlink
    <3>3. node' = [node EXCEPT ![m].next = node[c].next]
      BY <1>1, <2>2, <3>1 DEF Unlink
    <3>4. node[m] \in NodeContents /\ m \in Nodes
      BY <1>t, <1>l DEF ListOf, Types
    <3>5. node'[m].next = node[c].next
      BY <1>t, <3>3, <3>4 DEF Types, TypeOK, NodeContents
    <3>6. \A n \in Nodes : n /= m => node'[n].next = node[n].next
      BY <1>t, <3>3 DEF Types, TypeOK
    <3>7. c /= Null /\ c = node[m].next
      BY <3>1, NullAssumption
    <3>8. /\ Reach(node', buckets[b]) = Reach(node, buckets[b]) \ {c}
          /\ Acyclic(node', buckets[b])
      BY <1>l, <3>5, <3>6, <3>7, UnlinkInside
    <3> QED
      BY <1>l, <3>2, <3>8 DEF InBucket, Chain
  <2> QED
    BY <2>1, <2>2
<1>6. ListOf(b)'
  BY <1>t, <1>3, <1>4, <1>5 DEF ListOf
<1>7. ValuesOf(b)'
  <2>1. \A n \in InBucket(b) : Whole(n)
    BY <1>w, <1>3, OwnUpdater DEF Updating
  <2> QED
    BY <1>4, <1>5, <2>1 DEF ValuesOf, Whole
<1>8. CountOf(b)'
  <2>1. Late(w) = 0 /\ Late(w)' = -1
    BY <1>3 DEF Late
  <2>2. bucket_sizes[b] + Late(w) = Cardinality(InBucket(b))
    BY <1>t, <1>w, CountWritten
  <2>3. Cardinality(InBucket(b) \ {c}) = Cardinality(InBucket(b)) - 1
    BY <1>2, BucketFinite, FS_RemoveElement
  <2>4. bucket_sizes[b] \in Nat
    BY <1>t DEF Types, TypeOK
  <2>6. bucket_sizes'[b] + Late(w)' = Cardinality(InBucket(b)')
    BY <1>3, <1>5, <2>1, <2>2, <2>3, <2>4
  <2>7. Bucket(w)' = b
    BY <1>3 DEF Bucket
  <2> QED
    BY <1>n, <1>w, <2>6, <2>7, WrittenCount
<1> QED
  BY <1>1, <1>2, <1>5, <1>6, <1>7, <1>8

(* A worker's step keeps every bucket in order.                            *)
LEMMA NextBuckets ==
  ASSUME TableInv, NEW w \in Workers, WorkerStep(w), NEW b \in Buckets
  PROVE  ListOf(b)' /\ ValuesOf(b)' /\ CountOf(b)'
<1>1. CASE ~Writes(w, b)
  BY <1>1, UntouchedList, UntouchedValues, UntouchedCount
<1>2. CASE Writes(w, b)
  <2>1. Bucket(w) = b
    BY <1>2 DEF Writes
  <2>2. CASE LinkNode(w)
    BY <2>1, <2>2, LinkList
  <2>3. CASE Unlink(w)
    BY <2>1, <2>3, UnlinkList
  <2>4. CASE ~LinkNode(w) /\ ~Unlink(w)
    BY <1>2, <2>4, SteadyList, SteadyValues, SteadyCount
  <2> QED
    BY <2>2, <2>3, <2>4
<1> QED
  BY <1>1, <1>2

-----------------------------------------------------------------------------
(* The local variables of the worker of the step.                          *)

(* A node on which a worker stands is whole unless it replaces the value.  *)
LEMMA StandsOnWhole ==
  ASSUME TableInv, NEW w \in Workers, ~Updating(w),
         Inside(w), NEW b \in Buckets, Bucket(w) = b,
         NEW n \in InBucket(b)
  PROVE  Whole(n)
<1>1. ASSUME NEW v \in Workers, Updating(v), cursor[v] = n PROVE FALSE
  <2>1. Writes(v, b)
    BY <1>1, UpdaterWrites
  <2> QED
    BY <1>1, <2>1, WritesAlone DEF TableInv
<1> QED
  BY <1>1 DEF TableInv, ValuesOf

LEMMA MyLocalOutside ==
  ASSUME TableInv, NEW w \in Workers,
         \/ Call(w) \/ ReadLock(w) \/ WriteLock(w) \/ Unlock(w) \/ Return(w)
         \/ WalkOff(w) \/ Collide(w) \/ LinkNode(w) \/ GrowCount(w)
         \/ SetValue(w) \/ FreeNode(w) \/ ShrinkCount(w)
  PROVE  Local(w)'
<1>t. Types /\ LocalAt(w, Bucket(w))
  BY DEF TableInv, LockInv, Local
<1> USE DEF Types, TypeOK, Goto, Finish, tableVars, lockVars, localVars
<1>1. CASE Call(w) \/ ReadLock(w) \/ WriteLock(w)
  <2>1. /\ pc[w] \in {"idle", "lock"} /\ pc'[w] \in {"lock", "head"}
        /\ UNCHANGED <<cursor, prev, dst>>
    BY <1>t, <1>1 DEF Call, ReadLock, WriteLock
  <2> QED
    BY <1>t, <2>1 DEF Local, LocalAt, Updating
<1>2. CASE Return(w)
  <2>1. /\ pc'[w] = "idle"
        /\ cursor'[w] = Null /\ prev'[w] = Null /\ dst'[w] = NoResult
    BY <1>t, <1>2 DEF Return
  <2> QED
    BY <2>1 DEF Local, LocalAt, Updating
<1>3. CASE Unlock(w) \/ WalkOff(w) \/ Collide(w) \/ LinkNode(w)
           \/ GrowCount(w) \/ SetValue(w) \/ FreeNode(w) \/ ShrinkCount(w)
  <2>1. pc'[w] \in {"unlock", "return", "grow", "shrink"} /\ dst' = dst
    BY <1>t, <1>3 DEF Unlock, WalkOff, Collide, LinkNode, GrowCount, SetValue,
                      FreeNode, ShrinkCount
  <2>2. dst[w] /= NoResult => dst[w].bytes = dst[w].length
    BY <1>t DEF LocalAt
  <2> QED
    BY <2>1, <2>2 DEF Local, LocalAt, Updating
<1> QED
  BY <1>1, <1>2, <1>3

LEMMA MyLocalWalk ==
  ASSUME TableInv, NEW w \in Workers, ReadHead(w) \/ WalkOn(w)
  PROVE  Local(w)'
<1>t. Types
  BY DEF TableInv, LockInv
<1>b. PICK b \in Buckets : b = Bucket(w)
  BY <1>t, HasBucket DEF ReadHead, WalkOn
<1>l. LocalAt(w, b) /\ ListOf(b)
  BY <1>b DEF TableInv, Local
<1>1. /\ UNCHANGED <<node, buckets, request, dst>> /\ pc'[w] = "walk"
      /\ dst[w] = NoResult
  BY <1>t, <1>l DEF ReadHead, WalkOn, Goto, tableVars, LocalAt, Types
<1>2. Bucket(w)' = b
  BY <1>b, <1>1 DEF Bucket
<1>3. /\ Linked(node) /\ buckets[b] \in Pointers
      /\ InBucket(b) = Reach(node, buckets[b])
  BY <1>t, NodesLinked DEF Types, TypeOK, Pointers, InBucket, Chain
<1>4. InBucket(b)' = InBucket(b)
  BY <1>1 DEF InBucket, Chain
<1>5. CASE ReadHead(w)
  <2>1. cursor'[w] = buckets[b] /\ prev'[w] = Null
    BY <1>t, <1>b, <1>l, <1>5 DEF ReadHead, LocalAt, Types, TypeOK
  <2>2. buckets[b] \in InBucket(b) \cup {Null}
    BY <1>3, ReachIs
  <2>3. InBucket(b) \ Reach(node, buckets[b]) = {}
    BY <1>3
  <2>4. LocalAt(w, b)'
    BY <1>1, <1>4, <2>1, <2>2, <2>3 DEF LocalAt, Chain, Updating
  <2> QED
    BY <1>2, <2>4 DEF Local
<1>6. CASE WalkOn(w)
  <2>1. PICK c \in InBucket(b) : c = cursor[w]
    BY <1>l, <1>6 DEF WalkOn, LocalAt
  <2>2. c \in Nodes /\ node[c].next \in InBucket(b) \cup {Null}
    BY <1>3, BucketFinite, ReachGoesOn
  <2>3. Reach(node, c) = {c} \cup Reach(node, node[c].next)
    BY <1>3, <2>2, ReachStep
  <2>4. \A n \in InBucket(b) \ Reach(node, node[c].next) :
          node[n].key /= request[w].key
    BY <1>l, <1>6, <2>1, <2>3, NullAssumption
       DEF WalkOn, Found, LocalAt, Chain
  <2>5. /\ cursor'[w] = node[c].next
        /\ prev'[w] = IF request[w].op = "delete" THEN c ELSE prev[w]
    BY <1>t, <1>6, <2>1 DEF WalkOn, Types, TypeOK
  <2>6. request[w].op /= "delete" => prev[w] = Null
    BY <1>l, <1>6 DEF WalkOn, LocalAt
  <2>7. (\/ /\ prev[w] = Null
            /\ request[w].op = "delete" => cursor[w] = buckets[b]
         \/ /\ request[w].op = "delete"
            /\ prev[w] \in InBucket(b) /\ node[prev[w]].next = cursor[w])'
    BY <1>1, <1>4, <2>1, <2>5, <2>6
  <2>8. (\A n \in InBucket(b) \ Chain(cursor[w]) :
           node[n].key /= request[w].key)'
    BY <1>1, <1>4, <2>4, <2>5 DEF Chain
  <2>9. LocalAt(w, b)'
    BY <1>1, <1>4, <2>2, <2>5, <2>7, <2>8 DEF LocalAt, Updating
  <2> QED
    BY <1>2, <2>9 DEF Local
<1> QED
  BY <1>5, <1>6

LEMMA MyLocalSearch ==
  ASSUME TableInv, NEW w \in Workers, CopyValue(w) \/ Terminate(w)
  PROVE  Local(w)'
<1>t. Types
  BY DEF TableInv, LockInv
<1>b. PICK b \in Buckets : b = Bucket(w)
  BY <1>t, HasBucket DEF CopyValue, Terminate
<1>l. LocalAt(w, b)
  BY <1>b DEF TableInv, Local
<1>1. UNCHANGED <<node, buckets, request, cursor, prev>>
  BY DEF CopyValue, Terminate, tableVars
<1>2. Bucket(w)' = b /\ InBucket(b)' = InBucket(b)
  BY <1>b, <1>1 DEF Bucket, InBucket, Chain
<1>3. cursor[w] \in InBucket(b)
  BY <1>b, CursorAllocated DEF CopyValue, Terminate, Found
<1>4. Inside(w) /\ ~Updating(w)
  BY DEF CopyValue, Terminate, Inside, Critical, Labels, Updating
<1>5. node[cursor[w]].value = node[cursor[w]].value_size
  BY <1>b, <1>3, <1>4, StandsOnWhole DEF Whole
<1>6. CASE CopyValue(w)
  <2>1. /\ pc'[w] = "nul" /\ prev[w] = Null
        /\ dst'[w] = [bytes |-> node[cursor[w]].value,
                      length |-> node[cursor[w]].value]
    BY <1>t, <1>l, <1>5, <1>6
       DEF CopyValue, Finish, Goto, LocalAt, Types, TypeOK
  <2>2. LocalAt(w, b)'
    BY <1>1, <1>2, <1>3, <2>1 DEF LocalAt, Updating
  <2> QED
    BY <1>2, <2>2 DEF Local
<1>7. CASE Terminate(w)
  <2>1. pc'[w] = "unlock"
    BY <1>t, <1>7 DEF Terminate, Goto, Types
  <2>2. dst[w] = [bytes |-> node[cursor[w]].value,
                  length |-> node[cursor[w]].value]
    BY <1>l, <1>7 DEF Terminate, LocalAt
  <2>3. dst'[w] = [dst[w] EXCEPT !.length = node[cursor[w]].value_size]
    BY <1>t, <1>7 DEF Terminate, Types
  <2>4. dst'[w].bytes = dst'[w].length
    BY <1>5, <2>2, <2>3
  <2>5. LocalAt(w, b)'
    BY <2>1, <2>4 DEF LocalAt, Updating
  <2> QED
    BY <1>2, <2>5 DEF Local
<1> QED
  BY <1>6, <1>7

LEMMA MyLocalWrite ==
  ASSUME TableInv, NEW w \in Workers,
         NewNode(w) \/ SetLength(w) \/ FreeValue(w) \/ Unlink(w)
  PROVE  Local(w)'
<1>t. Types /\ LockInv
  BY DEF TableInv, LockInv
<1>b. PICK b \in Buckets : b = Bucket(w)
  BY <1>t, HasBucket DEF NewNode, SetLength, FreeValue, Unlink
<1>l. LocalAt(w, b) /\ ListOf(b)
  BY <1>b DEF TableInv, Local
<1>w. WorkerStep(w) /\ Writes(w, b)
  BY <1>t, <1>b, ChangersWrite DEF WorkerStep, Execute
<1>1. dst' = dst /\ prev' = prev /\ request' = request
  BY DEF NewNode, SetLength, FreeValue, Unlink, localVars
<1>2. Bucket(w)' = b
  BY <1>b, <1>1 DEF Bucket
<1>d. dst[w] /= NoResult => dst[w].bytes = dst[w].length
  BY <1>l DEF LocalAt
<1>3. CASE NewNode(w)
  <2>1. PICK n \in Nodes \ allocated :
          /\ node' = [node EXCEPT ![n] =
               [key |-> request[w].key, value |-> request[w].value,
                value_size |-> request[w].value, value_live |-> TRUE,
                next |-> OldHead(w, n)]]
          /\ cursor' = [cursor EXCEPT ![w] = n]
    BY <1>3 DEF NewNode
  <2>2. node'[n] = [key |-> request[w].key, value |-> request[w].value,
                    value_size |-> request[w].value, value_live |-> TRUE,
                    next |-> buckets[b]]
    BY <1>t, <1>b, <2>1 DEF Types, TypeOK, OldHead
  <2>3. cursor'[w] = n /\ pc'[w] = "link" /\ buckets' = buckets
    BY <1>t, <1>3, <2>1 DEF NewNode, Goto, Types, TypeOK
  <2>4. InBucket(b)' = InBucket(b)
    BY <1>3, <1>w, SteadyList DEF NewNode, LinkNode, Unlink
  <2>5. \A m \in InBucket(b) : node'[m].key = node[m].key
    BY <1>3, <1>w, SteadyNodes DEF NewNode, LinkNode, Unlink
  <2>6. Chain(cursor[w]) = {}
    BY <1>3, ReachNull DEF NewNode, Chain
  <2>7. \A m \in InBucket(b) : node[m].key /= request[w].key
    BY <1>3, <1>l, <2>6 DEF NewNode, LocalAt
  <2>8. (pc[w] = "link" =>
           /\ node[cursor[w]].next = buckets[b] /\ Whole(cursor[w])
           /\ node[cursor[w]].key = request[w].key
           /\ node[cursor[w]].value = request[w].value
           /\ \A m \in InBucket(b) : node[m].key /= request[w].key)'
    BY <1>1, <2>2, <2>3, <2>4, <2>5, <2>7 DEF Whole
  <2>9. LocalAt(w, b)'
    BY <1>1, <1>d, <2>3, <2>8 DEF LocalAt, Updating
  <2> QED
    BY <1>2, <2>9 DEF Local
<1>4. CASE SetLength(w) \/ FreeValue(w)
  <2>1. PICK c \in InBucket(b) : c = cursor[w]
    BY <1>4, <1>b, CursorAllocated DEF SetLength, FreeValue, Found
  <2>2. c \in Nodes /\ node[c] \in NodeContents
    BY <1>t, <1>l, <2>1 DEF ListOf, Types, TypeOK
  <2>3. InBucket(b)' = InBucket(b) /\ node'[c].key = node[c].key
    BY <1>4, <1>w, SteadyList, SteadyNodes
       DEF SetLength, FreeValue, LinkNode, Unlink, Goto
  <2>4. /\ pc'[w] \in {"free_value", "set_value"} /\ cursor' = cursor
        /\ prev[w] = Null /\ node[c].key = request[w].key
    BY <1>t, <1>l, <1>4, <2>1
       DEF SetLength, FreeValue, Found, Goto, LocalAt, Updating, localVars,
           Types
  <2>5. node'[c].value_size = request[w].value
    <3>1. CASE SetLength(w)
      BY <1>t, <2>1, <2>2, <3>1 DEF SetLength, Types, TypeOK, NodeContents
    <3>2. CASE FreeValue(w)
      <4>1. node'[c].value_size = node[c].value_size
        BY <1>t, <2>1, <2>2, <3>2 DEF FreeValue, Types, TypeOK, NodeContents
      <4> QED
        BY <1>l, <2>1, <3>2, <4>1 DEF FreeValue, LocalAt, Updating
    <3> QED
      BY <1>4, <3>1, <3>2
  <2>6. LocalAt(w, b)'
    BY <1>1, <1>d, <2>1, <2>3, <2>4, <2>5 DEF LocalAt
  <2> QED
    BY <1>2, <2>6 DEF Local
<1>5. CASE Unlink(w)
  <2>1. InBucket(b)' = InBucket(b) \ {cursor[w]}
    BY <1>5, <1>b, UnlinkList
  <2>2. pc'[w] = "free_node" /\ pc[w] = "walk" /\ cursor[w] /= Null
    BY <1>t, <1>5 DEF Unlink, Found, Finish, Goto, Types
  <2>3. prev[w] \in (InBucket(b) \ {cursor[w]}) \cup {Null}
    <3>1. SUFFICES ASSUME prev[w] /= Null
                   PROVE  prev[w] \in InBucket(b) \ {cursor[w]}
      OBVIOUS
    <3>2. prev[w] \in InBucket(b) /\ node[prev[w]].next = cursor[w]
      BY <1>l, <2>2, <3>1 DEF LocalAt
    <3>3. prev[w] \notin Reach(node, cursor[w])
      BY <1>l, <3>2 DEF ListOf, Acyclic, InBucket, Chain
    <3>4. cursor[w] \in Nodes /\ Linked(node)
      BY <1>t, <2>2, NodesLinked DEF Types, TypeOK
    <3>5. cursor[w] \in Reach(node, cursor[w])
      BY <3>4, ReachStep
    <3> QED
      BY <3>2, <3>3, <3>5
  <2>4. LocalAt(w, b)'
    BY <1>1, <1>d, <2>1, <2>2, <2>3 DEF LocalAt, Updating
  <2> QED
    BY <1>2, <2>4 DEF Local
<1> QED
  BY <1>3, <1>4, <1>5

LEMMA NextLocal ==
  ASSUME TableInv, NEW w \in Workers, WorkerStep(w), NEW v \in Workers
  PROVE  Local(v)'
<1>1. Local(w)'
  BY MyLocalOutside, MyLocalWalk, MyLocalSearch, MyLocalWrite
     DEF WorkerStep, Acquire, Execute
<1> QED
  BY <1>1, OthersLocal

-----------------------------------------------------------------------------
(* Nodes in no list, and the step of the invariant.                        *)

LEMMA Ownership ==
  ASSUME TableInv, NEW w \in Workers, WorkerStep(w)
  PROVE  /\ Owns(w)' <=> NewNode(w) \/ Unlink(w)
         /\ Owns(w) <=> LinkNode(w) \/ FreeNode(w)
         /\ ~NewNode(w) /\ ~FreeNode(w) => allocated' = allocated
         /\ FreeNode(w) => allocated' = allocated \ {cursor[w]}
         /\ NewNode(w) => /\ cursor'[w] \in Nodes \ allocated
                          /\ allocated' = allocated \cup {cursor'[w]}
         /\ Unlink(w) => cursor'[w] = cursor[w]
<1>t. Types
  BY DEF TableInv, LockInv
<1> USE DEF Types, TypeOK, Goto, Finish, tableVars, lockVars, localVars, Owns
<1>1. CASE NewNode(w)
  <2>1. pc[w] = "walk" /\ pc'[w] = "link"
    BY <1>t, <1>1 DEF NewNode
  <2>2. cursor'[w] \in Nodes \ allocated /\ allocated' = allocated \cup {cursor'[w]}
    BY <1>t, <1>1 DEF NewNode
  <2> QED
    BY <1>1, <2>1, <2>2 DEF LinkNode, FreeNode, Unlink
<1>2. CASE Unlink(w)
  BY <1>t, <1>2 DEF NewNode, LinkNode, FreeNode, Unlink
<1>3. CASE LinkNode(w)
  BY <1>t, <1>3 DEF NewNode, LinkNode, FreeNode, Unlink
<1>4. CASE FreeNode(w)
  BY <1>t, <1>4 DEF NewNode, LinkNode, FreeNode, Unlink
<1>5. CASE Call(w) \/ ReadLock(w) \/ WriteLock(w) \/ Unlock(w) \/ Return(w)
           \/ ReadHead(w) \/ WalkOn(w) \/ WalkOff(w) \/ Collide(w)
           \/ CopyValue(w) \/ Terminate(w) \/ GrowCount(w) \/ ShrinkCount(w)
           \/ SetLength(w) \/ FreeValue(w) \/ SetValue(w)
  <2>1. /\ pc[w] \notin {"link", "free_node"}
        /\ pc'[w] \notin {"link", "free_node"}
        /\ allocated' = allocated
    BY <1>t, <1>5 DEF Call, ReadLock, WriteLock, Unlock, Return, ReadHead,
       WalkOn, WalkOff, Collide, CopyValue, Terminate, GrowCount, ShrinkCount,
       SetLength, FreeValue, SetValue
  <2>2. ~NewNode(w) /\ ~Unlink(w) /\ ~LinkNode(w) /\ ~FreeNode(w)
    BY <1>t, <2>1 DEF NewNode, LinkNode, FreeNode, Unlink
  <2> QED
    BY <2>1, <2>2
<1> QED
  BY <1>1, <1>2, <1>3, <1>4, <1>5 DEF WorkerStep, Acquire, Execute

(* What the step does to every list.                                       *)
LEMMA NextLists ==
  ASSUME TableInv, NEW w \in Workers, WorkerStep(w), NEW b \in Buckets
  PROVE  /\ ~LinkNode(w) /\ ~Unlink(w) => InBucket(b)' = InBucket(b)
         /\ b /= Bucket(w) => InBucket(b)' = InBucket(b)
         /\ LinkNode(w) /\ b = Bucket(w) =>
              InBucket(b)' = InBucket(b) \cup {cursor[w]}
         /\ Unlink(w) /\ b = Bucket(w) =>
              InBucket(b)' = InBucket(b) \ {cursor[w]}
<1>1. ~LinkNode(w) /\ ~Unlink(w) => InBucket(b)' = InBucket(b)
  BY SteadyList
<1>2. b /= Bucket(w) => InBucket(b)' = InBucket(b)
  BY UntouchedList DEF Writes
<1> QED
  BY <1>1, <1>2, LinkList, UnlinkList

LEMMA NextOwned ==
  ASSUME TableInv, NEW w \in Workers, WorkerStep(w), NEW v \in Workers
  PROVE  Owned(v)'
<1>t. Types /\ \A u \in Workers : Owned(u)
  BY DEF TableInv, LockInv
<1>o. \A u \in Workers : u /= w =>
        Owns(u)' = Owns(u) /\ cursor'[u] = cursor[u]
  BY <1>t, OthersSame DEF Owns
<1>1. ASSUME NEW u \in Workers, u /= w, Owns(u), NEW b \in Buckets
      PROVE  cursor[u] \notin InBucket(b)'
  <2>1. cursor[u] \notin InBucket(b)
    BY <1>t, <1>1 DEF Owned
  <2>2. LinkNode(w) => cursor[u] /= cursor[w]
    BY <1>t, <1>1, Ownership DEF Owned
  <2> QED
    BY <2>1, <2>2, NextLists
<1>2. ASSUME Owns(w)'
      PROVE  /\ cursor'[w] \in allocated'
             /\ \A b \in Buckets : cursor'[w] \notin InBucket(b)'
             /\ \A u \in Workers : u /= w /\ Owns(u) => cursor[u] /= cursor'[w]
  <2>1. CASE NewNode(w)
    <3>1. cursor'[w] \in allocated' /\ cursor'[w] \notin allocated
      BY <2>1, Ownership
    <3>2. \A b \in Buckets : InBucket(b)' = InBucket(b)
      BY <2>1, NextLists DEF NewNode, LinkNode, Unlink
    <3>3. \A b \in Buckets : InBucket(b) \subseteq allocated
      BY DEF TableInv, ListOf
    <3>4. \A u \in Workers : Owns(u) => cursor[u] \in allocated
      BY <1>t DEF Owned
    <3>5. \A b \in Buckets : cursor'[w] \notin InBucket(b)'
      BY <3>1, <3>2, <3>3
    <3> QED
      BY <3>1, <3>4, <3>5
  <2>2. CASE Unlink(w)
    <3>b. PICK a \in Buckets : a = Bucket(w)
      BY <2>2, CursorAllocated DEF Unlink, Found
    <3>1. cursor[w] \in InBucket(a) /\ ListOf(a)
      BY <2>2, <3>b, UnlinkList DEF TableInv
    <3>2. cursor'[w] = cursor[w] /\ allocated' = allocated
      BY <2>2, Ownership DEF Unlink, FreeNode
    <3>3. cursor[w] \in allocated
      BY <3>1 DEF ListOf
    <3>4. ASSUME NEW b \in Buckets PROVE cursor[w] \notin InBucket(b)'
      <4>1. CASE b = a
        BY <2>2, <3>b, <4>1, NextLists
      <4>2. CASE b /= a
        BY <3>1, <3>b, <4>2, NextLists, OneBucket DEF TableInv
      <4> QED
        BY <4>1, <4>2
    <3>5. \A u \in Workers : Owns(u) => cursor[u] /= cursor[w]
      BY <1>t, <3>1 DEF Owned
    <3>6. \A b \in Buckets : cursor'[w] \notin InBucket(b)'
      BY <3>2, <3>4
    <3> QED
      BY <3>2, <3>3, <3>5, <3>6
  <2> QED
    BY <1>2, <2>1, <2>2, Ownership
<1>3. CASE v = w
  <2>1. Owns(v)' =>
          /\ cursor'[v] \in allocated'
          /\ \A b \in Buckets : cursor'[v] \notin InBucket(b)'
          /\ \A u \in Workers : Owns(u)' /\ cursor'[u] = cursor'[v] => u = v
    BY <1>2, <1>3, <1>o
  <2> QED
    BY <2>1 DEF Owned
<1>4. CASE v /= w
  <2>1. SUFFICES ASSUME Owns(v)
                 PROVE  /\ cursor'[v] \in allocated'
                        /\ \A b \in Buckets : cursor'[v] \notin InBucket(b)'
                        /\ \A u \in Workers :
                             Owns(u)' /\ cursor'[u] = cursor'[v] => u = v
    BY <1>4, <1>o DEF Owned
  <2>2. cursor'[v] \in allocated'
    BY <1>4, <1>o, <2>1, OwnedSame
  <2>3. \A b \in Buckets : cursor'[v] \notin InBucket(b)'
    BY <1>1, <1>4, <1>o, <2>1
  <2>4. ASSUME NEW u \in Workers, Owns(u)', cursor'[u] = cursor'[v]
        PROVE  u = v
    <3>1. u /= w
      BY <1>2, <1>4, <1>o, <2>1, <2>4
    <3>2. Owns(u) /\ cursor[u] = cursor[v]
      BY <1>4, <1>o, <2>4, <3>1
    <3> QED
      BY <1>t, <2>1, <3>2 DEF Owned
  <2> QED
    BY <2>2, <2>3, <2>4
<1> QED
  BY <1>3, <1>4

LEMMA NextAccounted ==
  ASSUME TableInv, NEW w \in Workers, WorkerStep(w)
  PROVE  Accounted'
<1>t. Types /\ Accounted
  BY DEF TableInv, LockInv
<1>o. \A u \in Workers : u /= w =>
        Owns(u)' = Owns(u) /\ cursor'[u] = cursor[u]
  BY <1>t, OthersSame DEF Owns
<1> SUFFICES ASSUME NEW n \in allocated'
             PROVE  \/ \E b \in Buckets : n \in InBucket(b)'
                    \/ \E u \in Workers : Owns(u)' /\ cursor'[u] = n
  BY DEF Accounted
<1>1. CASE n \notin allocated
  <2>1. NewNode(w) /\ n = cursor'[w]
    BY <1>1, Ownership
  <2>2. Owns(w)'
    BY <2>1, Ownership
  <2> QED
    BY <2>1, <2>2
<1>2. ASSUME NEW b \in Buckets, n \in InBucket(b)
      PROVE  \/ n \in InBucket(b)'
             \/ Owns(w)' /\ cursor'[w] = n
  BY <1>2, NextLists, Ownership
<1>3. ASSUME NEW u \in Workers, Owns(u), cursor[u] = n
      PROVE  \/ \E b \in Buckets : n \in InBucket(b)'
             \/ Owns(u)' /\ cursor'[u] = n
  <2>1. CASE u /= w
    BY <1>3, <1>o, <2>1
  <2>2. CASE u = w
    <3>1. LinkNode(w)
      <4>1. ~FreeNode(w)
        BY <1>3, <2>2, Ownership
      <4> QED
        BY <1>3, <2>2, <4>1, Ownership
    <3>2. PICK b \in Buckets : b = Bucket(w)
      BY <3>1, CursorAllocated DEF LinkNode
    <3>3. InBucket(b)' = InBucket(b) \cup {cursor[w]}
      BY <3>1, <3>2, NextLists
    <3> QED
      BY <1>3, <2>2, <3>3
  <2> QED
    BY <2>1, <2>2
<1> QED
  BY <1>1, <1>2, <1>3, <1>t DEF Accounted

-----------------------------------------------------------------------------
(* hash_dump's sum.                                                        *)

(* A nonempty set of subsets of a finite set has a minimal one: induction  *)
(* over the sets that FoldFunction passes through.                         *)
LEMMA SmallestSet ==
  ASSUME NEW S, IsFiniteSet(S), NEW T \in SUBSET (SUBSET S), T /= {}
  PROVE  \E x \in T : \A y \in T : y \subseteq x => y = x
<1>1. IsWellFoundedOn(StrictSubsetOrdering(S), FiniteSubsetsOf(S))
  BY FS_StrictSubsetOrderingWellFounded
<1>2. T \subseteq FiniteSubsetsOf(S)
  BY FS_Subset DEF FiniteSubsetsOf
<1>3. \E x \in T : \A y \in T : ~(<<y, x>> \in StrictSubsetOrdering(S))
  BY <1>1, <1>2, WFMin
<1> QED
  BY <1>3 DEF StrictSubsetOrdering

Total(f) == FoldFunction(+, 0, f)

(* The sum of the sizes of disjoint sets is the size of their union.       *)
LEMMA SumOfSizes ==
  ASSUME NEW B, IsFiniteSet(B), NEW G \in [B -> SUBSET Nodes],
         \A a, b \in B : a /= b => G[a] \cap G[b] = {},
         NEW f \in [B -> Nat], \A b \in B : f[b] = Cardinality(G[b])
  PROVE  Total(f) = Cardinality(UNION {G[b] : b \in B})
<1> DEFINE Pick(s) == CHOOSE x \in s : TRUE
           Union(s) == UNION {G[b] : b \in s}
           Card == [s \in SUBSET B |-> Cardinality(Union(s))]
           Sum == CHOOSE it : it = [s \in SUBSET B |->
                    IF s = {} THEN 0 ELSE f[Pick(s)] + it[s \ {Pick(s)}]]
<1>1. Total(f) = Sum[B]
  BY DEF Total, FoldFunction, FoldFunctionOnSet, MapThenFoldSet
<1>p. \A s \in SUBSET B : s /= {} =>
        Pick(s) \in s /\ s \ {Pick(s)} \in SUBSET B
  OBVIOUS
<1>2. ASSUME NEW s \in SUBSET B, s /= {}, NEW x \in s
      PROVE  /\ Cardinality(Union(s)) =
                  f[x] + Cardinality(Union(s \ {x}))
             /\ Cardinality(Union(s)) \in Nat
  <2>1. Union(s) = G[x] \cup Union(s \ {x})
    OBVIOUS
  <2>2. G[x] \cap Union(s \ {x}) = {}
    OBVIOUS
  <2>3. G[x] \subseteq Nodes /\ Union(s \ {x}) \subseteq Nodes
    OBVIOUS
  <2>4. IsFiniteSet(G[x]) /\ IsFiniteSet(Union(s \ {x}))
    BY <2>3, FS_Subset, NodesAssumption
  <2>5. /\ Cardinality(G[x]) \in Nat /\ Cardinality(Union(s \ {x})) \in Nat
    BY <2>4, FS_CardinalityType
  <2>6. Cardinality(G[x] \cup Union(s \ {x})) =
          Cardinality(G[x]) + Cardinality(Union(s \ {x})) - Cardinality({})
    BY <2>2, <2>4, FS_Union
  <2>7. Cardinality({}) = 0
    BY FS_EmptySet
  <2> HIDE DEF Union
  <2> QED
    BY <2>1, <2>5, <2>6, <2>7
<1>e. Union({}) = {} /\ Cardinality(Union({})) = 0
  <2>1. Union({}) = {}
    OBVIOUS
  <2> QED
    BY <2>1, FS_EmptySet
<1> HIDE DEF Pick, Union
<1>3. Card = [s \in SUBSET B |->
                IF s = {} THEN 0 ELSE f[Pick(s)] + Card[s \ {Pick(s)}]]
  <2>1. \A s \in SUBSET B :
          Cardinality(Union(s)) =
            IF s = {} THEN 0
            ELSE f[Pick(s)] + Cardinality(Union(s \ {Pick(s)}))
    BY <1>2, <1>e, <1>p
  <2>2. \A s \in SUBSET B : s /= {} =>
          Card[s \ {Pick(s)}] = Cardinality(Union(s \ {Pick(s)}))
    BY <1>p
  <2> QED
    BY <2>1, <2>2
<1> HIDE DEF Card
<1>4. Sum = [s \in SUBSET B |->
               IF s = {} THEN 0 ELSE f[Pick(s)] + Sum[s \ {Pick(s)}]]
  BY <1>3
<1> HIDE DEF Sum
<1>5. Sum[B] = Card[B]
  <2> SUFFICES ASSUME Sum[B] /= Card[B] PROVE FALSE
    OBVIOUS
  <2> DEFINE Bad == {s \in SUBSET B : Sum[s] /= Card[s]}
  <2>1. Bad \in SUBSET (SUBSET B) /\ Bad /= {}
    OBVIOUS
  <2>b. \A s \in SUBSET B : s \in Bad <=> Sum[s] /= Card[s]
    OBVIOUS
  <2> HIDE DEF Bad
  <2>2. PICK s \in Bad : \A t \in Bad : t \subseteq s => t = s
    BY <2>1, SmallestSet
  <2>3. s \in SUBSET B /\ Sum[s] /= Card[s]
    BY <2>1, <2>b
  <2>4. Sum[s] = IF s = {} THEN 0 ELSE f[Pick(s)] + Sum[s \ {Pick(s)}]
    BY <1>4, <2>3
  <2>5. Card[s] = IF s = {} THEN 0 ELSE f[Pick(s)] + Card[s \ {Pick(s)}]
    BY <1>3, <2>3
  <2>6. s /= {} => Sum[s \ {Pick(s)}] = Card[s \ {Pick(s)}]
    BY <1>p, <2>2, <2>3, <2>b
  <2> QED
    BY <2>3, <2>4, <2>5, <2>6
<1> QED
  BY <1>1, <1>5 DEF Card, Union

LEMMA DumpCounts ==
  ASSUME TableInv, \A w \in Workers : pc[w] = "idle"
  PROVE  hash_dump.total = Cardinality(hash_dump.pairs)
<1>t. /\ Types /\ \A b \in Buckets : ListOf(b) /\ CountOf(b)
  BY DEF TableInv, LockInv
<1> DEFINE All == UNION {InBucket(b) : b \in Buckets}
           Pairs == {<<node[n].key, node[n].value>> : n \in All}
           G == [b \in Buckets |-> InBucket(b)]
<1>1. \A b \in Buckets : bucket_sizes[b] = Cardinality(InBucket(b))
  BY <1>t DEF CountOf, Inside, Critical
<1>2. Total(bucket_sizes) = Cardinality(UNION {G[b] : b \in Buckets})
  <2>1. G \in [Buckets -> SUBSET Nodes]
    BY BucketFinite
  <2>2. \A a, b \in Buckets : a /= b => G[a] \cap G[b] = {}
    BY <1>t, OneBucket
  <2>3. \A b \in Buckets : bucket_sizes[b] = Cardinality(G[b])
    BY <1>1
  <2>4. bucket_sizes \in [Buckets -> Nat]
    BY <1>t DEF Types, TypeOK
  <2> HIDE DEF G
  <2> QED
    BY <2>1, <2>2, <2>3, <2>4, BucketsAssumption, SumOfSizes
<1>3. UNION {G[b] : b \in Buckets} = All
  OBVIOUS
<1>4. hash_dump.total = Cardinality(All)
  BY <1>2, <1>3 DEF hash_dump, Total
<1>5. UNION {InBucket(b) : b \in {d \in Buckets : bucket_sizes[d] /= 0}} = All
  <2>1. \A b \in Buckets : bucket_sizes[b] = 0 => InBucket(b) = {}
    BY <1>1, BucketFinite, FS_EmptySet
  <2> QED
    BY <2>1
<1>6. hash_dump.pairs = Pairs
  BY <1>5 DEF hash_dump
<1>7. IsFiniteSet(All)
  <2>1. All \subseteq Nodes
    BY BucketFinite
  <2> QED
    BY <2>1, NodesAssumption, FS_Subset
<1>8. Cardinality(Pairs) = Cardinality(All)
  <2> DEFINE F == [n \in All |-> <<node[n].key, node[n].value>>]
  <2>1. \A m, n \in All : F[m] = F[n] => m = n
    <3> SUFFICES ASSUME NEW a \in Buckets, NEW m \in InBucket(a),
                        NEW b \in Buckets, NEW n \in InBucket(b),
                        node[m].key = node[n].key
                 PROVE  m = n
      OBVIOUS
    <3>1. a = b
      BY <1>t DEF ListOf
    <3> QED
      BY <1>t, <3>1 DEF ListOf
  <2>2. F \in [All -> Pairs] /\ \A t \in Pairs : \E n \in All : F[n] = t
    OBVIOUS
  <2> HIDE DEF F, All, Pairs
  <2>3. F \in Surjection(All, Pairs) /\ F \in Injection(All, Pairs)
    BY <2>1, <2>2 DEF Surjection, Injection, IsInjective
  <2> QED
    BY <1>7, <2>3, FS_Surjection
<1> QED
  BY <1>4, <1>6, <1>8

-----------------------------------------------------------------------------
(* The theorems.                                                           *)

DumpExact == dump /= NoResult => dump.total = Cardinality(dump.pairs)

LEMMA InitTable == Init => TableInv /\ DumpExact
<1> SUFFICES ASSUME Init PROVE TableInv /\ DumpExact
  OBVIOUS
<1>1. \A b \in Buckets : InBucket(b) = {}
  BY ReachNull DEF Init, InBucket, Chain
<1>2. \A w \in Workers : pc[w] = "idle" /\ ~Inside(w)
  BY DEF Init, Inside, Critical
<1>3. LockInv
  <2>1. Types
    BY DEF Init, Types, TypeOK, Labels
  <2>2. Operations
    BY <1>2 DEF Operations, OpAt
  <2>3. Holders /\ Exclusion
    BY <1>2 DEF Init, Holders, Exclusion
  <2> QED
    BY <2>1, <2>2, <2>3 DEF LockInv
<1>4. ASSUME NEW b \in Buckets PROVE ListOf(b) /\ ValuesOf(b) /\ CountOf(b)
  <2>1. ListOf(b)
    <3>1. Acyclic(node, buckets[b])
      BY <1>1 DEF Acyclic, InBucket, Chain
    <3> QED
      BY <1>1, <3>1 DEF ListOf
  <2>2. CountOf(b)
    <3>1. bucket_sizes[b] = 0
      BY DEF Init
    <3> QED
      BY <1>1, <1>2, <3>1, FS_EmptySet DEF CountOf
  <2> QED
    BY <1>1, <2>1, <2>2 DEF ValuesOf
<1>5. \A w \in Workers : Owned(w) /\ Local(w)
  BY <1>2 DEF Init, Owned, Owns, Local, LocalAt, Updating
<1>6. Accounted /\ DumpExact
  BY DEF Init, Accounted, DumpExact
<1> QED
  BY <1>3, <1>4, <1>5, <1>6 DEF TableInv

LEMMA DestroyTable ==
  ASSUME TableInv, skvs_destroy
  PROVE  TableInv' /\ DumpExact'
<1>t. LockInv /\ Types /\ Holders /\ Accounted
  BY DEF TableInv, LockInv
<1>n. LockInv'
  BY NextLock DEF Next
<1>0. /\ \A w \in Workers : pc[w] = "idle" /\ pc'[w] = "idle" /\ ~Inside(w)
      /\ UNCHANGED <<pc, request, cursor, prev, dst>>
      /\ buckets' = [b \in Buckets |-> Null]
      /\ bucket_sizes' = [b \in Buckets |-> 0]
      /\ allocated' = allocated \ UNION {InBucket(b) : b \in Destroyed}
      /\ dump' = hash_dump
  BY DEF skvs_destroy, localVars, Inside, Critical
<1>1. \A b \in Buckets : InBucket(b)' = {}
  BY <1>0, ReachNull DEF InBucket, Chain
<1>2. Destroyed = Buckets
  BY <1>t, <1>0 DEF Destroyed, rwlock_destroy, Holders, Types, TypeOK
<1>3. allocated' = {}
  BY <1>t, <1>0, <1>2 DEF Accounted, Owns
<1>4. ASSUME NEW b \in Buckets PROVE (ListOf(b) /\ ValuesOf(b) /\ CountOf(b))'
  <2>1. ListOf(b)'
    <3>1. Acyclic(node', buckets'[b])
      BY <1>1 DEF Acyclic, InBucket, Chain
    <3> QED
      BY <1>1, <3>1 DEF ListOf
  <2>2. CountOf(b)'
    <3>1. bucket_sizes'[b] = 0 /\ Cardinality({}) = 0
      BY <1>0, FS_EmptySet
    <3>2. \A w \in Workers : ~Inside(w)'
      BY <1>0 DEF Inside, Critical
    <3>3. bucket_sizes'[b] = Cardinality(InBucket(b)')
      BY <1>1, <3>1
    <3> QED
      BY <3>2, <3>3 DEF CountOf
  <2>3. ValuesOf(b)'
    BY <1>1 DEF ValuesOf
  <2> QED
    BY <2>1, <2>2, <2>3
<1>5. ASSUME NEW w \in Workers PROVE Owned(w)' /\ Local(w)'
  <2>1. LocalAt(w, Bucket(w)) /\ pc[w] = "idle"
    BY <1>0 DEF TableInv, Local
  <2>2. Local(w)'
    BY <1>0, <2>1 DEF Local, LocalAt, Updating
  <2> QED
    BY <1>0, <2>2 DEF Owned, Owns
<1>6. Accounted'
  BY <1>3 DEF Accounted
<1>7. DumpExact'
  BY <1>0, DumpCounts DEF DumpExact
<1> QED
  BY <1>n, <1>4, <1>5, <1>6, <1>7 DEF TableInv

LEMMA StutterTable ==
  ASSUME TableInv, UNCHANGED vars
  PROVE  TableInv'
<1>1. UNCHANGED <<buckets, bucket_sizes, node, allocated, readers, writer,
                  pc, request, cursor, prev, dst, result>>
  BY DEF vars, tableVars, lockVars, localVars
<1>2. LockInv'
  BY NextLock
<1>3. ASSUME NEW b \in Buckets PROVE (ListOf(b) /\ ValuesOf(b) /\ CountOf(b))'
  <2>1. ListOf(b) /\ ValuesOf(b) /\ CountOf(b)
    BY DEF TableInv
  <2> QED
    BY <1>1, <2>1 DEF ListOf, ValuesOf, CountOf, Acyclic, InBucket, Chain,
       Whole, Updating, Inside, Bucket, Reads, Late
<1>4. ASSUME NEW w \in Workers PROVE (Owned(w) /\ Local(w))'
  <2>1. Owned(w) /\ Local(w)
    BY DEF TableInv
  <2> QED
    BY <1>1, <2>1 DEF Owned, Owns, Local, LocalAt, Bucket, InBucket, Chain,
       Whole, Updating
<1>5. Accounted'
  BY <1>1 DEF TableInv, Accounted, InBucket, Chain, Owns
<1> QED
  BY <1>2, <1>3, <1>4, <1>5 DEF TableInv

LEMMA NextTable ==
  ASSUME TableInv, DumpExact, [Next]_vars
  PROVE  TableInv' /\ DumpExact'
<1>1. ASSUME NEW w \in Workers, WorkerStep(w)
      PROVE  TableInv' /\ DumpExact'
  <2>1. LockInv'
    BY NextLock
  <2>2. dump' = dump
    BY <1>1 DEF WorkerStep, Acquire, Execute, Call, ReadLock, WriteLock,
       Unlock, Return, ReadHead, WalkOn, WalkOff, Collide, NewNode, LinkNode,
       GrowCount, CopyValue, Terminate, SetLength, FreeValue, SetValue,
       Unlink, FreeNode, ShrinkCount, tableVars
  <2>3. \A b \in Buckets : (ListOf(b) /\ ValuesOf(b) /\ CountOf(b))'
    BY <1>1, NextBuckets
  <2>4. \A v \in Workers : (Owned(v) /\ Local(v))'
    BY <1>1, NextOwned, NextLocal
  <2>5. Accounted'
    BY <1>1, NextAccounted
  <2> QED
    BY <2>1, <2>2, <2>3, <2>4, <2>5 DEF TableInv, DumpExact
<1>2. CASE skvs_destroy
  BY <1>2, DestroyTable
<1>3. CASE UNCHANGED vars
  BY <1>3, StutterTable DEF DumpExact, vars, tableVars
<1> QED
  BY <1>1, <1>2, <1>3 DEF Next, WorkerStep

LEMMA TableInvariant == Spec => [](TableInv /\ DumpExact)
<1>1. Init => TableInv /\ DumpExact
  BY InitTable
<1>2. TableInv /\ DumpExact /\ [Next]_vars => (TableInv /\ DumpExact)'
  BY NextTable
<1> QED
  BY <1>1, <1>2, PTL DEF Spec

(* No operation reads or writes freed memory, whoever runs beside it, and  *)
(* every value it copies has the length stored with it.                    *)
THEOREM MemorySafe == Spec => []AccessesSound
<1>1. TableInv => AccessesSound
  <2> SUFFICES ASSUME TableInv PROVE AccessesSound
    OBVIOUS
  <2>t. Types /\ LockInv
    BY DEF TableInv, LockInv
  <2>1. \A b \in Buckets : InBucket(b) \subseteq allocated
    BY DEF TableInv, ListOf
  <2>2. ASSUME NEW w \in Workers,
               pc[w] \in {"walk", "nul", "free_value", "set_value", "free_node"}
        PROVE  {cursor[w], prev[w]} \ {Null} \subseteq allocated
    <3>b. PICK b \in Buckets : b = Bucket(w)
      BY <2>t, <2>2, HasBucket
    <3>1. LocalAt(w, b)
      BY <3>b DEF TableInv, Local
    <3>2. cursor[w] /= Null => cursor[w] \in allocated
      BY <2>2, CursorAllocated
    <3>3. prev[w] \in InBucket(b) \cup {Null}
      BY <2>2, <3>1 DEF LocalAt, Updating
    <3> QED
      BY <2>1, <3>2, <3>3
  <2>3. ASSUME NEW w \in Workers, pc[w] = "walk", Found(w)
        PROVE  /\ node[cursor[w]].value_live
               /\ node[cursor[w]].value = node[cursor[w]].value_size
    <3>1. Bucket(w) \in Buckets /\ cursor[w] \in InBucket(Bucket(w))
      BY <2>3, CursorAllocated DEF Found
    <3>2. Inside(w) /\ ~Updating(w)
      BY <2>3 DEF Inside, Critical, Labels, Updating
    <3>3. Whole(cursor[w])
      BY <3>1, <3>2, StandsOnWhole
    <3> QED
      BY <3>3 DEF Whole
  <2>4. \A w \in Workers :
          dst[w] /= NoResult => dst[w].bytes = dst[w].length
    BY DEF TableInv, Local, LocalAt
  <2> QED
    BY <2>1, <2>2, <2>3, <2>4 DEF AccessesSound
<1> QED
  BY <1>1, TableInvariant, PTL

(* A bucket that nobody writes is a list with an end, holds each key at    *)
(* most once and only keys of its own, and as many as its counter says;    *)
(* and the sum that hash_dump prints is the number of pairs it lists.      *)
THEOREM BucketsSound == Spec => []BucketsConsistent
<1>1. TableInv /\ DumpExact => BucketsConsistent
  <2> SUFFICES ASSUME TableInv, DumpExact PROVE BucketsConsistent
    OBVIOUS
  <2>t. LockInv /\ TypeOK
    BY DEF TableInv, LockInv, Types
  <2>1. ASSUME NEW b \in Buckets, writer[b] = {}
        PROVE  /\ bucket_sizes[b] = Cardinality(InBucket(b))
               /\ \A n \in InBucket(b) : /\ hash[node[n].key] = b
                                         /\ n \notin Chain(node[n].next)
               /\ \A m, n \in InBucket(b) :
                    m /= n => node[m].key /= node[n].key
    <3>1. ListOf(b) /\ CountOf(b)
      BY DEF TableInv
    <3>2. \A w \in Workers : Inside(w) /\ Bucket(w) = b => Reads(w)
      BY <2>t, <2>1 DEF LockInv, Holders
    <3>3. \A w \in Workers : Inside(w) /\ Bucket(w) = b => Late(w) = 0
      BY <2>t, <3>2, LateIs
    <3>4. \A n \in InBucket(b) : n \notin Chain(node[n].next)
      BY <3>1 DEF ListOf, Acyclic, InBucket, Chain
    <3> QED
      BY <3>1, <3>3, <3>4 DEF ListOf, CountOf
  <2> QED
    BY <2>t, <2>1 DEF BucketsConsistent, DumpExact
<1> QED
  BY <1>1, TableInvariant, PTL

(* Locks are held only within calls, and between calls every cell that     *)
(* malloc gave out is in a list; skvs_destroy gives all of them back.      *)
THEOREM NothingLeaks == Spec => []NoLeak
<1>1. TableInv => NoLeak
  <2> SUFFICES ASSUME TableInv PROVE NoLeak
    OBVIOUS
  <2>t. Types /\ Holders
    BY DEF TableInv, LockInv
  <2>1. \A b \in Buckets : \A w \in readers[b] \cup writer[b] :
          pc[w] \notin {"idle", "lock", "return"}
    BY <2>t DEF Holders, Types, TypeOK, Inside, Critical
  <2>2. ASSUME \A w \in Workers : pc[w] = "idle"
        PROVE  allocated = UNION {InBucket(b) : b \in Buckets}
    <3>1. \A b \in Buckets : InBucket(b) \subseteq allocated
      BY DEF TableInv, ListOf
    <3>2. \A n \in allocated : \E b \in Buckets : n \in InBucket(b)
      BY <2>2 DEF TableInv, Accounted, Owns
    <3> QED
      BY <3>1, <3>2
  <2> QED
    BY <2>1, <2>2 DEF NoLeak
<1> QED
  BY <1>1, TableInvariant, PTL

-----------------------------------------------------------------------------
(* Linearizability: the table implements KVStore.                          *)

(* A call is under way as long as its request is there, and its outcome is *)
(* there from the step on in which it takes effect.                        *)
Before == {"idle", "lock", "head", "walk", "link", "free_value", "set_value"}
Pending(w) == /\ pc[w] = "idle" <=> request[w] = NoResult
              /\ pc[w] \in Before <=> result[w] = NoResult
CallsInv == \A w \in Workers : Pending(w)

LEMMA OutcomeIs ==
  ASSUME NEW r \in {0, 1}, NEW v \in Values \cup {NoValue}
  PROVE  Outcome(r, v) /= NoResult
  BY NoResultAssumption DEF Outcome

LEMMA CallsInit == Init => CallsInv
  BY DEF Init, CallsInv, Pending, Before

LEMMA CallsNext ==
  ASSUME TableInv, CallsInv, [Next]_vars
  PROVE  CallsInv'
<1>t. Types
  BY DEF TableInv, LockInv
<1>n. Types'
  BY NextTypes
<1>1. ASSUME NEW w \in Workers, WorkerStep(w), NEW v \in Workers
      PROVE  Pending(v)'
  <2>p. Pending(w) /\ Pending(v)
    BY DEF CallsInv
  <2> USE DEF Goto, Finish, lockVars, localVars, Types, TypeOK
  <2>1. CASE v /= w
    <3>1. pc'[v] = pc[v] /\ request'[v] = request[v]
      BY <1>t, <1>1, <2>1, OthersSame
    <3>2. result'[v] = result[v]
      BY <1>t, <1>1, <2>1
         DEF WorkerStep, Acquire, Execute, Call, ReadLock, WriteLock, Unlock,
             Return, ReadHead, WalkOn, WalkOff, Collide, NewNode, LinkNode,
             GrowCount, CopyValue, Terminate, SetLength, FreeValue, SetValue,
             Unlink, FreeNode, ShrinkCount
    <3> QED
      BY <2>p, <3>1, <3>2 DEF Pending
  <2>2. CASE v = w
    <3>1. CASE Call(w)
      <4>1. /\ request'[w] \in Requests /\ pc[w] = "idle" /\ pc'[w] = "lock"
            /\ result'[w] = result[w]
        BY <1>t, <3>1 DEF Call
      <4> QED
        BY <2>p, <2>2, <4>1, NoResultAssumption DEF Pending, Before
    <3>2. CASE Return(w)
      <4>1. pc'[w] = "idle" /\ request'[w] = NoResult /\ result'[w] = NoResult
        BY <1>t, <3>2 DEF Return
      <4> QED
        BY <2>2, <4>1 DEF Pending, Before
    <3>3. CASE ReadLock(w) \/ WriteLock(w) \/ ReadHead(w) \/ WalkOn(w)
               \/ NewNode(w) \/ SetLength(w) \/ FreeValue(w)
      <4>1. /\ request' = request /\ result' = result
            /\ pc[w] \in Before \ {"idle"} /\ pc'[w] \in Before \ {"idle"}
        BY <1>t, <3>3 DEF ReadLock, WriteLock, ReadHead, WalkOn, NewNode,
           SetLength, FreeValue, Before
      <4> QED
        BY <2>p, <2>2, <4>1 DEF Pending
    <3>4. CASE Unlock(w) \/ GrowCount(w) \/ Terminate(w) \/ FreeNode(w)
               \/ ShrinkCount(w)
      <4>1. /\ request' = request /\ result' = result
            /\ pc[w] \notin Before /\ pc'[w] \notin Before
        BY <1>t, <3>4 DEF Unlock, GrowCount, Terminate, FreeNode, ShrinkCount,
           Before
      <4> QED
        BY <2>p, <2>2, <4>1 DEF Pending, Before
    <3>5. CASE WalkOff(w) \/ Collide(w) \/ LinkNode(w) \/ CopyValue(w)
               \/ SetValue(w) \/ Unlink(w)
      <4>1. /\ request' = request
            /\ pc[w] \in Before \ {"idle"} /\ pc'[w] \notin Before
        BY <1>t, <3>5 DEF WalkOff, Collide, LinkNode, CopyValue, SetValue,
           Unlink, Before
      <4>2. result'[w] /= NoResult
        <5>1. CASE CopyValue(w)
          <6>1. node[cursor[w]] \in NodeContents
            BY <5>1, CursorAllocated DEF CopyValue, Found
          <6>2. node[cursor[w]].value \in Values
            BY <6>1 DEF NodeContents
          <6> QED
            BY <1>t, <5>1, <6>2, OutcomeIs DEF CopyValue
        <5>2. CASE ~CopyValue(w)
          <6>1. /\ Outcome(0, NoValue) /= NoResult
                /\ Outcome(1, NoValue) /= NoResult
            BY OutcomeIs
          <6>2. result'[w] \in {Outcome(0, NoValue), Outcome(1, NoValue)}
            BY <1>t, <3>5, <5>2 DEF WalkOff, Collide, LinkNode, SetValue,
               Unlink
          <6> QED
            BY <6>1, <6>2
        <5> QED
          BY <5>1, <5>2
      <4> QED
        BY <2>p, <2>2, <4>1, <4>2 DEF Pending, Before
    <3> QED
      BY <1>1, <3>1, <3>2, <3>3, <3>4, <3>5 DEF WorkerStep, Acquire, Execute
  <2> QED
    BY <2>1, <2>2
<1>2. CASE skvs_destroy \/ UNCHANGED vars
  <2>1. UNCHANGED <<pc, request, result>>
    BY <1>2 DEF skvs_destroy, vars, localVars
  <2> QED
    BY <2>1 DEF CallsInv, Pending
<1> QED
  BY <1>1, <1>2 DEF Next, WorkerStep, CallsInv

(* The map's value of a key, read off the list.                            *)
LEMMA StoredIs ==
  ASSUME TableInv, NEW k \in Keys
  PROVE  /\ hash[k] \in Buckets
         /\ \A n \in InBucket(hash[k]) :
              node[n].key = k => /\ StoredValue(k) = node[n].value
                                 /\ node[n].value \in Values
                                 /\ Holding(k) = {n}
         /\ (\A n \in InBucket(hash[k]) : node[n].key /= k) =>
              StoredValue(k) = NoValue
<1>1. hash[k] \in Buckets
  BY HashAssumption
<1>2. ListOf(hash[k]) /\ Types
  BY <1>1 DEF TableInv, LockInv
<1>3. ASSUME NEW n \in InBucket(hash[k]), node[n].key = k
      PROVE  /\ StoredValue(k) = node[n].value /\ node[n].value \in Values
             /\ Holding(k) = {n}
  <2>1. Holding(k) = {n}
    BY <1>2, <1>3 DEF Holding, ListOf
  <2>2. node[n] \in NodeContents
    BY <1>2 DEF ListOf, Types
  <2> QED
    BY <2>1, <2>2 DEF StoredValue, NodeContents
<1>4. (\A n \in InBucket(hash[k]) : node[n].key /= k) => StoredValue(k) = NoValue
  BY DEF StoredValue, Holding
<1> QED
  BY <1>1, <1>3, <1>4

(* A key keeps its value when the nodes that hold it stay and keep theirs. *)
LEMMA StoredSame ==
  ASSUME NEW k \in Keys, Holding(k)' = Holding(k),
         \A n \in Holding(k) : node'[n].value = node[n].value
  PROVE  StoredValue(k)' = StoredValue(k)
  BY DEF StoredValue

(* Lists whose nodes keep their keys and values hold the same map.         *)
LEMMA StoreKept ==
  ASSUME NEW k \in Keys, InBucket(hash[k])' = InBucket(hash[k]),
         \A n \in InBucket(hash[k]) : /\ node'[n].key = node[n].key
                                      /\ node'[n].value = node[n].value
  PROVE  StoredValue(k)' = StoredValue(k)
<1>1. Holding(k)' = Holding(k)
  BY DEF Holding
<1> QED
  BY <1>1, StoredSame DEF Holding

(* The steps that do not change the map.                                   *)
LEMMA QuietStore ==
  ASSUME TableInv, NEW w \in Workers, WorkerStep(w),
         ~LinkNode(w), ~Unlink(w), ~SetValue(w), NEW k \in Keys
  PROVE  StoredValue(k)' = StoredValue(k)
<1>t. Types /\ ListOf(hash[k]) /\ hash[k] \in Buckets
  BY HashAssumption DEF TableInv, LockInv
<1>1. /\ InBucket(hash[k])' = InBucket(hash[k])
      /\ \A n \in InBucket(hash[k]) : node'[n].key = node[n].key
  BY <1>t, SteadyList, SteadyNodes
<1>2. \A n \in InBucket(hash[k]) :
        n \in allocated /\ n \in Nodes /\ node[n] \in NodeContents
  BY <1>t, BucketFinite DEF ListOf, Types
<1>3. \A n \in InBucket(hash[k]) : node'[n].value = node[n].value
  <2> USE DEF Goto, Finish, tableVars, lockVars, localVars
  <2>1. CASE NewNode(w)
    BY <2>1, <1>2, <1>t DEF NewNode, Types, TypeOK
  <2>2. CASE SetLength(w)
    BY <2>2, <1>2, <1>t DEF SetLength, Types, TypeOK, NodeContents
  <2>3. CASE FreeValue(w)
    BY <2>3, <1>2, <1>t DEF FreeValue, Types, TypeOK, NodeContents
  <2>4. CASE FreeNode(w)
    <3>1. cursor[w] \notin InBucket(hash[k])
      BY <1>t, <2>4 DEF TableInv, Owned, Owns, FreeNode
    <3> QED
      BY <2>4, <3>1, <1>2, <1>t DEF FreeNode, Types, TypeOK
  <2>5. CASE node' = node
    BY <2>5
  <2>6. CASE Call(w) \/ ReadLock(w) \/ WriteLock(w) \/ Unlock(w) \/ Return(w)
             \/ ReadHead(w) \/ WalkOn(w) \/ WalkOff(w) \/ Collide(w)
             \/ CopyValue(w) \/ Terminate(w) \/ GrowCount(w)
             \/ ShrinkCount(w)
    BY <2>5, <2>6 DEF Call, ReadLock, WriteLock, Unlock, Return, ReadHead,
      WalkOn, WalkOff, Collide, CopyValue, Terminate, GrowCount, ShrinkCount
  <2> QED
    BY <2>1, <2>2, <2>3, <2>4, <2>6 DEF WorkerStep, Acquire, Execute
<1> QED
  BY <1>1, <1>3, StoreKept

(* The steps that do leave the keys of the other requests alone.           *)
LEMMA OtherKeys ==
  ASSUME TableInv, NEW w \in Workers,
         LinkNode(w) \/ Unlink(w) \/ SetValue(w),
         NEW k \in Keys, k /= request[w].key
  PROVE  StoredValue(k)' = StoredValue(k)
<1>t. Types /\ LockInv
  BY DEF TableInv, LockInv
<1>k. PICK a \in Buckets : a = hash[k]
  BY HashAssumption
<1>b. PICK b \in Buckets : b = Bucket(w)
  BY <1>t, HasBucket DEF LinkNode, Unlink, SetValue
<1>s. WorkerStep(w)
  BY DEF WorkerStep, Execute
<1>1. CASE a /= b
  <2>1. ~Writes(w, a)
    BY <1>b, <1>1 DEF Writes
  <2>2. InBucket(a)' = InBucket(a) /\ \A n \in InBucket(a) : node'[n] = node[n]
    BY <1>s, <2>1, Untouched, UntouchedList
  <2> QED
    BY <1>k, <2>2, StoreKept
<1>2. CASE a = b
  <2>l. /\ ListOf(b) /\ LocalAt(w, b)
        /\ \A n \in InBucket(b) :
             n \in allocated /\ n \in Nodes /\ node[n] \in NodeContents
    BY <1>t, <1>b, BucketFinite DEF TableInv, Local, ListOf, Types
  <2>1. CASE LinkNode(w)
    <3>1. InBucket(b)' = InBucket(b) \cup {cursor[w]} /\ node' = node
      BY <1>b, <2>1, LinkList DEF LinkNode
    <3>2. node[cursor[w]].key = request[w].key
      BY <2>l, <2>1 DEF LinkNode, LocalAt
    <3>3. Holding(k)' = Holding(k)
      BY <1>k, <1>2, <3>1, <3>2 DEF Holding
    <3> QED
      BY <3>1, <3>3, StoredSame
  <2>2. CASE SetValue(w)
    <3>1. cursor[w] \in InBucket(b) /\ node[cursor[w]].key = request[w].key
      BY <2>l, <2>2 DEF SetValue, LocalAt, Updating
    <3>2. /\ InBucket(b)' = InBucket(b)
          /\ \A n \in InBucket(b) : node'[n].key = node[n].key
      BY <1>s, <2>2, SteadyList, SteadyNodes DEF SetValue, LinkNode, Unlink
    <3>3. \A n \in Nodes : n /= cursor[w] => node'[n] = node[n]
      BY <1>t, <2>2 DEF SetValue, Types, TypeOK
    <3>4. Holding(k)' = Holding(k)
      BY <1>k, <1>2, <3>2 DEF Holding
    <3>5. \A n \in Holding(k) : n \in Nodes /\ n /= cursor[w]
      BY <1>k, <1>2, <2>l, <3>1 DEF Holding
    <3> QED
      BY <3>3, <3>4, <3>5, StoredSame
  <2>3. CASE Unlink(w)
    <3>1. InBucket(b)' = InBucket(b) \ {cursor[w]}
      BY <1>b, <2>3, UnlinkList
    <3>2. node[cursor[w]].key = request[w].key
      BY <2>3 DEF Unlink, Found
    <3>3. \A n \in InBucket(b) : /\ node'[n].key = node[n].key
                                 /\ node'[n].value = node[n].value
      BY <1>t, <2>l, <2>3 DEF Unlink, Types, TypeOK, NodeContents
    <3>4. Holding(k)' = Holding(k)
      BY <1>k, <1>2, <3>1, <3>2, <3>3 DEF Holding
    <3> QED
      BY <1>k, <1>2, <3>3, <3>4, StoredSame DEF Holding
  <2> QED
    BY <2>1, <2>2, <2>3
<1> QED
  BY <1>1, <1>2

(* What they do to the key of the request, and what was there before.      *)
LEMMA OwnKey ==
  ASSUME TableInv, TableInv', NEW w \in Workers,
         NEW k \in Keys, k = request[w].key
  PROVE  /\ LinkNode(w) => /\ StoredValue(k) = NoValue
                           /\ StoredValue(k)' = request[w].value
         /\ SetValue(w) => /\ StoredValue(k) \in Values
                           /\ StoredValue(k)' = request[w].value
         /\ Unlink(w) => /\ StoredValue(k) \in Values
                         /\ StoredValue(k)' = NoValue
<1>t. Types /\ LockInv /\ Types'
  BY DEF TableInv, LockInv
<1>b. PICK b \in Buckets : b = hash[k]
  BY HashAssumption
<1>w. Bucket(w) = b
  BY <1>b DEF Bucket
<1>l. /\ ListOf(b) /\ LocalAt(w, b)
      /\ \A n \in InBucket(b) :
           n \in allocated /\ n \in Nodes /\ node[n] \in NodeContents
  BY <1>t, <1>w, BucketFinite DEF TableInv, Local, ListOf, Types
<1>1. ASSUME LinkNode(w)
      PROVE  StoredValue(k) = NoValue /\ StoredValue(k)' = request[w].value
  <2>1. InBucket(b)' = InBucket(b) \cup {cursor[w]} /\ node' = node
    BY <1>1, <1>w, LinkList DEF LinkNode
  <2>2. /\ node[cursor[w]].key = k
        /\ \A n \in InBucket(b) : node[n].key /= k
    BY <1>1, <1>l DEF LinkNode, LocalAt
  <2>3. Holding(k)' = {cursor[w]}
    BY <1>b, <2>1, <2>2 DEF Holding
  <2>4. StoredValue(k)' = node[cursor[w]].value
    BY <2>1, <2>3 DEF StoredValue
  <2>5. node[cursor[w]].value = request[w].value
    BY <1>1, <1>l DEF LinkNode, LocalAt
  <2> QED
    BY <1>b, <2>2, <2>4, <2>5, StoredIs
<1>2. ASSUME SetValue(w)
      PROVE  StoredValue(k) \in Values /\ StoredValue(k)' = request[w].value
  <2>1. PICK c \in InBucket(b) : c = cursor[w] /\ node[c].key = k
    BY <1>2, <1>l DEF SetValue, LocalAt, Updating
  <2>2. WorkerStep(w) /\ ~LinkNode(w) /\ ~Unlink(w)
    BY <1>2 DEF WorkerStep, Execute, SetValue, LinkNode, Unlink
  <2>3. /\ InBucket(b)' = InBucket(b)
        /\ \A n \in InBucket(b) : node'[n].key = node[n].key
    BY <2>2, SteadyList, SteadyNodes
  <2>4. Holding(k) = {c}
    BY <1>b, <2>1, StoredIs
  <2>5. Holding(k)' = {c}
    BY <1>b, <2>3, <2>4 DEF Holding
  <2>6. node'[c].value = request[w].value
    BY <1>t, <1>l, <1>2, <2>1 DEF SetValue, Types, TypeOK, NodeContents
  <2>7. StoredValue(k)' = request[w].value
    BY <2>5, <2>6 DEF StoredValue
  <2> QED
    BY <1>b, <2>1, <2>7, StoredIs
<1>3. ASSUME Unlink(w)
      PROVE  StoredValue(k) \in Values /\ StoredValue(k)' = NoValue
  <2>1. PICK c \in InBucket(b) : c = cursor[w] /\ node[c].key = k
    BY <1>3, <1>w, CursorAllocated DEF Unlink, Found
  <2>2. InBucket(b)' = InBucket(b) \ {c}
    BY <1>3, <1>w, <2>1, UnlinkList
  <2>3. ASSUME NEW n \in InBucket(b) PROVE node'[n].key = node[n].key
    <3>1. /\ n \in Nodes /\ node[n] \in NodeContents
          /\ node \in [Nodes -> NodeContents \cup {Garbage}]
      BY <1>l, <1>t DEF Types, TypeOK
    <3>2. CASE node' = node
      BY <3>2
    <3>3. CASE node' = [node EXCEPT ![prev[w]].next = node[cursor[w]].next]
      BY <3>1, <3>3 DEF NodeContents
    <3> QED
      BY <1>3, <3>2, <3>3 DEF Unlink
  <2>4. \A n \in InBucket(b) : node[n].key = k => n = c
    BY <1>l, <2>1 DEF ListOf
  <2>5. Holding(k)' = {}
    BY <1>b, <2>2, <2>3, <2>4 DEF Holding
  <2>6. StoredValue(k)' = NoValue
    BY <2>5 DEF StoredValue
  <2> QED
    BY <1>b, <2>1, <2>6, StoredIs
<1> QED
  BY <1>1, <1>2, <1>3

(* What KVStore's operations return and store, case by case.               *)
StoreMap == [k \in Keys |-> StoredValue(k)]
DumpMap == IF dump = NoResult THEN NoResult ELSE dump.pairs

LEMMA AbstractOutcome ==
  ASSUME NEW r \in Requests, NEW s, s = StoredValue(r.key)
  PROVE  /\ r.op = "insert" /\ s = NoValue =>
              Abstract!Outcome(r) = Outcome(1, NoValue)
         /\ r.op = "insert" /\ s /= NoValue =>
              Abstract!Outcome(r) = Outcome(0, NoValue)
         /\ r.op \in {"update", "delete"} /\ s /= NoValue =>
              Abstract!Outcome(r) = Outcome(1, NoValue)
         /\ r.op /= "insert" /\ s = NoValue =>
              Abstract!Outcome(r) = Outcome(0, NoValue)
         /\ r.op = "search" /\ s /= NoValue =>
              Abstract!Outcome(r) = Outcome(1, s)
<1>1. r.key \in Keys
  BY DEF Requests
<1>2. Abstract!Outcome(r) =
        [ret |-> IF (r.op = "insert") = (s /= NoValue) THEN 0 ELSE 1,
         value |-> IF r.op = "search" THEN s ELSE NoValue]
  BY <1>1 DEF Abstract!Outcome
<1> QED
  BY <1>2 DEF Outcome

LEMMA AbstractStore ==
  ASSUME NEW r \in Requests, NEW o, o = Abstract!Outcome(r).ret
  PROVE  /\ o = 0 \/ r.op = "search" => Abstract!StoreAfter(r) = StoreMap
         /\ o = 1 /\ r.op \in {"insert", "update"} =>
              Abstract!StoreAfter(r) = [StoreMap EXCEPT ![r.key] = r.value]
         /\ o = 1 /\ r.op = "delete" =>
              Abstract!StoreAfter(r) = [StoreMap EXCEPT ![r.key] = NoValue]
  BY DEF Abstract!StoreAfter, StoreMap

LEMMA InitImplements == Init => Abstract!Init
<1> SUFFICES ASSUME Init PROVE Abstract!Init
  OBVIOUS
<1>1. TableInv
  BY InitTable
<1>2. \A k \in Keys : InBucket(hash[k]) = {}
  BY ReachNull, HashAssumption DEF Init, InBucket, Chain
<1>3. \A k \in Keys : StoredValue(k) = NoValue
  BY <1>1, <1>2, StoredIs
<1> QED
  BY <1>3 DEF Init, Abstract!Init

(* The six steps at which an operation takes effect.                       *)
LEMMA EffectStep ==
  ASSUME TableInv, TableInv', CallsInv, NEW w \in Workers,
         \/ WalkOff(w) \/ Collide(w) \/ LinkNode(w) \/ CopyValue(w)
         \/ SetValue(w) \/ Unlink(w)
  PROVE  Abstract!TakeEffect(w)
<1>t. Types /\ LockInv /\ Pending(w)
  BY DEF TableInv, LockInv, CallsInv
<1>s. WorkerStep(w)
  BY DEF WorkerStep, Execute
<1>p. /\ pc[w] \in Before \ {"idle"} /\ request' = request /\ dump' = dump
  BY DEF WalkOff, Collide, LinkNode, CopyValue, SetValue, Unlink, Before,
         localVars, tableVars
<1>c. request[w] /= NoResult /\ result[w] = NoResult
  BY <1>t, <1>p DEF Pending
<1>r. PICK r \in Requests : r = request[w]
  BY <1>t, <1>p DEF Types
<1>k. PICK k \in Keys : k = r.key
  BY <1>r DEF Requests
<1>b. PICK b \in Buckets : b = hash[k]
  BY HashAssumption
<1>w. Bucket(w) = b
  BY <1>r, <1>k, <1>b DEF Bucket
<1>l. LocalAt(w, b)
  BY <1>w DEF TableInv, Local
<1>o. \A j \in Keys : j /= k /\ (LinkNode(w) \/ Unlink(w) \/ SetValue(w)) =>
        StoredValue(j)' = StoredValue(j)
  BY <1>r, <1>k, OtherKeys
<1>q. ~(LinkNode(w) \/ Unlink(w) \/ SetValue(w)) => StoreMap' = StoreMap
  BY <1>s, QuietStore DEF StoreMap
<1>m. /\ \A n \in InBucket(b) : node[n].key = k => /\ StoredValue(k) = node[n].value
                                                 /\ node[n].value \in Values
      /\ (\A n \in InBucket(b) : node[n].key /= k) => StoredValue(k) = NoValue
  BY <1>b, StoredIs
<1>v. \A x \in Values : x /= NoValue
  BY NullAssumption
<1>u. /\ Outcome(0, NoValue).ret = 0 /\ Outcome(1, NoValue).ret = 1
  BY DEF Outcome
<1>e. SUFFICES /\ result' = [result EXCEPT ![w] = Abstract!Outcome(r)]
               /\ StoreMap' = Abstract!StoreAfter(r)
  BY <1>p, <1>c, <1>r DEF Abstract!TakeEffect, StoreMap
<1>1. CASE WalkOff(w)
  <2>1. /\ cursor[w] = Null /\ r.op /= "insert" /\ pc[w] = "walk"
        /\ result' = [result EXCEPT ![w] = Outcome(0, NoValue)]
    BY <1>r, <1>1 DEF WalkOff, Finish
  <2>2. Chain(cursor[w]) = {}
    BY <2>1, ReachNull DEF Chain
  <2>3. \A n \in InBucket(b) : node[n].key /= k
    BY <1>l, <1>r, <1>k, <2>1, <2>2 DEF LocalAt
  <2>4. StoredValue(k) = NoValue
    BY <1>m, <2>3
  <2>5. Abstract!Outcome(r) = Outcome(0, NoValue)
    BY <1>k, <2>1, <2>4, AbstractOutcome
  <2>6. Abstract!StoreAfter(r) = StoreMap
    BY <1>u, <2>5, AbstractStore
  <2>7. StoreMap' = StoreMap
    BY <1>1, <1>q DEF WalkOff, LinkNode, Unlink, SetValue, Found
  <2> QED
    BY <2>1, <2>5, <2>6, <2>7
<1>f. ASSUME Found(w), pc[w] = "walk"
      PROVE  StoredValue(k) = node[cursor[w]].value /\ StoredValue(k) /= NoValue
  <2>1. cursor[w] \in InBucket(b) /\ node[cursor[w]].key = k
    BY <1>f, <1>w, <1>r, <1>k, CursorAllocated DEF Found
  <2> QED
    BY <1>m, <1>v, <2>1
<1>2. CASE Collide(w)
  <2>1. /\ r.op = "insert" /\ pc[w] = "walk" /\ Found(w)
        /\ result' = [result EXCEPT ![w] = Outcome(0, NoValue)]
    BY <1>r, <1>2 DEF Collide, Finish
  <2>5. Abstract!Outcome(r) = Outcome(0, NoValue)
    BY <1>k, <1>f, <2>1, AbstractOutcome
  <2>6. Abstract!StoreAfter(r) = StoreMap
    BY <1>u, <2>5, AbstractStore
  <2>7. StoreMap' = StoreMap
    BY <1>r, <2>1, <1>q DEF LinkNode, Unlink, SetValue
  <2> QED
    BY <2>1, <2>5, <2>6, <2>7
<1>3. CASE CopyValue(w)
  <2>1. /\ r.op = "search" /\ pc[w] = "walk" /\ Found(w)
        /\ result' = [result EXCEPT ![w] = Outcome(1, node[cursor[w]].value)]
    BY <1>r, <1>3 DEF CopyValue, Finish
  <2>5. Abstract!Outcome(r) = Outcome(1, node[cursor[w]].value)
    BY <1>k, <1>f, <2>1, AbstractOutcome
  <2>6. Abstract!StoreAfter(r) = StoreMap
    BY <2>1, AbstractStore
  <2>7. StoreMap' = StoreMap
    BY <1>r, <2>1, <1>q DEF LinkNode, Unlink, SetValue
  <2> QED
    BY <2>1, <2>5, <2>6, <2>7
<1>4. CASE LinkNode(w)
  <2>1. /\ r.op = "insert"
        /\ result' = [result EXCEPT ![w] = Outcome(1, NoValue)]
    BY <1>r, <1>t, <1>4 DEF LinkNode, Finish, LockInv, Operations, OpAt
  <2>2. StoredValue(k) = NoValue /\ StoredValue(k)' = r.value
    BY <1>r, <1>k, <1>4, OwnKey
  <2>3. Abstract!Outcome(r) = Outcome(1, NoValue)
    BY <1>k, <2>1, <2>2, AbstractOutcome
  <2>4. Abstract!StoreAfter(r) = [StoreMap EXCEPT ![k] = r.value]
    BY <1>k, <1>u, <2>1, <2>3, AbstractStore
  <2>5. StoreMap' = [StoreMap EXCEPT ![k] = r.value]
    BY <1>o, <1>4, <2>2 DEF StoreMap
  <2> QED
    BY <2>1, <2>3, <2>4, <2>5
<1>5. CASE SetValue(w)
  <2>1. /\ r.op = "update"
        /\ result' = [result EXCEPT ![w] = Outcome(1, NoValue)]
    BY <1>r, <1>t, <1>5 DEF SetValue, Finish, LockInv, Operations, OpAt
  <2>2. StoredValue(k) /= NoValue /\ StoredValue(k)' = r.value
    BY <1>r, <1>k, <1>v, <1>5, OwnKey
  <2>3. Abstract!Outcome(r) = Outcome(1, NoValue)
    BY <1>k, <2>1, <2>2, AbstractOutcome
  <2>4. Abstract!StoreAfter(r) = [StoreMap EXCEPT ![k] = r.value]
    BY <1>k, <1>u, <2>1, <2>3, AbstractStore
  <2>5. StoreMap' = [StoreMap EXCEPT ![k] = r.value]
    BY <1>o, <1>5, <2>2 DEF StoreMap
  <2> QED
    BY <2>1, <2>3, <2>4, <2>5
<1>6. CASE Unlink(w)
  <2>1. /\ r.op = "delete"
        /\ result' = [result EXCEPT ![w] = Outcome(1, NoValue)]
    BY <1>r, <1>6 DEF Unlink, Finish
  <2>2. StoredValue(k) /= NoValue /\ StoredValue(k)' = NoValue
    BY <1>r, <1>k, <1>v, <1>6, OwnKey
  <2>3. Abstract!Outcome(r) = Outcome(1, NoValue)
    BY <1>k, <2>1, <2>2, AbstractOutcome
  <2>4. Abstract!StoreAfter(r) = [StoreMap EXCEPT ![k] = NoValue]
    BY <1>k, <1>u, <2>1, <2>3, AbstractStore
  <2>5. StoreMap' = [StoreMap EXCEPT ![k] = NoValue]
    BY <1>o, <1>6, <2>2 DEF StoreMap
  <2> QED
    BY <2>1, <2>3, <2>4, <2>5
<1> QED
  BY <1>1, <1>2, <1>3, <1>4, <1>5, <1>6

(* main ends the service: KVStore's Destroy.                               *)
LEMMA DestroyStep ==
  ASSUME TableInv, TableInv', CallsInv, skvs_destroy
  PROVE  Abstract!Destroy
<1>t. /\ Types /\ \A b \in Buckets : ListOf(b)
  BY DEF TableInv, LockInv
<1>0. /\ dump = NoResult /\ dump' = hash_dump
      /\ \A w \in Workers : pc[w] = "idle" /\ request[w] = NoResult
      /\ buckets' = [b \in Buckets |-> Null]
      /\ UNCHANGED <<request, result>>
  BY DEF skvs_destroy, localVars, CallsInv, Pending
<1>1. \A b \in Buckets : InBucket(b)' = {}
  BY <1>0, ReachNull DEF InBucket, Chain
<1>2. \A k \in Keys : StoredValue(k)' = NoValue
  BY <1>1, HashAssumption DEF StoredValue, Holding
<1>3. hash_dump.pairs = {<<node[n].key, node[n].value>> :
                           n \in UNION {InBucket(b) : b \in Buckets}}
  <2>1. \A b \in Buckets : bucket_sizes[b] = 0 => InBucket(b) = {}
    <3> SUFFICES ASSUME NEW b \in Buckets, bucket_sizes[b] = 0
                 PROVE  InBucket(b) = {}
      OBVIOUS
    <3>1. bucket_sizes[b] = Cardinality(InBucket(b))
      BY <1>0 DEF TableInv, CountOf, Inside, Critical
    <3> QED
      BY <3>1, BucketFinite, FS_EmptySet
  <2>2. UNION {InBucket(b) : b \in {d \in Buckets : bucket_sizes[d] /= 0}} =
          UNION {InBucket(b) : b \in Buckets}
    BY <2>1
  <2> QED
    BY <2>2 DEF hash_dump
<1>4. \A b \in Buckets : \A n \in InBucket(b) :
        /\ node[n].key \in Keys /\ hash[node[n].key] = b
        /\ node[n].value \in Values /\ node[n].value /= NoValue
        /\ StoredValue(node[n].key) = node[n].value
  <2> SUFFICES ASSUME NEW b \in Buckets, NEW n \in InBucket(b)
               PROVE  /\ node[n].key \in Keys /\ hash[node[n].key] = b
                      /\ node[n].value \in Values /\ node[n].value /= NoValue
                      /\ StoredValue(node[n].key) = node[n].value
    OBVIOUS
  <2>1. node[n] \in NodeContents /\ hash[node[n].key] = b
    BY <1>t DEF ListOf, Types
  <2>2. PICK k \in Keys : k = node[n].key
    BY <2>1 DEF NodeContents
  <2>3. StoredValue(k) = node[n].value /\ node[n].value \in Values
    BY <2>1, <2>2, StoredIs
  <2> QED
    BY <2>1, <2>2, <2>3, NullAssumption
<1>5. \A k \in Keys : StoredValue(k) /= NoValue =>
        \E b \in Buckets : \E n \in InBucket(b) :
          node[n].key = k /\ node[n].value = StoredValue(k)
  BY StoredIs
<1>6. hash_dump.pairs =
        {<<k, StoredValue(k)>> : k \in {j \in Keys : StoredValue(j) /= NoValue}}
  <2>1. ASSUME NEW b \in Buckets, NEW n \in InBucket(b)
        PROVE  \E k \in {j \in Keys : StoredValue(j) /= NoValue} :
                 <<node[n].key, node[n].value>> = <<k, StoredValue(k)>>
    BY <1>4
  <2>2. ASSUME NEW k \in {j \in Keys : StoredValue(j) /= NoValue}
        PROVE  \E b \in Buckets : \E n \in InBucket(b) :
                 <<node[n].key, node[n].value>> = <<k, StoredValue(k)>>
    BY <1>5
  <2> QED
    BY <1>3, <2>1, <2>2
<1>7. hash_dump /= NoResult
  <2>1. hash_dump.total = Cardinality(hash_dump.pairs)
    BY <1>0, DumpCounts
  <2>2. hash_dump.pairs \in SUBSET (Keys \X Values)
    BY <1>3, <1>4
  <2>3. hash_dump.total \in Nat
    <3> DEFINE All == UNION {InBucket(b) : b \in Buckets}
    <3>1. IsFiniteSet(All)
      <4>1. All \subseteq Nodes
        BY BucketFinite
      <4> QED
        BY <4>1, NodesAssumption, FS_Subset
    <3> DEFINE F == [n \in All |-> <<node[n].key, node[n].value>>]
    <3>2. F \in Surjection(All, hash_dump.pairs)
      BY <1>3 DEF Surjection
    <3> HIDE DEF F, All
    <3>3. IsFiniteSet(hash_dump.pairs)
      BY <3>1, <3>2, FS_Surjection
    <3> QED
      BY <2>1, <3>3, FS_CardinalityType
  <2>4. hash_dump = [total |-> hash_dump.total, pairs |-> hash_dump.pairs]
    BY DEF hash_dump
  <2>5. hash_dump \in [total : Nat, pairs : SUBSET (Keys \X Values)]
    BY <2>2, <2>3, <2>4
  <2> QED
    BY <2>5, NoResultAssumption
<1>8. DumpMap' = {<<k, StoredValue(k)>> :
                    k \in {j \in Keys : StoredValue(j) /= NoValue}}
  BY <1>0, <1>6, <1>7 DEF DumpMap
<1> QED
  BY <1>0, <1>2, <1>8 DEF Abstract!Destroy, Abstract!Present, DumpMap

LEMMA StepImplements ==
  ASSUME TableInv, TableInv', CallsInv, [Next]_vars
  PROVE  [Abstract!Next]_(Abstract!vars)
<1>t. Types
  BY DEF TableInv, LockInv
<1>s. (StoreMap' = StoreMap /\ UNCHANGED <<request, result, dump>>) =>
        UNCHANGED Abstract!vars
  BY DEF Abstract!vars, StoreMap
<1>1. ASSUME NEW w \in Workers, WorkerStep(w)
      PROVE  [Abstract!Next]_(Abstract!vars)
  <2>p. Pending(w)
    BY DEF CallsInv
  <2>q. ~LinkNode(w) /\ ~Unlink(w) /\ ~SetValue(w) => StoreMap' = StoreMap
    BY <1>1, QuietStore DEF StoreMap
  <2>1. CASE Call(w)
    <3>1. pc[w] = "idle" /\ dump = NoResult
      BY <2>1 DEF Call
    <3>2. StoreMap' = StoreMap
      BY <2>q, <3>1 DEF LinkNode, Unlink, SetValue
    <3>3. /\ request[w] = NoResult
          /\ \E r \in Requests : request' = [request EXCEPT ![w] = r]
          /\ UNCHANGED <<result, dump>>
      BY <2>1, <2>p, <3>1 DEF Call, Pending, tableVars
    <3>4. Abstract!Invoke(w)
      BY <3>1, <3>2, <3>3
         DEF Abstract!Invoke, Abstract!Ops, Requests, StoreMap
    <3> QED
      BY <3>4 DEF Abstract!Next
  <2>2. CASE Return(w)
    <3>1. /\ pc[w] = "return" /\ UNCHANGED dump
          /\ request' = [request EXCEPT ![w] = NoResult]
          /\ result' = [result EXCEPT ![w] = NoResult]
      BY <2>2 DEF Return, tableVars
    <3>2. StoreMap' = StoreMap
      BY <2>q, <3>1 DEF LinkNode, Unlink, SetValue
    <3>3. result[w] /= NoResult
      BY <2>p, <3>1 DEF Pending, Before
    <3>4. Abstract!Respond(w)
      BY <3>1, <3>2, <3>3 DEF Abstract!Respond, StoreMap
    <3> QED
      BY <3>4 DEF Abstract!Next
  <2>3. CASE WalkOff(w) \/ Collide(w) \/ LinkNode(w) \/ CopyValue(w)
             \/ SetValue(w) \/ Unlink(w)
    <3>1. Abstract!TakeEffect(w)
      BY <2>3, EffectStep
    <3> QED
      BY <3>1 DEF Abstract!Next
  <2>4. CASE ReadLock(w) \/ WriteLock(w) \/ ReadHead(w) \/ WalkOn(w)
             \/ NewNode(w) \/ SetLength(w) \/ FreeValue(w) \/ Unlock(w)
             \/ GrowCount(w) \/ Terminate(w) \/ FreeNode(w) \/ ShrinkCount(w)
    <3>1. UNCHANGED <<request, result, dump>>
      BY <2>4 DEF ReadLock, WriteLock, ReadHead, WalkOn, NewNode, SetLength,
         FreeValue, Unlock, GrowCount, Terminate, FreeNode, ShrinkCount,
         tableVars, localVars
    <3>2. StoreMap' = StoreMap
      BY <1>t, <2>4, <2>q DEF ReadLock, WriteLock, ReadHead, WalkOn, NewNode,
         SetLength, FreeValue, Unlock, GrowCount, Terminate, FreeNode,
         ShrinkCount, LinkNode, Unlink, SetValue, Goto, Finish, Types
    <3> QED
      BY <1>s, <3>1, <3>2
  <2> QED
    BY <1>1, <2>1, <2>2, <2>3, <2>4 DEF WorkerStep, Acquire, Execute
<1>2. CASE skvs_destroy
  <2>1. Abstract!Destroy
    BY <1>2, DestroyStep
  <2> QED
    BY <2>1 DEF Abstract!Next
<1>3. CASE UNCHANGED vars
  <2>1. UNCHANGED <<node, buckets, request, result, dump>>
    BY <1>3 DEF vars, tableVars, localVars
  <2>2. StoreMap' = StoreMap
    BY <2>1 DEF StoreMap, StoredValue, Holding, InBucket, Chain
  <2> QED
    BY <1>s, <2>1, <2>2
<1> QED
  BY <1>1, <1>2, <1>3 DEF Next, WorkerStep

(* The table is linearizable: it implements KVStore, where every operation *)
(* takes effect at one instant.                                            *)
THEOREM ImplementsMap == Spec => Linearizable
<1>1. Init => CallsInv /\ Abstract!Init
  BY CallsInit, InitImplements
<1>2. TableInv /\ CallsInv /\ [Next]_vars => CallsInv'
  BY CallsNext
<1>3. TableInv /\ TableInv' /\ CallsInv /\ [Next]_vars
        => [Abstract!Next]_(Abstract!vars)
  BY StepImplements
<1> QED
  BY <1>1, <1>2, <1>3, TableInvariant, PTL
     DEF Spec, Linearizable, Abstract!Spec
=============================================================================
