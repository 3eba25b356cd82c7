------------------------------ MODULE HashTable ------------------------------
(***************************************************************************)
(* The concurrent hash table of lab5/src/hashtable.c: buckets of linked    *)
(* nodes, one read-write lock per bucket.  Workers interleave at every     *)
(* access to shared memory, inside the critical sections too: whether the  *)
(* locks make these sections safe is what is checked, not assumed.         *)
(*                                                                         *)
(* The per-bucket lock is RWLockSpec without its order of grants: it lets  *)
(* in every thread that the lock might let in, so what holds here holds    *)
(* under rwlock.c's lock.  A node is a cell of a small heap; freeing it    *)
(* makes it available to malloc again and its contents meaningless.        *)
(* A value's length stands for its own field, since hash_update sets it    *)
(* before it replaces the pointer.                                         *)
(***************************************************************************)
EXTENDS Integers, Sequences, FiniteSets, Functions, Folds

CONSTANTS Workers,   \* the threads that call the table
          Keys, Values,
          Buckets,   \* 0 .. hash_size - 1
          hash,      \* the bucket of each key
          Nodes,     \* the cells malloc can return
          Null,      \* the NULL pointer
          NoValue,   \* "no value": search and delete take none
          NoResult

ASSUME HashAssumption == hash \in [Keys -> Buckets]
ASSUME BucketsAssumption == Buckets \subseteq Nat /\ IsFiniteSet(Buckets)
ASSUME NodesAssumption == IsFiniteSet(Nodes)
ASSUME NullAssumption == Null \notin Nodes /\ NoValue \notin Values

VARIABLES buckets,      \* first node of each bucket
          bucket_sizes, \* entries of each bucket
          node,         \* contents of every cell
          allocated,    \* the cells malloc gave out and free did not take back
          dump,         \* what hash_dump printed, NoResult while it is in use
          readers,      \* who holds each bucket's lock for reading
          writer,       \* who holds it for writing (at most one)
          pc,           \* the next statement of each worker
          request,      \* the call it executes
          cursor, prev, \* its local pointers of the same names
          dst,          \* what hash_search copied, and the NUL's position
          result        \* what the call is going to return

tableVars == <<buckets, bucket_sizes, node, allocated, dump>>
lockVars == <<readers, writer>>
localVars == <<request, cursor, prev, dst, result>>
vars == <<tableVars, lockVars, pc, localVars>>

Requests == [op : {"insert", "update"}, key : Keys, value : Values]
            \union [op : {"search", "delete"}, key : Keys, value : {NoValue}]
NodeContents == [key : Keys, value : Values, value_size : Values,
                 value_live : BOOLEAN, next : Nodes \union {Null}]
Garbage == [key |-> NoValue, value |-> NoValue, value_size |-> NoValue,
            value_live |-> FALSE, next |-> Null]

ASSUME NoResultAssumption ==  \* it is none of what it stands in for
  /\ NoResult \notin Requests
  /\ NoResult \notin [ret : {0, 1}, value : Values \union {NoValue}]
  /\ NoResult \notin [total : Nat, pairs : SUBSET (Keys \X Values)]

Bucket(w) == hash[request[w].key]
Outcome(r, v) == [ret |-> r, value |-> v]

(* hash_init: empty buckets, unlocked locks.                               *)
Init ==
  /\ buckets = [b \in Buckets |-> Null]
  /\ bucket_sizes = [b \in Buckets |-> 0]
  /\ node = [n \in Nodes |-> Garbage]
  /\ allocated = {} /\ dump = NoResult
  /\ readers = [b \in Buckets |-> {}]
  /\ writer = [b \in Buckets |-> {}]
  /\ pc = [w \in Workers |-> "idle"]
  /\ request = [w \in Workers |-> NoResult]
  /\ cursor = [w \in Workers |-> Null]
  /\ prev = [w \in Workers |-> Null]
  /\ dst = [w \in Workers |-> NoResult]
  /\ result = [w \in Workers |-> NoResult]

(* Move worker w to another statement.                                     *)
Goto(w, label) == pc' = [pc EXCEPT ![w] = label]
(* w has decided what to return and goes on to release the lock.           *)
Finish(w, label, outcome) ==
  /\ Goto(w, label)
  /\ result' = [result EXCEPT ![w] = outcome]

-----------------------------------------------------------------------------
(* skvs_serve calls one of the four operations.                            *)
Call(w) ==
  /\ pc[w] = "idle" /\ dump = NoResult
  /\ \E r \in Requests : request' = [request EXCEPT ![w] = r]
  /\ Goto(w, "lock")
  /\ UNCHANGED <<tableVars, lockVars, cursor, prev, dst, result>>

(* Whom the bucket's lock lets in.  Mutants: it lets readers in beside a   *)
(* writer, a writer beside readers, a writer beside another.               *)
FreeForReadingMutAlways(b) == TRUE
FreeForReading(b) == writer[b] = {}
FreeForWritingMutIgnoresReaders(b) == writer[b] = {}
FreeForWritingMutIgnoresWriters(b) == readers[b] = {}
FreeForWriting(b) == writer[b] = {} /\ readers[b] = {}

(* rwlock_read_lock returned; the next statement reads the bucket's head.  *)
ReadLock(w) ==
  /\ pc[w] = "lock"
  /\ request[w].op = "search"
  /\ FreeForReading(Bucket(w))
  /\ readers' = [readers EXCEPT ![Bucket(w)] = @ \union {w}]
  /\ Goto(w, "head")
  /\ UNCHANGED <<tableVars, writer, localVars>>

(* rwlock_write_lock returned.                                             *)
WriteLock(w) ==
  /\ pc[w] = "lock"
  /\ request[w].op /= "search"
  /\ FreeForWriting(Bucket(w))
  /\ writer' = [writer EXCEPT ![Bucket(w)] = {w}]
  /\ Goto(w, "head")
  /\ UNCHANGED <<tableVars, readers, localVars>>

(* The lock functions release what the same call acquired.                 *)
Unlock(w) ==
  /\ pc[w] = "unlock"
  /\ readers' = [readers EXCEPT ![Bucket(w)] = @ \ {w}]
  /\ writer' = [writer EXCEPT ![Bucket(w)] = @ \ {w}]
  /\ Goto(w, "return")
  /\ UNCHANGED <<tableVars, localVars>>

Return(w) ==
  /\ pc[w] = "return"
  /\ Goto(w, "idle")
  /\ request' = [request EXCEPT ![w] = NoResult]
  /\ cursor' = [cursor EXCEPT ![w] = Null]
  /\ prev' = [prev EXCEPT ![w] = Null]
  /\ dst' = [dst EXCEPT ![w] = NoResult]
  /\ result' = [result EXCEPT ![w] = NoResult]
  /\ UNCHANGED <<tableVars, lockVars>>

-----------------------------------------------------------------------------
(* The loop that all four operations share: from the head, node by node.   *)
ReadHead(w) ==
  /\ pc[w] = "head"
  /\ cursor' = [cursor EXCEPT ![w] = buckets[Bucket(w)]]
  /\ Goto(w, "walk")
  /\ UNCHANGED <<tableVars, lockVars, request, prev, dst, result>>

Found(w) == cursor[w] /= Null /\ node[cursor[w]].key = request[w].key

(* Mutant: prev is not kept.                                               *)
WalkOnMutNoPrev(w) ==
  /\ pc[w] = "walk"
  /\ cursor[w] /= Null /\ ~Found(w)
  /\ cursor' = [cursor EXCEPT ![w] = node[cursor[w]].next]
  /\ UNCHANGED <<tableVars, lockVars, pc, request, prev, dst, result>>

(* strcmp /= 0: prev = node; node = node->next (only delete keeps prev).   *)
WalkOn(w) ==
  /\ pc[w] = "walk"
  /\ cursor[w] /= Null /\ ~Found(w)
  /\ prev' = [prev EXCEPT ![w] = IF request[w].op = "delete" THEN cursor[w]
                                                            ELSE @]
  /\ cursor' = [cursor EXCEPT ![w] = node[cursor[w]].next]
  /\ UNCHANGED <<tableVars, lockVars, pc, request, dst, result>>

(* The end of the list: the key is not there.                              *)
WalkOff(w) ==
  /\ pc[w] = "walk"
  /\ cursor[w] = Null
  /\ request[w].op /= "insert"
  /\ Finish(w, "unlock", Outcome(0, NoValue))
  /\ UNCHANGED <<tableVars, lockVars, request, cursor, prev, dst>>

-----------------------------------------------------------------------------
(* hash_insert                                                             *)
Collide(w) ==
  /\ pc[w] = "walk" /\ request[w].op = "insert" /\ Found(w)
  /\ Finish(w, "unlock", Outcome(0, NoValue))
  /\ UNCHANGED <<tableVars, lockVars, request, cursor, prev, dst>>

(* The next field of a new node n: the head that n is to replace.          *)
OldHead(w, n) == buckets[Bucket(w)]

(* malloc and the assignments to the new node, not yet reachable.          *)
NewNode(w) ==
  /\ pc[w] = "walk" /\ request[w].op = "insert" /\ cursor[w] = Null
  /\ \E n \in Nodes \ allocated :
       /\ allocated' = allocated \union {n}
       /\ node' = [node EXCEPT ![n] =
            [key |-> request[w].key, value |-> request[w].value,
             value_size |-> request[w].value, value_live |-> TRUE,
             next |-> OldHead(w, n)]]
       /\ cursor' = [cursor EXCEPT ![w] = n]
  /\ Goto(w, "link")
  /\ UNCHANGED <<dump, buckets, bucket_sizes, lockVars, request, prev, dst,
                 result>>

LinkNode(w) ==
  /\ pc[w] = "link"
  /\ buckets' = [buckets EXCEPT ![Bucket(w)] = cursor[w]]
  /\ Finish(w, "grow", Outcome(1, NoValue))
  /\ UNCHANGED <<dump, bucket_sizes, node, allocated, lockVars,
                 request, cursor, prev, dst>>

GrowCount(w) ==
  /\ pc[w] = "grow"
  /\ bucket_sizes' = [bucket_sizes EXCEPT ![Bucket(w)] = @ + 1]
  /\ Goto(w, "unlock")
  /\ UNCHANGED <<dump, buckets, node, allocated, lockVars, localVars>>

-----------------------------------------------------------------------------
(* hash_search: strncpy of value_size bytes, then the terminating NUL.     *)
CopyValue(w) ==
  /\ pc[w] = "walk" /\ request[w].op = "search" /\ Found(w)
  /\ dst' = [dst EXCEPT ![w] = [bytes  |-> node[cursor[w]].value,
                                length |-> node[cursor[w]].value_size]]
  /\ Finish(w, "nul", Outcome(1, node[cursor[w]].value))
  /\ UNCHANGED <<tableVars, lockVars, request, cursor, prev>>

Terminate(w) ==
  /\ pc[w] = "nul"
  /\ dst' = [dst EXCEPT ![w].length = node[cursor[w]].value_size]
  /\ Goto(w, "unlock")
  /\ UNCHANGED <<tableVars, lockVars, request, cursor, prev, result>>

-----------------------------------------------------------------------------
(* hash_update: the new length, then free(node->value), then the pointer.  *)
SetLength(w) ==
  /\ pc[w] = "walk" /\ request[w].op = "update" /\ Found(w)
  /\ node' = [node EXCEPT ![cursor[w]].value_size = request[w].value]
  /\ Goto(w, "free_value")
  /\ UNCHANGED <<dump, buckets, bucket_sizes, allocated, lockVars, localVars>>

FreeValue(w) ==
  /\ pc[w] = "free_value"
  /\ node' = [node EXCEPT ![cursor[w]].value_live = FALSE]
  /\ Goto(w, "set_value")
  /\ UNCHANGED <<dump, buckets, bucket_sizes, allocated, lockVars, localVars>>

SetValue(w) ==
  /\ pc[w] = "set_value"
  /\ node' = [node EXCEPT ![cursor[w]].value = request[w].value,
                          ![cursor[w]].value_live = TRUE]
  /\ Finish(w, "unlock", Outcome(1, NoValue))
  /\ UNCHANGED <<dump, buckets, bucket_sizes, allocated, lockVars,
                 request, cursor, prev, dst>>

-----------------------------------------------------------------------------
(* hash_delete: unlink, free the node, count it out.                       *)
Unlink(w) ==
  /\ pc[w] = "walk" /\ request[w].op = "delete" /\ Found(w)
  /\ \/ /\ prev[w] /= Null
        /\ node' = [node EXCEPT ![prev[w]].next = node[cursor[w]].next]
        /\ UNCHANGED buckets
     \/ /\ prev[w] = Null
        /\ buckets' = [buckets EXCEPT ![Bucket(w)] = node[cursor[w]].next]
        /\ UNCHANGED node
  /\ Finish(w, "free_node", Outcome(1, NoValue))
  /\ UNCHANGED <<dump, bucket_sizes, allocated, lockVars, request, cursor,
                 prev, dst>>

FreeNode(w) ==
  /\ pc[w] = "free_node"
  /\ cursor' = [cursor EXCEPT ![w] = node[cursor[w]].next]
  /\ allocated' = allocated \ {cursor[w]}
  /\ node' = [node EXCEPT ![cursor[w]] = Garbage]
  /\ Goto(w, "shrink")
  /\ UNCHANGED <<dump, buckets, bucket_sizes, lockVars,
                 request, prev, dst, result>>

ShrinkCount(w) ==
  /\ pc[w] = "shrink"
  /\ bucket_sizes' = [bucket_sizes EXCEPT ![Bucket(w)] = @ - 1]
  /\ Goto(w, "unlock")
  /\ UNCHANGED <<dump, buckets, node, allocated, lockVars, localVars>>

-----------------------------------------------------------------------------
(* The nodes reachable from a pointer, following next: they are in every   *)
(* set that contains the first one and, with each node, the next.          *)
Reach(contents, p) ==
  {n \in Nodes : \A S \in SUBSET Nodes :
     /\ p \in S \union {Null}
     /\ \A m \in S : contents[m].next \in S \union {Null}
     => n \in S}
Chain(p) == Reach(node, p)
InBucket(b) == Chain(buckets[b])

(* skvs_destroy, by main when the workers are joined: hash_dump prints the *)
(* sum of the counters and the nodes of the buckets whose counter is not   *)
(* 0, and hash_destroy frees nodes and locks bucket by bucket, as far as   *)
(* no lock is held.                                                        *)
hash_dump ==
  [total |-> FoldFunction(+, 0, bucket_sizes),
   pairs |-> {<<node[n].key, node[n].value>> :
                n \in UNION {InBucket(b) :
                              b \in {d \in Buckets : bucket_sizes[d] /= 0}}}]
rwlock_destroy(b) == readers[b] = {} /\ writer[b] = {}
Destroyed == {b \in Buckets : \A a \in Buckets : a < b => rwlock_destroy(a)}

skvs_destroy ==
  /\ dump = NoResult /\ \A w \in Workers : pc[w] = "idle"
  /\ dump' = hash_dump
  /\ LET freed == UNION {InBucket(b) : b \in Destroyed}
     IN  /\ allocated' = allocated \ freed
         /\ node' = [n \in Nodes |-> IF n \in freed THEN Garbage ELSE node[n]]
  /\ buckets' = [b \in Buckets |-> Null]
  /\ bucket_sizes' = [b \in Buckets |-> 0]
  /\ UNCHANGED <<lockVars, pc, localVars>>

-----------------------------------------------------------------------------
Acquire(w) == ReadLock(w) \/ WriteLock(w)
Execute(w) ==
  \/ ReadHead(w) \/ WalkOn(w) \/ WalkOff(w)
  \/ Collide(w) \/ NewNode(w) \/ LinkNode(w) \/ GrowCount(w)
  \/ CopyValue(w) \/ Terminate(w)
  \/ SetLength(w) \/ FreeValue(w) \/ SetValue(w)
  \/ Unlink(w) \/ FreeNode(w) \/ ShrinkCount(w)
  \/ Unlock(w) \/ Return(w)

Next ==
  \/ \E w \in Workers : Call(w) \/ Acquire(w) \/ Execute(w)
  \/ skvs_destroy

Spec == Init /\ [][Next]_vars

-----------------------------------------------------------------------------
TypeOK ==
  /\ buckets \in [Buckets -> Nodes \union {Null}]
  /\ bucket_sizes \in [Buckets -> Nat]
  /\ node \in [Nodes -> NodeContents \union {Garbage}]
  /\ allocated \subseteq Nodes
  /\ readers \in [Buckets -> SUBSET Workers]
  /\ writer \in [Buckets -> SUBSET Workers]
  /\ request \in [Workers -> Requests \union {NoResult}]
  /\ cursor \in [Workers -> Nodes \union {Null}]
  /\ prev \in [Workers -> Nodes \union {Null}]

(* No worker ever dereferences freed memory: not a node, through its own   *)
(* cursor or prev or through the list, nor a value; and the value that it  *)
(* copies or overwrites has the length that belongs to it.                 *)
AccessesSound ==
  /\ \A b \in Buckets : InBucket(b) \subseteq allocated
  /\ \A w \in Workers :
       pc[w] \in {"walk", "nul", "free_value", "set_value", "free_node"}
         => {cursor[w], prev[w]} \ {Null} \subseteq allocated
  /\ \A w \in Workers :
       pc[w] = "walk" /\ Found(w)
         => /\ node[cursor[w]].value_live
            /\ node[cursor[w]].value = node[cursor[w]].value_size
  /\ \A w \in Workers :
       pc[w] \in {"unlock", "return"} /\ dst[w] /= NoResult
         => dst[w].bytes = dst[w].length

(* Everything has its type, and a bucket nobody writes has each key at     *)
(* most once, only keys that hash to it, as many nodes as bucket_sizes     *)
(* says, and an end: no walk runs in circles.  hash_dump counts what it    *)
(* prints.                                                                 *)
BucketsConsistent ==
  /\ TypeOK
  /\ \A b \in Buckets :
       writer[b] = {} =>
         /\ bucket_sizes[b] = Cardinality(InBucket(b))
         /\ \A n \in InBucket(b) : /\ hash[node[n].key] = b
                                   /\ n \notin Chain(node[n].next)
         /\ \A m, n \in InBucket(b) : m /= n => node[m].key /= node[n].key
  /\ dump /= NoResult => dump.total = Cardinality(dump.pairs)

(* Nothing leaks: a lock is held by a worker that is in the midst of its   *)
(* call; when no call is under way the allocated cells are the ones the    *)
(* buckets hold, and hash_destroy frees them all.                          *)
NoLeak ==
  /\ \A b \in Buckets : \A w \in readers[b] \union writer[b] :
       pc[w] \notin {"idle", "lock", "return"}
  /\ (\A w \in Workers : pc[w] = "idle") =>
       allocated = UNION {InBucket(b) : b \in Buckets}

(* The map that the lists represent.                                       *)
Holding(k) == {n \in InBucket(hash[k]) : node[n].key = k}
StoredValue(k) == IF Holding(k) = {} THEN NoValue
                  ELSE node[CHOOSE n \in Holding(k) : TRUE].value

Abstract == INSTANCE KVStore WITH
  store <- [k \in Keys |-> StoredValue(k)],
  dump <- IF dump = NoResult THEN NoResult ELSE dump.pairs

(* The table is linearizable: every operation takes effect in one of its   *)
(* own steps, with the outcome the abstract map gives it there, and what   *)
(* is printed at the end is the map.                                       *)
Linearizable == Abstract!Spec
=============================================================================
