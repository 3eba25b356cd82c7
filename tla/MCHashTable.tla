----------------------------- MODULE MCHashTable -----------------------------
(* Small instances of HashTable: keys that collide, as in rwtest.sh.  An   *)
(* operation touches the bucket of its key only.                           *)
EXTENDS HashTable, TLC

CollidingHash == [k \in Keys |-> 0]

(* Workers, cells, values and the keys of one bucket are only ever         *)
(* compared with each other.                                               *)
Symmetry == UNION {Permutations(S) : S \in {Workers, Nodes, Values, Keys}}
=============================================================================
