------------------------------- MODULE KVStore -------------------------------
(***************************************************************************)
(* What the hash table promises to the workers that share it: a map from   *)
(* keys to values, on which every operation takes effect at one instant    *)
(* between its call and its return (hashtable.h gives the return codes),   *)
(* and which is written out when the service ends.                         *)
(***************************************************************************)
CONSTANTS Workers, Keys, Values, NoValue, NoResult

VARIABLES store,   \* the value of each key, NoValue when it is absent
          request, \* the operation a worker has under way, or NoResult
          result,  \* its outcome once it took effect, NoResult before
          dump     \* what was written out, NoResult before

vars == <<store, request, result, dump>>

Ops == [op : {"insert", "update"}, key : Keys, value : Values]
       \union [op : {"search", "delete"}, key : Keys, value : {NoValue}]

(* 1: done, 0: the key is already there (insert) or is missing (others).   *)
Outcome(r) ==
  LET present == store[r.key] /= NoValue
  IN  [ret   |-> IF (r.op = "insert") = present THEN 0 ELSE 1,
       value |-> IF r.op = "search" THEN store[r.key] ELSE NoValue]

StoreAfter(r) ==
  CASE Outcome(r).ret = 0 \/ r.op = "search" -> store
    [] Outcome(r).ret = 1 /\ r.op \in {"insert", "update"} ->
         [store EXCEPT ![r.key] = r.value]
    [] Outcome(r).ret = 1 /\ r.op = "delete" ->
         [store EXCEPT ![r.key] = NoValue]

Init ==
  /\ store = [k \in Keys |-> NoValue]
  /\ request = [w \in Workers |-> NoResult]
  /\ result = [w \in Workers |-> NoResult]
  /\ dump = NoResult

Invoke(w) ==
  /\ request[w] = NoResult /\ dump = NoResult
  /\ \E r \in Ops : request' = [request EXCEPT ![w] = r]
  /\ UNCHANGED <<store, result, dump>>

TakeEffect(w) ==
  /\ request[w] /= NoResult
  /\ result[w] = NoResult
  /\ result' = [result EXCEPT ![w] = Outcome(request[w])]
  /\ store' = StoreAfter(request[w])
  /\ UNCHANGED <<request, dump>>

Respond(w) ==
  /\ result[w] /= NoResult
  /\ request' = [request EXCEPT ![w] = NoResult]
  /\ result' = [result EXCEPT ![w] = NoResult]
  /\ UNCHANGED <<store, dump>>

(* The map is written out, key by key, and given up.                       *)
Present == {k \in Keys : store[k] /= NoValue}
Destroy ==
  /\ dump = NoResult /\ \A w \in Workers : request[w] = NoResult
  /\ dump' = {<<k, store[k]>> : k \in Present}
  /\ store' = [k \in Keys |-> NoValue]
  /\ UNCHANGED <<request, result>>

Next ==
  \/ \E w \in Workers : Invoke(w) \/ TakeEffect(w) \/ Respond(w)
  \/ Destroy

Spec == Init /\ [][Next]_vars
=============================================================================
