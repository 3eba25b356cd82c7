------------------------------ MODULE Allocator ------------------------------
(***************************************************************************)
(* What a heap manager promises to its client: a block that was given out  *)
(* is as large as it was asked for and shares no unit of memory with any   *)
(* other block until the client gives it back.                             *)
(***************************************************************************)
EXTENDS Integers

CONSTANTS Memory,    \* the units of memory there may be
          Requests,  \* the sizes a client may ask for, in units
          NoRequest

VARIABLES held,   \* the blocks the client holds: [at, units]
          asked   \* the request under way, or NoRequest

vars == <<held, asked>>

Units(b) == b.at .. b.at + b.units - 1

Init == held = {} /\ asked = NoRequest

Malloc ==
  /\ asked = NoRequest
  /\ asked' \in Requests
  /\ UNCHANGED held

Give ==
  /\ asked /= NoRequest
  /\ \E at \in Memory :
       LET new == [at |-> at, units |-> asked] IN
         /\ Units(new) \subseteq Memory
         /\ \A b \in held : Units(b) \cap Units(new) = {}
         /\ held' = held \union {new}
  /\ asked' = NoRequest

(* There is no memory left.                                                *)
Refuse ==
  /\ asked /= NoRequest
  /\ asked' = NoRequest
  /\ UNCHANGED held

Free ==
  /\ asked = NoRequest
  /\ \E b \in held : held' = held \ {b}
  /\ UNCHANGED asked

Next == Malloc \/ Give \/ Refuse \/ Free

Spec == Init /\ [][Next]_vars
=============================================================================
