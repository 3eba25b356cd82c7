---------------------------- MODULE MCDecomment ------------------------------
(* Both comment removers of lab1 read the same input, character by         *)
(* character.                                                              *)
EXTENDS Decomment

VARIABLES dfaState, line, comment_start_line, text, reported

DFA == INSTANCE DecommentDFA WITH state <- dfaState, error <- reported

BothInit == Init /\ DFA!Init
BothNext ==
  /\ Next
  /\ IF Len(input') > Len(input) THEN DFA!Read(input'[Len(input')])
     ELSE DFA!EndOfInput
BothSpec == BothInit /\ [][BothNext]_<<vars, DFA!vars>>

(* The two programs, whose automata have different states, have            *)
(* printed the same text after every character, count the same lines and   *)
(* end with the same status and error message, if the input ends with a    *)
(* newline.                                                                *)
SameText ==
  /\ loop \notin Exits => text = output /\ line = line_cur
  /\ loop \in Exits /\ (input = <<>> \/ input[Len(input)] = "\n") =>
       text = output /\ dfaState = loop /\ reported = error
=============================================================================
