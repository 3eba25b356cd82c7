---------------------------- MODULE DecommentDFA -----------------------------
(***************************************************************************)
(* The second comment remover of lab1: decomment_gpt3o.c, one switch over  *)
(* the states of an automaton.                                             *)
(***************************************************************************)
EXTENDS Integers, Sequences

Quotes == {"\"", "'"}
InLiteral(q) == IF q = "'" THEN "CHAR" ELSE "STRING"
InEscape(q) == IF q = "'" THEN "CHAR_ESCAPE" ELSE "STRING_ESCAPE"

VARIABLES state,  \* as in the code; EXIT_SUCCESS or EXIT_FAILURE at the end
          line, comment_start_line,
          text,   \* what was printed to stdout
          error   \* the line printed to stderr, or 0

vars == <<state, line, comment_start_line, text, error>>

Init ==
  /\ state = "CODE"
  /\ line = 1 /\ comment_start_line = 0
  /\ text = <<>> /\ error = 0

Go(next) == state' = next
Putchar(s) == text' = text \o s
CountLine(ch) == line' = IF ch = "\n" THEN line + 1 ELSE line
NewlineOf(ch) == IF ch = "\n" THEN <<ch>> ELSE <<>>

-----------------------------------------------------------------------------
(* A character that is no part of a comment is printed, after the slash    *)
(* that turned out not to begin one.                                       *)
PutThrough(ch, held) ==
  /\ Putchar(Append(held, ch))
  /\ CountLine(ch)
  /\ Go(IF ch \in Quotes THEN InLiteral(ch) ELSE "CODE")
  /\ UNCHANGED <<comment_start_line, error>>

Code(ch) ==
  /\ state = "CODE"
  /\ \/ ch = "/" /\ Go("POSSIBLE_COMMENT")
        /\ UNCHANGED <<line, comment_start_line, text, error>>
     \/ ch /= "/" /\ PutThrough(ch, <<>>)

PossibleComment(ch) ==
  /\ state = "POSSIBLE_COMMENT"
  /\ \/ /\ ch = "*"
        /\ comment_start_line' = line
        /\ Putchar(<<" ">>) /\ Go("COMMENT_MULTI")
        /\ UNCHANGED <<line, error>>
     \/ /\ ch = "/"
        /\ Putchar(<<" ">>) /\ Go("COMMENT_SINGLE")
        /\ UNCHANGED <<line, comment_start_line, error>>
     \/ ch \notin {"*", "/"} /\ PutThrough(ch, <<"/">>)

CommentSingle(ch) ==
  /\ state = "COMMENT_SINGLE"
  /\ Putchar(NewlineOf(ch)) /\ CountLine(ch)
  /\ Go(IF ch = "\n" THEN "CODE" ELSE state)
  /\ UNCHANGED <<comment_start_line, error>>

CommentMulti(ch) ==
  /\ state = "COMMENT_MULTI"
  /\ Putchar(NewlineOf(ch)) /\ CountLine(ch)
  /\ Go(IF ch = "*" THEN "COMMENT_MULTI_STAR" ELSE state)
  /\ UNCHANGED <<comment_start_line, error>>

(* Mutant: a second star leaves the state.                                 *)
CommentMultiStarMutOneStar(ch) ==
  /\ state = "COMMENT_MULTI_STAR"
  /\ Putchar(NewlineOf(ch)) /\ CountLine(ch)
  /\ Go(IF ch = "/" THEN "CODE" ELSE "COMMENT_MULTI")
  /\ UNCHANGED <<comment_start_line, error>>
CommentMultiStar(ch) ==
  /\ state = "COMMENT_MULTI_STAR"
  /\ Putchar(NewlineOf(ch)) /\ CountLine(ch)
  /\ Go(CASE ch = "/" -> "CODE" [] ch = "*" -> state [] OTHER -> "COMMENT_MULTI")
  /\ UNCHANGED <<comment_start_line, error>>

Literal(ch) == \E q \in Quotes :
  /\ state \in {InLiteral(q), InEscape(q)}
  /\ Putchar(<<ch>>) /\ CountLine(ch)
  /\ Go(CASE state = InEscape(q) -> InLiteral(q)
          [] state = InLiteral(q) /\ ch = "\\" -> InEscape(q)
          [] state = InLiteral(q) /\ ch = q -> "CODE"
          [] OTHER -> state)
  /\ UNCHANGED <<comment_start_line, error>>

(* The loop's body for the next character.                                 *)
Read(ch) ==
  \/ Code(ch) \/ PossibleComment(ch) \/ CommentSingle(ch)
  \/ CommentMulti(ch) \/ CommentMultiStar(ch) \/ Literal(ch)

(* After the loop.                                                         *)
InBlock == state \in {"COMMENT_MULTI", "COMMENT_MULTI_STAR"}
EndOfInput ==
  /\ Putchar(IF state = "POSSIBLE_COMMENT" THEN <<"/">> ELSE <<>>)
  /\ error' = IF InBlock THEN comment_start_line ELSE 0
  /\ Go(IF InBlock THEN "EXIT_FAILURE" ELSE "EXIT_SUCCESS")
  /\ UNCHANGED <<line, comment_start_line>>
=============================================================================
