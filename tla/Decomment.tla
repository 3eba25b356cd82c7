------------------------------ MODULE Decomment ------------------------------
(***************************************************************************)
(* The comment remover of lab1: decomment.c, an automaton that reads one   *)
(* character per step.  string_loop and char_const_loop are one state, as  *)
(* they differ in their quote only; is_slash, is_star and is_backslash are *)
(* one flag, as each loop has one and starts with it cleared.              *)
(***************************************************************************)
EXTENDS Integers, Sequences, FiniteSets, FiniteSetsExt

CONSTANTS Plain,     \* the characters that mean nothing to the automaton
          MaxLength  \* bound on the input

Quotes == {"\"", "'"}
Special == Quotes \union {"/", "*", "\\", "\n"}
Characters == Plain \union Special

ASSUME PlainAssumption == Plain \cap (Special \union {" "}) = {}
ASSUME LengthAssumption == MaxLength \in Nat

VARIABLES input,     \* what was read so far
          output,    \* what was printed to stdout
          loop,      \* the loop that reads, or how the program ended
          flag,      \* its flag
          quote,     \* the quote that opened the literal
          line_cur, com_line,
          error      \* the line printed to stderr, or 0

vars == <<input, output, loop, flag, quote, line_cur, com_line, error>>

Init ==
  /\ input = <<>> /\ output = <<>>
  /\ loop = "main" /\ flag = FALSE
  /\ quote = "'"
  /\ line_cur = 1 /\ com_line = 1
  /\ error = 0

(* getchar returns ch, at this place in the code.                          *)
Getchar(where, ch) ==
  /\ loop = where
  /\ Len(input) < MaxLength
  /\ input' = Append(input, ch)
Put(text) == output' = output \o text
(* check_new_line, where the code calls it or would for a newline.         *)
CountLine(ch) == line_cur' = IF ch = "\n" THEN line_cur + 1 ELSE line_cur

-----------------------------------------------------------------------------
(* main: a slash is held back until the next character is known.           *)
HeldBack == IF flag THEN <<"/">> ELSE <<>>

PossibleComment ==
  /\ Getchar("main", "/") /\ ~flag
  /\ flag' = TRUE
  /\ UNCHANGED <<output, loop, quote, line_cur, com_line, error>>

StartLineComment ==
  /\ Getchar("main", "/") /\ flag
  /\ Put(<<" ">>)
  /\ loop' = "line" /\ flag' = FALSE
  /\ UNCHANGED <<quote, line_cur, com_line, error>>

StartBlockComment ==
  /\ Getchar("main", "*") /\ flag
  /\ Put(<<" ">>)
  /\ loop' = "block" /\ flag' = FALSE
  /\ com_line' = line_cur
  /\ UNCHANGED <<quote, line_cur, error>>

StartLiteral ==
  /\ \E ch \in Quotes : /\ Getchar("main", ch)
                        /\ Put(Append(HeldBack, ch))
                        /\ quote' = ch
  /\ loop' = "literal" /\ flag' = FALSE
  /\ UNCHANGED <<line_cur, com_line, error>>

Copy ==
  /\ \E ch \in Characters \ (Quotes \union {"/"}) :
       /\ Getchar("main", ch)
       /\ ~(ch = "*" /\ flag)
       /\ Put(Append(HeldBack, ch))
       /\ CountLine(ch)
  /\ flag' = FALSE
  /\ UNCHANGED <<loop, quote, com_line, error>>

-----------------------------------------------------------------------------
(* single_line_comment_loop                                                *)
LineComment == \E ch \in Characters :
  /\ Getchar("line", ch)
  /\ loop' = IF ch = "\n" THEN "main" ELSE "line"
  /\ Put(IF ch = "\n" THEN <<ch>> ELSE <<>>)
  /\ CountLine(ch)
  /\ UNCHANGED <<flag, quote, com_line, error>>

(* multi_line_comment_loop: only newlines are kept.  Mutants: is_star is   *)
(* not cleared by other characters; newlines are not printed.              *)
BlockCommentMutStarSticks == \E ch \in Characters :
  /\ Getchar("block", ch)
  /\ loop' = IF flag /\ ch = "/" THEN "main" ELSE "block"
  /\ flag' = (flag \/ ch = "*")
  /\ Put(IF ch = "\n" THEN <<ch>> ELSE <<>>)
  /\ CountLine(ch)
  /\ UNCHANGED <<quote, com_line, error>>
BlockCommentMutSilent == \E ch \in Characters :
  /\ Getchar("block", ch)
  /\ loop' = IF flag /\ ch = "/" THEN "main" ELSE "block"
  /\ flag' = (ch = "*")
  /\ CountLine(ch)
  /\ UNCHANGED <<output, quote, com_line, error>>
BlockComment == \E ch \in Characters :
  /\ Getchar("block", ch)
  /\ loop' = IF flag /\ ch = "/" THEN "main" ELSE "block"
  /\ flag' = (ch = "*")
  /\ Put(IF ch = "\n" THEN <<ch>> ELSE <<>>)
  /\ CountLine(ch)
  /\ UNCHANGED <<quote, com_line, error>>

(* string_loop and char_const_loop: everything is kept.                    *)
Literal == \E ch \in Characters :
  /\ Getchar("literal", ch)
  /\ loop' = IF ch = quote /\ ~flag THEN "main" ELSE "literal"
  /\ flag' = (ch = "\\" /\ ~flag)
  /\ Put(<<ch>>)
  /\ CountLine(ch)
  /\ UNCHANGED <<quote, com_line, error>>

-----------------------------------------------------------------------------
(* The end of the input, in main and in a literal; in a comment.           *)
EndOfText ==
  /\ loop \in {"main", "literal"}
  /\ loop' = "EXIT_SUCCESS"
  /\ UNCHANGED <<input, output, flag, quote, line_cur, com_line, error>>

EndInComment ==
  /\ loop \in {"line", "block"}
  /\ error' = IF loop = "line" THEN line_cur ELSE com_line
  /\ loop' = "EXIT_FAILURE"
  /\ UNCHANGED <<input, output, flag, quote, line_cur, com_line>>

Next ==
  \/ PossibleComment \/ StartLineComment \/ StartBlockComment \/ StartLiteral
  \/ Copy \/ LineComment \/ BlockComment \/ Literal
  \/ EndOfText \/ EndInComment

Spec == Init /\ [][Next]_vars

-----------------------------------------------------------------------------
Exits == {"EXIT_SUCCESS", "EXIT_FAILURE"}
TypeOK ==
  /\ input \in Seq(Characters)
  /\ output \in Seq(Characters \union {" "})
  /\ loop \in {"main", "line", "block", "literal"} \union Exits
  /\ flag \in BOOLEAN
  /\ quote \in Quotes
  /\ line_cur \in Nat \ {0} /\ com_line \in 1 .. line_cur
  /\ error \in 0 .. line_cur

(* Line numbers survive: at every moment as many newlines were printed as  *)
(* were read, and line_cur is the number of the line being read.           *)
Newlines(s) == Cardinality({i \in DOMAIN s : s[i] = "\n"})
LinesKept ==
  /\ line_cur = Newlines(input) + 1
  /\ Newlines(output) = Newlines(input)

(* The reference: the text s cut into lexemes, with no automaton.  The     *)
(* lexeme that starts at p ends at LexemeEnd(s, p), behind s if it is open. *)
At(s, p, ch) == p \in DOMAIN s /\ s[p] = ch
IsComment(s, p, second) == At(s, p, "/") /\ At(s, p + 1, second)
(* A character is escaped if an odd number of backslashes stand before it. *)
Escaped(s, p, q) ==
  \E r \in p + 1 .. q - 1 : /\ \A k \in r .. q - 1 : s[k] = "\\"
                            /\ s[r - 1] /= "\\" /\ (q - r) % 2 = 1
Ends(s, p) ==
  IF IsComment(s, p, "/") THEN {q \in p + 1 .. Len(s) : s[q] = "\n"}
  ELSE IF IsComment(s, p, "*")
    THEN {q \in p + 3 .. Len(s) : s[q - 1] = "*" /\ s[q] = "/"}
  ELSE IF s[p] \in Quotes
    THEN {q \in p + 1 .. Len(s) : s[q] = s[p] /\ ~Escaped(s, p, q)}
  ELSE {p}
LexemeEnd(s, p) == Min(Ends(s, p) \union {Len(s) + 1})
(* A comment leaves a space and its newlines, other lexemes stay.          *)
LexemeText(s, p, e) ==
  IF IsComment(s, p, "/") \/ IsComment(s, p, "*")
  THEN <<" ">> \o [i \in 1 .. Newlines(SubSeq(s, p, e)) |-> "\n"]
  ELSE SubSeq(s, p, e)
(* The text that the lexemes from p on leave.                              *)
Texts(s) ==
  LET text[p \in 1 .. Len(s) + 1] ==
        IF p > Len(s) THEN <<>>
        ELSE LET e == LexemeEnd(s, p) IN
             IF e > Len(s) THEN LexemeText(s, p, Len(s))
             ELSE LexemeText(s, p, e) \o text[e + 1]
  IN  text
Decommented(s) == Texts(s)[1]
(* The line of the comment that is still open at the end of s, or 0.       *)
Opens(s) ==
  LET open[p \in 1 .. Len(s) + 1] ==
        IF p > Len(s) THEN 0
        ELSE LET e == LexemeEnd(s, p) IN
             IF e <= Len(s) THEN open[e + 1]
             ELSE IF IsComment(s, p, "*") THEN Newlines(SubSeq(s, 1, p)) + 1
             ELSE 0
  IN  open
OpenComment(s) == Opens(s)[1]

(* For every input that ends with a newline (the readme promises that) the *)
(* program prints the reference text and reports the open comment.         *)
MatchesReference ==
  loop \in Exits /\ (input = <<>> \/ input[Len(input)] = "\n") =>
    /\ output = Decommented(input)
    /\ error = OpenComment(input)
    /\ loop = "EXIT_FAILURE" <=> OpenComment(input) /= 0
=============================================================================
