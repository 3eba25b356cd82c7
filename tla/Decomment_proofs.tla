--------------------------- MODULE Decomment_proofs ---------------------------
(***************************************************************************)
(* Proofs about Decomment, for input of any length over any alphabet: the  *)
(* types, and that line numbers survive.  LinesKept with TypeOK is         *)
(* inductive: every step appends the same number of newlines, none or one, *)
(* to the input and to the output.  The second part compares the program   *)
(* with the second comment remover, on the same input, the third with the  *)
(* reference text: what each loop knows of the lexemes that it has read,   *)
(* whatever follows (Cut), is inductive.                                   *)
(***************************************************************************)
EXTENDS MCDecomment, FiniteSetTheorems, SequenceTheorems, WellFoundedInduction,
        TLAPS

(* The newlines of a text are finitely many.                               *)
LEMMA NewlinesFinite ==
  ASSUME NEW T, NEW s \in Seq(T)
  PROVE  /\ IsFiniteSet({i \in DOMAIN s : s[i] = "\n"})
         /\ Newlines(s) \in Nat
<1>1. IsFiniteSet(1 .. Len(s))
  BY FS_Interval
<1>2. {i \in DOMAIN s : s[i] = "\n"} \subseteq 1 .. Len(s)
  OBVIOUS
<1> QED
  BY <1>1, <1>2, FS_Subset, FS_CardinalityType DEF Newlines

(* One more character is one more newline, or none.                        *)
LEMMA NewlinesAppend ==
  ASSUME NEW T, NEW s \in Seq(T), NEW ch \in T
  PROVE  Newlines(Append(s, ch)) =
           IF ch = "\n" THEN Newlines(s) + 1 ELSE Newlines(s)
<1> DEFINE S == {i \in DOMAIN s : s[i] = "\n"}
           A == {i \in DOMAIN Append(s, ch) : Append(s, ch)[i] = "\n"}
<1>1. IsFiniteSet(S)
  BY NewlinesFinite
<1>2. Len(s) + 1 \notin S
  OBVIOUS
<1>3. CASE ch = "\n"
  <2>1. A = S \cup {Len(s) + 1}
    BY <1>3
  <2> QED
    BY <1>1, <1>2, <1>3, <2>1, FS_AddElement DEF Newlines
<1>4. CASE ch /= "\n"
  <2>1. A = S
    BY <1>4
  <2> QED
    BY <1>4, <2>1 DEF Newlines
<1> QED
  BY <1>3, <1>4

(* What the program prints in a step: nothing, a character, or the slash   *)
(* held back and a character.                                              *)
Printable == Characters \cup {" "}
LEMMA Printed ==
  ASSUME NEW s \in Seq(Printable), NEW ch \in Printable,
         NEW held \in {<<>>, <<"/">>}
  PROVE  /\ s \o <<>> = s
         /\ s \o <<ch>> \in Seq(Printable)
         /\ s \o Append(held, ch) \in Seq(Printable)
         /\ Newlines(s \o <<ch>>) =
              IF ch = "\n" THEN Newlines(s) + 1 ELSE Newlines(s)
         /\ Newlines(s \o Append(held, ch)) =
              IF ch = "\n" THEN Newlines(s) + 1 ELSE Newlines(s)
<1>1. s \o <<>> = s
  OBVIOUS
<1>2. /\ s \o <<ch>> = Append(s, ch)
      /\ Append(s, ch) \in Seq(Printable)
  OBVIOUS
<1>3. "/" \in Printable /\ "/" /= "\n"
  BY DEF Printable, Characters, Special
<1>4. /\ Append(s, "/") \in Seq(Printable)
      /\ Newlines(Append(s, "/")) = Newlines(s)
  BY <1>3, NewlinesAppend
<1>a. Newlines(Append(s, ch)) =
        IF ch = "\n" THEN Newlines(s) + 1 ELSE Newlines(s)
  BY NewlinesAppend
<1>b. Newlines(Append(Append(s, "/"), ch)) =
        IF ch = "\n" THEN Newlines(s) + 1 ELSE Newlines(s)
  BY <1>4, NewlinesAppend
<1>c. Append(Append(s, "/"), ch) \in Seq(Printable)
  BY <1>4
<1>5. CASE held = <<>>
  <2>1. s \o Append(held, ch) = Append(s, ch)
    BY <1>5
  <2> QED
    BY <1>1, <1>2, <1>a, <2>1
<1>6. CASE held = <<"/">>
  <2>1. s \o Append(held, ch) = Append(Append(s, "/"), ch)
    BY <1>2, <1>3, <1>4, <1>6
  <2> QED
    BY <1>1, <1>2, <1>a, <1>b, <1>c, <2>1
<1> QED
  BY <1>5, <1>6

LEMMA ConcatPrinted ==
  ASSUME NEW a \in Seq(Printable), NEW b \in Seq(Printable),
         NEW c \in Seq(Printable)
  PROVE  (a \o b) \o c = a \o (b \o c)
BY ConcatAssociative

Inv == TypeOK /\ LinesKept

LEMMA InitInv == Init => Inv
<1> SUFFICES ASSUME Init PROVE Inv
  OBVIOUS
<1>1. TypeOK
  <2>1. <<>> \in Seq(Characters) /\ <<>> \in Seq(Printable)
    OBVIOUS
  <2>2. 1 \in Nat \ {0} /\ 1 \in 1 .. 1 /\ 0 \in 0 .. 1
    OBVIOUS
  <2> QED
    BY <2>1, <2>2 DEF Init, TypeOK, Quotes, Printable
<1>2. Newlines(<<>>) = 0
  BY FS_EmptySet DEF Newlines
<1> QED
  BY <1>1, <1>2 DEF Init, Inv, LinesKept

(* A character was read and put onto the input.                            *)
LEMMA Read ==
  ASSUME Inv, NEW where, NEW ch \in Characters, Getchar(where, ch)
  PROVE  /\ input' \in Seq(Characters)
         /\ Newlines(input') =
              IF ch = "\n" THEN Newlines(input) + 1 ELSE Newlines(input)
<1>1. input \in Seq(Characters) /\ input' = Append(input, ch)
  BY DEF Inv, TypeOK, Getchar
<1>2. Newlines(Append(input, ch)) =
        IF ch = "\n" THEN Newlines(input) + 1 ELSE Newlines(input)
  BY <1>1, NewlinesAppend
<1>3. Newlines(input') = Newlines(Append(input, ch))
  BY <1>1
<1> QED
  BY <1>1, <1>2, <1>3

(* A step that reads ch, prints a newline exactly if ch is one and counts  *)
(* it keeps the invariant.                                                 *)
LEMMA Balanced ==
  ASSUME Inv, NEW where, NEW ch \in Characters, Getchar(where, ch),
         output' \in Seq(Printable),
         Newlines(output') =
           IF ch = "\n" THEN Newlines(output) + 1 ELSE Newlines(output),
         CountLine(ch),
         loop' \in {"main", "line", "block", "literal"} \cup Exits,
         flag' \in BOOLEAN, quote' \in Quotes,
         com_line' \in {com_line, line_cur}, error' = error
  PROVE  Inv'
<1>1. /\ input' \in Seq(Characters)
      /\ Newlines(input') =
           IF ch = "\n" THEN Newlines(input) + 1 ELSE Newlines(input)
  BY Read
<1>2. /\ Newlines(input) \in Nat /\ Newlines(output) = Newlines(input)
      /\ line_cur = Newlines(input) + 1
  BY NewlinesFinite DEF Inv, TypeOK, LinesKept
<1>3. line_cur' = IF ch = "\n" THEN line_cur + 1 ELSE line_cur
  BY DEF CountLine
<1>4. LinesKept'
  BY <1>1, <1>2, <1>3 DEF LinesKept, Newlines
<1>5. TypeOK'
  <2>0. /\ line_cur \in Nat \ {0}
        /\ com_line \in 1 .. line_cur /\ error \in 0 .. line_cur
    BY DEF Inv, TypeOK
  <2>1. line_cur' \in Nat \ {0} /\ line_cur <= line_cur'
    BY <1>3, <2>0
  <2>2. com_line' \in 1 .. line_cur' /\ error' \in 0 .. line_cur'
    BY <2>0, <2>1
  <2> QED
    BY <1>1, <2>1, <2>2 DEF TypeOK, Printable
<1> QED
  BY <1>4, <1>5 DEF Inv

(* Every step keeps the invariant.                                         *)
LEMMA NextInv == Inv /\ [Next]_vars => Inv'
<1> SUFFICES ASSUME Inv, [Next]_vars PROVE Inv'
  OBVIOUS
<1> DEFINE Loops == {"main", "line", "block", "literal"} \cup Exits
<1>t. /\ output \in Seq(Printable) /\ flag \in BOOLEAN /\ quote \in Quotes
      /\ loop \in Loops
  BY DEF Inv, TypeOK, Printable
<1>h. HeldBack \in {<<>>, <<"/">>}
  BY DEF HeldBack
<1>c. Characters \subseteq Printable /\ " " \in Printable
  BY DEF Printable
<1>s. /\ {"/", "*", "\n"} \cup Quotes \subseteq Characters
      /\ "\n" \notin Quotes /\ " " /= "\n" /\ "/" /= "\n" /\ "*" /= "\n"
  BY DEF Characters, Special, Quotes
<1>1. CASE PossibleComment
  <2>1. CountLine("/")
    BY <1>1, <1>s DEF PossibleComment, CountLine
  <2> QED
    BY <1>1, <1>t, <1>s, <2>1, Balanced DEF PossibleComment
<1>2. CASE StartLineComment
  <2>1. CountLine("/")
    BY <1>2, <1>s DEF StartLineComment, CountLine
  <2>2. /\ output' \in Seq(Printable)
        /\ Newlines(output') = Newlines(output)
    BY <1>2, <1>t, <1>s, <1>c, Printed DEF StartLineComment, Put
  <2> QED
    BY <1>2, <1>t, <1>s, <2>1, <2>2, Balanced DEF StartLineComment
<1>3. CASE StartBlockComment
  <2>1. CountLine("*")
    BY <1>3, <1>s DEF StartBlockComment, CountLine
  <2>2. /\ output' \in Seq(Printable)
        /\ Newlines(output') = Newlines(output)
    BY <1>3, <1>t, <1>s, <1>c, Printed DEF StartBlockComment, Put
  <2> QED
    BY <1>3, <1>t, <1>s, <2>1, <2>2, Balanced DEF StartBlockComment
<1>4. CASE StartLiteral
  <2>1. PICK ch \in Quotes : /\ Getchar("main", ch)
                             /\ Put(Append(HeldBack, ch))
                             /\ quote' = ch
    BY <1>4 DEF StartLiteral
  <2>2. CountLine(ch)
    BY <1>4, <1>s DEF StartLiteral, CountLine
  <2>3. /\ output' \in Seq(Printable)
        /\ Newlines(output') = Newlines(output)
    BY <2>1, <1>t, <1>s, <1>c, <1>h, Printed DEF Put
  <2> QED
    BY <1>4, <1>t, <1>s, <2>1, <2>2, <2>3, Balanced DEF StartLiteral
<1>5. CASE Copy
  <2>1. PICK ch \in Characters : /\ Getchar("main", ch)
                                 /\ Put(Append(HeldBack, ch))
                                 /\ CountLine(ch)
    BY <1>5 DEF Copy
  <2>2. /\ output' \in Seq(Printable)
        /\ Newlines(output') =
             IF ch = "\n" THEN Newlines(output) + 1 ELSE Newlines(output)
    BY <2>1, <1>t, <1>c, <1>h, Printed DEF Put
  <2> QED
    BY <1>5, <1>t, <2>1, <2>2, Balanced DEF Copy
<1>6. ASSUME LineComment \/ BlockComment PROVE Inv'
  <2>1. PICK where \in {"line", "block"}, ch \in Characters :
          /\ Getchar(where, ch)
          /\ Put(IF ch = "\n" THEN <<ch>> ELSE <<>>)
          /\ CountLine(ch)
    BY <1>6 DEF LineComment, BlockComment
  <2>2. /\ output' \in Seq(Printable)
        /\ Newlines(output') =
             IF ch = "\n" THEN Newlines(output) + 1 ELSE Newlines(output)
    <3>1. CASE ch = "\n"
      BY <2>1, <3>1, <1>t, <1>c, Printed DEF Put
    <3>2. CASE ch /= "\n"
      BY <2>1, <3>2, <1>t, <1>c, Printed DEF Put
    <3> QED
      BY <3>1, <3>2
  <2>3. /\ loop' \in Loops /\ flag' \in BOOLEAN
        /\ UNCHANGED <<quote, com_line, error>>
    BY <1>6, <1>t DEF LineComment, BlockComment
  <2> QED
    BY <1>t, <2>1, <2>2, <2>3, Balanced
<1>7. CASE Literal
  <2>1. PICK ch \in Characters : /\ Getchar("literal", ch)
                                 /\ Put(<<ch>>)
                                 /\ CountLine(ch)
    BY <1>7 DEF Literal
  <2>2. /\ output' \in Seq(Printable)
        /\ Newlines(output') =
             IF ch = "\n" THEN Newlines(output) + 1 ELSE Newlines(output)
    BY <2>1, <1>t, <1>c, Printed DEF Put
  <2>3. /\ loop' \in Loops /\ flag' \in BOOLEAN
        /\ UNCHANGED <<quote, com_line, error>>
    BY <1>7 DEF Literal
  <2> QED
    BY <1>t, <2>1, <2>2, <2>3, Balanced
<1>8. CASE EndOfText
  BY <1>8 DEF EndOfText, Inv, TypeOK, LinesKept, Exits
<1>9. CASE EndInComment
  <2>a. line_cur \in Nat \ {0} /\ com_line \in 1 .. line_cur
    BY DEF Inv, TypeOK
  <2>b. error' \in {line_cur, com_line}
    BY <1>9 DEF EndInComment
  <2>1. error' \in 0 .. line_cur
    BY <2>a, <2>b
  <2> QED
    BY <1>9, <2>1 DEF EndInComment, Inv, TypeOK, LinesKept, Exits
<1>10. CASE UNCHANGED vars
  BY <1>10 DEF vars, Inv, TypeOK, LinesKept
<1> QED
  BY <1>1, <1>2, <1>3, <1>4, <1>5, <1>6, <1>7, <1>8, <1>9, <1>10 DEF Next

LEMMA Invariance == Spec => []Inv
  BY InitInv, NextInv, PTL DEF Spec

(* The variables keep their ranges; com_line and error are lines that were *)
(* read (decomment.c prints error as a line number).                       *)
THEOREM TypeCorrect == Spec => []TypeOK
  BY Invariance, PTL DEF Inv

(* Line numbers survive the removal of comments, for input of any length   *)
(* (readme (2)): the printed text is always on the line that is read.      *)
THEOREM LineNumbersKept == Spec => []LinesKept
  BY Invariance, PTL DEF Inv

-----------------------------------------------------------------------------
(* The second comment remover simulates the first.                         *)

(* The states of the second program stand for the loops of the first, with *)
(* their flags.                                                            *)
StatesMatch ==
  /\ loop = "main"  => dfaState = IF flag THEN "POSSIBLE_COMMENT" ELSE "CODE"
  /\ loop = "line"  => dfaState = "COMMENT_SINGLE"
  /\ loop = "block" => dfaState = IF flag THEN "COMMENT_MULTI_STAR"
                                          ELSE "COMMENT_MULTI"
  /\ loop = "literal" => dfaState = IF flag THEN DFA!InEscape(quote)
                                            ELSE DFA!InLiteral(quote)

EndsInNewline == input = <<>> \/ input[Len(input)] = "\n"

(* While both read: their states correspond, and nothing that the end of   *)
(* the input would treat differently is open after a newline.              *)
BothRead ==
  /\ StatesMatch
  /\ text = output /\ line = line_cur
  /\ error = 0
  /\ loop = "block" => comment_start_line = com_line
  /\ loop = "line" => ~flag
  /\ loop = "line" \/ (loop = "main" /\ flag) => ~EndsInNewline

BothEnded ==
  EndsInNewline => text = output /\ dfaState = loop /\ reported = error

Simulates == IF loop \in Exits THEN BothEnded ELSE BothRead

LEMMA InitSimulates == BothInit => Simulates
  BY DEF BothInit, Init, DFA!Init, Simulates, BothRead, StatesMatch, Exits

(* What the two programs do with the next character.                       *)
LEMMA StepSimulates ==
  ASSUME Inv, Simulates, BothNext
  PROVE  Simulates'
<1>t. /\ input \in Seq(Characters) /\ output \in Seq(Printable)
      /\ flag \in BOOLEAN /\ quote \in Quotes
  BY DEF Inv, TypeOK, Printable
<1>l. loop \in {"main", "line", "block", "literal"} /\ BothRead
  BY DEF BothNext, Next, PossibleComment, StartLineComment, StartBlockComment,
         StartLiteral, Copy, LineComment, BlockComment, Literal, EndOfText,
         EndInComment, Getchar, Simulates, Exits
<1>r. ASSUME NEW ch \in Characters, NEW where, Getchar(where, ch)
      PROVE  /\ DFA!Read(ch)
             /\ EndsInNewline' <=> ch = "\n"
  <2>1. /\ input' = Append(input, ch) /\ Len(input') = Len(input) + 1
        /\ Len(input) \in Nat /\ input' /= <<>> /\ input'[Len(input')] = ch
    BY <1>r, <1>t DEF Getchar
  <2> QED
    BY <2>1 DEF BothNext, EndsInNewline
<1>e. ASSUME input' = input
      PROVE  DFA!EndOfInput /\ (EndsInNewline' <=> EndsInNewline)
  <2>1. Len(input) \in Nat
    BY <1>t
  <2> QED
    BY <1>e, <2>1 DEF BothNext, EndsInNewline
<1>q. /\ "\n" \notin Quotes /\ "/" \notin Quotes /\ "*" \notin Quotes
      /\ "\\" \notin Quotes
  BY DEF Quotes
<1>s. /\ {"/", "*", "\n"} \cup Quotes \subseteq Characters
      /\ "/" /= "\n" /\ "*" /= "\n"
  BY DEF Characters, Special
<1>Q. DFA!Quotes = Quotes
  BY DEF DFA!Quotes, Quotes
<1>1. CASE PossibleComment \/ StartLineComment
  <2>1. DFA!Read("/") /\ ~EndsInNewline'
    BY <1>1, <1>r, <1>s DEF PossibleComment, StartLineComment
  <2> QED
    BY <1>1, <1>l, <1>t, <1>Q, <2>1 DEF PossibleComment, StartLineComment,
         Getchar, Put, BothRead, StatesMatch, Simulates, Exits,
         DFA!Read, DFA!Code, DFA!PossibleComment, DFA!CommentSingle,
         DFA!CommentMulti, DFA!CommentMultiStar, DFA!Literal,
         DFA!InLiteral, DFA!InEscape, Quotes,
         DFA!Go, DFA!Putchar, DFA!PutThrough
<1>2. CASE StartBlockComment
  <2>1. DFA!Read("*")
    BY <1>2, <1>r, <1>s DEF StartBlockComment
  <2> QED
    BY <1>2, <1>l, <1>t, <1>Q, <2>1 DEF StartBlockComment,
         Getchar, Put, BothRead, StatesMatch, Simulates, Exits,
         DFA!Read, DFA!Code, DFA!PossibleComment, DFA!CommentSingle,
         DFA!CommentMulti, DFA!CommentMultiStar, DFA!Literal,
         DFA!InLiteral, DFA!InEscape, Quotes,
         DFA!Go, DFA!Putchar, DFA!PutThrough
<1>3. CASE StartLiteral \/ Copy
  <2>1. PICK ch \in Characters \ {"/"} :
          /\ Getchar("main", ch) /\ Put(Append(HeldBack, ch)) /\ CountLine(ch)
          /\ ~(ch = "*" /\ flag) /\ flag' = FALSE /\ error' = error
          /\ IF ch \in Quotes THEN loop' = "literal" /\ quote' = ch
                             ELSE loop' = "main"
    BY <1>3, <1>q, <1>s, <1>l DEF StartLiteral, Copy, CountLine, Getchar
  <2>2. DFA!Read(ch) /\ loop = "main"
    BY <1>r, <2>1 DEF Getchar
  <2>3. DFA!PutThrough(ch, HeldBack)
    BY <1>l, <1>t, <1>Q, <2>1, <2>2 DEF HeldBack, BothRead, StatesMatch,
         DFA!Read, DFA!Code, DFA!PossibleComment, DFA!CommentSingle,
         DFA!CommentMulti, DFA!CommentMultiStar, DFA!Literal,
         DFA!InLiteral, DFA!InEscape, Quotes
  <2>4. text' = output' /\ line' = line_cur'
    BY <1>l, <2>1, <2>3 DEF BothRead, Put, CountLine, DFA!PutThrough,
         DFA!Putchar, DFA!CountLine
  <2>5. StatesMatch'
    BY <1>Q, <2>1, <2>3 DEF StatesMatch, DFA!PutThrough, DFA!Go
  <2> QED
    BY <1>l, <2>1, <2>4, <2>5 DEF Simulates, BothRead, Exits
<1>4. CASE LineComment
  <2>1. PICK ch \in Characters :
          /\ Getchar("line", ch) /\ Put(DFA!NewlineOf(ch)) /\ CountLine(ch)
          /\ loop' = IF ch = "\n" THEN "main" ELSE "line"
          /\ UNCHANGED <<flag, error>>
    BY <1>4 DEF LineComment, DFA!NewlineOf
  <2>2. /\ DFA!Read(ch) /\ (EndsInNewline' <=> ch = "\n")
        /\ loop = "line" /\ ~flag /\ dfaState = "COMMENT_SINGLE"
    BY <1>r, <1>l, <2>1 DEF Getchar, BothRead, StatesMatch
  <2>3. DFA!CommentSingle(ch)
    BY <2>2 DEF
         DFA!Read, DFA!Code, DFA!PossibleComment, DFA!CommentSingle,
         DFA!CommentMulti, DFA!CommentMultiStar, DFA!Literal,
         DFA!InLiteral, DFA!InEscape, Quotes
  <2> QED
    BY <1>l, <2>1, <2>2, <2>3 DEF Put, CountLine, BothRead, StatesMatch,
         Simulates, Exits, DFA!CommentSingle, DFA!Putchar, DFA!CountLine, DFA!Go
<1>5. CASE BlockComment
  <2>1. PICK ch \in Characters :
          /\ Getchar("block", ch) /\ Put(DFA!NewlineOf(ch)) /\ CountLine(ch)
          /\ loop' = IF flag /\ ch = "/" THEN "main" ELSE "block"
          /\ flag' = (ch = "*")
          /\ UNCHANGED <<error, com_line>>
    BY <1>5 DEF BlockComment, DFA!NewlineOf
  <2>2. /\ DFA!Read(ch)
        /\ dfaState = IF flag THEN "COMMENT_MULTI_STAR" ELSE "COMMENT_MULTI"
        /\ loop = "block" /\ comment_start_line = com_line
    BY <1>r, <1>l, <2>1 DEF Getchar, BothRead, StatesMatch
  <2>3. \/ DFA!CommentMulti(ch) /\ ~flag
        \/ DFA!CommentMultiStar(ch) /\ flag
    BY <1>t, <2>2 DEF
         DFA!Read, DFA!Code, DFA!PossibleComment, DFA!CommentSingle,
         DFA!CommentMulti, DFA!CommentMultiStar, DFA!Literal,
         DFA!InLiteral, DFA!InEscape, Quotes
  <2>4. /\ text' = output' /\ line' = line_cur'
        /\ comment_start_line' = com_line'
    BY <1>l, <2>1, <2>2, <2>3 DEF BothRead, Put, CountLine, DFA!CommentMulti,
         DFA!CommentMultiStar, DFA!Putchar, DFA!CountLine
  <2>5. StatesMatch'
    BY <1>t, <2>1, <2>2, <2>3 DEF StatesMatch, DFA!CommentMulti,
         DFA!CommentMultiStar, DFA!Go
  <2> QED
    BY <1>l, <2>1, <2>4, <2>5 DEF Simulates, BothRead, Exits
<1>6. CASE Literal
  <2>1. PICK ch \in Characters :
          /\ Getchar("literal", ch) /\ Put(<<ch>>) /\ CountLine(ch)
          /\ loop' = IF ch = quote /\ ~flag THEN "main" ELSE "literal"
          /\ flag' = (ch = "\\" /\ ~flag)
          /\ UNCHANGED <<error, quote>>
    BY <1>6 DEF Literal
  <2>2. /\ DFA!Read(ch)
        /\ dfaState = IF flag THEN DFA!InEscape(quote) ELSE DFA!InLiteral(quote)
        /\ loop = "literal"
    BY <1>r, <1>l, <2>1 DEF Getchar, BothRead, StatesMatch
  <2>3. DFA!Literal(ch)
    BY <1>t, <2>2 DEF
         DFA!Read, DFA!Code, DFA!PossibleComment, DFA!CommentSingle,
         DFA!CommentMulti, DFA!CommentMultiStar, DFA!Literal,
         DFA!InLiteral, DFA!InEscape, Quotes
  <2>4. text' = output' /\ line' = line_cur'
    BY <1>l, <2>1, <2>3 DEF BothRead, Put, CountLine, DFA!Literal,
         DFA!Putchar, DFA!CountLine
  <2>5. StatesMatch'
    <3>1. PICK q \in Quotes :
            /\ dfaState \in {DFA!InLiteral(q), DFA!InEscape(q)}
            /\ DFA!Go(CASE dfaState = DFA!InEscape(q) -> DFA!InLiteral(q)
                [] dfaState = DFA!InLiteral(q) /\ ch = "\\" -> DFA!InEscape(q)
                [] dfaState = DFA!InLiteral(q) /\ ch = q -> "CODE"
                [] OTHER -> dfaState)
      BY <2>3, <1>Q DEF DFA!Literal
    <3>2. q = quote
      <4>1. q = "'" <=> quote = "'"
        BY <1>t, <2>2, <3>1 DEF DFA!InLiteral, DFA!InEscape
      <4>2. \A a, b \in Quotes : (a = "'" <=> b = "'") => a = b
        BY DEF Quotes
      <4> QED
        BY <1>t, <4>1, <4>2
    <3> QED
      BY <1>t, <1>q, <2>1, <2>2, <3>1, <3>2
         DEF StatesMatch, DFA!Go, DFA!InLiteral, DFA!InEscape, Quotes
  <2>6. loop' = "main" => flag' = FALSE
    BY <1>t, <1>q, <2>1
  <2> QED
    BY <1>l, <2>1, <2>4, <2>5, <2>6 DEF Simulates, BothRead, Exits
<1>7. CASE EndOfText \/ EndInComment
  <2>1. /\ input' = input /\ output' = output /\ loop' \in Exits
    BY <1>7 DEF EndOfText, EndInComment, Exits
  <2>2. DFA!EndOfInput /\ (EndsInNewline' <=> EndsInNewline)
    BY <1>e, <2>1
  <2>3. ASSUME EndsInNewline
        PROVE  text' = output' /\ dfaState' = loop' /\ reported' = error'
    <3>1. loop /= "line" /\ dfaState /= "POSSIBLE_COMMENT"
      BY <1>l, <1>t, <2>3 DEF BothRead, StatesMatch,
           DFA!InLiteral, DFA!InEscape, Quotes
    <3>2. DFA!InBlock <=> loop = "block"
      BY <1>l, <1>t DEF BothRead, StatesMatch, DFA!InBlock,
           DFA!InLiteral, DFA!InEscape, Quotes
    <3>3. text' = output'
      BY <1>l, <1>t, <2>1, <2>2, <3>1 DEF BothRead, DFA!EndOfInput, DFA!Putchar
    <3> QED
      BY <1>7, <1>l, <2>2, <3>1, <3>2, <3>3 DEF EndOfText, EndInComment,
           BothRead, DFA!EndOfInput, DFA!Go
  <2> QED
    BY <2>1, <2>2, <2>3 DEF Simulates, BothEnded
<1> QED
  BY <1>1, <1>2, <1>3, <1>4, <1>5, <1>6, <1>7 DEF BothNext, Next

(* Both programs print the same text after every character and count the   *)
(* same lines, and after an input that ends with a newline (as readme (2)  *)
(* promises) they end with the same text, status and error message, for    *)
(* input of any length over any alphabet.                                  *)
THEOREM ProgramsAgree == BothSpec => []SameText
<1>1. BothInit => Inv /\ Simulates
  BY InitInv, InitSimulates DEF BothInit
<1>2. (Inv /\ Simulates) /\ [BothNext]_<<vars, DFA!vars>>
        => (Inv /\ Simulates)'
  <2>1. CASE UNCHANGED <<vars, DFA!vars>>
    BY <2>1, NextInv DEF vars, DFA!vars, Simulates, BothRead, BothEnded,
         EndsInNewline, StatesMatch
  <2>2. CASE BothNext
    BY <2>2, NextInv, StepSimulates DEF BothNext
  <2> QED
    BY <2>1, <2>2
<1>3. Inv /\ Simulates => SameText
  BY DEF Simulates, BothRead, BothEnded, EndsInNewline, SameText
<1> QED
  BY <1>1, <1>2, <1>3, PTL DEF BothSpec

-----------------------------------------------------------------------------
(* The reference: the text, cut into lexemes with no automaton.            *)

(* A set of naturals that is not empty has a least element.                *)
LEMMA Least ==
  ASSUME NEW T \in SUBSET Nat, T /= {}
  PROVE  \E x \in T : \A y \in T : x <= y
<1> DEFINE R == {p \in Nat \X Nat : p[1] < p[2]}
<1>1. R = OpToRel(<, Nat)
  BY DEF OpToRel
<1>2. IsWellFoundedOn(R, Nat)
  BY <1>1, NatLessThanWellFounded
<1>3. \E x \in T : \A y \in T : ~(<<y, x>> \in R)
  BY <1>2, WFMin
<1>4. PICK x \in T : \A y \in T : ~(<<y, x>> \in R)
  BY <1>3
<1>5. ASSUME NEW y \in T
      PROVE  x <= y
  <2>1. x \in Nat /\ y \in Nat /\ ~(<<y, x>> \in R)
    BY <1>4
  <2>2. ~(y < x)
    BY <2>1
  <2> QED
    BY <2>1, <2>2
<1> QED
  BY <1>4, <1>5

(* Each place up to n leads on to a later one, or to the end.              *)
Onward(n, next) ==
  next \in [1 .. n -> 1 .. n + 1] /\ \A p \in 1 .. n : next[p] > p

(* What is so at the end, and before it when it is so further on, is so.   *)
LEMMA Backwards ==
  ASSUME NEW n \in Nat, NEW S, NEW next, Onward(n, next),
         n + 1 \in S,
         \A p \in 1 .. n : next[p] \in S => p \in S
  PROVE  1 .. n + 1 \subseteq S
<1> USE DEF Onward
<1>1. SUFFICES ASSUME NEW q \in 1 .. n + 1, q \notin S PROVE FALSE
  OBVIOUS
<1> DEFINE T == {k \in 0 .. n : n + 1 - k \notin S}
<1>2. n + 1 - q \in T
  <2>1. n + 1 - q \in 0 .. n /\ n + 1 - (n + 1 - q) = q
    OBVIOUS
  <2> QED
    BY <1>1, <2>1
<1>3. T \in SUBSET Nat /\ T /= {}
  <2>1. T \subseteq Nat
    OBVIOUS
  <2> HIDE DEF T
  <2> QED
    BY <1>2, <2>1
<1>4. PICK k \in T : \A l \in T : k <= l
  <2> HIDE DEF T
  <2> QED
    BY <1>3, Least
<1>5. PICK p : p = n + 1 - k
  OBVIOUS
<1>6. p \in 1 .. n + 1 /\ p \notin S /\ p /= n + 1
  BY <1>4, <1>5
<1>7. next[p] \in p + 1 .. n + 1 /\ next[p] \notin S
  BY <1>6
<1>8. PICK m : m = n + 1 - next[p]
  OBVIOUS
<1>9. m \in 0 .. n /\ m < k /\ n + 1 - m = next[p]
  BY <1>4, <1>5, <1>6, <1>7, <1>8
<1>10. m \in T
  BY <1>7, <1>9
<1> QED
  BY <1>4, <1>9, <1>10

(* A function may be defined by what it is further on.                     *)
Solves(n, base, next, step, f) ==
  f[n + 1] = base /\ \A p \in 1 .. n : f[p] = step[p][f[next[p]]]
LEMMA Recursion ==
  ASSUME NEW n \in Nat, NEW V, NEW base \in V, NEW next, Onward(n, next),
         NEW step \in [1 .. n -> [V -> V]]
  PROVE  \E f \in [1 .. n + 1 -> V] : Solves(n, base, next, step, f)
<1> USE DEF Onward
<1> DEFINE Defines(m, f) ==
             /\ f \in [m .. n + 1 -> V]
             /\ f[n + 1] = base
             /\ \A p \in m .. n : f[p] = step[p][f[next[p]]]
           S == {m \in 1 .. n + 1 : \E f : Defines(m, f)}
           down == [p \in 1 .. n |-> p + 1]
<1>1. n + 1 \in S
  <2>1. PICK f : f = [p \in n + 1 .. n + 1 |-> base]
    OBVIOUS
  <2>2. Defines(n + 1, f)
    BY <2>1
  <2>3. n + 1 \in 1 .. n + 1
    OBVIOUS
  <2> HIDE DEF Defines
  <2> QED
    BY <2>2, <2>3
<1>2. ASSUME NEW m \in 1 .. n, m + 1 \in S
      PROVE  m \in S
  <2>1. PICK f : Defines(m + 1, f)
    BY <1>2
  <2>2. PICK g : g = [p \in m .. n + 1 |->
                        IF p = m THEN step[m][f[next[m]]] ELSE f[p]]
    OBVIOUS
  <2>3. \A p \in m .. n : next[p] \in m + 1 .. n + 1
    OBVIOUS
  <2>4. \A p \in m + 1 .. n + 1 : f[p] \in V /\ g[p] = f[p]
    BY <2>1, <2>2
  <2>5. step[m][f[next[m]]] \in V
    BY <2>3, <2>4
  <2>6. g \in [m .. n + 1 -> V]
    <3>1. ASSUME NEW p \in m .. n + 1
          PROVE  g[p] \in V
      <4>1. CASE p = m
        BY <2>2, <2>5, <4>1
      <4>2. CASE p /= m
        <5>1. p \in m + 1 .. n + 1
          BY <4>2
        <5> QED
          BY <2>4, <5>1
      <4> QED
        BY <4>1, <4>2
    <3> QED
      BY <2>2, <3>1
  <2>7. g[n + 1] = base
    BY <2>1, <2>4
  <2>8. \A p \in m .. n : g[p] = step[p][g[next[p]]]
    <3>1. SUFFICES ASSUME NEW p \in m .. n PROVE g[p] = step[p][g[next[p]]]
      OBVIOUS
    <3>2. g[next[p]] = f[next[p]]
      BY <2>3, <2>4
    <3>3. CASE p = m
      BY <2>2, <3>2, <3>3
    <3>4. CASE p /= m
      <4>1. p \in m + 1 .. n
        BY <3>4
      <4> QED
        BY <2>1, <2>4, <3>2, <4>1
    <3> QED
      BY <3>3, <3>4
  <2>9. Defines(m, g) /\ m \in 1 .. n + 1
    BY <2>6, <2>7, <2>8
  <2> HIDE DEF Defines
  <2> QED
    BY <2>9
<1>3. /\ down \in [1 .. n -> 1 .. n + 1] /\ \A p \in 1 .. n : down[p] > p
      /\ \A p \in 1 .. n : down[p] \in S => p \in S
  <2> HIDE DEF S
  <2> QED
    BY <1>2
<1>4. 1 .. n + 1 \subseteq S
  <2> HIDE DEF S, down
  <2> QED
    BY <1>1, <1>3, Backwards
<1>5. 1 \in S
  BY <1>4
<1> QED
  BY <1>5 DEF Solves

-----------------------------------------------------------------------------
(* Lexemes.                                                                *)
LEMMA EndIs ==
  ASSUME NEW s \in Seq(Characters), NEW p \in DOMAIN s
  PROVE  /\ LexemeEnd(s, p) \in Ends(s, p) \cup {Len(s) + 1}
         /\ \A q \in Ends(s, p) : LexemeEnd(s, p) <= q
         /\ Ends(s, p) \subseteq p .. Len(s)
         /\ LexemeEnd(s, p) \in p .. Len(s) + 1
<1>1. Len(s) \in Nat /\ p \in 1 .. Len(s)
  OBVIOUS
<1>2. Ends(s, p) \subseteq p .. Len(s)
  BY <1>1 DEF Ends
<1> DEFINE E == Ends(s, p) \cup {Len(s) + 1}
<1>3. E \in SUBSET Nat /\ E /= {} /\ E \subseteq p .. Len(s) + 1
  BY <1>1, <1>2
<1>4. \E x \in E : \A y \in E : x <= y
  <2> HIDE DEF E
  <2> QED
    BY <1>3, Least
<1>5. Min(E) \in E /\ \A y \in E : Min(E) <= y
  BY <1>4, Zenon DEF Min
<1>6. LexemeEnd(s, p) = Min(E)
  BY DEF LexemeEnd
<1> QED
  BY <1>2, <1>3, <1>5, <1>6

LEMMA LexemeTextIs ==
  ASSUME NEW s \in Seq(Characters), NEW p \in DOMAIN s, NEW e \in DOMAIN s
  PROVE  /\ LexemeText(s, p, e) \in Seq(Printable)
         /\ SubSeq(s, p, e) \in Seq(Characters)
<1>1. SubSeq(s, p, e) \in Seq(Characters)
  OBVIOUS
<1>2. PICK k \in Nat : k = Newlines(SubSeq(s, p, e))
  BY <1>1, NewlinesFinite
<1>3. Characters \subseteq Printable
  BY DEF Printable
<1>4. SubSeq(s, p, e) \in Seq(Printable)
  BY <1>1, <1>3
<1>5. PICK space \in Seq(Printable) : space = <<" ">>
  <2>1. PICK ch \in Printable : ch = " "
    BY DEF Printable
  <2>2. <<ch>> \in Seq(Printable)
    OBVIOUS
  <2> QED
    BY <2>1, <2>2, Zenon
<1>6. PICK newlines \in Seq(Printable) : newlines = [i \in 1 .. k |-> "\n"]
  <2>1. "\n" \in Printable
    BY <1>3 DEF Characters, Special
  <2>2. [i \in 1 .. k |-> "\n"] \in Seq(Printable)
    BY <2>1
  <2> QED
    BY <2>2
<1>7. \/ LexemeText(s, p, e) = space \o newlines
      \/ LexemeText(s, p, e) = SubSeq(s, p, e)
  BY <1>2, <1>5, <1>6, Zenon DEF LexemeText
<1>8. space \o newlines \in Seq(Printable)
  OBVIOUS
<1> QED
  BY <1>1, <1>4, <1>7, <1>8

(* The recursive definition of the reference text has a value, and is what *)
(* it says.                                                                *)
TextOf(s, f) ==
  [p \in 1 .. Len(s) + 1 |->
     IF p > Len(s) THEN <<>>
     ELSE IF LexemeEnd(s, p) > Len(s) THEN LexemeText(s, p, Len(s))
     ELSE LexemeText(s, p, LexemeEnd(s, p)) \o f[LexemeEnd(s, p) + 1]]

LEMMA TextsIs ==
  ASSUME NEW s \in Seq(Characters)
  PROVE  /\ Texts(s) = TextOf(s, Texts(s))
         /\ \A p \in 1 .. Len(s) + 1 : Texts(s)[p] \in Seq(Printable)
<1> DEFINE n == Len(s)
           V == Seq(Printable)
           next == [p \in 1 .. n |-> IF LexemeEnd(s, p) > n THEN n + 1
                                     ELSE LexemeEnd(s, p) + 1]
           step == [p \in 1 .. n |-> [v \in V |->
                     IF LexemeEnd(s, p) > n THEN LexemeText(s, p, n)
                     ELSE LexemeText(s, p, LexemeEnd(s, p)) \o v]]
<1>1. n \in Nat /\ 1 .. n = DOMAIN s
  OBVIOUS
<1>2. \A p \in 1 .. n : LexemeEnd(s, p) \in p .. n + 1
  BY <1>1, EndIs
<1>3. /\ next \in [1 .. n -> 1 .. n + 1]
      /\ \A p \in 1 .. n : next[p] > p
  BY <1>1, <1>2
<1>4. <<>> \in V /\ \A u, v \in V : u \o v \in V
  OBVIOUS
<1>5. \A p, e \in 1 .. n : LexemeText(s, p, e) \in V
  BY <1>1, LexemeTextIs
<1>6. step \in [1 .. n -> [V -> V]]
  <2>1. ASSUME NEW p \in 1 .. n, NEW v \in V
        PROVE  (IF LexemeEnd(s, p) > n THEN LexemeText(s, p, n)
                ELSE LexemeText(s, p, LexemeEnd(s, p)) \o v) \in V
    <3>1. CASE LexemeEnd(s, p) > n
      BY <1>1, <1>5, <3>1
    <3>2. CASE ~(LexemeEnd(s, p) > n)
      <4>1. LexemeEnd(s, p) \in 1 .. n
        BY <1>1, <1>2, <3>2
      <4>2. LexemeText(s, p, LexemeEnd(s, p)) \in V
        BY <1>5, <4>1
      <4> QED
        BY <1>4, <3>2, <4>2
    <3> QED
      BY <3>1, <3>2
  <2> QED
    BY <2>1
<1>7. \E f \in [1 .. n + 1 -> V] :
        f[n + 1] = <<>> /\ \A p \in 1 .. n : f[p] = step[p][f[next[p]]]
  <2>1. PICK base \in V : base = <<>>
    BY <1>4
  <2>2. n \in Nat
    BY <1>1
  <2> HIDE DEF n, V, step, next
  <2>3. \E f \in [1 .. n + 1 -> V] : Solves(n, base, next, step, f)
    BY <1>3, <1>6, <2>2, Recursion DEF Onward
  <2> QED
    BY <2>1, <2>3 DEF Solves
<1>8. \E f : f = TextOf(s, f)
  <2>1. PICK f \in [1 .. n + 1 -> V] :
          f[n + 1] = <<>> /\ \A p \in 1 .. n : f[p] = step[p][f[next[p]]]
    BY <1>7
  <2>2. \A p \in 1 .. n : f[next[p]] \in V
    BY <1>3, <2>1
  <2>3. ASSUME NEW p \in 1 .. n + 1
        PROVE  f[p] = TextOf(s, f)[p]
    <3>1. CASE p = n + 1
      BY <1>1, <2>1, <3>1 DEF TextOf
    <3>2. CASE p \in 1 .. n
      <4>1. f[p] = step[p][f[next[p]]] /\ f[next[p]] \in V
        BY <2>1, <2>2, <3>2
      <4>2. CASE LexemeEnd(s, p) > n
        BY <1>1, <3>2, <4>1, <4>2 DEF TextOf
      <4>3. CASE ~(LexemeEnd(s, p) > n)
        BY <1>1, <3>2, <4>1, <4>3 DEF TextOf
      <4> QED
        BY <4>2, <4>3
    <3> QED
      BY <1>1, <3>1, <3>2
  <2>4. f = TextOf(s, f)
    BY <2>1, <2>3 DEF TextOf
  <2> QED
    BY <2>4
<1>9. Texts(s) = CHOOSE f : f = TextOf(s, f)
  BY Zenon DEF Texts, TextOf
<1>10. Texts(s) = TextOf(s, Texts(s))
  BY <1>8, <1>9, Zenon
<1> DEFINE S == {p \in 1 .. n + 1 : Texts(s)[p] \in V}
<1>11. n + 1 \in S
  BY <1>1, <1>4, <1>10 DEF TextOf
<1>12. ASSUME NEW p \in 1 .. n, next[p] \in S
       PROVE  p \in S
  <2>1. CASE LexemeEnd(s, p) > n
    BY <1>1, <1>5, <1>10, <2>1 DEF TextOf
  <2>2. CASE ~(LexemeEnd(s, p) > n)
    <3>1. LexemeEnd(s, p) \in 1 .. n
      BY <1>1, <1>2, <2>2
    <3>2. /\ LexemeText(s, p, LexemeEnd(s, p)) \in V
          /\ Texts(s)[LexemeEnd(s, p) + 1] \in V
      BY <1>5, <1>12, <2>2, <3>1
    <3>0. TextOf(s, Texts(s))[p] = LexemeText(s, p, LexemeEnd(s, p))
                                     \o Texts(s)[LexemeEnd(s, p) + 1]
      BY <1>1, <2>2 DEF TextOf
    <3>3. Texts(s)[p] = LexemeText(s, p, LexemeEnd(s, p))
                          \o Texts(s)[LexemeEnd(s, p) + 1]
      BY <1>10, <3>0, Zenon
    <3>4. Texts(s)[p] \in V
      BY <1>4, <3>2, <3>3
    <3> QED
      BY <3>4
  <2> QED
    BY <2>1, <2>2
<1>13. 1 .. n + 1 \subseteq S
  <2> HIDE DEF n, S, next
  <2> QED
    BY <1>1, <1>3, <1>11, <1>12, Backwards DEF Onward
<1> QED
  BY <1>10, <1>13

OpenOf(s, f) ==
  [p \in 1 .. Len(s) + 1 |->
     IF p > Len(s) THEN 0
     ELSE IF LexemeEnd(s, p) <= Len(s) THEN f[LexemeEnd(s, p) + 1]
     ELSE IF IsComment(s, p, "*") THEN Newlines(SubSeq(s, 1, p)) + 1
     ELSE 0]

LEMMA OpensIs ==
  ASSUME NEW s \in Seq(Characters)
  PROVE  Opens(s) = OpenOf(s, Opens(s))
<1> DEFINE n == Len(s)
           next == [p \in 1 .. n |-> IF LexemeEnd(s, p) > n THEN n + 1
                                     ELSE LexemeEnd(s, p) + 1]
           Line(p) == IF IsComment(s, p, "*")
                      THEN Newlines(SubSeq(s, 1, p)) + 1 ELSE 0
           step == [p \in 1 .. n |-> [v \in Nat |->
                     IF LexemeEnd(s, p) <= n THEN v ELSE Line(p)]]
<1>1. n \in Nat /\ 1 .. n = DOMAIN s
  OBVIOUS
<1>2. \A p \in 1 .. n : LexemeEnd(s, p) \in p .. n + 1
  BY <1>1, EndIs
<1>3. Onward(n, next)
  BY <1>1, <1>2 DEF Onward
<1>4. \A p \in 1 .. n : Line(p) \in Nat
  <2>1. SUFFICES ASSUME NEW p \in 1 .. n PROVE Line(p) \in Nat
    OBVIOUS
  <2>2. SubSeq(s, 1, p) \in Seq(Characters)
    OBVIOUS
  <2>3. Newlines(SubSeq(s, 1, p)) \in Nat
    BY <2>2, NewlinesFinite
  <2> QED
    BY <2>3
<1>5. step \in [1 .. n -> [Nat -> Nat]]
  <2> HIDE DEF Line
  <2> QED
    BY <1>4
<1>6. \E f \in [1 .. n + 1 -> Nat] : Solves(n, 0, next, step, f)
  <2>1. 0 \in Nat
    OBVIOUS
  <2> HIDE DEF n, next, step
  <2> QED
    BY <1>1, <1>3, <1>5, <2>1, Recursion
<1>7. \E f : f = OpenOf(s, f)
  <2>1. PICK f \in [1 .. n + 1 -> Nat] :
          f[n + 1] = 0 /\ \A p \in 1 .. n : f[p] = step[p][f[next[p]]]
    BY <1>6 DEF Solves
  <2>2. \A p \in 1 .. n : f[next[p]] \in Nat
    BY <1>3, <2>1 DEF Onward
  <2>3. ASSUME NEW p \in 1 .. n + 1
        PROVE  f[p] = OpenOf(s, f)[p]
    <3>1. CASE p = n + 1
      BY <1>1, <2>1, <3>1 DEF OpenOf
    <3>2. CASE p \in 1 .. n
      <4>1. f[p] = step[p][f[next[p]]] /\ f[next[p]] \in Nat
        BY <2>1, <2>2, <3>2
      <4>2. CASE LexemeEnd(s, p) > n
        <5>1. LexemeEnd(s, p) = n + 1
          <6>1. LexemeEnd(s, p) \in p .. n + 1
            BY <1>2, <3>2
          <6> QED
            BY <1>1, <3>2, <4>2, <6>1
        <5>2. f[p] = Line(p)
          BY <1>1, <3>2, <4>1, <5>1
        <5> QED
          BY <1>1, <3>2, <5>1, <5>2 DEF OpenOf
      <4>3. CASE ~(LexemeEnd(s, p) > n)
        <5>1. LexemeEnd(s, p) \in 1 .. n
          BY <1>1, <1>2, <3>2, <4>3
        <5> QED
          BY <1>1, <3>2, <4>1, <5>1 DEF OpenOf
      <4> QED
        BY <4>2, <4>3
    <3> QED
      BY <1>1, <3>1, <3>2
  <2>4. f = OpenOf(s, f)
    BY <2>1, <2>3 DEF OpenOf
  <2> QED
    BY <2>4
<1>8. Opens(s) = CHOOSE f : f = OpenOf(s, f)
  BY Zenon DEF Opens, OpenOf
<1> QED
  BY <1>7, <1>8, Zenon

-----------------------------------------------------------------------------
(* What a text is still says of a lexeme when more follows.                *)
Prolongs(s, s2) ==
  /\ s2 \in Seq(Characters)
  /\ Len(s) <= Len(s2)
  /\ \A i \in 1 .. Len(s) : s2[i] = s[i]
(* The kind of the lexeme at p is known.                                   *)
Settled(s, p) == p + 1 \in DOMAIN s \/ s[p] /= "/"

LEMMA EscapedKept ==
  ASSUME NEW s \in Seq(Characters), NEW s2, Prolongs(s, s2),
         NEW p \in DOMAIN s, NEW q \in p + 1 .. Len(s) + 1
  PROVE  Escaped(s2, p, q) <=> Escaped(s, p, q)
<1>1. \A i \in p .. q - 1 : s2[i] = s[i]
  BY DEF Prolongs
<1>2. ASSUME NEW r \in p + 1 .. q - 1
      PROVE  /\ s2[r - 1] = s[r - 1]
             /\ \A k \in r .. q - 1 : s2[k] = s[k]
  BY <1>1
<1> QED
  BY <1>2 DEF Escaped

LEMMA LexemeKept ==
  ASSUME NEW s \in Seq(Characters), NEW s2, Prolongs(s, s2),
         NEW p \in DOMAIN s, Settled(s, p)
  PROVE  /\ s2 \in Seq(Characters) /\ p \in DOMAIN s2 /\ Settled(s2, p)
         /\ \A c \in {"/", "*"} : IsComment(s2, p, c) <=> IsComment(s, p, c)
         /\ s2[p] = s[p]
         /\ Ends(s2, p) \cap 1 .. Len(s) = Ends(s, p)
<1>1. /\ s2 \in Seq(Characters) /\ Len(s) \in Nat /\ Len(s2) \in Nat
      /\ Len(s) <= Len(s2) /\ DOMAIN s = 1 .. Len(s)
      /\ DOMAIN s2 = 1 .. Len(s2) /\ p \in 1 .. Len(s) /\ p \in 1 .. Len(s2)
      /\ \A i \in 1 .. Len(s) : s2[i] = s[i]
  BY DEF Prolongs
<1>2. Settled(s2, p)
  BY <1>1 DEF Settled
<1>3. \A c \in {"/", "*"} : IsComment(s2, p, c) <=> IsComment(s, p, c)
  BY <1>1 DEF Settled, IsComment, At
<1>4. IsComment(s2, p, "/") <=> IsComment(s, p, "/")
  BY <1>3
<1>5. IsComment(s2, p, "*") <=> IsComment(s, p, "*")
  BY <1>3
<1>6. Ends(s2, p) \cap 1 .. Len(s) = Ends(s, p)
  <2>1. CASE IsComment(s, p, "/")
    BY <1>1, <1>4, <2>1 DEF Ends
  <2>2. CASE ~IsComment(s, p, "/") /\ IsComment(s, p, "*")
    BY <1>1, <1>4, <1>5, <2>2 DEF Ends
  <2>3. CASE ~IsComment(s, p, "/") /\ ~IsComment(s, p, "*")
    <3>1. CASE s[p] \in Quotes
      <4>1. \A q \in p + 1 .. Len(s) : Escaped(s2, p, q) <=> Escaped(s, p, q)
        BY <1>1, EscapedKept
      <4>2. /\ Ends(s, p) = {q \in p + 1 .. Len(s) :
                               s[q] = s[p] /\ ~Escaped(s, p, q)}
            /\ Ends(s2, p) = {q \in p + 1 .. Len(s2) :
                               s2[q] = s2[p] /\ ~Escaped(s2, p, q)}
        BY <1>1, <1>4, <1>5, <2>3, <3>1 DEF Ends
      <4>3. \A q \in p + 1 .. Len(s) : s2[q] = s[q]
        BY <1>1
      <4> QED
        BY <1>1, <4>1, <4>2, <4>3
    <3>2. CASE s[p] \notin Quotes
      BY <1>1, <1>4, <1>5, <2>3, <3>2 DEF Ends
    <3> QED
      BY <3>1, <3>2
  <2> QED
    BY <2>1, <2>2, <2>3
<1> QED
  BY <1>1, <1>2, <1>3, <1>6

LEMMA SubSeqKept ==
  ASSUME NEW s \in Seq(Characters), NEW s2, Prolongs(s, s2),
         NEW p \in DOMAIN s, NEW e \in DOMAIN s
  PROVE  SubSeq(s2, p, e) = SubSeq(s, p, e)
<1>1. /\ p \in Int /\ e \in Int
      /\ \A i \in p .. e : s[i] \in Characters /\ s2[i] = s[i]
  BY DEF Prolongs
<1>2. PICK a : a = SubSeq(s, p, e)
  OBVIOUS
<1>3. PICK b : b = SubSeq(s2, p, e)
  OBVIOUS
<1>4. /\ a \in Seq(Characters)
      /\ Len(a) = IF p <= e THEN e - p + 1 ELSE 0
      /\ \A i \in 1 .. e - p + 1 : a[i] = s[p + i - 1]
  BY <1>1, <1>2, SubSeqProperties
<1>5. /\ b \in Seq(Characters)
      /\ Len(b) = IF p <= e THEN e - p + 1 ELSE 0
      /\ \A i \in 1 .. e - p + 1 : b[i] = s2[p + i - 1]
  BY <1>1, <1>3, SubSeqProperties
<1>6. ASSUME NEW i \in 1 .. Len(a)
      PROVE  a[i] = b[i]
  <2>1. i \in 1 .. e - p + 1 /\ p + i - 1 \in p .. e
    <3>1. CASE p <= e
      <4>1. i \in 1 .. e - p + 1
        BY <1>4, <3>1
      <4>2. i \in Int /\ 1 <= i /\ i <= e - p + 1
        BY <1>1, <4>1
      <4> QED
        BY <1>1, <4>1, <4>2
    <3>2. CASE ~(p <= e)
      BY <1>4, <3>2
    <3> QED
      BY <3>1, <3>2
  <2> QED
    BY <1>1, <1>4, <1>5, <2>1
<1>7. a = b
  BY <1>4, <1>5, <1>6, SeqEqual
<1> QED
  BY <1>2, <1>3, <1>7

LEMMA TextKept ==
  ASSUME NEW s \in Seq(Characters), NEW s2, Prolongs(s, s2),
         NEW p \in DOMAIN s, Settled(s, p), NEW e \in DOMAIN s
  PROVE  LexemeText(s2, p, e) = LexemeText(s, p, e)
<1>1. SubSeq(s2, p, e) = SubSeq(s, p, e)
  BY SubSeqKept
<1>2. /\ IsComment(s2, p, "/") <=> IsComment(s, p, "/")
      /\ IsComment(s2, p, "*") <=> IsComment(s, p, "*")
  BY LexemeKept
<1> QED
  BY <1>1, <1>2, Zenon DEF LexemeText

LEMMA EndKept ==
  ASSUME NEW s \in Seq(Characters), NEW s2, Prolongs(s, s2),
         NEW p \in DOMAIN s, Settled(s, p), LexemeEnd(s, p) <= Len(s)
  PROVE  LexemeEnd(s2, p) = LexemeEnd(s, p)
<1>1. /\ s2 \in Seq(Characters) /\ p \in DOMAIN s2
      /\ Ends(s2, p) \cap 1 .. Len(s) = Ends(s, p)
  BY LexemeKept
<1>2. /\ Len(s) \in Nat /\ Len(s2) \in Nat /\ Len(s) <= Len(s2)
      /\ p \in 1 .. Len(s)
  BY <1>1 DEF Prolongs
<1> DEFINE e == LexemeEnd(s, p)
           e2 == LexemeEnd(s2, p)
<1>3. e \in Ends(s, p) /\ (\A q \in Ends(s, p) : e <= q) /\ e \in p .. Len(s)
  BY <1>2, EndIs
<1>4. /\ e2 \in Ends(s2, p) \cup {Len(s2) + 1}
      /\ \A q \in Ends(s2, p) : e2 <= q
      /\ e2 \in p .. Len(s2) + 1
  BY <1>1, EndIs
<1>5. e2 <= e
  BY <1>1, <1>3, <1>4
<1>6. e2 \in Ends(s, p)
  BY <1>1, <1>2, <1>3, <1>4, <1>5
<1> QED
  BY <1>2, <1>3, <1>4, <1>5, <1>6

(* Whatever follows s, the reference is as if it had printed done and came *)
(* to p, with nothing open.                                                *)
Goes(s, p, done) ==
  \A s2 : Prolongs(s, s2) =>
    /\ Texts(s2)[1] = done \o Texts(s2)[p]
    /\ Opens(s2)[1] = Opens(s2)[p]

LEMMA GoesOn ==
  ASSUME NEW s \in Seq(Characters), NEW p, NEW done, Goes(s, p, done),
         NEW ch \in Characters
  PROVE  Goes(Append(s, ch), p, done)
<1>1. ASSUME NEW s2, Prolongs(Append(s, ch), s2)
      PROVE  Prolongs(s, s2)
  BY <1>1 DEF Prolongs
<1> QED
  BY <1>1 DEF Goes

LEMMA Closes ==
  ASSUME NEW s \in Seq(Characters), NEW p \in DOMAIN s,
         NEW done \in Seq(Printable), Goes(s, p, done), Settled(s, p),
         NEW e, e = LexemeEnd(s, p), e <= Len(s)
  PROVE  Goes(s, e + 1, done \o LexemeText(s, p, e))
<1>1. SUFFICES ASSUME NEW s2, Prolongs(s, s2)
               PROVE  /\ Texts(s2)[1] =
                           (done \o LexemeText(s, p, e)) \o Texts(s2)[e + 1]
                      /\ Opens(s2)[1] = Opens(s2)[e + 1]
  BY DEF Goes
<1>2. LexemeEnd(s2, p) = e
  BY <1>1, EndKept
<1>3. e \in DOMAIN s /\ e \in p .. Len(s) /\ p \in 1 .. Len(s)
  BY EndIs
<1>4. /\ s2 \in Seq(Characters) /\ Len(s2) \in Nat /\ Len(s) <= Len(s2)
      /\ p \in 1 .. Len(s2) + 1 /\ e + 1 \in 1 .. Len(s2) + 1
      /\ ~(p > Len(s2)) /\ e <= Len(s2) /\ ~(e > Len(s2))
  BY <1>1, <1>3 DEF Prolongs
<1>5. LexemeText(s2, p, e) = LexemeText(s, p, e)
  BY <1>1, <1>3, TextKept
<1>6. TextOf(s2, Texts(s2))[p] = LexemeText(s, p, e) \o Texts(s2)[e + 1]
  BY <1>2, <1>4, <1>5 DEF TextOf
<1>7. Texts(s2)[p] = LexemeText(s, p, e) \o Texts(s2)[e + 1]
  BY <1>4, <1>6, TextsIs
<1>8. /\ LexemeText(s, p, e) \in Seq(Printable)
      /\ Texts(s2)[e + 1] \in Seq(Printable)
  BY <1>3, <1>4, LexemeTextIs, TextsIs
<1>9. Texts(s2)[1] = done \o Texts(s2)[p] /\ Opens(s2)[1] = Opens(s2)[p]
  BY <1>1 DEF Goes
<1>10. PICK L, R \in Seq(Printable) :
         L = LexemeText(s, p, e) /\ R = Texts(s2)[e + 1]
  BY <1>8
<1>11. (done \o L) \o R = done \o (L \o R)
  BY ConcatPrinted
<1>a. Texts(s2)[1] = (done \o LexemeText(s, p, e)) \o Texts(s2)[e + 1]
  BY <1>7, <1>9, <1>10, <1>11, Zenon
<1>12. OpenOf(s2, Opens(s2))[p] = Opens(s2)[e + 1]
  BY <1>2, <1>4 DEF OpenOf
<1>13. Opens(s2)[p] = Opens(s2)[e + 1]
  BY <1>4, <1>12, OpensIs
<1> QED
  BY <1>9, <1>a, <1>13

-----------------------------------------------------------------------------
(* One character more.                                                     *)
LEMMA Appended ==
  ASSUME NEW s \in Seq(Characters), NEW ch \in Characters,
         NEW t, t = Append(s, ch)
  PROVE  /\ t \in Seq(Characters) /\ Len(t) = Len(s) + 1 /\ Len(s) \in Nat
         /\ DOMAIN s = 1 .. Len(s) /\ DOMAIN t = 1 .. Len(s) + 1
         /\ t[Len(s) + 1] = ch
         /\ \A i \in 1 .. Len(s) : t[i] = s[i]
         /\ Prolongs(s, t)
  BY DEF Prolongs

(* What is left of a character of the lexeme at p.                         *)
Left(s, p, ch) ==
  IF (IsComment(s, p, "/") \/ IsComment(s, p, "*")) /\ ch /= "\n"
  THEN <<>> ELSE <<ch>>

LEMMA OneMore ==
  ASSUME NEW k \in Nat, NEW c
  PROVE  [i \in 1 .. k + 1 |-> c] = [i \in 1 .. k |-> c] \o <<c>>
<1>1. /\ [i \in 1 .. k + 1 |-> c] \in Seq({c})
      /\ [i \in 1 .. k |-> c] \in Seq({c}) /\ <<c>> \in Seq({c})
  OBVIOUS
<1>2. PICK a : a = [i \in 1 .. k + 1 |-> c]
  OBVIOUS
<1>3. PICK b : b = [i \in 1 .. k |-> c]
  OBVIOUS
<1>4. /\ a \in Seq({c}) /\ b \in Seq({c}) /\ Len(a) = k + 1 /\ Len(b) = k
      /\ (\A i \in 1 .. k + 1 : a[i] = c) /\ (\A i \in 1 .. k : b[i] = c)
  BY <1>1, <1>2, <1>3
<1>5. /\ b \o <<c>> \in Seq({c}) /\ Len(b \o <<c>>) = k + 1
      /\ \A i \in 1 .. k + 1 : (b \o <<c>>)[i] = c
  BY <1>4
<1>6. a = b \o <<c>>
  BY <1>4, <1>5, SeqEqual
<1> QED
  BY <1>2, <1>3, <1>6

LEMMA TextGrows ==
  ASSUME NEW s \in Seq(Characters), NEW ch \in Characters,
         NEW t, t = Append(s, ch), NEW p \in DOMAIN s, Settled(s, p)
  PROVE  LexemeText(t, p, Len(t)) =
           LexemeText(s, p, Len(s)) \o Left(s, p, ch)
<1>a. /\ t \in Seq(Characters) /\ Len(t) = Len(s) + 1 /\ Len(s) \in Nat
      /\ DOMAIN s = 1 .. Len(s) /\ t[Len(s) + 1] = ch /\ Prolongs(s, t)
  BY Appended, Zenon
<1>1. /\ t \in Seq(Characters) /\ Len(t) = Len(s) + 1 /\ Len(s) \in Nat
      /\ p \in 1 .. Len(s) /\ t[Len(t)] = ch /\ Prolongs(s, t)
  BY <1>a
<1>2. PICK n \in Nat : n = Len(s)
  BY <1>1
<1>3. PICK old \in Seq(Characters) : old = SubSeq(s, p, n)
  <2>1. SubSeq(s, p, n) \in Seq(Characters)
    BY <1>1, <1>2
  <2> QED
    BY <2>1
<1>4. SubSeq(t, p, n) = old
  BY <1>1, <1>2, <1>3, SubSeqKept
<1>5. SubSeq(t, p, n + 1) = SubSeq(t, p, n) \o <<t[n + 1]>>
  <2>1. p \in 1 .. Len(t) /\ n + 1 \in p .. Len(t) /\ (n + 1) - 1 = n
    BY <1>1, <1>2
  <2>2. PICK m : m = n + 1
    OBVIOUS
  <2>3. SubSeq(t, p, m) = SubSeq(t, p, m - 1) \o <<t[m]>>
    BY <1>1, <2>1, <2>2, SubSeqRecursiveSecond
  <2> QED
    BY <2>1, <2>2, <2>3
<1>6. SubSeq(t, p, n + 1) = old \o <<ch>> /\ old \o <<ch>> = Append(old, ch)
  <2>1. t[n + 1] = ch
    BY <1>1, <1>2
  <2>2. SubSeq(t, p, n + 1) = old \o <<ch>>
    BY <1>4, <1>5, <2>1, Zenon
  <2>3. old \o <<ch>> = Append(old, ch)
    OBVIOUS
  <2> QED
    BY <2>2, <2>3
<1>7. /\ IsComment(t, p, "/") <=> IsComment(s, p, "/")
      /\ IsComment(t, p, "*") <=> IsComment(s, p, "*")
  BY <1>1, LexemeKept
<1>8. CASE ~(IsComment(s, p, "/") \/ IsComment(s, p, "*"))
  BY <1>1, <1>2, <1>3, <1>6, <1>7, <1>8, Zenon DEF LexemeText, Left
<1>9. CASE IsComment(s, p, "/") \/ IsComment(s, p, "*")
  <2>1. PICK k \in Nat : k = Newlines(old)
    BY NewlinesFinite
  <2>2. PICK k2 : k2 = Newlines(Append(old, ch))
    OBVIOUS
  <2>3. k2 = IF ch = "\n" THEN k + 1 ELSE k
    BY <2>1, <2>2, NewlinesAppend
  <2>4. PICK nl : nl = "\n"
    OBVIOUS
  <2>5. PICK space : space = <<" ">>
    OBVIOUS
  <2>6. PICK a : a = [i \in 1 .. k |-> nl]
    OBVIOUS
  <2>7. PICK b : b = [i \in 1 .. k2 |-> nl]
    OBVIOUS
  <2>8. LexemeText(s, p, n) = space \o a /\ LexemeText(t, p, n + 1) = space \o b
    BY <1>3, <1>6, <1>7, <1>9, <2>1, <2>2, <2>4, <2>5, <2>6, <2>7, Zenon
       DEF LexemeText
  <2>9. space \in Seq(Printable) /\ nl \in Printable
    <3>1. PICK blank \in Printable : blank = " "
      BY DEF Printable
    <3>2. <<blank>> \in Seq(Printable)
      OBVIOUS
    <3>3. Characters \subseteq Printable
      BY DEF Printable
    <3>4. nl \in Characters
      BY <2>4 DEF Characters, Special
    <3> QED
      BY <2>5, <3>1, <3>2, <3>3, <3>4, Zenon
  <2>10. a \in Seq(Printable) /\ <<nl>> \in Seq(Printable)
    BY <2>6, <2>9
  <2>11. CASE ch = "\n"
    <3>1. b = a \o <<nl>>
      BY <2>1, <2>3, <2>6, <2>7, <2>11, OneMore
    <3>2. (space \o a) \o <<nl>> = space \o (a \o <<nl>>)
      BY <2>9, <2>10, ConcatPrinted
    <3>3. Left(s, p, ch) = <<nl>>
      BY <2>4, <2>11, Zenon DEF Left
    <3> QED
      BY <1>1, <1>2, <2>8, <3>1, <3>2, <3>3
  <2>12. CASE ch /= "\n"
    <3>1. b = a /\ Left(s, p, ch) = <<>>
      BY <1>9, <2>3, <2>6, <2>7, <2>12 DEF Left
    <3>2. space \o a \in Seq(Printable)
      BY <2>9, <2>10
    <3>3. (space \o a) \o <<>> = space \o a
      BY <3>2, ConcatEmptySeq
    <3> QED
      BY <1>1, <1>2, <2>8, <3>1, <3>3
  <2> QED
    BY <2>11, <2>12
<1> QED
  BY <1>8, <1>9

(* A backslash that is not escaped escapes the next character.             *)
LEMMA EscapedNext ==
  ASSUME NEW s \in Seq(Characters), NEW p \in DOMAIN s, s[p] /= "\\",
         NEW q \in p + 1 .. Len(s)
  PROVE  Escaped(s, p, q + 1) <=> s[q] = "\\" /\ ~Escaped(s, p, q)
<1>1. p \in Nat /\ q \in Nat /\ q + 1 - 1 = q
  OBVIOUS
<1>2. CASE s[q] /= "\\"
  <2>1. SUFFICES ASSUME Escaped(s, p, q + 1) PROVE FALSE
    BY <1>2
  <2>2. PICK r \in p + 1 .. q + 1 - 1 : \A k \in r .. q + 1 - 1 : s[k] = "\\"
    BY <2>1 DEF Escaped
  <2>3. q \in r .. q + 1 - 1
    BY <1>1, <2>2
  <2> QED
    BY <1>2, <2>2, <2>3
<1>3. CASE s[q] = "\\"
  <2>1. ASSUME Escaped(s, p, q), Escaped(s, p, q + 1)
        PROVE  FALSE
    <3>1. PICK a \in p + 1 .. q - 1 :
            /\ \A k \in a .. q - 1 : s[k] = "\\"
            /\ s[a - 1] /= "\\" /\ (q - a) % 2 = 1
      BY <2>1 DEF Escaped
    <3>2. PICK b \in p + 1 .. q + 1 - 1 :
            /\ \A k \in b .. q + 1 - 1 : s[k] = "\\"
            /\ s[b - 1] /= "\\" /\ (q + 1 - b) % 2 = 1
      BY <2>1 DEF Escaped
    <3>3. a \in Nat /\ b \in Nat
      BY <1>1
    <3>4. CASE a = b
      BY <1>1, <3>1, <3>2, <3>3, <3>4
    <3>5. CASE a < b
      <4>1. b - 1 \in a .. q - 1
        BY <1>1, <3>3, <3>5
      <4> QED
        BY <3>1, <3>2, <4>1
    <3>6. CASE b < a
      <4>1. a - 1 \in b .. q + 1 - 1
        BY <1>1, <3>3, <3>6
      <4> QED
        BY <3>1, <3>2, <4>1
    <3> QED
      BY <3>3, <3>4, <3>5, <3>6
  <2>2. ASSUME ~Escaped(s, p, q)
        PROVE  Escaped(s, p, q + 1)
    <3> DEFINE R == {r \in p + 1 .. q : \A k \in r .. q : s[k] = "\\"}
    <3>1. q \in R
      BY <1>1, <1>3
    <3>2. R \subseteq Nat
      BY <1>1
    <3>3. PICK r \in R : \A x \in R : r <= x
      <4> HIDE DEF R
      <4> QED
        BY <3>1, <3>2, Least
    <3>4. r \in p + 1 .. q /\ \A k \in r .. q : s[k] = "\\"
      OBVIOUS
    <3>5. s[r - 1] /= "\\"
      <4>1. SUFFICES ASSUME s[r - 1] = "\\" PROVE FALSE
        OBVIOUS
      <4>2. r - 1 /= p
        BY <4>1
      <4>3. r - 1 \in p + 1 .. q
        BY <1>1, <3>4, <4>2
      <4>4. \A k \in r - 1 .. q : k = r - 1 \/ k \in r .. q
        BY <1>1, <3>4
      <4>5. r - 1 \in R
        BY <3>4, <4>1, <4>3, <4>4
      <4>6. ~(r <= r - 1)
        BY <3>4
      <4> QED
        BY <3>3, <4>5, <4>6
    <3>6. (q + 1 - r) % 2 = 1
      <4>1. SUFFICES ASSUME (q + 1 - r) % 2 /= 1 PROVE FALSE
        OBVIOUS
      <4>2. (q - r) % 2 = 1
        BY <1>1, <3>4, <4>1
      <4>3. r /= q
        BY <1>1, <3>4, <4>2
      <4>4. r \in p + 1 .. q - 1 /\ \A k \in r .. q - 1 : s[k] = "\\"
        BY <1>1, <3>4, <4>3
      <4> QED
        BY <2>2, <3>5, <4>2, <4>4 DEF Escaped
    <3>7. r \in p + 1 .. q + 1 - 1 /\ \A k \in r .. q + 1 - 1 : s[k] = "\\"
      BY <1>1, <3>4
    <3> QED
      BY <3>5, <3>6, <3>7 DEF Escaped
  <2> QED
    BY <1>3, <2>1, <2>2
<1> QED
  BY <1>2, <1>3

(* The lexeme at p is still open at the end of s, and out is what it and   *)
(* the lexemes before it have left.                                        *)
Reading(s, p, done, out) ==
  /\ p \in DOMAIN s /\ done \in Seq(Printable)
  /\ Goes(s, p, done) /\ Settled(s, p)
  /\ Ends(s, p) = {}
  /\ out = done \o LexemeText(s, p, Len(s))

LEMMA ReadOn ==
  ASSUME NEW s \in Seq(Characters), NEW ch \in Characters,
         NEW t, t = Append(s, ch), NEW p, NEW done, NEW out,
         Reading(s, p, done, out),
         NEW out2, out2 = out \o Left(s, p, ch)
  PROVE  /\ Len(t) \in Ends(t, p) => Goes(t, Len(t) + 1, out2)
         /\ Len(t) \notin Ends(t, p) => Reading(t, p, done, out2)
<1>1. /\ t \in Seq(Characters) /\ Len(t) = Len(s) + 1 /\ Len(s) \in Nat
      /\ DOMAIN s = 1 .. Len(s) /\ DOMAIN t = 1 .. Len(s) + 1
      /\ Prolongs(s, t)
  BY Appended, Zenon
<1>2. /\ p \in DOMAIN s /\ done \in Seq(Printable) /\ Goes(s, p, done)
      /\ Settled(s, p) /\ Ends(s, p) = {}
      /\ out = done \o LexemeText(s, p, Len(s))
  BY DEF Reading
<1>3. Goes(t, p, done)
  BY <1>2, GoesOn
<1>4. /\ p \in DOMAIN t /\ Settled(t, p)
      /\ Ends(t, p) \cap 1 .. Len(s) = Ends(s, p)
  BY <1>1, <1>2, LexemeKept, Zenon
<1>5. Ends(t, p) \subseteq p .. Len(t)
  BY <1>1, <1>4, EndIs
<1>6. Ends(t, p) \subseteq {Len(t)}
  <2>1. SUFFICES ASSUME NEW q \in Ends(t, p) PROVE q = Len(t)
    OBVIOUS
  <2>2. q \in p .. Len(s) + 1 /\ p \in 1 .. Len(s)
    BY <1>1, <1>2, <1>5
  <2>3. q \notin 1 .. Len(s)
    BY <1>2, <1>4
  <2> QED
    BY <1>1, <2>2, <2>3
<1>7. out2 = done \o LexemeText(t, p, Len(t))
  <2>1. PICK new : new = LexemeText(t, p, Len(t))
    OBVIOUS
  <2>2. Len(s) \in DOMAIN s
    BY <1>1, <1>2
  <2>3. PICK old \in Seq(Printable) : old = LexemeText(s, p, Len(s))
    BY <1>2, <2>2, LexemeTextIs
  <2>4. PICK left : left = Left(s, p, ch)
    OBVIOUS
  <2>5. left \in Seq(Printable)
    <3>1. ch \in Printable
      BY DEF Printable
    <3>2. <<ch>> \in Seq(Printable) /\ <<>> \in Seq(Printable)
      BY <3>1
    <3>3. left \in {<<>>, <<ch>>}
      BY <2>4, Zenon DEF Left
    <3> QED
      BY <3>2, <3>3
  <2>6. new = old \o left
    <3>1. LexemeText(t, p, Len(t)) =
            LexemeText(s, p, Len(s)) \o Left(s, p, ch)
      BY <1>2, TextGrows
    <3> QED
      BY <2>1, <2>3, <2>4, <3>1, Zenon
  <2>7. (done \o old) \o left = done \o (old \o left)
    <3>1. done \in Seq(Printable)
      BY <1>2
    <3> QED
      BY <2>5, <3>1, ConcatPrinted
  <2> QED
    BY <1>2, <2>1, <2>3, <2>4, <2>6, <2>7, Zenon
<1>8. ASSUME Len(t) \in Ends(t, p)
      PROVE  Goes(t, Len(t) + 1, out2)
  <2>1. LexemeEnd(t, p) = Len(t)
    <3>1. /\ LexemeEnd(t, p) <= Len(t)
          /\ LexemeEnd(t, p) \in Ends(t, p) \cup {Len(t) + 1}
      BY <1>1, <1>4, <1>8, EndIs
    <3> QED
      BY <1>1, <1>6, <3>1
  <2>2. PICK e : e = LexemeEnd(t, p)
    OBVIOUS
  <2>3. e <= Len(t)
    BY <1>1, <2>1, <2>2
  <2>4. Goes(t, e + 1, done \o LexemeText(t, p, e))
    BY <1>1, <1>2, <1>3, <1>4, <2>2, <2>3, Closes
  <2> QED
    BY <1>7, <2>1, <2>2, <2>4
<1>9. ASSUME Len(t) \notin Ends(t, p)
      PROVE  Reading(t, p, done, out2)
  <2>1. Ends(t, p) = {}
    BY <1>6, <1>9
  <2> QED
    BY <1>2, <1>3, <1>4, <1>7, <2>1 DEF Reading
<1> QED
  BY <1>8, <1>9

(* Where a lexeme begins.                                                  *)
LEMMA PutTwo ==
  ASSUME NEW out \in Seq(Printable), NEW held \in {<<>>, <<"/">>},
         NEW ch \in Printable
  PROVE  /\ out \o held \in Seq(Printable)
         /\ (out \o held) \o <<ch>> = out \o Append(held, ch)
<1>1. "/" \in Printable
  BY DEF Printable, Characters, Special
<1>2. held \in Seq(Printable)
  <2>1. PICK slash \in Printable : slash = "/"
    BY <1>1
  <2>2. <<slash>> \in Seq(Printable) /\ <<>> \in Seq(Printable)
    OBVIOUS
  <2> QED
    BY <2>1, <2>2, Zenon
<1>a. PICK last \in Seq(Printable) : last = <<ch>>
  <2>1. <<ch>> \in Seq(Printable)
    OBVIOUS
  <2> QED
    BY <2>1
<1>3. held \o <<ch>> = Append(held, ch)
  BY <1>2
<1>4. (out \o held) \o last = out \o (held \o last)
  BY <1>2, ConcatPrinted
<1>5. out \o held \in Seq(Printable)
  BY <1>2
<1> QED
  BY <1>a, <1>3, <1>4, <1>5, Zenon

LEMMA SubSeqIs ==
  ASSUME NEW s \in Seq(Characters), NEW p \in DOMAIN s, NEW e \in p .. Len(s)
  PROVE  /\ SubSeq(s, p, e) \in Seq(Characters)
         /\ Len(SubSeq(s, p, e)) = e - p + 1
         /\ \A i \in 1 .. e - p + 1 : SubSeq(s, p, e)[i] = s[p + i - 1]
<1>1. p \in Int /\ e \in Int /\ p <= e
  OBVIOUS
<1>2. \A i \in p .. e : s[i] \in Characters
  OBVIOUS
<1>3. PICK a : a = SubSeq(s, p, e)
  OBVIOUS
<1>4. /\ a \in Seq(Characters)
      /\ Len(a) = IF p <= e THEN e - p + 1 ELSE 0
      /\ \A i \in 1 .. e - p + 1 : a[i] = s[p + i - 1]
  BY <1>1, <1>2, <1>3, SubSeqProperties
<1>5. Len(a) = e - p + 1
  BY <1>1, <1>4
<1> QED
  BY <1>3, <1>4, <1>5

LEMMA SubSeqOne ==
  ASSUME NEW s \in Seq(Characters), NEW p \in DOMAIN s
  PROVE  SubSeq(s, p, p) = <<s[p]>>
<1>1. p \in p .. Len(s) /\ p - p + 1 = 1 /\ p + 1 - 1 = p
  OBVIOUS
<1>2. PICK a : a = SubSeq(s, p, p)
  OBVIOUS
<1>3. PICK e : e = p
  OBVIOUS
<1>4. /\ SubSeq(s, p, e) \in Seq(Characters)
      /\ Len(SubSeq(s, p, e)) = e - p + 1
      /\ \A i \in 1 .. e - p + 1 : SubSeq(s, p, e)[i] = s[p + i - 1]
  BY <1>1, <1>3, SubSeqIs
<1>5. /\ a \in Seq(Characters) /\ Len(a) = 1 /\ a[1] = s[p]
  <2>1. e - p + 1 = 1 /\ 1 \in 1 .. e - p + 1 /\ p + 1 - 1 = p
    BY <1>1, <1>3
  <2>2. a[1] = s[p + 1 - 1]
    BY <1>2, <1>3, <1>4, <2>1
  <2> QED
    BY <1>2, <1>3, <1>4, <2>1, <2>2
<1>6. a = <<s[p]>>
  BY <1>5
<1> QED
  BY <1>2, <1>6

(* A character that is a lexeme.                                           *)
LEMMA Alone ==
  ASSUME NEW s \in Seq(Characters), NEW p \in DOMAIN s, Settled(s, p),
         ~IsComment(s, p, "/"), ~IsComment(s, p, "*"), s[p] \notin Quotes,
         NEW out \in Seq(Printable), Goes(s, p, out)
  PROVE  Goes(s, p + 1, out \o <<s[p]>>)
<1>1. Ends(s, p) = {p}
  BY DEF Ends
<1>2. LexemeEnd(s, p) = p /\ p <= Len(s)
  <2>1. Len(s) \in Nat /\ p \in 1 .. Len(s)
    OBVIOUS
  <2>2. /\ LexemeEnd(s, p) \in {p} \cup {Len(s) + 1}
        /\ LexemeEnd(s, p) <= p
    BY <1>1, EndIs
  <2> QED
    BY <2>1, <2>2
<1>3. LexemeText(s, p, p) = <<s[p]>>
  <2>1. SubSeq(s, p, p) = <<s[p]>>
    BY SubSeqOne
  <2> QED
    BY <2>1 DEF LexemeText
<1>4. Goes(s, p + 1, out \o LexemeText(s, p, p))
  BY <1>2, Closes
<1> QED
  BY <1>3, <1>4

(* A character that begins no comment and no literal is printed.           *)
LEMMA Copied ==
  ASSUME NEW t \in Seq(Characters), NEW n \in DOMAIN t,
         t[n] \notin Quotes, t[n] /= "/",
         NEW out \in Seq(Printable), Goes(t, n, out)
  PROVE  Goes(t, n + 1, out \o <<t[n]>>)
<1>1. /\ Settled(t, n) /\ ~IsComment(t, n, "/") /\ ~IsComment(t, n, "*")
  BY DEF Settled, IsComment, At
<1> QED
  BY <1>1, Alone

(* So is the slash before it.                                              *)
LEMMA Flushed ==
  ASSUME NEW t \in Seq(Characters), NEW n \in DOMAIN t, n + 1 \in DOMAIN t,
         t[n] = "/", t[n + 1] \notin {"/", "*"},
         NEW out \in Seq(Printable), Goes(t, n, out)
  PROVE  Goes(t, n + 1, out \o <<"/">>)
<1>1. /\ Settled(t, n) /\ ~IsComment(t, n, "/") /\ ~IsComment(t, n, "*")
      /\ t[n] \notin Quotes
  BY DEF Settled, IsComment, At, Quotes
<1>2. Goes(t, n + 1, out \o <<t[n]>>)
  BY <1>1, Alone
<1> QED
  BY <1>2

(* A literal begins.                                                       *)
LEMMA LiteralBegins ==
  ASSUME NEW t \in Seq(Characters), Len(t) > 0, t[Len(t)] \in Quotes,
         NEW out \in Seq(Printable), Goes(t, Len(t), out)
  PROVE  /\ Reading(t, Len(t), out, out \o <<t[Len(t)]>>)
         /\ ~Escaped(t, Len(t), Len(t) + 1)
<1>1. PICK n : n = Len(t)
  OBVIOUS
<1>2. n \in DOMAIN t /\ n \in Nat /\ n > 0 /\ n + 1 \notin DOMAIN t
      /\ (n + 1) .. n = {} /\ n + 1 - 1 = n
  BY <1>1
<1>3. t[n] /= "/"
  BY <1>1 DEF Quotes
<1>4. Settled(t, n) /\ ~IsComment(t, n, "/") /\ ~IsComment(t, n, "*")
  BY <1>3 DEF Settled, IsComment, At
<1>5. Ends(t, n) = {}
  BY <1>1, <1>2, <1>4 DEF Ends
<1>6. LexemeText(t, n, n) = <<t[n]>>
  <2>1. SubSeq(t, n, n) = <<t[n]>>
    BY <1>2, SubSeqOne
  <2> QED
    BY <1>4, <2>1 DEF LexemeText
<1>7. Reading(t, n, out, out \o <<t[n]>>)
  BY <1>1, <1>2, <1>4, <1>5, <1>6 DEF Reading
<1>8. ~Escaped(t, n, n + 1)
  BY <1>2 DEF Escaped
<1> QED
  BY <1>1, <1>7, <1>8

(* A comment begins.                                                       *)
LEMMA CommentBegins ==
  ASSUME NEW t \in Seq(Characters), NEW n \in DOMAIN t, Len(t) = n + 1,
         t[n] = "/", NEW c \in {"/", "*"}, t[n + 1] = c,
         NEW out \in Seq(Printable), Goes(t, n, out)
  PROVE  /\ Reading(t, n, out, out \o <<" ">>)
         /\ IsComment(t, n, c)
<1>1. n \in Nat /\ n + 1 \in DOMAIN t /\ (n + 1) \in 1 .. Len(t) /\ n > 0
  OBVIOUS
<1>2. IsComment(t, n, c) /\ Settled(t, n)
  BY <1>1 DEF IsComment, At, Settled
<1>3. "/" /= "\n" /\ "*" /= "\n"
  OBVIOUS
<1>4. Ends(t, n) = {}
  <2>1. CASE c = "/"
    BY <1>1, <1>2, <1>3, <2>1 DEF Ends
  <2>2. CASE c = "*"
    <3>1. ~IsComment(t, n, "/")
      BY <1>1, <2>2 DEF IsComment, At
    <3>2. Ends(t, n) = {q \in n + 3 .. Len(t) : t[q - 1] = "*" /\ t[q] = "/"}
      BY <1>2, <2>2, <3>1, Zenon DEF Ends
    <3>3. n + 3 .. Len(t) = {}
      BY <1>1
    <3> QED
      BY <3>2, <3>3
  <2> QED
    BY <2>1, <2>2
<1>5. Newlines(SubSeq(t, n, n + 1)) = 0
  <2>1. PICK a : a = SubSeq(t, n, n + 1)
    OBVIOUS
  <2>a. \A i \in n .. n + 1 : t[i] \in Characters /\ t[i] \in {"/", "*"}
    BY <1>1
  <2>b. PICK m \in Nat : m = n + 1
    BY <1>1
  <2>2. /\ a \in Seq(Characters) /\ Len(a) = 2
        /\ \A i \in 1 .. 2 : a[i] = t[n + i - 1]
    <3>1. m \in n .. Len(t) /\ m - n + 1 = 2
      BY <1>1, <2>b
    <3>2. /\ SubSeq(t, n, m) \in Seq(Characters)
          /\ Len(SubSeq(t, n, m)) = m - n + 1
          /\ \A i \in 1 .. m - n + 1 : SubSeq(t, n, m)[i] = t[n + i - 1]
      BY <3>1, SubSeqIs
    <3> QED
      BY <2>1, <2>b, <3>1, <3>2
  <2>3. {i \in DOMAIN a : a[i] = "\n"} = {}
    BY <1>1, <1>3, <2>a, <2>2
  <2> QED
    BY <2>1, <2>3, FS_EmptySet DEF Newlines
<1>6. LexemeText(t, n, n + 1) = <<" ">>
  <2>1. PICK space : space = <<" ">>
    OBVIOUS
  <2>2. PICK blank \in Printable : blank = " "
    BY DEF Printable
  <2>3. <<blank>> \in Seq(Printable)
    OBVIOUS
  <2>4. space \in Seq(Printable)
    BY <2>1, <2>2, <2>3, Zenon
  <2>5. PICK none : none = [i \in 1 .. 0 |-> "\n"]
    OBVIOUS
  <2>6. none = <<>>
    BY <2>5
  <2>7. space \o <<>> = space
    BY <2>4, ConcatEmptySeq
  <2>8. LexemeText(t, n, n + 1) = space \o none
    BY <1>2, <1>5, <2>1, <2>5, Zenon DEF LexemeText
  <2> QED
    BY <2>1, <2>6, <2>7, <2>8, Zenon
<1>7. Reading(t, n, out, out \o <<" ">>)
  BY <1>2, <1>4, <1>6, Zenon DEF Reading
<1> QED
  BY <1>2, <1>7

-----------------------------------------------------------------------------
(* The end of the input.                                                   *)
LEMMA ItselfProlongs ==
  ASSUME NEW s \in Seq(Characters)
  PROVE  Prolongs(s, s)
BY DEF Prolongs

LEMMA EndsClosed ==
  ASSUME NEW s \in Seq(Characters), NEW out \in Seq(Printable),
         Goes(s, Len(s) + 1, out)
  PROVE  Decommented(s) = out /\ OpenComment(s) = 0
<1>1. /\ Texts(s)[1] = out \o Texts(s)[Len(s) + 1]
      /\ Opens(s)[1] = Opens(s)[Len(s) + 1]
  BY ItselfProlongs DEF Goes
<1>2. PICK n \in Nat : n = Len(s)
  OBVIOUS
<1>3. n + 1 \in 1 .. n + 1 /\ n + 1 > n
  OBVIOUS
<1>4. TextOf(s, Texts(s))[n + 1] = <<>>
  BY <1>2, <1>3 DEF TextOf
<1>5. OpenOf(s, Opens(s))[n + 1] = 0
  BY <1>2, <1>3 DEF OpenOf
<1>6. Texts(s)[n + 1] = <<>> /\ Opens(s)[n + 1] = 0
  BY <1>4, <1>5, TextsIs, OpensIs
<1>7. out \o <<>> = out
  BY ConcatEmptySeq
<1> QED
  BY <1>1, <1>2, <1>6, <1>7 DEF Decommented, OpenComment

LEMMA EndsOpen ==
  ASSUME NEW s \in Seq(Characters), NEW p, NEW done, NEW out,
         Reading(s, p, done, out)
  PROVE  /\ Decommented(s) = out
         /\ OpenComment(s) = IF IsComment(s, p, "*")
                             THEN Newlines(SubSeq(s, 1, p)) + 1 ELSE 0
<1>1. /\ p \in DOMAIN s /\ Goes(s, p, done) /\ Ends(s, p) = {}
      /\ out = done \o LexemeText(s, p, Len(s))
  BY DEF Reading
<1>2. /\ Texts(s)[1] = done \o Texts(s)[p]
      /\ Opens(s)[1] = Opens(s)[p]
  BY <1>1, ItselfProlongs DEF Goes
<1>3. LexemeEnd(s, p) = Len(s) + 1
  BY <1>1, EndIs
<1>4. /\ p \in 1 .. Len(s) + 1 /\ ~(p > Len(s))
      /\ LexemeEnd(s, p) > Len(s) /\ ~(LexemeEnd(s, p) <= Len(s))
  BY <1>1, <1>3
<1>5. TextOf(s, Texts(s))[p] = LexemeText(s, p, Len(s))
  BY <1>4 DEF TextOf
<1>6. OpenOf(s, Opens(s))[p] = IF IsComment(s, p, "*")
                               THEN Newlines(SubSeq(s, 1, p)) + 1 ELSE 0
  BY <1>4 DEF OpenOf
<1> QED
  BY <1>1, <1>2, <1>5, <1>6, TextsIs, OpensIs, Zenon
     DEF Decommented, OpenComment

-----------------------------------------------------------------------------
(* What each loop knows of the lexemes of the input.                       *)
MainKnows ==
  IF flag
  THEN /\ Len(input) > 0 /\ input[Len(input)] = "/"
       /\ Goes(input, Len(input), output)
  ELSE Goes(input, Len(input) + 1, output)
LineKnows == \E p, done :
  /\ Reading(input, p, done, output)
  /\ IsComment(input, p, "/")
  /\ ~flag
BlockKnows == \E p, done :
  /\ Reading(input, p, done, output)
  /\ IsComment(input, p, "*")
  /\ flag <=> Len(input) > p + 1 /\ input[Len(input)] = "*"
  /\ com_line = Newlines(SubSeq(input, 1, p)) + 1
LiteralKnows == \E p, done :
  /\ Reading(input, p, done, output)
  /\ input[p] = quote
  /\ flag <=> Escaped(input, p, Len(input) + 1)

Cut ==
  /\ loop = "main" => MainKnows
  /\ loop = "line" => LineKnows
  /\ loop = "block" => BlockKnows
  /\ loop = "literal" => LiteralKnows
  /\ loop \notin Exits => error = 0
  /\ MatchesReference

LEMMA InitCut == Init => Cut
<1> SUFFICES ASSUME Init PROVE Cut
  OBVIOUS
<1>1. <<>> \in Seq(Characters) /\ Len(<<>>) = 0
  OBVIOUS
<1>2. ASSUME NEW s2, Prolongs(<<>>, s2)
      PROVE  Texts(s2)[1] = <<>> \o Texts(s2)[1]
  <2>1. s2 \in Seq(Characters) /\ 1 \in 1 .. Len(s2) + 1
    BY <1>2 DEF Prolongs
  <2>2. Texts(s2)[1] \in Seq(Printable)
    BY <2>1, TextsIs
  <2> QED
    BY <2>2, ConcatEmptySeq
<1>3. Goes(<<>>, 1, <<>>)
  BY <1>2, Zenon DEF Goes
<1>4. Goes(<<>>, Len(<<>>) + 1, <<>>)
  BY <1>1, <1>3
<1> QED
  BY <1>4 DEF Init, Cut, MainKnows, MatchesReference, Exits

(* The next character was read.                                            *)
LEMMA NowRead ==
  ASSUME Inv, NEW where, NEW ch \in Characters, Getchar(where, ch)
  PROVE  /\ input \in Seq(Characters) /\ output \in Seq(Printable)
         /\ input' = Append(input, ch)
         /\ input' \in Seq(Characters) /\ Len(input') = Len(input) + 1
         /\ Len(input) \in Nat /\ DOMAIN input = 1 .. Len(input)
         /\ DOMAIN input' = 1 .. Len(input) + 1
         /\ input'[Len(input) + 1] = ch
         /\ \A i \in 1 .. Len(input) : input'[i] = input[i]
         /\ Prolongs(input, input')
<1>1. /\ input \in Seq(Characters) /\ output \in Seq(Printable)
      /\ input' = Append(input, ch)
  BY DEF Inv, TypeOK, Getchar, Printable
<1>2. PICK s \in Seq(Characters) : s = input
  BY <1>1
<1>3. PICK t : t = Append(s, ch)
  OBVIOUS
<1>4. /\ t \in Seq(Characters) /\ Len(t) = Len(s) + 1 /\ Len(s) \in Nat
      /\ DOMAIN s = 1 .. Len(s) /\ DOMAIN t = 1 .. Len(s) + 1
      /\ t[Len(s) + 1] = ch
      /\ \A i \in 1 .. Len(s) : t[i] = s[i]
      /\ Prolongs(s, t)
  BY <1>3 DEF Prolongs
<1>5. input' = t
  BY <1>1, <1>2, <1>3
<1> QED
  BY <1>1, <1>2, <1>4, <1>5

(* A slash is read in main, or the comment that it begins.                 *)
LEMMA SlashCut ==
  ASSUME Inv, Cut, PossibleComment \/ StartLineComment \/ StartBlockComment
  PROVE  Cut'
<1>s. {"/", "*"} \subseteq Characters
  BY DEF Characters, Special
<1>1. PICK ch \in {"/", "*"} :
        /\ Getchar("main", ch) /\ loop = "main"
        /\ PossibleComment \/ StartLineComment => ch = "/"
        /\ StartBlockComment => ch = "*"
  <2>1. CASE StartBlockComment
    <3>1. Getchar("main", "*") /\ loop = "main"
      BY <2>1 DEF StartBlockComment, Getchar
    <3>2. ~PossibleComment /\ ~StartLineComment
      BY <2>1 DEF PossibleComment, StartLineComment, StartBlockComment
    <3> QED
      BY <3>1, <3>2
  <2>2. CASE ~StartBlockComment
    <3>1. Getchar("main", "/") /\ loop = "main"
      BY <2>2 DEF PossibleComment, StartLineComment, Getchar
    <3> QED
      BY <2>2, <3>1
  <2> QED
    BY <2>1, <2>2
<1>2. /\ input \in Seq(Characters) /\ output \in Seq(Printable)
      /\ input' = Append(input, ch)
      /\ input' \in Seq(Characters) /\ Len(input') = Len(input) + 1
      /\ Len(input) \in Nat /\ DOMAIN input = 1 .. Len(input)
      /\ DOMAIN input' = 1 .. Len(input) + 1
      /\ input'[Len(input) + 1] = ch
      /\ \A i \in 1 .. Len(input) : input'[i] = input[i]
      /\ Prolongs(input, input')
  BY <1>s, <1>1, NowRead
<1>3. MainKnows /\ error = 0
  BY <1>1 DEF Cut, Exits
<1>4. CASE PossibleComment
  <2>1. /\ ~flag /\ flag' = TRUE /\ loop' = "main" /\ ch = "/"
        /\ output' = output /\ error' = error
    BY <1>1, <1>4 DEF PossibleComment
  <2>2. Goes(input, Len(input) + 1, output)
    BY <1>3, <2>1 DEF MainKnows
  <2>3. PICK p : p = Len(input) + 1
    OBVIOUS
  <2>4. Goes(Append(input, ch), p, output)
    BY <1>s, <1>2, <2>2, <2>3, GoesOn
  <2>5. Goes(input', Len(input'), output')
    BY <1>2, <2>1, <2>3, <2>4
  <2>6. MainKnows'
    BY <1>2, <2>1, <2>5 DEF MainKnows
  <2> QED
    BY <1>3, <2>1, <2>6 DEF Cut, MatchesReference, Exits
<1>5. CASE StartLineComment \/ StartBlockComment
  <2>1. /\ flag /\ flag' = FALSE /\ error' = error
        /\ output' = output \o <<" ">>
    BY <1>5 DEF StartLineComment, StartBlockComment, Put
  <2>2. /\ Len(input) > 0 /\ input[Len(input)] = "/"
        /\ Goes(input, Len(input), output)
    BY <1>3, <2>1 DEF MainKnows
  <2>3. PICK n : n = Len(input)
    OBVIOUS
  <2>4. Goes(input', n, output)
    <3>1. Goes(Append(input, ch), n, output)
      BY <1>s, <1>2, <2>2, <2>3, GoesOn
    <3> QED
      BY <1>2, <3>1
  <2>5. /\ n \in DOMAIN input' /\ Len(input') = n + 1 /\ n \in Nat
        /\ input'[n] = "/" /\ input'[n + 1] = ch
    <3>1. n \in 1 .. Len(input) /\ n \in Nat
      BY <1>2, <2>2, <2>3
    <3>2. input'[n] = input[n]
      BY <1>2, <3>1
    <3> QED
      BY <1>2, <2>2, <2>3, <3>1, <3>2
  <2>6. /\ Reading(input', n, output, output \o <<" ">>)
        /\ IsComment(input', n, ch)
    <3>1. PICK t \in Seq(Characters) : t = input'
      BY <1>2
    <3>2. PICK out \in Seq(Printable) : out = output
      BY <1>2
    <3>3. /\ n \in DOMAIN t /\ Len(t) = n + 1 /\ t[n] = "/" /\ t[n + 1] = ch
          /\ Goes(t, n, out)
      BY <2>4, <2>5, <3>1, <3>2
    <3>4. Reading(t, n, out, out \o <<" ">>) /\ IsComment(t, n, ch)
      BY <3>3, CommentBegins
    <3> QED
      BY <3>1, <3>2, <3>4
  <2>7. CASE StartLineComment
    <3>1. ch = "/"
      BY <1>1, <2>7
    <3>2. LineKnows'
      BY <2>1, <2>6, <3>1 DEF LineKnows
    <3>3. loop' = "line"
      BY <2>7 DEF StartLineComment
    <3> QED
      BY <1>3, <2>1, <3>2, <3>3 DEF Cut, MatchesReference, Exits
  <2>8. CASE StartBlockComment
    <3>1. ch = "*"
      BY <1>1, <2>8
    <3>2. /\ loop' = "block" /\ com_line' = line_cur
      BY <2>8 DEF StartBlockComment
    <3>3. com_line' = Newlines(SubSeq(input', 1, n)) + 1
      <4>1. SubSeq(input', 1, n) = SubSeq(input, 1, n)
        <5>1. 1 \in DOMAIN input /\ n \in DOMAIN input
          BY <1>2, <2>2, <2>3
        <5> QED
          BY <1>2, <5>1, SubSeqKept
      <4>2. SubSeq(input, 1, n) = input
        BY <1>2, <2>3, SubSeqFull
      <4>3. line_cur = Newlines(input) + 1
        BY DEF Inv, LinesKept
      <4> QED
        BY <3>2, <4>1, <4>2, <4>3
    <3>4. ~(Len(input') > n + 1)
      BY <2>5
    <3>5. BlockKnows'
      BY <2>1, <2>6, <3>1, <3>3, <3>4 DEF BlockKnows
    <3> QED
      BY <1>3, <2>1, <3>2, <3>5 DEF Cut, MatchesReference, Exits
  <2> QED
    BY <1>5, <2>7, <2>8
<1> QED
  BY <1>4, <1>5

(* Another character is read in main: it and the slash before it are       *)
(* printed.                                                                *)
LEMMA MainCut ==
  ASSUME Inv, Cut, StartLiteral \/ Copy
  PROVE  Cut'
<1>s. /\ Quotes \subseteq Characters /\ "/" \notin Quotes /\ "*" \notin Quotes
      /\ Characters \subseteq Printable
  BY DEF Characters, Special, Quotes, Printable
<1>1. PICK ch \in Characters :
        /\ Getchar("main", ch) /\ loop = "main"
        /\ output' = output \o Append(HeldBack, ch)
        /\ ch /= "/" /\ ~(ch = "*" /\ flag)
        /\ flag' = FALSE /\ error' = error
        /\ IF ch \in Quotes THEN loop' = "literal" /\ quote' = ch
                            ELSE loop' = "main"
  <2>1. CASE StartLiteral
    BY <1>s, <2>1 DEF StartLiteral, Put, Getchar
  <2>2. CASE Copy
    BY <1>s, <2>2 DEF Copy, Put, Getchar
  <2> QED
    BY <2>1, <2>2
<1>2. /\ input \in Seq(Characters) /\ output \in Seq(Printable)
      /\ input' = Append(input, ch)
      /\ input' \in Seq(Characters) /\ Len(input') = Len(input) + 1
      /\ Len(input) \in Nat /\ DOMAIN input = 1 .. Len(input)
      /\ DOMAIN input' = 1 .. Len(input) + 1
      /\ input'[Len(input) + 1] = ch
      /\ \A i \in 1 .. Len(input) : input'[i] = input[i]
  BY <1>1, NowRead
<1>3. MainKnows /\ error = 0 /\ flag \in BOOLEAN
  BY <1>1 DEF Cut, Exits, Inv, TypeOK
<1>4. PICK t \in Seq(Characters) : t = input'
  BY <1>2
<1>5. PICK held \in {<<>>, <<"/">>} : held = HeldBack
  BY DEF HeldBack
<1>6. PICK n \in Nat : n = Len(input)
  BY <1>2
<1>7. PICK out \in Seq(Printable) : out = output
  BY <1>2
<1>8. /\ Len(t) = n + 1 /\ t[n + 1] = ch /\ DOMAIN t = 1 .. n + 1
      /\ \A i \in 1 .. n : t[i] = input[i]
  BY <1>2, <1>4, <1>6
<1>9. /\ out \o held \in Seq(Printable)
      /\ (out \o held) \o <<ch>> = out \o Append(held, ch)
  BY <1>s, PutTwo
<1>10. Goes(t, n + 1, out \o held)
  <2>1. CASE flag
    <3>1. held = <<"/">>
      BY <1>5, <2>1 DEF HeldBack
    <3>2. n > 0 /\ input[n] = "/" /\ Goes(input, n, out)
      BY <1>3, <1>6, <1>7, <2>1 DEF MainKnows
    <3>3. Goes(t, n, out)
      BY <1>2, <1>4, <3>2, GoesOn
    <3>4. n \in 1 .. n
      BY <3>2
    <3>5. t[n] = "/" /\ n \in DOMAIN t /\ n + 1 \in DOMAIN t
      BY <1>8, <3>2, <3>4
    <3>6. t[n + 1] \notin {"/", "*"}
      BY <1>1, <1>8, <2>1
    <3>7. Goes(t, n + 1, out \o <<"/">>)
      BY <3>3, <3>5, <3>6, Flushed
    <3> QED
      BY <3>1, <3>7
  <2>2. CASE ~flag
    <3>1. held = <<>>
      BY <1>5, <2>2 DEF HeldBack
    <3>2. Goes(input, n + 1, out)
      BY <1>3, <1>6, <1>7, <2>2 DEF MainKnows
    <3>3. PICK p : p = n + 1
      OBVIOUS
    <3>4. Goes(t, p, out)
      BY <1>2, <1>4, <3>2, <3>3, GoesOn
    <3>5. out \o <<>> = out
      BY ConcatEmptySeq
    <3> QED
      BY <3>1, <3>3, <3>4, <3>5
  <2> QED
    BY <2>1, <2>2
<1>11. PICK past \in Seq(Printable) : past = out \o held
  BY <1>9
<1>12. output' = past \o <<ch>>
  BY <1>1, <1>5, <1>7, <1>9, <1>11
<1>13. PICK m : m = n + 1
  OBVIOUS
<1>14. /\ m \in DOMAIN t /\ t[m] = ch /\ Goes(t, m, past) /\ m = Len(t)
       /\ m > 0
  BY <1>8, <1>10, <1>11, <1>13
<1>15. CASE ch \in Quotes
  <2>1. /\ Reading(t, Len(t), past, past \o <<t[Len(t)]>>)
        /\ ~Escaped(t, Len(t), Len(t) + 1)
    BY <1>14, <1>15, LiteralBegins
  <2>2. Reading(input', m, past, output')
    BY <1>4, <1>12, <1>14, <2>1
  <2>3. input'[m] = quote' /\ ~Escaped(input', m, Len(input') + 1)
    BY <1>1, <1>4, <1>14, <1>15, <2>1
  <2>4. LiteralKnows'
    BY <1>1, <2>2, <2>3 DEF LiteralKnows
  <2> QED
    BY <1>1, <1>3, <1>15, <2>4 DEF Cut, MatchesReference, Exits
<1>16. CASE ch \notin Quotes
  <2>1. Goes(t, m + 1, past \o <<t[m]>>)
    BY <1>1, <1>14, <1>16, Copied
  <2>2. Goes(input', Len(input') + 1, output')
    BY <1>4, <1>12, <1>14, <2>1
  <2>3. MainKnows'
    BY <1>1, <2>2 DEF MainKnows
  <2> QED
    BY <1>1, <1>3, <1>16, <2>3 DEF Cut, MatchesReference, Exits
<1> QED
  BY <1>15, <1>16

(* In a lexeme that is open, a character is read and what is left of it is *)
(* printed: the lexeme stays open, or this was its last character.         *)
LEMMA LexemeGoesOn ==
  ASSUME Inv, NEW where, NEW ch \in Characters, Getchar(where, ch),
         NEW p, NEW done, Reading(input, p, done, output),
         output' = output \o Left(input, p, ch)
  PROVE  /\ Len(input') \in Ends(input', p) =>
              Goes(input', Len(input') + 1, output')
         /\ Len(input') \notin Ends(input', p) =>
              Reading(input', p, done, output')
         /\ p \in 1 .. Len(input) /\ p \in DOMAIN input'
         /\ input'[p] = input[p]
         /\ \A c \in {"/", "*"} :
              IsComment(input', p, c) <=> IsComment(input, p, c)
<1>1. /\ input \in Seq(Characters) /\ input' = Append(input, ch)
      /\ Prolongs(input, input') /\ DOMAIN input = 1 .. Len(input)
  BY NowRead
<1>2. PICK s \in Seq(Characters) : s = input
  BY <1>1
<1>3. PICK t : t = Append(s, ch)
  OBVIOUS
<1>4. PICK out : out = output
  OBVIOUS
<1>5. PICK out2 : out2 = out \o Left(s, p, ch)
  OBVIOUS
<1>6. Reading(s, p, done, out)
  BY <1>2, <1>4
<1>7. /\ Len(t) \in Ends(t, p) => Goes(t, Len(t) + 1, out2)
      /\ Len(t) \notin Ends(t, p) => Reading(t, p, done, out2)
  BY <1>3, <1>5, <1>6, ReadOn
<1>8. t = input' /\ out2 = output'
  BY <1>1, <1>2, <1>3, <1>4, <1>5
<1>9. p \in DOMAIN s /\ Settled(s, p) /\ Prolongs(s, t)
  BY <1>1, <1>2, <1>6, <1>8 DEF Reading
<1>10. /\ p \in DOMAIN t /\ t[p] = s[p]
       /\ \A c \in {"/", "*"} : IsComment(t, p, c) <=> IsComment(s, p, c)
  BY <1>9, LexemeKept
<1> QED
  BY <1>1, <1>2, <1>7, <1>8, <1>9, <1>10

LEMMA LineCut ==
  ASSUME Inv, Cut, LineComment
  PROVE  Cut'
<1>1. PICK ch \in Characters :
        /\ Getchar("line", ch) /\ loop = "line"
        /\ loop' = IF ch = "\n" THEN "main" ELSE "line"
        /\ output' = output \o (IF ch = "\n" THEN <<ch>> ELSE <<>>)
        /\ flag' = flag /\ error' = error
  BY DEF LineComment, Getchar, Put
<1>2. LineKnows /\ error = 0
  BY <1>1 DEF Cut, Exits
<1>3. PICK p, done : /\ Reading(input, p, done, output)
                     /\ IsComment(input, p, "/") /\ ~flag
  BY <1>2 DEF LineKnows
<1>4. Left(input, p, ch) = IF ch = "\n" THEN <<ch>> ELSE <<>>
  BY <1>3 DEF Left
<1>5. output' = output \o Left(input, p, ch)
  BY <1>1, <1>4
<1>6. /\ Len(input') \in Ends(input', p) =>
           Goes(input', Len(input') + 1, output')
      /\ Len(input') \notin Ends(input', p) =>
           Reading(input', p, done, output')
      /\ p \in 1 .. Len(input)
      /\ IsComment(input', p, "/") <=> IsComment(input, p, "/")
  BY <1>1, <1>3, <1>5, LexemeGoesOn
<1>7. /\ Len(input') = Len(input) + 1 /\ Len(input) \in Nat
      /\ input'[Len(input')] = ch
  BY <1>1, NowRead
<1>8. Len(input') \in Ends(input', p) <=> ch = "\n"
  BY <1>3, <1>6, <1>7 DEF Ends
<1>9. CASE ch = "\n"
  <2>1. MainKnows'
    BY <1>1, <1>3, <1>6, <1>8, <1>9 DEF MainKnows
  <2> QED
    BY <1>1, <1>2, <1>9, <2>1 DEF Cut, MatchesReference, Exits
<1>10. CASE ch /= "\n"
  <2>1. LineKnows'
    BY <1>1, <1>3, <1>6, <1>8, <1>10 DEF LineKnows
  <2> QED
    BY <1>1, <1>2, <1>10, <2>1 DEF Cut, MatchesReference, Exits
<1> QED
  BY <1>9, <1>10

LEMMA BlockCut ==
  ASSUME Inv, Cut, BlockComment
  PROVE  Cut'
<1>1. PICK ch \in Characters :
        /\ Getchar("block", ch) /\ loop = "block"
        /\ loop' = IF flag /\ ch = "/" THEN "main" ELSE "block"
        /\ flag' = (ch = "*")
        /\ output' = output \o (IF ch = "\n" THEN <<ch>> ELSE <<>>)
        /\ com_line' = com_line /\ error' = error
  BY DEF BlockComment, Getchar, Put
<1>2. BlockKnows /\ error = 0
  BY <1>1 DEF Cut, Exits
<1>3. PICK p, done :
        /\ Reading(input, p, done, output)
        /\ IsComment(input, p, "*")
        /\ flag <=> Len(input) > p + 1 /\ input[Len(input)] = "*"
        /\ com_line = Newlines(SubSeq(input, 1, p)) + 1
  BY <1>2 DEF BlockKnows
<1>4. Left(input, p, ch) = IF ch = "\n" THEN <<ch>> ELSE <<>>
  BY <1>3 DEF Left
<1>5. output' = output \o Left(input, p, ch)
  BY <1>1, <1>4
<1>6. /\ Len(input') \in Ends(input', p) =>
           Goes(input', Len(input') + 1, output')
      /\ Len(input') \notin Ends(input', p) =>
           Reading(input', p, done, output')
      /\ p \in 1 .. Len(input)
      /\ IsComment(input', p, "*") <=> IsComment(input, p, "*")
  BY <1>1, <1>3, <1>5, LexemeGoesOn
<1>7. /\ input \in Seq(Characters)
      /\ Len(input') = Len(input) + 1 /\ Len(input) \in Nat
      /\ input'[Len(input) + 1] = ch
      /\ \A i \in 1 .. Len(input) : input'[i] = input[i]
      /\ DOMAIN input = 1 .. Len(input)
      /\ Prolongs(input, input')
  BY <1>1, NowRead
<1>8. PICK n \in Nat : n = Len(input)
  BY <1>7
<1>9. /\ n >= p + 1 /\ input'[n] = input[n] /\ input'[n + 1] = ch
      /\ Len(input') = n + 1 /\ p \in 1 .. n
      /\ ~IsComment(input', p, "/") /\ IsComment(input', p, "*")
  <2>1. p + 1 \in DOMAIN input /\ input[p + 1] = "*"
    BY <1>3 DEF IsComment, At
  <2>2. p + 1 \in 1 .. n /\ n \in 1 .. n
    BY <1>7, <1>8, <2>1
  <2>3. input'[p + 1] = "*" /\ input'[n] = input[n]
    BY <1>7, <1>8, <2>1, <2>2
  <2>4. ~IsComment(input', p, "/")
    BY <2>3 DEF IsComment, At
  <2> QED
    BY <1>3, <1>6, <1>7, <1>8, <2>2, <2>3, <2>4
<1>10. Len(input') \in Ends(input', p) <=> flag /\ ch = "/"
  <2>1. Ends(input', p) =
          {q \in p + 3 .. Len(input') : input'[q - 1] = "*" /\ input'[q] = "/"}
    BY <1>9, Zenon DEF Ends
  <2>2. n + 1 - 1 = n /\ (n + 1 \in p + 3 .. n + 1 <=> n > p + 1)
    BY <1>9
  <2>3. n + 1 \in Ends(input', p) <=> n > p + 1 /\ input[n] = "*" /\ ch = "/"
    BY <1>9, <2>1, <2>2
  <2> QED
    BY <1>3, <1>8, <1>9, <2>3
<1>11. CASE flag /\ ch = "/"
  <2>1. MainKnows'
    BY <1>1, <1>6, <1>10, <1>11 DEF MainKnows
  <2> QED
    BY <1>1, <1>2, <1>11, <2>1 DEF Cut, MatchesReference, Exits
<1>12. CASE ~(flag /\ ch = "/")
  <2>1. Reading(input', p, done, output') /\ IsComment(input', p, "*")
    BY <1>6, <1>9, <1>10, <1>12
  <2>2. flag' <=> Len(input') > p + 1 /\ input'[Len(input')] = "*"
    <3>1. flag' <=> ch = "*"
      BY <1>1, Zenon
    <3>2. Len(input') > p + 1 /\ input'[Len(input')] = ch
      BY <1>8, <1>9
    <3> QED
      BY <3>1, <3>2, Zenon
  <2>3. SubSeq(input', 1, p) = SubSeq(input, 1, p)
    <3>1. 1 \in DOMAIN input /\ p \in DOMAIN input
      BY <1>7, <1>8, <1>9
    <3> QED
      BY <1>7, <3>1, SubSeqKept
  <2>4. com_line' = Newlines(SubSeq(input', 1, p)) + 1
    BY <1>1, <1>3, <2>3
  <2>5. BlockKnows'
    BY <2>1, <2>2, <2>4 DEF BlockKnows
  <2> QED
    BY <1>1, <1>2, <1>12, <2>5 DEF Cut, MatchesReference, Exits
<1> QED
  BY <1>11, <1>12

LEMMA LiteralCut ==
  ASSUME Inv, Cut, Literal
  PROVE  Cut'
<1>1. PICK ch \in Characters :
        /\ Getchar("literal", ch) /\ loop = "literal"
        /\ loop' = IF ch = quote /\ ~flag THEN "main" ELSE "literal"
        /\ flag' = (ch = "\\" /\ ~flag)
        /\ output' = output \o <<ch>>
        /\ quote' = quote /\ error' = error
  BY DEF Literal, Getchar, Put
<1>2. LiteralKnows /\ error = 0 /\ quote \in Quotes /\ flag \in BOOLEAN
  BY <1>1 DEF Cut, Exits, Inv, TypeOK
<1>3. PICK p, done :
        /\ Reading(input, p, done, output)
        /\ input[p] = quote
        /\ flag <=> Escaped(input, p, Len(input) + 1)
  BY <1>2 DEF LiteralKnows
<1>q. quote /= "/" /\ quote /= "\\"
  BY <1>2 DEF Quotes
<1>4. ~IsComment(input, p, "/") /\ ~IsComment(input, p, "*")
  BY <1>3, <1>q DEF IsComment, At
<1>5. output' = output \o Left(input, p, ch)
  BY <1>1, <1>4 DEF Left
<1>6. /\ Len(input') \in Ends(input', p) =>
           Goes(input', Len(input') + 1, output')
      /\ Len(input') \notin Ends(input', p) =>
           Reading(input', p, done, output')
      /\ p \in 1 .. Len(input) /\ p \in DOMAIN input'
      /\ input'[p] = input[p]
      /\ IsComment(input', p, "/") <=> IsComment(input, p, "/")
      /\ IsComment(input', p, "*") <=> IsComment(input, p, "*")
  BY <1>1, <1>3, <1>5, LexemeGoesOn
<1>7. /\ input \in Seq(Characters) /\ input' \in Seq(Characters)
      /\ Len(input') = Len(input) + 1 /\ Len(input) \in Nat
      /\ input'[Len(input) + 1] = ch
      /\ DOMAIN input = 1 .. Len(input)
      /\ Prolongs(input, input')
  BY <1>1, NowRead
<1>8. PICK m \in Nat : m = Len(input) + 1
  BY <1>7
<1>9. /\ Len(input') = m /\ input'[m] = ch /\ m \in p + 1 .. m
      /\ m \in p + 1 .. Len(input') /\ p \in DOMAIN input
  BY <1>6, <1>7, <1>8
<1>10. Escaped(input', p, m) <=> flag
  <2>1. m \in p + 1 .. Len(input) + 1
    BY <1>8, <1>9
  <2>2. Escaped(input', p, m) <=> Escaped(input, p, m)
    BY <1>7, <1>9, <2>1, EscapedKept
  <2> QED
    BY <1>3, <1>8, <2>2
<1>11. Len(input') \in Ends(input', p) <=> ch = quote /\ ~flag
  <2>1. Ends(input', p) =
          {q \in p + 1 .. Len(input') :
             input'[q] = input'[p] /\ ~Escaped(input', p, q)}
    BY <1>2, <1>3, <1>4, <1>6, Zenon DEF Ends
  <2>2. m \in Ends(input', p) <=>
          input'[m] = input'[p] /\ ~Escaped(input', p, m)
    BY <1>9, <2>1
  <2> QED
    BY <1>3, <1>6, <1>9, <1>10, <2>2
<1>12. CASE ch = quote /\ ~flag
  <2>1. Goes(input', Len(input') + 1, output') /\ flag' = FALSE
    BY <1>1, <1>6, <1>11, <1>12, <1>q
  <2>2. MainKnows'
    BY <2>1 DEF MainKnows
  <2> QED
    BY <1>1, <1>2, <1>12, <2>2 DEF Cut, MatchesReference, Exits
<1>13. CASE ~(ch = quote /\ ~flag)
  <2>1. Reading(input', p, done, output') /\ input'[p] = quote'
    BY <1>1, <1>3, <1>6, <1>11, <1>13
  <2>2. Escaped(input', p, m + 1) <=> input'[m] = "\\" /\ ~Escaped(input', p, m)
    <3>1. input'[p] /= "\\"
      BY <1>3, <1>6, <1>q
    <3>2. PICK t \in Seq(Characters) : t = input'
      BY <1>7
    <3>3. Escaped(t, p, m + 1) <=> t[m] = "\\" /\ ~Escaped(t, p, m)
      BY <1>6, <1>9, <3>1, <3>2, EscapedNext
    <3> QED
      BY <3>2, <3>3
  <2>3. flag' <=> Escaped(input', p, Len(input') + 1)
    BY <1>1, <1>9, <1>10, <2>2
  <2>4. LiteralKnows'
    BY <2>1, <2>3 DEF LiteralKnows
  <2> QED
    BY <1>1, <1>2, <1>13, <2>4 DEF Cut, MatchesReference, Exits
<1> QED
  BY <1>12, <1>13

(* The input ends with a newline, and so with no slash held back and in no *)
(* comment that a newline ends.                                            *)
LEMMA EndCut ==
  ASSUME Inv, Cut, EndOfText \/ EndInComment
  PROVE  Cut'
<1>1. /\ input' = input /\ output' = output /\ loop' \in Exits
      /\ loop \in {"main", "literal", "line", "block"}
  BY DEF EndOfText, EndInComment, Exits
<1>t. /\ input \in Seq(Characters) /\ output \in Seq(Printable)
      /\ Len(input) \in Nat
  <2>1. input \in Seq(Characters) /\ output \in Seq(Printable)
    BY DEF Inv, TypeOK, Printable
  <2> QED
    BY <2>1
<1>e. error = 0
  BY <1>1 DEF Cut, Exits
<1>2. SUFFICES ASSUME input = <<>> \/ input[Len(input)] = "\n"
               PROVE  /\ output = Decommented(input)
                      /\ error' = OpenComment(input)
                      /\ loop' = "EXIT_FAILURE" <=> OpenComment(input) /= 0
  BY <1>1 DEF Cut, MatchesReference, Exits
<1>3. CASE loop = "main"
  <2>1. MainKnows /\ error' = 0 /\ loop' = "EXIT_SUCCESS"
    BY <1>3, <1>e DEF Cut, EndOfText, EndInComment
  <2>2. ~flag
    BY <1>2, <2>1, <1>t DEF MainKnows
  <2>3. Goes(input, Len(input) + 1, output)
    BY <2>1, <2>2 DEF MainKnows
  <2>4. Decommented(input) = output /\ OpenComment(input) = 0
    BY <1>t, <2>3, EndsClosed
  <2> QED
    BY <2>1, <2>4
<1>4. CASE loop = "literal"
  <2>1. LiteralKnows /\ error' = 0 /\ loop' = "EXIT_SUCCESS" /\ quote \in Quotes
    BY <1>4, <1>e DEF Cut, EndOfText, EndInComment, Inv, TypeOK
  <2>2. PICK p, done : Reading(input, p, done, output) /\ input[p] = quote
    BY <2>1 DEF LiteralKnows
  <2>3. ~IsComment(input, p, "*")
    BY <2>1, <2>2 DEF IsComment, At, Quotes
  <2>4. Decommented(input) = output /\ OpenComment(input) = 0
    BY <1>t, <2>2, <2>3, EndsOpen
  <2> QED
    BY <2>1, <2>4
<1>5. CASE loop = "line"
  <2>1. PICK p, done : /\ Reading(input, p, done, output)
                       /\ IsComment(input, p, "/")
    BY <1>5 DEF Cut, LineKnows
  <2>2. PICK n : n = Len(input)
    OBVIOUS
  <2>3. /\ p \in DOMAIN input /\ p + 1 \in DOMAIN input /\ input[p + 1] = "/"
        /\ Ends(input, p) = {}
    BY <2>1 DEF Reading, IsComment, At
  <2>4. n \in p + 1 .. Len(input) /\ input[n] = "\n"
    BY <1>t, <1>2, <2>2, <2>3
  <2>5. n \in Ends(input, p)
    BY <2>1, <2>4 DEF Ends
  <2> QED
    BY <2>3, <2>5
<1>6. CASE loop = "block"
  <2>1. BlockKnows /\ error' = com_line /\ loop' = "EXIT_FAILURE"
    BY <1>6 DEF Cut, EndOfText, EndInComment
  <2>2. PICK p, done : /\ Reading(input, p, done, output)
                       /\ IsComment(input, p, "*")
                       /\ com_line = Newlines(SubSeq(input, 1, p)) + 1
    BY <2>1 DEF BlockKnows
  <2>3. /\ Decommented(input) = output
        /\ OpenComment(input) = Newlines(SubSeq(input, 1, p)) + 1
    BY <1>t, <2>2, EndsOpen
  <2>4. com_line /= 0
    <3>1. line_cur \in Nat /\ com_line \in 1 .. line_cur
      BY DEF Inv, TypeOK
    <3> QED
      BY <3>1
  <2> QED
    BY <2>1, <2>2, <2>3, <2>4
<1> QED
  BY <1>1, <1>3, <1>4, <1>5, <1>6

(* Every step keeps what is known of the lexemes.                          *)
LEMMA NextCut == Inv /\ Cut /\ [Next]_vars => Cut'
<1> SUFFICES ASSUME Inv, Cut, [Next]_vars PROVE Cut'
  OBVIOUS
<1>1. CASE UNCHANGED vars
  BY <1>1 DEF vars, Cut, MainKnows, LineKnows, BlockKnows, LiteralKnows,
       MatchesReference
<1>2. CASE Next
  BY <1>2, SlashCut, MainCut, LineCut, BlockCut, LiteralCut, EndCut DEF Next
<1> QED
  BY <1>1, <1>2

(* The text that the program prints for an input that ends with a newline  *)
(* is the one that the definition of a comment and of a literal gives, and *)
(* so is the line it reports for a comment that is not closed (readme (1)  *)
(* and (2)), for input of any length over any alphabet: no run of stars,   *)
(* slashes, backslashes and quotes takes the automaton off the track.      *)
THEOREM ReferenceMatched == Spec => []MatchesReference
<1>1. Init => Inv /\ Cut
  BY InitInv, InitCut
<1>2. (Inv /\ Cut) /\ [Next]_vars => (Inv /\ Cut)'
  BY NextInv, NextCut
<1>3. Cut => MatchesReference
  BY DEF Cut
<1> QED
  BY <1>1, <1>2, <1>3, PTL DEF Spec
=============================================================================
