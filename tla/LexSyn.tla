------------------------------- MODULE LexSyn -------------------------------
(***************************************************************************)
(* How the shell of lab4 understands a line: lex_line and syntax_check of  *)
(* lexsyn.c, the queries on the tokens of util.c, and the splitting of a   *)
(* pipeline into commands of execute.c.                                    *)
(*                                                                         *)
(* The lexer reads the line one character per step.  A token is its type   *)
(* and, for a word, its characters; the type of an operator is the         *)
(* operator itself.  fgets hands out at most MAX_LINE_SIZE - 1 characters, *)
(* so LEX_LONG cannot come up.                                             *)
(***************************************************************************)
EXTENDS Integers, Sequences, SequencesExt

CONSTANTS Letters,        \* characters that mean nothing to the lexer
          Cd, Exit,       \* those that stand for the words cd and exit
          MAX_LINE_SIZE,
          MAX_ARGS_CNT    \* places for the words of a command and NULL

ASSUME LettersAssumption == {Cd, Exit} \subseteq Letters
ASSUME SizeAssumption ==
  MAX_LINE_SIZE \in Nat \ {0} /\ MAX_ARGS_CNT \in Nat \ {0}

VARIABLES line,      \* what the lexer has read of c_line
          state,     \* state of its automaton, or its result
          c_value,   \* the word it is in
          oTokens    \* the tokens so far

lexVars == <<line, state, c_value, oTokens>>

Blank == " "
Quotes == {"'", "\""}
Operators == {"|", "&", "<", ">"}
Chars == Letters \union Quotes \union Operators \union {Blank}
ASSUME CharsAssumption ==
  Letters \intersect (Quotes \union Operators \union {Blank}) = {}

Operator(ch) == [type |-> ch, value |-> <<>>]
Word(value) == [type |-> "word", value |-> value]

LexInit ==
  /\ line = <<>>
  /\ state = "START"
  /\ c_value = <<>>
  /\ oTokens = <<>>

-----------------------------------------------------------------------------
(* lex_line.  A quote state is named by its quote.                         *)
Lexing == state \in {"START", "IN_WORD"} \union Quotes
Reads(ch) == Len(line) < MAX_LINE_SIZE - 1 /\ line' = Append(line, ch)

(* The word that ends here, if the lexer is in one.                        *)
PendingWord == IF state = "IN_WORD" THEN <<Word(c_value)>> ELSE <<>>

(* Outside quotes a blank or an operator ends a word.  Mutant: the word's  *)
(* characters stay in c_value.                                             *)
SeparateMutKeepsValue(ch) ==
  /\ state \in {"START", "IN_WORD"}
  /\ Reads(ch)
  /\ oTokens' = oTokens \o PendingWord
                \o (IF ch = Blank THEN <<>> ELSE <<Operator(ch)>>)
  /\ state' = "START"
  /\ UNCHANGED c_value
Separate(ch) ==
  /\ state \in {"START", "IN_WORD"}
  /\ Reads(ch)
  /\ oTokens' = oTokens \o PendingWord
                \o (IF ch = Blank THEN <<>> ELSE <<Operator(ch)>>)
  /\ state' = "START"
  /\ c_value' = <<>>

OpenQuote(ch) ==
  /\ state \in {"START", "IN_WORD"}
  /\ Reads(ch)
  /\ state' = ch
  /\ UNCHANGED <<c_value, oTokens>>

CloseQuote(ch) ==
  /\ state = ch
  /\ Reads(ch)
  /\ state' = "IN_WORD"
  /\ UNCHANGED <<c_value, oTokens>>

Collect(ch) ==
  /\ Reads(ch)
  /\ c_value' = Append(c_value, ch)
  /\ UNCHANGED oTokens

Letter(ch) ==
  /\ state \in {"START", "IN_WORD"}
  /\ Collect(ch)
  /\ state' = "IN_WORD"

Quoted(ch) ==
  /\ state \in Quotes \ {ch}
  /\ Collect(ch)
  /\ UNCHANGED state

(* '\n' or the end of the string.                                          *)
EndOfLine ==
  /\ Lexing
  /\ state' = IF state \in Quotes THEN "LEX_QERROR" ELSE "LEX_SUCCESS"
  /\ oTokens' = oTokens \o PendingWord
  /\ c_value' = <<>>
  /\ UNCHANGED line

(* make_one_token finds no memory for the token of the next character.     *)
NoMemory ==
  /\ state \in {"START", "IN_WORD"}
  /\ state' = "LEX_NOMEM"
  /\ UNCHANGED <<line, c_value, oTokens>>

lex_line ==
  \/ \E ch \in Operators \union {Blank} : Separate(ch)
  \/ \E ch \in Quotes : OpenQuote(ch) \/ CloseQuote(ch)
  \/ \E ch \in Letters : Letter(ch)
  \/ \E ch \in Chars : Quoted(ch)
  \/ EndOfLine
  \/ NoMemory

-----------------------------------------------------------------------------
(* syntax_check: what is wrong with the i-th token, given that nothing was *)
(* wrong before.                                                           *)
Before(ts, i, type) == \E j \in 1 .. i - 1 : ts[j].type = type
WordFollows(ts, i) == i < Len(ts) /\ ts[i + 1].type = "word"

(* Mutant: p_exist is forgotten.                                           *)
FaultMutInAfterPipe(ts, i) ==
  LET t == ts[i].type
  IN  CASE i = 1 /\ t /= "word" -> "NOCMD"
        [] i > 1 /\ t \in {"|", ">"} /\ Before(ts, i, ">") -> "MULTREDOUT"
        [] i > 1 /\ t = "|" /\ ~WordFollows(ts, i) -> "NOCMD"
        [] i > 1 /\ t = "<" /\ Before(ts, i, "<") -> "MULTREDIN"
        [] i > 1 /\ t = "<" /\ ~WordFollows(ts, i) -> "NODESTIN"
        [] i > 1 /\ t = ">" /\ ~WordFollows(ts, i) -> "NODESTOUT"
        [] i > 1 /\ t = "&" /\ i < Len(ts) -> "INVALIDBG"
        [] OTHER -> "SUCCESS"
(* The first case that applies counts.                                     *)
Fault(ts, i) ==
  LET t == ts[i].type
  IN  CASE i = 1 /\ t /= "word" -> "NOCMD"
        [] i > 1 /\ t \in {"|", ">"} /\ Before(ts, i, ">") -> "MULTREDOUT"
        [] i > 1 /\ t = "|" /\ ~WordFollows(ts, i) -> "NOCMD"
        [] i > 1 /\ t = "<" /\ (Before(ts, i, "|") \/ Before(ts, i, "<"))
             -> "MULTREDIN"
        [] i > 1 /\ t = "<" /\ ~WordFollows(ts, i) -> "NODESTIN"
        [] i > 1 /\ t = ">" /\ ~WordFollows(ts, i) -> "NODESTOUT"
        [] i > 1 /\ t = "&" /\ i < Len(ts) -> "INVALIDBG"
        [] OTHER -> "SUCCESS"

syntax_check(ts) ==
  LET wrong == {i \in DOMAIN ts : Fault(ts, i) /= "SUCCESS"}
  IN  IF wrong = {} THEN "SUCCESS"
      ELSE Fault(ts, CHOOSE i \in wrong : \A j \in wrong : i <= j)

-----------------------------------------------------------------------------
(* util.c                                                                  *)
check_builtin(t) ==
  CASE t.value = <<Cd>> -> "CD" [] t.value = <<Exit>> -> "EXIT" [] OTHER -> "NORMAL"
count_pipe(ts) == Cardinality({i \in DOMAIN ts : ts[i].type = "|"})
check_bg(ts) == \E i \in DOMAIN ts : ts[i].type = "&"

(* execute.c: the tokens from start up to end, counted from 0, are the     *)
(* command that follows the one that ended at last.  Mutant: the pipe is   *)
(* not skipped.                                                            *)
find_pipe_locMutKeepsPipe(ts, last) ==
  LET later == {i \in DOMAIN ts : i > last /\ ts[i].type = "|"}
  IN  [start |-> last,
       end |-> IF later = {} THEN Len(ts)
               ELSE (CHOOSE i \in later : \A j \in later : i <= j) - 1]
find_pipe_loc(ts, last) ==
  LET start == IF last = 0 THEN 0 ELSE last + 1
      later == {i \in DOMAIN ts : i > start /\ ts[i].type = "|"}
  IN  [start |-> start,
       end |-> IF later = {} THEN Len(ts)
               ELSE (CHOOSE i \in later : \A j \in later : i <= j) - 1]

(* The argument vector of a command and the files it is redirected to: a   *)
(* word after < or > is a file name.  Nothing keeps the words and the NULL *)
(* behind them inside args: what a child does after an overflow of its copy*)
(* of the array is not defined.                                            *)
NoCommand == [redin |-> FALSE, redout |-> FALSE, args |-> <<>>,
              in |-> <<>>, out |-> <<>>]
build_command_partial(ts, start, end) ==
  LET Add(cmd, t) ==
        CASE t.type = "word" /\ cmd.redin ->
               [cmd EXCEPT !.in = Append(@, t.value), !.redin = FALSE]
          [] t.type = "word" /\ ~cmd.redin /\ cmd.redout ->
               [cmd EXCEPT !.out = Append(@, t.value), !.redout = FALSE]
          [] t.type = "word" /\ ~cmd.redin /\ ~cmd.redout ->
               [cmd EXCEPT !.args = Append(@, t.value)]
          [] t.type = "<" -> [cmd EXCEPT !.redin = TRUE]
          [] t.type = ">" -> [cmd EXCEPT !.redout = TRUE]
          [] OTHER -> cmd
      tokens == SubSeq(ts, start + 1, end)
      built[i \in 0 .. Len(tokens)] ==
        IF i = 0 THEN NoCommand ELSE Add(built[i - 1], tokens[i])
      cmd == built[Len(tokens)]
  IN  [args |-> cmd.args, in |-> cmd.in, out |-> cmd.out,
       overflow |-> Len(cmd.args) + 1 > MAX_ARGS_CNT]

(* The commands of a line, as the children of the pipeline's loop build    *)
(* them one after the other.                                               *)
CommandsOf(ts) ==
  LET loc[k \in 0 .. count_pipe(ts)] ==
        IF k = 0 THEN find_pipe_loc(ts, 0) ELSE find_pipe_loc(ts, loc[k - 1].end)
  IN  [k \in 1 .. count_pipe(ts) + 1 |->
         build_command_partial(ts, loc[k - 1].start, loc[k - 1].end)]

-----------------------------------------------------------------------------
(* The members of a finite set of numbers, the smallest first.             *)
InOrder(S) ==
  [i \in 1 .. Cardinality(S) |->
     CHOOSE p \in S : Cardinality({q \in S : q <= p}) = i]

(* Reference: what a line says, without an automaton.  After p characters  *)
(* of s the quote open[p] is open, Blank for none.                         *)
Open(s) ==
  LET open[p \in 0 .. Len(s)] ==
        IF p = 0 THEN Blank
        ELSE IF open[p - 1] = Blank /\ s[p] \in Quotes THEN s[p]
        ELSE IF open[p - 1] = s[p] THEN Blank
        ELSE open[p - 1]
  IN  open

(* Tokens are separated by blanks and operators outside quotes; the quotes *)
(* themselves are no part of a word.                                       *)
Breaks(s, p) == Open(s)[p - 1] = Blank /\ s[p] \in Operators \union {Blank}
Delimits(s, p) == Open(s)[p - 1] /= Open(s)[p]
StartsToken(s, p) ==
  IF Breaks(s, p) THEN s[p] /= Blank ELSE p = 1 \/ Breaks(s, p - 1)
TokenAt(s, p) ==
  LET ends == {q \in p .. Len(s) : Breaks(s, q)} \union {Len(s) + 1}
      kept == InOrder({q \in p .. Min(ends) - 1 : ~Delimits(s, q)})
  IN  IF Breaks(s, p) THEN Operator(s[p])
      ELSE Word([k \in DOMAIN kept |-> s[kept[k]]])
TokensOf(s) ==
  LET starts == InOrder({p \in 1 .. Len(s) : StartsToken(s, p)})
  IN  [k \in DOMAIN starts |-> TokenAt(s, starts[k])]

(* Reference: commands, separated by pipes, of words and redirections that *)
(* begin with a word; input only into the first, output only from the      *)
(* last, each once at most; & only at the end.                             *)
Body(ts) == IF ts /= <<>> /\ Last(ts).type = "&" THEN Front(ts) ELSE ts
Cuts(ts) == {i \in 1 .. Len(ts) : ts[i].type = "|"} \union {0, Len(ts) + 1}
Commands(ts) ==
  LET cuts == InOrder(Cuts(ts))
  IN  [k \in 1 .. Len(cuts) - 1 |-> SubSeq(ts, cuts[k] + 1, cuts[k + 1] - 1)]
IsCommand(cmd) ==
  /\ cmd /= <<>> /\ cmd[1].type = "word"
  /\ \A i \in DOMAIN cmd : cmd[i].type \in {"<", ">"} => WordFollows(cmd, i)
Of(cmds, type) ==
  UNION {{k} \X {i \in DOMAIN cmds[k] : cmds[k][i].type = type} :
           k \in DOMAIN cmds}
IsCommandLine(ts) ==
  LET cmds == Commands(Body(ts))
  IN  /\ \A k \in DOMAIN cmds : IsCommand(cmds[k])
      /\ \A p \in Of(cmds, "<") : p[1] = 1
      /\ \A p \in Of(cmds, ">") : p[1] = Len(cmds)
      /\ \A type \in {"<", ">"} : \A p, q \in Of(cmds, type) : p = q
      /\ Of(cmds, "&") = {}

(* The words of a command that are not file names, and those that are.     *)
WordsAfter(cmd, types) ==
  LET at == InOrder({i \in DOMAIN cmd :
                       /\ cmd[i].type = "word"
                       /\ (IF i = 1 THEN "word" ELSE cmd[i - 1].type) \in types})
  IN  [k \in DOMAIN at |-> cmd[at[k]].value]

-----------------------------------------------------------------------------
(* The lexer finds the words and operators that are written on the line,   *)
(* with quoted text taken as it is, or reports an open quote.              *)
TokensAsWritten ==
  /\ state = "LEX_SUCCESS" =>
       /\ oTokens = TokensOf(line)
       /\ Open(line)[Len(line)] = Blank
  /\ state = "LEX_QERROR" => Open(line)[Len(line)] /= Blank

(* Exactly the lines that are command lines are accepted.                  *)
AcceptsGrammar ==
  state = "LEX_SUCCESS" /\ oTokens /= <<>> =>
    (syntax_check(oTokens) = "SUCCESS" <=> IsCommandLine(oTokens))

(* A line that is accepted is run as it is written: each command with its  *)
(* own arguments and files, unless it has MAX_ARGS_CNT words or more.      *)
CommandsAsWritten ==
  state = "LEX_SUCCESS" /\ oTokens /= <<>> /\ syntax_check(oTokens) = "SUCCESS" =>
    LET cmds == Commands(Body(oTokens))
    IN  /\ Len(CommandsOf(oTokens)) = Len(cmds)
        /\ \A k \in DOMAIN cmds :
             LET words == WordsAfter(cmds[k], {"word"})
                 built == CommandsOf(oTokens)[k]
             IN  IF Len(words) >= MAX_ARGS_CNT THEN built.overflow
                 ELSE /\ ~built.overflow /\ built.args = words
                      /\ built.in = WordsAfter(cmds[k], {"<"})
                      /\ built.out = WordsAfter(cmds[k], {">"})
=============================================================================
