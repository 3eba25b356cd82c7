------------------------------- MODULE Shell --------------------------------
(***************************************************************************)
(* One round of the shell of lab4: a line is read and understood (module   *)
(* LexSyn), and refused, done by the shell itself or run as a pipeline     *)
(* (module Pipeline).  What happens to jobs, signals and the terminal is   *)
(* in module JobControl.                                                   *)
(***************************************************************************)
EXTENDS LexSyn, Pipeline

VARIABLES
  stage,  \* lexing, parsing, running, done, exited
  said,   \* what the shell has printed about the line
  dir     \* its working directory: start, home, other

ownVars == <<stage, said, dir>>
vars == <<lexVars, pipeVars, ownVars>>

Init == LexInit /\ PipelineInit
        /\ stage = "lexing" /\ said = "nothing" /\ dir = "start"

-----------------------------------------------------------------------------
Finish(message) ==
  /\ stage' = "done" /\ said' = message
  /\ UNCHANGED <<lexVars, pipeVars, dir>>

Lex ==
  /\ stage = "lexing"
  /\ lex_line
  /\ stage' = IF state' \in {"START", "IN_WORD"} \union Quotes THEN stage
              ELSE "parsing"
  /\ UNCHANGED <<pipeVars, said, dir>>

Refuse ==
  /\ stage = "parsing"
  /\ \/ state = "LEX_SUCCESS" /\ oTokens = <<>> /\ Finish("nothing")
     \/ state /= "LEX_SUCCESS" /\ Finish(state)
     \/ /\ state = "LEX_SUCCESS" /\ oTokens /= <<>>
        /\ syntax_check(oTokens) /= "SUCCESS"
        /\ Finish(syntax_check(oTokens))

(* A line that is accepted and what its first word makes it.               *)
Accepted(builtin) ==
  /\ stage = "parsing"
  /\ state = "LEX_SUCCESS" /\ oTokens /= <<>>
  /\ syntax_check(oTokens) = "SUCCESS"
  /\ check_builtin(oTokens[1]) = builtin

execute_exit ==
  /\ Accepted("EXIT")
  /\ \/ /\ Len(oTokens) = 1
        /\ stage' = "exited"
        /\ UNCHANGED <<lexVars, pipeVars, said, dir>>
     \/ Len(oTokens) /= 1 /\ Finish("exit takes no parameters")

(* Without HOME cd goes nowhere; chdir may fail.                           *)
execute_cd ==
  /\ Accepted("CD")
  /\ LET target == IF Len(oTokens) = 1 THEN "home" ELSE "other"
         usable == \/ Len(oTokens) = 1
                   \/ Len(oTokens) = 2 /\ oTokens[2].type = "word"
     IN  \/ /\ usable
            /\ dir' = target /\ stage' = "done"
            /\ UNCHANGED <<lexVars, pipeVars, said>>
         \/ usable /\ Finish("cd failed")
         \/ ~usable /\ Finish("cd takes one parameter")

(* The tokens are of no use to the shell any more.                         *)
Execute ==
  /\ Accepted("NORMAL")
  /\ LET commands == CommandsOf(oTokens)
     IN  StartPipeline([p \in DOMAIN commands |->
                          [in |-> commands[p].in /= <<>>,
                           out |-> commands[p].out /= <<>>]],
                       check_bg(oTokens))
  /\ line' = <<>> /\ oTokens' = <<>> /\ state' = "START"
  /\ stage' = "running"
  /\ UNCHANGED <<c_value, said, dir>>

Run ==
  /\ stage = "running"
  /\ PipelineNext
  /\ UNCHANGED <<lexVars, ownVars>>

Next == Lex \/ Refuse \/ execute_exit \/ execute_cd \/ Execute \/ Run

Spec == Init /\ [][Next]_vars

(* The shell's loop runs, and a program that can read or write does; nobody*)
(* has to type.                                                            *)
FairSpec ==
  /\ Spec
  /\ WF_vars(stage = "running" /\ ShellLoop /\ UNCHANGED <<lexVars, ownVars>>)
  /\ \A p \in Procs :
       WF_vars(stage = "running" /\ Runs(p) /\ UNCHANGED <<lexVars, ownVars>>)
=============================================================================
