------------------------------ MODULE Pipeline ------------------------------
(***************************************************************************)
(* The plumbing of a command line: the pipes that iter_pipe_fork_exec      *)
(* makes and closes while it forks the processes of a pipeline, the file   *)
(* descriptors the children inherit, duplicate and close before they       *)
(* execute their program, and the programs that read and write them.  A    *)
(* single command, fork_exec, is the case of no pipe.                      *)
(*                                                                         *)
(* Jobs and process groups are in JobControl; here processes are numbered  *)
(* by their place in the pipeline, and pipe k joins process k to k + 1.    *)
(***************************************************************************)
EXTENDS Integers, Sequences

CONSTANTS MaxProcs,   \* processes of a line
          PipeSize    \* what a pipe holds

ASSUME ProcsAssumption == MaxProcs \in Nat \ {0}
ASSUME PipeAssumption == PipeSize \in Nat \ {0}

VARIABLES
  cmds,      \* of the line: does each redirect its input, its output?
  is_background,
  step,      \* next statement of the shell's loop
  k,         \* the loop's command, from 1
  save_fd,   \* the read end kept for the next command, NoEnd for -1
  shellEnds, \* the pipe ends the shell has open
  child,     \* state of each process
  stdin, stdout,
  ends,      \* the other pipe ends each process has open
  pipe,      \* number of blocks in each pipe
  held,      \* has the program read what it has not written yet?
  missed     \* was a process reaped before the shell noted its pid?

pipeVars == <<cmds, is_background, step, k, save_fd, shellEnds, child, stdin,
              stdout, ends, pipe, held, missed>>

Procs == 1 .. MaxProcs
Read(p) == [pipe |-> p, side |-> "read"]
Write(p) == [pipe |-> p, side |-> "write"]
NoEnd == [pipe |-> 0, side |-> "none"]
Terminal == [pipe |-> 0, side |-> "terminal"]
File == [pipe |-> 0, side |-> "file"]

IsLast == k = Len(cmds)

PipelineInit ==
  /\ cmds = <<>> /\ is_background = FALSE
  /\ step = "idle" /\ k = 1 /\ save_fd = NoEnd /\ shellEnds = {}
  /\ child = [p \in Procs |-> "unborn"]
  /\ stdin = [p \in Procs |-> Terminal]
  /\ stdout = [p \in Procs |-> Terminal]
  /\ ends = [p \in Procs |-> {}]
  /\ pipe = [p \in Procs |-> 0]
  /\ held = [p \in Procs |-> FALSE]
  /\ missed = FALSE

IsOpen(end) ==
  \/ end \in shellEnds
  \/ \E p \in Procs : \/ child[p] \in {"forked", "running"}
                      /\ end \in ends[p] \union {stdin[p], stdout[p]}

-----------------------------------------------------------------------------
(* The shell's loop: pipe(), except for the last command.                  *)
StartPipeline(commands, bg) ==
  /\ step = "idle"
  /\ cmds' = commands /\ is_background' = bg
  /\ step' = "pipe"
  /\ UNCHANGED <<k, save_fd, shellEnds, child, stdin, stdout, ends, pipe,
                 held, missed>>

MakePipe ==
  /\ step = "pipe"
  /\ shellEnds' = shellEnds \union (IF IsLast THEN {} ELSE {Read(k), Write(k)})
  /\ step' = "fork"
  /\ UNCHANGED <<cmds, is_background, k, save_fd, child, stdin, stdout, ends,
                 pipe, held, missed>>

Fork ==
  /\ step = "fork"
  /\ child' = [child EXCEPT ![k] = "forked"]
  /\ ends' = [ends EXCEPT ![k] = shellEnds]
  /\ step' = "close"
  /\ UNCHANGED <<cmds, is_background, k, save_fd, shellEnds, stdin, stdout,
                 pipe, held, missed>>

(* From the second process on signals are unblocked here: a process that is*)
(* over by now may have been reaped, and nobody found its job (JobControl).*)
MayMiss == \/ missed' = TRUE /\ k > 1 /\ child[k] = "over"
           \/ UNCHANGED missed

(* The parent's part after fork: save_fd is closed, the new read end is    *)
(* kept, the write end closed and the pid noted.  Mutants: the read end of *)
(* the pipe before stays open; the write end does.                         *)
ParentClosesMutKeepsRead ==
  /\ step = "close"
  /\ shellEnds' = shellEnds \ {Write(k)}
  /\ save_fd' = IF IsLast THEN save_fd ELSE Read(k)
  /\ k' = k + 1
  /\ step' = IF IsLast THEN "wait" ELSE "pipe"
  /\ MayMiss
  /\ UNCHANGED <<cmds, is_background, child, stdin, stdout, ends, pipe, held>>
ParentClosesMutKeepsWrite ==
  /\ step = "close"
  /\ shellEnds' = shellEnds \ {save_fd}
  /\ save_fd' = IF IsLast THEN save_fd ELSE Read(k)
  /\ k' = k + 1
  /\ step' = IF IsLast THEN "wait" ELSE "pipe"
  /\ MayMiss
  /\ UNCHANGED <<cmds, is_background, child, stdin, stdout, ends, pipe, held>>
ParentCloses ==
  /\ step = "close"
  /\ shellEnds' = shellEnds \ {save_fd, Write(k)}
  /\ save_fd' = IF IsLast THEN save_fd ELSE Read(k)
  /\ k' = k + 1
  /\ step' = IF IsLast THEN "wait" ELSE "pipe"
  /\ MayMiss
  /\ UNCHANGED <<cmds, is_background, child, stdin, stdout, ends, pipe, held>>

(* pipe or fork fails, or tcsetpgrp when no process of the pipeline is left*)
(* (for a single command it is called earlier): the shell exits, and with  *)
(* it its descriptors close.                                               *)
Over == \A p \in Procs : child[p] \in {"unborn", "over"}
ShellFails ==
  /\ \/ step = "pipe" /\ ~IsLast
     \/ step = "fork"
     \/ step = "wait" /\ ~is_background /\ Len(cmds) > 1 /\ Over
  /\ step' = "died"
  /\ shellEnds' = {}
  /\ UNCHANGED <<cmds, is_background, k, save_fd, child, stdin, stdout, ends,
                 pipe, held, missed>>

(* wait_fg: the job is over when all its processes are; it is never over   *)
(* for the shell when it missed the end of one.                            *)
WaitFg ==
  /\ step = "wait"
  /\ is_background \/ (Over /\ ~missed)
  /\ step' = "done"
  /\ UNCHANGED <<cmds, is_background, k, save_fd, shellEnds, child, stdin,
                 stdout, ends, pipe, held, missed>>

-----------------------------------------------------------------------------
(* A child connects its pipes and closes what it duplicated; files that    *)
(* its command names take the place of a pipe or the terminal.             *)
Ends(p) == child' = [child EXCEPT ![p] = "over"]

ChildExec(p) ==
  /\ child[p] = "forked"
  /\ ends' = [ends EXCEPT ![p] = @ \ {Read(p - 1), Read(p), Write(p)}]
  /\ stdin' = [stdin EXCEPT ![p] = IF cmds[p].in THEN File
                                   ELSE IF p = 1 THEN Terminal ELSE Read(p - 1)]
  /\ stdout' = [stdout EXCEPT ![p] = IF cmds[p].out THEN File
                                     ELSE IF p = Len(cmds) THEN Terminal
                                     ELSE Write(p)]
  /\ child' = [child EXCEPT ![p] = "running"]
  /\ UNCHANGED <<cmds, is_background, step, k, save_fd, shellEnds, pipe, held,
                 missed>>

(* setpgid, dup2, the opening of a file or execvp fails.  The exit that    *)
(* follows also kills the groups of the jobs the copy knows (JobControl);  *)
(* here that is ChildFails or Quit of the other processes.                 *)
ChildFails(p) ==
  /\ child[p] = "forked"
  /\ Ends(p)
  /\ UNCHANGED <<cmds, is_background, step, k, save_fd, shellEnds, stdin,
                 stdout, ends, pipe, held, missed>>

-----------------------------------------------------------------------------
(* The programs are filters: they read, write what they read, and end at   *)
(* the end of their input, when nobody reads their output (SIGPIPE is      *)
(* ignored in the shell and so in them, write reports EPIPE), or when they *)
(* please.                                                                 *)
Quit(p) ==
  /\ child[p] = "running"
  /\ Ends(p)
  /\ UNCHANGED <<cmds, is_background, step, k, save_fd, shellEnds, stdin,
                 stdout, ends, pipe, held, missed>>

(* The user types, or ends the input.                                      *)
Type(p) ==
  /\ child[p] = "running" /\ ~held[p]
  /\ stdin[p] = Terminal
  /\ \/ held' = [held EXCEPT ![p] = TRUE] /\ UNCHANGED child
     \/ Ends(p) /\ UNCHANGED held
  /\ UNCHANGED <<cmds, is_background, step, k, save_fd, shellEnds, stdin,
                 stdout, ends, pipe, missed>>

Input(p) ==
  /\ child[p] = "running" /\ ~held[p]
  /\ \/ /\ stdin[p] = File
        /\ \/ held' = [held EXCEPT ![p] = TRUE] /\ UNCHANGED child
           \/ Ends(p) /\ UNCHANGED held
        /\ UNCHANGED pipe
     \/ /\ stdin[p].side = "read" /\ pipe[stdin[p].pipe] > 0
        /\ pipe' = [pipe EXCEPT ![stdin[p].pipe] = @ - 1]
        /\ held' = [held EXCEPT ![p] = TRUE]
        /\ UNCHANGED child
     \/ /\ stdin[p].side = "read" /\ pipe[stdin[p].pipe] = 0
        /\ ~IsOpen(Write(stdin[p].pipe))
        /\ Ends(p) /\ UNCHANGED <<pipe, held>>
  /\ UNCHANGED <<cmds, is_background, step, k, save_fd, shellEnds, stdin,
                 stdout, ends, missed>>

Output(p) ==
  /\ child[p] = "running" /\ held[p]
  /\ \/ /\ stdout[p].side /= "write"
        /\ held' = [held EXCEPT ![p] = FALSE]
        /\ UNCHANGED <<child, pipe>>
     \/ /\ stdout[p].side = "write"
        /\ IsOpen(Read(stdout[p].pipe)) /\ pipe[stdout[p].pipe] < PipeSize
        /\ pipe' = [pipe EXCEPT ![stdout[p].pipe] = @ + 1]
        /\ held' = [held EXCEPT ![p] = FALSE]
        /\ UNCHANGED child
     \/ /\ stdout[p].side = "write" /\ ~IsOpen(Read(stdout[p].pipe))
        /\ Ends(p) /\ UNCHANGED <<pipe, held>>
  /\ UNCHANGED <<cmds, is_background, step, k, save_fd, shellEnds, stdin,
                 stdout, ends, missed>>

-----------------------------------------------------------------------------
ShellLoop == MakePipe \/ Fork \/ ParentCloses \/ WaitFg
Runs(p) == ChildExec(p) \/ ChildFails(p) \/ Input(p) \/ Output(p)

PipelineNext ==
  \/ ShellLoop \/ ShellFails
  \/ \E p \in Procs : Runs(p) \/ Type(p) \/ Quit(p)

-----------------------------------------------------------------------------
(* A program has no pipe end open but the two it works with, nobody else   *)
(* works with them, and the shell, once it has started them all, has none: *)
(* that a program sees the end of its input or EPIPE depends on it.        *)
PipesWired ==
  LET running == {p \in Procs : child[p] = "running"}
  IN  /\ \A p \in running : ends[p] = {}
      /\ \A p, q \in running : p /= q =>
           {stdin[p], stdout[p]} \intersect {stdin[q], stdout[q]}
             \subseteq {Terminal, File}
      /\ step \in {"wait", "done"} => shellEnds = {}

(* When a program of the pipeline ends, whichever it is, all the others    *)
(* come to an end too, and so the prompt comes back, unless the shell      *)
(* missed an end; or the first program waits at the terminal for ever.     *)
AtTerminal == child[1] = "running" /\ stdin[1] = Terminal /\ ~held[1]
PipelineEnds ==
  \A p \in Procs :
    child[p] = "over" ~>
      (Over /\ (step \in {"done", "died"} \/ missed)) \/ []AtTerminal
=============================================================================
