----------------------------- MODULE JobControl -----------------------------
(***************************************************************************)
(* Job control of the shell of lab4: the read loop, fork_exec,             *)
(* iter_pipe_fork_exec, wait_fg, check_bg_status and terminate_jobs of     *)
(* snush.c, execute.c and job.c, the two signal handlers, and the child    *)
(* processes.                                                              *)
(*                                                                         *)
(* The shell has one thread.  A signal handler runs to its end between two *)
(* of its steps, whenever signals are not blocked, so a step is as much of *)
(* the code as no handler can separate, or as touches no shared state.     *)
(* sigchld_handler reaps one zombie per step of the model: its loop over   *)
(* several zombies is that many steps with none of the shell's between.    *)
(* Process ids are numbered in fork order and not used again within a run. *)
(***************************************************************************)
EXTENDS Integers, Sequences, SequencesExt, FiniteSets

CONSTANTS Cells,          \* the job structures malloc can return
          MaxPid,         \* processes the shell starts at most
          MAX_JOBS,
          Commands,       \* lines the user may type: [procs, bg]
          MaxBackground,  \* background jobs unfinished or unreported at once
          ExitAnyTime,    \* may the user leave while jobs are running?
          CallsMayFail,   \* may fork and execvp fail?
          IsATty,         \* isatty(STDIN_FILENO)
          Null

ASSUME CommandsAssumption ==
  Commands \subseteq [procs : 1 .. MaxPid, bg : BOOLEAN]
ASSUME NullAssumption == Null \notin Cells
ASSUME BoundsAssumption == MaxPid \in Nat /\ MAX_JOBS \in Nat

VARIABLES
  jobs,       \* manager->jobs, in list order
  done,       \* manager->done_bg_jobs, in list order
  n_jobs,     \* manager->n_jobs
  cell,       \* contents of the job structures
  allocated,  \* those that are not free
  damaged,    \* a freed structure was written, searched or freed again
  pc,         \* next statement of the shell
  blocked,    \* are signals blocked?
  cmd,        \* the command being started
  i,          \* loop index of iter_pipe_fork_exec
  pid, pgid,  \* its locals of these names
  job, jid,   \* job pointer and job id of the command being run
  curr,       \* list pointer: check_bg_status, find_job_by_jid, terminate_jobs
  proc,       \* each process: unborn, new (forked), running, zombie, gone
  pgrp,       \* its process group, Shell until setpgid
  wanted,     \* the group a new process is going to join
  known,      \* the groups in the copy of the job list it was forked with
  isBg,       \* was it started by a background command?
  term,       \* the terminal's foreground process group
  races       \* history: the races described below that have happened

listVars == <<jobs, done, n_jobs, cell, allocated, damaged>>
shellVars == <<blocked, cmd, i, pid, pgid, job, jid, curr>>
procVars == <<proc, pgrp, wanted, known, isBg>>
vars == <<listVars, pc, shellVars, procVars, term, races>>

Pids == 1 .. MaxPid
Shell == 0
Unset == 0   \* what stands in pid_list before a pid is stored: no live pid
NoJob == [job_id |-> 0, state |-> "unknown", pgid |-> 0, pid_list |-> <<>>,
          curr_num |-> 0]

Init ==
  /\ jobs = <<>> /\ done = <<>> /\ n_jobs = 0
  /\ cell = [c \in Cells |-> NoJob]
  /\ allocated = {} /\ damaged = FALSE
  /\ pc = "check" /\ blocked = FALSE
  /\ cmd = [procs |-> 1, bg |-> FALSE]
  /\ i = 0 /\ pid = 0 /\ pgid = 0
  /\ job = Null /\ jid = 0 /\ curr = Null
  /\ proc = [p \in Pids |-> "unborn"]
  /\ pgrp = [p \in Pids |-> Shell]
  /\ wanted = [p \in Pids |-> Shell]
  /\ known = [p \in Pids |-> {}]
  /\ isBg = [p \in Pids |-> FALSE]
  /\ term = Shell
  /\ races = {}

(* Interleavings in which the code goes wrong, recorded as they happen:    *)
(*  "lookup": the handler moves the background job on which wait_fg's      *)
(*            lookup stands to done_bg_jobs, and the lookup goes on there; *)
(*  "report": the handler pushes a job on done_bg_jobs while               *)
(*            check_bg_status is about to overwrite the head of that list; *)
(*  "id":     an older job has the id of a new one, and is set up instead; *)
(*  "early":  a later process of a pipeline is reaped before its pid is    *)
(*            stored in its job;                                           *)
(*  "exit":   the handler moves the job which terminate_jobs has killed    *)
(*            and is about to follow.                                      *)
(* No step depends on races; the properties say what can go wrong without  *)
(* which of them.                                                          *)
Races(race, happens) == races' = races \union (IF happens THEN {race} ELSE {})

(* A process group exists as long as one member is not reaped.             *)
GroupExists(g) ==
  \E p \in Pids : pgrp[p] = g /\ proc[p] \in {"new", "running", "zombie"}
Kill(g) == [p \in Pids |-> IF pgrp[p] = g /\ proc[p] \in {"new", "running"}
                           THEN "zombie" ELSE proc[p]]

(* The next statement of the shell, as long as its behaviour is defined;   *)
(* when a handler can run.                                                 *)
At(label) == pc = label /\ ~damaged
(* Mutant: signals are never blocked.                                      *)
ListeningMutUnblocked == ~damaged /\ pc /= "exited"
Listening == ~blocked /\ ~damaged /\ pc /= "exited"

-----------------------------------------------------------------------------
(* job.c                                                                   *)
FirstIn(list, Test(_)) ==
  LET hits == {k \in DOMAIN list : Test(list[k])}
  IN  IF hits = {} THEN Null
      ELSE list[CHOOSE k \in hits : \A l \in hits : k <= l]
find_job_by_jid(list, contents, id) ==
  LET Test(c) == contents[c].job_id = id IN FirstIn(list, Test)
find_job_fg == LET Test(c) == cell[c].state = "foreground"
               IN  FirstIn(jobs, Test)

new_job(state) == [NoJob EXCEPT !.job_id = n_jobs + 1, !.state = state]

(* The next field of a structure, wherever the handler has linked it.      *)
After(list, c) ==
  SubSeq(list, 1 + (CHOOSE k \in DOMAIN list : list[k] = c), Len(list))
NextOf(c) ==
  LET list == IF c \in ToSet(jobs) THEN jobs ELSE done
      rest == After(list, c)
  IN  IF rest = <<>> THEN Null ELSE Head(rest)

-----------------------------------------------------------------------------
(* sigchld_handler                                                         *)
Owner(p) == LET Test(c) == p \in ToSet(cell[c].pid_list) IN FirstIn(jobs, Test)

(* The job list without c.  Mutant: a foreground job stays on it.          *)
UnlinkedMutKeepsForeground(c) ==
  IF cell[c].state = "foreground" THEN jobs
  ELSE RemoveAt(jobs, CHOOSE k \in DOMAIN jobs : jobs[k] = c)
Unlinked(c) == RemoveAt(jobs, CHOOSE k \in DOMAIN jobs : jobs[k] = c)

(* manager->n_jobs--.  Mutant: forgotten.                                  *)
OneJobLessMutForgotten == n_jobs
OneJobLess == n_jobs - 1

(* All processes of job c are reaped: off the list, and on to done_bg_jobs *)
(* or freed.                                                               *)
RemoveJob(c) ==
  /\ jobs' = Unlinked(c)
  /\ n_jobs' = OneJobLess
  /\ IF cell[c].state = "background"
     THEN done' = <<c>> \o done /\ UNCHANGED allocated
     ELSE allocated' = allocated \ {c} /\ UNCHANGED done

(* What the shell is doing with the list that c leaves or joins.           *)
Disturbed(c) ==
  IF cell[c].state /= "background" THEN {}
  ELSE CASE pc = "find" /\ curr = c -> {"lookup"}
         [] pc = "report" -> {"report"}
         [] pc \in {"kill", "free"} /\ curr = c -> {"exit"}
         [] OTHER -> {}

sigchld_handler(p) ==
  /\ Listening /\ proc[p] = "zombie"
  /\ proc' = [proc EXCEPT ![p] = "gone"]
  /\ damaged' = (damaged \/ ~(ToSet(jobs) \subseteq allocated))
  /\ LET c == Owner(p) IN
       \/ /\ c = Null
          /\ Races("early", p = pid /\ i > 0 /\ pc \in {"setpgid", "record"})
          /\ UNCHANGED <<jobs, done, n_jobs, cell, allocated>>
       \/ /\ c /= Null
          /\ cell' = [cell EXCEPT ![c].curr_num = @ - 1]
          /\ IF cell[c].curr_num = 1
             THEN RemoveJob(c) /\ races' = races \union Disturbed(c)
             ELSE UNCHANGED <<jobs, done, n_jobs, allocated, races>>
  /\ UNCHANGED <<pc, shellVars, pgrp, wanted, known, isBg, term>>

(* sigint_handler: Ctrl-C while the shell's own group has the terminal.    *)
sigint_handler ==
  /\ Listening /\ term = Shell
  /\ find_job_fg /= Null
  /\ cell[find_job_fg].pgid /= 0
  /\ proc' = Kill(cell[find_job_fg].pgid)
  /\ UNCHANGED <<listVars, pc, shellVars, pgrp, wanted, known, isBg, term, races>>

-----------------------------------------------------------------------------
(* The children.  Until execvp succeeds a child is a copy of the shell: when *)
(* it exits, the atexit function runs in it, and its terminate_jobs kills  *)
(* every group that was on the job list when it was forked (its own job is *)
(* the last of that list).                                                 *)
ExitOfCopy(p) ==
  [q \in Pids |->
     IF \/ q = p
        \/ pgrp[q] \in known[p] /\ proc[q] \in {"new", "running"}
     THEN "zombie" ELSE proc[q]]

(* A leader makes its own group, the others join; one that finds the group *)
(* gone exits without running its command.                                 *)
ChildSetpgid(p) ==
  /\ proc[p] = "new"
  /\ LET g == IF wanted[p] = Shell THEN p ELSE wanted[p] IN
       IF g = p \/ GroupExists(g)
       THEN /\ pgrp' = [pgrp EXCEPT ![p] = g]
            /\ proc' = [proc EXCEPT ![p] = "running"]
       ELSE /\ proc' = ExitOfCopy(p)
            /\ UNCHANGED pgrp
  /\ UNCHANGED <<listVars, pc, shellVars, wanted, known, isBg, term, races>>

(* There is no such program.                                               *)
ChildExecFails(p) ==
  /\ CallsMayFail
  /\ proc[p] = "running"
  /\ proc' = ExitOfCopy(p)
  /\ UNCHANGED <<listVars, pc, shellVars, pgrp, wanted, known, isBg, term, races>>

ChildExit(p) ==
  /\ proc[p] = "running"
  /\ proc' = [proc EXCEPT ![p] = "zombie"]
  /\ UNCHANGED <<listVars, pc, shellVars, pgrp, wanted, known, isBg, term, races>>

-----------------------------------------------------------------------------
(* check_bg_status: report and free what is on done_bg_jobs.               *)
CheckBgStatus ==
  /\ At("check")
  /\ curr' = IF done = <<>> THEN Null ELSE Head(done)
  /\ pc' = IF done = <<>> THEN "prompt" ELSE "report"
  /\ UNCHANGED <<listVars, blocked, cmd, i, pid, pgid, job, jid,
                 procVars, term, races>>

(* manager->done_bg_jobs = curr->next, then free(curr).                    *)
(* Mutant: the structure is not freed.                                     *)
ReportDoneMutNoFree ==
  /\ At("report")
  /\ done' = After(done, curr)
  /\ pc' = "check"
  /\ UNCHANGED <<jobs, n_jobs, cell, allocated, damaged, shellVars,
                 procVars, term, races>>
ReportDone ==
  /\ At("report")
  /\ done' = After(done, curr)
  /\ allocated' = allocated \ {curr}
  /\ pc' = "check"
  /\ UNCHANGED <<jobs, n_jobs, cell, damaged, shellVars, procVars, term, races>>

-----------------------------------------------------------------------------
Free == {p \in Pids : proc[p] = "unborn"}
Backgrounds == {c \in allocated : cell[c].state = "background"}

AtLimit == n_jobs + 1 > MAX_JOBS

(* shell_helper, up to the limit on the number of jobs.                    *)
ReadCommand ==
  /\ At("prompt")
  /\ \E c \in Commands :
       /\ Cardinality(Free) >= c.procs
       /\ AtLimit \/ allocated /= Cells
       /\ c.bg => Cardinality(Backgrounds) < MaxBackground
       /\ cmd' = c
  /\ pc' = IF AtLimit THEN "check" ELSE "start"
  /\ UNCHANGED <<listVars, blocked, i, pid, pgid, job, jid, curr,
                 procVars, term, races>>

(* Signals are blocked, add_job appends a structure, and the job with its  *)
(* id is looked up and set up for the command's processes.                 *)
StartJob ==
  /\ At("start")
  /\ blocked' = TRUE
  /\ \E new \in Cells \ allocated :
       LET state == IF cmd.bg THEN "background" ELSE "foreground"
           added == [cell EXCEPT ![new] = new_job(state)]
           found == find_job_by_jid(Append(jobs, new), added, n_jobs + 1)
       IN  /\ allocated' = allocated \union {new}
           /\ jobs' = Append(jobs, new)
           /\ Races("id", found /= new)
           /\ job' = found
           /\ cell' = [added EXCEPT
                ![found].curr_num = cmd.procs,
                ![found].pid_list = [k \in 1 .. cmd.procs |-> Unset]]
  /\ n_jobs' = n_jobs + 1
  /\ jid' = n_jobs + 1
  /\ i' = 0 /\ pgid' = 0
  /\ pc' = "fork"
  /\ UNCHANGED <<done, damaged, cmd, pid, curr, procVars, term>>

Fork ==
  /\ At("fork")
  /\ LET p == CHOOSE q \in Free : \A r \in Free : q <= r IN
       /\ proc' = [proc EXCEPT ![p] = "new"]
       /\ wanted' = [wanted EXCEPT ![p] = pgid]
       /\ known' = [known EXCEPT ![p] =
                      {cell[c].pgid : c \in ToSet(jobs)} \ {0}]
       /\ isBg' = [isBg EXCEPT ![p] = cmd.bg]
       /\ pid' = p
       /\ pgid' = IF i = 0 THEN p ELSE pgid
  /\ pc' = "setpgid"
  /\ UNCHANGED <<listVars, blocked, cmd, i, job, jid, curr, pgrp, term, races>>

(* exit: the shell goes on with the atexit function, cleanup.              *)
BeginExit ==
  /\ curr' = IF jobs = <<>> THEN Null ELSE Head(jobs)
  /\ pc' = "kill"

(* fork fails and the shell exits, signals blocked as they are.            *)
ForkFails ==
  /\ At("fork")
  /\ CallsMayFail
  /\ BeginExit
  /\ UNCHANGED <<listVars, blocked, cmd, i, pid, pgid, job, jid,
                 procVars, term, races>>

Grouped == IF proc[pid] = "new" /\ (pid = pgid \/ GroupExists(pgid))
           THEN [pgrp EXCEPT ![pid] = pgid] ELSE pgrp

(* The parent puts the child into its group too; too late if the child has *)
(* called execvp, been reaped, or if the group is gone.                    *)
ParentSetpgid ==
  /\ At("setpgid")
  /\ pgrp' = Grouped
  /\ pc' = IF cmd.procs = 1 /\ ~cmd.bg /\ IsATty THEN "give" ELSE "record"
  /\ UNCHANGED <<listVars, shellVars, proc, wanted, known, isBg, term, races>>

(* The job learns its group when it learns its first process.  Mutant: it  *)
(* does not.                                                               *)
RecordedGroupMutNever == cell[job].pgid
RecordedGroup == IF i = 0 THEN pid ELSE cell[job].pgid

(* The job learns the process; signals are let in from here on.            *)
RecordPid ==
  /\ At("record")
  /\ cell' = [cell EXCEPT ![job].pgid = RecordedGroup,
                          ![job].pid_list[i + 1] = pid]
  /\ damaged' = (damaged \/ job \notin allocated)
  /\ blocked' = FALSE
  /\ i' = i + 1
  /\ pc' = IF i + 1 < cmd.procs THEN "fork"
           ELSE IF cmd.bg THEN "check"
           ELSE IF cmd.procs > 1 /\ IsATty THEN "give" ELSE "wait"
  /\ UNCHANGED <<jobs, done, n_jobs, allocated, cmd, pid, pgid, job, jid,
                 curr, procVars, term, races>>

(* tcsetpgrp for the children: fork_exec does it with signals blocked,     *)
(* iter_pipe_fork_exec at its end.  It fails when the group is gone, and   *)
(* the shell exits.                                                        *)
GiveTerminal ==
  /\ At("give")
  /\ IF GroupExists(pgid)
     THEN /\ term' = pgid
          /\ pc' = IF cmd.procs = 1 THEN "record" ELSE "wait"
          /\ UNCHANGED curr
     ELSE BeginExit /\ UNCHANGED term
  /\ UNCHANGED <<listVars, blocked, cmd, i, pid, pgid, job, jid, procVars,
                 races>>

-----------------------------------------------------------------------------
(* wait_fg calls find_job_by_jid with signals unblocked, which walks the   *)
(* list node by node: the handler may move the node it stands on, or free  *)
(* it.  What the shell then reads of a freed job is arbitrary: its id, its *)
(* state, and any job or none as the next one.                             *)
WaitStart ==
  /\ At("wait")
  /\ curr' = IF jobs = <<>> THEN Null ELSE Head(jobs)
  /\ pc' = "find"
  /\ UNCHANGED <<listVars, blocked, cmd, i, pid, pgid, job, jid,
                 procVars, term, races>>

(* current is the job, is not it, or is NULL.                              *)
Found ==
  /\ curr \in allocated => cell[curr].job_id = jid
  /\ job' = curr /\ curr' = Null
  /\ pc' = "look"
WalkOn ==
  /\ curr \in allocated => cell[curr].job_id /= jid
  /\ curr' \in IF curr \in allocated THEN {NextOf(curr)}
               ELSE ToSet(jobs) \union ToSet(done) \union {Null}
  /\ UNCHANGED <<job, pc>>
NotFound ==
  /\ job' = Null /\ UNCHANGED curr
  /\ pc' = "retake"
WaitFind ==
  /\ At("find")
  /\ \/ curr /= Null /\ (Found \/ WalkOn)
     \/ curr = Null /\ NotFound
  /\ UNCHANGED <<listVars, blocked, cmd, i, pid, pgid, jid,
                 procVars, term, races>>

(* Mutant: the test inverted.                                              *)
StillForegroundMutInverted == cell[job].state /= "foreground"
StillForeground == cell[job].state = "foreground"
WaitLook ==
  /\ At("look")
  /\ \/ /\ job \in allocated
        /\ pc' = IF StillForeground THEN "wait" ELSE "retake"
     \/ /\ job \notin allocated
        /\ pc' \in {"wait", "retake"}
  /\ UNCHANGED <<listVars, shellVars, procVars, term, races>>

RetakeTerminal ==
  /\ At("retake")
  /\ term' = Shell
  /\ pc' = "check"
  /\ UNCHANGED <<listVars, shellVars, procVars, races>>

-----------------------------------------------------------------------------
(* exit or the end of the input: exit() runs cleanup and terminate_jobs,   *)
(* with signals not blocked.                                               *)
Exit ==
  /\ At("prompt")
  /\ ExitAnyTime \/ jobs = <<>>
  /\ BeginExit
  /\ UNCHANGED <<listVars, blocked, cmd, i, pid, pgid, job, jid,
                 procVars, term, races>>

KillJob ==
  /\ At("kill") /\ curr /= Null
  /\ proc' = IF cell[curr].pgid = 0 THEN proc ELSE Kill(cell[curr].pgid)
  /\ n_jobs' = n_jobs - 1
  /\ damaged' = (damaged \/ curr \notin allocated)
  /\ pc' = "free"
  /\ UNCHANGED <<jobs, done, cell, allocated, shellVars, pgrp, wanted, known,
                 isBg, term, races>>

(* next = curr->next; free(curr): the structure stays on the list.  (The   *)
(* next of a structure that the handler has freed is anything; the shell's *)
(* behaviour ends there.)                                                  *)
FreeJob ==
  /\ At("free")
  /\ curr' = IF curr \in allocated THEN NextOf(curr) ELSE Null
  /\ allocated' = allocated \ {curr}
  /\ damaged' = (damaged \/ curr \notin allocated)
  /\ pc' = "kill"
  /\ UNCHANGED <<jobs, done, n_jobs, cell, blocked, cmd, i, pid, pgid, job,
                 jid, procVars, term, races>>

(* The end of terminate_jobs and the rest of cleanup: all structures on    *)
(* done_bg_jobs are freed and all zombies are reaped.                      *)
FinishExit ==
  /\ At("kill") /\ curr = Null
  /\ jobs' = <<>> /\ done' = <<>>
  /\ allocated' = allocated \ ToSet(done)
  /\ damaged' = (damaged \/ ~(ToSet(done) \subseteq allocated))
  /\ proc' = [p \in Pids |-> IF proc[p] = "zombie" THEN "gone" ELSE proc[p]]
  /\ pc' = "exited"
  /\ UNCHANGED <<n_jobs, cell, shellVars, pgrp, wanted, known, isBg, term, races>>

-----------------------------------------------------------------------------
Main ==
  \/ CheckBgStatus \/ ReportDone \/ StartJob \/ Fork \/ ParentSetpgid
  \/ RecordPid \/ GiveTerminal \/ WaitStart \/ WaitFind \/ WaitLook
  \/ RetakeTerminal
  \/ KillJob \/ FreeJob \/ FinishExit
Child(p) == ChildSetpgid(p) \/ ChildExecFails(p) \/ ChildExit(p)

Next ==
  \/ Main \/ ReadCommand \/ ForkFails \/ Exit \/ sigint_handler
  \/ \E p \in Pids : sigchld_handler(p) \/ Child(p)

Spec == Init /\ [][Next]_vars

(* The shell runs, SIGCHLD is delivered, and commands come to an end.      *)
FairSpec ==
  /\ Spec
  /\ WF_vars(Main)
  /\ \A p \in Pids : WF_vars(sigchld_handler(p)) /\ WF_vars(Child(p))

-----------------------------------------------------------------------------
JobStates == {"unknown", "foreground", "background"}

TypeOK ==
  /\ jobs \in Seq(Cells) /\ done \in Seq(Cells)
  /\ n_jobs \in Int
  /\ \A c \in Cells : /\ cell[c].state \in JobStates
                      /\ cell[c].pid_list \in Seq(Pids \union {Unset})
                      /\ cell[c].curr_num \in 0 .. MaxPid
  /\ allocated \subseteq Cells
  /\ blocked \in BOOLEAN /\ damaged \in BOOLEAN
  /\ job \in Cells \union {Null} /\ curr \in Cells \union {Null}
  /\ proc \in [Pids -> {"unborn", "new", "running", "zombie", "gone"}]
  /\ pgrp \in [Pids -> Pids \union {Shell}]
  /\ term \in Pids \union {Shell}

Leaving == pc \in {"kill", "free", "exited"}

(* Everything has its type, and while the shell works, n_jobs is the       *)
(* length of the job list and at most MAX_JOBS, in spite of the handler    *)
(* that changes both between any two steps of the shell.                   *)
NJobsExact ==
  /\ TypeOK
  /\ ~Leaving => n_jobs = Len(jobs) /\ n_jobs <= MAX_JOBS

(* Until the shell leaves, no structure on a list is free, and none is     *)
(* written or freed after it was freed; a freed structure is only read, by *)
(* wait_fg, which takes what it reads for a job id, a state or a link.     *)
(* (While terminate_jobs frees the list, the handler still works on it.)   *)
NoMemoryError ==
  ~Leaving => ~damaged /\ ToSet(jobs) \union ToSet(done) \subseteq allocated

(* None of these races has happened so far.                                *)
Barring(which) == races \intersect which = {}

(* A structure that is not free is on one of the lists, once: no job is    *)
(* forgotten, unless it came while check_bg_status was removing another.   *)
NoJobLost ==
  ~Leaving /\ Barring({"report"}) =>
    /\ allocated = ToSet(jobs) \union ToSet(done)
    /\ Cardinality(allocated) = Len(jobs) + Len(done)

(* "The shell should wait for them to complete before accepting new        *)
(* commands": it prompts only when every process of every foreground       *)
(* command it started has been reaped.                                     *)
ChildrenComplete ==
  pc = "prompt" => \A p \in Pids : ~isBg[p] => proc[p] \in {"unborn", "gone"}

(* So it does, unless the handler has moved the node that wait_fg's lookup *)
(* stood on, or two jobs have had one id.                                  *)
ForegroundWaited == Barring({"lookup", "id"}) => ChildrenComplete

(* "If all processes in the job have terminated, the job is removed": a    *)
(* job all of whose processes were started and reaped is off the list.     *)
TerminatedJobsLeave ==
  pc \in {"wait", "find", "look", "prompt"} =>
    \A c \in ToSet(jobs) : \E p \in ToSet(cell[c].pid_list) : proc[p] /= "gone"

(* So it is, unless a later process of a pipeline was reaped before its    *)
(* pid was stored, or two jobs have had one id.                            *)
ReapedJobsLeave == Barring({"early", "id"}) => TerminatedJobsLeave

(* "Kill all process", as cleanup says: however the shell is left, by the  *)
(* user, at the end of its input or because a call failed, no process of a *)
(* job stays running.                                                      *)
AllKilled == pc = "exited" => \A p \in Pids : proc[p] /= "running"

(* None does, unless the handler has moved the job that terminate_jobs had *)
(* killed and was about to follow, or two jobs have had one id.            *)
NoOrphans == Barring({"exit", "id"}) => AllKilled

(* Every command the user starts brings the prompt back, unless the shell  *)
(* leaves because fork failed, a later process of a pipeline was reaped    *)
(* before its pid was stored, or two jobs have had one id.                 *)
PromptReturns ==
  pc = "start" ~> pc = "prompt" \/ Leaving \/ ~Barring({"early", "id"})
=============================================================================
