# System Programming labs: specifications and proofs

TLA+ models of the programs of this repository: the key-value service of lab5
(read-write lock, concurrent hash table, server, client), the shell of lab4 (its
understanding of a line, its pipelines, its job control), two heap managers of
lab3, dirtree of lab2 and the two comment removers of lab1. TLC checks them on
small instances; TLAPS proves all but two of the safety properties of the runs
that pass, and the safety part of every refinement, for every value of the
constants. Where the code breaks what its documents say, a run shows the
counterexample, or the property says what holds outside that case (section 6).

Every definition is translated from the C code; `PROJECT.json` ("map") gives the
source lines of each. Definitions whose name contains `Mut` are wrong variants
of the one that follows or is named beside them: plausible mistakes in the code
that the properties are known to catch. They are used nowhere else.

## 1. Inventory

| part | source | state | operations | how it interacts |
|---|---|---|---|---|
| read-write lock | `lab5/src/rwlock.c`, `.h` | `read_count`, `write_count`, the ring of pending writers with head and tail, a mutex, two condition variables | `rwlock_init`, `read_lock`, `read_unlock`, `write_lock`, `write_unlock`, `destroy` | one per bucket of the hash table; called by the workers |
| hash table | `lab5/src/hashtable.c`, `.h` | bucket lists, `bucket_sizes`, nodes on the heap, one lock per bucket | `hash_insert`, `search`, `update`, `delete`, `init`, `destroy`, `dump` | called by `skvs_serve` in every worker |
| request parsing | `lab5/src/skvslib.c` | none of its own | `skvs_parse`, `skvs_serve` | buffer in, table operation, reply out |
| server | `lab5/src/server.c` | `g_shutdown`, listening socket, per worker: connection, receive and send buffers | accept, recv, serve, send, close; SIGINT handler; main joins and destroys | TCP with the clients; all workers share the socket and the table |
| client | `lab5/src/client.c` | socket, line buffer | connect, send a line, one recv, close | TCP |
| shell: job control | `lab4/snush.c`, `execute.c`, `job.c`, `.h` | job list, `done_bg_jobs`, `n_jobs`, per job: id, state, process group, pids, live count; signal mask; terminal group | read a line, fork and exec, wait, report, exit; `sigchld_handler`, `sigint_handler` | handlers interrupt the shell and change the same lists; kernel process table, terminal |
| shell: understanding a line | `lab4/lexsyn.c`, `token.c`, `dynarray.c`, `util.c`, `snush.c` (`shell_helper`), `execute.c` (builtins) | token array, automaton state, the word being read, working directory | `lex_line`, `syntax_check`, `check_builtin`, `count_pipe`, `check_bg`, `find_pipe_loc`, `build_command`, `execute_builtin` | a line in, tokens and commands to the executor |
| shell: pipelines | `lab4/execute.c` | pipe ends open in the shell and in each child, `save_fd` | `pipe`, `fork`, `dup2`, `close`, redirection | kernel pipes; the programs that are run |
| heap manager 1 | `lab3/src/heapmgr1.c`, `chunk.c` | chunk headers in memory, free list, heap start and end | `heapmgr_malloc`, `heapmgr_free`, `check_heap_validity` | the test driver; `sbrk` |
| base heap manager | `lab3/reference/heapmgrbase.c`, `chunkbase.c` | the same, without footers | the same | the same |
| heap manager 2 | `lab3/src/heapmgr2.c` | as 1, with bins | the same; reads as unfinished | |
| dirtree | `lab2/src/dirtree.c` | recursion stack, counts of an argument and of all | `main`, `processDir`, prefixes, verbose columns, summaries | file system, read only |
| decomment | `lab1/src/decomment.c` | automaton state, line counters | one pass over stdin | |
| second decomment | `lab1/src/decomment_gpt3o.c` | one state variable, line counters | the same | |

Left aside: `201913930_assign*` (copies as handed in), the K&R and GNU allocators
of `reference/`, the `*debug*` programs, test drivers, generated files.

What is hard, and what would make each part correct:

* **Lock.** Counters and a queue decide who sleeps and who is woken; a
  broadcast that is missed, or sent to the wrong side, is a service that stops.
  Correct: readers and writers exclude each other, counters mean what
  `rwlock.h` says, nobody sleeps on a free lock, pending readers go first,
  pending writers in order of arrival.
* **Table.** Pointers are followed while others relink and free nodes.
  Correct: no freed node is touched, no value is seen half replaced, counters
  match the lists, nothing leaks, every call looks atomic.
* **Server and client.** Streams are cut anywhere, buffers are finite, peers
  vanish or do not read, calls fail, Ctrl+C comes at any point. Correct: a request
  is executed once and gets its own reply, a connection has one owner, the service
  can be ended.
* **Job control.** A signal handler runs between any two statements. Correct:
  no job is lost, leaked, freed twice or left behind, the prompt waits for the
  foreground and always comes back, the terminal returns to the shell.
* **Lines and pipelines.** Quotes, operators and words mix in more ways than
  any test lists, the syntax check and the executor read the same tokens with
  different code, and a pipe end left open in one process makes another wait
  for ever. Correct: tokens are what is written between the blanks, exactly the
  grammar is accepted, each command gets its words and files, and a pipeline
  ends when one of its programs does.
* **Heap.** The same boundaries are kept by arithmetic on units in five
  functions. Correct: blocks are disjoint and large enough, chunks tile the
  heap, the free list is exact, sorted and coalesced.
* **dirtree.** What is drawn at one level depends on a test made levels above,
  and a failing call must not disturb the rest. Correct: every entry once and in
  order, lines that end where a level ends, totals that are the sums of what was
  printed.
* **Comment removal.** Three flags decide where comments and literals end.
  Correct: the text is what a definition without an automaton gives, lines keep
  their numbers, an open comment is reported on its first line.

`PROJECT.json` ("hazards") lists the places in the code where these go wrong and
the properties that watch them.

## 2. Modules

    RWLockSpec <--implements-- RWLock <--EXTENDS-- MCRWLock <-- RWLock_proofs
    KVStore    <--implements-- HashTable <-- MCHashTable, HashTable_proofs
    SkvsServer <-- MCSkvsServer, SkvsServer_proofs
    LexSyn, Pipeline <--EXTENDS-- Shell <-- Shell_proofs
    JobControl <-- MCJobControl, JobControl_proofs
    Allocator  <--implements-- HeapMgr  <--EXTENDS--  MCHeapMgr, HeapMgr_proofs
    Allocator  <--implements-- HeapBase <--INSTANCE-- MCHeapMgr
    Decomment <--EXTENDS-- MCDecomment <-- Decomment_proofs
    DecommentDFA <--INSTANCE-- MCDecomment
    DirTree <-- MCDirTree, DirTree_proofs

The models of lab5 stack up: `HashTable` takes a lock that admits whatever
`RWLockSpec` admits (and `RWLock` is shown to implement that), `SkvsServer`
takes a table operation as one step (and `HashTable` is shown to be
linearizable). `Shell` composes the two halves of the shell that only hand data
on; `JobControl` stays apart, because there the interleaving of signals is the
matter and lines are not. `MCHeapMgr` lets an execution be one of either heap
manager, `MCDecomment` feeds both comment removers the same input. The other MC
modules hold instances, symmetry sets and refinement mappings, no behaviour.

### RWLock (rwlock.c)

A step is one critical section of `rw->lock`: from getting the mutex to
releasing it or to `pthread_cond_wait`. `ReadLock` and `WriteLock` are the
arrivals, `ReadRetry` and `WriteRetry` the turns of the while loops after a wait
returned, `ReadUnlock` and `WriteUnlock` the releases with their broadcasts,
`SpuriousWakeup` a wait that returns by itself. `pc[t]` says where a thread
stands (idle, reading, writing, asleep or awake for either); the other variables
are the fields. The ring is kept with its real indices, so that its overflow is
in the model. Failures of the pthread calls and `rwlock_init` are
not; `rwlock_destroy` is in `HashTable`, its only caller.

`RWLockSpec` is what the readme promises: a set of readers, a writer, a set of
pending readers, a queue of pending writers; readers first, writers in order.

### HashTable (hashtable.c, and skvs_serve's calls)

One step per access to shared memory, inside the critical sections too, so that
exclusion is used and not assumed: walking (`ReadHead`, `WalkOn`, `WalkOff`),
insertion (`NewNode`, `LinkNode`, `GrowCount`), `CopyValue` and `Terminate` of a
search, the three steps of an update (`SetLength`, `FreeValue`, `SetValue`),
`Unlink`, `FreeNode`, `ShrinkCount` of a delete. Nodes are cells of a small heap;
a freed cell holds garbage and may be given out again. A value's length has a
field of its own, because the code sets it before the pointer. When the workers
are done, `skvs_destroy` prints the table with `hash_dump` (which skips buckets
whose counter is 0), destroys the locks and frees every node.
`KVStore` is the map a client sees: each call is invoked, takes effect at one
instant, and responds; the dump shows what the map holds in the end.

### SkvsServer (server.c, client.c, the framing of skvslib.c)

A step is a system call with the test of `g_shutdown` before it, so `pc[w]` has a
label per call. The outer loop of `handle_client` is `Accept`, `Leave` (time-out or
signal, and the flag is set), `AcceptError`; the inner one `Recv`, `RecvZero` (the
peer closed, or the buffer is full and `recv` was asked for 0 bytes), `RecvError`,
`RecvInterrupted` (Ctrl+C: what has arrived is served), `Serve`, `Send`,
`SendInterrupted`, `SendReset`, and `CloseConnection`. `Send` copies as much of the
reply as the socket has room for (`SendRoom`), in as many calls as it takes, and
is not enabled while the client does not read: `send` has no time-out.
`SendFatal` is the branch of `server.c:139`, an `exit` of the whole server, and
the EPIPE of line 132, before which the process gets a SIGPIPE that nobody
handles; `Die` closes everything. The main thread joins the workers and destroys the
table (`Destroy`); `HandleSigint` may happen at any time.

Clients connect, send, take one `recv` for the reply, and may vanish at any point.
Streams carry pieces of lines, and `recv` takes any number of the pieces that are
there. What a client sends (`Messages`) is a line in one or more pieces, a line too
long for the buffer, an empty line, or what `fgets` hands out without a line feed
(`Unended`). `sent`, `executed` and `answered` count requests per client; `split`, a
history variable, says whether the client has taken part of a reply for all of it,
from when on client and server count differently.

### JobControl (snush.c, execute.c, job.c)

A step is as much of the shell's code as no handler can separate or as touches
no shared state; a handler is one step whenever signals are not blocked
(`Listening`). The shell: `CheckBgStatus`, `ReportDone`, `ReadCommand`,
`StartJob`, `Fork`, `ParentSetpgid`, `RecordPid`, `GiveTerminal`, `WaitStart`,
`WaitFind`, `WaitLook`, `RetakeTerminal`, `Exit`, `KillJob`, `FreeJob`, `FinishExit`.
A child: `ChildSetpgid` (which races `ParentSetpgid`), `ChildExit`. `jobs`, `done`,
`n_jobs` and `cell` are the fields of the job manager. Process ids are not
reused within a run; a slot of `pid_list` that was not written yet matches no
live process. `ForkFails` and `ChildExecFails` are the calls that fail: a child
that cannot execute its program leaves through `exit`, whose atexit function kills the groups
of all jobs the shell had when it was forked (`ExitOfCopy`). Whether calls fail
and whether the user may leave at any time are constants.

The lookup of `wait_fg` runs with signals unblocked and is as many steps as it
visits nodes: `curr` stands on a job and `WaitFind` finds it (`Found`), follows its
`next` wherever that leads by now (`WalkOn`), or is at the end (`NotFound`). The handler may
have moved that job to `done_bg_jobs` or freed it. A structure that was freed may be
given out again; what the shell reads of a free one is arbitrary (any id, any
state, any job or none as `next`), and one that is written, freed again or searched
by the handler sets `damaged`, after which nothing more is said of the shell (the
behaviour is undefined).

Five interleavings make the code go wrong. No step looks at `races`, which
records those that have happened; each property names those it excludes
(`Barring`):

| race | what happens | where | shown by |
|---|---|---|---|
| `lookup` | the handler moves the background job on which the lookup of `wait_fg` stands | `job.c:24-31` | `JobControlWait` |
| `report` | the handler pushes a job while `check_bg_status` is about to overwrite the head of `done_bg_jobs` | `snush.c:43` | section 6 |
| `id` | an older job has the id of a new one and is set up in its place | `job.c:59` | section 6 |
| `early` | a later process of a pipeline is reaped before its pid is stored | `execute.c:411` | `JobControlPipeline` |
| `exit` | the handler moves the job that `terminate_jobs` has killed and is about to follow | `snush.c:64` | `JobControlExit` |

### LexSyn, Pipeline, Shell (lexsyn.c, util.c, execute.c, shell_helper)

`LexSyn` reads a line one character per step, as the automaton of `lex_line`
does; `syntax_check` and the queries are operators on the tokens. `TokensOf`,
`IsCommandLine` and `Commands` in the module's last part say without an automaton
what a line means, as sets of places on the line taken in their order (`InOrder`),
and the properties compare. `Pipeline` is the loop of
`iter_pipe_fork_exec` (`MakePipe`, `Fork`, `ParentCloses`) beside the children,
which close and duplicate what they inherited (`ChildExec`) and then are filters:
`Input`, `Output`, `Type` (the user at the terminal), `Quit`. `pipe`, `fork`, the
shell's `tcsetpgrp` and everything up to `execvp` may fail (`ShellFails`, `ChildFails`).
`WaitFg` returns when all processes are over, unless the shell `missed` one: a
process that was over before its pid was stored may have been reaped unfound
(`MayMiss`; `JobControl` has the details). `Shell` reads a line (`Lex`),
refuses it (`Refuse`), executes `cd` and `exit` itself or runs the commands it was
cut into.

A command's words go into an array of `MAX_ARGS_CNT` pointers, of which the last one
must be NULL; nothing counts them. A command that has too many `overflow`s, and
what its process then does is left open (it may fail, end, or go on).

### HeapMgr (heapmgr1.c, chunk.c)

Memory counts chunk units from the heap's start; `header[a]` is the chunk that
begins at `a`, if one does. The operators `merge_chunk`, `split_chunk`,
`insert_chunk`, `insert_chunk_after`, `remove_chunk_from_list` are the functions of
these names. `Malloc`, `SearchOn`, `TakeTail`, `TakePerfectFit`, `Grow`, `SbrkFails`,
`TakeFromGrown` are `heapmgr_malloc`; `Free`, `PlaceOn`, `Insert` are
`heapmgr_free`. `held` is what the client has. The client frees only what it got.
Left out: footers and `prev` pointers, which the module writes and never reads,
and the byte-to-unit conversion. The assertions of debug builds are in `Tiling`
(`check_heap_validity`, whose walk follows the sizes in the headers). `sbrk` may
fail at any call and is contiguous, as the code assumes. The first call's
`init_my_heap` is part of `Init`.
`Allocator` promises disjoint blocks of the size that was asked for.

### HeapBase (heapmgrbase.c, chunkbase.c)

The allocator the lab starts from: chunks without footers, a block one unit
larger than the request given out whole. A call is two steps, the request and its
work; the functions are operators on heaps, and loops are the place they end at
(`FirstPlace`). `HeapValid` states its invariant, and it implements `Allocator` too.

### DirTree (dirtree.c)

`main` reads its arguments (`Options`, `Directories`) and starts a walk per
directory (`StartArgument`); the recursion of `processDir` is a stack, and
`OpenDir`, `SkipDots`, `PrintEntry`, `LstatFails`, `OpenFails`, `CloseDir` its turns;
`FinishArgument` and `GrandTotal` print the summaries. A name is its rank in the
order of `strcmp`, with ranks below those of `.` and `..`; a prefix is a sequence
of columns (line, corner, blank), a printed line a record with its verbose columns. Whether
`opendir`, `scandir` or `lstat` fails is free, up to `MaxFailures`. An entry has one
`type`, which stands for the `d_type` that `scandir` returns (sorting, descending) and
the `st_mode` that `lstat` returns (counting, printing): they differ only on file
systems that return `DT_UNKNOWN`, on which the code would not descend.

### Decomment (decomment.c)

One step per character. `loop` is the function that reads: `main`, a line
comment, a block comment, or a literal (`string_loop` and `char_const_loop`
differ in their quote only); each has one flag and starts with it cleared. Only
the kind of a character matters, so `Plain` stands for all those that mean
nothing. `Decommented` and `OpenComment` are the reference: they cut a text into
lexemes by looking for the end of each (`Ends`), and know nothing of flags.

`DecommentDFA` is the second program, one switch over named states. It was
made on another plan than the first, which makes it a second reference:
`SameText` says that both have printed the same after every character.

## 3. Runs

| run | instance | states | what it shows |
|---|---|---|---|
| `RWLock` | 3 threads, ring of 3 | 4,718 | exclusion, exact counters, no reader or writer sleeps on a free lock, the ring is the queue of pending writers, no step lets a writer pass a pending reader; `RWLock` implements `RWLockSpec` with its fairness, so that pending threads get the lock |
| `RWLockOverflow` (violation) | 3 threads, ring of 2 | | a full ring looks empty: see section 6 |
| `HashTable` | 2 workers, 3 colliding keys, 2 values, 3 cells | 113,553 | no use after free, no torn value, lists, counters and the final dump agree, no leak, linearizable |
| `SkvsServer` | 2 clients, 2 workers, 2 requests and 1, lines of 1 to 3 pieces with and without an end, replies of 2, buffers of 2, failing calls | 354,016 | one owner per connection, no request executed twice or out of order, replies match until a client took a part for the whole; Ctrl+C ends the service unless a `send` blocks for ever, a waiting client with a worker is answered or disconnected unless its last line has no end |
| `JobControl` | 4 processes, pipelines of 2, 2 background jobs, limit 2, a terminal, failing calls, exit at any prompt | 604,216 | counter and limit right, freed structures at most read before the shell leaves; but for the races of section 2 no job lost, foreground waited for, reaped jobs leave the list, no process outlives the shell, the prompt comes back |
| `JobControlWait` (violation) | a background and a foreground job | | the shell may prompt while the foreground job runs |
| `JobControlPipeline` (violation) | a pipeline of 2 | | its job may never leave the list |
| `JobControlExit` (violation) | 2 background jobs, exit at any prompt | | one of them may outlive the shell |
| `HeapMgr` | heap of 18 units (13 for `HeapBase`), requests of 1 to 3, growth by at least 2 | 269,000 | for both managers: chunks tile the heap, free list exact, sorted and coalesced, blocks disjoint, nothing leaks, `Allocator` is implemented; every call of `heapmgr1.c` returns |
| `Shell` | every line of up to 5 of 10 characters, 2 words fit a command, 3 processes, pipes of one block | 428,671 | tokens, accepted lines and commands are those of the grammar, and `args` overflows for exactly the commands with too many words; pipe ends are wired and closed; a pipeline ends once one of its programs has ended |
| `DirTree` | every tree of some of 6 places on three levels (see `MCDirTree`), one directory with an entry of every type, all options, at most two directories, one failing call | 311,996 | each entry once and in order, the drawing ends where levels end, summaries are the sums of what was printed (the blocks: where no block device was) |
| `Decomment` | all inputs of up to 7 of 7 kinds of characters | 1.92 million | as many newlines printed as read, for every input that ends with a newline text, error line and exit status are those of the reference, and both programs agree |

**Why the bounds are enough to be interesting.** Three threads give a writer
inside with a reader and a writer pending, two pending writers whose order
matters, and a ring that wraps; for any number of threads see the proofs. Three
nodes in a bucket are head, middle and tail, and two workers every pair of
operations; an operation touches one bucket only, so one bucket is checked. A
buffer of two pieces is filled exactly, and overrun by a line of three; a reply
of two can be sent and received in halves, and fills the socket of a client that
does not read. Four processes are two background jobs and a foreground pipeline
in any order; the limit of two jobs is reached, and all five races happen. Five
characters hold a pipeline of three words, a redirection
on both sides, a quoted operator and each way to be refused. A middle process of three has a
pipe on both sides, and a pipe of one block is full after one write. Three
levels below a directory carry a last entry's blank column over two levels.
Eighteen units hold five chunks, so that a freed chunk can meet
free neighbours on both sides, and requests of three exceed the smallest growth.
Seven characters hold a block comment with a star inside, a literal with an
escaped backslash, and two lexemes with a newline.

**Named bounds.** `MaxRequests`, `MaxPid` (a shell out of process ids can only
stop), `MaxHeap`, `MaxBaseHeap`, `MaxRequest`, `MaxLength`, `MAX_LINE_SIZE` (a
constant of the code, small here, as are `MAX_ARGS_CNT` and `MAX_JOBS`), `SendRoom`,
`MaxProcs`, `PipeSize`, `MaxFailures`.
`CHECK_DEADLOCK FALSE` stands where the program really ends: all but the lock
and the heap. Symmetry is used only in runs without liveness.

**What the passing properties except.** Where the code breaks a property in some
case, the instance has that case, and the property names it:

* `ReplyMatches`, and the second half of `ExactlyOnce`, speak of a client that has
  not yet taken part of a reply for all of it (`split`; `client.c:115`). The first
  half, at most once and in order, holds of every client.
* `ShutdownCompletes` excepts a worker that stays for ever in the `send` to a client that
  does not read. `RequestsAnswered` excepts a client for whom no worker is left
  (`NoWorker`: an error of `accept` ends a worker, others serve their clients for as
  long as these please) and one whose last line has no end (`WaitForEachOther`).
* The properties of `JobControl` name the races they exclude (section 2). Each
  exception is needed: with any race left out of its list a property fails in the run.
* `NoMemoryError` speaks of the shell until it starts to leave: in
  `terminate_jobs` a job can be freed twice (`snush.c:76`), the other side of the
  `JobControlExit` run.
* `PipelineEnds` excepts a shell that missed the end of a process, and a first program
  that waits at the terminal for ever.
* `CommandsAsWritten` says of a command with `MAX_ARGS_CNT` words or more only that
  it overflows.
* `TotalsExact` leaves out the blocks of a summary of lines with a block device, for which
  `dirtree.c:226` adds a block that no line shows; `TreeDrawn` directories whose names
  all sort before `..` (`DotsNotLast`).
* `MatchesReference` and `SameText` take the readme's word that the input ends
  with a newline: otherwise `decomment.c` drops a slash that was held back, and
  reports a line comment as unterminated.
* `SkvsServer` starts with a table that was made; `main` does not look whether
  `skvs_init` returned one (`server.c:298`).

## 4. Fairness

* `RWLock`: a thread that holds the lock releases it and a woken thread gets the
  mutex (weak fairness of `Advance`). Arrivals and spurious wake-ups need not
  happen. Holders only walk one bucket, and a walk ends because lists have no
  cycle (`BucketsConsistent`).
* `SkvsServer`: the server's threads run (`Serving`, `Destroy`). `accept` and `recv`
  have time-outs in the code (`server.c:71`, `240`), so they come back to the test of
  `g_shutdown`; `send` has none and is fair only while there is room. Clients need do
  nothing, nobody need press Ctrl+C, no call need fail, and no signal need reach the
  thread that is in `send`.
* `JobControl`: the shell runs, SIGCHLD is delivered, commands end.
* `Shell`: the shell's loop goes on, and a program that can read or write does
  (weak, per process). Programs need not end by themselves (`Quit` has no
  fairness): `PipelineEnds` says what follows when one does. The user at the terminal
  need not type (`Type` has none either).
* `HeapMgr`: a call that was made goes on.

## 5. Proofs

A theorem holds for every value of the constants that the named assumptions of
its module allow; a hypothesis beyond them is a column of the table. Each
property was checked with TLC before it was proved. What a property excepts
(section 3) is part of its definition.

| module | theorem | says | beyond the modules' assumptions |
|---|---|---|---|
| `RWLock_proofs` | `TypeCorrect` | `Spec => []TypeOK` | |
| | `ExactCounts` | `Spec => []CountsExact` | |
| | `Exclusion` | `Spec => []MutualExclusion` | |
| | `ReadersAreWoken` | `Spec => []NoSleepingReader` | |
| | `ReadersFirst` | `Spec => ReaderPriority` | |
| | `WritersAreWoken` | `Spec => []NoSleepingWriter` | `RingFits` |
| | `Implements` | `Spec => Abstract!Spec` (`RWLockSpec`) | `RingFits` |
| `HashTable_proofs` | `MemorySafe` | `Spec => []AccessesSound` | |
| | `BucketsSound` | `Spec => []BucketsConsistent` | |
| | `NothingLeaks` | `Spec => []NoLeak` | |
| | `ImplementsMap` | `Spec => Linearizable` (`KVStore`) | |
| `SkvsServer_proofs` | `ConnectionsOwned` | `Spec => []OneOwner` | |
| | `RequestsExactlyOnce` | `Spec => []ExactlyOnce` | |
| | `RepliesMatch` | `Spec => []ReplyMatches` | |
| `JobControl_proofs` | `JobsCounted` | `Spec => []NJobsExact` | |
| | `JobsMemorySafe` | `Spec => []NoMemoryError` | |
| | `JobsKept` | `Spec => []NoJobLost` | |
| | `PromptWaits` | `Spec => []ForegroundWaited` | |
| `HeapMgr_proofs` | `HeapTiled` | `Spec => []Tiling` | |
| | `FreeListKept` | `Spec => []FreeListExact` | |
| | `BlocksAccounted` | `Spec => []InUseIsHeld` | |
| | `HeapIsAllocator` | `Spec => ImplementsAllocator` (`Allocator`) | |
| | `BaseHeapKept` | `Base!Spec => []BaseHeapValid` | |
| | `BaseHeapIsAllocator` | `Base!Spec => BaseIsAllocator` (`Allocator`) | |
| | `EitherManager` | `EitherSpec => Spec /\ Base!Spec`: the run checks what the theorems are about | |
| `Shell_proofs` | `LinesUnderstood` | `Spec => []TokensAsWritten` | |
| | `GrammarDecided` | `Spec => []AcceptsGrammar` | |
| | `CommandsRun` | `Spec => []CommandsAsWritten` | |
| | `NeighboursWired` | `Spec => []PipesWired` | |
| `DirTree_proofs` | `EntriesOnce` | `Spec => []EntriesListed` | |
| | `ColumnsRight` | `Spec => []TreeDrawn` | |
| | `SummariesExact` | `Spec => []TotalsExact` | |
| `Decomment_proofs` | `TypeCorrect` | `Spec => []TypeOK`, the reported line among those read | |
| | `LineNumbersKept` | `Spec => []LinesKept` | |
| | `ProgramsAgree` | `BothSpec => []SameText` | |
| | `ReferenceMatched` | `Spec => []MatchesReference` | |

**RWLock.** Assumed: finitely many threads, of which `NoThread` is none, and at
least one slot. `Inv == TypeOK /\ CountsExact /\ MutualExclusion` is inductive.
Exclusion alone is not: a writer enters on the evidence of the counters, so the
counters must be known to count. `CountersAndSets` turns a counter that is zero
into a set that is empty. Nothing about the ring is needed, so exclusion holds
even when the ring overflows; what an overflow breaks are the wake-ups of
writers. `RingFits` says that there is a slot for every thread: `rwlock.h` makes
as many slots as the server has workers by default, and `RWLockOverflow` shows
the other case. `RingInv` adds that the slots from tail to head hold the pending
writers, each once (`RingQueue`, with the remainder of the indices in
`PlaceWraps`), and that the oldest is awake when it could enter
(`OldestAwake`); the refinement maps that segment to the queue of `RWLockSpec`.

**HashTable.** Assumed: finitely many buckets and nodes, distinct names for what
is no node, value or result. `LockInv` says who holds which lock and that
holders exclude each other. `TableInv` says of every bucket what its list is at
each statement of the worker inside: its nodes are allocated, reachable without
a cycle, in no other bucket, and the counter is off by what that worker has
still to add or take. Each step is shown once, for the worker that moves; the
others are in other buckets or only read this one. `Reach` is the least set
closed under `next`, so that what a step does to a list follows without
induction. `CallsInv` knows of every call under way what it will answer if it
has taken effect, and `ImplementsMap` places that moment.

**SkvsServer.** Assumed: sizes are naturals, a reply has at least one piece, the
receive buffer room for two. `OwnerInv` follows a connection from the backlog to
the worker that accepts and closes it, or dies with it. `Ordered` says of a client's
stream, the buffer of its worker and `executed` that requests come in the order they
were sent and that a line feed is the last of its line, so that what is executed next
is later than all that was; it holds whatever the client takes for a reply.
`Stage`, for a client that is not `split`, says what is under way: nothing (`Idle`), the
last request in stream and buffer (`Asked`), its reply in the worker's hands, in the
stream, or both (`Executed`). Sums over pieces are not needed, because a line in the
buffer is complete exactly if its last piece is, and a client that has taken the last
piece of a reply has, if it is not `split`, taken the others with it.

**JobControl.** `JobInv` says that the lists are disjoint and hold allocated
structures only, that `n_jobs` is a length, that a job has at least as many
processes to be reaped as live ones recorded (`Counts`), and that the shell has
prepared what it is about to use (`Launch`); it holds for pipelines, any number of
jobs and any race. The lookup may stand on a structure that is free: one that is
not is on a list, so its `next` is (`NextOnLists`). The lemmas about the handler
state what it preserves of a state in which the shell is stopped at any statement.
`Kept` adds, barring `report`, that the job which `check_bg_status` removes is still the
head of its list. `Waiting` adds, barring `lookup` and `id`, that ids are unique where the
shell looks one up and at most one job is in the foreground (`JobIds`), that the
lookup has not passed that job (`Searching`: it is ahead on the list, which the
handler keeps when it removes others, `UpToRemoved`), and that every foreground
process is recorded in it or about to be (`Awaited`).

**HeapMgr.** Assumed: sizes are naturals, the growth and the largest request at
least one, and `Null` is no address. The lemmas about a heap (`SplitKeeps`,
`RemoveKeeps`, `MergeKeeps`, `LinkKeeps`, `JoinKeeps`, `InsertFirst`,
`InsertAfter`, one per function of `chunk.c`) are about any headers (`Tiles`,
`Listed`, `Apart`), with `k` units in a chunk beside its data: two in
`heapmgr1.c`, one in `heapmgrbase.c`. The heap in them may be one that is between
two functions: while a chunk is being inserted it may touch its neighbours.

For `heapmgr1.c`, `Inv == Heap /\ Call /\ Blocks` is inductive. No part of it is
alone: a split keeps the tiling because the chunk that malloc found is free and
large enough (`Call`), the list stays exact only if the pointers of the walk are
neighbours in it, and a freed block is a chunk in use only by `Blocks`. `Call` is
what the local pointers of a call under way know: in the search that all free
chunks before `c` were refused and `prev` and `pprev` precede it, after the growth
that `c` is free and large enough. The two walks of `check_heap_validity` meet
chunks only (`WalkExists`, `WalkStays`). The blocks are disjoint, which
`HeapIsAllocator` needs, because the chunks tile.

For `heapmgrbase.c` the functions are the same on other headers (`BaseMerge`,
`BaseSplit`, `BaseRemove`, `BaseInsert`, `BaseInsertAfter`), and
`BaseInv` is inductive: the heap is `Kept` (tiled, its list exact, nothing
touches) and the blocks are data of chunks in use. A call is one step, so that
the place at which a walk ends takes the part of `Call`: `WalkAscends` says that
the walk meets free chunks in ascending order, `FirstPlaceStops` that everything
before its place was refused and that what `prev` and `pprev` stand on are
neighbours of it. `AdjacentWalk` and `ListMet` show that the walks of
`check_heap_validity` meet not only chunks but all of them.

**Shell.** Assumed of the characters: those that the lexer treats alike, the
`Letters`, are none of the quotes, the operators and the blank
(`CharsAssumption`). Lines of any length are covered.

For the lexer, `Lexed` says that a prefix of the line has been understood: the
automaton's quote is the one that the reference has open (`Open`), and the tokens
so far, with the word it is in as the last one, are the `TokensOf` the prefix. What
one more character changes in the reference is shown first: nothing of what was
open (`OpenKept`), of where tokens start (`StartsGrow`) or of tokens that have ended
(`TokensKept`); a break adds its own token (`BreakAppended`), anything else begins a
word (`WordBegun`) or makes the last one longer (`WordContinued`).

For the parser, `syntax_check` judges token by token and the grammar command by
command. `SoundLine` says that no token has a `Fault` exactly if the line without a
final `&` is `WellFormed`, a statement about places on the line; `CommandsSound`,
`OrderSound` and `OnceSound` say that it is what the grammar asks of the commands,
because a place is in one command only (`CutAround`, `OnePlace`).

For the executor, `LocationIs` shows that `find_pipe_loc`, called again and again on
its own result, comes to one cut after the other, and `NextBuilt` that a command
under construction has exactly the words before each kind of place, and waits for a
file exactly if the last token was a redirection. This needs the line to be
well-formed: on others the two disagree, which is why `CommandsAsWritten` speaks of
accepted lines only. That a command overflows `args` exactly if it has
`MAX_ARGS_CNT` words or more follows from its having exactly its own words.

For the pipeline, `Wired` says of every statement of the shell's loop which ends it has
open: at most the read end before the command (`Kept`, which is `save_fd`) and
both ends behind it (`Made`). A child inherits those, which are all around its
place, and so `ChildExec` closes every one it does not use. Nothing is assumed of
the pipeline's length, of what pipes hold or of which calls fail.

**DirTree.** Assumed: a file system is a finite tree in which what an entry is in
is a directory, no entry below an argument has the name of a dot, and no size is
negative (`TreesAssumption`); arguments are paths (`PathsAssumption`). `DirInv` speaks of
the walk over one argument. `Chain` says that the stack is a path down the tree,
each call in the directory which the call below it on the stack has just printed.
An entry is `Pending` if a call on the stack has still to come to it or to
something it is in; `Faithful`, that what has been printed is exactly what is
`Reached` (not hidden by a failure) and no longer pending, and that nothing that
has failed is pending. Completeness follows when the stack is empty, since
nothing is pending then. For the order, `WalkPrecedes`: what is not pending
precedes what is, in any chain, so that the line of an entry that was pending may
be appended. `ScandirSorts` shows that the entries of a directory are in the order
of `dirent_compare`, each once, by the rank of each (`Ranking`).

`ColumnsRight` adds `TreeInv`: with `-t`, the string of a call is the prefix its
directory was printed with and one column more, a bar exactly if that directory has
an entry after it (`Strung`, `Drawn`). A call decides this from its own counter, the
property from the tree; they agree because the last entry that the loop comes to is
the last entry of the directory (`LastEntry`), and `LastOf` ties that to `IsLastOf`.
It is so only if the listing does not end in one of the dots, which the loop skips
after it has decided the column: `TreeDrawn` says so itself (`DotsNotLast`), and
`TidyTrees` turns it into what the walk needs (every directory with an entry has
one that sorts behind `..`).

`SummariesExact` adds `TotalsInv`, of the counters of `calculateFileInfo` and `main`
and the sums of the lines printed so far. It speaks of the sums for every set of
arguments (`Additive`: they add up), so that the total can take the place of the
counts when these are set to 0. The sums are the library's fold; `TalliedExists`
and `TalliedTo` are its unfolding, `SumsAppend` that a line more adds what is on it.
A counter and its sum agree in their blocks only where no line shows a device (`Alike`,
`Devs`); two sets of arguments have the devices of both (`DevsOfBoth`), so this too
survives the step from the counts of one argument to the total.

**Decomment.** `LinesKept` with `TypeOK` is inductive: `Balanced` says that a step
that reads a character, prints a newline exactly if that is one, and counts it,
keeps it, and every action is shown to be such a step. `Simulates` relates the
flags of the first program to the states of the second, and the two outputs,
for every character read.

`ReferenceMatched` needs to know, in the middle of the input, what the reference
will make of it once it is complete. `Goes(s, p, done)` says that whatever
follows `s`, the reference leaves `done` for the lexemes before `p` and goes on
at `p` with no comment open; `Reading`, that the lexeme at `p` has no end in `s`
yet. `Cut` says which of them holds in each loop, and what the flag then stands
for: in `main` the slash held back is the place `p`, in a block comment a star
that may end it, in a literal an odd number of backslashes (`EscapedNext`). A step
ends the lexeme exactly if the character is the first that may (`LexemeGoesOn`,
`Closes`). What a lexeme is does not change when more is read (`LexemeKept`,
`TextKept`), provided its kind is known (`Settled`), which is why a slash is held
back. `TextsIs` and `OpensIs` show that the recursive definitions have a value.

**How data is reasoned about.** The provers cannot instantiate the library's
induction theorems. Where an argument needs induction (lists, counting live
processes, recursive functions) it is by a least element of a set of naturals or a
minimal subset (`Least` and its kin), which needs none.

Only model-checked: liveness, and the fairness part of the refinements, since TLAPS
does not reason about `ENABLED`; and two invariants of `JobControl`, `ReapedJobsLeave`
and `NoOrphans`, which need the group and the slot of every process through
pipelines, failing children and the walk of `terminate_jobs`. Every other invariant
of a passing run is stated by a theorem.

## 6. Where the code departs from its documents

Shown by a run:

* **`RWLockOverflow`.** `server -t` accepts more threads than
  `WRITER_RING_SIZE`. With the ring full, head equals tail, which the unlock
  functions (`rwlock.c:118`, `205`) take for "nobody is pending": no writer is
  woken. The readme (`lab5/readme.md:321`) says a writer should be signalled.
* **`JobControlWait`.** `wait_fg` (`execute.c:133`) walks the job list with signals
  unblocked. If the handler moves the background job it stands on to `done_bg_jobs`, the
  walk goes on there, does not find the foreground job, and the shell prompts while
  that job runs. `lab4/README.md:85`: the shell should wait for its children to
  complete before accepting new commands.
* **`JobControlPipeline`.** Signals are unblocked after the first process of a
  pipeline; a later one that ends before its pid is stored (`execute.c:411`) is
  reaped without being found, and the job stays on the list, with the shell
  waiting for it. `lab4/README.md:98`: a job whose processes have terminated is
  removed.
* **`JobControlExit`.** `terminate_jobs` reads `curr->next` after it killed the job,
  with signals unblocked: the handler may have moved the job to `done_bg_jobs` by
  then, the walk goes on there, and the second background job is never killed; the
  first is freed twice, at which the allocator may also abort. The comment at
  `snush.c:86`, on a loop of `cleanup` that by then finds the list empty, says what
  `cleanup` is for: "kill all process".

In the models, as a case that a property excepts:

* With two background jobs, `check_bg_status` can overwrite the head of
  `done_bg_jobs` (`snush.c:43`) just after the handler pushed a job there: the job is
  never reported (`lab4/README.md:88`) nor freed. Race `report`, `NoJobLost`.
* `add_job` numbers a job `n_jobs + 1` (`job.c:59`), which an older job may still
  have; `lab4/README.md:84` asks for unique ids. Race `id`.
* The client takes one `recv` for the reply (`client.c:115`), although
  `lab5/readme.md:307` speaks of messages of arbitrary length that arrive at any time.
  `split`, `ReplyMatches`.
* The client sends a last line without a line feed (`client.c:103`), and the server
  waits for the line feed (`server.c:105`): both wait. `WaitForEachOther`.
* `send` has no time-out: a client that does not read keeps a worker, and
  `pthread_join` after Ctrl+C. `ShutdownCompletes`.
* An error of one client's `send` ends the whole server (`server.c:139`, and the SIGPIPE
  at 132). `Die`.
* A command of 64 words or more overflows `args` (`execute.c:59`, `65`, `lexsyn.h:17`) in
  the child's copy of the stack, although no input should crash the shell
  (`lab4/README.md:127`). `CommandsAsWritten`.
* A block device adds a block to the summary (`dirtree.c:226`) that its line does not
  show, and is not one of 512 bytes (`dirtree.c:41`, `lab2/README.md:190`). `TotalsExact`.
* An entry is the last of its level only if `scandir` returned it last: with all names
  before `..`, none is (`dirtree.c:329`). `TreeDrawn`.

## 7. Not modelled, and the plan

Not modelled, with the reason:

* the failure branches of the pthread calls: they fail only on objects that are
  invalid, which no caller here passes; `rwlock_init` on fresh memory;
* the hash function's arithmetic (a constant of the model: any function will do)
  and failing allocations in the table;
* the words of requests and replies; the address set-up of sockets;
* stopped processes; a handler that interrupts `malloc` or another handler
  (below the granularity of the model);
* widths of columns, owners and groups in dirtree; entries of type `DT_UNKNOWN`; the
  string of a prefix, which from about 26 levels on leaves no room for a name
  (`dirtree.c:114-133`; `lab2/README.md` exempts such depths); dynarray's growth;
* the numbers of descriptors: that one is reused after `close` is not represented, only
  that no connection is used after it;
* sizes near `SIZE_MAX` in the heap managers, where `heapmgr1.c:84` and `266` wrap;
* footers and `prev` pointers of `heapmgr1.c`, which it writes and never reads;
* `heapmgr2.c`: optional (`lab3/README.md`), and unfinished as it reads: the
  single free list is still kept beside the bins, and `heapmgr_free` removes the
  freed chunk from a bin in which it is not. There is no intended behaviour of
  the whole to state properties of;
* the debug server and client, the copies as handed in, the K&R and GNU
  allocators, and the test drivers.

What is left to prove is liveness, `ReapedJobsLeave` and `NoOrphans`.
