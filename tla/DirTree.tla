------------------------------ MODULE DirTree -------------------------------
(***************************************************************************)
(* dirtree of lab2: the walk of processDir over the directories given on   *)
(* the command line, what it prints for every entry, and the summary.      *)
(*                                                                         *)
(* A path is the sequence of the names on it, and a name a number: its     *)
(* place in the order of strcmp.  A prefix is the sequence of its columns  *)
(* of two characters; of a column only the line in it matters, so that     *)
(* "|-" is "bar", "`-" is "corner" and "  " is "blank".  What is printed   *)
(* is a record with the argument it belongs to; texts are left out.        *)
(***************************************************************************)
EXTENDS Integers, Sequences, FiniteSets, SequencesExt, FiniteSetsExt

CONSTANTS Trees,        \* file systems: from paths to type, size and blocks
          CommandLines, \* sequences of options and paths
          MAX_DIR,      \* paths that are taken
          Dot, DotDot,  \* the names of a directory in itself
          MaxFailures   \* system calls that fail in one execution

ASSUME DotsAssumption == Dot \in Int /\ DotDot \in Int /\ Dot < DotDot
ASSUME LimitAssumption == MAX_DIR \in Nat \ {0}

(* A file system is a finite tree: an entry is in a directory, and none    *)
(* has the name of a directory in itself; no size is negative.             *)
ASSUME TreesAssumption ==
  \A tree \in Trees :
    /\ IsFiniteSet(DOMAIN tree)
    /\ \A p \in DOMAIN tree :
         /\ p \in Seq(Int) /\ p /= <<>>
         /\ tree[p].size \in Nat /\ tree[p].blocks \in Nat
         /\ Len(p) > 1 => /\ Front(p) \in DOMAIN tree
                          /\ tree[Front(p)].type = "dir"
                          /\ Last(p) \notin {Dot, DotDot}

VARIABLES
  fs, args, flags,  \* the file system, the directories and the options given
  arg,              \* argument being processed, from 1
  stack,            \* the calls of processDir
  out,              \* what is printed
  tstat,            \* counts of this argument
  total,            \* files, dirs, ..., blocks of main
  dirsOpen,         \* DIR streams
  failures

input == <<fs, args, flags>>
vars == <<input, arg, stack, out, tstat, total, dirsOpen, failures>>

Counted == {"file", "dir", "link", "fifo", "sock"}
Zero == [count |-> [t \in Counted |-> 0], size |-> 0, blocks |-> 0]
Plus(a, b) == [count |-> [t \in Counted |-> a.count[t] + b.count[t]],
               size |-> a.size + b.size, blocks |-> a.blocks + b.blocks]

(* The command line: options anywhere, at most MAX_DIR directories, the    *)
(* current one if none is given.  "h" and "unknown" end the program with   *)
(* the usage text.                                                         *)
Option(o) == [option |-> o, path |-> <<>>]
Directory(p) == [option |-> "none", path |-> p]
Options(argv) == {argv[j].option : j \in DOMAIN argv} \ {"none"}
Directories(argv) ==
  LET given == SelectSeq(argv, LAMBDA a : a.option = "none")
  IN  IF given = <<>> THEN <<<<Dot>>>>
      ELSE [j \in 1 .. Min({Len(given), MAX_DIR}) |-> given[j].path]
Usage(argv) == Options(argv) \intersect {"h", "unknown"} /= {}

ASSUME PathsAssumption ==
  \A argv \in CommandLines : Directories(argv) \in Seq(Seq(Int))

Init ==
  /\ fs \in Trees
  /\ \E argv \in CommandLines :
       /\ flags = Options(argv)
       /\ args = IF Usage(argv) THEN <<>> ELSE Directories(argv)
       /\ arg = IF Usage(argv) THEN 2 ELSE 1
  /\ stack = <<>> /\ out = <<>>
  /\ tstat = Zero /\ total = Zero /\ dirsOpen = 0 /\ failures = 0

Printed(kind, path, content) ==
  [kind |-> kind, arg |-> arg, path |-> path, content |-> content]

-----------------------------------------------------------------------------
(* A directory's entries as scandir returns them: directories first, then  *)
(* by name.  Mutant: by name only.                                         *)
IsDir(dir, name) ==
  name \in {Dot, DotDot} \/ fs[Append(dir, name)].type = "dir"
dirent_compareMutNameOnly(dir, a, b) == a < b
dirent_compare(dir, a, b) ==
  IF IsDir(dir, a) /= IsDir(dir, b) THEN IsDir(dir, a) ELSE a < b

Children(dir) == {p \in DOMAIN fs : Len(p) = Len(dir) + 1 /\ Front(p) = dir}
scandir(dir) ==
  LET names == {Last(p) : p \in Children(dir)} \union {Dot, DotDot}
      Rank(a) == Cardinality({b \in names : dirent_compare(dir, b, a)})
  IN  [j \in 1 .. Cardinality(names) |-> CHOOSE a \in names : Rank(a) = j - 1]

(* The prefix of an entry of a directory that has prefix pstr.  Mutant:    *)
(* the corners of the levels above stay.                                   *)
calculatePrefixMutKeepsCorner(pstr, isLastEntry) ==
  IF "t" \in flags
  THEN Append(Front(pstr), IF isLastEntry THEN "corner" ELSE "bar") ELSE pstr
calculatePrefix(pstr, isLastEntry) ==
  LET above == [c \in 1 .. Len(pstr) - 1 |->
                  IF pstr[c] = "corner" THEN "blank" ELSE pstr[c]]
  IN  IF "t" \in flags
      THEN Append(above, IF isLastEntry THEN "corner" ELSE "bar") ELSE pstr

(* A block device has no counter of its own: it adds one to the blocks.    *)
calculateFileInfo(st) ==
  [count |-> [t \in Counted |-> tstat.count[t] + (IF st.type = t THEN 1 ELSE 0)],
   size |-> tstat.size + st.size,
   blocks |-> tstat.blocks + st.blocks + (IF st.type = "block" THEN 1 ELSE 0)]

(* What -v prints of an entry, but for its owner: a regular file has no    *)
(* letter for its type.                                                    *)
calculateVerbose(st) ==
  [size |-> st.size, blocks |-> st.blocks,
   type |-> IF st.type = "file" THEN "blank" ELSE st.type]

-----------------------------------------------------------------------------
Top == stack[Len(stack)]
Return == stack' = Front(stack)
processDir(dir, pstr) ==
  [dn |-> dir, pstr |-> pstr, entries |-> <<>>, i |-> 0]

(* main calls processDir for an argument, with a header for -s.            *)
StartArgument ==
  /\ stack = <<>> /\ arg <= Len(args)
  /\ \A j \in DOMAIN out : out[j].arg < arg
  /\ stack' = <<processDir(args[arg], <<IF "t" \in flags THEN "bar" ELSE "blank">>)>>
  /\ out' = out \o (IF "s" \in flags THEN <<Printed("header", <<>>, {})>> ELSE <<>>)
            \o <<Printed("base", args[arg], {})>>
  /\ UNCHANGED <<input, arg, tstat, total, dirsOpen, failures>>

(* opendir and scandir succeed; i counts from 1 when they have.            *)
OpenDir ==
  /\ stack /= <<>> /\ Top.i = 0
  /\ Top.dn \in DOMAIN fs /\ fs[Top.dn].type = "dir"
  /\ stack' = [stack EXCEPT ![Len(stack)].entries = scandir(Top.dn),
                            ![Len(stack)].i = 1]
  /\ dirsOpen' = dirsOpen + 1
  /\ UNCHANGED <<input, arg, out, tstat, total, failures>>

(* opendir fails, or scandir does and the stream is closed again.          *)
OpenFails ==
  /\ stack /= <<>> /\ Top.i = 0
  /\ \/ Top.dn \notin DOMAIN fs /\ UNCHANGED failures
     \/ Top.dn \in DOMAIN fs /\ fs[Top.dn].type /= "dir" /\ UNCHANGED failures
     \/ failures < MaxFailures /\ failures' = failures + 1
  /\ out' = Append(out, Printed("unreadable", Top.dn, {}))
  /\ Return
  /\ UNCHANGED <<input, arg, tstat, total, dirsOpen>>

-----------------------------------------------------------------------------
(* The body of the loop over the entries.                                  *)
MoreEntries == stack /= <<>> /\ Top.i \in DOMAIN Top.entries
Name == Top.entries[Top.i]
Path == Append(Top.dn, Name)
Prefix == calculatePrefix(Top.pstr, Top.i = Len(Top.entries))
NextEntry == [stack EXCEPT ![Len(stack)].i = @ + 1]

SkipDots ==
  /\ MoreEntries /\ Name \in {Dot, DotDot}
  /\ stack' = NextEntry
  /\ UNCHANGED <<input, arg, out, tstat, total, dirsOpen, failures>>

(* The entry is gone before lstat looks at it.                             *)
LstatFails ==
  /\ MoreEntries /\ Name \notin {Dot, DotDot}
  /\ failures < MaxFailures /\ failures' = failures + 1
  /\ out' = Append(out, Printed("gone", Path, {}))
  /\ stack' = NextEntry
  /\ UNCHANGED <<input, arg, tstat, total, dirsOpen>>

(* The entry is counted and printed, and a directory descended into with a *)
(* prefix that is one column longer.                                       *)
PrintEntry ==
  /\ MoreEntries /\ Name \notin {Dot, DotDot}
  /\ tstat' = calculateFileInfo(fs[Path])
  /\ out' = Append(out, Printed("entry", Path,
                     [prefix |-> Prefix,
                      verbose |-> IF "v" \in flags THEN {calculateVerbose(fs[Path])} ELSE {}]))
  /\ stack' = IF IsDir(Top.dn, Name)
              THEN Append(NextEntry, processDir(Path, Append(Prefix, "blank")))
              ELSE NextEntry
  /\ UNCHANGED <<input, arg, total, dirsOpen, failures>>

CloseDir ==
  /\ stack /= <<>> /\ Top.i > Len(Top.entries) /\ Top.i > 0
  /\ Return
  /\ dirsOpen' = dirsOpen - 1
  /\ UNCHANGED <<input, arg, out, tstat, total, failures>>

-----------------------------------------------------------------------------
(* Back in main: the summary for -s, and the counts go into the total and  *)
(* are set to 0.  Mutant: they are not.                                    *)
Summary == IF "s" \in flags THEN <<Printed("summary", args[arg], tstat)>> ELSE <<>>
ArgumentDone == /\ stack = <<>> /\ arg <= Len(args)
                /\ out /= <<>> /\ Last(out).arg = arg
FinishArgumentMutKeepsCounts ==
  /\ ArgumentDone
  /\ out' = out \o Summary
  /\ total' = Plus(total, tstat)
  /\ arg' = arg + 1
  /\ UNCHANGED <<input, stack, tstat, dirsOpen, failures>>
FinishArgument ==
  /\ ArgumentDone
  /\ out' = out \o Summary
  /\ total' = Plus(total, tstat)
  /\ tstat' = Zero
  /\ arg' = arg + 1
  /\ UNCHANGED <<input, stack, dirsOpen, failures>>

GrandTotal ==
  /\ arg = Len(args) + 1
  /\ out' = out \o (IF "s" \in flags /\ Len(args) > 1
                    THEN <<Printed("total", <<>>, total)>> ELSE <<>>)
  /\ arg' = arg + 1
  /\ UNCHANGED <<input, stack, tstat, total, dirsOpen, failures>>

Next ==
  \/ StartArgument \/ OpenDir \/ OpenFails \/ SkipDots \/ LstatFails
  \/ PrintEntry \/ CloseDir \/ FinishArgument \/ GrandTotal

Spec == Init /\ [][Next]_vars

-----------------------------------------------------------------------------
Done == arg = Len(args) + 2
Numbers(n, kind) == {j \in DOMAIN out : out[j].arg = n /\ out[j].kind = kind}
Paths(n, kind) == {out[j].path : j \in Numbers(n, kind)}

(* Reference: what is below an argument and not hidden by a failure.       *)
Above(q) == {SubSeq(q, 1, j) : j \in 1 .. Len(q) - 1}
Listed(n) ==
  {q \in DOMAIN fs : /\ args[n] \in Above(q)
                     /\ (Above(q) \ Above(args[n]))
                          \intersect (Paths(n, "unreadable") \union Paths(n, "gone")) = {}
                     /\ q \notin Paths(n, "gone")}

(* Reference: of two paths the one that leads to the other comes first, or *)
(* the one that is a directory where they part, or the smaller name.       *)
Before(p, q) ==
  \/ p \in Above(q)
  \/ \E j \in 1 .. Len(p) :
       /\ j <= Len(q) /\ p[j] /= q[j] /\ SubSeq(p, 1, j - 1) = SubSeq(q, 1, j - 1)
       /\ LET first == fs[SubSeq(p, 1, j)].type = "dir"
              second == fs[SubSeq(q, 1, j)].type = "dir"
          IN  (first /\ ~second) \/ (first = second /\ p[j] < q[j])

(* Each entry below an argument is printed once, in order, unless a system *)
(* call failed on it or on the way to it, whatever else failed; and every  *)
(* directory that was opened is closed.                                    *)
EntriesListed ==
  Done =>
    /\ \A n \in DOMAIN args :
         /\ Paths(n, "entry") = Listed(n)
         /\ \A i, j \in Numbers(n, "entry") :
              i < j => Before(out[i].path, out[j].path)
    /\ dirsOpen = 0

(* With -t a column of the prefix shows whether there is more to come on   *)
(* its level, as long as no directory ends in a name that sorts before     *)
(* "..".                                                                   *)
IsLastOf(p) == \A q \in Children(Front(p)) : q = p \/ Before(q, p)
DotsNotLast ==
  \A p \in DOMAIN fs : fs[p].type = "dir" => Last(scandir(p)) /= DotDot \/ Children(p) = {}
TreeDrawn ==
  "t" \in flags /\ DotsNotLast =>
    \A j \in DOMAIN out : out[j].kind = "entry" =>
      LET p == out[j].path
          base == Len(args[out[j].arg])
          prefix == out[j].content.prefix
      IN  /\ Len(prefix) = Len(p) - base
          /\ \A c \in DOMAIN prefix :
               prefix[c] = IF ~IsLastOf(SubSeq(p, 1, base + c)) THEN "bar"
                           ELSE IF c = Len(prefix) THEN "corner" ELSE "blank"

(* Reference: what a printed line adds to the counts and, with -v, to the  *)
(* columns, and the sums of that over all lines of the arguments N.        *)
Adds(l) ==
  LET column == IF l.content.verbose = {} THEN Zero
                ELSE CHOOSE v \in l.content.verbose : TRUE
  IN  [count |-> [t \in Counted |-> IF fs[l.path].type = t THEN 1 ELSE 0],
       size |-> column.size, blocks |-> column.blocks]
SumOf(N) ==
  LET Add(sum, l) ==
        IF l.kind = "entry" /\ l.arg \in N THEN Plus(sum, Adds(l)) ELSE sum
  IN  FoldLeft(Add, Zero, out)

(* The blocks are those of the lines unless a block device is among them,  *)
(* for which calculateFileInfo adds a block that no line shows.            *)
Devices(N) == {j \in DOMAIN out : /\ out[j].kind = "entry" /\ out[j].arg \in N
                                  /\ fs[out[j].path].type = "block"}
Agree(a, N) ==
  LET sum == SumOf(N)
  IN  /\ a.count = sum.count
      /\ "v" \in flags => /\ a.size = sum.size
                          /\ Devices(N) = {} => a.blocks = sum.blocks

(* With -s every argument has one summary, the counts and sums of the      *)
(* lines printed for it, and two arguments or more have one of all lines.  *)
TotalsExact ==
  Done /\ "s" \in flags =>
    /\ \A n \in DOMAIN args : \E j \in DOMAIN out :
         Numbers(n, "summary") = {j} /\ Agree(out[j].content, {n})
    /\ Len(args) > 1 => \E j \in DOMAIN out :
         /\ Numbers(Len(args) + 1, "total") = {j}
         /\ Agree(out[j].content, DOMAIN args)
=============================================================================
