------------------------------ MODULE MCDirTree ------------------------------
(* All file systems of a few entries, with names on both sides of "..".    *)
EXTENDS DirTree

Early == 0   \* a name before ".."
First == 3
Second == 4
Missing == 5

Root(name) == <<name>>
(* Below the directory First; Second is a directory with one file.         *)
Places == {<<First, a>> : a \in {Early, First, Second}}
          \union {<<First, First, b>> : b \in {First, Second}}
          \union {<<First, First, First, First>>}
Closed(S) == \A p \in S : Len(p) > 2 => Front(p) \in S

Entry(type) ==
  [type |-> type,
   size |-> IF type = "file" THEN 5 ELSE IF type = "link" THEN 2 ELSE 1,
   blocks |-> IF type = "file" THEN 3 ELSE 1]
InnerOf(S) == {p \in S : \E q \in S : Len(q) > Len(p) /\ SubSeq(q, 1, Len(p)) = p}
LeafTypes == {"file", "dir"}
TreesOver(S) ==
  {[p \in S \union {<<First>>, <<Second>>, <<Second, First>>} |->
      IF p \in S \ InnerOf(S) THEN Entry(leaf[p])
      ELSE IF p = <<Second, First>> THEN Entry("link") ELSE Entry("dir")] :
     leaf \in [S \ InnerOf(S) -> LeafTypes]}
SmallTrees == UNION {TreesOver(S) : S \in {T \in SUBSET Places : Closed(T)}}

(* The current directory, with an entry of each type.                      *)
Types == <<"file", "link", "fifo", "sock", "block", "char">>
Everything ==
  [p \in {<<Dot>>} \union {<<Dot, n>> : n \in First .. First + 5} |->
     IF p = <<Dot>> THEN Entry("dir") ELSE Entry(Types[p[2] - First + 1])]

AllTrees == SmallTrees \union {Everything}

(* Every choice of options, with one directory, two, or one that is not    *)
(* there; none, too many, and the lines that only print the usage text.    *)
GivenOptions ==
  {SelectSeq(<<Option("t"), Option("s"), Option("v")>>, LAMBDA o : o.option \in S) :
     S \in SUBSET {"t", "s", "v"}}
GivenDirectories ==
  {<<>>, <<Directory(Root(First))>>, <<Directory(Root(Missing))>>,
   <<Directory(Root(First)), Directory(Root(Second))>>}
SmallCommandLines ==
  {o \o d : o \in GivenOptions, d \in GivenDirectories}
  \union {<<Directory(Root(Second)), Option("s"), Directory(Root(First)),
            Directory(Root(Missing))>>,
          <<Option("t"), Option("h")>>, <<Directory(Root(First)), Option("unknown")>>}
=============================================================================
